----------------------------- MODULE MCAttestor -----------------------------
(***************************************************************************)
(* Instances of Attestor for TLC.  The chain sends one packet and may      *)
(* receive another; callers also ask about an altered copy of the first.   *)
(***************************************************************************)
EXTENDS AttestorRefinement, TLC

PacketRecord(src, dst, seq, body, timeout) ==
    [src |-> src, dst |-> dst, seq |-> seq, body |-> body, timeout |-> timeout]

Sent == PacketRecord("A", "B", 1, "sent", 9)
Altered == PacketRecord("A", "B", 1, "altered", 9)
Arriving == PacketRecord("B", "A", 1, "arriving", 2)

MCPackets == {Sent, Altered, Arriving}
MCOutgoing == {Sent}
MCIncoming == {Arriving}
MCAcks == {"ack"}
MCTwoAcks == {"ack", "other_ack"}

Ask(method, height, packets, type) ==
    [method |-> method, height |-> height, packets |-> packets, type |-> type, decodes |-> TRUE]

State(h) == Ask("state", h, <<>>, "packet")
Batch(h, ps, type) == Ask("packet", h, ps, type)

\* Two calls that race with each other and with the chain.  Attestations at
\* heights 1 and 2, a batch whose checks may end differently, an empty batch,
\* and requests that are refused before anything is awaited.
RaceRequests ==
    {State(1), State(2), Batch(1, <<Sent, Altered>>, "packet"), Batch(2, <<Sent>>, "packet")}
    \cup {Batch(h, <<Arriving>>, type) : h \in {1, 2}, type \in {"receipt", "ack"}}

\* Every kind of batch and of refusal, an empty batch, an absence attested to
\* at the time of the timeout, and the smallest heights, where a finality
\* offset saturates.
OffsetRequests ==
    {Ask("latest_height", 0, <<>>, "packet"), State(1), State(2),
     Batch(0, <<Sent>>, "packet"), Batch(1, <<>>, "packet"), Batch(1, <<Sent>>, "unknown"),
     [Batch(1, <<Sent>>, "packet") EXCEPT !.decodes = FALSE],
     Batch(1, <<Sent, Altered, Arriving>>, "packet"), Batch(2, <<Arriving>>, "receipt")}
    \cup {Batch(1, <<Arriving, Sent>>, type) : type \in CommitmentTypes}

\* What is asked of an offset that reaches below genesis.
EarlyRequests == {Ask("latest_height", 0, <<>>, "packet"), Batch(0, <<Sent>>, "packet")}
    \cup RaceRequests

CallSymmetry == Permutations(Calls)
=============================================================================
