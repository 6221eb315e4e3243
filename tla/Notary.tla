------------------------------- MODULE Notary -------------------------------
(***************************************************************************)
(* What the attestation service promises, without its awaits: an attestor  *)
(* that decides in one step.  It refuses a request, or it looks at the     *)
(* chain at this very moment and signs a statement about final blocks that *)
(* is true then and answers the request.                                   *)
(***************************************************************************)
EXTENDS Chain, Sequences

CONSTANTS
    Calls,
    Requests,
    MaySpeakOf(_, _)  \* may an attestation for height h speak of block v?

VARIABLES
    asked,   \* the request of each call
    told,    \* what it was told, if anything
    signed   \* every attestation there is a signature of

notaryVars == <<chainVars, asked, told, signed>>

Unasked == [method |-> "none"]

Nothing == [code |-> "none"]
Refused == [code |-> "refused"]
Gone == [code |-> "gone"]

FinalHeights == {v \in 0..latest : Final(v)}

Value(v, type, p) == Read(blocks[v].store[Path(type, p)])

\* What a packet, an acknowledgement or a receipt must be in order to be
\* attested to: the value computed from the packet, anything, or absent.
Attestable(type, p, value) ==
    CASE type = "packet"  -> value = p.body
      [] type = "ack"     -> value # Zero
      [] type = "receipt" -> value = Zero
      [] OTHER            -> FALSE

StateAnswers(q) ==
    {[kind |-> "state", height |-> q.height, time |-> blocks[q.height].time]}

\* For each packet, in order, what one of the blocks holds.
PacketAnswers(q) ==
    LET ChosenBlocks ==
            {w \in [DOMAIN q.packets -> {v \in FinalHeights : MaySpeakOf(q.height, v)}] :
                \A i \in DOMAIN q.packets :
                    Attestable(q.type, q.packets[i], Value(w[i], q.type, q.packets[i]))}
        Entry(i, v) == [path |-> Path(q.type, q.packets[i]),
                        commitment |-> Value(v, q.type, q.packets[i])]
    IN  {[kind |-> "packet", height |-> q.height,
          packets |-> [i \in DOMAIN q.packets |-> Entry(i, w[i])]] : w \in ChosenBlocks}

\* The statements that are true now and answer request q.
TrueAnswers(q) ==
    IF q.height \notin FinalHeights THEN {}
    ELSE CASE q.method = "state"  -> StateAnswers(q)
           [] q.method = "packet" -> PacketAnswers(q)
           [] OTHER               -> {}

-----------------------------------------------------------------------------

Tell(c, r) == told[c] = Nothing /\ told' = [told EXCEPT ![c] = r]

Ask(c) ==
    /\ asked[c] = Unasked
    /\ \E q \in Requests : asked' = [asked EXCEPT ![c] = q]
    /\ Tell(c, Refused) \/ UNCHANGED told
    /\ UNCHANGED <<chainVars, signed>>

Waiting(c) == asked[c] # Unasked /\ told[c] = Nothing

\* Refuse, or tell a final height, or see the caller go.
Reply(c) ==
    /\ Waiting(c)
    /\ \/ Tell(c, Refused)
       \/ Tell(c, Gone)
       \/ /\ asked[c].method = "latest_height"
          /\ \E h \in FinalHeights : Tell(c, [code |-> "ok", height |-> h])
    /\ UNCHANGED <<chainVars, asked, signed>>

\* The answer is true at the moment at which it is given.
Attest(c) ==
    /\ Waiting(c)
    /\ \E a \in TrueAnswers(asked[c]) :
        /\ Tell(c, [code |-> "ok", attestation |-> a])
        /\ signed' = signed \cup {a}
    /\ UNCHANGED <<chainVars, asked>>

\* A signature that nobody has been told of, and perhaps nobody will be.
SignUnseen(c) ==
    /\ asked[c] # Unasked
    /\ \E a \in TrueAnswers(asked[c]) : signed' = signed \cup {a}
    /\ UNCHANGED <<chainVars, asked, told>>

Init ==
    /\ ChainInit
    /\ asked = [c \in Calls |-> Unasked]
    /\ told = [c \in Calls |-> Nothing]
    /\ signed = {}

Next ==
    \/ ChainNext /\ UNCHANGED <<asked, told, signed>>
    \/ \E c \in Calls : Ask(c) \/ Reply(c) \/ Attest(c) \/ SignUnseen(c)

Spec == Init /\ [][Next]_notaryVars
=============================================================================
