------------------------------- MODULE Chain -------------------------------
(***************************************************************************)
(* The chain an attestor watches, external to the repository: a growing    *)
(* list of blocks, each with a timestamp and the router's store of IBC     *)
(* commitments.  Blocks above `settled` may be replaced by a reorg; the    *)
(* ones at or below it, and genesis, never are.                            *)
(***************************************************************************)
EXTENDS Integers

CONSTANTS
    Packets,    \* every packet a request may name, genuine or altered
    Outgoing,   \* the genuine packets this chain sends
    Incoming,   \* the genuine packets this chain may receive
    Acks,       \* the acknowledgement commitments this chain may write
    MaxReorg,   \* no reorg replaces more than this many blocks
    TimeSteps,  \* by how much the time of a block may exceed its parent's
    MaxHeight   \* bound: the chain stops growing at this height

VARIABLES
    latest,     \* height of the newest block
    blocks,     \* height -> block, for the heights 0..latest
    settled     \* height of the newest block no reorg replaces, -1 if none

chainVars == <<latest, blocks, settled>>

(***************************************************************************)
(* A commitment is 32 bytes: a value that is either all zeroes or not.     *)
(* `body` stands for the hash of a packet's destination, timeout and       *)
(* payloads.  A cleared packet commitment reads as zero and its sequence   *)
(* is not used again, so the store keeps it apart from a fresh cell.       *)
(***************************************************************************)
Zero == "zero"
Cleared == "cleared"
Received == "received"

Commitments == {p.body : p \in Packets} \cup Acks \cup {Received}
Cells == Commitments \cup {Zero, Cleared}

CommitmentTypes == {"packet", "ack", "receipt"}

\* The ICS24 path: a packet is committed under its source client, its
\* receipt and acknowledgement under its destination client.
Path(type, p) == <<type, IF type = "packet" THEN p.src ELSE p.dst, p.seq>>
Paths == {Path(type, p) : type \in CommitmentTypes, p \in Packets}

Store == [Paths -> Cells]
Block == [time : Nat, store : Store]

ASSUME PacketAssumption ==
    /\ Outgoing \subseteq Packets /\ Incoming \subseteq Packets
    /\ \A p \in Packets : p.timeout \in Nat
    /\ {Zero, Cleared} \cap Commitments = {}
    /\ \A p, q \in Packets : p.body = q.body => p.timeout = q.timeout /\ p.dst = q.dst
    /\ \A p, q \in Outgoing : Path("packet", p) = Path("packet", q) => p = q
    /\ \A p, q \in Incoming : Path("receipt", p) = Path("receipt", q) => p = q

ASSUME ChainAssumption ==
    /\ MaxReorg \in Nat /\ MaxHeight \in Nat
    /\ TimeSteps \subseteq Nat

Larger(a, b) == IF a > b THEN a ELSE b

\* What a query of the store returns for a cell: zero, or on Solana no
\* account, which the program closes when it clears a commitment.
Read(cell) == IF cell = Cleared THEN Zero ELSE cell

\* A block that no reorg replaces any more.
Final(h) == h = 0 \/ h <= settled

-----------------------------------------------------------------------------

\* The stores a block of time t may leave: at most one commitment changes.
Transactions(s, t) ==
    LET Write(type, p, v) == [s EXCEPT ![Path(type, p)] = v]
        At(type, p) == s[Path(type, p)]
    IN  {s}
        \cup {Write("packet", p, p.body) :
                p \in {q \in Outgoing : At("packet", q) = Zero}}
        \cup {Write("packet", p, Cleared) :
                p \in {q \in Outgoing : At("packet", q) = q.body}}
        \cup {Write("receipt", p, Received) :
                p \in {q \in Incoming : At("receipt", q) = Zero /\ t < q.timeout}}
        \cup {Write("ack", p, a) :
                p \in {q \in Incoming : At("receipt", q) = Received /\ At("ack", q) = Zero},
                a \in Acks}

ChainInit ==
    /\ latest = 0
    /\ blocks = [h \in 0..0 |-> [time |-> 0, store |-> [path \in Paths |-> Zero]]]
    /\ settled = IF MaxReorg = 0 THEN 0 ELSE -1

\* The next block.  Blocks deeper than MaxReorg are settled by it.
Grow ==
    /\ latest < MaxHeight
    /\ \E d \in TimeSteps :
        LET time == blocks[latest].time + d
        IN  \E store \in Transactions(blocks[latest].store, time) :
                blocks' = [h \in 0..(latest + 1) |->
                            IF h <= latest THEN blocks[h]
                            ELSE [time |-> time, store |-> store]]
    /\ latest' = latest + 1
    /\ settled' = Larger(settled, latest + 1 - MaxReorg)

\* The chain's own finality rule settles one more block.
Finalize ==
    /\ settled < latest
    /\ settled' = settled + 1
    /\ UNCHANGED <<latest, blocks>>

\* A fork wins: the blocks above k are gone, others will be grown there.
Reorg ==
    \E k \in Larger(settled, 0)..(latest - 1) :
        /\ latest' = k
        /\ blocks' = [h \in 0..k |-> blocks[h]]
        /\ UNCHANGED settled

ChainNext == Grow \/ Finalize \/ Reorg
=============================================================================
