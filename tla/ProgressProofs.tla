---------------------------- MODULE ProgressProofs ----------------------------
(***************************************************************************)
(* That no call can turn in circles or get stuck on its own batch, for any *)
(* number of calls and batches of any length: the part of EveryCallEnds    *)
(* that is about the steps themselves.                                     *)
(*                                                                         *)
(* The argument: a call that waits for its batch has a check under way     *)
(* (Waits), and when the last one has ended the batch is collected, either *)
(* for its first failure or into a draft (BatchIsCollected).  StepsLeft    *)
(* then decreases with each step: ending a check takes one index off a     *)
(* finite set, and every other step goes to a later position.              *)
(***************************************************************************)
EXTENDS RepliesProofs, FiniteSetTheorems

\* The checks of a call that are under way.
Underway(c) == {i \in DOMAIN found[c] : found[c][i].verdict = "pending"}

\* A call that waits for its batch waits for something.
Waits(c) == pc[c] = "packets" => Underway(c) # {}

\* The inductive invariant.
WInv == RInv /\ \A c \in Calls : Waits(c)

-----------------------------------------------------------------------------
(***************************************************************************)
(* Batches                                                                 *)
(***************************************************************************)

\* When no check is under way, either all were ok or one failure comes first:
\* there is nothing else that FuturesOrdered could end in.
LEMMA BatchIsCollected ==
    ASSUME NEW results \in Seq(Entries),
           \A j \in DOMAIN results : results[j].verdict # "pending"
    PROVE  \/ \A j \in DOMAIN results : results[j].verdict = "ok"
           \/ Reported(results) # {}
<1> SUFFICES ASSUME \E j \in DOMAIN results : results[j].verdict # "ok"
             PROVE  Reported(results) # {}
    OBVIOUS
<1>1. PICK T : T = {j \in DOMAIN results : results[j].verdict # "ok"}
    OBVIOUS
<1>2. T \in SUBSET Nat /\ T # {} /\ DOMAIN results = 1..Len(results) /\ Len(results) \in Nat
    BY <1>1
<1>3. PICK m \in T : \A k \in T : m <= k
    BY <1>2, LeastNat
<1>4. \A j \in 1..(m - 1) : results[j].verdict = "ok"
    <2> SUFFICES ASSUME NEW j \in 1..(m - 1) PROVE results[j].verdict = "ok"
        OBVIOUS
    <2>1. j \in DOMAIN results /\ ~(m <= j)
        BY <1>1, <1>2, <1>3
    <2> QED
        BY <1>1, <1>3, <2>1
<1> QED
    BY <1>1, <1>3, <1>4 DEF Reported

\* The checks under way are finitely many.
LEMMA UnderwayIsFinite ==
    ASSUME TypeOK, NEW c \in Calls
    PROVE  IsFiniteSet(Underway(c)) /\ Cardinality(Underway(c)) \in Nat
<1>1. found[c] \in Seq(Entries)
    BY DEF TypeOK
<1>2. DOMAIN found[c] = 1..Len(found[c]) /\ Len(found[c]) \in Nat
    BY <1>1
<1>3. IsFiniteSet(1..Len(found[c]))
    BY <1>2, FS_Interval
<1> QED
    BY <1>2, <1>3, FS_Subset, FS_CardinalityType DEF Underway

\* A call that is not waiting for a batch when it ends a step.
LEMMA WaitsKept ==
    ASSUME NEW c, Waits(c), pc'[c] # "packets" \/ (pc'[c] = pc[c] /\ found'[c] = found[c])
    PROVE  Waits(c)'
BY DEF Waits, Underway

\* A batch that goes on has another check under way.
LEMMA EndCheckWaits ==
    ASSUME RInv, NEW c \in Calls, NEW i \in DOMAIN found[c], NEW r, r.verdict # "pending",
           pc[c] = "packets", found[c][i].verdict = "pending", EndCheck(c, i, r)
    PROVE  /\ Waits(c)'
           /\ pc'[c] \in {"packets", "signing", "done"}
           /\ pc'[c] = "packets" => Underway(c)' = Underway(c) \ {i}
<1>0. PICK results : results = [found[c] EXCEPT ![i] = r]
    OBVIOUS
<1>1. TypeOK
    BY DEF RInv, AInv, IInv
<1>2. /\ found'[c] = results /\ DOMAIN results = DOMAIN found[c]
      /\ results[i] = r /\ \A j \in DOMAIN results \ {i} : results[j] = found[c][j]
    BY <1>0, <1>1 DEF EndCheck, TypeOK
<1>3. Underway(c)' = Underway(c) \ {i}
    BY <1>2 DEF Underway
<1>4. CASE (\E j \in DOMAIN results : results[j].verdict = "pending") /\ UNCHANGED pc
    BY <1>2, <1>3, <1>4 DEF Waits, Underway
<1>5. CASE \E j : Return(c, req[c].method, Error(CodeOf(results[j].verdict)), Counted(r.verdict))
    BY <1>1, <1>3, <1>5, ReturnReply DEF Waits
<1>6. CASE Sign(c, PacketAttestation(req[c].height, Compact(req[c], results)))
    <2>1. pc'[c] = "signing"
        BY <1>1, <1>6 DEF Sign, TypeOK
    <2> QED
        BY <1>3, <2>1 DEF Waits
<1> QED
    BY <1>0, <1>4, <1>5, <1>6 DEF EndCheck

\* Either way in which a check ends.
LEMMA ChecksEnd ==
    ASSUME RInv, NEW c \in Calls, NEW i \in DOMAIN found[c],
           CheckPacket(c, i) \/ CommitmentFails(c, i)
    PROVE  \E r : /\ r.verdict # "pending" /\ pc[c] = "packets"
                  /\ found[c][i].verdict = "pending" /\ EndCheck(c, i, r)
<1>1. CASE CheckPacket(c, i)
    <2>1. PICK value : EndCheck(c, i,
            Result(Verdict(req[c].type, req[c].packets[i], value), value))
        BY <1>1 DEF CheckPacket
    <2>2. Verdict(req[c].type, req[c].packets[i], value) # "pending"
        BY DEF Verdict
    <2>3. Result(Verdict(req[c].type, req[c].packets[i], value), value).verdict # "pending"
        BY <2>2 DEF Result
    <2> QED
        BY <1>1, <2>1, <2>3 DEF CheckPacket
<1>2. CASE CommitmentFails(c, i)
    <2>1. Result("adapter_error", Zero).verdict # "pending"
        BY DEF Result
    <2> QED
        BY <1>2, <2>1 DEF CommitmentFails
<1> QED
    BY <1>1, <1>2
-----------------------------------------------------------------------------
(***************************************************************************)
(* Positions                                                               *)
(***************************************************************************)

\* The steps of a call that are not the end of a check: none of them stays at
\* its position, and only an accepted height leads to a batch, of which every
\* check is then under way.
LEMMA PositionsAdvance ==
    ASSUME RInv, NEW c \in Calls,
           \/ LatestHeight(c) \/ RejectHeight(c) \/ AcceptHeight(c) \/ BlockTimestamp(c)
           \/ AdapterFails(c) \/ SignLocally(c) \/ SignRemotely(c) \/ SignatureArrives(c)
           \/ SignFails(c) \/ Drop(c)
    PROVE  /\ UNCHANGED req
           /\ \/ pc[c] = "height" /\ pc'[c] \in {"timestamp", "signing"}
              \/ /\ pc[c] = "height" /\ pc'[c] = "packets"
                 /\ req[c].packets # <<>>
                 /\ found'[c] = [i \in DOMAIN req[c].packets |-> Pending]
              \/ pc[c] = "timestamp" /\ pc'[c] = "signing"
              \/ pc[c] = "signing" /\ pc'[c] = "signed"
              \/ pc[c] \in {"height", "timestamp", "packets", "signing", "signed"}
                    /\ pc'[c] \in Ended
<1>1. TypeOK
    BY DEF RInv, AInv, IInv
<1>2. CASE LatestHeight(c) \/ RejectHeight(c) \/ AdapterFails(c)
    <2>1. /\ pc[c] \in {"height", "timestamp"} /\ UNCHANGED req
          /\ \E r, labels : Return(c, req[c].method, r, labels)
        BY <1>2 DEF LatestHeight, RejectHeight, AdapterFails
    <2> QED
        BY <1>1, <2>1, ReturnReply DEF Ended
<1>3. CASE SignLocally(c) \/ SignatureArrives(c) \/ SignFails(c)
    <2>1. /\ pc[c] \in {"signing", "signed"} /\ UNCHANGED req
          /\ \E r, labels : Return(c, req[c].method, r, labels)
        BY <1>3 DEF SignLocally, SignatureArrives, SignFails
    <2> QED
        BY <1>1, <2>1, ReturnReply DEF Ended
<1>4. CASE AcceptHeight(c)
    BY <1>1, <1>4 DEF AcceptHeight, TypeOK, Sign
<1>5. CASE BlockTimestamp(c)
    BY <1>1, <1>5 DEF BlockTimestamp, TypeOK, Sign
<1>6. CASE SignRemotely(c)
    BY <1>1, <1>6 DEF SignRemotely, TypeOK
<1>7. CASE Drop(c)
    BY <1>1, <1>7 DEF Drop, TypeOK, Ended
<1> QED
    BY <1>2, <1>3, <1>4, <1>5, <1>6, <1>7

\* Every step leaves each call that waits with something to wait for.
LEMMA StepKeepsWaits ==
    ASSUME WInv, NEW c \in Calls, Receive(c) \/ Progress(c) \/ Drop(c) \/ SignLate(c)
    PROVE  Waits(c)'
<1>1. RInv /\ Waits(c) /\ TypeOK
    BY DEF WInv, RInv, AInv, IInv
<1>2. CASE Receive(c)
    <2>1. pc'[c] # "packets"
        BY <1>1, <1>2, ReturnReply DEF Receive, TypeOK
    <2> QED
        BY <1>1, <2>1, WaitsKept
<1>3. CASE \E i \in DOMAIN found[c] : CheckPacket(c, i) \/ CommitmentFails(c, i)
    BY <1>1, <1>3, ChecksEnd, EndCheckWaits
<1>4. CASE SignLate(c)
    BY <1>1, <1>4, WaitsKept DEF SignLate, callVars
<1>5. CASE \/ LatestHeight(c) \/ RejectHeight(c) \/ AcceptHeight(c) \/ BlockTimestamp(c)
           \/ AdapterFails(c) \/ SignLocally(c) \/ SignRemotely(c) \/ SignatureArrives(c)
           \/ SignFails(c) \/ Drop(c)
    <2>1. CASE pc'[c] # "packets"
        BY <1>1, <2>1, WaitsKept
    <2>2. CASE pc'[c] = "packets"
        <3>1. /\ pc[c] = "height" /\ req[c].packets # <<>>
              /\ found'[c] = [i \in DOMAIN req[c].packets |-> Pending]
            BY <1>1, <1>5, <2>2, PositionsAdvance DEF Ended
        <3>2. req[c] \in Requests /\ req[c].packets \in Seq(Packets)
            BY <1>1, <3>1, RequestAssumption DEF RInv, AInv, IInv, CallInv, RequestType
        <3>3. 1 \in DOMAIN req[c].packets
            BY <3>1, <3>2
        <3>4. 1 \in Underway(c)'
            BY <3>1, <3>3 DEF Underway, Pending
        <3> QED
            BY <3>4 DEF Waits
    <2> QED
        BY <2>1, <2>2
<1> QED
    BY <1>2, <1>3, <1>4, <1>5 DEF Progress

LEMMA WInvInit == Init => WInv
<1> SUFFICES ASSUME Init PROVE WInv
    OBVIOUS
<1>1. \A c \in Calls : Waits(c)
    BY DEF Init, Waits
<1> QED
    BY <1>1, RInvInit DEF WInv

LEMMA WInvNext == WInv /\ [Next]_vars => WInv'
<1> SUFFICES ASSUME WInv, [Next]_vars PROVE WInv'
    OBVIOUS
<1>1. RInv'
    BY RInvNext DEF WInv
<1>2. ASSUME NEW c \in Calls, Receive(c) \/ Progress(c) \/ Drop(c) \/ SignLate(c)
      PROVE  \A d \in Calls : Waits(d)'
    <2>1. Moves(c)
        BY <1>2, CallMoves DEF WInv, RInv
    <2>2. \A d \in Calls \ {c} : Waits(d)'
        BY <2>1, WaitsKept DEF WInv, Moves, Others
    <2> QED
        BY <1>2, <2>2, StepKeepsWaits
<1>3. CASE ChainStep \/ UNCHANGED vars \/ Quiet
    <2>1. UNCHANGED <<pc, found>>
        BY <1>3 DEF ChainStep, Quiet, vars, callVars
    <2>2. \A d \in Calls : Waits(d)'
        BY <2>1, WaitsKept DEF WInv
    <2> QED
        BY <1>1, <2>2 DEF WInv
<1> QED
    BY <1>1, <1>2, <1>3 DEF WInv, Next

\* A call that waits for its batch always waits for a check that is under
\* way, however the checks and the chain were interleaved: the end of the
\* last check collects the batch in every case.
THEOREM BatchesWait == Spec => []WInv
BY WInvInit, WInvNext, PTL DEF Spec

-----------------------------------------------------------------------------
(***************************************************************************)
(* StepsLeft decreases                                                     *)
(***************************************************************************)

\* The measure, position by position.
LEMMA StepsLeftIs ==
    ASSUME NEW c
    PROVE  /\ pc[c] = "height" => StepsLeft(c) = 4 + Len(req[c].packets)
           /\ pc[c] = "timestamp" => StepsLeft(c) = 3
           /\ pc[c] = "packets" => StepsLeft(c) = 2 + Cardinality(Underway(c))
           /\ pc[c] = "signing" => StepsLeft(c) = 2
           /\ pc[c] = "signed" => StepsLeft(c) = 1
           /\ pc[c] \in {"idle"} \cup Ended => StepsLeft(c) = 0
BY DEF StepsLeft, Underway, Ended

\* The same after a step.
LEMMA StepsLeftBecomes ==
    ASSUME NEW c
    PROVE  /\ pc'[c] = "height" => StepsLeft(c)' = 4 + Len(req'[c].packets)
           /\ pc'[c] = "timestamp" => StepsLeft(c)' = 3
           /\ pc'[c] = "packets" => StepsLeft(c)' = 2 + Cardinality(Underway(c)')
           /\ pc'[c] = "signing" => StepsLeft(c)' = 2
           /\ pc'[c] = "signed" => StepsLeft(c)' = 1
           /\ pc'[c] \in {"idle"} \cup Ended => StepsLeft(c)' = 0
BY DEF StepsLeft, Underway, Ended

\* A new batch has as many checks under way as packets.
LEMMA AllUnderway ==
    ASSUME NEW c, NEW q, q.packets \in Seq(Packets),
           found'[c] = [i \in DOMAIN q.packets |-> Pending]
    PROVE  Cardinality(Underway(c)') = Len(q.packets)
<1>1. DOMAIN q.packets = 1..Len(q.packets) /\ Len(q.packets) \in Nat
    OBVIOUS
<1>2. Underway(c)' = 1..Len(q.packets)
    BY <1>1 DEF Underway, Pending
<1>3. Cardinality(1..Len(q.packets)) = Len(q.packets)
    BY <1>1, FS_Interval
<1> QED
    BY <1>2, <1>3

\* The end of a check: one less under way, or on to the signer or the reply.
LEMMA CheckAdvances ==
    ASSUME RInv, NEW c \in Calls, NEW i \in DOMAIN found[c],
           CheckPacket(c, i) \/ CommitmentFails(c, i)
    PROVE  StepsLeft(c) \in Nat /\ StepsLeft(c)' < StepsLeft(c)
<1>1. PICK r : /\ r.verdict # "pending" /\ pc[c] = "packets"
               /\ found[c][i].verdict = "pending" /\ EndCheck(c, i, r)
    BY ChecksEnd
<1>2. /\ pc'[c] \in {"packets", "signing", "done"}
      /\ pc'[c] = "packets" => Underway(c)' = Underway(c) \ {i}
    BY <1>1, EndCheckWaits
<1>3. IsFiniteSet(Underway(c)) /\ Cardinality(Underway(c)) \in Nat
    BY UnderwayIsFinite DEF RInv, AInv, IInv
<1>4. i \in Underway(c)
    BY <1>1 DEF Underway
<1>5. Cardinality(Underway(c) \ {i}) = Cardinality(Underway(c)) - 1
    BY <1>3, <1>4, FS_RemoveElement
<1>6. Cardinality(Underway(c)) > 0
    BY <1>3, <1>4, FS_EmptySet
<1>7. StepsLeft(c) = 2 + Cardinality(Underway(c))
    BY <1>1, StepsLeftIs
<1>8. CASE pc'[c] = "packets"
    <2>1. StepsLeft(c)' = 2 + Cardinality(Underway(c)')
        BY <1>8, StepsLeftBecomes
    <2>2. StepsLeft(c)' = 2 + (Cardinality(Underway(c)) - 1)
        BY <1>2, <1>5, <1>8, <2>1
    <2> QED
        BY <1>3, <1>7, <2>2
<1>9. CASE pc'[c] \in {"signing", "done"}
    <2>1. StepsLeft(c)' \in {0, 2}
        BY <1>9, StepsLeftBecomes DEF Ended
    <2> QED
        BY <1>3, <1>6, <1>7, <2>1
<1> QED
    BY <1>2, <1>8, <1>9

\* Every step of the service or of the caller for a call brings it nearer to
\* its end; none leaves the measure as it is.
LEMMA CallAdvances ==
    ASSUME WInv, NEW c \in Calls, Progress(c) \/ Drop(c)
    PROVE  StepsLeft(c) \in Nat /\ StepsLeft(c)' < StepsLeft(c)
<1>1. RInv /\ Waits(c) /\ TypeOK
    BY DEF WInv, RInv, AInv, IInv
<1>2. CASE \E i \in DOMAIN found[c] : CheckPacket(c, i) \/ CommitmentFails(c, i)
    BY <1>1, <1>2, CheckAdvances
<1>3. CASE \/ LatestHeight(c) \/ RejectHeight(c) \/ AcceptHeight(c) \/ BlockTimestamp(c)
           \/ AdapterFails(c) \/ SignLocally(c) \/ SignRemotely(c) \/ SignatureArrives(c)
           \/ SignFails(c) \/ Drop(c)
    <2>1. pc[c] = "height" =>
            req[c].packets \in Seq(Packets) /\ Len(req[c].packets) \in Nat
        <3>1. pc[c] = "height" => req[c].packets \in Seq(Packets)
            BY <1>1, RequestAssumption DEF RInv, AInv, IInv, CallInv, RequestType
        <3> QED
            BY <3>1
    <2>2. Cardinality(Underway(c)) \in Nat
        BY <1>1, UnderwayIsFinite
    <2>3. CASE pc[c] = "height" /\ pc'[c] = "packets"
        <3>1. found'[c] = [i \in DOMAIN req[c].packets |-> Pending]
            BY <1>1, <1>3, <2>3, PositionsAdvance DEF Ended
        <3>2. Cardinality(Underway(c)') = Len(req[c].packets)
            BY <2>1, <2>3, <3>1, AllUnderway
        <3>3. StepsLeft(c)' = 2 + Len(req[c].packets)
            BY <2>3, <3>2, StepsLeftBecomes
        <3>4. StepsLeft(c) = 4 + Len(req[c].packets)
            BY <2>3, StepsLeftIs
        <3> QED
            BY <2>1, <2>3, <3>3, <3>4
    <2>4. CASE pc[c] = "height" /\ pc'[c] \in {"timestamp", "signing"} \cup Ended
        <3>1. StepsLeft(c)' \in {0, 2, 3}
            BY <2>4, StepsLeftBecomes
        <3>2. StepsLeft(c) = 4 + Len(req[c].packets)
            BY <2>4, StepsLeftIs
        <3> QED
            BY <2>1, <2>4, <3>1, <3>2
    <2>5. CASE /\ pc[c] \in {"timestamp", "packets"}
               /\ pc'[c] \in {"signing"} \cup Ended
               /\ pc[c] = "packets" => pc'[c] \in Ended
        <3>1. StepsLeft(c)' \in {0, 2} /\ (pc'[c] \in Ended => StepsLeft(c)' = 0)
            BY <2>5, StepsLeftBecomes
        <3>2. StepsLeft(c) \in Nat /\ StepsLeft(c) >= 2
              /\ (pc[c] = "timestamp" => StepsLeft(c) = 3)
            BY <2>2, <2>5, StepsLeftIs
        <3> QED
            BY <2>5, <3>1, <3>2
    <2>6. CASE /\ pc[c] \in {"signing", "signed"} /\ pc'[c] \in {"signed"} \cup Ended
               /\ pc[c] = "signed" => pc'[c] \in Ended
        <3>1. /\ StepsLeft(c)' \in {0, 1} /\ (pc'[c] \in Ended => StepsLeft(c)' = 0)
              /\ StepsLeft(c) \in {1, 2} /\ (pc[c] = "signing" => StepsLeft(c) = 2)
            BY <2>6, StepsLeftIs, StepsLeftBecomes
        <3> QED
            BY <2>6, <3>1
    <2> QED
        BY <1>1, <1>3, <2>3, <2>4, <2>5, <2>6, PositionsAdvance
<1> QED
    BY <1>2, <1>3 DEF Progress

\* No call turns in circles: EveryStepAdvances, for any number of calls and
\* batches of any length.  In particular no call takes more steps than four
\* and one for each of its packets.
THEOREM StepsAdvance == Spec => EveryStepAdvances
<1>1. ASSUME WInv, [Next]_vars, NEW c \in Calls, pc[c] # "idle",
             <<pc[c], found[c]>>' # <<pc[c], found[c]>>
      PROVE  StepsLeft(c)' < StepsLeft(c)
    <2>1. CASE Progress(c) \/ Drop(c)
        BY <1>1, <2>1, CallAdvances
    <2>2. ~Receive(c) /\ ~SignLate(c)
        BY <1>1 DEF Receive, SignLate, callVars
    <2>3. ASSUME NEW d \in Calls \ {c}, Receive(d) \/ Progress(d) \/ Drop(d) \/ SignLate(d)
          PROVE  FALSE
        <3>1. Moves(d)
            BY <1>1, <2>3, CallMoves DEF WInv, RInv
        <3> QED
            BY <1>1, <3>1 DEF Moves, Others
    <2>4. ~(ChainStep \/ UNCHANGED vars \/ Quiet)
        BY <1>1 DEF ChainStep, Quiet, vars, callVars
    <2> QED
        BY <1>1, <2>1, <2>2, <2>3, <2>4 DEF Next
<1>2. WInv /\ [Next]_vars =>
        \A c \in Calls :
            (pc[c] # "idle" /\ <<pc[c], found[c]>>' # <<pc[c], found[c]>>) =>
                StepsLeft(c)' < StepsLeft(c)
    BY <1>1
<1> QED
    BY <1>2, BatchesWait, PTL DEF Spec, EveryStepAdvances
=============================================================================
