---------------------------- MODULE RepliesProofs ----------------------------
(***************************************************************************)
(* That the replies of concurrent batches are those of a sequential        *)
(* service, and where the counterexamples about heights end, for every     *)
(* value of the constants.                                                 *)
(*                                                                         *)
(* The argument: a check of a block that is named by its height comes to   *)
(* the verdict of that final block, whenever it runs (ChecksAreOfBlock),   *)
(* so the results of a batch do not depend on the order of its checks.     *)
(* The packet that a batch is refused for has nothing but ok before it     *)
(* (Reported), which is where the recursion of SequentialReply stops.      *)
(***************************************************************************)
EXTENDS RefinementProofs, WellFoundedInduction

-----------------------------------------------------------------------------
(***************************************************************************)
(* The sequential service                                                  *)
(***************************************************************************)

\* A set of natural numbers has a least element.
LEMMA LeastNat ==
    ASSUME NEW T \in SUBSET Nat, T # {}
    PROVE  \E m \in T : \A k \in T : m <= k
<1>1. PICK m \in T : \A k \in T : ~(<<k, m>> \in OpToRel(<, Nat))
    BY WFMin, NatLessThanWellFounded
<1>2. ASSUME NEW k \in T PROVE m <= k
    <2>1. ~(k < m)
        BY <1>1 DEF OpToRel
    <2> QED
        BY <2>1
<1> QED
    BY <1>2

\* Packet j is the first from packet i on that a sequential service refuses.
FirstFrom(q, i, j) ==
    /\ j \in i..Len(q.packets)
    /\ SequentialRefusal(q, j) # "ok"
    /\ \A k \in i..(j - 1) : SequentialRefusal(q, k) = "ok"

\* The equation that the recursion of SequentialReply stands for.
IsSequential(F, q) ==
    F = [i \in 1..(Len(q.packets) + 1) |->
            IF i > Len(q.packets) THEN "ok"
            ELSE IF SequentialRefusal(q, i) # "ok" THEN SequentialRefusal(q, i) ELSE F[i + 1]]

FirstRefused(q, i) == CHOOSE j \in i..Len(q.packets) : FirstFrom(q, i, j)

\* What the packets from i on are refused for.
RefusalFrom(q, i) ==
    IF \E j \in i..Len(q.packets) : FirstFrom(q, i, j)
    THEN SequentialRefusal(q, FirstRefused(q, i)) ELSE "ok"

\* If any is the first that is refused, it is the only one.
LEMMA FirstRefusedIs ==
    ASSUME NEW q, Len(q.packets) \in Nat, NEW i \in 1..Len(q.packets),
           NEW j \in Int, FirstFrom(q, i, j)
    PROVE  FirstRefused(q, i) = j
<1>1. j \in i..Len(q.packets)
    BY DEF FirstFrom
<1>2. FirstRefused(q, i) \in i..Len(q.packets) /\ FirstFrom(q, i, FirstRefused(q, i))
    BY <1>1 DEF FirstRefused
<1>3. ~(j < FirstRefused(q, i)) /\ ~(FirstRefused(q, i) < j)
    BY <1>1, <1>2 DEF FirstFrom
<1> QED
    BY <1>1, <1>2, <1>3

\* The equation holds of the first refusal from each packet on.
LEMMA RefusalFromStep ==
    ASSUME NEW q, Len(q.packets) \in Nat, NEW i \in 1..(Len(q.packets) + 1)
    PROVE  RefusalFrom(q, i) =
                IF i > Len(q.packets) THEN "ok"
                ELSE IF SequentialRefusal(q, i) # "ok" THEN SequentialRefusal(q, i)
                ELSE RefusalFrom(q, i + 1)
<1>1. CASE i > Len(q.packets)
    <2>1. i..Len(q.packets) = {}
        BY <1>1
    <2> QED
        BY <1>1, <2>1 DEF RefusalFrom
<1>2. CASE i <= Len(q.packets) /\ SequentialRefusal(q, i) # "ok"
    <2>1. i \in i..Len(q.packets) /\ FirstFrom(q, i, i)
        BY <1>2 DEF FirstFrom
    <2>2. FirstRefused(q, i) = i
        BY <1>2, <2>1, FirstRefusedIs
    <2>3. RefusalFrom(q, i) = SequentialRefusal(q, i)
        BY <2>1, <2>2 DEF RefusalFrom
    <2> QED
        BY <1>2, <2>3
<1>3. CASE i <= Len(q.packets) /\ SequentialRefusal(q, i) = "ok"
    <2>1. \A j \in Int : FirstFrom(q, i, j) <=> FirstFrom(q, i + 1, j)
        BY <1>3 DEF FirstFrom
    <2>2. CASE \E j \in i..Len(q.packets) : FirstFrom(q, i, j)
        <3>1. PICK j \in i..Len(q.packets) : FirstFrom(q, i, j)
            BY <2>2
        <3>2. j \in (i + 1)..Len(q.packets) /\ FirstFrom(q, i + 1, j)
            BY <2>1, <3>1 DEF FirstFrom
        <3>3. FirstRefused(q, i) = j /\ FirstRefused(q, i + 1) = j
            BY <1>3, <3>1, <3>2, FirstRefusedIs
        <3>4. RefusalFrom(q, i) = SequentialRefusal(q, j)
            BY <3>1, <3>3 DEF RefusalFrom
        <3>5. RefusalFrom(q, i + 1) = SequentialRefusal(q, j)
            BY <3>2, <3>3 DEF RefusalFrom
        <3> QED
            BY <1>3, <3>4, <3>5
    <2>3. CASE ~\E j \in i..Len(q.packets) : FirstFrom(q, i, j)
        <3>1. ~\E j \in (i + 1)..Len(q.packets) : FirstFrom(q, i + 1, j)
            BY <2>1, <2>3
        <3>2. RefusalFrom(q, i) = "ok" /\ RefusalFrom(q, i + 1) = "ok"
            BY <2>3, <3>1 DEF RefusalFrom
        <3> QED
            BY <1>3, <3>2
    <2> QED
        BY <2>2, <2>3
<1> QED
    BY <1>1, <1>2, <1>3

\* So it has a solution.
LEMMA SequentialSolution ==
    ASSUME NEW q, Len(q.packets) \in Nat
    PROVE  \E F : IsSequential(F, q)
<1> DEFINE G == [i \in 1..(Len(q.packets) + 1) |-> RefusalFrom(q, i)]
<1>1. ASSUME NEW i \in 1..(Len(q.packets) + 1)
      PROVE  G[i] = IF i > Len(q.packets) THEN "ok"
                    ELSE IF SequentialRefusal(q, i) # "ok" THEN SequentialRefusal(q, i)
                    ELSE G[i + 1]
    <2>1. i <= Len(q.packets) => G[i + 1] = RefusalFrom(q, i + 1)
        OBVIOUS
    <2>2. G[i] = RefusalFrom(q, i)
        OBVIOUS
    <2> HIDE DEF G
    <2> QED
        BY <2>1, <2>2, RefusalFromStep
<1>2. G = [i \in 1..(Len(q.packets) + 1) |-> G[i]]
    OBVIOUS
<1> HIDE DEF G
<1>3. IsSequential(G, q)
    BY <1>1, <1>2 DEF IsSequential
<1> QED
    BY <1>3

\* SequentialReply is the value of a solution at the first packet.
LEMMA SequentialReplyIs ==
    ASSUME NEW q, Len(q.packets) \in Nat
    PROVE  \E F : IsSequential(F, q) /\ SequentialReply(q) = F[1]
<1> DEFINE F == CHOOSE F : IsSequential(F, q)
<1>1. IsSequential(F, q)
    BY SequentialSolution
<1>2. SequentialReply(q) = F[1]
    BY DEF SequentialReply, IsSequential
<1> QED
    BY <1>1, <1>2

\* The recursion passes over the packets that are not refused.
LEMMA SequentialPasses ==
    ASSUME NEW q, Len(q.packets) \in Nat, NEW F, IsSequential(F, q),
           NEW j \in 1..(Len(q.packets) + 1),
           \A k \in 1..(j - 1) : SequentialRefusal(q, k) = "ok"
    PROVE  F[1] = F[j]
<1> DEFINE T == {d \in 0..(j - 1) : F[j - d] # F[j]}
<1>1. SUFFICES ASSUME T # {} PROVE FALSE
    <2>1. j - 1 \in 0..(j - 1) /\ j - (j - 1) = 1
        OBVIOUS
    <2> QED
        BY <2>1
<1>2. PICK d \in T : \A e \in T : d <= e
    <2>1. T \in SUBSET Nat
        OBVIOUS
    <2> HIDE DEF T
    <2> QED
        BY <1>1, <2>1, LeastNat
<1>3. d # 0
    BY <1>2
<1>4. d - 1 \in 0..(j - 1) /\ d - 1 \notin T /\ j - (d - 1) = (j - d) + 1
    BY <1>2, <1>3
<1>5. F[(j - d) + 1] = F[j]
    BY <1>4
<1>6. j - d \in 1..(j - 1) /\ j - d \in 1..Len(q.packets)
    BY <1>2, <1>3
<1>7. F[j - d] = F[(j - d) + 1]
    <2>1. PICK i : i = j - d
        OBVIOUS
    <2>2. i \in 1..Len(q.packets) /\ SequentialRefusal(q, i) = "ok"
        BY <1>6, <2>1
    <2>3. F[i] = F[i + 1]
        <3>1. i \in 1..(Len(q.packets) + 1) /\ ~(i > Len(q.packets))
            BY <2>2
        <3> QED
            BY <2>2, <3>1 DEF IsSequential
    <2> QED
        BY <2>1, <2>3
<1> QED
    BY <1>2, <1>5, <1>7

\* A sequential service stops at the first packet that it refuses.
LEMMA SequentialStops ==
    ASSUME NEW q, Len(q.packets) \in Nat
    PROVE  /\ \A j \in 1..Len(q.packets) :
                FirstFrom(q, 1, j) => SequentialReply(q) = SequentialRefusal(q, j)
           /\ (\A j \in 1..Len(q.packets) : SequentialRefusal(q, j) = "ok")
                => SequentialReply(q) = "ok"
<1>1. PICK F : IsSequential(F, q) /\ SequentialReply(q) = F[1]
    BY SequentialReplyIs
<1>2. ASSUME NEW j \in 1..Len(q.packets), FirstFrom(q, 1, j)
      PROVE  SequentialReply(q) = SequentialRefusal(q, j)
    <2>1. F[1] = F[j]
        BY <1>1, <1>2, SequentialPasses DEF FirstFrom
    <2>2. F[j] = SequentialRefusal(q, j)
        BY <1>1, <1>2 DEF IsSequential, FirstFrom
    <2> QED
        BY <1>1, <2>1, <2>2
<1>3. ASSUME \A j \in 1..Len(q.packets) : SequentialRefusal(q, j) = "ok"
      PROVE  SequentialReply(q) = "ok"
    <2>1. F[1] = F[Len(q.packets) + 1]
        BY <1>1, <1>3, SequentialPasses
    <2>2. F[Len(q.packets) + 1] = "ok"
        BY <1>1 DEF IsSequential
    <2> QED
        BY <1>1, <2>1, <2>2
<1> QED
    BY <1>2, <1>3
-----------------------------------------------------------------------------
(***************************************************************************)
(* What the checks of a batch have found                                   *)
(***************************************************************************)

\* The adapter answers queries for this height from the block of that height.
ReadsNamedBlock(h) == Adapter # "solana" /\ ~(Adapter = "cosmos" /\ h = 0)

\* What the chain holds, in block h, at the path of a packet of the batch.
ValueAt(q, i) == Read(blocks[q.height].store[Path(q.type, q.packets[i])])

\* A check that came to a verdict came to the one of the block asked for.
ChecksAreOfBlock(q, results) ==
    \A i \in DOMAIN results :
        results[i].verdict \notin {"pending", "adapter_error"} =>
            results[i].verdict = Verdict(q.type, q.packets[i], ValueAt(q, i))

\* Is this the reply that the collected results of a batch come to?
Collected(results, code) ==
    \/ code = "internal"
    \/ code = "ok" /\ \A i \in DOMAIN results : results[i].verdict = "ok"
    \/ \E j \in Reported(results) :
        results[j].verdict # "pending" /\ code = CodeOf(results[j].verdict)

CallChecks(c) ==
    /\ found[c] # <<>> =>
        /\ pc[c] \in {"packets", "signing", "signed"} \cup Ended
        /\ req[c] \in Requests /\ Malformed(req[c]) = {} /\ req[c].method = "packet"
        /\ req[c].height \in 0..latest /\ Final(req[c].height)
        /\ DOMAIN found[c] = DOMAIN req[c].packets
        /\ ReadsNamedBlock(req[c].height) => ChecksAreOfBlock(req[c], found[c])
        /\ \A i \in DOMAIN found[c] :
            (Adapter # "cosmos" /\ req[c].type = "receipt" /\ found[c][i].value # Zero) =>
                found[c][i].verdict = "unexpected_receipt"
        /\ pc[c] \in {"signing", "signed"} =>
            \A i \in DOMAIN found[c] : found[c][i].verdict = "ok"
        /\ pc[c] = "done" => Collected(found[c], reply[c].code)
    /\ found[c] = <<>> /\ pc[c] = "done" =>
        reply[c].code \in {"ok", "internal", "invalid_argument", "failed_precondition"}

RInv == AInv /\ \A c \in Calls : CallChecks(c)

\* What was found is not changed by others, nor by the chain.
LEMMA CallChecksKept ==
    ASSUME ChainInv, ChainNext \/ UNCHANGED chainVars, NEW d, CallChecks(d),
           pc'[d] = pc[d], req'[d] = req[d], found'[d] = found[d], reply'[d] = reply[d]
    PROVE  CallChecks(d)'
<1>1. CASE found[d] = <<>>
    BY <1>1 DEF CallChecks
<1>2. CASE found[d] # <<>>
    <2>1. req[d].height \in 0..latest /\ Final(req[d].height)
        BY <1>2 DEF CallChecks
    <2>2. /\ req[d].height \in 0..latest' /\ Final(req[d].height)'
          /\ blocks'[req[d].height] = blocks[req[d].height]
        BY <2>1, FinalBlocksKept
    <2>3. ChecksAreOfBlock(req[d], found[d]) => ChecksAreOfBlock(req[d], found[d])'
        BY <2>2 DEF ChecksAreOfBlock, ValueAt
    <2>4. req'[d].height \in 0..latest' /\ Final(req[d].height)'
        BY <2>2
    <2>5. /\ ReadsNamedBlock(req[d].height)' <=> ReadsNamedBlock(req[d].height)
          /\ ChecksAreOfBlock(req[d], found[d]) => ChecksAreOfBlock(req[d], found[d])'
          /\ Final(req[d].height)'
        BY <2>3, <2>4 DEF ReadsNamedBlock
    <2>6. Collected(found[d], reply[d].code)' <=> Collected(found[d], reply[d].code)
        BY DEF Collected, Reported
    <2> QED
        BY <1>2, <2>4, <2>5, <2>6 DEF CallChecks, Malformed
<1> QED
    BY <1>1, <1>2

\* A call moves on with what it has found.
LEMMA MoveKeepsChecks ==
    ASSUME NEW c, CallChecks(c), UNCHANGED chainVars, req'[c] = req[c], found'[c] = found[c],
           found[c] # <<>> =>
                /\ pc'[c] \in {"packets", "signing", "signed"} \cup Ended
                /\ pc'[c] \in {"signing", "signed"} => pc[c] \in {"signing", "signed"},
           pc'[c] = "done" =>
                IF found[c] # <<>> THEN Collected(found[c], reply'[c].code)
                ELSE reply'[c].code \in
                        {"ok", "internal", "invalid_argument", "failed_precondition"}
    PROVE  CallChecks(c)'
<1>1. CASE found[c] = <<>>
    BY <1>1 DEF CallChecks
<1>2. CASE found[c] # <<>>
    <2>1. /\ Final(req[c].height) => Final(req[c].height)'
          /\ ChecksAreOfBlock(req[c], found[c]) => ChecksAreOfBlock(req[c], found[c])'
          /\ latest' = latest
        BY DEF chainVars, Final, ChecksAreOfBlock, ValueAt
    <2>2. pc'[c] = "done" => Collected(found[c], reply[c].code)'
        BY <1>2 DEF Collected, Reported
    <2> QED
        BY <1>2, <2>1, <2>2 DEF CallChecks, Malformed, ReadsNamedBlock, Ended
<1> QED
    BY <1>1, <1>2

\* A call that returns has its reply.
LEMMA ReturnReply ==
    ASSUME TypeOK, NEW c \in Calls, NEW method, NEW r, NEW labels, Return(c, method, r, labels)
    PROVE  pc'[c] = "done" /\ reply'[c] = r
BY DEF TypeOK, Return

\* A call that has not come to its checks has found nothing, and is refused,
\* if it is, for its form, its height or the adapter.
LEMMA EarlyStepsKeepChecks ==
    ASSUME RInv, NEW c \in Calls,
           Receive(c) \/ LatestHeight(c) \/ RejectHeight(c) \/ AdapterFails(c) \/ BlockTimestamp(c)
    PROVE  CallChecks(c)'
<1>1. TypeOK /\ CallChecks(c)
    BY DEF RInv, AInv, IInv
<1>2. found[c] = <<>> /\ found'[c] = <<>>
    BY <1>1 DEF CallChecks, Ended, Receive, LatestHeight, RejectHeight, AdapterFails, BlockTimestamp
<1>3. pc'[c] = "done" =>
        reply'[c].code \in {"ok", "internal", "invalid_argument", "failed_precondition"}
    <2>1. CASE Receive(c)
        <3>1. PICK q \in Requests :
                \/ \E code \in Malformed(q) : Return(c, q.method, Error(code), {})
                \/ pc' = [pc EXCEPT ![c] = "height"]
            BY <2>1 DEF Receive
        <3>2. CASE \E code \in Malformed(q) : Return(c, q.method, Error(code), {})
            <4>1. PICK code \in Malformed(q) : Return(c, q.method, Error(code), {})
                BY <3>2
            <4>2. code \in {"internal", "invalid_argument"}
                BY DEF Malformed
            <4> QED
                BY <1>1, <4>1, <4>2, ReturnReply DEF Error
        <3>3. CASE pc' = [pc EXCEPT ![c] = "height"]
            BY <1>1, <3>3 DEF TypeOK
        <3> QED
            BY <3>1, <3>2, <3>3
    <2>2. CASE LatestHeight(c)
        <3>1. PICK f \in LastHeights :
                Return(c, req[c].method, [code |-> "ok", height |-> f], {})
            BY <2>2 DEF LatestHeight
        <3> QED
            BY <1>1, <3>1, ReturnReply
    <2>3. CASE RejectHeight(c)
        <3>1. Return(c, req[c].method, Error("failed_precondition"),
                        {Metric("height_rejection", "")})
            BY <2>3 DEF RejectHeight
        <3>2. reply'[c] = Error("failed_precondition")
            BY <1>1, <3>1 DEF Return, TypeOK
        <3> QED
            BY <3>2 DEF Error
    <2>4. CASE AdapterFails(c)
        BY <1>1, <2>4, ReturnReply DEF AdapterFails, Error
    <2>5. CASE BlockTimestamp(c)
        BY <1>1, <2>5 DEF BlockTimestamp, Sign, TypeOK
    <2> QED
        BY <2>1, <2>2, <2>3, <2>4, <2>5
<1> QED
    BY <1>2, <1>3 DEF CallChecks

\* Every check starts pending.
LEMMA AcceptHeightKeepsChecks ==
    ASSUME RInv, AInv', NEW c \in Calls, AcceptHeight(c)
    PROVE  CallChecks(c)'
<1>1. TypeOK /\ CallChecks(c) /\ CallInv(c)'
    BY DEF RInv, AInv, IInv
<1>2. found[c] = <<>>
    BY <1>1 DEF CallChecks, AcceptHeight, Ended
<1>3. CASE /\ pc' = [pc EXCEPT ![c] = "packets"]
           /\ found' = [found EXCEPT ![c] = [i \in DOMAIN req[c].packets |-> Pending]]
    <2>1. pc'[c] = "packets" /\ found'[c] = [i \in DOMAIN req[c].packets |-> Pending]
        BY <1>1, <1>3 DEF TypeOK
    <2>2. \A i \in DOMAIN found'[c] : found'[c][i].verdict = "pending" /\ found'[c][i].value = Zero
        BY <2>1 DEF Pending
    <2>3. ChecksAreOfBlock(req[c], found[c])'
        BY <2>2 DEF ChecksAreOfBlock
    <2> QED
        BY <1>1, <2>1, <2>2, <2>3 DEF CallChecks, CallInv, Ended
<1>4. CASE pc'[c] \in {"timestamp", "signing"} /\ UNCHANGED found
    BY <1>2, <1>4 DEF CallChecks
<1> QED
    BY <1>1, <1>3, <1>4 DEF AcceptHeight, Sign, TypeOK

\* A signer is asked when all checks were ok, and its answer changes nothing
\* of them.
LEMMA LateStepsKeepChecks ==
    ASSUME RInv, NEW c \in Calls,
           \/ SignLocally(c) \/ SignRemotely(c) \/ SignatureArrives(c) \/ SignFails(c)
           \/ SignLate(c) \/ Drop(c)
    PROVE  CallChecks(c)'
<1>1. TypeOK /\ ChainInv /\ CallChecks(c)
    BY DEF RInv, AInv, IInv, TypeOK, ChainInv
<1>2. CASE SignLocally(c) \/ SignatureArrives(c)
    <2>1. /\ pc[c] \in {"signing", "signed"} /\ UNCHANGED <<chainVars, req, found>>
          /\ pc'[c] = "done" /\ reply'[c].code = "ok"
        BY <1>1, <1>2, ReturnReply DEF SignLocally, SignatureArrives
    <2>2. found[c] # <<>> => Collected(found[c], reply'[c].code)
        BY <1>1, <2>1 DEF CallChecks, Collected
    <2> QED
        BY <1>1, <2>1, <2>2, MoveKeepsChecks DEF Ended
<1>3. CASE SignFails(c)
    <2>1. /\ UNCHANGED <<chainVars, req, found>>
          /\ pc'[c] = "done" /\ reply'[c].code = "internal"
        BY <1>1, <1>3, ReturnReply DEF SignFails, Error
    <2> QED
        BY <1>1, <2>1, MoveKeepsChecks DEF Ended, Collected
<1>4. CASE SignRemotely(c)
    <2>1. /\ UNCHANGED <<chainVars, req, found>> /\ pc[c] = "signing" /\ pc'[c] = "signed"
        BY <1>1, <1>4 DEF SignRemotely, TypeOK
    <2> QED
        BY <1>1, <2>1, MoveKeepsChecks
<1>5. CASE Drop(c)
    <2>1. UNCHANGED <<chainVars, req, found>> /\ pc'[c] = "dropped"
        BY <1>1, <1>5 DEF Drop, TypeOK
    <2> QED
        BY <1>1, <2>1, MoveKeepsChecks DEF Ended
<1>6. CASE SignLate(c)
    BY <1>1, <1>6, CallChecksKept DEF SignLate, callVars
<1> QED
    BY <1>2, <1>3, <1>4, <1>5, <1>6

\* A check ends with the verdict of the block asked for, or with a failure of
\* the adapter.  The last one of a batch settles the reply.
LEMMA EndCheckKeepsChecks ==
    ASSUME RInv, NEW c \in Calls, NEW i \in DOMAIN found[c], NEW r \in Entries,
           pc[c] = "packets", EndCheck(c, i, r), UNCHANGED <<chainVars, req>>,
           ReadsNamedBlock(req[c].height) /\ r.verdict # "adapter_error" =>
                r.verdict = Verdict(req[c].type, req[c].packets[i], ValueAt(req[c], i)),
           (Adapter # "cosmos" /\ req[c].type = "receipt" /\ r.value # Zero) =>
                r.verdict = "unexpected_receipt"
    PROVE  CallChecks(c)'
<1>0. PICK q, results : q = req[c] /\ results = [found[c] EXCEPT ![i] = r]
    OBVIOUS
<1>1. TypeOK /\ CallChecks(c) /\ found[c] \in Seq(Entries) /\ found[c] # <<>>
    <2>1. TypeOK /\ CallChecks(c)
        BY DEF RInv, AInv, IInv
    <2>2. found[c] \in Seq(Entries)
        BY <2>1 DEF TypeOK
    <2> QED
        BY <2>1, <2>2
<1>2. /\ results \in Seq(Entries) /\ DOMAIN results = DOMAIN found[c]
      /\ results[i] = r /\ \A j \in DOMAIN results \ {i} : results[j] = found[c][j]
    BY <1>0, <1>1, ExceptSeq
<1>3. results # <<>>
    BY <1>2
<1>4. found'[c] = results
    BY <1>0, <1>1, <1>2 DEF EndCheck, TypeOK
<1>5. /\ q \in Requests /\ Malformed(q) = {} /\ q.method = "packet"
      /\ q.height \in 0..latest /\ Final(q.height) /\ DOMAIN results = DOMAIN q.packets
    BY <1>0, <1>1, <1>2 DEF CallChecks
<1>6. ReadsNamedBlock(q.height) => ChecksAreOfBlock(q, results)
    BY <1>0, <1>1, <1>2 DEF CallChecks, ChecksAreOfBlock
<1>7. \A j \in DOMAIN results :
        (Adapter # "cosmos" /\ q.type = "receipt" /\ results[j].value # Zero) =>
            results[j].verdict = "unexpected_receipt"
    BY <1>0, <1>1, <1>2 DEF CallChecks
<1>8. /\ pc'[c] \in {"packets", "signing", "done"}
      /\ pc'[c] = "signing" => \A j \in DOMAIN results : results[j].verdict = "ok"
      /\ pc'[c] = "done" => Collected(results, reply'[c].code)
    <2>1. CASE UNCHANGED <<pc, draft, reply>>
        BY <2>1
    <2>2. CASE /\ \A j \in DOMAIN results : results[j].verdict # "pending"
               /\ \E j \in Reported(results) :
                    Return(c, req[c].method, Error(CodeOf(results[j].verdict)), Counted(r.verdict))
        <3>1. PICK j \in Reported(results) :
                Return(c, req[c].method, Error(CodeOf(results[j].verdict)), Counted(r.verdict))
            BY <2>2
        <3>2. pc'[c] = "done" /\ reply'[c].code = CodeOf(results[j].verdict)
            BY <1>1, <3>1, ReturnReply DEF Error
        <3>3. results[j].verdict # "pending"
            BY <2>2 DEF Reported
        <3> QED
            BY <3>2, <3>3 DEF Collected
    <2>3. CASE /\ \A j \in DOMAIN results : results[j].verdict = "ok"
               /\ Sign(c, PacketAttestation(req[c].height, Compact(req[c], results)))
        <3>1. pc'[c] = "signing"
            BY <1>1, <2>3 DEF Sign, TypeOK
        <3> QED
            BY <2>3, <3>1
    <2> QED
        BY <1>0, <2>1, <2>2, <2>3 DEF EndCheck
<1>9. /\ req'[c] = q /\ latest' = latest /\ Final(q.height)'
      /\ ReadsNamedBlock(q.height)' <=> ReadsNamedBlock(q.height)
      /\ ChecksAreOfBlock(q, results) => ChecksAreOfBlock(req[c], found[c])'
    <2>1. req'[c] = q /\ latest' = latest /\ blocks' = blocks /\ settled' = settled
        BY <1>0 DEF chainVars
    <2>2. Final(q.height)' /\ (ReadsNamedBlock(q.height)' <=> ReadsNamedBlock(q.height))
        BY <1>5, <2>1 DEF Final, ReadsNamedBlock
    <2>3. ChecksAreOfBlock(q, results) => ChecksAreOfBlock(req[c], found[c])'
        BY <1>4, <2>1 DEF ChecksAreOfBlock, ValueAt
    <2> QED
        BY <2>1, <2>2, <2>3
<1>10. pc'[c] = "done" => Collected(found[c], reply[c].code)'
    BY <1>4, <1>8 DEF Collected, Reported
<1> HIDE DEF ReadsNamedBlock
<1>11. found'[c] # <<>> =>
        /\ pc'[c] \in {"packets", "signing", "signed"} \cup Ended
        /\ req'[c] \in Requests /\ Malformed(req[c])' = {} /\ req'[c].method = "packet"
        /\ req'[c].height \in 0..latest' /\ Final(req[c].height)'
        /\ DOMAIN found'[c] = DOMAIN req'[c].packets
        /\ ReadsNamedBlock(req[c].height)' => ChecksAreOfBlock(req[c], found[c])'
    BY <1>4, <1>5, <1>6, <1>8, <1>9 DEF Ended, Malformed, Final, ReadsNamedBlock
<1> QED
    BY <1>3, <1>4, <1>7, <1>8, <1>9, <1>10, <1>11 DEF CallChecks

\* Where a query reads the block that is named, it returns what that holds.
LEMMA NamedBlockIsRead ==
    ASSUME ChainInv, NEW h \in 0..latest, ReadsNamedBlock(h), NEW path,
           NEW value \in CommitmentsAt(path, h)
    PROVE  value = Read(blocks[h].store[path])
<1>1. ReadHeights(h) \subseteq {h}
    BY AdapterAssumption DEF ReadsNamedBlock, ReadHeights, CosmosReads, AbciQueryHeights,
        EvmReads, NodeBlock
<1> QED
    BY <1>1 DEF CommitmentsAt

\* A check has the verdict of what it read, or of the adapter's failure.
LEMMA ChecksKeepChecks ==
    ASSUME RInv, NEW c \in Calls, NEW i \in DOMAIN found[c],
           CheckPacket(c, i) \/ CommitmentFails(c, i)
    PROVE  CallChecks(c)'
<1>1. TypeOK /\ ChainInv /\ CallChecks(c) /\ CallInv(c) /\ found[c] # <<>>
    <2>1. TypeOK /\ ChainInv /\ CallChecks(c) /\ CallInv(c)
        BY DEF RInv, AInv, IInv, TypeOK, ChainInv
    <2> QED
        BY <2>1
<1>2. pc[c] = "packets" /\ UNCHANGED <<chainVars, req>>
    BY DEF CheckPacket, CommitmentFails
<1>3. /\ req[c] \in Requests /\ Malformed(req[c]) = {} /\ req[c].method = "packet"
      /\ req[c].height \in 0..latest /\ i \in DOMAIN req[c].packets
    BY <1>1 DEF CallChecks
<1>4. CASE CheckPacket(c, i)
    <2> DEFINE type == req[c].type
               p == req[c].packets[i]
    <2>1. PICK value \in CommitmentsAt(Path(type, p), req[c].height) :
            EndCheck(c, i, Result(Verdict(type, p, value), value))
        BY <1>4 DEF CheckPacket
    <2>2. Path(type, p) \in Paths
        <3>1. type \in CommitmentTypes /\ p \in Packets
            BY <1>3, RequestFacts
        <3> QED
            BY <3>1 DEF Paths
    <2>3. value \in Commitments \cup {Zero}
        BY <1>1, <1>3, <2>2, CommitmentsAtType
    <2>4. ReadsNamedBlock(req[c].height) => value = ValueAt(req[c], i)
        BY <1>1, <1>3, NamedBlockIsRead DEF ValueAt
    <2>5. /\ Result(Verdict(type, p, value), value) \in Entries
          /\ Result(Verdict(type, p, value), value).verdict = Verdict(type, p, value)
          /\ Result(Verdict(type, p, value), value).value = value
        BY <2>3, VerdictType DEF Result, Entries
    <2>6. (Adapter # "cosmos" /\ type = "receipt" /\ value # Zero) =>
            Verdict(type, p, value) = "unexpected_receipt"
        BY DEF Verdict, AdapterRefuses
    <2> QED
        BY <1>2, <2>1, <2>4, <2>5, <2>6, EndCheckKeepsChecks
<1>5. CASE CommitmentFails(c, i)
    <2>1. /\ Result("adapter_error", Zero) \in Entries
          /\ Result("adapter_error", Zero).verdict = "adapter_error"
          /\ Result("adapter_error", Zero).value = Zero
        BY DEF Result, Entries, Verdicts
    <2>2. EndCheck(c, i, Result("adapter_error", Zero))
        BY <1>5 DEF CommitmentFails
    <2> QED
        BY <1>2, <2>1, <2>2, EndCheckKeepsChecks
<1> QED
    BY <1>4, <1>5

\* No step of a call touches what others have found.
LEMMA OthersKeepChecks ==
    ASSUME RInv, NEW c \in Calls, Moves(c), NEW d \in Calls \ {c}
    PROVE  CallChecks(d)'
<1>1. /\ pc'[d] = pc[d] /\ req'[d] = req[d] /\ found'[d] = found[d] /\ reply'[d] = reply[d]
      /\ UNCHANGED chainVars
    BY DEF Moves, Others
<1>2. ChainInv /\ CallChecks(d)
    BY DEF RInv, AInv, IInv, TypeOK, ChainInv
<1> QED
    BY <1>1, <1>2, CallChecksKept

\* At first no call has found anything.
LEMMA RInvInit == Init => RInv
<1> SUFFICES ASSUME Init PROVE RInv
    OBVIOUS
<1>1. \A c \in Calls : CallChecks(c)
    BY DEF Init, CallChecks
<1> QED
    BY <1>1, AInvInit DEF RInv

\* Every step keeps what the checks have found.
LEMMA RInvNext == RInv /\ [Next]_vars => RInv'
<1> SUFFICES ASSUME RInv, [Next]_vars PROVE RInv'
    OBVIOUS
<1>1. AInv'
    BY AInvNext DEF RInv
<1>2. ASSUME NEW c \in Calls, Receive(c) \/ Progress(c) \/ Drop(c) \/ SignLate(c)
      PROVE  \A d \in Calls : CallChecks(d)'
    <2>1. CallChecks(c)'
        BY <1>1, <1>2, EarlyStepsKeepChecks, AcceptHeightKeepsChecks, LateStepsKeepChecks,
           ChecksKeepChecks DEF Progress
    <2>2. Moves(c)
        BY <1>2, CallMoves DEF RInv
    <2> QED
        BY <2>1, <2>2, OthersKeepChecks
<1>3. ASSUME ChainNext \/ UNCHANGED chainVars, UNCHANGED <<callVars, signed>>
      PROVE  \A d \in Calls : CallChecks(d)'
    <2>1. ChainInv
        BY DEF RInv, AInv, IInv, TypeOK, ChainInv
    <2> QED
        BY <1>3, <2>1, CallChecksKept DEF RInv, callVars
<1>4. CASE ChainStep \/ UNCHANGED vars \/ Quiet
    BY <1>1, <1>3, <1>4 DEF RInv, ChainStep, Quiet, vars
<1> QED
    BY <1>1, <1>2, <1>4 DEF RInv, Next
-----------------------------------------------------------------------------
(***************************************************************************)
(* The theorems                                                            *)
(***************************************************************************)

\* What the checks of a batch have found, in every state of every behaviour:
\* the verdicts of the one final block that the request names, whatever the
\* chain and other calls did between the checks.
THEOREM ChecksHold == Spec => []RInv
BY RInvInit, RInvNext, PTL DEF Spec

\* The code of a verdict is what a sequential service refuses the packet for.
LEMMA VerdictIsRefusal ==
    ASSUME NEW q, q.type \in CommitmentTypes, NEW i,
           NEW verdict, verdict = Verdict(q.type, q.packets[i], ValueAt(q, i)),
           verdict # "adapter_error"
    PROVE  /\ CodeOf(verdict) = SequentialRefusal(q, i)
           /\ verdict = "ok" <=> SequentialRefusal(q, i) = "ok"
<1>1. ~AdapterRefuses(q.type, ValueAt(q, i))
    BY DEF Verdict
<1>2. q.type = "receipt" /\ ValueAt(q, i) # Zero => Adapter # "cosmos"
    BY <1>1 DEF AdapterRefuses, CosmosRefuses
<1> QED
    BY <1>1, <1>2 DEF Verdict, CodeOf, SequentialRefusal, ValueAt, CommitmentTypes

\* However the concurrent checks of a batch are ordered, among themselves and
\* with the chain, the reply is that of a service that looks at the packets
\* one after the other: FuturesOrdered in rpc/attestor.rs, for batches of any
\* length and any number of calls.
THEOREM RepliesSequential == Spec => []RepliesAreSequential
<1>1. ASSUME RInv, NEW c \in Calls, pc[c] = "done", ReadsNamedBlock(req[c].height),
             found[c] # <<>>, reply[c].code # "internal"
      PROVE  reply[c].code = SequentialReply(req[c])
    <2>0. PICK q, results, code : q = req[c] /\ results = found[c] /\ code = reply[c].code
        OBVIOUS
    <2>1. /\ q \in Requests /\ Malformed(q) = {} /\ q.method = "packet"
          /\ DOMAIN results = DOMAIN q.packets
          /\ ChecksAreOfBlock(q, results) /\ Collected(results, code)
        BY <1>1, <2>0 DEF RInv, CallChecks
    <2>2. /\ q.packets \in Seq(Packets) /\ q.type \in CommitmentTypes
          /\ Len(q.packets) \in Nat /\ DOMAIN results = 1..Len(q.packets)
        <3>1. q.packets \in Seq(Packets) /\ q.type \in CommitmentTypes
            BY <2>1, RequestFacts
        <3> QED
            BY <2>1, <3>1
    <2>3. ASSUME NEW i \in DOMAIN results, results[i].verdict \notin {"pending", "adapter_error"}
          PROVE  /\ CodeOf(results[i].verdict) = SequentialRefusal(q, i)
                 /\ results[i].verdict = "ok" <=> SequentialRefusal(q, i) = "ok"
        BY <2>1, <2>2, <2>3, VerdictIsRefusal DEF ChecksAreOfBlock
    <2>4. CASE code = "ok" /\ \A i \in DOMAIN results : results[i].verdict = "ok"
        <3>1. \A i \in 1..Len(q.packets) : SequentialRefusal(q, i) = "ok"
            BY <2>2, <2>3, <2>4
        <3> QED
            BY <2>0, <2>2, <2>4, <3>1, SequentialStops
    <2>5. CASE \E j \in Reported(results) :
                results[j].verdict # "pending" /\ code = CodeOf(results[j].verdict)
        <3>1. PICK j \in Reported(results) :
                results[j].verdict # "pending" /\ code = CodeOf(results[j].verdict)
            BY <2>5
        <3>2. /\ j \in DOMAIN results /\ results[j].verdict # "ok"
              /\ \A k \in 1..(j - 1) : results[k].verdict = "ok"
            BY <3>1 DEF Reported
        <3>3. results[j].verdict # "adapter_error"
            BY <1>1, <2>0, <3>1 DEF CodeOf
        <3>4. j \in 1..Len(q.packets) /\ \A k \in 1..(j - 1) : k \in DOMAIN results
            BY <2>2, <3>2
        <3>5. FirstFrom(q, 1, j)
            BY <2>2, <2>3, <3>1, <3>2, <3>3, <3>4 DEF FirstFrom
        <3>6. code = SequentialRefusal(q, j)
            BY <2>3, <3>1, <3>2, <3>3
        <3> QED
            BY <2>0, <2>2, <3>4, <3>5, <3>6, SequentialStops
    <2> QED
        BY <1>1, <2>0, <2>1, <2>4, <2>5 DEF Collected
<1>2. RInv => RepliesAreSequential
    BY <1>1 DEF RepliesAreSequential, ReadsNamedBlock
<1> QED
    BY <1>2, ChecksHold, PTL
-----------------------------------------------------------------------------
(***************************************************************************)
(* Where the counterexamples about heights end                             *)
(***************************************************************************)

\* The counterexamples to the account of a packet attestation are those of
\* Solana, which has no query at a slot, and of height 0 on Cosmos: with any
\* other adapter, and on Cosmos when no request names height 0, whatever is
\* signed was found at the height it is signed for.
THEOREM FoundAtHeight ==
    ASSUME Adapter # "solana",
           Adapter = "cosmos" => \A q \in Requests : q.method = "packet" => q.height # 0
    PROVE  Spec => []CommitmentsFoundAtHeight
<1>1. ASSUME AInv, NEW a \in signed, a.kind = "packet"
      PROVE  \A i \in DOMAIN a.packets :
                Read(blocks[a.height].store[a.packets[i].path]) = a.packets[i].commitment
    <2>1. PICK c \in Calls : draft[c] = a /\ a # NoDraft /\ pc[c] \in {"signed"} \cup Ended
        BY <1>1 DEF AInv, SignedAreDrafts
    <2>2. CallAnswers(c) /\ pc[c] # "idle"
        BY <1>1, <2>1 DEF AInv, Ended
    <2>3. req[c] \in Requests /\ req[c].method = "packet" /\ req[c].height = a.height
        BY <1>1, <2>1, <2>2 DEF CallAnswers, Answers
    <2>4. Sources(a.height) \subseteq {a.height}
        BY <2>3 DEF Sources, MaySpeakOf
    <2>5. \A i \in DOMAIN a.packets : \E v \in Sources(a.height) :
            Read(blocks[v].store[a.packets[i].path]) = a.packets[i].commitment
        BY <1>1 DEF AInv, IInv, SignedStatementsTrue, TrueStatement
    <2> QED
        BY <2>4, <2>5
<1>2. AInv => CommitmentsFoundAtHeight
    BY <1>1 DEF CommitmentsFoundAtHeight
<1> QED
    BY <1>2, DraftsAnswer, PTL

\* The only height that an offset lets through too early is 0, on a chain
\* shorter than the offset, where saturating_sub answers 0: with requests for
\* other heights, or no offset, a height is accepted only when it lies
\* FinalityOffset blocks below the newest one.
THEOREM OffsetHeightsFinal ==
    ASSUME \/ FinalityOffset = 0
           \/ /\ Adapter = "evm_offset"
              /\ \A q \in Requests : q.method # "latest_height" => q.height # 0
    PROVE  Spec => NoHeightBeforeFinality
<1>1. ASSUME AInv, NEW c \in Calls, AcceptHeight(c)
      PROVE  req[c].height + FinalityOffset <= latest
    <2>1. ChainInv /\ CallInv(c)
        BY <1>1 DEF AInv, IInv, TypeOK, ChainInv
    <2>2. req[c] \in Requests /\ req[c].height \in Nat
        BY <1>1, <2>1, RequestFacts DEF CallInv, AcceptHeight
    <2>3. PICK f \in LastHeights : req[c].height <= f
        BY <1>1 DEF AcceptHeight, HeightAccepted
    <2>4. CASE FinalityOffset = 0
        <3>1. req[c].height \in 0..latest
            BY <2>1, <2>2, <2>3, LastHeightsFinal
        <3> QED
            BY <2>1, <2>4, <3>1 DEF ChainInv
    <2>5. CASE Adapter = "evm_offset" /\ req[c].height # 0
        <3>1. PICK v \in Lagging(latest) : f = SaturatingSub(v, FinalityOffset)
            BY <2>3, <2>5 DEF LastHeights, EvmLastHeights
        <3>2. v \in Int /\ v <= latest
            BY <2>1, <3>1 DEF Lagging, ChainInv
        <3> QED
            BY <2>1, <2>2, <2>3, <2>5, <3>1, <3>2, AdapterAssumption, ChainAssumption
            DEF SaturatingSub, ChainInv
    <2> QED
        BY <1>1, <2>2, <2>4, <2>5 DEF AcceptHeight
<1>2. AInv => \A c \in Calls : AcceptHeight(c) => req[c].height + FinalityOffset <= latest
    BY <1>1
<1> QED
    BY <1>2, DraftsAnswer, PTL DEF NoHeightBeforeFinality
=============================================================================
