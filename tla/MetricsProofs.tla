---------------------------- MODULE MetricsProofs ----------------------------
(***************************************************************************)
(* That the counters account for the replies, for any number of calls and  *)
(* requests, and where the counterexamples about counters end.             *)
(*                                                                         *)
(* The argument: a step moves one call, so it adds at most that call to    *)
(* each of the sets that a counter is about (Tells), and adds it just when *)
(* the step increments the counter.  The sets are finite, since a call     *)
(* that is in one of them has been received, and only finitely many are in *)
(* a state (Began).  What the replies say of the failed checks comes from  *)
(* RepliesProofs.                                                          *)
(***************************************************************************)
EXTENDS RepliesProofs, FiniteSetTheorems

Rejection == Metric("height_rejection", "")
SignOk == Metric("sign", "ok")
SignErr == Metric("sign", "err")
Failure(kind) == Metric("commitment_failure", kind)

\* The counters that are not by the code of a reply.
Particular == {Rejection, SignOk, SignErr} \cup {Failure(kind) : kind \in Failures}

(***************************************************************************)
(* The calls that the counters are about                                   *)
(***************************************************************************)
Began == {c \in Calls : pc[c] # "idle"}

ReturnedWith(methods, code) ==
    {c \in Calls : pc[c] = "done" /\ req[c].method \in methods /\ reply[c].code = code}

Rejected == ReturnedWith(Methods, "failed_precondition")
Attesting == ReturnedWith({"state", "packet"}, "ok")

Failed(c, kind) == {i \in DOMAIN found[c] : found[c][i].verdict = kind}
FailedCalls(kind) == {c \in Calls : Failed(c, kind) # {}}

CalledSigner(c) == pc[c] \in Ended /\ draft[c] # NoDraft
SignerCalls == {c \in Calls : CalledSigner(c)}

\* The inductive invariant.  A local signer never leaves a call waiting for
\* its answer, so none can be dropped there.
MInv ==
    /\ RInv
    /\ IsFiniteSet(Began)
    /\ metrics[Rejection] = Cardinality(Rejected)
    /\ metrics[SignOk] = Cardinality(Attesting)
    /\ \A kind \in Failures :
        /\ IsFiniteSet(FailedChecks(kind))
        /\ metrics[Failure(kind)] = Cardinality(FailedChecks(kind))
        /\ metrics[Failure(kind)] >= Cardinality(FailedCalls(kind))
    /\ Signer = "local" =>
        /\ \A c \in Calls : pc[c] # "signed"
        /\ metrics[SignOk] + metrics[SignErr] >= Cardinality(SignerCalls)

\* A check of call c fails as this kind just when that is counted.
FailsAs(c, kind, labels) ==
    IF Failure(kind) \in labels
    THEN \E i : i \notin Failed(c, kind) /\ Failed(c, kind)' = Failed(c, kind) \cup {i}
    ELSE Failed(c, kind)' = Failed(c, kind)

\* What a step of call c increments, and what it makes of the call.
Tells(c, labels) ==
    /\ metrics' = Incremented(labels)
    /\ Rejection \in labels <=>
        pc[c] # "done" /\ pc'[c] = "done" /\ reply'[c].code = "failed_precondition"
    /\ SignOk \in labels <=>
        /\ pc[c] # "done" /\ pc'[c] = "done"
        /\ reply'[c].code = "ok" /\ req'[c].method \in {"state", "packet"}
    /\ pc[c] = "done" => pc'[c] = "done" /\ req'[c] = req[c] /\ reply'[c] = reply[c]
    /\ \A kind \in Failures : FailsAs(c, kind, labels)
    /\ Signer = "local" =>
        /\ pc'[c] # "signed"
        /\ CalledSigner(c)' => CalledSigner(c) \/ SignOk \in labels \/ SignErr \in labels

-----------------------------------------------------------------------------
(***************************************************************************)
(* Counting                                                                *)
(***************************************************************************)

\* The particular counters are counters, all different.
LEMMA ParticularLabels ==
    /\ Particular \subseteq MetricLabels
    /\ Rejection # SignOk /\ Rejection # SignErr /\ SignOk # SignErr
    /\ \A kind \in Failures :
        Failure(kind) \notin {Rejection, SignOk, SignErr}
    /\ \A method \in Methods : \A code : Metric(method, code) \notin Particular
<1>1. \A name, label : Metric(name, label).name = name /\ Metric(name, label).label = label
    BY DEF Metric
<1>2. Particular \subseteq MetricLabels
    <2>1. Rejection \in MetricLabels
        BY DEF Rejection, Metric, MetricLabels
    <2>2. SignOk \in MetricLabels /\ SignErr \in MetricLabels
        BY DEF SignOk, SignErr, Metric, MetricLabels
    <2>3. \A kind \in Failures : Failure(kind) \in MetricLabels
        BY DEF Failure, Metric, MetricLabels
    <2> QED
        BY <2>1, <2>2, <2>3 DEF Particular
<1>3. /\ Rejection.name = "height_rejection"
      /\ SignOk.name = "sign" /\ SignOk.label = "ok"
      /\ SignErr.name = "sign" /\ SignErr.label = "err"
      /\ \A kind \in Failures : Failure(kind).name = "commitment_failure"
    BY <1>1 DEF Rejection, SignOk, SignErr, Failure
<1>4. Rejection # SignOk /\ Rejection # SignErr /\ SignOk # SignErr
    BY <1>3
<1>5. \A kind \in Failures : Failure(kind) \notin {Rejection, SignOk, SignErr}
    BY <1>3
<1>6. \A l \in Particular : l.name \notin Methods
    BY <1>3 DEF Particular, Methods
<1>7. \A method \in Methods : \A code : Metric(method, code) \notin Particular
    BY <1>1, <1>6
<1> QED
    BY <1>2, <1>4, <1>5, <1>7

\* One call more, or none.
LEMMA OneMore ==
    ASSUME NEW A, IsFiniteSet(A), NEW c, NEW B, B \subseteq A \cup {c}
    PROVE  /\ IsFiniteSet(B) /\ Cardinality(A) \in Nat /\ Cardinality(B) \in Nat
           /\ Cardinality(B) <= Cardinality(A) + 1
           /\ B \subseteq A => Cardinality(B) <= Cardinality(A)
           /\ c \notin A /\ B = A \cup {c} => Cardinality(B) = Cardinality(A) + 1
<1>1. /\ IsFiniteSet(A \cup {c}) /\ Cardinality(A) \in Nat /\ Cardinality(A \cup {c}) \in Nat
      /\ Cardinality(A \cup {c}) =
            IF c \in A THEN Cardinality(A) ELSE Cardinality(A) + 1
    BY FS_AddElement, FS_CardinalityType
<1>2. /\ IsFiniteSet(B) /\ Cardinality(B) \in Nat
      /\ Cardinality(B) <= Cardinality(A \cup {c})
    BY <1>1, FS_Subset, FS_CardinalityType
<1>3. B \subseteq A => Cardinality(B) <= Cardinality(A)
    BY FS_Subset
<1> QED
    BY <1>1, <1>2, <1>3

\* The counters after a step.
LEMMA CounterSteps ==
    ASSUME TypeOK, NEW labels, metrics' = Incremented(labels), NEW l \in Particular
    PROVE  /\ metrics[l] \in Nat /\ metrics'[l] \in Nat
           /\ metrics'[l] = IF l \in labels THEN metrics[l] + 1 ELSE metrics[l]
BY ParticularLabels DEF TypeOK, Incremented

\* A step that counts nothing.
LEMMA NothingCounted ==
    ASSUME TypeOK, metrics' = metrics
    PROVE  metrics' = Incremented({})
BY DEF TypeOK, Incremented

\* The sets are finite: their calls have been received.
LEMMA SetsAreFinite ==
    ASSUME RInv, IsFiniteSet(Began)
    PROVE  /\ \A methods, code : IsFiniteSet(ReturnedWith(methods, code))
           /\ \A kind \in Failures : IsFiniteSet(FailedCalls(kind))
           /\ IsFiniteSet(SignerCalls)
<1>1. \A c \in Calls : found[c] # <<>> => pc[c] # "idle"
    BY DEF RInv, CallChecks, Ended
<1>2. /\ \A methods, code : ReturnedWith(methods, code) \subseteq Began
      /\ \A kind \in Failures : FailedCalls(kind) \subseteq Began
      /\ SignerCalls \subseteq Began
    BY <1>1 DEF ReturnedWith, Began, FailedCalls, Failed, SignerCalls, CalledSigner, Ended
<1> QED
    BY <1>2, FS_Subset

\* The failed checks, call by call.
LEMMA FailedChecksAre ==
    \A kind : FailedChecks(kind) = UNION {{c} \X Failed(c, kind) : c \in Calls}
BY DEF FailedChecks, Failed

LEMMA FailedChecksHas ==
    \A kind, x : x \in FailedChecks(kind) <=>
        \E c \in Calls : \E i \in Failed(c, kind) : x = <<c, i>>
BY FailedChecksAre

\* No check fails.
LEMMA FailedChecksSame ==
    ASSUME NEW kind, \A c \in Calls : Failed(c, kind)' = Failed(c, kind)
    PROVE  FailedChecks(kind)' = FailedChecks(kind)
<1>1. \A x : x \in FailedChecks(kind)' <=>
        \E c \in Calls : \E i \in Failed(c, kind)' : x = <<c, i>>
    BY DEF FailedChecks, Failed
<1> QED
    BY <1>1, FailedChecksHas

\* One check fails.
LEMMA FailedChecksMore ==
    ASSUME NEW kind, NEW c \in Calls, NEW i, i \notin Failed(c, kind),
           Failed(c, kind)' = Failed(c, kind) \cup {i},
           \A d \in Calls \ {c} : Failed(d, kind)' = Failed(d, kind)
    PROVE  /\ <<c, i>> \notin FailedChecks(kind)
           /\ FailedChecks(kind)' = FailedChecks(kind) \cup {<<c, i>>}
<1>1. \A x : x \in FailedChecks(kind)' <=>
        \E d \in Calls : \E j \in Failed(d, kind)' : x = <<d, j>>
    BY DEF FailedChecks, Failed
<1>2. <<c, i>> \notin FailedChecks(kind)
    BY FailedChecksHas
<1>3. \A x : x \in FailedChecks(kind)' <=> x \in FailedChecks(kind) \cup {<<c, i>>}
    BY <1>1, FailedChecksHas
<1> QED
    BY <1>2, <1>3

\* A step of a call adds at most that call, and what it adds is counted.
LEMMA TellingKeepsInv ==
    ASSUME MInv, RInv', NEW c \in Calls, Others(c), NEW labels, Tells(c, labels)
    PROVE  MInv'
<1>1. TypeOK /\ TypeOK' /\ RInv /\ IsFiniteSet(Began)
    BY DEF MInv, RInv, AInv, IInv
<1>2. /\ Rejection \in Particular /\ SignOk \in Particular /\ SignErr \in Particular
      /\ \A kind \in Failures : Failure(kind) \in Particular
    BY DEF Particular
<1>3. metrics' = Incremented(labels)
    BY DEF Tells
<1>4. \A d \in Calls : pc'[d] = "done" => req'[d].method \in Methods
    BY RequestAssumption DEF RInv, AInv, CallAnswers, RequestType
<1>5. IsFiniteSet(Began')
    <2>1. Began' \subseteq Began \cup {c}
        BY DEF Began, Others
    <2> QED
        BY <1>1, <2>1, OneMore
<1>6. metrics'[Rejection] = Cardinality(Rejected')
    <2>1. /\ Rejection \in labels => c \notin Rejected /\ Rejected' = Rejected \cup {c}
          /\ Rejection \notin labels => Rejected' = Rejected
        <3>1. \A d \in Calls \ {c} : d \in Rejected' <=> d \in Rejected
            BY DEF Others, Rejected, ReturnedWith
        <3>2. /\ Rejection \in labels => c \notin Rejected /\ c \in Rejected'
              /\ Rejection \notin labels => (c \in Rejected' <=> c \in Rejected)
            BY <1>4 DEF Tells, Rejected, ReturnedWith
        <3>3. Rejected \subseteq Calls /\ Rejected' \subseteq Calls
            BY DEF Rejected, ReturnedWith
        <3> QED
            BY <3>1, <3>2, <3>3
    <2>2. metrics[Rejection] = Cardinality(Rejected)
        BY DEF MInv
    <2>3. metrics'[Rejection] =
            IF Rejection \in labels THEN metrics[Rejection] + 1 ELSE metrics[Rejection]
        BY <1>1, <1>2, <1>3, CounterSteps
    <2>4. IsFiniteSet(Rejected)
        BY <1>1, SetsAreFinite DEF Rejected
    <2>5. Rejection \in labels => Cardinality(Rejected') = Cardinality(Rejected) + 1
        <3>1. Rejected' \subseteq Rejected \cup {c}
            BY <2>1
        <3> QED
            BY <2>1, <2>4, <3>1, OneMore
    <2> QED
        BY <2>1, <2>2, <2>3, <2>5
<1>7. metrics'[SignOk] = Cardinality(Attesting')
    <2>1. /\ SignOk \in labels => c \notin Attesting /\ Attesting' = Attesting \cup {c}
          /\ SignOk \notin labels => Attesting' = Attesting
        <3>1. \A d \in Calls \ {c} : d \in Attesting' <=> d \in Attesting
            BY DEF Others, Attesting, ReturnedWith
        <3>2. /\ SignOk \in labels => c \notin Attesting /\ c \in Attesting'
              /\ SignOk \notin labels => (c \in Attesting' <=> c \in Attesting)
            BY DEF Tells, Attesting, ReturnedWith
        <3>3. Attesting \subseteq Calls /\ Attesting' \subseteq Calls
            BY DEF Attesting, ReturnedWith
        <3> QED
            BY <3>1, <3>2, <3>3
    <2>2. IsFiniteSet(Attesting)
        BY <1>1, SetsAreFinite DEF Attesting
    <2>3. /\ Attesting' \subseteq Attesting \cup {c}
          /\ metrics[SignOk] = Cardinality(Attesting)
        BY <2>1 DEF MInv
    <2> QED
        BY <1>1, <1>2, <1>3, <2>1, <2>2, <2>3, OneMore, CounterSteps
<1>8. ASSUME NEW kind \in Failures
      PROVE  metrics'[Failure(kind)] >= Cardinality(FailedCalls(kind)')
    <2>1. /\ FailedCalls(kind)' \subseteq FailedCalls(kind) \cup {c}
          /\ Failure(kind) \notin labels => FailedCalls(kind)' \subseteq FailedCalls(kind)
        <3>1. \A d \in Calls \ {c} : Failed(d, kind)' = Failed(d, kind)
            BY DEF Others, Failed
        <3>2. Failure(kind) \notin labels => Failed(c, kind)' = Failed(c, kind)
            BY <1>8 DEF Tells, FailsAs
        <3> QED
            BY <3>1, <3>2 DEF FailedCalls
    <2>2. metrics[Failure(kind)] >= Cardinality(FailedCalls(kind))
        BY <1>8 DEF MInv
    <2>3. /\ Cardinality(FailedCalls(kind)) \in Nat /\ Cardinality(FailedCalls(kind)') \in Nat
          /\ Cardinality(FailedCalls(kind)') <= Cardinality(FailedCalls(kind)) + 1
          /\ Failure(kind) \notin labels =>
                Cardinality(FailedCalls(kind)') <= Cardinality(FailedCalls(kind))
        BY <1>1, <2>1, SetsAreFinite, OneMore
    <2> QED
        BY <1>1, <1>2, <1>3, <2>2, <2>3, CounterSteps
<1>9. ASSUME Signer = "local"
      PROVE  /\ \A d \in Calls : pc'[d] # "signed"
             /\ metrics'[SignOk] + metrics'[SignErr] >= Cardinality(SignerCalls')
    <2>1. /\ SignerCalls' \subseteq SignerCalls \cup {c}
          /\ SignOk \notin labels /\ SignErr \notin labels => SignerCalls' \subseteq SignerCalls
        <3>1. \A d \in Calls \ {c} : CalledSigner(d)' <=> CalledSigner(d)
            BY DEF Others, CalledSigner
        <3>2. SignOk \notin labels /\ SignErr \notin labels =>
                (CalledSigner(c)' => CalledSigner(c))
            BY <1>9 DEF Tells
        <3> QED
            BY <3>1, <3>2 DEF SignerCalls
    <2>2. /\ metrics[SignOk] + metrics[SignErr] >= Cardinality(SignerCalls)
          /\ \A d \in Calls : pc[d] # "signed"
        BY <1>9 DEF MInv
    <2>3. /\ Cardinality(SignerCalls) \in Nat /\ Cardinality(SignerCalls') \in Nat
          /\ Cardinality(SignerCalls') <= Cardinality(SignerCalls) + 1
          /\ SignOk \notin labels /\ SignErr \notin labels =>
                Cardinality(SignerCalls') <= Cardinality(SignerCalls)
        BY <1>1, <2>1, SetsAreFinite, OneMore
    <2>4. metrics'[SignOk] + metrics'[SignErr] >= Cardinality(SignerCalls')
        BY <1>1, <1>2, <1>3, <2>2, <2>3, CounterSteps
    <2>5. \A d \in Calls : pc'[d] # "signed"
        BY <1>9, <2>2 DEF Tells, Others
    <2> QED
        BY <2>4, <2>5
<1>10. ASSUME NEW kind \in Failures
       PROVE  /\ IsFiniteSet(FailedChecks(kind)')
              /\ metrics'[Failure(kind)] = Cardinality(FailedChecks(kind)')
    <2>1. /\ IsFiniteSet(FailedChecks(kind))
          /\ metrics[Failure(kind)] = Cardinality(FailedChecks(kind))
          /\ FailsAs(c, kind, labels)
        BY <1>10 DEF MInv, Tells
    <2>2. \A d \in Calls \ {c} : Failed(d, kind)' = Failed(d, kind)
        BY DEF Others, Failed
    <2>3. CASE Failure(kind) \notin labels
        <3>1. FailedChecks(kind)' = FailedChecks(kind)
            BY <2>1, <2>2, <2>3, FailedChecksSame DEF FailsAs
        <3> QED
            BY <1>1, <1>2, <1>3, <2>1, <2>3, <3>1, CounterSteps
    <2>4. CASE Failure(kind) \in labels
        <3>1. PICK i : i \notin Failed(c, kind) /\ Failed(c, kind)' = Failed(c, kind) \cup {i}
            BY <2>1, <2>4 DEF FailsAs
        <3>2. /\ <<c, i>> \notin FailedChecks(kind)
              /\ FailedChecks(kind)' = FailedChecks(kind) \cup {<<c, i>>}
            BY <2>2, <3>1, FailedChecksMore
        <3>3. /\ IsFiniteSet(FailedChecks(kind)')
              /\ Cardinality(FailedChecks(kind)') = Cardinality(FailedChecks(kind)) + 1
            BY <2>1, <3>2, OneMore
        <3>4. metrics'[Failure(kind)] = metrics[Failure(kind)] + 1
            BY <1>1, <1>2, <1>3, <2>4, CounterSteps
        <3> QED
            BY <2>1, <3>3, <3>4
    <2> QED
        BY <2>3, <2>4
<1> QED
    BY <1>5, <1>6, <1>7, <1>8, <1>9, <1>10 DEF MInv
-----------------------------------------------------------------------------
(***************************************************************************)
(* What each action counts                                                 *)
(***************************************************************************)

\* A return counts the code of the reply and, of the particular counters,
\* those that it is told to.
LEMMA ReturnCounts ==
    ASSUME TypeOK, NEW c \in Calls, NEW method \in Methods, NEW r, NEW told,
           Return(c, method, r, told)
    PROVE  /\ pc'[c] = "done" /\ reply'[c] = r
           /\ metrics' = Incremented(told \cup {Metric(method, r.code)})
           /\ \A l \in Particular : l \in told \cup {Metric(method, r.code)} <=> l \in told
<1>1. pc'[c] = "done" /\ reply'[c] = r
    BY ReturnReply
<1>2. Metric(method, r.code) \notin Particular
    BY ParticularLabels
<1> QED
    BY <1>1, <1>2 DEF Return

\* A step that neither counts nor returns, and ends no check in failure.
LEMMA QuietStepTells ==
    ASSUME TypeOK, NEW c \in Calls, UNCHANGED metrics,
           pc[c] # "done" => pc'[c] # "done",
           pc[c] = "done" => pc'[c] = "done" /\ req'[c] = req[c] /\ reply'[c] = reply[c],
           \A kind \in Failures : Failed(c, kind)' = Failed(c, kind),
           Signer = "local" => pc'[c] # "signed" /\ (CalledSigner(c)' => CalledSigner(c))
    PROVE  Tells(c, {})
BY NothingCounted DEF Tells, FailsAs

\* A step in which no check ends.
LEMMA NoCheckFails ==
    ASSUME NEW c, found'[c] = found[c], NEW told, told \subseteq {Rejection, SignOk, SignErr}
    PROVE  \A kind \in Failures : Failed(c, kind)' = Failed(c, kind) /\ FailsAs(c, kind, told)
<1>1. \A kind \in Failures : Failure(kind) \notin told
    BY ParticularLabels
<1>2. \A kind \in Failures : Failed(c, kind)' = Failed(c, kind)
    BY DEF Failed
<1> QED
    BY <1>1, <1>2 DEF FailsAs

\* A step that returns r, and counts the failures in told besides.
LEMMA ReturnTells ==
    ASSUME TypeOK, NEW c \in Calls, pc[c] # "done", NEW method \in Methods, NEW r, NEW told,
           Return(c, method, r, told), req'[c].method = method,
           Rejection \in told <=> r.code = "failed_precondition",
           SignOk \in told <=> r.code = "ok" /\ method \in {"state", "packet"},
           \A kind \in Failures : FailsAs(c, kind, told),
           Signer = "local" =>
                (CalledSigner(c)' => CalledSigner(c) \/ SignOk \in told \/ SignErr \in told)
    PROVE  \E labels : Tells(c, labels)
<1> DEFINE labels == told \cup {Metric(method, r.code)}
<1>1. /\ pc'[c] = "done" /\ reply'[c] = r /\ metrics' = Incremented(labels)
      /\ \A l \in Particular : l \in labels <=> l \in told
    BY ReturnCounts
<1>2. /\ Rejection \in Particular /\ SignOk \in Particular /\ SignErr \in Particular
      /\ \A kind \in Failures : Failure(kind) \in Particular
    BY DEF Particular
<1> HIDE DEF labels
<1>3. Tells(c, labels)
    BY <1>1, <1>2 DEF Tells, FailsAs
<1> QED
    BY <1>3

\* What is known of a call that has begun, and of its checks and draft.
LEMMA CallFacts ==
    ASSUME RInv, NEW c \in Calls
    PROVE  /\ TypeOK /\ CallAnswers(c) /\ CallChecks(c)
           /\ pc[c] # "idle" => req[c].method \in Methods
           /\ pc[c] \in {"idle", "height", "timestamp"} => found[c] = <<>>
           /\ draft[c] # NoDraft => req[c].method \in {"state", "packet"}
<1>1. TypeOK /\ CallAnswers(c) /\ CallChecks(c)
    BY DEF RInv, AInv, IInv
<1>2. pc[c] # "idle" => req[c].method \in Methods
    BY <1>1, RequestAssumption DEF CallAnswers, RequestType
<1>3. pc[c] \in {"idle", "height", "timestamp"} => found[c] = <<>>
    BY <1>1 DEF CallChecks, Ended
<1>4. draft[c] # NoDraft => req[c].method \in {"state", "packet"}
    BY <1>1 DEF CallAnswers, Answers
<1> QED
    BY <1>1, <1>2, <1>3, <1>4

\* A request that is refused at once is no height rejection.
LEMMA ReceiveTells ==
    ASSUME RInv, NEW c \in Calls, Receive(c)
    PROVE  \E labels : Tells(c, labels)
<1>1. /\ TypeOK /\ pc[c] = "idle" /\ draft[c] = NoDraft /\ draft'[c] = NoDraft
      /\ found'[c] = found[c]
    BY CallFacts DEF Receive, CallAnswers
<1>2. PICK q \in Requests :
        /\ req' = [req EXCEPT ![c] = q]
        /\ \/ \E code \in Malformed(q) : Return(c, q.method, Error(code), {})
           \/ /\ pc' = [pc EXCEPT ![c] = "height"]
              /\ UNCHANGED <<reply, metrics>>
    BY DEF Receive
<1>3. req'[c] = q /\ q.method \in Methods
    BY <1>1, <1>2, RequestAssumption DEF TypeOK, RequestType
<1>4. /\ \A kind \in Failures : Failed(c, kind)' = Failed(c, kind) /\ FailsAs(c, kind, {})
      /\ ~CalledSigner(c)'
    BY <1>1, NoCheckFails DEF CalledSigner
<1>5. CASE \E code \in Malformed(q) : Return(c, q.method, Error(code), {})
    <2>1. PICK code \in Malformed(q) : Return(c, q.method, Error(code), {})
        BY <1>5
    <2>2. code \in {"internal", "invalid_argument"} /\ Error(code).code = code
        BY DEF Malformed, Error
    <2> QED
        BY <1>1, <1>3, <1>4, <2>1, <2>2, ReturnTells
<1>6. CASE pc' = [pc EXCEPT ![c] = "height"] /\ UNCHANGED <<reply, metrics>>
    <2>1. pc'[c] = "height"
        BY <1>1, <1>6 DEF TypeOK
    <2> QED
        BY <1>1, <1>4, <1>6, <2>1, QuietStepTells
<1> QED
    BY <1>2, <1>5, <1>6

\* The only failed_precondition is a rejected height, and it is counted.
LEMMA EarlyReturnsTell ==
    ASSUME RInv, NEW c \in Calls, LatestHeight(c) \/ RejectHeight(c) \/ AdapterFails(c)
    PROVE  \E labels : Tells(c, labels)
<1>1. /\ TypeOK /\ pc[c] \in {"height", "timestamp"} /\ req[c].method \in Methods
      /\ UNCHANGED <<req, found, draft>> /\ draft[c] = NoDraft
    BY CallFacts DEF LatestHeight, RejectHeight, AdapterFails, CallAnswers, Reading
<1>2. /\ \A kind \in Failures : FailsAs(c, kind, {}) /\ FailsAs(c, kind, {Rejection})
      /\ ~CalledSigner(c)'
    BY <1>1, NoCheckFails DEF CalledSigner
<1>3. CASE LatestHeight(c)
    <2>1. PICK f \in LastHeights : Return(c, req[c].method, [code |-> "ok", height |-> f], {})
        BY <1>3 DEF LatestHeight
    <2>2. req[c].method = "latest_height"
        BY <1>3 DEF LatestHeight
    <2> QED
        BY <1>1, <1>2, <2>1, <2>2, ReturnTells
<1>4. CASE RejectHeight(c)
    <2>1. Return(c, req[c].method, Error("failed_precondition"), {Rejection})
        BY <1>4 DEF RejectHeight, Rejection
    <2>2. Error("failed_precondition").code = "failed_precondition"
        BY DEF Error
    <2> QED
        BY <1>1, <1>2, <2>1, <2>2, ParticularLabels, ReturnTells
<1>5. CASE AdapterFails(c)
    <2>1. Return(c, req[c].method, Error("internal"), {})
        BY <1>5 DEF AdapterFails
    <2>2. Error("internal").code = "internal"
        BY DEF Error
    <2> QED
        BY <1>1, <1>2, <2>1, <2>2, ReturnTells
<1> QED
    BY <1>3, <1>4, <1>5

\* Steps on the way to a signer, or away from the call, count nothing.
LEMMA MovesTell ==
    ASSUME RInv, NEW c \in Calls, Signer = "local" => pc[c] # "signed",
           AcceptHeight(c) \/ BlockTimestamp(c) \/ SignRemotely(c) \/ Drop(c) \/ SignLate(c)
    PROVE  \E labels : Tells(c, labels)
<1>1. TypeOK /\ UNCHANGED <<req, reply, metrics>>
    BY CallFacts DEF AcceptHeight, BlockTimestamp, SignRemotely, Drop, SignLate, callVars
<1>2. \A kind \in Failures : Failed(c, kind)' = Failed(c, kind)
    <2>1. CASE /\ AcceptHeight(c)
               /\ found' = [found EXCEPT ![c] = [i \in DOMAIN req[c].packets |-> Pending]]
        <3>1. \A i \in DOMAIN found'[c] : found'[c][i].verdict = "pending"
            BY <1>1, <2>1 DEF TypeOK, Pending
        <3>2. found[c] = <<>>
            BY <2>1, CallFacts DEF AcceptHeight
        <3>3. \A kind \in Failures : kind # "pending"
            BY DEF Failures
        <3> QED
            BY <3>1, <3>2, <3>3 DEF Failed
    <2>2. CASE found' = found
        BY <2>2 DEF Failed
    <2> QED
        BY <2>1, <2>2 DEF AcceptHeight, BlockTimestamp, SignRemotely, Drop, SignLate, callVars
<1>3. CASE AcceptHeight(c) \/ BlockTimestamp(c)
    <2>1. pc[c] # "done" /\ pc'[c] \in {"timestamp", "packets", "signing"}
        BY <1>1, <1>3 DEF AcceptHeight, BlockTimestamp, Sign, TypeOK
    <2> QED
        BY <1>1, <1>2, <2>1, QuietStepTells DEF CalledSigner, Ended
<1>4. CASE SignRemotely(c)
    <2>1. Signer # "local" /\ pc[c] # "done" /\ pc'[c] # "done"
        BY <1>1, <1>4 DEF SignRemotely, TypeOK
    <2> QED
        BY <1>1, <1>2, <2>1, QuietStepTells
<1>5. CASE Drop(c)
    <2>1. pc[c] # "done" /\ pc'[c] = "dropped" /\ UNCHANGED draft
        BY <1>1, <1>5 DEF Drop, TypeOK
    <2>2. Signer = "local" => pc[c] \in Reading
        BY <1>5 DEF Drop, Reading
    <2>3. Signer = "local" => draft[c] = NoDraft
        BY <2>2, CallFacts DEF CallAnswers
    <2> QED
        BY <1>1, <1>2, <2>1, <2>3, QuietStepTells DEF CalledSigner
<1>6. CASE SignLate(c)
    <2>1. Signer # "local" /\ pc' = pc
        BY <1>6 DEF SignLate, callVars
    <2> QED
        BY <1>1, <1>2, <2>1, QuietStepTells
<1> QED
    BY <1>3, <1>4, <1>5, <1>6
\* A check that failed is counted, by its kind; the reply of its batch is no
\* success and no height rejection.
LEMMA EndCheckTells ==
    ASSUME RInv, NEW c \in Calls, NEW i \in DOMAIN found[c], NEW r \in Entries,
           found[c][i].verdict = "pending", r.verdict \in Verdicts, pc[c] = "packets",
           EndCheck(c, i, r), UNCHANGED req
    PROVE  \E labels : Tells(c, labels)
<1>1. TypeOK /\ req[c].method \in Methods /\ draft[c] = NoDraft /\ found[c] \in Seq(Entries)
    <2>1. TypeOK /\ req[c].method \in Methods /\ draft[c] = NoDraft
        BY CallFacts DEF CallAnswers, Reading
    <2> QED
        BY <2>1 DEF TypeOK
<1>2. PICK results : results = [found[c] EXCEPT ![i] = r]
    OBVIOUS
<1>3. /\ results \in Seq(Entries) /\ DOMAIN results = DOMAIN found[c] /\ results[i] = r
      /\ \A j \in DOMAIN results \ {i} : results[j] = found[c][j]
    BY <1>1, <1>2, ExceptSeq
<1>4. found'[c] = results
    BY <1>1, <1>2 DEF EndCheck, TypeOK
<1>5. ASSUME NEW kind \in Failures
      PROVE  /\ i \notin Failed(c, kind)
             /\ Failed(c, kind)' =
                    IF kind = r.verdict THEN Failed(c, kind) \cup {i} ELSE Failed(c, kind)
    <2>1. i \notin Failed(c, kind)
        BY <1>5 DEF Failed, Failures
    <2>2. \A j \in DOMAIN found[c] : found'[c][j].verdict = kind <=>
            IF j = i THEN kind = r.verdict ELSE found[c][j].verdict = kind
        BY <1>3, <1>4
    <2> QED
        BY <1>3, <1>4, <2>1, <2>2 DEF Failed
<1>6. \A kind \in Failures :
        /\ Failure(kind) \in Counted(r.verdict) <=> kind = r.verdict
        /\ FailsAs(c, kind, Counted(r.verdict))
    <2>1. \A kind \in Failures : Failure(kind) \in Counted(r.verdict) <=> kind = r.verdict
        BY DEF Counted, Failure, Metric
    <2> QED
        BY <1>5, <2>1 DEF FailsAs
<1>7. /\ Rejection \notin Counted(r.verdict) /\ SignOk \notin Counted(r.verdict)
      /\ SignErr \notin Counted(r.verdict)
    BY ParticularLabels DEF Counted, Failure
<1>8. CASE metrics' = Incremented(Counted(r.verdict)) /\ UNCHANGED <<pc, draft, reply>>
    <2>1. Tells(c, Counted(r.verdict))
        BY <1>1, <1>5, <1>6, <1>7, <1>8 DEF Tells, CalledSigner
    <2> QED
        BY <2>1
<1>9. CASE /\ \A j \in DOMAIN results : results[j].verdict # "pending"
           /\ \E j \in Reported(results) :
                Return(c, req[c].method, Error(CodeOf(results[j].verdict)), Counted(r.verdict))
           /\ UNCHANGED draft
    <2>1. PICK j \in Reported(results) :
            Return(c, req[c].method, Error(CodeOf(results[j].verdict)), Counted(r.verdict))
        BY <1>9
    <2>2. j \in DOMAIN results /\ results[j].verdict \notin {"ok", "pending"}
        BY <1>9 DEF Reported
    <2>3. results[j].verdict \in Failures \cup {"adapter_error"}
        <3>1. results[j] \in Entries
            BY <1>3, <2>2
        <3> QED
            BY <2>2, <3>1 DEF Entries, Verdicts
    <2>4. CodeOf(results[j].verdict) \in {"not_found", "invalid_argument", "internal"}
        BY <2>3 DEF CodeOf, Failures
    <2>5. PICK code : code = CodeOf(results[j].verdict)
        OBVIOUS
    <2>6. Error(code).code = code /\ code \notin {"ok", "failed_precondition"}
        BY <2>4, <2>5 DEF Error
    <2>7. ~CalledSigner(c)'
        BY <1>1, <1>9 DEF CalledSigner
    <2> QED
        BY <1>1, <1>5, <1>6, <1>7, <2>1, <2>5, <2>6, <2>7, ReturnTells
<1>10. CASE /\ \A j \in DOMAIN results : results[j].verdict = "ok"
            /\ Sign(c, PacketAttestation(req[c].height, Compact(req[c], results)))
            /\ UNCHANGED <<reply, metrics>>
    <2>1. r.verdict = "ok"
        BY <1>3, <1>10
    <2>2. \A kind \in Failures : kind # r.verdict
        BY <2>1 DEF Failures
    <2>3. pc'[c] = "signing"
        BY <1>1, <1>10 DEF Sign, TypeOK
    <2> QED
        BY <1>1, <1>5, <1>10, <2>2, <2>3, QuietStepTells DEF CalledSigner, Ended
<1> QED
    BY <1>2, <1>8, <1>9, <1>10 DEF EndCheck

\* Every check ends with a verdict.
LEMMA ChecksTell ==
    ASSUME RInv, NEW c \in Calls, NEW i \in DOMAIN found[c],
           CheckPacket(c, i) \/ CommitmentFails(c, i)
    PROVE  \E labels : Tells(c, labels)
<1>1. pc[c] = "packets" /\ found[c][i].verdict = "pending" /\ UNCHANGED req
    BY DEF CheckPacket, CommitmentFails
<1>2. CASE CheckPacket(c, i)
    <2> DEFINE type == req[c].type
               p == req[c].packets[i]
    <2>1. PICK value \in CommitmentsAt(Path(type, p), req[c].height) :
            EndCheck(c, i, Result(Verdict(type, p, value), value))
        BY <1>2 DEF CheckPacket
    <2>2. TypeOK /\ ChainInv /\ CallChecks(c) /\ found[c] # <<>>
        <3>1. TypeOK /\ ChainInv /\ CallChecks(c)
            BY DEF RInv, AInv, IInv, TypeOK, ChainInv
        <3> QED
            BY <3>1
    <2>3. /\ req[c] \in Requests /\ Malformed(req[c]) = {} /\ req[c].method = "packet"
          /\ req[c].height \in 0..latest /\ i \in DOMAIN req[c].packets
        BY <2>2 DEF CallChecks
    <2>4. Path(type, p) \in Paths
        <3>1. type \in CommitmentTypes /\ p \in Packets
            BY <2>3, RequestFacts
        <3> QED
            BY <3>1 DEF Paths
    <2>5. value \in Commitments \cup {Zero}
        BY <2>2, <2>3, <2>4, CommitmentsAtType
    <2>6. /\ Result(Verdict(type, p, value), value) \in Entries
          /\ Result(Verdict(type, p, value), value).verdict \in Verdicts
        BY <2>5, VerdictType DEF Result, Entries
    <2> QED
        BY <1>1, <2>1, <2>6, EndCheckTells
<1>3. CASE CommitmentFails(c, i)
    <2>1. /\ Result("adapter_error", Zero) \in Entries
          /\ Result("adapter_error", Zero).verdict \in Verdicts
        BY DEF Result, Entries, Verdicts
    <2>2. EndCheck(c, i, Result("adapter_error", Zero))
        BY <1>3 DEF CommitmentFails
    <2> QED
        BY <1>1, <2>1, <2>2, EndCheckTells
<1> QED
    BY <1>2, <1>3

\* Both signers count what came of the draft that they were given.
LEMMA SignerTells ==
    ASSUME RInv, NEW c \in Calls, SignLocally(c) \/ SignatureArrives(c) \/ SignFails(c)
    PROVE  \E labels : Tells(c, labels)
<1>1. /\ TypeOK /\ pc[c] \in {"signing", "signed"} /\ UNCHANGED <<req, found, draft>>
      /\ req[c].method \in {"state", "packet"} /\ req[c].method \in Methods
    BY CallFacts DEF SignLocally, SignatureArrives, SignFails, CallAnswers, AtSigner
<1>2. \A kind \in Failures : FailsAs(c, kind, {SignOk}) /\ FailsAs(c, kind, {SignErr})
    BY <1>1, NoCheckFails
<1>3. CASE SignLocally(c) \/ SignatureArrives(c)
    <2>1. Return(c, req[c].method, [code |-> "ok", attestation |-> draft[c]], {SignOk})
        BY <1>3 DEF SignLocally, SignatureArrives, SignOk
    <2> QED
        BY <1>1, <1>2, <2>1, ParticularLabels, ReturnTells
<1>4. CASE SignFails(c)
    <2>1. Return(c, req[c].method, Error("internal"), {SignErr})
        BY <1>4 DEF SignFails, SignErr
    <2>2. Error("internal").code = "internal"
        BY DEF Error
    <2> QED
        BY <1>1, <1>2, <2>1, <2>2, ParticularLabels, ReturnTells
<1> QED
    BY <1>3, <1>4
-----------------------------------------------------------------------------
(***************************************************************************)
(* The invariant                                                           *)
(***************************************************************************)

\* At first nothing has been counted, and there is nothing to count.
LEMMA MInvInit == Init => MInv
<1> SUFFICES ASSUME Init PROVE MInv
    OBVIOUS
<1>1. RInv
    BY RInvInit
<1>2. /\ Began = {} /\ Rejected = {} /\ Attesting = {} /\ SignerCalls = {}
      /\ \A kind \in Failures : FailedCalls(kind) = {} /\ FailedChecks(kind) = {}
    BY DEF Init, Began, Rejected, Attesting, ReturnedWith, SignerCalls, CalledSigner, Ended,
        FailedCalls, Failed, FailedChecks
<1>3. \A l \in Particular : metrics[l] = 0
    BY ParticularLabels DEF Init
<1>4. /\ metrics[Rejection] = 0 /\ metrics[SignOk] = 0 /\ metrics[SignErr] = 0
      /\ \A kind \in Failures : metrics[Failure(kind)] = 0
    BY <1>3 DEF Particular
<1>5. \A c \in Calls : pc[c] # "signed"
    BY DEF Init
<1> QED
    BY <1>1, <1>2, <1>4, <1>5, FS_EmptySet DEF MInv

\* A step in which no call moves and nothing is counted.
LEMMA StandstillKeepsInv ==
    ASSUME MInv, RInv', UNCHANGED <<callVars, metrics>>
    PROVE  MInv'
<1>1. UNCHANGED <<pc, req, found, draft, reply, metrics>>
    BY DEF callVars
<1>2. /\ Began' = Began /\ Rejected' = Rejected /\ Attesting' = Attesting
      /\ SignerCalls' = SignerCalls
      /\ \A kind \in Failures :
            FailedCalls(kind)' = FailedCalls(kind) /\ FailedChecks(kind)' = FailedChecks(kind)
    BY <1>1 DEF Began, Rejected, Attesting, ReturnedWith, SignerCalls, CalledSigner,
        FailedCalls, Failed, FailedChecks
<1> QED
    BY <1>1, <1>2 DEF MInv

\* Every step keeps the counters in line with the calls.
LEMMA MInvNext == MInv /\ [Next]_vars => MInv'
<1> SUFFICES ASSUME MInv, [Next]_vars PROVE MInv'
    OBVIOUS
<1>1. RInv /\ RInv' /\ (Signer = "local" => \A c \in Calls : pc[c] # "signed")
    BY RInvNext DEF MInv
<1>2. ASSUME NEW c \in Calls, Receive(c) \/ Progress(c) \/ Drop(c) \/ SignLate(c)
      PROVE  MInv'
    <2>1. \E labels : Tells(c, labels)
        BY <1>1, <1>2, ReceiveTells, EarlyReturnsTell, MovesTell, ChecksTell, SignerTells
        DEF Progress
    <2>2. Others(c)
        BY <1>1, <1>2, CallMoves DEF RInv, Moves
    <2> QED
        BY <1>1, <2>1, <2>2, TellingKeepsInv
<1>3. CASE ChainStep \/ UNCHANGED vars \/ Quiet
    BY <1>1, <1>3, StandstillKeepsInv DEF ChainStep, Quiet, vars
<1> QED
    BY <1>2, <1>3 DEF Next

-----------------------------------------------------------------------------
(***************************************************************************)
(* The theorems                                                            *)
(***************************************************************************)

\* Each step of every behaviour counts what it does to the call it moves.
THEOREM CountersHold == Spec => []MInv
BY MInvInit, MInvNext, PTL DEF Spec

\* A reply that says a check has failed is that of a call one of whose checks
\* has failed in that way.
LEMMA RefusalsHaveFailures ==
    ASSUME RInv, NEW c \in Calls, pc[c] = "done"
    PROVE  /\ reply[c].code = "not_found" => Failed(c, "not_found") # {}
           /\ reply[c].code = "invalid_argument" /\ found[c] # <<>> =>
                Failed(c, "mismatch") # {} \/ Failed(c, "unexpected_receipt") # {}
<1>1. CallChecks(c)
    BY CallFacts
<1>2. CASE found[c] = <<>>
    BY <1>1, <1>2 DEF CallChecks
<1>3. CASE found[c] # <<>>
    <2>1. Collected(found[c], reply[c].code)
        BY <1>1, <1>3 DEF CallChecks
    <2>2. CASE reply[c].code \in {"internal", "ok"}
        BY <2>2
    <2>3. CASE \E j \in Reported(found[c]) : reply[c].code = CodeOf(found[c][j].verdict)
        <3>1. PICK j \in Reported(found[c]) : reply[c].code = CodeOf(found[c][j].verdict)
            BY <2>3
        <3>2. j \in DOMAIN found[c]
            BY <3>1 DEF Reported
        <3>3. PICK verdict : verdict = found[c][j].verdict
            OBVIOUS
        <3>4. /\ CodeOf(verdict) = "not_found" => verdict = "not_found"
              /\ CodeOf(verdict) = "invalid_argument" =>
                    verdict \in {"mismatch", "unexpected_receipt"}
            BY DEF CodeOf
        <3> QED
            BY <3>1, <3>2, <3>3, <3>4 DEF Failed
    <2> QED
        BY <2>1, <2>2, <2>3 DEF Collected
<1> QED
    BY <1>2, <1>3

\* Every failed check is counted once, for any number of calls and batches of
\* any length, whatever became of the batch and of the call.
THEOREM FailuresCountedOnce == Spec => []EveryFailureCountedOnce
<1>1. MInv => EveryFailureCountedOnce
    BY DEF MInv, EveryFailureCountedOnce, Failure
<1> QED
    BY <1>1, CountersHold, PTL

\* The counters an operator alerts on account for the replies, for any number
\* of calls, whichever of them are dropped halfway.
THEOREM MetricsAccount == Spec => []MetricsAccountForReplies
<1>1. ASSUME MInv
      PROVE  MetricsAccountForReplies
    <2> DEFINE Absent == ReturnedWith(Methods, "not_found")
               Invalid == {c \in {d \in Calls : pc[d] = "done" /\ found[d] # <<>>} :
                                reply[c].code = "invalid_argument"}
    <2>1. /\ RInv /\ TypeOK
          /\ \A kind \in Failures : /\ metrics[Failure(kind)] >= Cardinality(FailedCalls(kind))
                                    /\ metrics[Failure(kind)] \in Nat
                                    /\ IsFiniteSet(FailedCalls(kind))
        <3>1. RInv /\ TypeOK /\ IsFiniteSet(Began)
            BY <1>1 DEF MInv, RInv, AInv, IInv
        <3>2. \A kind \in Failures : Failure(kind) \in MetricLabels
            BY ParticularLabels DEF Particular
        <3> QED
            BY <1>1, <3>1, <3>2, SetsAreFinite DEF MInv, TypeOK
    <2>2. {"not_found", "mismatch", "unexpected_receipt"} \subseteq Failures
        BY DEF Failures
    <2>3. Absent \subseteq FailedCalls("not_found")
        BY <2>1, RefusalsHaveFailures DEF ReturnedWith, FailedCalls
    <2>4. Invalid \subseteq FailedCalls("mismatch") \cup FailedCalls("unexpected_receipt")
        BY <2>1, RefusalsHaveFailures DEF FailedCalls
    <2> HIDE DEF Absent, Invalid
    <2>5. metrics[Failure("not_found")] >= Cardinality(Absent)
        <3>1. IsFiniteSet(Absent) /\ Cardinality(Absent) <= Cardinality(FailedCalls("not_found"))
            BY <2>1, <2>2, <2>3, FS_Subset
        <3> QED
            BY <2>1, <2>2, <3>1, FS_CardinalityType
    <2>6. metrics[Failure("mismatch")] + metrics[Failure("unexpected_receipt")]
            >= Cardinality(Invalid)
        <3>1. PICK A, B : A = FailedCalls("mismatch") /\ B = FailedCalls("unexpected_receipt")
            OBVIOUS
        <3>2. IsFiniteSet(A) /\ IsFiniteSet(B)
            BY <2>1, <2>2, <3>1
        <3>3. /\ IsFiniteSet(A \cup B) /\ IsFiniteSet(A \cap B)
              /\ Cardinality(A \cup B) = Cardinality(A) + Cardinality(B) - Cardinality(A \cap B)
            BY <3>2, FS_Union, FS_Intersection
        <3>4. IsFiniteSet(Invalid) /\ Cardinality(Invalid) <= Cardinality(A \cup B)
            BY <2>4, <3>1, <3>3, FS_Subset
        <3>5. /\ Cardinality(A) \in Nat /\ Cardinality(B) \in Nat
              /\ Cardinality(A \cap B) \in Nat /\ Cardinality(Invalid) \in Nat
            BY <3>2, <3>3, <3>4, FS_CardinalityType
        <3>6. Cardinality(Invalid) <= Cardinality(A) + Cardinality(B)
            BY <3>3, <3>4, <3>5
        <3>7. /\ metrics[Failure("mismatch")] >= Cardinality(A)
              /\ metrics[Failure("unexpected_receipt")] >= Cardinality(B)
              /\ metrics[Failure("mismatch")] \in Nat
              /\ metrics[Failure("unexpected_receipt")] \in Nat
            BY <2>1, <2>2, <3>1
        <3> QED
            BY <3>5, <3>6, <3>7
    <2>7. /\ metrics[Rejection] = Cardinality(Rejected)
          /\ metrics[SignOk] = Cardinality(Attesting)
        BY <1>1 DEF MInv
    <2> QED
        BY <2>5, <2>6, <2>7 DEF MetricsAccountForReplies, Rejection, SignOk, Failure, Rejected,
            Attesting, ReturnedWith, Absent, Invalid
<1>2. MInv => MetricsAccountForReplies
    BY <1>1
<1> QED
    BY <1>2, CountersHold, PTL

\* Only the Cosmos adapter, which fails on a receipt before the check sees
\* it, leaves failed receipt checks uncounted.
THEOREM ReceiptsCounted ==
    ASSUME Adapter # "cosmos"
    PROVE  Spec => []ReceiptFailuresCounted
<1>1. ASSUME MInv
      PROVE  ReceiptFailuresCounted
    <2> DEFINE Receipts == {c \in Calls : req[c].method = "packet" /\ req[c].type = "receipt"
                                /\ \E i \in DOMAIN found[c] : found[c][i].value # Zero}
    <2>1. RInv /\ TypeOK /\ IsFiniteSet(Began) /\ "unexpected_receipt" \in Failures
        BY <1>1 DEF MInv, RInv, AInv, IInv, Failures
    <2>2. Receipts \subseteq FailedCalls("unexpected_receipt")
        <3>1. ASSUME NEW c \in Calls, req[c].type = "receipt",
                     NEW i \in DOMAIN found[c], found[c][i].value # Zero
              PROVE  found[c][i].verdict = "unexpected_receipt"
            <4>1. CallChecks(c) /\ found[c] # <<>>
                BY <2>1, <3>1, CallFacts
            <4> QED
                BY <3>1, <4>1 DEF CallChecks
        <3> QED
            BY <3>1 DEF FailedCalls, Failed
    <2>3. IsFiniteSet(FailedCalls("unexpected_receipt"))
        BY <2>1, SetsAreFinite
    <2> HIDE DEF Receipts
    <2>4. /\ Cardinality(Receipts) <= Cardinality(FailedCalls("unexpected_receipt"))
          /\ Cardinality(Receipts) \in Nat
          /\ Cardinality(FailedCalls("unexpected_receipt")) \in Nat
        BY <2>2, <2>3, FS_Subset, FS_CardinalityType
    <2>5. /\ metrics[Failure("unexpected_receipt")] \in Nat
          /\ metrics[Failure("unexpected_receipt")] >=
                Cardinality(FailedCalls("unexpected_receipt"))
        BY <1>1, <2>1, ParticularLabels DEF MInv, TypeOK, Particular
    <2>6. metrics[Failure("unexpected_receipt")] >= Cardinality(Receipts)
        BY <2>4, <2>5
    <2> QED
        BY <2>6 DEF ReceiptFailuresCounted, Failure, Receipts
<1>2. MInv => ReceiptFailuresCounted
    BY <1>1
<1> QED
    BY <1>2, CountersHold, PTL

\* Only a call that waits for a remote signer can be dropped there, and leave
\* a signer call uncounted.
THEOREM SignerCallsAreCounted ==
    ASSUME Signer = "local"
    PROVE  Spec => []SignerCallsCounted
<1>1. MInv => SignerCallsCounted
    BY DEF MInv, SignerCallsCounted, SignOk, SignErr, SignerCalls, CalledSigner
<1> QED
    BY <1>1, CountersHold, PTL
=============================================================================
