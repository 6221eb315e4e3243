------------------------------ MODULE Attestor ------------------------------
(***************************************************************************)
(* AttestorService: the three RPCs, from the request to the reply, with    *)
(* every await a point where other calls and the chain move.  Each of      *)
(* Calls makes one request; the calls of one service and those of other    *)
(* attestors that watch the same chain look alike here, since a service    *)
(* keeps no state between calls but its metrics.                           *)
(***************************************************************************)
EXTENDS Adapter, Sequences, FiniteSets

CONSTANTS
    Calls,     \* the calls that may be made
    Requests,  \* the requests they may make
    Signer     \* "local" or "remote"

Methods == {"latest_height", "state", "packet"}
RequestType ==
    [method : Methods, height : Nat,
     packets : Seq(Packets), type : CommitmentTypes \cup {"unknown"}, decodes : BOOLEAN]

ASSUME RequestAssumption ==
    /\ Requests \subseteq RequestType
    /\ Signer \in {"local", "remote"}

NoRequest == [method |-> "none"]

VARIABLES
    pc,       \* where each call stands
    req,      \* its request
    found,    \* packet attestation: per packet, what its check came to
    draft,    \* the unsigned attestation handed to the signer
    reply,    \* the reply, once there is one
    signed,   \* every attestation a signer has put its signature on
    metrics   \* the counters, by label

callVars == <<pc, req, found, draft, reply>>
vars == <<chainVars, callVars, signed, metrics>>

(***************************************************************************)
(* Attestations, replies and metrics                                       *)
(***************************************************************************)
PathsAndValues == [path : Paths, commitment : Commitments \cup {Zero}]

StateAttestation(h, t) == [kind |-> "state", height |-> h, time |-> t]
PacketAttestation(h, ps) == [kind |-> "packet", height |-> h, packets |-> ps]

NoDraft == [kind |-> "none"]
NoReply == [code |-> "none"]
Error(code) == [code |-> code]

Codes == {"ok", "internal", "invalid_argument", "failed_precondition", "not_found"}
Failures == {"not_found", "mismatch", "unexpected_receipt"}
Verdicts == Failures \cup {"ok", "adapter_error"}

MetricLabels ==
    [name : Methods, label : Codes] \cup [name : {"commitment_failure"}, label : Failures]
    \cup [name : {"sign"}, label : {"ok", "err"}] \cup {[name |-> "height_rejection", label |-> ""]}

Metric(name, label) == [name |-> name, label |-> label]

\* The counters after one increment of each of a set of labels.
Incremented(labels) ==
    [l \in MetricLabels |-> IF l \in labels THEN metrics[l] + 1 ELSE metrics[l]]

(***************************************************************************)
(* The checks, from the request and what the adapter answered              *)
(***************************************************************************)

\* What is wrong with a request before anything is awaited: the packets are
\* decoded first, then the commitment type.
Malformed(q) ==
    CASE q.method = "packet" /\ ~q.decodes                       -> {"internal"}
      [] q.method = "packet" /\ q.decodes /\ q.type = "unknown"  -> {"invalid_argument"}
      [] OTHER                                                   -> {}

\* validate_height: may a block of height h be attested to?
HeightAccepted(h, finalized) == h <= finalized

\* Fault: a receipt that exists is not looked at.
VerdictIgnoringReceipts(type, p, value) ==
    CASE type # "receipt" /\ value = Zero                -> "not_found"
      [] type = "packet" /\ value \notin {Zero, p.body}  -> "mismatch"
      [] OTHER                                           -> "ok"

\* Fault: the commitment is not compared with the one of the packet.
VerdictWithoutComparison(type, p, value) ==
    CASE type # "receipt" /\ value = Zero                -> "not_found"
      [] type = "receipt" /\ value # Zero                -> "unexpected_receipt"
      [] OTHER                                           -> "ok"

\* handle_{packet,ack,receipt}_commitment on the value read from the chain,
\* unless the adapter has failed on it.
Verdict(type, p, value) ==
    IF AdapterRefuses(type, value) THEN "adapter_error"
    ELSE CASE type # "receipt" /\ value = Zero                -> "not_found"
           [] type = "packet" /\ value \notin {Zero, p.body}  -> "mismatch"
           [] type = "receipt" /\ value # Zero                -> "unexpected_receipt"
           [] OTHER                                           -> "ok"

\* From<AttestorError> for Status.
CodeOf(verdict) ==
    CASE verdict = "not_found"                            -> "not_found"
      [] verdict \in {"mismatch", "unexpected_receipt"}   -> "invalid_argument"
      [] verdict = "adapter_error"                        -> "internal"
      [] OTHER                                            -> "ok"

Pending == [verdict |-> "pending", value |-> Zero]
Result(verdict, value) == [verdict |-> verdict, value |-> value]

\* inc_commitment_failure: the counter of a failed check, if it has one.
CountedAllButMismatch(verdict) ==
    {Metric("commitment_failure", v) : v \in {verdict} \cap {"not_found", "unexpected_receipt"}}
Counted(verdict) == {Metric("commitment_failure", v) : v \in {verdict} \cap Failures}

\* Fault: the batch is collected as its checks end, not in request order.
ReportedUnordered(results) == {i \in DOMAIN results : results[i].verdict # "ok"}

\* The packets whose error is the one of the batch: the first in the order
\* of the request, whatever the order in which the checks ended.
Reported(results) ==
    {i \in DOMAIN results :
        results[i].verdict # "ok" /\ \A j \in 1..(i - 1) : results[j].verdict = "ok"}

\* Fault: the entries leave in the order in which their checks ended.
CompactReversed(q, results) ==
    [i \in DOMAIN q.packets |->
        LET k == Len(q.packets) + 1 - i
        IN  [path |-> Path(q.type, q.packets[k]), commitment |-> results[k].value]]

\* The entries of a batch all of whose checks are ok, in request order.  An
\* absent receipt is attested to as the zero commitment.
Compact(q, results) ==
    [i \in DOMAIN q.packets |->
        [path |-> Path(q.type, q.packets[i]),
         commitment |-> IF q.type = "receipt" THEN Zero ELSE results[i].value]]

-----------------------------------------------------------------------------
(***************************************************************************)
(* The steps of a call                                                     *)
(***************************************************************************)
Init ==
    /\ ChainInit
    /\ pc = [c \in Calls |-> "idle"]
    /\ req = [c \in Calls |-> NoRequest]
    /\ found = [c \in Calls |-> <<>>]
    /\ draft = [c \in Calls |-> NoDraft]
    /\ reply = [c \in Calls |-> NoReply]
    /\ signed = {}
    /\ metrics = [l \in MetricLabels |-> 0]

\* The handler of one of the methods returns r.  track_rpc counts the code of every reply.
Return(c, method, r, labels) ==
    /\ pc' = [pc EXCEPT ![c] = "done"]
    /\ reply' = [reply EXCEPT ![c] = r]
    /\ metrics' = Incremented(labels \cup {Metric(method, r.code)})

Sign(c, attestation) ==
    /\ pc' = [pc EXCEPT ![c] = "signing"]
    /\ draft' = [draft EXCEPT ![c] = attestation]

\* A request arrives; what cannot be decoded is refused at once.
Receive(c) ==
    /\ pc[c] = "idle"
    /\ \E q \in Requests :
        /\ req' = [req EXCEPT ![c] = q]
        /\ \/ \E code \in Malformed(q) : Return(c, q.method, Error(code), {})
           \/ /\ Malformed(q) = {}
              /\ pc' = [pc EXCEPT ![c] = "height"]
              /\ UNCHANGED <<reply, metrics>>
    /\ UNCHANGED <<chainVars, found, draft, signed>>

LatestHeight(c) ==
    /\ pc[c] = "height" /\ req[c].method = "latest_height"
    /\ \E finalized \in LastHeights :
        Return(c, req[c].method, [code |-> "ok", height |-> finalized], {})
    /\ UNCHANGED <<chainVars, req, found, draft, signed>>

RejectHeight(c) ==
    /\ pc[c] = "height" /\ req[c].method # "latest_height"
    /\ \E finalized \in LastHeights : ~HeightAccepted(req[c].height, finalized)
    /\ Return(c, req[c].method, Error("failed_precondition"), {Metric("height_rejection", "")})
    /\ UNCHANGED <<chainVars, req, found, draft, signed>>

\* The height is final: go on to the timestamp, to the commitments or, for
\* an empty batch, straight to the signer.
AcceptHeight(c) ==
    /\ pc[c] = "height" /\ req[c].method # "latest_height"
    /\ \E finalized \in LastHeights : HeightAccepted(req[c].height, finalized)
    /\ \/ /\ req[c].method = "state"
          /\ pc' = [pc EXCEPT ![c] = "timestamp"]
          /\ UNCHANGED <<found, draft>>
       \/ /\ req[c].method = "packet" /\ req[c].packets # <<>>
          /\ pc' = [pc EXCEPT ![c] = "packets"]
          /\ found' = [found EXCEPT ![c] = [i \in DOMAIN req[c].packets |-> Pending]]
          /\ UNCHANGED draft
       \/ /\ req[c].method = "packet" /\ req[c].packets = <<>>
          /\ Sign(c, PacketAttestation(req[c].height, <<>>))
          /\ UNCHANGED found
    /\ UNCHANGED <<chainVars, req, reply, signed, metrics>>

BlockTimestamp(c) ==
    /\ pc[c] = "timestamp"
    /\ \E t \in Timestamps(req[c].height) : Sign(c, StateAttestation(req[c].height, t))
    /\ UNCHANGED <<chainVars, req, found, reply, signed, metrics>>

\* The adapter gave up on a height or a timestamp: an internal error.
AdapterFails(c) ==
    /\ pc[c] \in {"height", "timestamp"}
    /\ Return(c, req[c].method, Error("internal"), {})
    /\ UNCHANGED <<chainVars, req, found, draft, signed>>

\* Fault: only the failure that the batch is refused for is counted.
EndCheckCountingReported(c, i, r) ==
    LET results == [found[c] EXCEPT ![i] = r]
    IN  /\ found' = [found EXCEPT ![c] = results]
        /\ \/ /\ \E j \in DOMAIN results : results[j].verdict = "pending"
              /\ UNCHANGED <<pc, draft, reply, metrics>>
           \/ /\ \A j \in DOMAIN results : results[j].verdict # "pending"
              /\ \E j \in Reported(results) :
                    Return(c, req[c].method, Error(CodeOf(results[j].verdict)),
                           Counted(results[j].verdict))
              /\ UNCHANGED draft
           \/ /\ \A j \in DOMAIN results : results[j].verdict = "ok"
              /\ Sign(c, PacketAttestation(req[c].height, Compact(req[c], results)))
              /\ UNCHANGED <<reply, metrics>>

\* The check of packet i of the batch ends with result r; when it was the
\* last one under way, the batch is collected in the same step.
EndCheck(c, i, r) ==
    LET results == [found[c] EXCEPT ![i] = r]
    IN  /\ found' = [found EXCEPT ![c] = results]
        /\ \/ /\ \E j \in DOMAIN results : results[j].verdict = "pending"
              /\ metrics' = Incremented(Counted(r.verdict))
              /\ UNCHANGED <<pc, draft, reply>>
           \/ /\ \A j \in DOMAIN results : results[j].verdict # "pending"
              /\ \E j \in Reported(results) :
                    Return(c, req[c].method, Error(CodeOf(results[j].verdict)), Counted(r.verdict))
              /\ UNCHANGED draft
           \/ /\ \A j \in DOMAIN results : results[j].verdict = "ok"
              /\ Sign(c, PacketAttestation(req[c].height, Compact(req[c], results)))
              /\ UNCHANGED <<reply, metrics>>

\* The checks of a batch run concurrently and end in any order.
CheckPacket(c, i) ==
    /\ pc[c] = "packets" /\ found[c][i].verdict = "pending"
    /\ LET type == req[c].type
           p == req[c].packets[i]
       IN  \E value \in CommitmentsAt(Path(type, p), req[c].height) :
                EndCheck(c, i, Result(Verdict(type, p, value), value))
    /\ UNCHANGED <<chainVars, req, signed>>

CommitmentFails(c, i) ==
    /\ pc[c] = "packets" /\ found[c][i].verdict = "pending"
    /\ EndCheck(c, i, Result("adapter_error", Zero))
    /\ UNCHANGED <<chainVars, req, signed>>

\* A local signer signs and answers without ever suspending the call.
SignLocally(c) ==
    /\ Signer = "local" /\ pc[c] = "signing"
    /\ signed' = signed \cup {draft[c]}
    /\ Return(c, req[c].method, [code |-> "ok", attestation |-> draft[c]], {Metric("sign", "ok")})
    /\ UNCHANGED <<chainVars, req, found, draft>>

\* The remote signing service signs; its answer is on the way.
SignRemotely(c) ==
    /\ Signer = "remote" /\ pc[c] = "signing"
    /\ signed' = signed \cup {draft[c]}
    /\ pc' = [pc EXCEPT ![c] = "signed"]
    /\ UNCHANGED <<chainVars, req, found, draft, reply, metrics>>

SignatureArrives(c) ==
    /\ pc[c] = "signed"
    /\ Return(c, req[c].method, [code |-> "ok", attestation |-> draft[c]], {Metric("sign", "ok")})
    /\ UNCHANGED <<chainVars, req, found, draft, signed>>

\* Fault: the signer is asked again until it succeeds.
SignFailsRetried(c) ==
    /\ pc[c] \in {"signing", "signed"}
    /\ pc' = [pc EXCEPT ![c] = "signing"]
    /\ UNCHANGED <<chainVars, req, found, draft, reply, signed, metrics>>

\* Fault: an error of the signer is passed on before it is counted.
SignFailsUncounted(c) ==
    /\ pc[c] \in {"signing", "signed"}
    /\ Return(c, req[c].method, Error("internal"), {})
    /\ UNCHANGED <<chainVars, req, found, draft, signed>>

\* Fault: sign_attestation takes an empty signature for one that failed.
SignFailsDefault(c) ==
    /\ pc[c] \in {"signing", "signed"}
    /\ Return(c, req[c].method, [code |-> "ok", attestation |-> draft[c]], {Metric("sign", "err")})
    /\ UNCHANGED <<chainVars, req, found, draft, signed>>

\* Either signer may fail; a remote one also after it has signed.
SignFails(c) ==
    /\ pc[c] \in {"signing", "signed"}
    /\ Return(c, req[c].method, Error("internal"), {Metric("sign", "err")})
    /\ UNCHANGED <<chainVars, req, found, draft, signed>>

\* A call that was given up, by the signer's deadline or by the caller, may
\* have left its request with the signing service, which signs it later.
SignLate(c) ==
    /\ Signer = "remote" /\ pc[c] \in {"done", "dropped"} /\ draft[c] # NoDraft
    /\ signed' = signed \cup {draft[c]}
    /\ UNCHANGED <<chainVars, callVars, metrics>>

\* The caller goes away: the call is dropped where it is suspended.
Drop(c) ==
    /\ pc[c] \in {"height", "timestamp", "packets", "signed"}
        \cup {pos \in {"signing"} : Signer = "remote"}
    /\ pc' = [pc EXCEPT ![c] = "dropped"]
    /\ UNCHANGED <<chainVars, req, found, draft, reply, signed, metrics>>

\* The steps the service and what it waits for take for a call.
Progress(c) ==
    \/ LatestHeight(c) \/ RejectHeight(c) \/ AcceptHeight(c) \/ BlockTimestamp(c)
    \/ AdapterFails(c)
    \/ \E i \in DOMAIN found[c] : CheckPacket(c, i) \/ CommitmentFails(c, i)
    \/ SignLocally(c) \/ SignRemotely(c) \/ SignatureArrives(c) \/ SignFails(c)

ChainStep == ChainNext /\ UNCHANGED <<callVars, signed, metrics>>

\* All calls have ended.
Ended == {"done", "dropped"}
Quiet == (\A c \in Calls : pc[c] \in Ended) /\ UNCHANGED vars

Next ==
    \/ ChainStep
    \/ \E c \in Calls : Receive(c) \/ Progress(c) \/ Drop(c) \/ SignLate(c)
    \/ Quiet

Spec == Init /\ [][Next]_vars

\* Every await of a call ends, with an answer or with an error.
Fairness == \A c \in Calls : WF_vars(Progress(c))

FairSpec == Spec /\ Fairness

-----------------------------------------------------------------------------
(***************************************************************************)
(* Properties                                                              *)
(***************************************************************************)
Attestations ==
    [kind : {"state"}, height : Nat, time : Nat]
    \cup [kind : {"packet"}, height : Nat, packets : Seq(PathsAndValues)]

Replies ==
    [code : Codes \ {"ok"}] \cup [code : {"ok"}, height : Nat]
    \cup [code : {"ok"}, attestation : Attestations]

Positions == {"idle", "height", "timestamp", "packets", "signing", "signed"} \cup Ended

Entries == [verdict : Verdicts \cup {"pending"}, value : Commitments \cup {Zero}]

\* Every variable has its type: blocks covers exactly the heights 0..latest,
\* the settled ones among them, and every reply and every signed attestation
\* is well formed.
TypeOK ==
    /\ latest \in 0..MaxHeight
    /\ blocks \in [0..latest -> Block]
    /\ settled \in -1..latest
    /\ pc \in [Calls -> Positions]
    /\ req \in [Calls -> Requests \cup {NoRequest}]
    /\ found \in [Calls -> Seq(Entries)]
    /\ draft \in [Calls -> Attestations \cup {NoDraft}]
    /\ reply \in [Calls -> Replies \cup {NoReply}]
    /\ signed \subseteq Attestations
    /\ metrics \in [MetricLabels -> Nat]

\* The blocks v a packet attestation for height h may speak of: block h, but
\* on Solana any block that a lagging node may hold as its newest finalized
\* one once h was final, and on Cosmos any block for height 0.
MaySpeakOf(h, v) ==
    \/ v = h
    \/ Adapter = "solana" /\ v >= h - NodeLag
    \/ Adapter = "cosmos" /\ h = 0

Sources(h) == {v \in 0..latest : Final(v) /\ MaySpeakOf(h, v)}

TrueStatement(a) ==
    \/ /\ a.kind = "state"
       /\ a.height \in 0..latest /\ Final(a.height)
       /\ a.time = blocks[a.height].time
    \/ /\ a.kind = "packet"
       /\ a.height \in 0..latest /\ Final(a.height)
       /\ \A i \in DOMAIN a.packets : \E v \in Sources(a.height) :
            Read(blocks[v].store[a.packets[i].path]) = a.packets[i].commitment

\* Whatever a signer has signed, for a caller that is still there or not, is
\* a statement about a final block that is true, and stays true through every
\* later block and reorg: the timestamp of state_attestation, and the
\* presence or absence of each commitment of packet_attestation.
SignedStatementsTrue == \A a \in signed : TrueStatement(a)

\* Two signatures never contradict each other: calls that raced with the
\* chain, with each other and with lagging nodes attest to the same time of a
\* height, and to the same commitment of a path, so m-of-n signatures can be
\* put together.
SignaturesAgree ==
    \A a, b \in signed :
        /\ (a.kind = "state" /\ b.kind = "state" /\ a.height = b.height) => a = b
        /\ (a.kind = "packet" /\ b.kind = "packet" /\ a.height = b.height) =>
            \A i \in DOMAIN a.packets, j \in DOMAIN b.packets :
                a.packets[i].path = b.packets[j].path =>
                    a.packets[i].commitment = b.packets[j].commitment

\* What a call signs is what it was asked: the whole batch, in the order of
\* the request, and nothing that another call concurrently asks for.
SignsWhatWasAsked ==
    \A a \in signed : \E c \in Calls :
        /\ pc[c] \in {"signed"} \cup Ended
        /\ req[c].method = a.kind /\ req[c].height = a.height
        /\ a.kind = "packet" =>
            /\ Len(a.packets) = Len(req[c].packets)
            /\ \A i \in DOMAIN a.packets :
                a.packets[i].path = Path(req[c].type, req[c].packets[i])

\* What a sequential service that reads block h refuses packet i of a batch
\* for, if it does.
SequentialRefusal(q, i) ==
    LET value == Read(blocks[q.height].store[Path(q.type, q.packets[i])])
    IN  CASE q.type # "receipt" /\ value = Zero  -> "not_found"
          [] q.type = "packet" /\ value \notin {Zero, q.packets[i].body} -> "invalid_argument"
          [] q.type = "receipt" /\ value # Zero  ->
                IF Adapter = "cosmos" THEN "internal" ELSE "invalid_argument"
          [] OTHER -> "ok"

\* Its reply: it stops at the first packet it cannot attest to.
SequentialReply(q) ==
    LET F[i \in 1..(Len(q.packets) + 1)] ==
            IF i > Len(q.packets) THEN "ok"
            ELSE IF SequentialRefusal(q, i) # "ok" THEN SequentialRefusal(q, i) ELSE F[i + 1]
    IN  F[1]

\* A packet_attestation that got past validate_height, and whose reply is not
\* an internal error, has the reply of the sequential service, however its
\* concurrent checks were ordered and whatever the chain did meanwhile.
\* (Solana, and Cosmos for height 0, read other blocks than the one asked for
\* and are not covered.)
RepliesAreSequential ==
    \A c \in Calls :
        (/\ pc[c] = "done"
         /\ Adapter # "solana" /\ ~(Adapter = "cosmos" /\ req[c].height = 0)
         /\ found[c] # <<>> /\ reply[c].code # "internal")
            => reply[c].code = SequentialReply(req[c])

\* The purpose of receipt attestations: when the signed time of a height has
\* reached the timeout of a packet and its receipt is attested absent at that
\* height, the chain has not received the packet and never will.
TimeoutsAreSound ==
    \A a, b \in signed, p \in Incoming :
        (/\ a.kind = "state" /\ b.kind = "packet" /\ a.height = b.height
         /\ a.time >= p.timeout
         /\ \E i \in DOMAIN b.packets : b.packets[i].path = Path("receipt", p))
            => \A h \in 0..latest : blocks[h].store[Path("receipt", p)] = Zero

\* The counters an operator alerts on account for the replies: every
\* failed_precondition is one height rejection, every attestation returned
\* one successful signature, and no validation error is returned that no
\* counter shows, though calls may be dropped halfway.
MetricsAccountForReplies ==
    LET Returned(methods, code) ==
            Cardinality({c \in Calls :
                pc[c] = "done" /\ req[c].method \in methods /\ reply[c].code = code})
        Failed(kind) == metrics[Metric("commitment_failure", kind)]
        Validated == {c \in Calls : pc[c] = "done" /\ found[c] # <<>>}
    IN  /\ metrics[Metric("height_rejection", "")] = Returned(Methods, "failed_precondition")
        /\ metrics[Metric("sign", "ok")] = Returned({"state", "packet"}, "ok")
        /\ Failed("not_found") >= Returned(Methods, "not_found")
        /\ Failed("mismatch") + Failed("unexpected_receipt") >=
            Cardinality({c \in Validated : reply[c].code = "invalid_argument"})

\* Every check that failed is counted once, by its kind: also one whose batch
\* is refused for another failure, or whose caller left before the reply.
FailedChecks(kind) ==
    UNION {{c} \X {i \in DOMAIN found[c] : found[c][i].verdict = kind} : c \in Calls}

EveryFailureCountedOnce ==
    \A kind \in Failures :
        metrics[Metric("commitment_failure", kind)] = Cardinality(FailedChecks(kind))

\* The adapter's contract: without a final block there is no last height.
\* With a finality offset, a height is accepted only once the chain has grown
\* FinalityOffset blocks beyond it.
NoHeightBeforeFinality ==
    [][\A c \in Calls : AcceptHeight(c) => req[c].height + FinalityOffset <= latest]_vars

\* The README's account of a packet attestation: its height is the one at
\* which its commitments were found.
CommitmentsFoundAtHeight ==
    \A a \in signed : a.kind = "packet" =>
        \A i \in DOMAIN a.packets :
            Read(blocks[a.height].store[a.packets[i].path]) = a.packets[i].commitment

\* The counter's description: every receipt check that fails because the
\* packet was received is a commitment validation failure and is counted.
ReceiptFailuresCounted ==
    metrics[Metric("commitment_failure", "unexpected_receipt")] >=
        Cardinality({c \in Calls : req[c].method = "packet" /\ req[c].type = "receipt"
                        /\ \E i \in DOMAIN found[c] : found[c][i].value # Zero})

\* The counter's description: each signer call is counted, by its result.  A
\* call that was given a draft and has ended has called the signer.
SignerCallsCounted ==
    metrics[Metric("sign", "ok")] + metrics[Metric("sign", "err")] >=
        Cardinality({c \in Calls : pc[c] \in Ended /\ draft[c] # NoDraft})

\* How many steps a call that was received may still take.
StepsLeft(c) ==
    CASE pc[c] = "height"    -> 4 + Len(req[c].packets)
      [] pc[c] = "timestamp" -> 3
      [] pc[c] = "packets"   ->
            2 + Cardinality({i \in DOMAIN found[c] : found[c][i].verdict = "pending"})
      [] pc[c] = "signing"   -> 2
      [] pc[c] = "signed"    -> 1
      [] OTHER               -> 0

\* No call turns in circles: whatever the adapter, the signer, its checks and
\* its caller do, and in whichever order, each of its steps brings it nearer
\* to its end, and an ended call does not move again.
EveryStepAdvances ==
    [][\A c \in Calls :
        (pc[c] # "idle" /\ <<pc[c], found[c]>>' # <<pc[c], found[c]>>) =>
            StepsLeft(c)' < StepsLeft(c)]_vars

\* Every call that was received ends: it is answered, or its caller has left.
EveryCallEnds == \A c \in Calls : (pc[c] = "height") ~> (pc[c] \in Ended)
=============================================================================
