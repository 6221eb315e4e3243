-------------------------- MODULE RefinementProofs --------------------------
(***************************************************************************)
(* That the service signs what it was asked, uses its signer as the        *)
(* contract allows and implements the notary, for every value of the       *)
(* constants.                                                              *)
(*                                                                         *)
(* The argument: every step of a call is of one of eleven kinds (Moves),   *)
(* by where the call stands before and after and what becomes of its draft *)
(* and its reply.  A draft answers its request when it is made (Answers)   *)
(* and does not change afterwards, and AttestorProofs shows that it stays  *)
(* true; so the notary could give it at any later moment, in particular at *)
(* the one of the reply.                                                   *)
(***************************************************************************)
EXTENDS AttestorProofs, AttestorRefinement

\* Attestation a is of the kind, the height and the packets of request q, and
\* what it says of each packet is what may be attested to.
Answers(q, a) ==
    \/ q.method = "state" /\ a.kind = "state" /\ a.height = q.height
    \/ /\ q.method = "packet" /\ a.kind = "packet" /\ a.height = q.height
       /\ DOMAIN a.packets = DOMAIN q.packets
       /\ \A i \in DOMAIN q.packets :
            /\ a.packets[i].path = Path(q.type, q.packets[i])
            /\ N!Attestable(q.type, q.packets[i], a.packets[i].commitment)

Reading == {"height", "timestamp", "packets"}
AtSigner == {"signing", "signed"}

CallAnswers(c) ==
    /\ pc[c] = "idle" => req[c] = NoRequest
    /\ pc[c] # "idle" => req[c] \in Requests
    /\ pc[c] \in {"idle"} \cup Reading => draft[c] = NoDraft
    /\ pc[c] \in AtSigner => draft[c] # NoDraft
    /\ draft[c] # NoDraft => Answers(req[c], draft[c])
    /\ pc[c] = "signed" => draft[c] \in signed
    /\ pc[c] # "done" => reply[c] = NoReply
    /\ pc[c] = "timestamp" => req[c].method = "state"
    /\ pc[c] = "packets" => \A i \in DOMAIN req[c].packets : found[c][i].verdict = "ok" =>
        N!Attestable(req[c].type, req[c].packets[i], Attested(req[c], found[c], i))

\* Every signature is of the draft of a call that got to its signer.
SignedAreDrafts ==
    \A a \in signed : \E c \in Calls :
        draft[c] = a /\ a # NoDraft /\ pc[c] \in {"signed"} \cup Ended

AInv == IInv /\ (\A c \in Calls : CallAnswers(c)) /\ SignedAreDrafts

-----------------------------------------------------------------------------
(***************************************************************************)
(* The kinds of steps                                                      *)
(***************************************************************************)
Others(c) ==
    \A d \in Calls \ {c} :
        /\ pc'[d] = pc[d] /\ req'[d] = req[d] /\ found'[d] = found[d]
        /\ draft'[d] = draft[d] /\ reply'[d] = reply[d]

Refusal == {Error(code) : code \in Codes \ {"ok"}}

Comes(c) ==
    /\ pc[c] = "idle" /\ pc'[c] \in {"height", "done"}
    /\ req'[c] \in Requests
    /\ pc'[c] = "height" => reply'[c] = reply[c]
    /\ pc'[c] = "done" => reply'[c] \in Refusal
    /\ draft'[c] = draft[c] /\ signed' = signed

Refused(c) ==
    /\ pc[c] \in Reading \cup AtSigner /\ pc'[c] = "done"
    /\ reply'[c] \in Refusal
    /\ req'[c] = req[c] /\ draft'[c] = draft[c] /\ signed' = signed

ToldHeight(c) ==
    /\ pc[c] = "height" /\ pc'[c] = "done" /\ req[c].method = "latest_height"
    /\ \E h \in N!FinalHeights : reply'[c] = [code |-> "ok", height |-> h]
    /\ req'[c] = req[c] /\ draft'[c] = draft[c] /\ signed' = signed

ReadsOn(c) ==
    /\ pc[c] \in Reading /\ pc'[c] \in {"timestamp", "packets"}
    /\ pc'[c] = "timestamp" => req[c].method = "state"
    /\ pc'[c] = "packets" => \A i \in DOMAIN req[c].packets : found'[c][i].verdict = "ok" =>
        N!Attestable(req[c].type, req[c].packets[i], Attested(req[c], found'[c], i))
    /\ UNCHANGED <<req, draft, reply, signed>>

Drafts(c) ==
    /\ pc[c] \in Reading /\ pc'[c] = "signing"
    /\ draft'[c] # NoDraft /\ Answers(req[c], draft'[c])
    /\ UNCHANGED <<req, reply, signed>>

IsSigned(c) ==
    /\ pc[c] = "signing" /\ pc'[c] \in {"signed", "done"}
    /\ signed' = signed \cup {draft[c]}
    /\ pc'[c] = "signed" => reply'[c] = reply[c]
    /\ pc'[c] = "done" => reply'[c] = [code |-> "ok", attestation |-> draft[c]]
    /\ UNCHANGED <<req, draft>>

IsToldSigned(c) ==
    /\ pc[c] = "signed" /\ pc'[c] = "done"
    /\ reply'[c] = [code |-> "ok", attestation |-> draft[c]]
    /\ UNCHANGED <<req, draft, signed>>

Goes(c) ==
    /\ pc[c] \in Reading \cup AtSigner /\ pc'[c] = "dropped"
    /\ UNCHANGED <<req, draft, reply, signed>>

IsSignedLate(c) ==
    /\ pc[c] \in Ended /\ draft[c] # NoDraft
    /\ signed' = signed \cup {draft[c]}
    /\ UNCHANGED <<pc, req, draft, reply>>

Moves(c) ==
    /\ UNCHANGED chainVars /\ Others(c)
    /\ \/ Comes(c) \/ Refused(c) \/ ToldHeight(c) \/ ReadsOn(c) \/ Drafts(c)
       \/ IsSigned(c) \/ IsToldSigned(c) \/ Goes(c) \/ IsSignedLate(c)

-----------------------------------------------------------------------------
(***************************************************************************)
(* Each action is of one of the kinds                                      *)
(***************************************************************************)

\* An error that a handler returns is a refusal.
LEMMA ReturnRefuses ==
    ASSUME TypeOK, NEW c \in Calls, NEW method, NEW code \in Codes \ {"ok"}, NEW labels,
           Return(c, method, Error(code), labels)
    PROVE  /\ pc'[c] = "done" /\ reply'[c] \in Refusal
           /\ \A d \in Calls \ {c} : pc'[d] = pc[d] /\ reply'[d] = reply[d]
BY DEF TypeOK, Return, Refusal

LEMMA ReceiveMoves ==
    ASSUME AInv, NEW c \in Calls, Receive(c)
    PROVE  Moves(c)
<1>1. TypeOK
    BY DEF AInv, IInv
<1>2. PICK q \in Requests :
        /\ req' = [req EXCEPT ![c] = q]
        /\ \/ \E code \in Malformed(q) : Return(c, q.method, Error(code), {})
           \/ Malformed(q) = {} /\ pc' = [pc EXCEPT ![c] = "height"] /\ UNCHANGED reply
    BY DEF Receive
<1>3. pc[c] = "idle" /\ UNCHANGED <<chainVars, found, draft, signed>>
    BY DEF Receive
<1>4. req'[c] \in Requests /\ \A d \in Calls \ {c} : req'[d] = req[d]
    BY <1>1, <1>2 DEF TypeOK
<1>5. CASE \E code \in Malformed(q) : Return(c, q.method, Error(code), {})
    <2>1. PICK code \in Codes \ {"ok"} : Return(c, q.method, Error(code), {})
        BY <1>5 DEF Malformed, Codes
    <2> QED
        BY <1>1, <1>3, <1>4, <2>1, ReturnRefuses DEF Moves, Others, Comes
<1>6. CASE pc' = [pc EXCEPT ![c] = "height"] /\ UNCHANGED reply
    <2>1. pc'[c] = "height" /\ \A d \in Calls \ {c} : pc'[d] = pc[d]
        BY <1>1, <1>6 DEF TypeOK
    <2> QED
        BY <1>3, <1>4, <1>6, <2>1 DEF Moves, Others, Comes
<1> QED
    BY <1>2, <1>5, <1>6

LEMMA LatestHeightMoves ==
    ASSUME AInv, NEW c \in Calls, LatestHeight(c)
    PROVE  Moves(c)
<1>1. PICK f \in LastHeights :
        Return(c, req[c].method, [code |-> "ok", height |-> f], {})
    BY DEF LatestHeight
<1>2. TypeOK /\ ChainInv
    BY DEF AInv, IInv, TypeOK, ChainInv
<1>3. f \in Nat
    BY <1>1, <1>2, LastHeightsNat
<1>4. f \in N!FinalHeights
    BY <1>2, <1>3, LastHeightsFinal DEF N!FinalHeights, N!Final, Final
<1>5. /\ pc'[c] = "done" /\ reply'[c] = [code |-> "ok", height |-> f]
      /\ \A d \in Calls \ {c} : pc'[d] = pc[d] /\ reply'[d] = reply[d]
    BY <1>1, <1>2 DEF TypeOK, Return
<1> QED
    BY <1>4, <1>5 DEF LatestHeight, Moves, Others, ToldHeight

\* What could not be read, what is not final, and what could not be signed.
LEMMA ErrorsMove ==
    ASSUME AInv, NEW c \in Calls, RejectHeight(c) \/ AdapterFails(c) \/ SignFails(c)
    PROVE  Moves(c)
<1>1. TypeOK
    BY DEF AInv, IInv
<1>2. PICK code \in Codes \ {"ok"} : \E labels : Return(c, req[c].method, Error(code), labels)
    BY DEF RejectHeight, AdapterFails, SignFails, Codes
<1>3. pc[c] \in Reading \cup AtSigner /\ UNCHANGED <<chainVars, req, found, draft, signed>>
    BY DEF RejectHeight, AdapterFails, SignFails, Reading, AtSigner
<1>4. /\ pc'[c] = "done" /\ reply'[c] \in Refusal
      /\ \A d \in Calls \ {c} : pc'[d] = pc[d] /\ reply'[d] = reply[d]
    BY <1>1, <1>2, ReturnRefuses
<1> QED
    BY <1>3, <1>4 DEF Moves, Others, Refused

\* An empty batch answers a request for one.
LEMMA AcceptHeightMoves ==
    ASSUME AInv, NEW c \in Calls, AcceptHeight(c)
    PROVE  Moves(c)
<1>1. TypeOK
    BY DEF AInv, IInv
<1>2. pc[c] = "height" /\ pc[c] \in Reading /\ UNCHANGED <<chainVars, req, reply, signed>>
    BY DEF AcceptHeight, Reading
<1>3. CASE /\ req[c].method = "state"
           /\ pc' = [pc EXCEPT ![c] = "timestamp"]
           /\ UNCHANGED <<found, draft>>
    BY <1>1, <1>2, <1>3 DEF TypeOK, Moves, Others, ReadsOn
<1>4. CASE /\ pc' = [pc EXCEPT ![c] = "packets"]
           /\ found' = [found EXCEPT ![c] = [i \in DOMAIN req[c].packets |-> Pending]]
           /\ UNCHANGED draft
    <2>1. /\ pc'[c] = "packets" /\ \A i \in DOMAIN req[c].packets : found'[c][i].verdict # "ok"
          /\ \A d \in Calls \ {c} : pc'[d] = pc[d] /\ found'[d] = found[d]
        BY <1>1, <1>4 DEF TypeOK, Pending
    <2> QED
        BY <1>2, <1>4, <2>1 DEF Moves, Others, ReadsOn
<1>5. CASE /\ req[c].method = "packet" /\ req[c].packets = <<>>
           /\ Sign(c, PacketAttestation(req[c].height, <<>>))
           /\ UNCHANGED found
    <2>1. /\ pc'[c] = "signing" /\ draft'[c] = PacketAttestation(req[c].height, <<>>)
          /\ \A d \in Calls \ {c} : pc'[d] = pc[d] /\ draft'[d] = draft[d]
        BY <1>1, <1>5 DEF TypeOK, Sign
    <2>2. draft'[c] # NoDraft /\ Answers(req[c], draft'[c])
        BY <1>5, <2>1 DEF Answers, PacketAttestation, NoDraft
    <2> QED
        BY <1>2, <1>5, <2>1, <2>2 DEF Moves, Others, Drafts
<1> QED
    BY <1>3, <1>4, <1>5 DEF AcceptHeight

LEMMA BlockTimestampMoves ==
    ASSUME AInv, NEW c \in Calls, BlockTimestamp(c)
    PROVE  Moves(c)
<1>1. TypeOK
    BY DEF AInv, IInv
<1>2. /\ pc[c] = "timestamp" /\ pc[c] \in Reading /\ req[c].method = "state"
      /\ UNCHANGED <<chainVars, req, found, reply, signed>>
    BY DEF BlockTimestamp, Reading, AInv, CallAnswers
<1>3. PICK t : Sign(c, StateAttestation(req[c].height, t))
    BY DEF BlockTimestamp
<1>4. /\ pc'[c] = "signing" /\ draft'[c] = StateAttestation(req[c].height, t)
      /\ \A d \in Calls \ {c} : pc'[d] = pc[d] /\ draft'[d] = draft[d]
    BY <1>1, <1>3 DEF TypeOK, Sign
<1>5. draft'[c] # NoDraft /\ Answers(req[c], draft'[c])
    BY <1>2, <1>4 DEF Answers, StateAttestation, NoDraft
<1> QED
    BY <1>2, <1>4, <1>5 DEF Moves, Others, Drafts

\* What a check passes may be attested to.
LEMMA PassedIsAttestable ==
    ASSUME NEW type \in CommitmentTypes, NEW p, NEW v, Verdict(type, p, v) = "ok"
    PROVE  N!Attestable(type, p, IF type = "receipt" THEN Zero ELSE v)
BY DEF CommitmentTypes, Verdict, N!Attestable, N!Zero, Zero

\* A batch is refused for its first failure, goes on, or is drafted.
LEMMA EndCheckMoves ==
    ASSUME AInv, NEW c \in Calls, NEW i \in DOMAIN found[c], NEW r \in Entries,
           r.verdict \in Verdicts, pc[c] = "packets", EndCheck(c, i, r),
           UNCHANGED <<chainVars, req, signed>>,
           r.verdict = "ok" => N!Attestable(req[c].type, req[c].packets[i],
                                    IF req[c].type = "receipt" THEN Zero ELSE r.value)
    PROVE  Moves(c)
<1>0. PICK q, results : q = req[c] /\ results = [found[c] EXCEPT ![i] = r]
    OBVIOUS
<1>1. TypeOK /\ CallInv(c) /\ CallAnswers(c)
    BY DEF AInv, IInv
<1>2. /\ q.method = "packet" /\ DOMAIN found[c] = DOMAIN q.packets /\ pc[c] \in Reading
      /\ found[c] \in Seq(Entries)
    BY <1>0, <1>1 DEF CallInv, TypeOK, Reading
<1>3. results \in Seq(Entries) /\ DOMAIN results = DOMAIN q.packets
    BY <1>0, <1>2, ExceptSeq
<1>4. \A j \in DOMAIN q.packets : results[j].verdict = "ok" =>
        N!Attestable(q.type, q.packets[j], Attested(q, results, j))
    <2> TAKE j \in DOMAIN q.packets
    <2>1. CASE j = i
        BY <1>0, <1>2, <2>1 DEF Attested
    <2>2. CASE j # i
        BY <1>0, <1>1, <1>2, <2>2 DEF Attested, CallAnswers
    <2> QED
        BY <2>1, <2>2
<1>5. found'[c] = results /\ \A d \in Calls \ {c} : found'[d] = found[d]
    BY <1>0, <1>1 DEF EndCheck, TypeOK
<1>6. CASE UNCHANGED <<pc, draft, reply>>
    BY <1>0, <1>1, <1>2, <1>4, <1>5, <1>6 DEF Moves, Others, ReadsOn
<1>7. CASE /\ \A j \in DOMAIN results : results[j].verdict # "pending"
           /\ \E j \in Reported(results) :
                Return(c, req[c].method, Error(CodeOf(results[j].verdict)), Counted(r.verdict))
           /\ UNCHANGED draft
    <2>1. PICK j \in Reported(results) :
            Return(c, req[c].method, Error(CodeOf(results[j].verdict)), Counted(r.verdict))
        BY <1>7
    <2>2. j \in DOMAIN results /\ results[j].verdict \notin {"ok", "pending"}
        BY <1>7 DEF Reported
    <2>3. results[j] \in Entries
        BY <1>3, <2>2
    <2>4. CodeOf(results[j].verdict) \in Codes \ {"ok"}
        BY <2>2, <2>3, CodeOfType DEF Entries
    <2>5. /\ pc'[c] = "done" /\ reply'[c] \in Refusal
          /\ \A d \in Calls \ {c} : pc'[d] = pc[d] /\ reply'[d] = reply[d]
        BY <1>1, <2>1, <2>4, ReturnRefuses
    <2> QED
        BY <1>2, <1>5, <1>7, <2>5 DEF Moves, Others, Refused
<1>8. CASE /\ \A j \in DOMAIN results : results[j].verdict = "ok"
           /\ Sign(c, PacketAttestation(q.height, Compact(q, results)))
           /\ UNCHANGED reply
    <2>1. /\ pc'[c] = "signing" /\ draft'[c] = PacketAttestation(q.height, Compact(q, results))
          /\ \A d \in Calls \ {c} : pc'[d] = pc[d] /\ draft'[d] = draft[d]
        BY <1>1, <1>8 DEF TypeOK, Sign
    <2>2. \A j \in DOMAIN q.packets :
            N!Attestable(q.type, q.packets[j], Attested(q, results, j))
        BY <1>3, <1>4, <1>8
    <2>3. draft'[c] # NoDraft /\ Answers(q, draft'[c])
        BY <1>2, <2>1, <2>2 DEF Answers, PacketAttestation, NoDraft, Compact, Attested
    <2> QED
        BY <1>0, <1>2, <1>5, <1>8, <2>1, <2>3 DEF Moves, Others, Drafts
<1> QED
    BY <1>0, <1>6, <1>7, <1>8 DEF EndCheck

LEMMA ChecksMove ==
    ASSUME AInv, NEW c \in Calls, NEW i \in DOMAIN found[c],
           CheckPacket(c, i) \/ CommitmentFails(c, i)
    PROVE  Moves(c)
<1>1. /\ TypeOK /\ ChainInv /\ CallInv(c) /\ pc[c] = "packets"
      /\ UNCHANGED <<chainVars, req, signed>>
    BY DEF AInv, IInv, TypeOK, ChainInv, CheckPacket, CommitmentFails
<1>2. /\ req[c] \in Requests /\ Malformed(req[c]) = {} /\ req[c].method = "packet"
      /\ req[c].height \in 0..latest /\ Final(req[c].height)
      /\ i \in DOMAIN req[c].packets
    BY <1>1 DEF CallInv
<1>3. /\ req[c].type \in CommitmentTypes /\ req[c].packets[i] \in Packets
      /\ Path(req[c].type, req[c].packets[i]) \in Paths
    <2>1. req[c].type \in CommitmentTypes /\ req[c].packets \in Seq(Packets)
        BY <1>2, RequestFacts
    <2>2. req[c].packets[i] \in Packets
        BY <1>2, <2>1
    <2> QED
        BY <2>1, <2>2 DEF Paths
<1>4. CASE CheckPacket(c, i)
    <2> DEFINE type == req[c].type
               p == req[c].packets[i]
    <2>1. PICK value \in CommitmentsAt(Path(type, p), req[c].height) :
            EndCheck(c, i, Result(Verdict(type, p, value), value))
        BY <1>4 DEF CheckPacket
    <2>2. value \in Commitments \cup {Zero}
        BY <1>1, <1>2, <1>3, <2>1, CommitmentsAtType
    <2>3. /\ Result(Verdict(type, p, value), value) \in Entries
          /\ Result(Verdict(type, p, value), value).verdict = Verdict(type, p, value)
          /\ Verdict(type, p, value) \in Verdicts
          /\ Result(Verdict(type, p, value), value).value = value
        BY <2>2, VerdictType DEF Result, Entries
    <2>4. Verdict(type, p, value) = "ok" =>
            N!Attestable(type, p, IF type = "receipt" THEN Zero ELSE value)
        BY <1>3, PassedIsAttestable
    <2> QED
        BY <1>1, <2>1, <2>3, <2>4, EndCheckMoves
<1>5. CASE CommitmentFails(c, i)
    <2>1. /\ Result("adapter_error", Zero) \in Entries
          /\ Result("adapter_error", Zero).verdict \in Verdicts
          /\ Result("adapter_error", Zero).verdict # "ok"
        BY DEF Result, Entries, Verdicts
    <2>2. EndCheck(c, i, Result("adapter_error", Zero))
        BY <1>5 DEF CommitmentFails
    <2> QED
        BY <1>1, <2>1, <2>2, EndCheckMoves
<1> QED
    BY <1>4, <1>5

\* The signer signs, now or later; the caller hears of it, or has left.
LEMMA SignerMoves ==
    ASSUME AInv, NEW c \in Calls,
           SignLocally(c) \/ SignRemotely(c) \/ SignatureArrives(c) \/ SignLate(c) \/ Drop(c)
    PROVE  Moves(c)
<1> USE DEF AInv, IInv, TypeOK, Moves, Others
<1>1. CASE SignLocally(c)
    BY <1>1 DEF SignLocally, Return, IsSigned
<1>2. CASE SignRemotely(c)
    BY <1>2 DEF SignRemotely, IsSigned
<1>3. CASE SignatureArrives(c)
    BY <1>3 DEF SignatureArrives, Return, IsToldSigned
<1>4. CASE SignLate(c)
    BY <1>4 DEF SignLate, IsSignedLate, callVars, Ended
<1>5. CASE Drop(c)
    BY <1>5 DEF Drop, Goes, Reading, AtSigner
<1> QED
    BY <1>1, <1>2, <1>3, <1>4, <1>5

\* So is every step of a call.
LEMMA CallMoves ==
    ASSUME AInv, NEW c \in Calls, Receive(c) \/ Progress(c) \/ Drop(c) \/ SignLate(c)
    PROVE  Moves(c)
BY ReceiveMoves, LatestHeightMoves, ErrorsMove, AcceptHeightMoves,
   BlockTimestampMoves, ChecksMove, SignerMoves DEF Progress

\* Every step is one of a call's, one of the chain's, or none.
LEMMA StepMoves ==
    ASSUME AInv, [Next]_vars
    PROVE  \/ \E c \in Calls : Moves(c)
           \/ (ChainNext \/ UNCHANGED chainVars) /\ UNCHANGED <<callVars, signed>>
<1>1. ASSUME NEW c \in Calls, Receive(c) \/ Progress(c) \/ Drop(c) \/ SignLate(c)
      PROVE  Moves(c)
    BY <1>1, CallMoves
<1>2. CASE ChainStep \/ Quiet \/ UNCHANGED vars
    BY <1>2 DEF ChainStep, Quiet, vars
<1> QED
    BY <1>1, <1>2 DEF Next

-----------------------------------------------------------------------------
(***************************************************************************)
(* What is signed is what was asked                                        *)
(***************************************************************************)

\* What is known of a call depends on nothing but the call and the signatures.
LEMMA CallAnswersKept ==
    ASSUME NEW d, CallAnswers(d), signed \subseteq signed',
           pc'[d] = pc[d], req'[d] = req[d], found'[d] = found[d],
           draft'[d] = draft[d], reply'[d] = reply[d]
    PROVE  CallAnswers(d)'
<1>1. draft[d] # NoDraft => (Answers(req[d], draft[d]) <=> Answers(req[d], draft[d])')
    BY DEF Answers
<1>2. \A i \in DOMAIN req[d].packets :
        N!Attestable(req[d].type, req[d].packets[i], Attested(req[d], found[d], i))
      <=> N!Attestable(req[d].type, req[d].packets[i], Attested(req[d], found[d], i))'
    BY DEF Attested, N!Attestable, N!Zero
<1> QED
    BY <1>1, <1>2 DEF CallAnswers, Reading, AtSigner

\* Each kind of step leaves its call answering its request.
LEMMA MoverAnswers ==
    ASSUME AInv, NEW c \in Calls, Moves(c)
    PROVE  CallAnswers(c)'
<1>1. CallAnswers(c) /\ NoReply = [code |-> "none"]
    BY DEF AInv, NoReply
<1> USE <1>1 DEF CallAnswers, Reading, AtSigner, Ended
<1>2. CASE Comes(c)
    BY <1>2 DEF Comes
<1>3. CASE Refused(c) \/ Goes(c) \/ IsSignedLate(c)
    <2>1. CASE Refused(c)
        BY <2>1 DEF Refused
    <2>2. CASE Goes(c)
        BY <2>2 DEF Goes
    <2>3. CASE IsSignedLate(c)
        BY <2>3 DEF IsSignedLate
    <2> QED
        BY <1>3, <2>1, <2>2, <2>3
<1>4. CASE ToldHeight(c)
    BY <1>4 DEF ToldHeight
<1>5. CASE ReadsOn(c)
    BY <1>5 DEF ReadsOn, N!Attestable, N!Zero, Attested
<1>6. CASE Drafts(c)
    BY <1>6 DEF Drafts, Answers, N!Attestable, N!Zero
<1>7. CASE IsSigned(c)
    BY <1>7 DEF IsSigned, Answers, N!Attestable, N!Zero
<1>8. CASE IsToldSigned(c)
    BY <1>8 DEF IsToldSigned, Answers, N!Attestable, N!Zero
<1> QED
    BY <1>2, <1>3, <1>4, <1>5, <1>6, <1>7, <1>8 DEF Moves

\* A signature is of the draft of its call for good.
LEMMA MoverSigns ==
    ASSUME AInv, NEW c \in Calls, Moves(c)
    PROVE  SignedAreDrafts' /\ signed \subseteq signed'
<1>1. \A d \in Calls \ {c} : pc'[d] = pc[d] /\ draft'[d] = draft[d]
    BY DEF Moves, Others
<1>2. pc[c] \in {"signed"} \cup Ended =>
        draft'[c] = draft[c] /\ pc'[c] \in {"signed"} \cup Ended
    BY DEF Moves, Comes, Refused, ToldHeight, ReadsOn, Drafts, IsSigned, IsToldSigned, Goes,
           IsSignedLate, Reading, AtSigner, Ended
<1>3. \/ signed' = signed
      \/ /\ signed' = signed \cup {draft[c]} /\ draft'[c] = draft[c] /\ draft[c] # NoDraft
         /\ pc'[c] \in {"signed"} \cup Ended
    BY DEF AInv, CallAnswers, Moves, Comes, Refused, ToldHeight, ReadsOn, Drafts, IsSigned,
           IsToldSigned, Goes, IsSignedLate, AtSigner, Ended
<1>4. ASSUME NEW a \in signed
      PROVE  \E d \in Calls : draft'[d] = a /\ a # NoDraft /\ pc'[d] \in {"signed"} \cup Ended
    <2>1. PICK d \in Calls : draft[d] = a /\ a # NoDraft /\ pc[d] \in {"signed"} \cup Ended
        BY <1>4 DEF AInv, SignedAreDrafts
    <2> QED
        BY <1>1, <1>2, <2>1
<1> QED
    BY <1>3, <1>4 DEF SignedAreDrafts, Ended

LEMMA AInvInit == Init => AInv
<1> SUFFICES ASSUME Init PROVE AInv
    OBVIOUS
<1>1. IInv
    BY InitInv
<1>2. \A c \in Calls : CallAnswers(c)
    BY DEF Init, CallAnswers, AtSigner
<1> QED
    BY <1>1, <1>2 DEF Init, AInv, SignedAreDrafts

LEMMA AInvNext == AInv /\ [Next]_vars => AInv'
<1> SUFFICES ASSUME AInv, [Next]_vars PROVE AInv'
    OBVIOUS
<1>1. IInv'
    BY NextInv DEF AInv
<1>2. ASSUME NEW c \in Calls, Moves(c)
      PROVE  SignedAreDrafts' /\ \A d \in Calls : CallAnswers(d)'
    <2>1. signed \subseteq signed' /\ SignedAreDrafts' /\ CallAnswers(c)'
        BY <1>2, MoverAnswers, MoverSigns
    <2>2. \A d \in Calls \ {c} : CallAnswers(d)'
        BY <1>2, <2>1, CallAnswersKept DEF AInv, Moves, Others
    <2> QED
        BY <2>1, <2>2
<1>3. CASE UNCHANGED <<callVars, signed>>
    <2>1. \A d \in Calls : CallAnswers(d)'
        BY <1>3, CallAnswersKept DEF AInv, callVars
    <2>2. SignedAreDrafts'
        BY <1>3 DEF AInv, SignedAreDrafts, callVars
    <2> QED
        BY <1>1, <2>1, <2>2 DEF AInv
<1> QED
    BY <1>1, <1>2, <1>3, StepMoves DEF AInv

\* Every draft answers its request, in every state of every behaviour.
THEOREM DraftsAnswer == Spec => []AInv
BY AInvInit, AInvNext, PTL DEF Spec

\* What a call signs is what it was asked, the whole batch and in order, for
\* batches of any length whose checks end in any order.
THEOREM SignedAsAsked == Spec => []SignsWhatWasAsked
<1>1. ASSUME AInv, NEW a \in signed
      PROVE  \E c \in Calls :
                /\ pc[c] \in {"signed"} \cup Ended
                /\ req[c].method = a.kind /\ req[c].height = a.height
                /\ a.kind = "packet" =>
                    /\ Len(a.packets) = Len(req[c].packets)
                    /\ \A i \in DOMAIN a.packets :
                        a.packets[i].path = Path(req[c].type, req[c].packets[i])
    <2>1. PICK c \in Calls : draft[c] = a /\ a # NoDraft /\ pc[c] \in {"signed"} \cup Ended
        BY <1>1 DEF AInv, SignedAreDrafts
    <2>2. Answers(req[c], a) /\ req[c] \in Requests
        BY <1>1, <2>1 DEF AInv, CallAnswers, Ended
    <2>3. CASE a.kind = "packet"
        <3>1. a.packets \in Seq(PathsAndValues)
            BY <1>1, <2>3 DEF AInv, IInv, TypeOK, Attestations
        <3>2. req[c].packets \in Seq(Packets)
            BY <2>2, RequestAssumption DEF RequestType
        <3>3. DOMAIN a.packets = DOMAIN req[c].packets
            BY <2>2, <2>3 DEF Answers
        <3>4. Len(a.packets) = Len(req[c].packets)
            BY <3>1, <3>2, <3>3
        <3> QED
            BY <2>1, <2>2, <2>3, <3>4 DEF Answers
    <2>4. CASE a.kind # "packet"
        BY <2>1, <2>2, <2>4 DEF Answers
    <2> QED
        BY <2>3, <2>4
<1>2. AInv => SignsWhatWasAsked
    BY <1>1 DEF SignsWhatWasAsked
<1> QED
    BY <1>2, DraftsAnswer, PTL

-----------------------------------------------------------------------------
(***************************************************************************)
(* The contract of the signer                                              *)
(***************************************************************************)

\* What a call was told becomes r, and nothing else does.
LEMMA OutcomeBecomes ==
    ASSUME NEW c \in Calls, Others(c), pc[c] \notin Ended
    PROVE  /\ Outcome[c] = "open"
           /\ pc'[c] \notin Ended => Outcome' = Outcome
           /\ pc'[c] \in Ended =>
                Outcome' = [Outcome EXCEPT ![c] =
                    IF draft'[c] # NoDraft /\ reply'[c].code = "ok"
                    THEN "signed" ELSE "unsigned"]
BY DEF Outcome, Others

LEMMA DraftBecomes ==
    ASSUME TypeOK, TypeOK', NEW c \in Calls, Others(c)
    PROVE  draft' = [draft EXCEPT ![c] = draft'[c]]
BY DEF TypeOK, Others

\* Each kind of step is one of the contract, or none that it is about.
LEMMA MoverUsesSigner ==
    ASSUME AInv, AInv', NEW c \in Calls, Moves(c)
    PROVE  [S!Next]_(S!signingVars)
<1>1. /\ Others(c) /\ CallAnswers(c) /\ TypeOK /\ TypeOK'
      /\ S!Unwanted = NoDraft
    BY DEF AInv, IInv, Moves, S!Unwanted, NoDraft
<1>2. draft' = [draft EXCEPT ![c] = draft'[c]]
    BY <1>1, DraftBecomes
<1>3. draft'[c] = draft[c] => draft' = draft
    BY <1>1, <1>2 DEF TypeOK
<1> USE DEF CallAnswers, Reading, AtSigner
<1>4. CASE Drafts(c)
    <2>1. /\ pc[c] \notin Ended /\ pc'[c] \notin Ended /\ draft[c] = NoDraft /\ signed' = signed
          /\ draft'[c] # NoDraft
        BY <1>1, <1>4 DEF Drafts, Ended
    <2>2. draft'[c] \in Attestations
        BY <1>1, <2>1 DEF TypeOK
    <2>3. S!Want(c)
        BY <1>1, <1>2, <2>1, <2>2, OutcomeBecomes DEF S!Want
    <2> QED
        BY <2>3 DEF S!Next
<1>5. CASE IsSigned(c)
    <2>1. /\ pc[c] \notin Ended /\ draft[c] # NoDraft /\ draft' = draft
          /\ signed' = signed \cup {draft[c]}
          /\ \/ pc'[c] \notin Ended
             \/ pc'[c] \in Ended /\ reply'[c].code = "ok"
        BY <1>1, <1>5 DEF IsSigned, Ended
    <2>2. S!Make(c)
        BY <1>1, <2>1, OutcomeBecomes DEF S!Make
    <2> QED
        BY <2>2 DEF S!Next
<1>6. CASE IsToldSigned(c)
    <2>1. /\ pc[c] \notin Ended /\ pc'[c] \in Ended /\ draft[c] # NoDraft
          /\ UNCHANGED <<draft, signed>> /\ draft[c] \in signed /\ reply'[c].code = "ok"
        BY <1>1, <1>6 DEF IsToldSigned, Ended
    <2>2. S!End(c)
        BY <1>1, <2>1, OutcomeBecomes DEF S!End
    <2> QED
        BY <2>2 DEF S!Next
<1>7. CASE IsSignedLate(c)
    <2>1. Outcome' = Outcome
        BY <1>7 DEF IsSignedLate, Outcome
    <2>2. S!Make(c)
        BY <1>1, <1>7, <2>1 DEF S!Make, IsSignedLate
    <2> QED
        BY <2>2 DEF S!Next
<1>8. CASE ReadsOn(c) \/ (Comes(c) /\ pc'[c] = "height")
    <2>1. pc[c] \notin Ended /\ pc'[c] \notin Ended /\ draft' = draft /\ signed' = signed
        BY <1>3, <1>8 DEF ReadsOn, Comes, Ended
    <2> QED
        BY <1>1, <2>1, OutcomeBecomes DEF S!signingVars
<1>9. CASE Refused(c) \/ ToldHeight(c) \/ Goes(c) \/ (Comes(c) /\ pc'[c] = "done")
    <2>1. pc[c] \notin Ended /\ pc'[c] \in Ended /\ draft' = draft /\ signed' = signed
        BY <1>3, <1>9 DEF Refused, ToldHeight, Goes, Comes, Ended
    <2>2. draft'[c] = NoDraft \/ reply'[c].code # "ok"
        BY <1>1, <1>9, <2>1 DEF Refused, ToldHeight, Goes, Comes, Refusal, Error, NoReply
    <2>3. S!End(c)
        BY <1>1, <2>1, <2>2, OutcomeBecomes DEF S!End
    <2> QED
        BY <2>3 DEF S!Next
<1> QED
    BY <1>4, <1>5, <1>6, <1>7, <1>8, <1>9 DEF Moves, Comes

\* The service uses its signer as the contract allows, local or remote, which
\* the remote signer is proved to implement.
THEOREM ServiceUsesSigner == Spec => UsesSigner
<1>1. Init => S!Init
    BY DEF Init, S!Init, S!Unwanted, NoDraft, Outcome, Ended
<1>2. AInv /\ AInv' /\ [Next]_vars => [S!Next]_(S!signingVars)
    <2> SUFFICES ASSUME AInv, AInv', [Next]_vars PROVE [S!Next]_(S!signingVars)
        OBVIOUS
    <2>1. CASE UNCHANGED <<callVars, signed>>
        BY <2>1 DEF callVars, S!signingVars, Outcome
    <2> QED
        BY <2>1, StepMoves, MoverUsesSigner
<1> QED
    BY <1>1, <1>2, DraftsAnswer, PTL DEF Spec, UsesSigner, S!Spec

-----------------------------------------------------------------------------
(***************************************************************************)
(* The notary                                                              *)
(***************************************************************************)

\* The notary watches the same chain.
LEMMA SameTransactions == \A s, t : N!Transactions(s, t) = Transactions(s, t)
BY DEF N!Transactions, Transactions, N!Path, Path, N!Zero, N!Cleared, N!Received,
       Zero, Cleared, Received

LEMMA SameChainNext == ChainNext => N!ChainNext
<1>1. \A a, b : N!Larger(a, b) = Larger(a, b)
    BY DEF N!Larger, Larger
<1>2. Grow => N!Grow
    BY <1>1, SameTransactions, Zenon DEF N!Grow, Grow
<1>3. Reorg => N!Reorg
    BY <1>1 DEF N!Reorg, Reorg
<1> QED
    BY <1>2, <1>3 DEF N!ChainNext, ChainNext, N!Finalize, Finalize

\* A true statement that answers a request is one that the notary may give.
LEMMA AnswerIsTrueAnswer ==
    ASSUME NEW q \in Requests, NEW a \in Attestations, Answers(q, a), TrueStatement(a)
    PROVE  a \in N!TrueAnswers(q)
<1>1. /\ q.packets \in Seq(Packets) /\ N!FinalHeights = {v \in 0..latest : Final(v)}
      /\ q.height \in N!FinalHeights
    BY RequestAssumption DEF RequestType, N!FinalHeights, N!Final, Final, Answers, TrueStatement
<1>2. CASE q.method = "state" /\ a.kind = "state" /\ a.height = q.height
    <2>1. a \in [kind : {"state"}, height : Nat, time : Nat] /\ a.time = blocks[q.height].time
        BY <1>2 DEF Attestations, TrueStatement
    <2>2. a = [kind |-> "state", height |-> q.height, time |-> blocks[q.height].time]
        BY <1>2, <2>1
    <2> QED
        BY <1>1, <1>2, <2>2 DEF N!TrueAnswers, N!StateAnswers
<1>3. CASE /\ q.method = "packet" /\ a.kind = "packet" /\ a.height = q.height
           /\ DOMAIN a.packets = DOMAIN q.packets
           /\ \A i \in DOMAIN q.packets :
                /\ a.packets[i].path = Path(q.type, q.packets[i])
                /\ N!Attestable(q.type, q.packets[i], a.packets[i].commitment)
    <2>1. a \in [kind : {"packet"}, height : Nat, packets : Seq(PathsAndValues)]
        BY <1>3 DEF Attestations
    <2>2. \A i \in DOMAIN q.packets : \E v \in Sources(q.height) :
            N!Value(v, q.type, q.packets[i]) = a.packets[i].commitment
        <3>1. \A i \in DOMAIN q.packets : \E v \in Sources(q.height) :
                Read(blocks[v].store[Path(q.type, q.packets[i])]) = a.packets[i].commitment
            BY <1>3 DEF TrueStatement
        <3>2. \A v, p : N!Value(v, q.type, p) = Read(blocks[v].store[Path(q.type, p)])
            BY DEF N!Value, N!Read, Read, N!Path, Path, N!Zero, Zero, N!Cleared, Cleared
        <3> QED
            BY <3>1, <3>2
    <2> DEFINE w == [i \in DOMAIN q.packets |-> CHOOSE v \in Sources(q.height) :
                        N!Value(v, q.type, q.packets[i]) = a.packets[i].commitment]
    <2>3. \A i \in DOMAIN q.packets :
            /\ w[i] \in {v \in N!FinalHeights : MaySpeakOf(q.height, v)}
            /\ N!Value(w[i], q.type, q.packets[i]) = a.packets[i].commitment
        BY <1>1, <2>2 DEF Sources
    <2>4. w \in [DOMAIN q.packets -> {v \in N!FinalHeights : MaySpeakOf(q.height, v)}]
        BY <2>3
    <2> HIDE DEF w
    <2> DEFINE Entry(i, v) == [path |-> N!Path(q.type, q.packets[i]),
                               commitment |-> N!Value(v, q.type, q.packets[i])]
    <2>5. \A i \in DOMAIN q.packets : a.packets[i] = Entry(i, w[i])
        <3> TAKE i \in DOMAIN q.packets
        <3>1. a.packets[i] \in PathsAndValues
            BY <1>3, <2>1
        <3>2. /\ a.packets[i].path = N!Path(q.type, q.packets[i])
              /\ a.packets[i].commitment = N!Value(w[i], q.type, q.packets[i])
            BY <1>3, <2>3 DEF N!Path, Path
        <3> QED
            BY <3>1, <3>2 DEF PathsAndValues
    <2>6. a.packets = [i \in DOMAIN q.packets |-> Entry(i, w[i])]
        <3>1. a.packets = [i \in DOMAIN a.packets |-> a.packets[i]]
            BY <2>1
        <3> QED
            BY <1>3, <2>5, <3>1
    <2>7. a = [kind |-> "packet", height |-> q.height,
               packets |-> [i \in DOMAIN q.packets |-> Entry(i, w[i])]]
        BY <1>3, <2>1, <2>6
    <2>8. \A i \in DOMAIN q.packets :
            N!Attestable(q.type, q.packets[i], N!Value(w[i], q.type, q.packets[i]))
        BY <1>3, <2>3
    <2>9. a \in N!PacketAnswers(q)
        BY <2>4, <2>7, <2>8 DEF N!PacketAnswers
    <2> QED
        BY <1>1, <1>3, <2>9 DEF N!TrueAnswers
<1> QED
    BY <1>2, <1>3 DEF Answers

\* The draft of a call is true and answers its request, for as long as it is
\* remembered.
LEMMA DraftIsTrueAnswer ==
    ASSUME AInv, NEW c \in Calls, draft[c] # NoDraft
    PROVE  draft[c] \in N!TrueAnswers(req[c])
<1>1. /\ Answers(req[c], draft[c]) /\ req[c] \in Requests
      /\ draft[c] \in Attestations /\ TrueStatement(draft[c])
    BY DEF AInv, IInv, CallAnswers, DraftsTrue
<1> QED
    BY <1>1, AnswerIsTrueAnswer

\* What a call has been told of changes with its own steps.
LEMMA ToldBecomes ==
    ASSUME NEW c \in Calls, Others(c)
    PROVE  /\ Told' = [Told EXCEPT ![c] = Told'[c]]
           /\ pc[c] \notin Ended /\ reply[c] = NoReply => Told[c] = N!Nothing
           /\ pc'[c] # "dropped" /\ reply'[c] = NoReply => Told'[c] = N!Nothing
           /\ pc'[c] = "dropped" => Told'[c] = N!Gone
           /\ pc'[c] # "dropped" /\ reply'[c].code = "ok" => Told'[c] = reply'[c]
           /\ pc'[c] # "dropped" /\ reply'[c] \in Refusal => Told'[c] = N!Refused
<1>1. Told' = [Told EXCEPT ![c] = Told'[c]]
    <2>1. \A d \in Calls \ {c} : Told'[d] = Told[d]
        BY DEF Told, Others
    <2>2. DOMAIN Told = Calls /\ DOMAIN Told' = Calls
        BY DEF Told
    <2>3. Told = [d \in Calls |-> Told[d]] /\ Told' = [d \in Calls |-> Told'[d]]
        BY DEF Told
    <2> QED
        BY <2>1, <2>2, <2>3
<1>2. pc'[c] # "dropped" /\ reply'[c] \in Refusal => Told'[c] = N!Refused
    <2>1. \A r \in Refusal : r.code \notin {"ok", "none"}
        BY DEF Refusal, Error, Codes
    <2> QED
        BY <2>1 DEF Told, N!Refused
<1> QED
    BY <1>1, <1>2 DEF Told, NoReply, N!Nothing, N!Gone, Ended

\* Each kind of step is one of the notary, or none that it is about.
LEMMA MoverImplements ==
    ASSUME AInv, AInv', NEW c \in Calls, Moves(c)
    PROVE  [N!Next]_(N!notaryVars)
<1>1. /\ Others(c) /\ CallAnswers(c) /\ CallAnswers(c)' /\ TypeOK /\ TypeOK'
      /\ UNCHANGED chainVars
    BY DEF AInv, IInv, Moves
<1>2. /\ NoRequest = N!Unasked /\ \A q \in Requests : q # N!Unasked
    BY RequestAssumption DEF NoRequest, N!Unasked, RequestType, Methods
<1>3. UNCHANGED N!chainVars
    BY <1>1 DEF chainVars, N!chainVars
<1>4. pc[c] \notin Ended => /\ Told[c] = N!Nothing
    BY <1>1, ToldBecomes DEF CallAnswers, Ended
<1>5. pc[c] # "idle" => req[c] # N!Unasked
    BY <1>1, <1>2 DEF CallAnswers
<1>6. draft[c] # NoDraft => draft[c] \in N!TrueAnswers(req[c])
    BY DraftIsTrueAnswer
<1> USE DEF Reading, AtSigner, Ended, CallAnswers
<1>7. CASE Comes(c)
    <2>1. /\ req[c] = N!Unasked /\ req'[c] \in Requests
          /\ req' = [req EXCEPT ![c] = req'[c]] /\ signed' = signed
        BY <1>1, <1>2, <1>7 DEF Comes, TypeOK, Others
    <2>2. CASE pc'[c] = "height"
        <3>1. Told' = Told
            BY <1>1, <1>7, <2>2 DEF Comes, Told, Others
        <3> QED
            BY <1>3, <2>1, <3>1 DEF N!Ask, N!Next
    <2>3. CASE pc'[c] = "done"
        <3>1. N!Tell(c, N!Refused)
            BY <1>1, <1>4, <1>7, <2>3, ToldBecomes DEF Comes, N!Tell
        <3> QED
            BY <1>3, <2>1, <3>1 DEF N!Ask, N!Next
    <2> QED
        BY <1>7, <2>2, <2>3 DEF Comes
<1>8. CASE Refused(c)
    <2>1. N!Tell(c, N!Refused) /\ N!Waiting(c) /\ UNCHANGED signed
        BY <1>1, <1>4, <1>5, <1>8, ToldBecomes DEF Refused, N!Tell, N!Waiting
    <2>2. req' = req
        BY <1>1, <1>8 DEF Refused, TypeOK, Others
    <2> QED
        BY <1>3, <2>1, <2>2 DEF N!Reply, N!Next
<1>9. CASE ToldHeight(c)
    <2>1. PICK h \in N!FinalHeights : reply'[c] = [code |-> "ok", height |-> h]
        BY <1>9 DEF ToldHeight
    <2>2. /\ N!Tell(c, [code |-> "ok", height |-> h]) /\ N!Waiting(c)
          /\ req[c].method = "latest_height" /\ UNCHANGED signed
        BY <1>1, <1>4, <1>5, <1>9, <2>1, ToldBecomes DEF ToldHeight, N!Tell, N!Waiting
    <2>3. req' = req
        BY <1>1, <1>9 DEF ToldHeight, TypeOK, Others
    <2> QED
        BY <1>3, <2>2, <2>3 DEF N!Reply, N!Next
<1>10. CASE ReadsOn(c) \/ Drafts(c)
    <2>1. UNCHANGED <<req, reply, signed>>
          /\ pc[c] # "dropped" /\ pc'[c] # "dropped"
        BY <1>10 DEF ReadsOn, Drafts
    <2>2. Told' = Told
        BY <1>1, <2>1 DEF Told, Others
    <2> QED
        BY <1>3, <2>1, <2>2 DEF N!notaryVars
<1>11. CASE IsSigned(c)
    <2>1. /\ draft[c] \in N!TrueAnswers(req[c]) /\ req' = req /\ req[c] # N!Unasked
          /\ signed' = signed \cup {draft[c]}
        BY <1>1, <1>5, <1>6, <1>11 DEF IsSigned
    <2>2. CASE pc'[c] = "signed"
        <3>1. Told' = Told
            BY <1>1, <1>11, <2>2 DEF IsSigned, Told, Others
        <3> QED
            BY <1>3, <2>1, <3>1 DEF N!SignUnseen, N!Next
    <2>3. CASE pc'[c] = "done"
        <3>1. /\ N!Tell(c, [code |-> "ok", attestation |-> draft[c]])
              /\ N!Waiting(c)
            BY <1>1, <1>4, <1>11, <2>1, <2>3, ToldBecomes DEF IsSigned, N!Tell, N!Waiting
        <3> QED
            BY <1>3, <2>1, <3>1 DEF N!Attest, N!Next
    <2> QED
        BY <1>11, <2>2, <2>3 DEF IsSigned
<1>12. CASE IsToldSigned(c)
    <2>1. /\ draft[c] \in N!TrueAnswers(req[c]) /\ req' = req /\ req[c] # N!Unasked
          /\ signed' = signed \cup {draft[c]}
        BY <1>1, <1>5, <1>6, <1>12 DEF IsToldSigned
    <2>2. N!Tell(c, [code |-> "ok", attestation |-> draft[c]]) /\ N!Waiting(c)
        BY <1>1, <1>4, <1>12, <2>1, ToldBecomes DEF IsToldSigned, N!Tell, N!Waiting
    <2> QED
        BY <1>3, <2>1, <2>2 DEF N!Attest, N!Next
<1>13. CASE Goes(c)
    <2>1. N!Tell(c, N!Gone) /\ N!Waiting(c) /\ UNCHANGED <<req, signed>>
        BY <1>1, <1>4, <1>5, <1>13, ToldBecomes DEF Goes, N!Tell, N!Waiting
    <2> QED
        BY <1>3, <2>1 DEF N!Reply, N!Next
<1>14. CASE IsSignedLate(c)
    <2>1. /\ draft[c] \in N!TrueAnswers(req[c]) /\ req' = req /\ req[c] # N!Unasked
          /\ signed' = signed \cup {draft[c]} /\ Told' = Told
        BY <1>1, <1>5, <1>6, <1>14 DEF IsSignedLate, Told
    <2> QED
        BY <1>3, <2>1 DEF N!SignUnseen, N!Next
<1> QED
    BY <1>7, <1>8, <1>9, <1>10, <1>11, <1>12, <1>13, <1>14 DEF Moves

\* The service is atomic to its callers: it implements the notary that looks
\* at the chain once and answers, for any number of concurrent calls, any
\* depth of reorgs, any lag of the RPC nodes, either signer and each adapter.
THEOREM ServiceImplementsNotary == Spec => ImplementsNotary
<1>1. Init => N!Init
    <2> SUFFICES ASSUME Init PROVE N!Init
        OBVIOUS
    <2>1. N!ChainInit
        BY DEF Init, ChainInit, N!ChainInit, N!Paths, Paths, N!Path, Path, N!Zero, Zero,
            N!CommitmentTypes, CommitmentTypes
    <2>2. Told = [c \in Calls |-> N!Nothing]
        BY DEF Init, Told, NoReply, N!Nothing
    <2> QED
        BY <2>1, <2>2 DEF Init, N!Init, N!Unasked, NoRequest
<1>2. AInv /\ AInv' /\ [Next]_vars => [N!Next]_(N!notaryVars)
    <2> SUFFICES ASSUME AInv, AInv', [Next]_vars PROVE [N!Next]_(N!notaryVars)
        OBVIOUS
    <2>1. ASSUME UNCHANGED <<callVars, signed>>
          PROVE  Told' = Told /\ req' = req /\ signed' = signed
        BY <2>1 DEF callVars, Told
    <2>2. CASE ChainNext /\ UNCHANGED <<callVars, signed>>
        BY <2>1, <2>2, SameChainNext DEF N!Next
    <2>3. CASE UNCHANGED chainVars /\ UNCHANGED <<callVars, signed>>
        BY <2>1, <2>3 DEF chainVars, N!chainVars, N!notaryVars
    <2> QED
        BY <2>2, <2>3, StepMoves, MoverImplements
<1> QED
    BY <1>1, <1>2, DraftsAnswer, PTL DEF Spec, ImplementsNotary, N!Spec
=============================================================================
