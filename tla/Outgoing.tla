------------------------------ MODULE Outgoing ------------------------------
(***************************************************************************)
(* What an attestation sends out: the query for the last height, then the  *)
(* query for the timestamp or those for the commitments of a batch, all at *)
(* once, each with its retries, then the request to the remote signer.     *)
(* Attestor takes these for single steps; here they may fail, be repeated, *)
(* and be left behind by a caller that goes away.                          *)
(***************************************************************************)
EXTENDS Retry, RemoteSigner

CONSTANT Checks  \* the queries of a call that follow the one for the height

ASSUME OutgoingAssumption ==
    /\ Queries = Calls \X (Checks \cup {"height"})
    /\ "height" \notin Checks

VARIABLE stage  \* where each call stands

outgoingVars == <<stage, retryVars, signerVars>>

Height(c) == <<c, "height">>
Details(c) == {c} \X Checks

Stages == {"idle", "height", "checks", "signing", "returned", "failed", "dropped"}

Init ==
    /\ stage = [c \in Calls |-> "idle"]
    /\ RetryInit
    /\ SignerInit

Enter(c, s) == stage' = [stage EXCEPT ![c] = s]

Start(c) ==
    /\ stage[c] = "idle"
    /\ Enter(c, "height")
    /\ Send({Height(c)})
    /\ UNCHANGED signerVars

\* validate_height accepts the height; what is to be attested to is looked up.
Accept(c) ==
    /\ stage[c] = "height" /\ query[Height(c)] = "answered"
    /\ Enter(c, "checks")
    /\ Send(Details(c))
    /\ UNCHANGED signerVars

\* The height is unknown or not final.
Refuse(c) ==
    /\ stage[c] = "height" /\ query[Height(c)] \in {"answered", "unusable", "failed"}
    /\ Enter(c, "failed")
    /\ UNCHANGED <<retryVars, signerVars>>

\* Fault: when a check has failed, the whole batch is asked for again.
CollectAskingAgain(c) ==
    /\ stage[c] = "checks"
    /\ \A q \in Details(c) : ~UnderWay(q)
    /\ \/ /\ \A q \in Details(c) : query[q] = "answered"
          /\ Enter(c, "signing")
          /\ BeginSigning(c)
          /\ UNCHANGED retryVars
       \/ /\ \E q \in Details(c) : query[q] # "answered"
          /\ Send(Details(c))
          /\ UNCHANGED <<stage, signerVars>>

\* All checks have ended.  One that failed fails the attestation.
Collect(c) ==
    /\ stage[c] = "checks"
    /\ \A q \in Details(c) : ~UnderWay(q)
    /\ \/ /\ \A q \in Details(c) : query[q] = "answered"
          /\ Enter(c, "signing")
          /\ BeginSigning(c)
       \/ /\ \E q \in Details(c) : query[q] # "answered"
          /\ Enter(c, "failed")
          /\ UNCHANGED signerVars
    /\ UNCHANGED retryVars

Return(c) ==
    /\ stage[c] = "signing"
    /\ \/ signing[c] = "signed" /\ Enter(c, "returned")
       \/ signing[c] = "failed" /\ Enter(c, "failed")
    /\ UNCHANGED <<retryVars, signerVars>>

\* Fault: a caller that goes away takes the queries of others with it.
DropAllQueries(c) ==
    /\ \/ \E q \in {Height(c)} \cup Details(c) : UnderWay(q)
       \/ Awaiting(c)
    /\ Enter(c, "dropped")
    /\ DropQueries(Queries)
    /\ DropSigning(c)

\* A call is suspended only while something that it waits for is under way.
Drop(c) ==
    /\ \/ \E q \in {Height(c)} \cup Details(c) : UnderWay(q)
       \/ Awaiting(c)
    /\ Enter(c, "dropped")
    /\ DropQueries({Height(c)} \cup Details(c))
    /\ DropSigning(c)

Query(c) ==
    /\ \E q \in {Height(c)} \cup Details(c) : RetryStep(q)
    /\ UNCHANGED <<stage, signerVars>>

SignRemote(c) == SignStep(c) /\ UNCHANGED <<stage, retryVars>>

\* The steps of a call and of what it waits for.
Progress(c) ==
    Accept(c) \/ Refuse(c) \/ Collect(c) \/ Return(c) \/ Query(c) \/ SignRemote(c)

Service == ServiceStep /\ UNCHANGED <<stage, retryVars>>

Ended == {"returned", "failed", "dropped"}
Quiet == (\A c \in Calls : stage[c] \in Ended) /\ UNCHANGED outgoingVars

Next ==
    \/ \E c \in Calls : Start(c) \/ Progress(c) \/ Drop(c)
    \/ Service
    \/ Quiet

Spec == Init /\ [][Next]_outgoingVars

\* Every attempt, pause and step of the signer comes to an end.
FairSpec == Spec /\ \A c \in Calls : WF_outgoingVars(Progress(c))

-----------------------------------------------------------------------------

\* Every variable of the two components has its type.
OutgoingTypeOK ==
    /\ RetryTypeOK /\ SignerTypeOK
    /\ stage \in [Calls -> Stages]

\* An attestation never waits for what nobody is at work on: its queries and
\* its request to the signer have been sent, and no other caller that leaves
\* takes them with it.  (An answer that is never sent is the signer's deadline.)
NoAttestationIsStuck ==
    \A c \in Calls :
        /\ stage[c] = "height" => query[Height(c)] \notin {"unsent", "dropped"}
        /\ stage[c] = "checks" =>
            /\ \A q \in Details(c) : query[q] \notin {"unsent", "dropped"}
            /\ signing[c] = "off"
        /\ stage[c] = "signing" => signing[c] \notin {"off", "dropped"}

\* How many steps a query may still take, and how many the signing of a call.
QueryStepsLeft(q) ==
    CASE query[q] = "unsent"  -> 2 * MaxAttempts
      [] query[q] = "attempt" -> 2 * (MaxAttempts - attempts[q]) + 1
      [] query[q] = "pause"   -> 2 * (MaxAttempts - attempts[q])
      [] OTHER                -> 0

SigningStepsLeft(c) ==
    CASE signing[c] = "off"     -> 5
      [] signing[c] = "connect" -> 4
      [] signing[c] = "token"   -> 3
      [] signing[c] = "wallet"  -> 2
      [] signing[c] = "request" -> 1
      [] OTHER                  -> 0

\* Retries are confined to the helper, and come to an end there: a query that
\* has been answered, given up or dropped is never attempted again, whatever
\* becomes of the others of its batch, and what fails at the signer is not
\* tried again.
EveryRequestAdvances ==
    [][/\ \A q \in Queries :
            <<query[q], attempts[q]>>' # <<query[q], attempts[q]>> =>
                QueryStepsLeft(q)' < QueryStepsLeft(q)
       /\ \A c \in Calls :
            signing[c]' # signing[c] => SigningStepsLeft(c)' < SigningStepsLeft(c)]_outgoingVars

\* An attestation that was begun ends, whatever combination of failing
\* queries, retries, lost answers and rotating keys it meets.
EveryAttestationEnds == \A c \in Calls : (stage[c] = "height") ~> (stage[c] \in Ended)

\* The signatures of the service, as the payloads that they verify for.
VerifiedPayloads ==
    {p \in Payloads : \E c \in Calls : \E i \in DOMAIN log[c] : \E k \in 1..MaxKeys :
        Verifies(log[c][i], p, k)}

Outcome ==
    [c \in Calls |-> CASE signing[c] = "signed" /\ Usable(c)  -> "signed"
                      [] signing[c] = "signed" /\ ~Usable(c) -> "deceived"
                      [] signing[c] \in {"failed", "dropped"} -> "unsigned"
                      [] OTHER                                -> "open"]

S == INSTANCE Signing
        WITH wanted <- payload, signatures <- VerifiedPayloads, outcome <- Outcome

\* The remote signer, with its connections, lookups, late and useless answers
\* and rotating keys, is a signer as the service takes it to be
\* (AttestorRefinement, UsesSigner): verifiers accept nothing but what calls
\* wanted signed, and a call that succeeds holds a signature of it that they
\* accept.
ImplementsSigning == S!Spec
=============================================================================
