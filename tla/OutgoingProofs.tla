--------------------------- MODULE OutgoingProofs ---------------------------
(***************************************************************************)
(* What leaves an attestor, for any number of calls, queries and keys: the *)
(* retry counter, and the remote signer's domain separation, freshness and *)
(* refinement of the contract Signing.                                     *)
(*                                                                         *)
(* The argument: whatever the service holds for a call (a request, a       *)
(* signature, an answer on the way) was made from the one payload the call *)
(* wants signed, with a key of the wallet since the call began signing     *)
(* (CallSigns); a verifier's equation then gives back the payload.  Of an  *)
(* answer this holds only if its form is the acceptable one.               *)
(***************************************************************************)
EXTENDS Outgoing, FiniteSetTheorems, SequenceTheorems, TLAPS

\* A signature of the payload of call c, made while the call lasted.
Fresh(c, signature) ==
    \E k \in since[c]..key : signature = SignatureOf(k, TaggedSigningInput(payload[c]))

\* What holds of the signing of a call, and of what the service has of it.
CallSigns(c) ==
    /\ signing[c] = "off" => payload[c] = NoPayload
    /\ signing[c] # "off" => payload[c] \in Payloads /\ since[c] \in 1..key
    /\ signing[c] \in {"off", "connect", "token", "wallet"} =>
        inbox[c] = <<>> /\ log[c] = <<>> /\ answer[c] = NoAnswer
    /\ Len(log[c]) + Len(inbox[c]) <= 1
    /\ \A i \in DOMAIN inbox[c] : inbox[c][i] = TaggedSigningInput(payload[c])
    /\ \A i \in DOMAIN log[c] : Fresh(c, log[c][i])
    /\ answer[c] # NoAnswer =>
        /\ log[c] # <<>>
        /\ Acceptable(answer[c].form) => Fresh(c, answer[c].signature)
    /\ signing[c] = "signed" => Fresh(c, result[c])

SigningInv == SignerTypeOK /\ \A c \in Calls : CallSigns(c)

\* The queries of a call: those of a later stage have not been sent yet.
CallQueries(c) ==
    /\ stage[c] = "idle" => query[Height(c)] = "unsent"
    /\ stage[c] \in {"idle", "height"} => \A q \in Details(c) : query[q] = "unsent"

QueryTypes ==
    /\ stage \in [Calls -> Stages]
    /\ query \in [Queries -> QueryStates]
    /\ retryFailures \in Nat

QueryInv == QueryTypes /\ ExhaustionCounted /\ \A c \in Calls : CallQueries(c)

Inv == SigningInv /\ QueryInv

-----------------------------------------------------------------------------
(***************************************************************************)
(* The signer                                                              *)
(***************************************************************************)

\* The type tag and the ideal hash separate the domains: a signature of one
\* payload verifies for that payload only.
LEMMA DomainSeparation ==
    ASSUME NEW p \in Payloads, NEW q \in Payloads, NEW k, NEW j,
           Verifies(SignatureOf(j, TaggedSigningInput(q)), p, k)
    PROVE  p = q
<1>1. <<AsByte(p.type), Sha256(p.data)>> = <<AsByte(q.type), Sha256(q.data)>>
    BY DEF Verifies, SignatureOf, TaggedSigningInput, Sha256
<1>2. AsByte(p.type) = AsByte(q.type) /\ p.data = q.data
    BY <1>1 DEF Sha256
<1>3. p.type = q.type
    BY <1>2 DEF AsByte, Payloads, AttestationTypes
<1> QED
    BY <1>2, <1>3 DEF Payloads

\* A signature verifies for its payload, under its key.
LEMMA SignatureVerifies ==
    ASSUME NEW p \in Payloads, NEW k
    PROVE  Verifies(SignatureOf(k, TaggedSigningInput(p)), p, k)
BY DEF Verifies, SignatureOf, TaggedSigningInput

\* A sequence of length 0 is the empty one.
LEMMA EmptyIfLengthZero ==
    ASSUME NEW Elems, NEW s \in Seq(Elems), Len(s) = 0
    PROVE  s = <<>>
OBVIOUS

\* The one element of a sequence leaves it empty.
LEMMA LastOne ==
    ASSUME NEW Elems, NEW s \in Seq(Elems), Len(s) = 1
    PROVE  Head(s) = s[1] /\ Tail(s) = <<>>
<1>1. s # <<>>
    BY EmptySeq
<1>2. Tail(s) \in Seq(Elems) /\ Len(Tail(s)) = 0
    BY <1>1, HeadTailProperties
<1>3. Tail(s) = <<>>
    BY <1>2, EmptyIfLengthZero
<1> QED
    BY <1>3

\* Of two sequences with one element at most, one with an element has it.
LEMMA EmptyIfShort ==
    ASSUME NEW Elems, NEW s \in Seq(Elems), NEW Others, NEW t \in Seq(Others),
           Len(s) + Len(t) <= 1, t # <<>>
    PROVE  s = <<>> /\ Len(t) = 1
<1>1. Len(t) \in Nat \ {0} /\ Len(s) \in Nat
    BY EmptySeq, LenProperties
<1>2. \A m \in Nat : \A n \in Nat \ {0} : m + n <= 1 => m = 0 /\ n = 1
    OBVIOUS
<1>3. Len(s) = 0 /\ Len(t) = 1
    BY <1>1, <1>2, Zenon
<1> QED
    BY <1>3, EmptyIfLengthZero

\* Nothing changes of a call, and no key is rotated.
LEMMA CallSignsKept ==
    ASSUME NEW d, CallSigns(d), key' = key,
           signing'[d] = signing[d], payload'[d] = payload[d], since'[d] = since[d],
           inbox'[d] = inbox[d], log'[d] = log[d], answer'[d] = answer[d], result'[d] = result[d]
    PROVE  CallSigns(d)'
BY DEF CallSigns, Fresh

\* Wanting nothing signed is no payload.
LEMMA NoPayloadIsNone == NoPayload \notin Payloads
<1> SUFFICES ASSUME NoPayload \in Payloads PROVE FALSE
    OBVIOUS
<1>1. DOMAIN NoPayload = {"type", "data"} /\ DOMAIN NoPayload = {"kind"}
    BY DEF NoPayload, Payloads
<1> QED
    BY <1>1

\* What a call wants, and what it has of the service, if it has any.
LEMMA SigningSteps ==
    ASSUME SigningInv, NEW c \in Calls,
           \/ BeginSigning(c) \/ Connect(c) \/ ReadToken(c) \/ SignerFails(c) \/ DropSigning(c)
    PROVE  SigningInv'
<1> USE RemoteSignerAssumption DEF SigningInv, SignerTypeOK, SigningStates, Awaiting, Move
<1>1. CASE BeginSigning(c)
    <2>1. CallSigns(c)'
        BY <1>1 DEF BeginSigning, CallSigns, Fresh
    <2>2. \A d \in Calls \ {c} : CallSigns(d)'
        BY <1>1 DEF BeginSigning, CallSigns, Fresh
    <2>3. SignerTypeOK'
        <3>1. /\ signing' \in [Calls -> SigningStates]
              /\ payload' \in [Calls -> Payloads \cup {NoPayload}]
              /\ since' \in [Calls -> 0..MaxKeys]
            BY <1>1 DEF BeginSigning
        <3> QED
            BY <1>1, <3>1 DEF BeginSigning
    <2> QED
        BY <2>1, <2>2, <2>3
<1>2. CASE Connect(c) \/ ReadToken(c) \/ SignerFails(c) \/ DropSigning(c)
    <2>1. /\ UNCHANGED <<payload, since, key, inbox, log, answer, result>>
          /\ signing' \in [Calls -> SigningStates]
          /\ \A d \in Calls \ {c} : signing'[d] = signing[d]
          /\ signing[c] = "off" <=> signing'[c] = "off"
          /\ signing'[c] \in {"connect", "token", "wallet"} =>
                signing[c] \in {"connect", "token", "wallet"}
          /\ signing'[c] = "signed" => signing[c] = "signed"
        BY <1>2 DEF Connect, ReadToken, SignerFails, DropSigning
    <2>2. SignerTypeOK'
        BY <2>1
    <2>3. CallSigns(c)'
        BY <2>1 DEF CallSigns, Fresh
    <2>4. \A d \in Calls \ {c} : CallSigns(d)'
        BY <2>1, CallSignsKept
    <2> QED
        BY <2>2, <2>3, <2>4
<1> QED
    BY <1>1, <1>2

\* The request is to sign the payload.
LEMMA GetWalletKeeps ==
    ASSUME SigningInv, NEW c \in Calls, GetWallet(c)
    PROVE  SigningInv'
<1> USE RemoteSignerAssumption DEF SigningInv, SignerTypeOK, SigningStates, Move
<1>1. /\ signing[c] = "wallet" /\ payload[c] \in Payloads /\ since[c] \in 1..key
      /\ inbox[c] = <<>> /\ log[c] = <<>> /\ answer[c] = NoAnswer
    BY DEF GetWallet, CallSigns
<1>2. PICK request : request = TaggedSigningInput(payload[c])
    OBVIOUS
<1>3. inbox'[c] = <<request>> /\ \A d \in Calls \ {c} : inbox'[d] = inbox[d]
    BY <1>1, <1>2 DEF GetWallet
<1>4. request \in Messages
    BY <1>1, <1>2 DEF Messages
<1>5. SignerTypeOK'
    <2>1. inbox' \in [Calls -> Seq(Messages)]
        <3>1. <<request>> \in Seq(Messages)
            BY <1>4
        <3>2. inbox' = [inbox EXCEPT ![c] = <<request>>]
            BY <1>1, <1>2 DEF GetWallet
        <3> QED
            BY <3>1, <3>2
    <2>2. signing' \in [Calls -> SigningStates]
        BY DEF GetWallet
    <2> QED
        BY <2>1, <2>2 DEF GetWallet
<1>6. CallSigns(c)'
    BY <1>1, <1>2, <1>3 DEF GetWallet, CallSigns, Fresh
<1>7. \A d \in Calls \ {c} : CallSigns(d)'
    <2>1. /\ UNCHANGED <<payload, since, key, log, answer, result>>
          /\ \A d \in Calls \ {c} : signing'[d] = signing[d]
        BY DEF GetWallet
    <2> QED
        BY <1>3, <2>1, CallSignsKept
<1> QED
    BY <1>5, <1>6, <1>7

\* An answer is of use only as a fresh signature.
LEMMA ReceiveAnswerKeeps ==
    ASSUME SigningInv, NEW c \in Calls, ReceiveAnswer(c)
    PROVE  SigningInv'
<1> USE RemoteSignerAssumption DEF SigningInv, SignerTypeOK, SigningStates, Move
<1>1. answer[c] \in [form : Forms, signature : Signatures \cup {NoSignature}]
    BY DEF ReceiveAnswer
<1>2. SignerTypeOK'
    <2>1. /\ signing' \in [Calls -> SigningStates]
          /\ result' \in [Calls -> Signatures \cup {NoSignature}]
        BY <1>1 DEF ReceiveAnswer
    <2> QED
        BY <2>1 DEF ReceiveAnswer
<1>3. CallSigns(c)'
    BY DEF ReceiveAnswer, CallSigns, Fresh
<1>4. \A d \in Calls \ {c} : CallSigns(d)'
    <2>1. /\ UNCHANGED <<payload, since, key, inbox, log, answer>>
          /\ \A d \in Calls \ {c} : signing'[d] = signing[d] /\ result'[d] = result[d]
        BY DEF ReceiveAnswer
    <2> QED
        BY <2>1, CallSignsKept
<1> QED
    BY <1>2, <1>3, <1>4

\* The service looks at its one request and signs what it says.
LEMMA ServiceKeeps ==
    ASSUME SigningInv, NEW c \in Calls, ServiceSigns(c)
    PROVE  /\ SigningInv'
           /\ log[c] = <<>>
           /\ log'[c] = <<SignatureOf(key, TaggedSigningInput(payload[c]))>>
<1> USE RemoteSignerAssumption DEF SigningInv, SignerTypeOK
<1>1. Len(log[c]) + Len(inbox[c]) <= 1 /\ inbox[c] # <<>>
    BY DEF ServiceSigns, CallSigns
<1>2. /\ inbox[c] \in Seq(Messages)
      /\ log[c] \in Seq(Signatures)
    OBVIOUS
<1>3. /\ log[c] = <<>> /\ Len(inbox[c]) = 1
      /\ Tail(inbox[c]) = <<>> /\ Head(inbox[c]) = inbox[c][1]
    BY <1>1, <1>2, EmptyIfShort, LastOne
<1>4. inbox[c][1] = TaggedSigningInput(payload[c])
    BY <1>3 DEF CallSigns
<1>5. /\ signing[c] \notin {"off", "connect", "token", "wallet"}
      /\ payload[c] \in Payloads /\ since[c] \in 1..key /\ key \in 1..MaxKeys
    BY <1>1 DEF CallSigns
<1>6. PICK form, s :
        /\ form \in Forms
        /\ s = SignatureOf(key, TaggedSigningInput(payload[c]))
        /\ log' = [log EXCEPT ![c] = Append(@, s)]
        /\ answer' = [answer EXCEPT ![c] = [form |-> form, signature |-> Carried(form, s)]]
    BY <1>3, <1>4 DEF ServiceSigns
<1>7. Carried(form, s) \in {s, NoSignature} /\ (Acceptable(form) => Carried(form, s) = s)
    BY DEF Carried, Acceptable
<1>8. key \in since[c]..key
    BY <1>5
<1>9. s \in Signatures
    BY <1>5, <1>6 DEF Signatures, Messages
<1>10. /\ log'[c] = <<s>> /\ inbox'[c] = <<>>
       /\ answer'[c] = [form |-> form, signature |-> Carried(form, s)]
       /\ \A d \in Calls \ {c} :
            log'[d] = log[d] /\ inbox'[d] = inbox[d] /\ answer'[d] = answer[d]
       /\ UNCHANGED <<signing, payload, since, key, result>>
    BY <1>3, <1>6 DEF ServiceSigns
<1>11. SignerTypeOK'
    <2>1. inbox' \in [Calls -> Seq(Messages)]
        <3>1. <<>> \in Seq(Messages)
            OBVIOUS
        <3>2. inbox' = [inbox EXCEPT ![c] = <<>>]
            BY <1>3 DEF ServiceSigns
        <3> QED
            BY <3>1, <3>2
    <2>2. log' \in [Calls -> Seq(Signatures)]
        BY <1>6, <1>9
    <2>3. answer' \in [Calls -> [form : Forms, signature : Signatures \cup {NoSignature}]
                                \cup {NoAnswer}]
        BY <1>6, <1>7, <1>9
    <2> QED
        BY <1>10, <2>1, <2>2, <2>3
<1>12. CallSigns(c)'
    <2>1. Fresh(c, s)'
        BY <1>6, <1>8, <1>10 DEF Fresh
    <2>2. Acceptable(answer'[c].form) => Fresh(c, answer[c].signature)'
        BY <1>7, <1>10, <2>1 DEF Fresh
    <2>3. signing'[c] = "signed" => Fresh(c, result[c])'
        BY <1>10 DEF CallSigns, Fresh
    <2> QED
        BY <1>5, <1>10, <2>1, <2>2, <2>3 DEF CallSigns
<1>13. \A d \in Calls \ {c} : CallSigns(d)'
    BY <1>10, CallSignsKept
<1> QED
    BY <1>3, <1>6, <1>10, <1>11, <1>12, <1>13

\* A key that is rotated leaves what was signed as fresh as it was.
LEMMA RotationKeeps == SigningInv /\ RotateKey => SigningInv'
<1> SUFFICES ASSUME SigningInv, RotateKey PROVE SigningInv'
    OBVIOUS
<1> USE RemoteSignerAssumption DEF SigningInv, SignerTypeOK, RotateKey
<1>1. SignerTypeOK'
    <2>1. key' \in 1..MaxKeys
        OBVIOUS
    <2> QED
        BY <2>1
<1>2. \A c \in Calls : since[c]..key \subseteq since[c]..key'
    OBVIOUS
<1>3. \A c \in Calls : CallSigns(c)'
    BY <1>2 DEF CallSigns, Fresh
<1> QED
    BY <1>1, <1>3

LEMMA SameSigner == SigningInv /\ UNCHANGED signerVars => SigningInv'
<1> SUFFICES ASSUME SigningInv, UNCHANGED signerVars PROVE SigningInv'
    OBVIOUS
<1> USE DEF SigningInv, signerVars
<1>1. SignerTypeOK'
    BY DEF SignerTypeOK
<1>2. \A c \in Calls : CallSigns(c)'
    BY DEF CallSigns, Fresh
<1> QED
    BY <1>1, <1>2

-----------------------------------------------------------------------------
(***************************************************************************)
(* The queries                                                             *)
(***************************************************************************)
Own(c) == {Height(c)} \cup Details(c)

\* Every call has queries of its own.
LEMMA QueriesApart ==
    /\ \A c \in Calls : Own(c) \subseteq Queries /\ Height(c) \notin Details(c)
    /\ \A c, d \in Calls : c # d => Own(c) \cap Own(d) = {}
BY OutgoingAssumption DEF Own, Height, Details

\* No query fails, and none that has failed is sent again.
LEMMA SameFailures ==
    ASSUME ExhaustionCounted, UNCHANGED retryFailures,
           \A q \in Queries : query'[q] = "failed" <=> query[q] = "failed"
    PROVE  ExhaustionCounted'
<1>1. {q \in Queries : query'[q] = "failed"} = {q \in Queries : query[q] = "failed"}
    OBVIOUS
<1> QED
    BY <1>1 DEF ExhaustionCounted

\* A query fails, and is counted.
LEMMA OneMoreFailure ==
    ASSUME QueryTypes, ExhaustionCounted, NEW q \in Queries, query[q] # "failed",
           query' = [query EXCEPT ![q] = "failed"], retryFailures' = retryFailures + 1
    PROVE  ExhaustionCounted'
<1> DEFINE failed == {r \in Queries : query[r] = "failed"}
<1>1. IsFiniteSet(failed) /\ q \notin failed
    BY RetryAssumption, FS_Subset
<1>2. Cardinality(failed \cup {q}) = Cardinality(failed) + 1
    BY <1>1, FS_AddElement
<1>3. {r \in Queries : query'[r] = "failed"} = failed \cup {q}
    BY DEF QueryTypes
<1> QED
    BY <1>2, <1>3 DEF ExhaustionCounted

\* A step of one call, which changes no query of another.
LEMMA CallKeepsQueries ==
    ASSUME QueryInv, NEW c \in Calls,
           query' \in [Queries -> QueryStates], retryFailures' \in Nat,
           \A q \in Queries \ Own(c) : query'[q] = query[q],
           NEW s \in Stages, stage' = [stage EXCEPT ![c] = s],
           ExhaustionCounted', CallQueries(c)'
    PROVE  QueryInv'
<1>1. QueryTypes'
    BY DEF QueryInv, QueryTypes
<1>2. ASSUME NEW d \in Calls \ {c} PROVE CallQueries(d)'
    <2>1. stage'[d] = stage[d] /\ \A q \in Own(d) : query'[q] = query[q]
        BY QueriesApart DEF QueryInv, QueryTypes
    <2> QED
        BY <2>1 DEF QueryInv, CallQueries, Own
<1> QED
    BY <1>1, <1>2 DEF QueryInv

\* A query of a call under way is attempted, answered, given up or put off.
LEMMA QueryKeeps ==
    ASSUME QueryInv, NEW c \in Calls, NEW q \in Own(c), RetryStep(q), UNCHANGED stage
    PROVE  QueryInv'
<1>1. q \in Queries /\ query[q] \in {"attempt", "pause"}
    BY QueriesApart DEF RetryStep, AttemptSucceeds, AttemptFails, AttemptAgain
<1>2. PICK state \in QueryStates :
        /\ query' = [query EXCEPT ![q] = state]
        /\ \/ state # "failed" /\ UNCHANGED retryFailures
           \/ state = "failed" /\ retryFailures' = retryFailures + 1
    BY DEF RetryStep, AttemptSucceeds, AttemptFails, AttemptAgain, Pause, GiveUp, Settle,
           QueryStates
<1>3. query' \in [Queries -> QueryStates] /\ retryFailures' \in Nat
    <2>1. query \in [Queries -> QueryStates] /\ retryFailures \in Nat
        BY DEF QueryInv, QueryTypes
    <2>2. query' \in [Queries -> QueryStates]
        BY <1>2, <2>1
    <2>3. retryFailures' \in Nat
        BY <1>2, <2>1
    <2> QED
        BY <2>2, <2>3
<1>4. \A r \in Queries \ {q} : query'[r] = query[r]
    BY <1>2 DEF QueryInv, QueryTypes
<1>5. ExhaustionCounted'
    <2>1. CASE state # "failed"
        BY <1>1, <1>2, <2>1, SameFailures DEF QueryInv, QueryTypes
    <2>2. CASE state = "failed"
        BY <1>1, <1>2, <2>2, OneMoreFailure DEF QueryInv
    <2> QED
        BY <2>1, <2>2
<1>6. CallQueries(c)'
    <2>1. CallQueries(c) /\ Own(c) \subseteq Queries
        BY QueriesApart DEF QueryInv
    <2> QED
        BY <1>1, <1>4, <2>1 DEF CallQueries, Own
<1>7. stage' = [stage EXCEPT ![c] = stage[c]] /\ stage[c] \in Stages
    BY DEF QueryInv, QueryTypes
<1> QED
    BY <1>3, <1>4, <1>5, <1>6, <1>7, CallKeepsQueries

\* A call that moves on with its queries as they are.
LEMMA EnterKeeps ==
    ASSUME QueryInv, NEW c \in Calls, NEW s \in Stages \ {"idle", "height"},
           Enter(c, s), UNCHANGED retryVars
    PROVE  QueryInv'
<1> USE DEF QueryInv, QueryTypes, retryVars
<1>1. ExhaustionCounted'
    BY SameFailures
<1>2. stage' = [stage EXCEPT ![c] = s] /\ stage'[c] = s
    BY DEF Enter
<1>3. CallQueries(c)'
    BY <1>2 DEF CallQueries
<1> QED
    BY <1>1, <1>2, <1>3, CallKeepsQueries

\* A call sends queries that have not been sent before.
LEMMA SendKeeps ==
    ASSUME QueryInv, NEW c \in Calls, Start(c) \/ Accept(c)
    PROVE  QueryInv'
<1> DEFINE sent == IF stage[c] = "idle" THEN {Height(c)} ELSE Details(c)
           s == IF stage[c] = "idle" THEN "height" ELSE "checks"
<1>1. /\ stage[c] = "idle" \/ stage[c] = "height"
      /\ Enter(c, s) /\ Send(sent)
    BY DEF Start, Accept
<1>2. sent \subseteq Own(c) /\ sent \subseteq Queries
    BY QueriesApart DEF Own
<1>3. \A q \in sent : query[q] = "unsent"
    BY <1>1 DEF QueryInv, CallQueries
<1>4. stage' = [stage EXCEPT ![c] = s] /\ s \in Stages /\ stage'[c] = s
    BY <1>1 DEF Enter, QueryInv, QueryTypes, Stages
<1>5. query' = [q \in Queries |-> IF q \in sent THEN "attempt" ELSE query[q]]
      /\ UNCHANGED retryFailures
    BY <1>1 DEF Send
<1>6. CallQueries(c)'
    <2>1. CASE stage[c] = "idle"
        BY <1>4, <1>5, <2>1, QueriesApart DEF QueryInv, CallQueries, Own
    <2>2. CASE stage[c] = "height"
        BY <1>4, <2>2 DEF CallQueries
    <2> QED
        BY <1>1, <2>1, <2>2
<1> HIDE DEF sent, s
<1>7. query' \in [Queries -> QueryStates]
    BY <1>5 DEF QueryInv, QueryTypes, QueryStates
<1>8. ExhaustionCounted'
    BY <1>3, <1>5, SameFailures DEF QueryInv
<1> QED
    BY <1>2, <1>4, <1>5, <1>6, <1>7, <1>8, CallKeepsQueries DEF QueryInv, QueryTypes

\* A call goes away, and its queries with it.
LEMMA DropKeeps ==
    ASSUME QueryInv, NEW c \in Calls, Drop(c)
    PROVE  QueryInv'
<1> DEFINE gone == {q \in Own(c) : UnderWay(q)}
<1>1. /\ query' = [q \in Queries |-> IF q \in gone THEN "dropped" ELSE query[q]]
      /\ UNCHANGED retryFailures /\ Enter(c, "dropped")
    BY DEF Drop, DropQueries, Own
<1>2. \A q \in gone : query[q] \in {"attempt", "pause"} /\ q \in Own(c)
    BY DEF UnderWay
<1> HIDE DEF gone
<1>3. query' \in [Queries -> QueryStates]
    BY <1>1 DEF QueryInv, QueryTypes, QueryStates
<1>4. ExhaustionCounted'
    BY <1>1, <1>2, SameFailures DEF QueryInv
<1>5. /\ stage' = [stage EXCEPT ![c] = "dropped"] /\ "dropped" \in Stages
      /\ stage'[c] = "dropped"
    BY <1>1 DEF Enter, QueryInv, QueryTypes, Stages
<1>6. CallQueries(c)'
    BY <1>5 DEF CallQueries
<1> QED
    BY <1>1, <1>2, <1>3, <1>4, <1>5, <1>6, CallKeepsQueries DEF QueryInv, QueryTypes

-----------------------------------------------------------------------------
(***************************************************************************)
(* The signing contract                                                    *)
(***************************************************************************)

\* Verifiers accept exactly the payloads of the calls signed for.
VerifiedAreWanted ==
    \A p : p \in VerifiedPayloads <=> \E c \in Calls : log[c] # <<>> /\ payload[c] = p

LEMMA WhatVerifies == SigningInv => VerifiedAreWanted
<1> SUFFICES ASSUME SigningInv, NEW p
             PROVE  p \in VerifiedPayloads <=> \E c \in Calls : log[c] # <<>> /\ payload[c] = p
    BY DEF VerifiedAreWanted
<1> USE RemoteSignerAssumption DEF SigningInv, SignerTypeOK
<1>1. ASSUME NEW c \in Calls, log[c] # <<>>
      PROVE  payload[c] \in Payloads /\ since[c] \in 1..key
    BY <1>1 DEF CallSigns
<1>2. ASSUME p \in VerifiedPayloads
      PROVE  \E c \in Calls : log[c] # <<>> /\ payload[c] = p
    <2>0. PICK c \in Calls :
            \E i \in DOMAIN log[c] : \E k \in 1..MaxKeys : Verifies(log[c][i], p, k)
        BY <1>2 DEF VerifiedPayloads
    <2>1. PICK i \in DOMAIN log[c], k \in 1..MaxKeys : Verifies(log[c][i], p, k)
        BY <2>0
    <2>2. PICK j : log[c][i] = SignatureOf(j, TaggedSigningInput(payload[c]))
        BY <2>1 DEF CallSigns, Fresh
    <2>3. log[c] # <<>>
        BY <2>1
    <2>4. p \in Payloads
        BY <1>2 DEF VerifiedPayloads
    <2>5. p = payload[c]
        BY <1>1, <2>1, <2>2, <2>3, <2>4, DomainSeparation
    <2> QED
        BY <2>3, <2>5
<1>3. ASSUME NEW c \in Calls, log[c] # <<>>, payload[c] = p
      PROVE  p \in VerifiedPayloads
    <2>1. log[c] \in Seq(Signatures)
        OBVIOUS
    <2>2. 1 \in DOMAIN log[c]
        BY <1>3, <2>1
    <2>3. PICK k \in since[c]..key : log[c][1] = SignatureOf(k, TaggedSigningInput(p))
        BY <1>3, <2>2 DEF CallSigns, Fresh
    <2>4. k \in 1..MaxKeys /\ p \in Payloads
        BY <1>1, <1>3, <2>3
    <2>5. Verifies(log[c][1], p, k)
        BY <2>3, <2>4, SignatureVerifies
    <2> QED
        BY <2>2, <2>4, <2>5 DEF VerifiedPayloads
<1> QED
    BY <1>2, <1>3

\* Nothing is signed, and no call that has a signature wants another.
LEMMA SameVerified ==
    ASSUME SigningInv, SigningInv', log' = log,
           \A d \in Calls : log[d] # <<>> => payload'[d] = payload[d]
    PROVE  VerifiedPayloads' = VerifiedPayloads
<1>1. VerifiedAreWanted /\ VerifiedAreWanted'
    BY WhatVerifies, PTL
<1>2. \A c \in Calls : (log[c] # <<>>) <=> (log'[c] # <<>>)
    OBVIOUS
<1>3. \A p : p \in VerifiedPayloads <=> p \in VerifiedPayloads'
    BY <1>1, <1>2 DEF VerifiedAreWanted
<1> QED
    BY <1>3 DEF VerifiedPayloads

\* What a call is told of as a success is of use to it.
LEMMA SignedIsUsable == SigningInv => ReturnedSignatureVerifies
<1> SUFFICES ASSUME SigningInv, NEW c \in Calls, signing[c] = "signed" PROVE Usable(c)
    BY DEF ReturnedSignatureVerifies
<1>1. payload[c] \in Payloads /\ Fresh(c, result[c])
    BY DEF SigningInv, CallSigns
<1> QED
    BY <1>1, SignatureVerifies DEF Fresh, Usable

\* What a call is told is settled by where its signing stands.
Settled ==
    [c \in Calls |-> CASE signing[c] = "signed"                -> "signed"
                      [] signing[c] \in {"failed", "dropped"} -> "unsigned"
                      [] OTHER                                -> "open"]

OutcomeSettled == Outcome = Settled

LEMMA OutcomeIsSettled == SigningInv => OutcomeSettled
BY SignedIsUsable DEF OutcomeSettled, Outcome, Settled, ReturnedSignatureVerifies

LEMMA SameOutcome ==
    ASSUME SigningInv, SigningInv',
           \A d \in Calls :
            \/ signing'[d] = signing[d]
            \/ /\ signing[d] \notin {"signed", "failed", "dropped"}
               /\ signing'[d] \notin {"signed", "failed", "dropped"}
    PROVE  Outcome' = Outcome
<1>1. OutcomeSettled /\ OutcomeSettled'
    BY OutcomeIsSettled, PTL
<1>2. Settled' = Settled
    BY DEF Settled
<1> QED
    BY <1>1, <1>2 DEF OutcomeSettled

LEMMA NewOutcome ==
    ASSUME SigningInv, SigningInv',
           NEW c \in Calls, signing[c] \notin {"signed", "failed", "dropped"},
           \A d \in Calls \ {c} : signing'[d] = signing[d]
    PROVE  /\ Outcome[c] = "open"
           /\ signing'[c] \in {"failed", "dropped"} =>
                Outcome' = [Outcome EXCEPT ![c] = "unsigned"]
           /\ signing'[c] = "signed" => Outcome' = [Outcome EXCEPT ![c] = "signed"]
<1>1. OutcomeSettled /\ OutcomeSettled'
    BY OutcomeIsSettled, PTL
<1>2. /\ Settled[c] = "open"
      /\ signing'[c] \in {"failed", "dropped"} => Settled' = [Settled EXCEPT ![c] = "unsigned"]
      /\ signing'[c] = "signed" => Settled' = [Settled EXCEPT ![c] = "signed"]
    BY DEF Settled
<1> QED
    BY <1>1, <1>2 DEF OutcomeSettled

\* The steps of a call's signing: it wants a signature, learns of it, or ends.
LEMMA SignerImplements ==
    ASSUME SigningInv, SigningInv', NEW c \in Calls,
           BeginSigning(c) \/ SignStep(c) \/ DropSigning(c)
    PROVE  [S!Next]_(S!signingVars)
<1> USE DEF SigningInv, SignerTypeOK
<1>1. \A d \in Calls \ {c} : signing'[d] = signing[d]
    BY DEF BeginSigning, SignStep, DropSigning, Connect, ReadToken, GetWallet, ReceiveAnswer,
           SignerFails, Move
<1>2. log' = log
    BY DEF BeginSigning, SignStep, DropSigning, Connect, ReadToken, GetWallet, ReceiveAnswer,
           SignerFails
<1>3. CASE BeginSigning(c)
    <2>1. /\ payload[c] = NoPayload /\ log[c] = <<>> /\ signing[c] = "off"
          /\ signing'[c] = "connect"
        BY <1>3 DEF BeginSigning, CallSigns, Move
    <2>2. PICK p \in Payloads : payload' = [payload EXCEPT ![c] = p]
        BY <1>3 DEF BeginSigning
    <2>3. payload'[c] \in Payloads /\ payload' = [payload EXCEPT ![c] = payload'[c]]
        BY <2>2
    <2>4. VerifiedPayloads' = VerifiedPayloads
        BY <1>2, <2>1, <2>2, SameVerified
    <2>5. Outcome' = Outcome /\ Outcome[c] = "open"
        BY <1>1, <2>1, SameOutcome, NewOutcome
    <2>6. S!Want(c)
        BY <2>1, <2>3, <2>4, <2>5 DEF S!Want, S!Unwanted, NoPayload
    <2> QED
        BY <2>6 DEF S!Next
<1>4. CASE ~BeginSigning(c)
    <2>1. payload' = payload
        BY <1>4 DEF SignStep, DropSigning, Connect, ReadToken, GetWallet, ReceiveAnswer,
            SignerFails
    <2>2. VerifiedPayloads' = VerifiedPayloads
        BY <1>2, <2>1, SameVerified
    <2>3. CASE signing'[c] = signing[c]
        <3>1. Outcome' = Outcome
            BY <1>1, <2>3, SameOutcome
        <3> QED
            BY <2>1, <2>2, <3>1 DEF S!signingVars
    <2>4. CASE signing'[c] # signing[c] /\ signing'[c] \notin {"signed", "failed", "dropped"}
        <3>1. signing[c] \notin {"signed", "failed", "dropped"}
            BY <1>4, <2>4 DEF SignStep, DropSigning, Connect, ReadToken, GetWallet,
                ReceiveAnswer, SignerFails, Awaiting
        <3>2. Outcome' = Outcome
            BY <1>1, <2>4, <3>1, SameOutcome
        <3> QED
            BY <2>1, <2>2, <3>2 DEF S!signingVars
    <2>5. CASE signing'[c] # signing[c] /\ signing'[c] \in {"failed", "dropped"}
        <3>1. signing[c] \notin {"signed", "failed", "dropped"}
            BY <1>4, <2>5 DEF SignStep, DropSigning, Connect, ReadToken, GetWallet,
                ReceiveAnswer, SignerFails, Awaiting
        <3>2. S!End(c)
            BY <1>1, <2>1, <2>2, <2>5, <3>1, NewOutcome DEF S!End
        <3> QED
            BY <3>2 DEF S!Next
    <2>6. CASE signing'[c] # signing[c] /\ signing'[c] = "signed"
        <3>1. ReceiveAnswer(c)
            BY <1>4, <2>6 DEF SignStep, DropSigning, Connect, ReadToken, GetWallet,
                SignerFails, Move, Awaiting
        <3>2. signing[c] = "request" /\ log[c] # <<>>
            BY <3>1 DEF ReceiveAnswer, CallSigns
        <3>3. payload[c] \in VerifiedPayloads
            BY <3>2, WhatVerifies DEF VerifiedAreWanted
        <3>4. S!End(c)
            BY <1>1, <2>1, <2>2, <2>6, <3>2, <3>3, NewOutcome DEF S!End
        <3> QED
            BY <3>4 DEF S!Next
    <2> QED
        BY <2>3, <2>4, <2>5, <2>6
<1> QED
    BY <1>3, <1>4

\* The steps of the service: a signature that a call wants, or another key.
LEMMA ServiceImplements ==
    ASSUME SigningInv, SigningInv', ServiceStep
    PROVE  [S!Next]_(S!signingVars)
<1>1. CASE RotateKey
    <2>1. VerifiedPayloads' = VerifiedPayloads
        BY <1>1, SameVerified DEF RotateKey
    <2>2. Outcome' = Outcome
        BY <1>1, SameOutcome DEF RotateKey
    <2> QED
        BY <1>1, <2>1, <2>2 DEF RotateKey, S!signingVars
<1>2. ASSUME NEW c \in Calls, ServiceSigns(c)
      PROVE  S!Make(c)
    <2>1. /\ payload' = payload /\ signing' = signing
          /\ \A d \in Calls \ {c} : log'[d] = log[d]
        BY <1>2 DEF ServiceSigns, SigningInv, SignerTypeOK
    <2>0. payload[c] # NoPayload
        <3>1. inbox[c] # <<>>
            BY <1>2 DEF ServiceSigns
        <3>2. signing[c] # "off" /\ payload[c] \in Payloads
            BY <3>1 DEF SigningInv, CallSigns
        <3> QED
            BY <3>2, NoPayloadIsNone
    <2>2. log'[c] # <<>>
        BY <1>2, ServiceKeeps
    <2>3. VerifiedAreWanted /\ VerifiedAreWanted'
        BY WhatVerifies, PTL
    <2>4. \A p : p \in VerifiedPayloads' <=> p \in VerifiedPayloads \cup {payload[c]}
        BY <2>1, <2>2, <2>3 DEF VerifiedAreWanted
    <2>6. VerifiedPayloads' = VerifiedPayloads \cup {payload[c]}
        BY <2>4
    <2>7. Outcome' = Outcome
        BY <2>1, SameOutcome
    <2> QED
        BY <2>0, <2>1, <2>6, <2>7 DEF S!Make, S!Unwanted, NoPayload
<1> QED
    BY <1>1, <1>2 DEF ServiceStep, S!Next

-----------------------------------------------------------------------------
(***************************************************************************)
(* The theorems                                                            *)
(***************************************************************************)
LEMMA InitInv == Init => Inv
<1> SUFFICES ASSUME Init PROVE Inv
    OBVIOUS
<1>1. SigningInv
    <2>1. SignerTypeOK
        BY RemoteSignerAssumption DEF Init, SignerInit, SignerTypeOK, SigningStates
    <2>2. \A c \in Calls : CallSigns(c)
        BY DEF Init, SignerInit, CallSigns
    <2> QED
        BY <2>1, <2>2 DEF SigningInv
<1>2. {q \in Queries : query[q] = "failed"} = {}
    BY DEF Init, RetryInit
<1>3. ExhaustionCounted
    BY <1>2, FS_EmptySet DEF Init, RetryInit, ExhaustionCounted
<1>4. QueryTypes
    BY DEF Init, RetryInit, QueryTypes, QueryStates, Stages
<1>5. \A c \in Calls : CallQueries(c)
    BY QueriesApart DEF Init, RetryInit, CallQueries, Own
<1> QED
    BY <1>1, <1>3, <1>4, <1>5 DEF Inv, QueryInv

\* The queries and the signing of a call do not touch each other.
LEMMA SameQueries ==
    ASSUME QueryInv, UNCHANGED <<stage, retryVars>>
    PROVE  QueryInv'
<1> USE DEF QueryInv, retryVars
<1>1. QueryTypes'
    BY DEF QueryTypes
<1>2. ExhaustionCounted'
    BY SameFailures
<1>3. \A c \in Calls : CallQueries(c)'
    BY DEF CallQueries
<1> QED
    BY <1>1, <1>2, <1>3

\* Every step is one of a call's queries, of its signing, of the service, or
\* none.
LEMMA StepsOfParts ==
    ASSUME QueryInv, [Next]_outgoingVars
    PROVE  /\ \/ UNCHANGED signerVars
              \/ \E c \in Calls : BeginSigning(c) \/ SignStep(c) \/ DropSigning(c)
              \/ ServiceStep
           /\ QueryInv'
<1>1. ASSUME NEW c \in Calls, Start(c) \/ Accept(c)
      PROVE  UNCHANGED signerVars /\ QueryInv'
    BY <1>1, SendKeeps DEF Start, Accept
<1>2. ASSUME NEW c \in Calls, Refuse(c) \/ Collect(c) \/ Return(c)
      PROVE  (UNCHANGED signerVars \/ BeginSigning(c)) /\ QueryInv'
    <2>1. /\ UNCHANGED retryVars
          /\ \E s \in {"failed", "signing", "returned"} : Enter(c, s)
          /\ UNCHANGED signerVars \/ BeginSigning(c)
        BY <1>2 DEF Refuse, Collect, Return
    <2> QED
        BY <2>1, EnterKeeps DEF Stages
<1>3. ASSUME NEW c \in Calls, Query(c)
      PROVE  UNCHANGED signerVars /\ QueryInv'
    BY <1>3, QueryKeeps DEF Query, Own
<1>4. ASSUME NEW c \in Calls, SignRemote(c)
      PROVE  SignStep(c) /\ QueryInv'
    BY <1>4, SameQueries DEF SignRemote
<1>5. ASSUME NEW c \in Calls, Drop(c)
      PROVE  DropSigning(c) /\ QueryInv'
    BY <1>5, DropKeeps DEF Drop
<1>6. CASE Service
    BY <1>6, SameQueries DEF Service
<1>7. CASE UNCHANGED outgoingVars
    BY <1>7, SameQueries DEF outgoingVars
<1> QED
    BY <1>1, <1>2, <1>3, <1>4, <1>5, <1>6, <1>7 DEF Next, Progress, Quiet

LEMMA NextInv == Inv /\ [Next]_outgoingVars => Inv'
<1> SUFFICES ASSUME SigningInv, QueryInv, [Next]_outgoingVars PROVE SigningInv' /\ QueryInv'
    BY DEF Inv
<1>1. ASSUME NEW c \in Calls, BeginSigning(c) \/ SignStep(c) \/ DropSigning(c)
      PROVE  SigningInv'
    BY <1>1, SigningSteps, GetWalletKeeps, ReceiveAnswerKeeps DEF SignStep
<1>2. ASSUME ServiceStep PROVE SigningInv'
    <2>1. ASSUME NEW c \in Calls, ServiceSigns(c) PROVE SigningInv'
        BY <2>1, ServiceKeeps
    <2> QED
        BY <1>2, <2>1, RotationKeeps DEF ServiceStep
<1> QED
    BY <1>1, <1>2, StepsOfParts, SameSigner

\* The inductive invariant holds in every state of every behaviour.
THEOREM InvariantHolds == Spec => []Inv
BY InitInv, NextInv, PTL DEF Spec

\* The counter of exhausted retries is the number of queries that failed, for
\* any number of concurrent calls and queries.
THEOREM RetryCounterIsExact == Spec => []ExhaustionCounted
<1>1. Inv => ExhaustionCounted
    BY DEF Inv, QueryInv
<1> QED
    BY <1>1, InvariantHolds, PTL

\* A signature made for one payload is accepted as no other: not of the other
\* type, not of other data, not under any key, for any set of data.
THEOREM SignaturesAreBound == Spec => []SignaturesBindTypeAndData
<1>1. ASSUME SigningInv, NEW c \in Calls, NEW i \in DOMAIN log[c], NEW p \in Payloads,
             NEW k \in 1..MaxKeys, Verifies(log[c][i], p, k)
      PROVE  payload[c] = p
    <2>1. log[c] # <<>>
        BY <1>1
    <2>2. payload[c] \in Payloads
        BY <1>1, <2>1 DEF SigningInv, CallSigns
    <2>3. PICK j : log[c][i] = SignatureOf(j, TaggedSigningInput(payload[c]))
        BY <1>1 DEF SigningInv, CallSigns, Fresh
    <2> QED
        BY <1>1, <2>2, <2>3, DomainSeparation
<1>2. Inv => SignaturesBindTypeAndData
    BY <1>1 DEF Inv, SignaturesBindTypeAndData
<1> QED
    BY <1>2, InvariantHolds, PTL

\* No call has two signatures, though its queries are repeated.
THEOREM OneSignaturePerCall == Spec => []SignedAtMostOnce
<1>1. Inv => SignedAtMostOnce
    BY DEF Inv, SigningInv, CallSigns, SignedAtMostOnce
<1> QED
    BY <1>1, InvariantHolds, PTL

\* What a call is given as a signature verifies for its payload, under a key
\* that the wallet had meanwhile, whatever the service answers and however
\* often keys are rotated.
THEOREM ReturnedSignaturesVerify == Spec => []ReturnedSignatureVerifies
<1>1. Inv => ReturnedSignatureVerifies
    BY SignedIsUsable DEF Inv
<1> QED
    BY <1>1, InvariantHolds, PTL

\* The contract starts as the signer does.
LEMMA InitImplements == Init => S!Init
<1> SUFFICES ASSUME Init PROVE S!Init
    OBVIOUS
<1>1. VerifiedPayloads = {}
    BY DEF Init, SignerInit, VerifiedPayloads
<1>2. Outcome = [c \in Calls |-> "open"]
    BY DEF Init, SignerInit, Outcome
<1> QED
    BY <1>1, <1>2 DEF S!Init, S!Unwanted, NoPayload, Init, SignerInit

\* Every step is one of the contract or changes nothing that it is about.
LEMMA NextImplements ==
    Inv /\ Inv' /\ [Next]_outgoingVars => [S!Next]_(S!signingVars)
<1> SUFFICES ASSUME QueryInv, SigningInv, SigningInv', [Next]_outgoingVars
             PROVE  [S!Next]_(S!signingVars)
    BY DEF Inv
<1>1. CASE UNCHANGED signerVars
    <2>1. VerifiedPayloads' = VerifiedPayloads
        BY <1>1, SameVerified DEF signerVars
    <2>2. Outcome' = Outcome
        BY <1>1, SameOutcome DEF signerVars
    <2> QED
        BY <1>1, <2>1, <2>2 DEF signerVars, S!signingVars
<1> QED
    BY <1>1, SignerImplements, ServiceImplements, StepsOfParts

\* The remote signer implements the contract of a signer: whatever is lost,
\* late, refused or rotated, nothing unwanted is signed, and success means
\* that there is a signature of what was wanted.
THEOREM SignerKeepsItsContract == Spec => ImplementsSigning
BY InitImplements, NextImplements, InvariantHolds, PTL DEF Spec, ImplementsSigning, S!Spec
-----------------------------------------------------------------------------
(***************************************************************************)
(* Attempts and pauses                                                     *)
(***************************************************************************)

\* A query that is attempted has attempts left, also after a pause: the
\* pause before attempt k + 1 is the one for k.
Attempted(q) ==
    /\ query[q] = "attempt" => attempts[q] \in 1..MaxAttempts
    /\ query[q] = "pause" =>
        attempts[q] \in 1..(MaxAttempts - 1) /\ pause[q] = Backoff(attempts[q])

AttemptsInv ==
    /\ query \in [Queries -> QueryStates]
    /\ attempts \in [Queries -> 0..MaxAttempts]
    /\ pause \in [Queries -> 0..MaxBackoff]
    /\ \A q \in Queries : Attempted(q)

\* The pauses that the helper can make: 400 ms, then 2 s, since the power
\* comes before the factor and the maximum cuts it off.
LEMMA Backoffs ==
    /\ Backoff(1) = 400 /\ Backoff(2) = 2000
    /\ \A k \in 1..(MaxAttempts - 1) : Backoff(k) \in 0..MaxBackoff
<1>1. InitialBackoff ^ 1 = 200 /\ InitialBackoff ^ 2 = 40000
    BY DEF InitialBackoff
<1>2. Backoff(1) = 400 /\ Backoff(2) = 2000
    BY <1>1 DEF Backoff, Factor, MaxBackoff
<1>3. \A k \in 1..(MaxAttempts - 1) : k = 1 \/ k = 2
    BY DEF MaxAttempts
<1> QED
    BY <1>2, <1>3 DEF MaxBackoff

\* A query comes to a state with as many attempts, and as long a pause, as
\* that state has.
LEMMA QueryKeepsAttempts ==
    ASSUME AttemptsInv, NEW q \in Queries,
           NEW s \in QueryStates, NEW n \in 0..MaxAttempts, NEW delay \in 0..MaxBackoff,
           s = "attempt" => n \in 1..MaxAttempts,
           s = "pause" => n \in 1..(MaxAttempts - 1) /\ delay = Backoff(n),
           query' = [query EXCEPT ![q] = s],
           attempts' = [attempts EXCEPT ![q] = n],
           pause' = [pause EXCEPT ![q] = delay]
    PROVE  AttemptsInv'
<1>1. /\ query \in [Queries -> QueryStates]
      /\ attempts \in [Queries -> 0..MaxAttempts]
      /\ pause \in [Queries -> 0..MaxBackoff]
      /\ \A r \in Queries : Attempted(r)
    BY DEF AttemptsInv
<1>2. /\ query' \in [Queries -> QueryStates]
      /\ attempts' \in [Queries -> 0..MaxAttempts]
      /\ pause' \in [Queries -> 0..MaxBackoff]
    BY <1>1
<1>3. query'[q] = s /\ attempts'[q] = n /\ pause'[q] = delay
    BY <1>1
<1>4. \A r \in Queries \ {q} :
        query'[r] = query[r] /\ attempts'[r] = attempts[r] /\ pause'[r] = pause[r]
    BY <1>1
<1>5. Attempted(q)'
    BY <1>3 DEF Attempted
<1>6. \A r \in Queries \ {q} : Attempted(r)'
    BY <1>1, <1>4 DEF Attempted
<1> QED
    BY <1>2, <1>5, <1>6 DEF AttemptsInv

\* Queries that are sent, or that leave with their call.
LEMMA GroupsKeepAttempts ==
    ASSUME AttemptsInv, NEW qs, Send(qs) \/ DropQueries(qs)
    PROVE  AttemptsInv'
<1>1. CASE Send(qs)
    BY <1>1 DEF Send, AttemptsInv, Attempted, QueryStates, MaxAttempts
<1>2. CASE DropQueries(qs)
    <2>1. PICK gone : /\ query' = [q \in Queries |-> IF q \in gone THEN "dropped" ELSE query[q]]
                      /\ attempts' = [q \in Queries |-> IF q \in gone THEN 0 ELSE attempts[q]]
                      /\ pause' = [q \in Queries |-> IF q \in gone THEN 0 ELSE pause[q]]
        BY <1>2 DEF DropQueries
    <2>2. /\ query' \in [Queries -> QueryStates]
          /\ attempts' \in [Queries -> 0..MaxAttempts]
          /\ pause' \in [Queries -> 0..MaxBackoff]
        <3>1. "dropped" \in QueryStates /\ 0 \in 0..MaxAttempts /\ 0 \in 0..MaxBackoff
            BY DEF QueryStates, MaxAttempts, MaxBackoff
        <3>2. /\ query \in [Queries -> QueryStates]
              /\ attempts \in [Queries -> 0..MaxAttempts]
              /\ pause \in [Queries -> 0..MaxBackoff]
            BY DEF AttemptsInv
        <3> QED
            BY <2>1, <3>1, <3>2
    <2>3. ASSUME NEW q \in Queries
          PROVE  Attempted(q)'
        <3>1. Attempted(q)
            BY <2>3 DEF AttemptsInv
        <3>2. CASE q \in gone
            <4>1. query'[q] = "dropped"
                BY <2>1, <2>3, <3>2
            <4> QED
                BY <4>1 DEF Attempted
        <3>3. CASE q \notin gone
            <4>1. query'[q] = query[q] /\ attempts'[q] = attempts[q] /\ pause'[q] = pause[q]
                BY <2>1, <2>3, <3>3
            <4> QED
                BY <3>1, <4>1 DEF Attempted
        <3> QED
            BY <3>2, <3>3
    <2> QED
        BY <2>2, <2>3 DEF AttemptsInv
<1> QED
    BY <1>1, <1>2

\* One query is answered, given up, put off or attempted again.
LEMMA RetryKeepsAttempts ==
    ASSUME AttemptsInv, NEW q \in Queries, RetryStep(q)
    PROVE  AttemptsInv'
<1>1. ASSUME NEW state \in QueryStates \ {"attempt", "pause"}, Settle(q, state)
      PROVE  AttemptsInv'
    <2>1. 0 \in 0..MaxAttempts /\ 0 \in 0..MaxBackoff
        BY DEF MaxAttempts, MaxBackoff
    <2> QED
        BY <1>1, <2>1, QueryKeepsAttempts DEF Settle
<1>2. CASE query[q] = "attempt" /\ attempts[q] < MaxAttempts /\ Pause(q, Backoff(attempts[q]))
    <2>1. attempts[q] \in 1..(MaxAttempts - 1)
        BY <1>2 DEF AttemptsInv, Attempted, MaxAttempts
    <2>2. Backoff(attempts[q]) \in 0..MaxBackoff
        BY <2>1, Backoffs
    <2> QED
        BY <1>2, <2>1, <2>2 DEF Pause, AttemptsInv, Attempted, QueryStates
<1>3. CASE AttemptAgain(q)
    <2>1. attempts[q] \in 1..(MaxAttempts - 1)
        BY <1>3 DEF AttemptAgain, AttemptsInv, Attempted
    <2>2. /\ attempts[q] + 1 \in 1..MaxAttempts /\ attempts[q] + 1 \in 0..MaxAttempts
          /\ 0 \in 0..MaxBackoff /\ "attempt" \in QueryStates
        BY <2>1 DEF MaxAttempts, MaxBackoff, QueryStates
    <2> QED
        BY <1>3, <2>2, QueryKeepsAttempts DEF AttemptAgain
<1> QED
    BY <1>1, <1>2, <1>3 DEF RetryStep, AttemptSucceeds, AttemptFails, GiveUp, QueryStates

LEMMA AttemptsInit == Init => AttemptsInv
BY DEF Init, RetryInit, AttemptsInv, Attempted, QueryStates, MaxAttempts, MaxBackoff

LEMMA AttemptsNext == AttemptsInv /\ [Next]_outgoingVars => AttemptsInv'
<1> SUFFICES ASSUME AttemptsInv, [Next]_outgoingVars PROVE AttemptsInv'
    OBVIOUS
<1>1. ASSUME UNCHANGED retryVars PROVE AttemptsInv'
    BY <1>1 DEF retryVars, AttemptsInv, Attempted
<1>2. ASSUME NEW c \in Calls, Start(c) \/ Accept(c) \/ Drop(c) PROVE AttemptsInv'
    <2>1. \E qs : Send(qs) \/ DropQueries(qs)
        BY <1>2 DEF Start, Accept, Drop
    <2> QED
        BY <2>1, GroupsKeepAttempts
<1>3. ASSUME NEW c \in Calls, Query(c) PROVE AttemptsInv'
    <2>1. PICK q \in Own(c) : RetryStep(q)
        BY <1>3 DEF Query, Own
    <2> QED
        BY <2>1, QueriesApart, RetryKeepsAttempts
<1>4. ASSUME NEW c \in Calls, Refuse(c) \/ Collect(c) \/ Return(c) \/ SignRemote(c)
      PROVE  UNCHANGED retryVars
    BY <1>4 DEF Refuse, Collect, Return, SignRemote
<1>5. CASE Service \/ Quiet \/ UNCHANGED outgoingVars
    BY <1>1, <1>5 DEF Service, Quiet, outgoingVars
<1> QED
    BY <1>1, <1>2, <1>3, <1>4, <1>5 DEF Next, Progress

\* No query is attempted more than MaxAttempts times, however queries, pauses
\* and dropped callers interleave.
THEOREM AttemptsBounded == Spec => []AttemptsInv
BY AttemptsInit, AttemptsNext, PTL DEF Spec

\* Every variable of the retries and of the remote signer has its type, for
\* any number of calls, queries and keys.
THEOREM OutgoingTypes == Spec => []OutgoingTypeOK
<1>1. Inv /\ AttemptsInv => OutgoingTypeOK
    BY DEF Inv, SigningInv, QueryInv, QueryTypes, AttemptsInv, OutgoingTypeOK, RetryTypeOK
<1> QED
    BY <1>1, InvariantHolds, AttemptsBounded, PTL

\* No pause is the one that is documented, not of any query of any call: each
\* is longer, the first by 200 ms and the second by 1.6 s.
THEOREM PausesAreLonger ==
    Spec => [](\A q \in Queries : query[q] = "pause" => pause[q] > DocumentedBackoff(attempts[q]))
<1>1. DocumentedBackoff(1) = 200 /\ DocumentedBackoff(2) = 400
    <2>1. 2 ^ (1 - 1) = 1 /\ 2 ^ (2 - 1) = 2
        OBVIOUS
    <2> QED
        BY <2>1 DEF DocumentedBackoff, MaxBackoff
<1>2. ASSUME AttemptsInv, NEW q \in Queries, query[q] = "pause"
      PROVE  pause[q] > DocumentedBackoff(attempts[q])
    <2>1. attempts[q] = 1 \/ attempts[q] = 2
        BY <1>2 DEF AttemptsInv, Attempted, MaxAttempts
    <2>2. pause[q] = Backoff(attempts[q])
        BY <1>2 DEF AttemptsInv, Attempted
    <2> QED
        BY <1>1, <2>1, <2>2, Backoffs
<1>3. AttemptsInv =>
        \A q \in Queries : query[q] = "pause" => pause[q] > DocumentedBackoff(attempts[q])
    BY <1>2
<1> QED
    BY <1>3, AttemptsBounded, PTL
-----------------------------------------------------------------------------
(***************************************************************************)
(* Requests are not repeated                                               *)
(***************************************************************************)

\* The measure of a query, state by state.
LEMMA QueryStepsLeftIs ==
    ASSUME NEW q
    PROVE  /\ query[q] = "unsent" => QueryStepsLeft(q) = 2 * MaxAttempts
           /\ query[q] = "attempt" => QueryStepsLeft(q) = 2 * (MaxAttempts - attempts[q]) + 1
           /\ query[q] = "pause" => QueryStepsLeft(q) = 2 * (MaxAttempts - attempts[q])
           /\ query[q] \in {"answered", "unusable", "failed", "dropped"} => QueryStepsLeft(q) = 0
BY DEF QueryStepsLeft

LEMMA QueryStepsLeftBecomes ==
    ASSUME NEW q
    PROVE  /\ query'[q] = "attempt" =>
                QueryStepsLeft(q)' = 2 * (MaxAttempts - attempts'[q]) + 1
           /\ query'[q] = "pause" => QueryStepsLeft(q)' = 2 * (MaxAttempts - attempts'[q])
           /\ query'[q] \in {"answered", "unusable", "failed", "dropped"} =>
                QueryStepsLeft(q)' = 0
BY DEF QueryStepsLeft, MaxAttempts

\* What may become of a query in a step.
Becomes(q) ==
    \/ query'[q] = query[q] /\ attempts'[q] = attempts[q]
    \/ query[q] = "unsent" /\ query'[q] = "attempt" /\ attempts'[q] = 1
    \/ query[q] = "attempt" /\ query'[q] = "pause" /\ attempts'[q] = attempts[q]
    \/ query[q] = "pause" /\ query'[q] = "attempt" /\ attempts'[q] = attempts[q] + 1
    \/ UnderWay(q) /\ query'[q] \in {"answered", "unusable", "failed", "dropped"}

LEMMA BecomesAdvances ==
    ASSUME AttemptsInv, NEW q \in Queries, Becomes(q)
    PROVE  \/ query'[q] = query[q] /\ attempts'[q] = attempts[q]
           \/ QueryStepsLeft(q)' < QueryStepsLeft(q)
<1>1. attempts[q] \in 0..3 /\ Attempted(q) /\ MaxAttempts = 3
    BY DEF AttemptsInv, MaxAttempts
<1>2. CASE query[q] = "unsent" /\ query'[q] = "attempt" /\ attempts'[q] = 1
    BY <1>1, <1>2, QueryStepsLeftIs, QueryStepsLeftBecomes
<1>3. CASE query[q] = "attempt" /\ query'[q] = "pause" /\ attempts'[q] = attempts[q]
    BY <1>1, <1>3, QueryStepsLeftIs, QueryStepsLeftBecomes
<1>4. CASE query[q] = "pause" /\ query'[q] = "attempt" /\ attempts'[q] = attempts[q] + 1
    BY <1>1, <1>4, QueryStepsLeftIs, QueryStepsLeftBecomes
<1>5. CASE UnderWay(q) /\ query'[q] \in {"answered", "unusable", "failed", "dropped"}
    <2>1. QueryStepsLeft(q)' = 0
        BY <1>5, QueryStepsLeftBecomes
    <2>2. QueryStepsLeft(q) > 0
        BY <1>1, <1>5, QueryStepsLeftIs DEF UnderWay, Attempted
    <2> QED
        BY <2>1, <2>2
<1> QED
    BY <1>2, <1>3, <1>4, <1>5 DEF Becomes

\* One query is answered, given up, put off or attempted again.
LEMMA RetryBecomes ==
    ASSUME AttemptsInv, NEW q \in Queries, RetryStep(q), NEW r \in Queries
    PROVE  Becomes(r)
<1> USE DEF AttemptsInv, Becomes
<1>1. CASE AttemptSucceeds(q)
    BY <1>1 DEF AttemptSucceeds, Settle, UnderWay
<1>2. CASE AttemptFails(q)
    BY <1>2 DEF AttemptFails, Pause, GiveUp, Settle, UnderWay
<1>3. CASE AttemptAgain(q)
    BY <1>3 DEF AttemptAgain
<1> QED
    BY <1>1, <1>2, <1>3 DEF RetryStep

\* Queries are sent once: those of a later stage have not been sent before.
LEMMA QueriesBecome ==
    ASSUME Inv, AttemptsInv, [Next]_outgoingVars, NEW q \in Queries
    PROVE  Becomes(q)
<1>1. ASSUME NEW c \in Calls, Start(c) \/ Accept(c) PROVE Becomes(q)
    <2>1. PICK qs : Send(qs) /\ \A r \in qs : query[r] = "unsent"
        BY <1>1 DEF Start, Accept, Inv, QueryInv, CallQueries
    <2> QED
        BY <2>1 DEF Send, Becomes
<1>2. ASSUME NEW c \in Calls, Drop(c) PROVE Becomes(q)
    <2>1. PICK gone :
            /\ \A r \in gone : UnderWay(r)
            /\ query' = [r \in Queries |-> IF r \in gone THEN "dropped" ELSE query[r]]
            /\ attempts' = [r \in Queries |-> IF r \in gone THEN 0 ELSE attempts[r]]
        BY <1>2 DEF Drop, DropQueries
    <2> QED
        BY <2>1 DEF Becomes
<1>3. ASSUME NEW c \in Calls, Query(c) PROVE Becomes(q)
    <2>1. PICK r \in Own(c) : RetryStep(r)
        BY <1>3 DEF Query, Own
    <2> QED
        BY <2>1, QueriesApart, RetryBecomes
<1>4. ASSUME UNCHANGED retryVars PROVE Becomes(q)
    BY <1>4 DEF retryVars, Becomes
<1>5. ASSUME NEW c \in Calls, Refuse(c) \/ Collect(c) \/ Return(c) \/ SignRemote(c)
      PROVE  UNCHANGED retryVars
    BY <1>5 DEF Refuse, Collect, Return, SignRemote
<1>6. CASE Service \/ Quiet \/ UNCHANGED outgoingVars
    BY <1>4, <1>6 DEF Service, Quiet, outgoingVars
<1> QED
    BY <1>1, <1>2, <1>3, <1>4, <1>5, <1>6 DEF Next, Progress

\* The signing of a call goes from one position to a later one.
LEMMA MoveAdvances ==
    ASSUME signing \in [Calls -> SigningStates], NEW c \in Calls, NEW s, Move(c, s),
           \/ signing[c] = "off" /\ s = "connect"
           \/ signing[c] = "connect" /\ s \in {"token", "wallet"}
           \/ signing[c] = "token" /\ s = "wallet"
           \/ signing[c] = "wallet" /\ s = "request"
           \/ Awaiting(c) /\ s \in {"signed", "failed", "dropped"},
           NEW d \in Calls
    PROVE  signing'[d] = signing[d] \/ SigningStepsLeft(d)' < SigningStepsLeft(d)
<1>1. signing'[c] = s /\ (d # c => signing'[d] = signing[d])
    BY DEF Move
<1>2. SigningStepsLeft(c)' < SigningStepsLeft(c)
    BY <1>1 DEF SigningStepsLeft, Awaiting
<1> QED
    BY <1>1, <1>2

LEMMA SigningAdvances ==
    ASSUME Inv, [Next]_outgoingVars, NEW d \in Calls
    PROVE  signing'[d] = signing[d] \/ SigningStepsLeft(d)' < SigningStepsLeft(d)
<1>0. signing \in [Calls -> SigningStates]
    BY DEF Inv, SigningInv, SignerTypeOK
<1>1. ASSUME NEW c \in Calls, BeginSigning(c) \/ SignStep(c)
      PROVE  signing'[d] = signing[d] \/ SigningStepsLeft(d)' < SigningStepsLeft(d)
    <2>1. PICK s :
            /\ Move(c, s)
            /\ \/ signing[c] = "off" /\ s = "connect"
               \/ signing[c] = "connect" /\ s \in {"token", "wallet"}
               \/ signing[c] = "token" /\ s = "wallet"
               \/ signing[c] = "wallet" /\ s = "request"
               \/ Awaiting(c) /\ s \in {"signed", "failed", "dropped"}
        <3>1. CASE BeginSigning(c) \/ ReadToken(c) \/ GetWallet(c)
            BY <3>1 DEF BeginSigning, ReadToken, GetWallet
        <3>2. CASE Connect(c)
            BY <3>2 DEF Connect
        <3>3. CASE ReceiveAnswer(c) \/ SignerFails(c)
            BY <3>3 DEF ReceiveAnswer, SignerFails, Awaiting
        <3> QED
            BY <1>1, <3>1, <3>2, <3>3 DEF SignStep
    <2> QED
        BY <1>0, <2>1, MoveAdvances
<1>2. ASSUME NEW c \in Calls, DropSigning(c)
      PROVE  signing'[d] = signing[d] \/ SigningStepsLeft(d)' < SigningStepsLeft(d)
    <2>1. CASE Awaiting(c)
        <3>1. Move(c, "dropped")
            BY <1>2, <2>1 DEF DropSigning, Move
        <3> QED
            BY <1>0, <2>1, <3>1, MoveAdvances
    <2>2. CASE ~Awaiting(c)
        BY <1>0, <1>2, <2>2 DEF DropSigning
    <2> QED
        BY <2>1, <2>2
<1>3. CASE UNCHANGED signing
    BY <1>3
<1>4. ServiceStep \/ UNCHANGED signerVars => UNCHANGED signing
    BY DEF ServiceStep, RotateKey, ServiceSigns, signerVars
<1> QED
    BY <1>1, <1>2, <1>3, <1>4, StepsOfParts DEF Inv

\* No query is attempted again once it has been answered, given up or left,
\* and no step of the signing is tried twice, for any number of calls and
\* queries: retries stay in the helper and end there.
THEOREM RequestsAdvance == Spec => EveryRequestAdvances
<1>1. ASSUME Inv, AttemptsInv, [Next]_outgoingVars
      PROVE  /\ \A q \in Queries :
                    <<query[q], attempts[q]>>' # <<query[q], attempts[q]>> =>
                        QueryStepsLeft(q)' < QueryStepsLeft(q)
             /\ \A c \in Calls :
                    signing[c]' # signing[c] => SigningStepsLeft(c)' < SigningStepsLeft(c)
    <2>1. ASSUME NEW q \in Queries, <<query[q], attempts[q]>>' # <<query[q], attempts[q]>>
          PROVE  QueryStepsLeft(q)' < QueryStepsLeft(q)
        BY <1>1, <2>1, QueriesBecome, BecomesAdvances
    <2>2. \A c \in Calls :
            signing[c]' # signing[c] => SigningStepsLeft(c)' < SigningStepsLeft(c)
        BY <1>1, SigningAdvances
    <2> QED
        BY <2>1, <2>2
<1> QED
    BY <1>1, InvariantHolds, AttemptsBounded, PTL DEF Spec, EveryRequestAdvances
-----------------------------------------------------------------------------
(***************************************************************************)
(* What an attestation waits for                                           *)
(***************************************************************************)
Gone == {"unsent", "dropped"}

\* What a call waits for has been sent and has not been taken away.
CallWaits(c) ==
    /\ stage[c] \in {"idle", "height", "checks"} => signing[c] = "off"
    /\ stage[c] = "height" => query[Height(c)] \notin Gone
    /\ stage[c] = "checks" => \A q \in Details(c) : query[q] \notin Gone
    /\ stage[c] = "signing" => signing[c] \notin {"off", "dropped"}

WaitInv == Inv /\ \A c \in Calls : CallWaits(c)

\* A step that leaves a call and its queries alone.
LEMMA CallWaitsKept ==
    ASSUME NEW d, CallWaits(d), stage'[d] = stage[d], signing'[d] = signing[d],
           \A q \in Own(d) : query'[q] = query[q]
    PROVE  CallWaits(d)'
BY DEF CallWaits, Own, Gone, Height, Details

\* No step of a call touches the queries or the signing of another.
LEMMA OthersWait ==
    ASSUME WaitInv, NEW c \in Calls, Start(c) \/ Progress(c) \/ Drop(c), NEW d \in Calls \ {c}
    PROVE  CallWaits(d)'
<1>1. /\ stage \in [Calls -> Stages] /\ signing \in [Calls -> SigningStates]
      /\ query \in [Queries -> QueryStates]
    BY DEF WaitInv, Inv, QueryInv, QueryTypes, SigningInv, SignerTypeOK
<1>2. Own(d) \subseteq Queries /\ Own(c) \subseteq Queries /\ Own(c) \cap Own(d) = {}
    BY QueriesApart
<1>3. CASE Start(c) \/ Accept(c)
    <2>1. PICK qs : /\ qs \subseteq Own(c) /\ Send(qs) /\ UNCHANGED signing
                    /\ \E s : Enter(c, s)
        BY <1>3 DEF Start, Accept, Own, signerVars
    <2> QED
        BY <1>1, <1>2, <2>1, CallWaitsKept DEF WaitInv, Send, Enter
<1>4. CASE Refuse(c) \/ Collect(c) \/ Return(c)
    <2>1. /\ UNCHANGED query /\ \E s : Enter(c, s)
          /\ UNCHANGED signing \/ BeginSigning(c)
        BY <1>4 DEF Refuse, Collect, Return, retryVars, signerVars
    <2>2. stage'[d] = stage[d] /\ signing'[d] = signing[d]
        BY <1>1, <2>1 DEF Enter, BeginSigning, Move
    <2> QED
        BY <1>2, <2>1, <2>2, CallWaitsKept DEF WaitInv
<1>5. CASE Query(c)
    <2>1. PICK q \in Own(c) : RetryStep(q)
        BY <1>5 DEF Query, Own
    <2>2. \A r \in Queries \ {q} : query'[r] = query[r]
        BY <1>1, <2>1 DEF RetryStep, AttemptSucceeds, AttemptFails, AttemptAgain, Pause,
                          GiveUp, Settle
    <2> QED
        BY <1>2, <1>5, <2>1, <2>2, CallWaitsKept DEF WaitInv, Query, signerVars
<1>6. CASE SignRemote(c)
    <2>1. UNCHANGED <<stage, query>> /\ \E s : Move(c, s)
        BY <1>6 DEF SignRemote, SignStep, Connect, ReadToken, GetWallet, ReceiveAnswer,
                    SignerFails, retryVars
    <2> QED
        BY <1>1, <2>1, CallWaitsKept DEF WaitInv, Move
<1>7. CASE Drop(c)
    <2>1. PICK gone : /\ gone \subseteq Own(c)
                      /\ query' = [q \in Queries |-> IF q \in gone THEN "dropped" ELSE query[q]]
        BY <1>7 DEF Drop, DropQueries, Own
    <2>2. stage'[d] = stage[d] /\ signing'[d] = signing[d]
        BY <1>1, <1>7 DEF Drop, Enter, DropSigning
    <2> QED
        BY <1>2, <2>1, <2>2, CallWaitsKept DEF WaitInv
<1> QED
    BY <1>3, <1>4, <1>5, <1>6, <1>7 DEF Progress

\* Whatever a call does, it waits for what it has sent.
LEMMA MoverWaits ==
    ASSUME WaitInv, NEW c \in Calls, Start(c) \/ Progress(c) \/ Drop(c)
    PROVE  CallWaits(c)'
<1>1. /\ stage \in [Calls -> Stages] /\ signing \in [Calls -> SigningStates]
      /\ query \in [Queries -> QueryStates] /\ CallWaits(c)
    BY DEF WaitInv, Inv, QueryInv, QueryTypes, SigningInv, SignerTypeOK
<1>2. Own(c) \subseteq Queries /\ Height(c) \in Queries /\ Details(c) \subseteq Queries
    BY QueriesApart DEF Own
<1>3. CASE Start(c)
    <2>1. stage'[c] = "height" /\ signing'[c] = "off" /\ query'[Height(c)] = "attempt"
        BY <1>1, <1>2, <1>3 DEF Start, Enter, Send, CallWaits, signerVars
    <2> QED
        BY <2>1 DEF CallWaits, Gone, Height
<1>4. CASE Accept(c)
    <2>1. /\ stage'[c] = "checks" /\ signing'[c] = "off"
          /\ \A q \in Details(c) : query'[q] = "attempt"
        BY <1>1, <1>2, <1>4 DEF Accept, Enter, Send, CallWaits, signerVars
    <2> QED
        BY <2>1 DEF CallWaits, Gone, Details
<1>5. CASE stage'[c] \in {"failed", "returned", "dropped"}
    BY <1>5 DEF CallWaits
<1>6. CASE Enter(c, "signing") /\ BeginSigning(c)
    <2>1. stage'[c] = "signing" /\ signing'[c] = "connect"
        BY <1>1, <1>6 DEF Enter, BeginSigning, Move
    <2> QED
        BY <2>1 DEF CallWaits
<1>7. CASE Query(c)
    <2>1. PICK q \in Own(c) : RetryStep(q)
        BY <1>7 DEF Query, Own
    <2>2. \A r \in Queries : query'[r] = query[r] \/ query'[r] \notin Gone
        BY <1>1, <2>1 DEF RetryStep, AttemptSucceeds, AttemptFails, AttemptAgain, Pause,
                          GiveUp, Settle, Gone
    <2>3. UNCHANGED <<stage, signing>>
        BY <1>7 DEF Query, signerVars
    <2> QED
        BY <1>1, <1>2, <2>2, <2>3 DEF CallWaits, Height, Details, Gone
<1>8. CASE SignRemote(c)
    <2>1. /\ UNCHANGED <<stage, query>> /\ signing[c] # "off"
          /\ \E s \in SigningStates \ {"off", "dropped"} : Move(c, s)
        BY <1>8 DEF SignRemote, SignStep, Connect, ReadToken, GetWallet, ReceiveAnswer,
                    SignerFails, Awaiting, SigningStates, retryVars
    <2>2. signing'[c] \notin {"off", "dropped"}
        BY <1>1, <2>1 DEF Move
    <2> QED
        BY <1>1, <2>1, <2>2 DEF CallWaits
<1>9. Refuse(c) \/ Return(c) \/ Drop(c) => stage'[c] \in {"failed", "returned", "dropped"}
    BY <1>1 DEF Refuse, Return, Drop, Enter
<1>10. Collect(c) => \/ stage'[c] \in {"failed", "returned", "dropped"}
                     \/ Enter(c, "signing") /\ BeginSigning(c)
    BY <1>1 DEF Collect, Enter
<1> QED
    BY <1>3, <1>4, <1>5, <1>6, <1>7, <1>8, <1>9, <1>10 DEF Progress

LEMMA WaitInit == Init => WaitInv
<1> SUFFICES ASSUME Init PROVE WaitInv
    OBVIOUS
<1>1. \A c \in Calls : CallWaits(c)
    BY DEF Init, SignerInit, CallWaits
<1> QED
    BY <1>1, InitInv DEF WaitInv

LEMMA WaitNext == WaitInv /\ [Next]_outgoingVars => WaitInv'
<1> SUFFICES ASSUME WaitInv, [Next]_outgoingVars PROVE WaitInv'
    OBVIOUS
<1>1. Inv'
    BY NextInv DEF WaitInv
<1>2. ASSUME NEW c \in Calls, Start(c) \/ Progress(c) \/ Drop(c)
      PROVE  \A d \in Calls : CallWaits(d)'
    BY <1>2, MoverWaits, OthersWait
<1>3. CASE Service \/ Quiet \/ UNCHANGED outgoingVars
    <2>1. UNCHANGED <<stage, signing, query>>
        BY <1>3 DEF Service, ServiceStep, RotateKey, ServiceSigns, Quiet, outgoingVars,
                    signerVars, retryVars
    <2>2. \A d \in Calls : CallWaits(d)'
        BY <2>1, CallWaitsKept DEF WaitInv
    <2> QED
        BY <1>1, <2>2 DEF WaitInv
<1> QED
    BY <1>1, <1>2, <1>3 DEF WaitInv, Next

\* Whatever queries fail, keys rotate and callers leave, an attestation that
\* is under way waits for something that has been sent and that its own call
\* alone can take away.
THEOREM AttestationsWait == Spec => []NoAttestationIsStuck
<1>1. WaitInv => NoAttestationIsStuck
    BY DEF WaitInv, CallWaits, NoAttestationIsStuck, Gone
<1> QED
    BY <1>1, WaitInit, WaitNext, PTL DEF Spec
=============================================================================
