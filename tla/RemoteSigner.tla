---------------------------- MODULE RemoteSigner ----------------------------
(***************************************************************************)
(* RemoteSigner::sign: each call opens a connection to the signing         *)
(* service, reads the bearer token, looks the wallet up and sends one      *)
(* request to sign.  The service is external: it may sign after its client *)
(* has given up, may never sign, may answer in a form that is of no use,   *)
(* and rotates the key of the wallet.                                      *)
(***************************************************************************)
EXTENDS Payload, Sequences

CONSTANTS
    Calls,
    TokenConfigured,  \* is there a service_account_token_path?
    MaxKeys           \* bound: how many keys the wallet has, one after another

ASSUME RemoteSignerAssumption == TokenConfigured \in BOOLEAN /\ MaxKeys \in Nat \ {0}

VARIABLES
    signing,  \* where the signing of each call stands
    payload,  \* what it wants signed
    since,    \* the key of the wallet when it began
    key,      \* the service: the current key of the wallet
    inbox,    \* the service: messages received for each call and not yet looked at
    log,      \* the service: the signatures it made for each call
    answer,   \* its answer that is on the way
    result    \* the signature that sign returned

signerVars == <<signing, payload, since, key, inbox, log, answer, result>>

NoPayload == [kind |-> "none"]
NoSignature == [key |-> 0]
NoAnswer == [form |-> "none", signature |-> NoSignature]

\* Forms of an answer: a recoverable signature of 65 bytes, one with a byte
\* less (a leading zero left out), one with an invalid recovery id, the
\* signature of a transaction (which has an r, an s and a v as well), a
\* signature of another kind, none at all.
Forms == {"recoverable", "short", "bad_parity", "evm_transaction", "other_kind", "empty"}

\* What the bytes of an answer are, taken for the signature asked for: only
\* one form gives it.
Carried(form, signature) == IF form = "recoverable" THEN signature ELSE NoSignature

\* Faults: whatever has an r, an s and a v is taken, and what is too short is
\* filled up with zeros.
AcceptableByFields(form) == form \in {"recoverable", "evm_transaction"}
AcceptableFilledUp(form) == form \in {"recoverable", "short"}

Acceptable(form) == form = "recoverable"

SigningStates ==
    {"off", "connect", "token", "wallet", "request", "signed", "failed", "dropped"}

\* Signing that waits for the service or for the token file.
Awaiting(c) == signing[c] \in {"connect", "token", "wallet", "request"}

SignerInit ==
    /\ signing = [c \in Calls |-> "off"]
    /\ payload = [c \in Calls |-> NoPayload]
    /\ since = [c \in Calls |-> 0]
    /\ key = 1
    /\ inbox = [c \in Calls |-> <<>>]
    /\ log = [c \in Calls |-> <<>>]
    /\ answer = [c \in Calls |-> NoAnswer]
    /\ result = [c \in Calls |-> NoSignature]

Move(c, state) == signing' = [signing EXCEPT ![c] = state]

BeginSigning(c) ==
    /\ signing[c] = "off"
    /\ \E p \in Payloads : payload' = [payload EXCEPT ![c] = p]
    /\ since' = [since EXCEPT ![c] = key]
    /\ Move(c, "connect")
    /\ UNCHANGED <<key, inbox, log, answer, result>>

Connect(c) ==
    /\ signing[c] = "connect"
    /\ Move(c, IF TokenConfigured THEN "token" ELSE "wallet")
    /\ UNCHANGED <<payload, since, key, inbox, log, answer, result>>

\* load_bearer_header: the file is read anew for every connection, whatever
\* it holds at that moment; SignerFails says what else may come of it.
ReadToken(c) ==
    /\ signing[c] = "token"
    /\ Move(c, "wallet")
    /\ UNCHANGED <<payload, since, key, inbox, log, answer, result>>

\* get_wallet answers, and the message is sent to be signed by that wallet:
\* the request has the id of the wallet, and nothing of its key.
GetWallet(c) ==
    /\ signing[c] = "wallet"
    /\ inbox' = [inbox EXCEPT ![c] = Append(@, TaggedSigningInput(payload[c]))]
    /\ Move(c, "request")
    /\ UNCHANGED <<payload, since, key, log, answer, result>>

ReceiveAnswer(c) ==
    /\ signing[c] = "request" /\ answer[c] # NoAnswer
    /\ \/ /\ Acceptable(answer[c].form)
          /\ result' = [result EXCEPT ![c] = answer[c].signature]
          /\ Move(c, "signed")
       \/ /\ ~Acceptable(answer[c].form)
          /\ Move(c, "failed")
          /\ UNCHANGED result
    /\ UNCHANGED <<payload, since, key, inbox, log, answer>>

\* Fault: what fails is tried once more, as the queries of the chain are.
SignerFailsRetried(c) ==
    /\ Awaiting(c)
    /\ Move(c, IF signing[c] = "request" THEN "wallet" ELSE "failed")
    /\ UNCHANGED <<payload, since, key, inbox, log, answer, result>>

\* No connection; no token, or an empty or invalid one; no such wallet; an
\* error of the service, or no answer within the 30 seconds of an RPC.
SignerFails(c) ==
    /\ Awaiting(c)
    /\ Move(c, "failed")
    /\ UNCHANGED <<payload, since, key, inbox, log, answer, result>>

DropSigning(c) ==
    /\ signing' = [signing EXCEPT ![c] = IF Awaiting(c) THEN "dropped" ELSE @]
    /\ UNCHANGED <<payload, since, key, inbox, log, answer, result>>

(***************************************************************************)
(* The signing service                                                     *)
(***************************************************************************)

\* It signs with the key that the wallet has by the time it looks at the
\* request, and answers in any form.
ServiceSigns(c) ==
    /\ inbox[c] # <<>>
    /\ inbox' = [inbox EXCEPT ![c] = Tail(@)]
    /\ LET signature == SignatureOf(key, Head(inbox[c]))
       IN  /\ log' = [log EXCEPT ![c] = Append(@, signature)]
           /\ \E form \in Forms :
                answer' = [answer EXCEPT ![c] =
                            [form |-> form, signature |-> Carried(form, signature)]]
    /\ UNCHANGED <<signing, payload, since, key, result>>

RotateKey ==
    /\ key < MaxKeys
    /\ key' = key + 1
    /\ UNCHANGED <<signing, payload, since, inbox, log, answer, result>>

SignStep(c) == Connect(c) \/ ReadToken(c) \/ GetWallet(c) \/ ReceiveAnswer(c) \/ SignerFails(c)

ServiceStep == RotateKey \/ \E c \in Calls : ServiceSigns(c)

-----------------------------------------------------------------------------

Messages == {TaggedSigningInput(p) : p \in Payloads}
Signatures == {SignatureOf(k, m) : k \in 1..MaxKeys, m \in Messages}

SignerTypeOK ==
    /\ signing \in [Calls -> SigningStates]
    /\ payload \in [Calls -> Payloads \cup {NoPayload}]
    /\ since \in [Calls -> 0..MaxKeys]
    /\ key \in 1..MaxKeys
    /\ inbox \in [Calls -> Seq(Messages)]
    /\ log \in [Calls -> Seq(Signatures)]
    /\ answer \in [Calls -> [form : Forms, signature : Signatures \cup {NoSignature}] \cup {NoAnswer}]
    /\ result \in [Calls -> Signatures \cup {NoSignature}]

\* The domain separation of attestation_payload.rs:3-7: a signature that the
\* service has made, for a caller that is still there or not, is accepted by
\* verifiers as a state or as a packet attestation of some data only if a
\* call wanted exactly that type and that data signed.
SignaturesBindTypeAndData ==
    \A c \in Calls : \A i \in DOMAIN log[c] : \A p \in Payloads :
        (\E k \in 1..MaxKeys : Verifies(log[c][i], p, k)) => payload[c] = p

\* A call has one signature made at most: RPC queries are retried, requests
\* to sign are not, and what a call left behind is signed once.
SignedAtMostOnce == \A c \in Calls : Len(log[c]) + Len(inbox[c]) <= 1

\* Does the result verify for what was wanted, under a key that the wallet has
\* had since?
Usable(c) == \E k \in since[c]..key : Verifies(result[c], payload[c], k)

\* What sign returns as a success verifies for what it was given, under a key
\* that the wallet had while the call lasted: no answer that is missing, cut
\* or of another kind is passed on, and a rotation between the lookup, the
\* request and the answer does no harm.
ReturnedSignatureVerifies == \A c \in Calls : signing[c] = "signed" => Usable(c)
=============================================================================
