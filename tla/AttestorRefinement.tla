------------------------- MODULE AttestorRefinement -------------------------
(***************************************************************************)
(* The service implements the notary.  A call is told of nothing until it  *)
(* returns; every error is a refusal; what has been read on the way to a   *)
(* reply does not show.                                                    *)
(***************************************************************************)
EXTENDS Attestor

Told ==
    [c \in Calls |->
        IF pc[c] = "dropped" THEN [code |-> "gone"]
        ELSE IF reply[c].code \in {"ok", "none"} THEN reply[c]
        ELSE [code |-> "refused"]]

N == INSTANCE Notary WITH asked <- req, told <- Told

\* The three RPCs, with their awaits, concurrent checks, lagging nodes and
\* lost signatures, are atomic to their callers: every reply is one that an
\* attestor could have given that looked at the chain once, at the moment of
\* the reply, and every signature, also one that no caller received, is of a
\* statement that is true and valid for its request (README.md:36-42: packet
\* commitments match, acknowledgements exist, receipts are absent).
ImplementsNotary == N!Spec

Outcome ==
    [c \in Calls |->
        IF pc[c] \in Ended
        THEN IF draft[c] # NoDraft /\ reply[c].code = "ok" THEN "signed" ELSE "unsigned"
        ELSE "open"]

S == INSTANCE Signing
        WITH Payloads <- Attestations, wanted <- draft, signatures <- signed, outcome <- Outcome

\* Of its signer the service uses no more than Signing promises and the remote
\* signer is shown to do (Outgoing, ImplementsSigning): it hands over each
\* draft once, replies only with an attestation that has its signature, and
\* counts on nothing when a call has failed or was dropped.
UsesSigner == S!Spec
=============================================================================
