------------------------------ MODULE Payload -------------------------------
(***************************************************************************)
(* What is signed: AttestationPayload binds the ABI-encoded data of an     *)
(* attestation to its type, and a verifier recovers the signer's address   *)
(* from sha256(type_tag || sha256(data)).  SHA-256 is ideal: it has no     *)
(* collisions.  Any data may come with either type.                        *)
(***************************************************************************)
EXTENDS Integers

CONSTANT Data  \* the byte strings that attestations are encoded to

AttestationTypes == {"state", "packet"}
Payloads == [type : AttestationTypes, data : Data]

AsByte(type) == IF type = "state" THEN 1 ELSE 2

Sha256(bytes) == [sha256 |-> bytes]

\* Fault: one tag for both types.
StateSigningInput(payload) == <<AsByte("state"), Sha256(payload.data)>>

\* type_tag || sha256(data).
TaggedSigningInput(payload) == <<AsByte(payload.type), Sha256(payload.data)>>

\* The signer hashes the message that it is given and signs the digest.
SignatureOf(key, message) == [key |-> key, digest |-> Sha256(message)]

\* A verifier that is shown data as an attestation of a type, and expects
\* the signature of a key.
Verifies(signature, payload, key) ==
    signature = [key |-> key,
                 digest |-> Sha256(<<AsByte(payload.type), Sha256(payload.data)>>)]
=============================================================================
