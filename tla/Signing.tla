------------------------------ MODULE Signing -------------------------------
(***************************************************************************)
(* What a caller of Signer::sign may count on, whichever signer is         *)
(* configured: nothing is signed that no call wanted signed, and a call    *)
(* that is told of success has its signature.  Not more: a call that fails *)
(* or goes away may have its signature made before, or after.              *)
(***************************************************************************)
EXTENDS Integers

CONSTANTS Calls, Payloads

VARIABLES
    wanted,      \* the payload that each call wants signed
    signatures,  \* the payloads that a signature exists for
    outcome      \* what each call was told

signingVars == <<wanted, signatures, outcome>>

Unwanted == [kind |-> "none"]

Init ==
    /\ wanted = [c \in Calls |-> Unwanted]
    /\ signatures = {}
    /\ outcome = [c \in Calls |-> "open"]

Want(c) ==
    /\ wanted[c] = Unwanted /\ outcome[c] = "open"
    /\ wanted'[c] \in Payloads
    /\ wanted' = [wanted EXCEPT ![c] = wanted'[c]]
    /\ UNCHANGED <<signatures, outcome>>

\* The signature is made, and its call may hear of it at once.
Make(c) ==
    /\ wanted[c] # Unwanted
    /\ signatures' = signatures \cup {wanted[c]}
    /\ \/ UNCHANGED outcome
       \/ outcome[c] = "open" /\ outcome' = [outcome EXCEPT ![c] = "signed"]
    /\ UNCHANGED wanted

End(c) ==
    /\ outcome[c] = "open"
    /\ \/ wanted[c] \in signatures /\ outcome' = [outcome EXCEPT ![c] = "signed"]
       \/ outcome' = [outcome EXCEPT ![c] = "unsigned"]
    /\ UNCHANGED <<wanted, signatures>>

Next == \E c \in Calls : Want(c) \/ Make(c) \/ End(c)

Spec == Init /\ [][Next]_signingVars
=============================================================================
