------------------------------ MODULE Keystore ------------------------------
(***************************************************************************)
(* The keystore file and the commands that touch it: `key generate` looks  *)
(* whether the file exists, creates it empty and then writes the encrypted *)
(* key; `key show` and the local signer of a server read it.  Nothing      *)
(* locks the file, and a command may fail between any two of its steps.    *)
(***************************************************************************)
EXTENDS Integers, FiniteSets

CONSTANT Operators  \* those who run `key generate`, each with a key of its own

VARIABLES
    file,        \* what the keystore file holds: nothing, half a key, a key
    generating,  \* where each `key generate` stands
    known,       \* the keys that were reported as saved, shown or loaded
    overlapped   \* have two runs of `key generate` overlapped?

keystoreVars == <<file, generating, known, overlapped>>

Absent == "absent"
Torn == "torn"

ASSUME KeystoreAssumption == {Absent, Torn} \cap Operators = {}

\* Runs of `key generate` that found no file and are not finished.
Busy == {o \in Operators : generating[o] \in {"checked", "created"}}

KeystoreInit ==
    /\ file = Absent
    /\ generating = [o \in Operators |-> "idle"]
    /\ known = {}
    /\ overlapped = FALSE

\* Faults: a file that holds no whole key counts as none; the file is not
\* looked for.
CheckReadable(o) ==
    /\ generating[o] = "idle"
    /\ \/ /\ file \in Operators
          /\ generating' = [generating EXCEPT ![o] = "aborted"]
          /\ UNCHANGED overlapped
       \/ /\ file \notin Operators
          /\ generating' = [generating EXCEPT ![o] = "checked"]
          /\ overlapped' = (overlapped \/ Busy # {})
    /\ UNCHANGED <<file, known>>

CheckNothing(o) ==
    /\ generating[o] = "idle"
    /\ generating' = [generating EXCEPT ![o] = "checked"]
    /\ overlapped' = (overlapped \/ Busy # {})
    /\ UNCHANGED <<file, known>>

\* "key pair already found; aborting", for any file of that name.
Check(o) ==
    /\ generating[o] = "idle"
    /\ \/ /\ file # Absent
          /\ generating' = [generating EXCEPT ![o] = "aborted"]
          /\ UNCHANGED overlapped
       \/ /\ file = Absent
          /\ generating' = [generating EXCEPT ![o] = "checked"]
          /\ overlapped' = (overlapped \/ Busy # {})
    /\ UNCHANGED <<file, known>>

\* The file is created, or emptied if there is one by now.
Create(o) ==
    /\ generating[o] = "checked"
    /\ generating' = [generating EXCEPT ![o] = "created"]
    /\ file' = Torn
    /\ UNCHANGED <<known, overlapped>>

\* The whole key is written, and reported as saved.
Write(o) ==
    /\ generating[o] = "created"
    /\ generating' = [generating EXCEPT ![o] = "saved"]
    /\ file' = o
    /\ known' = known \cup {o}
    /\ UNCHANGED overlapped

\* A full disk, or a command that is killed.
GenerateFails(o) ==
    /\ o \in Busy
    /\ generating' = [generating EXCEPT ![o] = "failed"]
    /\ UNCHANGED <<file, known, overlapped>>

\* Fault: what the file holds is taken for a key as it is.
ReadKeyAsItIs ==
    /\ file # Absent
    /\ known' = known \cup {file}
    /\ UNCHANGED <<file, generating, overlapped>>

\* read_from_keystore: only a whole key can be decrypted.
ReadKey ==
    /\ file \in Operators
    /\ known' = known \cup {file}
    /\ UNCHANGED <<file, generating, overlapped>>

KeystoreStep ==
    \/ \E o \in Operators : Check(o) \/ Create(o) \/ Write(o) \/ GenerateFails(o)
    \/ ReadKey

-----------------------------------------------------------------------------

\* In particular, no half of a key is ever shown or loaded.
KeystoreTypeOK ==
    /\ file \in {Absent, Torn} \cup Operators
    /\ generating \in
        [Operators -> {"idle", "checked", "created", "saved", "aborted", "failed"}]
    /\ known \subseteq Operators
    /\ overlapped \in BOOLEAN

\* A keystore has one key for good: every key that was ever reported as
\* saved, shown to an operator who registers its address, or loaded by a
\* server is the same, and is the one in the file, through failed commands
\* and restarts, as long as no two runs of `key generate` overlapped (the
\* check for the file and its creation are not atomic).
OneKeyPerKeystore == ~overlapped => \A k \in known : file = k

\* Once nobody is between the check and the write, what is in the keystore
\* stays there for good: a key, whoever won when two runs of `key generate`
\* overlapped, and also the half of a key that a failed one left behind, which
\* no later run repairs or replaces.
KeystoreIsFinal ==
    [][file # Absent /\ Busy = {} => file' = file /\ Busy' = {}]_keystoreVars
=============================================================================
