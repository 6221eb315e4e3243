--------------------------- MODULE LifecycleProofs ---------------------------
(***************************************************************************)
(* The safety properties of the keystore and of the server processes, for  *)
(* any number of operators, processes and calls.                           *)
(*                                                                         *)
(* The keystore: as long as no two runs of `key generate` overlap, the one *)
(* that is between its check and its write finds the file as it left it,   *)
(* so no key is known before it writes; and a run that finds a file has    *)
(* nothing to do.  The processes: calls are in flight only while the gRPC  *)
(* server serves or drains or after it broke, and main gets past that      *)
(* server only when it has stopped, so that it returns with a call in      *)
(* flight only when the server broke.                                      *)
(***************************************************************************)
EXTENDS Lifecycle, TLAPS

KeyInv ==
    /\ KeystoreTypeOK
    /\ ~overlapped =>
        /\ \A a, b \in Busy : a = b
        /\ \A o \in Operators : generating[o] = "checked" => file = Absent
        /\ \A o \in Operators : generating[o] = "created" => file = Torn
    /\ OneKeyPerKeystore

Live == {"starting", "serving", "draining"}

\* What holds of a process at each position of its main.
ProcInv(p) ==
    /\ main[p] = "off" => grpc[p] = "none" /\ health[p] = "none"
    /\ main[p] \in Exited => grpc[p] \notin Live /\ health[p] \notin Live
    /\ calls[p] > 0 => grpc[p] \in {"serving", "draining", "broken"}
    /\ main[p] = "joining" => grpc[p] = "stopped"
    /\ main[p] = "exit_ok" => grpc[p] = "stopped" /\ health[p] = "stopped"
    /\ cut[p] =>
        \/ main[p] \in {"killed", "panicked"}
        \/ main[p] = "exit_err" /\ grpc[p] = "broken"
    /\ main[p] \in {"spawned", "awaiting"} =>
        /\ receivers[p] = {"grpc", "health"}
        /\ grpc[p] \in {"starting", "serving", "failed", "broken"}
        /\ health[p] \in {"starting", "serving", "failed"}
    /\ main[p] \in {"draining", "joining"} =>
        /\ messages[p] = {"grpc", "health"}
        /\ grpc[p] \in
            {"starting", "serving", "draining", "stopped", "failed", "broken"}
        /\ health[p] \in {"starting", "serving", "stopped", "failed"}
    /\ main[p] \in {"off", "spawned", "awaiting"} => messages[p] = {}

ProcessTypeOK ==
    /\ main \in [Procs -> {"off"} \cup Alive \cup Exited]
    /\ grpc \in [Procs -> TaskStates] /\ health \in [Procs -> TaskStates]
    /\ receivers \in [Procs -> SUBSET {"grpc", "health"}]
    /\ messages \in [Procs -> SUBSET {"grpc", "health"}]
    /\ calls \in [Procs -> 0..MaxCalls]
    /\ cut \in [Procs -> BOOLEAN]

ProcessesInv == ProcessTypeOK /\ \A p \in Procs : ProcInv(p)

Inv == KeyInv /\ ProcessesInv

-----------------------------------------------------------------------------
(***************************************************************************)
(* The keystore                                                            *)
(***************************************************************************)

\* The steps of a command on the keystore keep its invariant.
LEMMA GenerateKeepsKeyInv ==
    ASSUME KeyInv, NEW o \in Operators,
           Check(o) \/ Create(o) \/ Write(o) \/ GenerateFails(o)
    PROVE  KeyInv'
<1> USE KeystoreAssumption DEF KeyInv, KeystoreTypeOK, OneKeyPerKeystore, Busy
<1>1. CASE Check(o)
    BY <1>1 DEF Check
<1>2. CASE Create(o)
    BY <1>2 DEF Create
<1>3. CASE Write(o)
    BY <1>3 DEF Write
<1>4. CASE GenerateFails(o)
    BY <1>4 DEF GenerateFails
<1> QED
    BY <1>1, <1>2, <1>3, <1>4

\* Reading a key makes known what the file holds.
LEMMA ReadKeyKeepsKeyInv == KeyInv /\ ReadKey => KeyInv'
BY DEF KeyInv, KeystoreTypeOK, OneKeyPerKeystore, Busy, ReadKey

\* A file that nobody writes stays, and so does that nobody writes it.
LEMMA KeystoreStepKeepsFile ==
    KeystoreStep /\ file # Absent /\ Busy = {} => file' = file /\ Busy' = {}
<1> SUFFICES ASSUME KeystoreStep, file # Absent, Busy = {}
             PROVE  file' = file /\ Busy' = {}
    OBVIOUS
<1>1. CASE ReadKey
    BY <1>1 DEF ReadKey, Busy
<1>2. ASSUME NEW o \in Operators, Check(o)
      PROVE  file' = file /\ Busy' = {}
    <2>1. file' = file /\ generating' = [generating EXCEPT ![o] = "aborted"]
        BY <1>2 DEF Check
    <2>2. \A other \in Operators : generating'[other] \notin {"checked", "created"}
        BY <2>1 DEF Busy
    <2> QED
        BY <2>1, <2>2 DEF Busy
<1>3. ASSUME NEW o \in Operators, Create(o) \/ Write(o) \/ GenerateFails(o)
      PROVE  FALSE
    BY <1>3 DEF Create, Write, GenerateFails, Busy
<1> QED
    BY <1>1, <1>2, <1>3 DEF KeystoreStep

LEMMA SameKeystore == KeyInv /\ UNCHANGED keystoreVars => KeyInv'
BY DEF KeyInv, KeystoreTypeOK, OneKeyPerKeystore, Busy, keystoreVars

-----------------------------------------------------------------------------
(***************************************************************************)
(* The processes                                                           *)
(***************************************************************************)

\* A process ends: cleanly with both servers stopped, with an error and no
\* call in flight or its gRPC server broken, killed, or panicked.
LEMMA ExitKeepsInv ==
    ASSUME ProcessesInv, NEW p \in Procs, NEW status \in Exited, Exit(p, status),
           ~cut[p],
           status \in {"exit_ok", "exit_err"} => calls[p] = 0 \/ grpc[p] = "broken",
           status = "exit_ok" => grpc[p] = "stopped" /\ health[p] = "stopped"
    PROVE  ProcessesInv'
<1> USE LifecycleAssumption DEF ProcessesInv, ProcessTypeOK, Exit
<1>1. ProcessTypeOK'
    BY DEF TaskStates, Ended
<1>2. ProcInv(p)'
    BY DEF ProcInv, TaskStates, Ended, Live, Alive, Exited
<1>3. \A other \in Procs \ {p} : ProcInv(other)'
    BY DEF ProcInv
<1> QED
    BY <1>1, <1>2, <1>3

\* main goes on to its next state.
MainMoves(p, state) ==
    /\ main' = [main EXCEPT ![p] = state]
    /\ UNCHANGED <<grpc, health, receivers, messages, calls, cut>>

\* The steps of main that neither end the process nor send a message.
LEMMA MainKeepsInv ==
    ASSUME ProcessesInv, NEW p \in Procs,
           \/ RunServers(p)
           \/ main[p] = "spawned" /\ MainMoves(p, "awaiting")
           \/ grpc[p] = "stopped" /\ main[p] = "draining" /\ Join(p)
    PROVE  ProcessesInv'
<1> USE LifecycleAssumption
        DEF ProcessesInv, ProcessTypeOK, ProcInv, Alive, Exited, TaskStates, Live
<1>1. CASE RunServers(p)
    BY <1>1 DEF RunServers
<1>2. CASE main[p] = "spawned" /\ MainMoves(p, "awaiting")
    BY <1>2 DEF MainMoves
<1>3. CASE grpc[p] = "stopped" /\ main[p] = "draining" /\ Join(p)
    BY <1>3 DEF Join
<1> QED
    BY <1>1, <1>2, <1>3

\* Of a process that has not exited, no call was cut.
LEMMA NoCallCutYet ==
    ASSUME ProcessesInv, NEW p \in Procs, main[p] \notin Exited
    PROVE  ~cut[p]
BY DEF ProcessesInv, ProcInv, Exited

\* A signal kills the process or begins its shutdown.
LEMMA SignalKeepsInv ==
    ASSUME ProcessesInv, NEW p \in Procs, Signal(p)
    PROVE  ProcessesInv'
<1>1. CASE main[p] = "spawned" /\ Exit(p, "killed")
    BY <1>1, ExitKeepsInv, NoCallCutYet DEF Exited
<1>2. CASE /\ main[p] = "awaiting"
           /\ main' = [main EXCEPT ![p] = "draining"]
           /\ messages' = [messages EXCEPT ![p] = receivers[p]]
           /\ UNCHANGED <<grpc, health, receivers, calls, cut>>
    BY <1>2 DEF ProcessesInv, ProcessTypeOK, ProcInv, Alive, Exited
<1> QED
    BY <1>1, <1>2 DEF Signal

\* main registers its handlers, or panics.
LEMMA RegisterKeepsInv ==
    ASSUME ProcessesInv, NEW p \in Procs, RegisterHandlers(p)
    PROVE  ProcessesInv'
<1>1. CASE main[p] = "spawned" /\ MainMoves(p, "awaiting")
    BY <1>1, MainKeepsInv
<1>2. CASE main[p] = "spawned" /\ Exit(p, "panicked")
    BY <1>2, ExitKeepsInv, NoCallCutYet DEF Exited
<1> QED
    BY <1>1, <1>2 DEF RegisterHandlers, MainMoves

\* main awaits its tasks.
LEMMA AwaitKeepsInv ==
    ASSUME ProcessesInv, NEW p \in Procs, AwaitGrpc(p) \/ AwaitHealth(p)
    PROVE  ProcessesInv'
<1>1. /\ calls[p] \in Nat
      /\ calls[p] > 0 => grpc[p] \in {"serving", "draining", "broken"}
    BY LifecycleAssumption DEF ProcessesInv, ProcessTypeOK, ProcInv
<1>2. CASE AwaitGrpc(p)
    <2>1. CASE grpc[p] = "stopped" /\ Join(p)
        BY <1>2, <2>1, MainKeepsInv DEF AwaitGrpc
    <2>2. CASE grpc[p] \in {"failed", "broken"} /\ Exit(p, "exit_err")
        <3>1. ~cut[p]
            BY <1>2, NoCallCutYet DEF AwaitGrpc, Exited
        <3> QED
            BY <1>1, <2>2, <3>1, ExitKeepsInv DEF Exited
    <2> QED
        BY <1>2, <2>1, <2>2 DEF AwaitGrpc
<1>3. CASE AwaitHealth(p)
    <2>1. grpc[p] = "stopped" /\ ~cut[p]
        BY <1>3, NoCallCutYet DEF AwaitHealth, ProcessesInv, ProcInv, Exited
    <2> QED
        BY <1>1, <1>3, <2>1, ExitKeepsInv DEF AwaitHealth, Exited
<1> QED
    BY <1>2, <1>3

\* The tasks and the calls move only while the process is there.
LEMMA TasksKeepInv ==
    ASSUME ProcessesInv, NEW p \in Procs,
           \/ GrpcStep(p) \/ GrpcBreaks(p) \/ HealthStep(p)
           \/ CallArrives(p) \/ CallEnds(p)
    PROVE  ProcessesInv'
<1> USE LifecycleAssumption DEF ProcessesInv, ProcessTypeOK, ProcInv, Live, TaskStates
<1>1. CASE GrpcStep(p) \/ GrpcBreaks(p)
    BY <1>1 DEF GrpcStep, GrpcBind, GrpcDrain, GrpcStop, GrpcBreaks, GrpcMoves, Exited
<1>2. CASE HealthStep(p)
    BY <1>2 DEF HealthStep, HealthBind, HealthStop, HealthMoves, Exited
<1>3. CASE CallArrives(p)
    BY <1>3 DEF CallArrives, CallsBecome
<1>4. CASE CallEnds(p)
    BY <1>4 DEF CallEnds, CallsBecome
<1> QED
    BY <1>1, <1>2, <1>3, <1>4

\* Every step of a process keeps the invariant.
LEMMA ProcessKeepsInv ==
    ASSUME ProcessesInv, NEW p \in Procs, ProcessStep(p) \/ Misconfigured(p)
    PROVE  ProcessesInv'
<1>1. CASE MainStep(p)
    BY <1>1, RegisterKeepsInv, AwaitKeepsInv DEF MainStep
<1>2. CASE \/ GrpcStep(p) \/ GrpcBreaks(p) \/ HealthStep(p)
           \/ CallArrives(p) \/ CallEnds(p)
    BY <1>2, TasksKeepInv
<1>3. CASE Crash(p)
    BY <1>3, ExitKeepsInv, NoCallCutYet DEF Crash, Alive, Exited
<1>4. CASE Misconfigured(p)
    <2>1. ~cut[p] /\ calls[p] = 0
        BY <1>4, NoCallCutYet, LifecycleAssumption
            DEF Misconfigured, ProcessesInv, ProcessTypeOK, ProcInv, Exited
    <2> QED
        BY <1>4, <2>1, ExitKeepsInv DEF Misconfigured, Exited
<1> QED
    BY <1>1, <1>2, <1>3, <1>4 DEF ProcessStep

-----------------------------------------------------------------------------
(***************************************************************************)
(* The steps that are left                                                 *)
(***************************************************************************)

Advances(p) ==
    Standing(p)' # Standing(p) =>
        \/ StepsLeft(p)' < StepsLeft(p)
        \/ /\ StepsLeft(p)' = StepsLeft(p)
           /\ grpc[p] = "serving" \/ calls'[p] < calls[p]

\* A step of one process is none of another.
LEMMA OthersStand ==
    ASSUME ProcessTypeOK, NEW p, NEW other \in Procs \ {p},
           NEW m, NEW g, NEW h, NEW n,
           main' = [main EXCEPT ![p] = m], grpc' = [grpc EXCEPT ![p] = g],
           health' = [health EXCEPT ![p] = h], calls' = [calls EXCEPT ![p] = n]
    PROVE  Advances(other)
BY DEF ProcessTypeOK, Advances, Standing

\* What a step makes of the process it is of.
LEMMA Stands ==
    ASSUME ProcessTypeOK, NEW p \in Procs,
           NEW m, NEW g, NEW h, NEW n,
           main' = [main EXCEPT ![p] = m], grpc' = [grpc EXCEPT ![p] = g],
           health' = [health EXCEPT ![p] = h], calls' = [calls EXCEPT ![p] = n],
           \/ MainLeft[m] + TaskLeft[g] + TaskLeft[h]
                < MainLeft[main[p]] + TaskLeft[grpc[p]] + TaskLeft[health[p]]
           \/ /\ m = main[p] /\ g = grpc[p] /\ h = health[p]
              /\ grpc[p] = "serving" \/ n < calls[p]
    PROVE  \A other \in Procs : Advances(other)
<1>1. main'[p] = m /\ grpc'[p] = g /\ health'[p] = h /\ calls'[p] = n
    BY DEF ProcessTypeOK
<1>2. Advances(p)
    BY <1>1 DEF Advances, StepsLeft
<1> QED
    BY <1>2, OthersStand

\* The steps that are left are a number.
LEMMA LeftIsNat ==
    ASSUME ProcessTypeOK, NEW p \in Procs
    PROVE  /\ MainLeft[main[p]] \in Nat /\ TaskLeft[grpc[p]] \in Nat
           /\ TaskLeft[health[p]] \in Nat
BY DEF ProcessTypeOK, MainLeft, TaskLeft, Alive, Exited, TaskStates

\* A process that ends has nothing left, and its servers have no more left
\* than they had.
LEMMA ExitAdvances ==
    ASSUME ProcessTypeOK, NEW p \in Procs, NEW status \in Exited,
           main[p] \notin Exited, Exit(p, status)
    PROVE  \A other \in Procs : Advances(other)
<1> DEFINE Abort(state) == IF state \in Ended THEN state ELSE "aborted"
<1>1. /\ main' = [main EXCEPT ![p] = status]
      /\ grpc' = [grpc EXCEPT ![p] = Abort(grpc[p])]
      /\ health' = [health EXCEPT ![p] = Abort(health[p])]
      /\ calls' = [calls EXCEPT ![p] = 0]
    BY DEF Exit, ProcessTypeOK
<1>2. MainLeft[status] < MainLeft[main[p]]
    BY DEF ProcessTypeOK, MainLeft, Alive, Exited
<1>3. \A state \in TaskStates : /\ TaskLeft[Abort(state)] \in Nat
                                /\ TaskLeft[Abort(state)] <= TaskLeft[state]
    BY DEF TaskStates, TaskLeft, Ended
<1>4. grpc[p] \in TaskStates /\ health[p] \in TaskStates
    BY DEF ProcessTypeOK
<1>5. MainLeft[status] \in Nat
    BY DEF MainLeft, Exited
<1>6. MainLeft[status] + TaskLeft[Abort(grpc[p])] + TaskLeft[Abort(health[p])]
        < MainLeft[main[p]] + TaskLeft[grpc[p]] + TaskLeft[health[p]]
    BY <1>2, <1>3, <1>4, <1>5, LeftIsNat
<1> HIDE DEF Abort
<1> QED
    BY <1>1, <1>6, Stands

\* main goes on to its next state, with its servers as they were.
MainGoesOn(p, state) ==
    main' = [main EXCEPT ![p] = state] /\ UNCHANGED <<grpc, health, calls>>

LEMMA MainAdvances ==
    ASSUME ProcessTypeOK, NEW p \in Procs, NEW state,
           \/ main[p] = "spawned" /\ state = "awaiting"
           \/ main[p] = "awaiting" /\ state = "draining"
           \/ main[p] = "draining" /\ state = "joining",
           MainGoesOn(p, state)
    PROVE  \A other \in Procs : Advances(other)
<1>1. PICK g, h, n : g = grpc[p] /\ h = health[p] /\ n = calls[p]
    OBVIOUS
<1>2. /\ main' = [main EXCEPT ![p] = state]
      /\ grpc' = [grpc EXCEPT ![p] = g]
      /\ health' = [health EXCEPT ![p] = h]
      /\ calls' = [calls EXCEPT ![p] = n]
    BY <1>1 DEF MainGoesOn, ProcessTypeOK
<1>3. MainLeft[state] < MainLeft[main[p]] /\ MainLeft[state] \in Nat
    BY DEF MainLeft
<1>4. MainLeft[state] + TaskLeft[g] + TaskLeft[h]
        < MainLeft[main[p]] + TaskLeft[grpc[p]] + TaskLeft[health[p]]
    BY <1>1, <1>3, LeftIsNat
<1> QED
    BY <1>2, <1>4, Stands

\* The servers are spawned.
LEMMA SpawnAdvances ==
    ASSUME ProcessesInv, NEW p \in Procs, RunServers(p)
    PROVE  \A other \in Procs : Advances(other)
<1>1. ProcessTypeOK /\ main[p] = "off" /\ grpc[p] = "none" /\ health[p] = "none"
    BY DEF ProcessesInv, ProcInv, RunServers
<1>2. /\ main' = [main EXCEPT ![p] = "spawned"]
      /\ grpc' = [grpc EXCEPT ![p] = "starting"]
      /\ health' = [health EXCEPT ![p] = "starting"]
      /\ calls' = [calls EXCEPT ![p] = calls[p]]
    BY <1>1 DEF RunServers, ProcessTypeOK
<1>3. MainLeft["spawned"] + TaskLeft["starting"] + TaskLeft["starting"]
        < MainLeft[main[p]] + TaskLeft[grpc[p]] + TaskLeft[health[p]]
    BY <1>1 DEF MainLeft, TaskLeft
<1> QED
    BY <1>1, <1>2, <1>3, Stands

\* A server goes on to its next state.
LEMMA GrpcAdvances ==
    ASSUME ProcessTypeOK, NEW p \in Procs, GrpcStep(p) \/ GrpcBreaks(p)
    PROVE  \A other \in Procs : Advances(other)
<1>1. PICK state \in TaskStates :
        /\ GrpcMoves(p, state)
        /\ \/ grpc[p] = "starting" /\ state \in {"serving", "failed"}
           \/ grpc[p] = "serving" /\ state = "draining"
           \/ grpc[p] = "draining" /\ state = "stopped"
           \/ grpc[p] \in {"serving", "draining"} /\ state = "broken"
    BY DEF GrpcStep, GrpcBind, GrpcDrain, GrpcStop, GrpcBreaks, TaskStates
<1>2. /\ main' = [main EXCEPT ![p] = main[p]]
      /\ grpc' = [grpc EXCEPT ![p] = state]
      /\ health' = [health EXCEPT ![p] = health[p]]
      /\ calls' = [calls EXCEPT ![p] = calls[p]]
    BY <1>1 DEF GrpcMoves, ProcessTypeOK
<1>3. TaskLeft[state] < TaskLeft[grpc[p]] /\ TaskLeft[state] \in Nat
    BY <1>1 DEF TaskLeft
<1>4. MainLeft[main[p]] + TaskLeft[state] + TaskLeft[health[p]]
        < MainLeft[main[p]] + TaskLeft[grpc[p]] + TaskLeft[health[p]]
    BY <1>3, LeftIsNat
<1> QED
    BY <1>2, <1>4, Stands

LEMMA HealthAdvances ==
    ASSUME ProcessTypeOK, NEW p \in Procs, HealthStep(p)
    PROVE  \A other \in Procs : Advances(other)
<1>1. PICK state \in TaskStates :
        /\ HealthMoves(p, state)
        /\ \/ health[p] = "starting" /\ state \in {"serving", "failed"}
           \/ health[p] = "serving" /\ state = "stopped"
    BY DEF HealthStep, HealthBind, HealthStop, TaskStates
<1>2. /\ main' = [main EXCEPT ![p] = main[p]]
      /\ grpc' = [grpc EXCEPT ![p] = grpc[p]]
      /\ health' = [health EXCEPT ![p] = state]
      /\ calls' = [calls EXCEPT ![p] = calls[p]]
    BY <1>1 DEF HealthMoves, ProcessTypeOK
<1>3. TaskLeft[state] < TaskLeft[health[p]] /\ TaskLeft[state] \in Nat
    BY <1>1 DEF TaskLeft
<1>4. MainLeft[main[p]] + TaskLeft[grpc[p]] + TaskLeft[state]
        < MainLeft[main[p]] + TaskLeft[grpc[p]] + TaskLeft[health[p]]
    BY <1>3, LeftIsNat
<1> QED
    BY <1>2, <1>4, Stands

\* Calls come while the server serves, and end.
LEMMA CallAdvances ==
    ASSUME ProcessTypeOK, NEW p \in Procs, CallArrives(p) \/ CallEnds(p)
    PROVE  \A other \in Procs : Advances(other)
<1>1. PICK n : /\ CallsBecome(p, n)
               /\ grpc[p] = "serving" \/ n < calls[p]
    <2>1. calls[p] \in Nat
        BY LifecycleAssumption DEF ProcessTypeOK
    <2> QED
        BY <2>1 DEF CallArrives, CallEnds
<1>2. PICK m, g, h : m = main[p] /\ g = grpc[p] /\ h = health[p]
    OBVIOUS
<1>3. /\ main' = [main EXCEPT ![p] = m]
      /\ grpc' = [grpc EXCEPT ![p] = g]
      /\ health' = [health EXCEPT ![p] = h]
      /\ calls' = [calls EXCEPT ![p] = n]
    BY <1>1, <1>2 DEF CallsBecome, ProcessTypeOK
<1> QED
    BY <1>1, <1>2, <1>3, Stands, Zenon

\* Every step advances the process it is of.
LEMMA StepAdvances ==
    ASSUME ProcessesInv, NEW p \in Procs,
           RunServers(p) \/ Misconfigured(p) \/ Signal(p) \/ ProcessStep(p)
    PROVE  \A other \in Procs : Advances(other)
<1>1. ProcessTypeOK
    BY DEF ProcessesInv
<1>2. CASE Misconfigured(p) \/ Crash(p)
    BY <1>1, <1>2, ExitAdvances DEF Misconfigured, Crash, Alive, Exited
<1>3. CASE Signal(p)
    <2>1. CASE main[p] = "spawned" /\ Exit(p, "killed")
        BY <1>1, <2>1, ExitAdvances DEF Exited
    <2>2. CASE /\ main[p] = "awaiting"
               /\ main' = [main EXCEPT ![p] = "draining"]
               /\ UNCHANGED <<grpc, health, calls>>
        BY <1>1, <2>2, MainAdvances DEF MainGoesOn
    <2> QED
        BY <1>3, <2>1, <2>2 DEF Signal
<1>4. CASE MainStep(p)
    <2>1. CASE RegisterHandlers(p)
        <3>1. CASE main[p] = "spawned" /\ MainMoves(p, "awaiting")
            BY <1>1, <3>1, MainAdvances DEF MainMoves, MainGoesOn
        <3>2. CASE main[p] = "spawned" /\ Exit(p, "panicked")
            BY <1>1, <3>2, ExitAdvances DEF Exited
        <3> QED
            BY <2>1, <3>1, <3>2 DEF RegisterHandlers, MainMoves
    <2>2. CASE AwaitGrpc(p)
        <3>1. CASE grpc[p] = "stopped" /\ Join(p)
            BY <1>1, <2>2, <3>1, MainAdvances DEF AwaitGrpc, Join, MainGoesOn
        <3>2. CASE grpc[p] \in {"failed", "broken"} /\ Exit(p, "exit_err")
            BY <1>1, <2>2, <3>2, ExitAdvances DEF AwaitGrpc, Exited
        <3> QED
            BY <2>2, <3>1, <3>2 DEF AwaitGrpc
    <2>3. CASE AwaitHealth(p)
        BY <1>1, <2>3, ExitAdvances DEF AwaitHealth, Exited
    <2> QED
        BY <1>4, <2>1, <2>2, <2>3 DEF MainStep
<1>5. CASE RunServers(p)
    BY <1>5, SpawnAdvances
<1>6. CASE \/ GrpcStep(p) \/ GrpcBreaks(p) \/ HealthStep(p)
           \/ CallArrives(p) \/ CallEnds(p)
    BY <1>1, <1>6, GrpcAdvances, HealthAdvances, CallAdvances
<1> QED
    BY <1>2, <1>3, <1>4, <1>5, <1>6 DEF ProcessStep

-----------------------------------------------------------------------------
(***************************************************************************)
(* The theorems                                                            *)
(***************************************************************************)

\* The invariant holds initially, and every step keeps it.
LEMMA InitInv == Init => Inv
<1> SUFFICES ASSUME Init PROVE KeyInv /\ ProcessesInv
    BY DEF Inv
<1>1. KeyInv
    BY KeystoreAssumption DEF Init, KeystoreInit, KeyInv, KeystoreTypeOK, OneKeyPerKeystore, Busy
<1>2. ProcessesInv
    BY LifecycleAssumption
        DEF Init, ProcessesInv, ProcessTypeOK, ProcInv, Alive, Exited, TaskStates, Live
<1> QED
    BY <1>1, <1>2

LEMMA NextInv == Inv /\ [Next]_vars => Inv'
<1> SUFFICES ASSUME KeyInv, ProcessesInv, [Next]_vars PROVE KeyInv' /\ ProcessesInv'
    BY DEF Inv
<1>1. CASE KeystoreStep /\ UNCHANGED lifecycleVars
    <2>1. KeyInv'
        BY <1>1, GenerateKeepsKeyInv, ReadKeyKeepsKeyInv DEF KeystoreStep
    <2>2. ProcessesInv'
        BY <1>1 DEF lifecycleVars, ProcessesInv, ProcessTypeOK, ProcInv
    <2> QED
        BY <2>1, <2>2
<1>2. ASSUME NEW p \in Procs, StartServer(p) PROVE KeyInv' /\ ProcessesInv'
    BY <1>2, ReadKeyKeepsKeyInv, SameKeystore, MainKeepsInv DEF StartServer
<1>3. ASSUME NEW p \in Procs, Misconfigured(p) \/ Signal(p) \/ ProcessStep(p)
      PROVE  KeyInv' /\ ProcessesInv'
    <2>1. KeyInv'
        BY <1>3, SameKeystore DEF Misconfigured, Signal, ProcessStep
    <2> QED
        BY <1>3, <2>1, SignalKeepsInv, ProcessKeepsInv
<1>4. CASE UNCHANGED vars \/ Quiet
    <2>1. UNCHANGED keystoreVars /\ UNCHANGED lifecycleVars
        BY <1>4 DEF vars, Quiet
    <2> QED
        BY <2>1, SameKeystore DEF lifecycleVars, ProcessesInv, ProcessTypeOK, ProcInv
<1> QED
    BY <1>1, <1>2, <1>3, <1>4 DEF Next

\* The inductive invariant holds in every state of every behaviour.
THEOREM InvariantHolds == Spec => []Inv
BY InitInv, NextInv, PTL DEF Spec

\* Every variable has its type, so that no counter of calls in flight goes
\* below zero or above its bound.
THEOREM TypesHold == Spec => []LifecycleTypeOK
<1>1. Inv => LifecycleTypeOK
    BY DEF Inv, KeyInv, ProcessesInv, ProcessTypeOK, LifecycleTypeOK
<1> QED
    BY <1>1, InvariantHolds, PTL

\* A keystore keeps its one key, whatever commands fail and servers restart,
\* for any number of operators whose runs of `key generate` do not overlap.
THEOREM OneKey == Spec => []OneKeyPerKeystore
<1>1. Inv => OneKeyPerKeystore
    BY DEF Inv, KeyInv
<1> QED
    BY <1>1, InvariantHolds, PTL

\* What `key generate` leaves in the keystore stays there, a key or half of
\* one, for any number of operators, whether their runs overlapped or not.
THEOREM KeystoreStays == Spec => KeystoreIsFinal
<1>1. [Next]_vars =>
        [file # Absent /\ Busy = {} => file' = file /\ Busy' = {}]_keystoreVars
    <2> SUFFICES ASSUME [Next]_vars, file # Absent, Busy = {}, ~UNCHANGED keystoreVars
                 PROVE  file' = file /\ Busy' = {}
        OBVIOUS
    <2>1. KeystoreStep
        BY DEF Next, StartServer, Misconfigured, Signal, ProcessStep, Quiet,
               KeystoreStep, vars
    <2> QED
        BY <2>1, KeystoreStepKeepsFile
<1> QED
    BY <1>1, PTL DEF Spec, KeystoreIsFinal

\* No process that returns from main, cleanly or with an error, cuts off a
\* call, unless its gRPC server broke after it had served: whenever the signal
\* comes, also while a server that could not bind is awaited.
THEOREM ShutdownIsGraceful == Spec => []CallsCutOnlyByFailure
<1>1. Inv => CallsCutOnlyByFailure
    BY DEF Inv, ProcessesInv, ProcInv, CallsCutOnlyByFailure
<1> QED
    BY <1>1, InvariantHolds, PTL

\* A process that reports success has served and stopped both its servers.
THEOREM ExitStatusIsTrue == Spec => []SuccessMeansServed
<1>1. Inv => SuccessMeansServed
    BY DEF Inv, ProcessesInv, ProcInv, SuccessMeansServed
<1> QED
    BY <1>1, InvariantHolds, PTL

\* main is never left waiting for a server that missed the shutdown, for any
\* number of processes that contend for the addresses: both receivers are
\* there before the tasks are, so the broadcast reaches a server whether it
\* has bound its address yet or not.
THEOREM ShutdownReachesServers == Spec => []NoShutdownIsStuck
<1>1. Inv => NoShutdownIsStuck
    BY DEF Inv, ProcessesInv, ProcInv, NoShutdownIsStuck
<1> QED
    BY <1>1, InvariantHolds, PTL

\* No process goes back, for any number of them: each of its steps brings main
\* or a server nearer to its end or ends a call, and calls arrive only until
\* the server drains.
THEOREM ProcessesAdvance == Spec => EveryProcessAdvances
<1>1. Inv /\ [Next]_vars => \A p \in Procs : Advances(p)
    <2> SUFFICES ASSUME ProcessesInv, [Next]_vars PROVE \A p \in Procs : Advances(p)
        BY DEF Inv
    <2>1. CASE \E p \in Procs : StartServer(p) \/ Misconfigured(p) \/ Signal(p) \/ ProcessStep(p)
        BY <2>1, StepAdvances DEF StartServer
    <2>2. CASE UNCHANGED lifecycleVars
        BY <2>2 DEF lifecycleVars, Advances, Standing
    <2> QED
        BY <2>1, <2>2 DEF Next, vars, Quiet
<1>2. Inv /\ [Next]_vars =>
        [\A p \in Procs : Standing(p)' # Standing(p) =>
            \/ StepsLeft(p)' < StepsLeft(p)
            \/ /\ StepsLeft(p)' = StepsLeft(p)
               /\ grpc[p] = "serving" \/ calls'[p] < calls[p]]_vars
    BY <1>1 DEF Advances
<1> QED
    BY <1>2, InvariantHolds, PTL DEF Spec, EveryProcessAdvances
=============================================================================
