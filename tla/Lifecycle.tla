------------------------------ MODULE Lifecycle ------------------------------
(***************************************************************************)
(* The server command: main loads the configuration, spawns the gRPC and   *)
(* the health server as tasks, waits for a signal, broadcasts the shutdown *)
(* and awaits the two tasks one after the other.  Several processes may be *)
(* started with the same addresses, as in a restart.                       *)
(***************************************************************************)
EXTENDS Keystore

CONSTANTS
    Procs,      \* server processes
    KeyHolders, \* those configured with a local signer, which needs the keystore
    MaxCalls    \* bound: calls a server has in flight

ASSUME LifecycleAssumption == MaxCalls \in Nat

VARIABLES
    main,       \* where main stands, or how the process ended
    grpc,       \* the task of the gRPC server
    health,     \* the task of the health server
    receivers,  \* the tasks that hold a receiver of the shutdown broadcast
    messages,   \* the tasks that have its message
    calls,      \* the number of calls in flight
    cut         \* was a call cut off by the end of the process?

lifecycleVars == <<main, grpc, health, receivers, messages, calls, cut>>
vars == <<keystoreVars, lifecycleVars>>

Alive == {"spawned", "awaiting", "draining", "joining"}
Exited == {"exit_ok", "exit_err", "panicked", "killed"}

\* "failed" is a server that has never served, "broken" one that has.
TaskStates ==
    {"none", "starting", "serving", "draining", "stopped", "failed", "broken", "aborted"}

Ended == {"none", "stopped", "failed", "broken"}

Init ==
    /\ KeystoreInit
    /\ main = [p \in Procs |-> "off"]
    /\ grpc = [p \in Procs |-> "none"]
    /\ health = [p \in Procs |-> "none"]
    /\ receivers = [p \in Procs |-> {}]
    /\ messages = [p \in Procs |-> {}]
    /\ calls = [p \in Procs |-> 0]
    /\ cut = [p \in Procs |-> FALSE]

(***************************************************************************)
(* main                                                                    *)
(***************************************************************************)

\* The process ends and takes its tasks, their channel and its calls with it.
Exit(p, status) ==
    LET Abort(state) == IF state \in Ended THEN state ELSE "aborted"
    IN  /\ main' = [main EXCEPT ![p] = status]
        /\ grpc' = [grpc EXCEPT ![p] = Abort(@)]
        /\ health' = [health EXCEPT ![p] = Abort(@)]
        /\ calls' = [calls EXCEPT ![p] = 0]
        /\ cut' = [cut EXCEPT ![p] = @ \/ calls[p] > 0]
        /\ receivers' = [receivers EXCEPT ![p] = {}]
        /\ messages' = [messages EXCEPT ![p] = {}]

\* RuntimeConfig::from_file fails: a bad configuration, or a keystore without
\* a whole key.
Misconfigured(p) ==
    /\ main[p] = "off"
    /\ Exit(p, "exit_err")
    /\ UNCHANGED keystoreVars

\* Fault: only one of the servers subscribes to the shutdown.
RunServersOneReceiver(p) ==
    /\ main[p] = "off"
    /\ main' = [main EXCEPT ![p] = "spawned"]
    /\ grpc' = [grpc EXCEPT ![p] = "starting"]
    /\ health' = [health EXCEPT ![p] = "starting"]
    /\ receivers' = [receivers EXCEPT ![p] = {"grpc"}]
    /\ UNCHANGED <<messages, calls, cut>>

\* run_servers: both receivers are there before the tasks are.
RunServers(p) ==
    /\ main[p] = "off"
    /\ main' = [main EXCEPT ![p] = "spawned"]
    /\ grpc' = [grpc EXCEPT ![p] = "starting"]
    /\ health' = [health EXCEPT ![p] = "starting"]
    /\ receivers' = [receivers EXCEPT ![p] = {"grpc", "health"}]
    /\ UNCHANGED <<messages, calls, cut>>

\* The configuration is loaded, for a local signer with its key, for a remote
\* one without, and the servers are started.
StartServer(p) ==
    /\ \/ p \in KeyHolders /\ ReadKey
       \/ p \notin KeyHolders /\ UNCHANGED keystoreVars
    /\ RunServers(p)

\* wait_for_shutdown_signal: from here on the process handles signals, if
\* they can be registered; main panics if not.
RegisterHandlers(p) ==
    /\ main[p] = "spawned"
    /\ \/ /\ main' = [main EXCEPT ![p] = "awaiting"]
          /\ UNCHANGED <<grpc, health, receivers, messages, calls, cut>>
       \/ Exit(p, "panicked")

\* Fault: the tasks subscribe once they serve, and miss an earlier message.
SignalToServing(p) ==
    /\ \/ main[p] = "spawned" /\ Exit(p, "killed")
       \/ /\ main[p] = "awaiting"
          /\ main' = [main EXCEPT ![p] = "draining"]
          /\ messages' = [messages EXCEPT ![p] =
                {task \in receivers[p] :
                    (IF task = "grpc" THEN grpc[p] ELSE health[p]) = "serving"}]
          /\ UNCHANGED <<grpc, health, receivers, calls, cut>>
    /\ UNCHANGED keystoreVars

\* SIGTERM or SIGINT.  Unhandled, it ends the process; handled, it is
\* broadcast to the tasks; one that comes later still is ignored.
Signal(p) ==
    /\ \/ main[p] = "spawned" /\ Exit(p, "killed")
       \/ /\ main[p] = "awaiting"
          /\ main' = [main EXCEPT ![p] = "draining"]
          /\ messages' = [messages EXCEPT ![p] = receivers[p]]
          /\ UNCHANGED <<grpc, health, receivers, calls, cut>>
    /\ UNCHANGED keystoreVars

Join(p) ==
    /\ main' = [main EXCEPT ![p] = "joining"]
    /\ UNCHANGED <<grpc, health, receivers, messages, calls, cut>>

\* Faults: main does not wait for the gRPC server, or not for its result, or
\* starts it again when it has failed.
AwaitGrpcNot(p) == main[p] = "draining" /\ Join(p)

AwaitGrpcResultIgnored(p) ==
    main[p] = "draining" /\ grpc[p] \in {"stopped", "failed", "broken"} /\ Join(p)

AwaitGrpcRestarting(p) ==
    /\ main[p] = "draining"
    /\ \/ grpc[p] = "stopped" /\ Join(p)
       \/ /\ grpc[p] \in {"failed", "broken"}
          /\ grpc' = [grpc EXCEPT ![p] = "starting"]
          /\ UNCHANGED <<main, health, receivers, messages, calls, cut>>

\* grpc_handle.await??: an error or a panic of the server is the error of
\* main, which then waits neither for the health server nor for any call.
AwaitGrpc(p) ==
    /\ main[p] = "draining"
    /\ \/ grpc[p] = "stopped" /\ Join(p)
       \/ grpc[p] \in {"failed", "broken"} /\ Exit(p, "exit_err")

\* health_handle.await?: fails if the task has panicked.
AwaitHealth(p) ==
    /\ main[p] = "joining"
    /\ \/ health[p] = "stopped" /\ Exit(p, "exit_ok")
       \/ health[p] = "failed" /\ Exit(p, "exit_err")

MainStep(p) == RegisterHandlers(p) \/ AwaitGrpc(p) \/ AwaitHealth(p)

(***************************************************************************)
(* The servers                                                             *)
(***************************************************************************)
GrpcMoves(p, state) ==
    /\ grpc' = [grpc EXCEPT ![p] = state]
    /\ UNCHANGED <<main, health, receivers, messages, calls, cut>>

HealthMoves(p, state) ==
    /\ health' = [health EXCEPT ![p] = state]
    /\ UNCHANGED <<main, grpc, receivers, messages, calls, cut>>

\* An address has one listener.  A bind may fail for other reasons as well.
GrpcBind(p) ==
    /\ grpc[p] = "starting"
    /\ \/ (\A other \in Procs : grpc[other] # "serving") /\ GrpcMoves(p, "serving")
       \/ GrpcMoves(p, "failed")

HealthBind(p) ==
    /\ health[p] = "starting"
    /\ \/ (\A other \in Procs : health[other] # "serving") /\ HealthMoves(p, "serving")
       \/ HealthMoves(p, "failed")

\* The shutdown message: no call is accepted any more, those in flight go on.
GrpcDrain(p) == grpc[p] = "serving" /\ "grpc" \in messages[p] /\ GrpcMoves(p, "draining")

GrpcStop(p) == grpc[p] = "draining" /\ calls[p] = 0 /\ GrpcMoves(p, "stopped")

\* A fatal error during operation, or a panic, at any moment: no call arrives
\* any more, and those in flight go on in tasks of their own.
GrpcBreaks(p) == grpc[p] \in {"serving", "draining"} /\ GrpcMoves(p, "broken")

HealthStop(p) == health[p] = "serving" /\ "health" \in messages[p] /\ HealthMoves(p, "stopped")

GrpcStep(p) == GrpcBind(p) \/ GrpcDrain(p) \/ GrpcStop(p)
HealthStep(p) == HealthBind(p) \/ HealthStop(p)

CallsBecome(p, n) ==
    /\ calls' = [calls EXCEPT ![p] = n]
    /\ UNCHANGED <<main, grpc, health, receivers, messages, cut>>

CallArrives(p) == grpc[p] = "serving" /\ calls[p] < MaxCalls /\ CallsBecome(p, calls[p] + 1)

CallEnds(p) == calls[p] > 0 /\ CallsBecome(p, calls[p] - 1)

\* SIGKILL, or the machine goes down.
Crash(p) == main[p] \in Alive /\ Exit(p, "killed")

ProcessStep(p) ==
    /\ \/ MainStep(p) \/ GrpcStep(p) \/ HealthStep(p)
       \/ GrpcBreaks(p) \/ CallArrives(p) \/ CallEnds(p) \/ Crash(p)
    /\ UNCHANGED keystoreVars

Quiet == (\A p \in Procs : main[p] \in Exited) /\ UNCHANGED vars

Next ==
    \/ KeystoreStep /\ UNCHANGED lifecycleVars
    \/ \E p \in Procs : StartServer(p) \/ Misconfigured(p) \/ Signal(p) \/ ProcessStep(p)
    \/ Quiet

Spec == Init /\ [][Next]_vars

\* The runtime polls every task that can go on, and every call ends.
Fairness ==
    \A p \in Procs :
        /\ WF_vars(MainStep(p) /\ UNCHANGED keystoreVars)
        /\ WF_vars(GrpcStep(p) /\ UNCHANGED keystoreVars)
        /\ WF_vars(HealthStep(p) /\ UNCHANGED keystoreVars)
        /\ WF_vars(CallEnds(p) /\ UNCHANGED keystoreVars)

FairSpec == Spec /\ Fairness

-----------------------------------------------------------------------------

\* Every variable has its type, and every key that is known is a whole one.
LifecycleTypeOK ==
    /\ KeystoreTypeOK
    /\ main \in [Procs -> {"off"} \cup Alive \cup Exited]
    /\ grpc \in [Procs -> TaskStates] /\ health \in [Procs -> TaskStates]
    /\ receivers \in [Procs -> SUBSET {"grpc", "health"}]
    /\ messages \in [Procs -> SUBSET {"grpc", "health"}]
    /\ calls \in [Procs -> 0..MaxCalls]
    /\ cut \in [Procs -> BOOLEAN]

\* A shutdown is graceful whenever it comes, also while a server that has
\* failed to bind is awaited, or a health server that has failed: a call is
\* cut off only by a process that is killed (by a crash, or by a signal that
\* came before the handlers were there), that cannot register its handlers,
\* or whose gRPC server broke after it had served.
CallsCutOnlyByFailure ==
    \A p \in Procs : cut[p] =>
        \/ main[p] \in {"killed", "panicked"}
        \/ main[p] = "exit_err" /\ grpc[p] = "broken"

\* The exit status tells the truth: a process that reports success has served
\* and drained, and so has its health server; one whose server never came up
\* waits for its signal all the same, and then reports the failure.
SuccessMeansServed ==
    \A p \in Procs : main[p] = "exit_ok" => grpc[p] = "stopped" /\ health[p] = "stopped"

\* main never waits for a server that nobody has told to stop: whenever the
\* signal came, the server has ended, drains its calls, has the message, or
\* has yet to bind its address and will find the message then.
NoShutdownIsStuck ==
    \A p \in Procs :
        /\ main[p] = "draining" =>
            \/ grpc[p] \in {"draining", "stopped", "failed", "broken"}
            \/ grpc[p] \in {"starting", "serving"} /\ "grpc" \in messages[p]
        /\ main[p] = "joining" =>
            \/ health[p] \in {"stopped", "failed"}
            \/ health[p] \in {"starting", "serving"} /\ "health" \in messages[p]

\* How many states of main and of its servers are still to come.
MainLeft ==
    [off |-> 5, spawned |-> 4, awaiting |-> 3, draining |-> 2, joining |-> 1,
     exit_ok |-> 0, exit_err |-> 0, panicked |-> 0, killed |-> 0]
TaskLeft ==
    [none |-> 4, starting |-> 3, serving |-> 2, draining |-> 1,
     stopped |-> 0, failed |-> 0, broken |-> 0, aborted |-> 0]

StepsLeft(p) == MainLeft[main[p]] + TaskLeft[grpc[p]] + TaskLeft[health[p]]

Standing(p) == <<main[p], grpc[p], health[p], calls[p]>>

\* No process goes back: whatever step it takes, others contend for its
\* addresses or its calls come and go, main or a server gets nearer to its
\* end, or a call ends; calls arrive only as long as the server has not begun
\* to drain, so that a shutdown waits for those calls and no others.
EveryProcessAdvances ==
    [][\A p \in Procs : Standing(p)' # Standing(p) =>
            \/ StepsLeft(p)' < StepsLeft(p)
            \/ /\ StepsLeft(p)' = StepsLeft(p)
               /\ grpc[p] = "serving" \/ calls'[p] < calls[p]]_vars

\* A process that has begun to shut down ends, whichever of its servers are
\* up, starting or failed when the signal comes.
SignalledProcessExits == \A p \in Procs : (main[p] = "draining") ~> (main[p] \in Exited)
=============================================================================
