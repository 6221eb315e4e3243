------------------------------- MODULE Retry --------------------------------
(***************************************************************************)
(* with_retry_backoff: a query of the chain's RPC endpoint is attempted up *)
(* to MaxAttempts times with growing pauses.  The closures of the three    *)
(* adapters turn every error of their RPC client, transient or not, into a *)
(* RetrievalError, so every failed attempt may be followed by another; an  *)
(* answer that cannot be used (a null block, a commitment of the wrong     *)
(* length) is an error of the caller's and is not asked for again.         *)
(***************************************************************************)
EXTENDS Integers, FiniteSets

CONSTANT Queries  \* the queries that may be made

ASSUME RetryAssumption == IsFiniteSet(Queries)

VARIABLES
    query,         \* where each query stands
    attempts,      \* the helper's count of attempts of a query under way
    pause,         \* the pause before its next attempt, in milliseconds
    retryFailures  \* attestor_adapter_retry_failures_total

retryVars == <<query, attempts, pause, retryFailures>>

MaxAttempts == 3
InitialBackoff == 200
MaxBackoff == 2000
Factor == 2

QueryStates == {"unsent", "attempt", "pause", "answered", "unusable", "failed", "dropped"}

\* A query that the helper is at work on.
UnderWay(q) == query[q] \in {"attempt", "pause"}

\* ExponentialBackoff of tokio-retry: the base is raised to a power, then
\* multiplied by the factor, and cut off at the maximum.
Backoff(k) ==
    LET delay == InitialBackoff ^ k * Factor
    IN  IF delay > MaxBackoff THEN MaxBackoff ELSE delay

RetryInit ==
    /\ query = [q \in Queries |-> "unsent"]
    /\ attempts = [q \in Queries |-> 0]
    /\ pause = [q \in Queries |-> 0]
    /\ retryFailures = 0

\* The first attempt of each of a set of queries.
Send(qs) ==
    /\ query' = [q \in Queries |-> IF q \in qs THEN "attempt" ELSE query[q]]
    /\ attempts' = [q \in Queries |-> IF q \in qs THEN 1 ELSE attempts[q]]
    /\ UNCHANGED <<pause, retryFailures>>

\* The helper returns; its count of attempts goes with it.
Settle(q, state) ==
    /\ query' = [query EXCEPT ![q] = state]
    /\ attempts' = [attempts EXCEPT ![q] = 0]
    /\ pause' = [pause EXCEPT ![q] = 0]

AttemptSucceeds(q) ==
    /\ query[q] = "attempt"
    /\ \E state \in {"answered", "unusable"} : Settle(q, state)
    /\ UNCHANGED retryFailures

Pause(q, delay) ==
    /\ query' = [query EXCEPT ![q] = "pause"]
    /\ pause' = [pause EXCEPT ![q] = delay]
    /\ UNCHANGED <<attempts, retryFailures>>

GiveUp(q) == Settle(q, "failed") /\ retryFailures' = retryFailures + 1

\* Faults: attempts without end, one attempt too many, a failure not counted.
AttemptFailsForever(q) ==
    /\ query[q] = "attempt"
    /\ query' = [query EXCEPT ![q] = "pause"]
    /\ attempts' = [attempts EXCEPT ![q] = 0]
    /\ pause' = [pause EXCEPT ![q] = MaxBackoff]
    /\ UNCHANGED retryFailures

AttemptFailsOnceMore(q) ==
    /\ query[q] = "attempt"
    /\ \/ attempts[q] <= MaxAttempts /\ Pause(q, Backoff(attempts[q]))
       \/ attempts[q] > MaxAttempts /\ GiveUp(q)

AttemptFailsUncounted(q) ==
    /\ query[q] = "attempt"
    /\ \/ attempts[q] < MaxAttempts /\ Pause(q, Backoff(attempts[q]))
       \/ attempts[q] >= MaxAttempts /\ Settle(q, "failed") /\ UNCHANGED retryFailures

\* The take() of the strategy ends the attempts, and the helper counts the
\* failure.
AttemptFails(q) ==
    /\ query[q] = "attempt"
    /\ \/ attempts[q] < MaxAttempts /\ Pause(q, Backoff(attempts[q]))
       \/ attempts[q] >= MaxAttempts /\ GiveUp(q)

AttemptAgain(q) ==
    /\ query[q] = "pause"
    /\ query' = [query EXCEPT ![q] = "attempt"]
    /\ attempts' = [attempts EXCEPT ![q] = @ + 1]
    /\ pause' = [pause EXCEPT ![q] = 0]
    /\ UNCHANGED retryFailures

\* The call that made a set of queries goes away.
DropQueries(qs) ==
    LET gone == {q \in qs : UnderWay(q)}
    IN  /\ query' = [q \in Queries |-> IF q \in gone THEN "dropped" ELSE query[q]]
        /\ attempts' = [q \in Queries |-> IF q \in gone THEN 0 ELSE attempts[q]]
        /\ pause' = [q \in Queries |-> IF q \in gone THEN 0 ELSE pause[q]]
        /\ UNCHANGED retryFailures

RetryStep(q) == AttemptSucceeds(q) \/ AttemptFails(q) \/ AttemptAgain(q)

-----------------------------------------------------------------------------

RetryTypeOK ==
    /\ query \in [Queries -> QueryStates]
    /\ attempts \in [Queries -> 0..MaxAttempts]
    /\ pause \in [Queries -> 0..MaxBackoff]
    /\ retryFailures \in Nat

\* The counter of exhausted retries is the number of queries that were
\* attempted MaxAttempts times in vain: not the ones that were answered in
\* the end, whose answer was of no use, or whose caller left meanwhile.
ExhaustionCounted == retryFailures = Cardinality({q \in Queries : query[q] = "failed"})

\* README.md:98-99: the pauses start at 200 ms and double.
DocumentedBackoff(k) ==
    LET delay == 200 * 2 ^ (k - 1)
    IN  IF delay > MaxBackoff THEN MaxBackoff ELSE delay

PausesAsDocumented ==
    \A q \in Queries : query[q] = "pause" => pause[q] = DocumentedBackoff(attempts[q])
=============================================================================
