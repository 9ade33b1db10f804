------------------------------- MODULE Breaker -------------------------------
(***************************************************************************)
(* The circuit breaker and the retries of shared/retry.py: callers wrap an *)
(* async function in @retry_with_backoff around @circuit_breaker.  A call  *)
(* records its result in whatever state the breaker is in by then, which   *)
(* need not be the one that let it through.                                *)
(*                                                                         *)
(* Time is relative: age counts up from the last recorded failure to       *)
(* recovery_timeout, a sleep counts down.  Both counters stop where the    *)
(* code no longer tells values apart, so time itself has no bound.         *)
(* failed and worked, the results recorded in a row, are history.          *)
(***************************************************************************)
EXTENDS Integers

CONSTANTS
    Wrapped,            \* the callers, each with one call at a time
    failure_threshold,
    success_threshold,
    recovery_timeout,   \* in ticks
    max_retries,
    base_delay,         \* in ticks
    max_delay           \* in ticks

ASSUME BreakerAssumption ==
    /\ failure_threshold \in Nat \ {0} /\ success_threshold \in Nat \ {0}
    /\ recovery_timeout \in Nat \ {0}
    /\ max_retries \in Nat /\ base_delay \in Nat /\ max_delay \in Nat

VARIABLES
    state,          \* _state
    failure_count,  \* _failure_count, up to failure_threshold
    success_count,  \* _success_count
    age,            \* time since _last_failure_time, or None
    attempts,       \* the call of each caller
    failed, worked  \* failures and successes recorded in a row

breakerVars == <<state, failure_count, success_count, age, attempts, failed, worked>>

None == -1
UpTo(n, cap) == IF n < cap THEN n ELSE cap

\* RetryConfig.get_delay, in ticks
Delay(attempt) == UpTo(base_delay * 2 ^ attempt, max_delay)

Idles(c) == [attempts EXCEPT ![c] = [pc |-> "idle"]]

\* An exception, recorded or refused, sleeps before the next attempt.
\* Mutant of Retried: a call that keeps failing never gives up.
RetriedForever(c) ==
    [attempts EXCEPT ![c] =
       [pc |-> "asleep", attempt |-> @.attempt, left |-> Delay(@.attempt)]]
Retried(c) ==
    IF attempts[c].attempt < max_retries
    THEN [attempts EXCEPT ![c] =
            [pc |-> "asleep", attempt |-> @.attempt + 1, left |-> Delay(@.attempt)]]
    ELSE Idles(c)

-----------------------------------------------------------------------------
\* The state property: open turns half-open when it is read late enough.
Recovered == state = "open" /\ age # None /\ age >= recovery_timeout

StateRead == IF Recovered THEN "half_open" ELSE state

\* Mutant of SuccessesRead: the successes of an earlier trial still count.
SuccessesKept == success_count
SuccessesRead == IF Recovered THEN 0 ELSE success_count

StartCall(c) ==
    /\ attempts[c].pc = "idle"
    /\ attempts' = [attempts EXCEPT ![c] = [pc |-> "try", attempt |-> 0]]
    /\ UNCHANGED <<state, failure_count, success_count, age, failed, worked>>

WakeUp(c) ==
    /\ attempts[c].pc = "asleep"
    /\ attempts[c].left = 0
    /\ attempts' = [attempts EXCEPT ![c] = [pc |-> "try", attempt |-> @.attempt]]
    /\ UNCHANGED <<state, failure_count, success_count, age, failed, worked>>

AllowRequest(c) ==
    /\ attempts[c].pc = "try"
    /\ StateRead # "open"
    /\ state' = StateRead
    /\ success_count' = SuccessesRead
    /\ attempts' = [attempts EXCEPT ![c].pc = "running"]
    /\ UNCHANGED <<failure_count, age, failed, worked>>

\* "Circuit is open" is raised outside the try: it is not recorded.
\* Mutant of RefusedAge: it is recorded as one more failure.
RecordedAge == 0
RefusedAge == age

RejectRequest(c) ==
    /\ attempts[c].pc = "try"
    /\ StateRead = "open"
    /\ attempts' = Retried(c)
    /\ age' = RefusedAge
    /\ UNCHANGED <<state, failure_count, success_count, failed, worked>>

-----------------------------------------------------------------------------
Closes == state = "half_open" /\ success_count + 1 >= success_threshold

\* Mutant of FailuresAfterSuccess: closing does not forget the failures.
FailuresRemembered == IF state = "half_open" THEN failure_count ELSE 0
FailuresAfterSuccess == IF state = "half_open" /\ ~Closes THEN failure_count ELSE 0

RecordSuccess(c) ==
    /\ attempts[c].pc = "running"
    /\ state' = IF Closes THEN "closed" ELSE state
    /\ success_count' = IF state = "half_open" THEN success_count + 1 ELSE success_count
    /\ failure_count' = FailuresAfterSuccess
    /\ attempts' = Idles(c)
    /\ failed' = 0
    /\ worked' = UpTo(worked + 1, success_threshold)
    /\ UNCHANGED age

\* Also while open: the time of the last failure moves on.
RecordFailure(c) ==
    /\ attempts[c].pc = "running"
    /\ failure_count' = UpTo(failure_count + 1, failure_threshold)
    /\ age' = 0
    /\ state' = IF \/ state = "half_open"
                   \/ state = "closed" /\ failure_count + 1 >= failure_threshold
                THEN "open" ELSE state
    /\ attempts' = Retried(c)
    /\ failed' = UpTo(failed + 1, failure_threshold)
    /\ worked' = 0
    /\ UNCHANGED success_count

Reset ==
    /\ state' = "closed" /\ failure_count' = 0 /\ success_count' = 0 /\ age' = None
    /\ UNCHANGED <<attempts, failed, worked>>

\* get_stats reads the state property.
GetStats ==
    /\ state' = StateRead /\ success_count' = SuccessesRead
    /\ UNCHANGED <<failure_count, age, attempts, failed, worked>>

BreakerTick ==
    /\ age' = IF age = None THEN None ELSE UpTo(age + 1, recovery_timeout)
    /\ attempts' = [c \in Wrapped |->
         IF attempts[c].pc = "asleep" /\ attempts[c].left > 0
         THEN [attempts[c] EXCEPT !.left = @ - 1] ELSE attempts[c]]
    /\ UNCHANGED <<state, failure_count, success_count, failed, worked>>

BreakerInit ==
    /\ state = "closed" /\ failure_count = 0 /\ success_count = 0 /\ age = None
    /\ attempts = [c \in Wrapped |-> [pc |-> "idle"]]
    /\ failed = 0 /\ worked = 0

BreakerNext ==
    \/ Reset \/ GetStats \/ BreakerTick
    \/ \E c \in Wrapped :
         \/ StartCall(c) \/ WakeUp(c) \/ AllowRequest(c) \/ RejectRequest(c)
         \/ RecordSuccess(c) \/ RecordFailure(c)

\* What the event loop owes a call: a timer that is due fires, a task that
\* can run does, and the wrapped function returns or raises.
Proceed(c) ==
    WakeUp(c) \/ AllowRequest(c) \/ RejectRequest(c) \/ RecordSuccess(c) \/ RecordFailure(c)

BreakerFairness == WF_breakerVars(BreakerTick) /\ \A c \in Wrapped : WF_breakerVars(Proceed(c))

BreakerSpec == BreakerInit /\ [][BreakerNext]_breakerVars /\ BreakerFairness

-----------------------------------------------------------------------------
(* CLOSED -> OPEN takes failure_threshold consecutive failures: none of     *)
(* them from before the last success or the last recovery, whichever calls  *)
(* report late.                                                             *)
OpensAfterARow ==
    [][state = "closed" /\ state' = "open" => failed' >= failure_threshold]_breakerVars

(* HALF_OPEN -> CLOSED takes success_threshold consecutive successes, none  *)
(* of them from an earlier trial, unless somebody resets the breaker.       *)
ClosesAfterARow ==
    [][state # "closed" /\ state' = "closed"
         => worked' >= success_threshold \/ age' = None]_breakerVars

(* An open breaker always lets requests through again, however many callers *)
(* are refused meanwhile and however late earlier calls still fail.         *)
Refusing == StateRead = "open"
OpenEnds == Refusing ~> ~Refusing

(* Every wrapped call returns or raises: the retries run out.               *)
CallsEnd == \A c \in Wrapped : (attempts[c].pc # "idle") ~> (attempts[c].pc = "idle")
=============================================================================
