------------------------------ MODULE Middleware ------------------------------
(***************************************************************************)
(* agents/middleware.py: callers that share one CircuitBreaker and one     *)
(* CallBudget and call a dependency through with_retry, or through the     *)
(* breaker alone (then they have one attempt and no budget).  They are     *)
(* threads, or tasks of one event loop.  Every method of the breaker holds *)
(* its lock, and all that lies between two of them interleaves.  The       *)
(* budget has no lock: between threads its check, its read and its write   *)
(* interleave as well; tasks cannot meet there, for consume never awaits.  *)
(*                                                                         *)
(* An operation that is not known to be asynchronous may still return an   *)
(* awaitable.  The wrapper then gives the probe back and returns a         *)
(* _DeferredCoroutine, which the caller may await later, or never.         *)
(*                                                                         *)
(* The breaker's clock is the Boolean `cooling`.  An operation that itself *)
(* raises CircuitOpenError or CallBudgetExceeded (a breaker inside a       *)
(* breaker) is not modelled.                                               *)
(***************************************************************************)
EXTENDS Integers

CONSTANTS
    Caller,
    Budgeted,      \* callers that pay from the shared budget
    Writer,        \* callers whose operation_kind is "write"
    Deferring,     \* callers whose operation may return an awaitable
    Threshold,     \* failure_threshold
    MaxAttempts,   \* max_attempts
    Limit,         \* limit of the budget
    MaxStarted     \* bound: a budgeted caller calls while fewer have started

ASSUME MiddlewareAssumption ==
    /\ Budgeted \subseteq Caller /\ Writer \subseteq Caller /\ Deferring \subseteq Caller
    /\ Threshold \in Nat \ {0} /\ MaxAttempts \in Nat \ {0} /\ Limit \in Nat \ {0}
    /\ MaxStarted \in Nat

VARIABLES
    state,      \* of the breaker: closed, open, half_open
    failures,   \* _failure_count, as far as it is compared with the threshold
    cooling,    \* less than reset_timeout_seconds have passed since _opened_at
    probe,      \* _probe_in_progress
    prober,     \* history: the caller that took the probe last
    threads,    \* the callers are threads; it never changes
    used,       \* CallBudget.used
    read,       \* the value of used a caller is about to increase; 0 elsewhere
    started,    \* history: operations that budgeted callers started
    pc,         \* where each caller is
    attempt,    \* its attempt, from 1
    deferred,   \* the attempt whose operation returned an awaitable; 0 for none
    starts,     \* history: operations it started in this call
    healthy     \* from now on the dependency answers and nobody is cancelled

breaker == <<state, failures, cooling, probe, prober>>
budget == <<used, started, read, threads>>
vars == <<breaker, budget, pc, attempt, deferred, starts, healthy>>

Init ==
    /\ state = "closed" /\ failures = 0 /\ cooling = FALSE /\ probe = FALSE
    /\ prober \in Caller
    /\ threads \in BOOLEAN
    /\ used = 0 /\ started = 0
    /\ read = [c \in Caller |-> 0]
    /\ pc = [c \in Caller |-> "idle"]
    /\ attempt = [c \in Caller |-> 1]
    /\ deferred = [c \in Caller |-> 0]
    /\ starts = [c \in Caller |-> 0]
    /\ healthy = FALSE

-----------------------------------------------------------------------------
(* The methods of the breaker.                                             *)

Refuses == (state = "open" /\ cooling) \/ (state = "half_open" /\ probe)

\* before_call, when it does not raise.
Admit(c) ==
    /\ ~Refuses
    /\ IF state = "closed"
       THEN UNCHANGED breaker
       ELSE state' = "half_open" /\ probe' = TRUE /\ prober' = c
            /\ UNCHANGED <<failures, cooling>>

RecordSuccess ==
    /\ state' = "closed" /\ failures' = 0 /\ cooling' = FALSE /\ probe' = FALSE
    /\ UNCHANGED prober

OpenIf(condition) ==
    IF condition THEN state' = "open" /\ cooling' = TRUE ELSE UNCHANGED <<state, cooling>>

\* record_failure of an error that counts (TransientCallError).
RecordTransient ==
    LET count == IF failures < Threshold THEN failures + 1 ELSE failures
    IN  /\ failures' = count
        /\ OpenIf(state = "half_open" \/ count = Threshold)
        /\ probe' = FALSE
        /\ UNCHANGED prober

\* Mutant: only a failure that counts gives the probe back.
FaultyRecordUncounted == OpenIf(state = "half_open") /\ UNCHANGED <<failures, probe, prober>>

\* record_failure of any other error; record_aborted.
RecordUncounted ==
    /\ OpenIf(state = "half_open")
    /\ probe' = FALSE
    /\ UNCHANGED <<failures, prober>>

\* Mutant: the probe is kept until somebody awaits.
FaultyDeferProbe == UNCHANGED breaker

\* defer_awaitable_probe: open again, but not cooling.
DeferProbe ==
    IF state = "half_open"
    THEN state' = "open" /\ probe' = FALSE /\ UNCHANGED <<failures, cooling, prober>>
    ELSE UNCHANGED breaker

-----------------------------------------------------------------------------
(* A call through the wrapper.                                             *)

At(c, label) == pc[c] = label
GoTo(c, label) == pc' = [pc EXCEPT ![c] = label]
Counters == <<attempt, deferred, starts>>

\* It goes on with the awaitable of this attempt.
Resumed(c) == deferred[c] = attempt[c]

\* A dependency is called again and again; once it is healthy, only by callers
\* whose budget cannot run out.
Call(c) ==
    /\ At(c, "idle")
    /\ c \in Budgeted => ~healthy /\ started < MaxStarted
    /\ GoTo(c, "entering")
    /\ attempt' = [attempt EXCEPT ![c] = 1]
    /\ deferred' = [deferred EXCEPT ![c] = 0]
    /\ starts' = [starts EXCEPT ![c] = 0]
    /\ UNCHANGED <<breaker, budget, healthy>>

\* CircuitOpenError; an awaitable it holds is closed.
Refused(c) ==
    /\ At(c, "entering")
    /\ Refuses
    /\ GoTo(c, "idle")
    /\ UNCHANGED <<breaker, budget, Counters, healthy>>

Admitted(c) ==
    /\ At(c, "entering")
    /\ Admit(c)
    /\ GoTo(c, "admitted")
    /\ UNCHANGED <<budget, Counters, healthy>>

\* The attempt whose awaitable is at hand has been paid for.
Pays(c) == c \in Budgeted /\ ~Resumed(c)

\* In CallBudget.consume, past its check.
Consumes(c) == pc[c] \in {"counting", "storing"}

\* Mutant: consume awaits between its check and its increment.
FaultyMayCheck(c) == TRUE

\* The check may be made while another caller is in consume: by a thread.
MayCheck(c) == threads \/ \A d \in Caller \ {c} : ~Consumes(d)

\* CallBudgetExceeded: consume raises and the probe is given back.
OverBudget(c) ==
    /\ At(c, "admitted")
    /\ Pays(c) /\ MayCheck(c) /\ used >= Limit
    /\ RecordUncounted
    /\ GoTo(c, "idle")
    /\ UNCHANGED <<budget, Counters, healthy>>

CheckBudget(c) ==
    /\ At(c, "admitted")
    /\ Pays(c) /\ MayCheck(c) /\ used < Limit
    /\ GoTo(c, "counting")
    /\ UNCHANGED <<breaker, budget, Counters, healthy>>

\* self.used += 1 reads ...
ReadUsed(c) ==
    /\ At(c, "counting")
    /\ read' = [read EXCEPT ![c] = used]
    /\ GoTo(c, "storing")
    /\ UNCHANGED <<breaker, used, started, threads, Counters, healthy>>

\* ... and writes.  The operation starts.
StoreUsed(c) ==
    /\ At(c, "storing")
    /\ used' = read[c] + 1
    /\ started' = started + 1
    /\ read' = [read EXCEPT ![c] = 0]
    /\ UNCHANGED threads

StartOperation(c) ==
    /\ \/ StoreUsed(c)
       \/ At(c, "admitted") /\ ~Pays(c) /\ UNCHANGED budget
    /\ starts' = (IF Resumed(c) THEN starts ELSE [starts EXCEPT ![c] = @ + 1])
    /\ GoTo(c, "running")
    /\ UNCHANGED <<breaker, attempt, deferred, healthy>>

Succeed(c) ==
    /\ At(c, "running")
    /\ RecordSuccess
    /\ GoTo(c, "idle")
    /\ UNCHANGED <<budget, Counters, healthy>>

\* Writes are never retried, reads and model calls up to max_attempts.
Retries(c) == c \notin Writer /\ attempt[c] < MaxAttempts

FailTransiently(c) ==
    /\ ~healthy
    /\ At(c, "running")
    /\ RecordTransient
    /\ GoTo(c, IF Retries(c) THEN "sleeping" ELSE "idle")
    /\ UNCHANGED <<budget, Counters, healthy>>

\* Any other exception, and one that is none (cancelled, interrupted).
FailForGood(c) ==
    /\ ~healthy
    /\ At(c, "running")
    /\ RecordUncounted
    /\ GoTo(c, "idle")
    /\ UNCHANGED <<budget, Counters, healthy>>

Wake(c) ==
    /\ At(c, "sleeping")
    /\ GoTo(c, "entering")
    /\ attempt' = [attempt EXCEPT ![c] = @ + 1]
    /\ UNCHANGED <<breaker, budget, deferred, starts, healthy>>

\* Cancelled while it sleeps: no except clause sees it, and it holds nothing.
CancelSleep(c) ==
    /\ ~healthy
    /\ At(c, "sleeping")
    /\ GoTo(c, "idle")
    /\ UNCHANGED <<breaker, budget, Counters, healthy>>

\* The synchronous wrapper finds an awaitable.  From then on the continuation
\* runs the call, and simply awaits what later attempts return.
Defer(c) ==
    /\ c \in Deferring
    /\ At(c, "running") /\ deferred[c] = 0
    /\ DeferProbe
    /\ GoTo(c, "deferred")
    /\ deferred' = [deferred EXCEPT ![c] = attempt[c]]
    /\ UNCHANGED <<budget, attempt, starts, healthy>>

\* The deferred coroutine takes its first step.
ResumeDeferred(c) ==
    /\ At(c, "deferred")
    /\ GoTo(c, "entering")
    /\ UNCHANGED <<breaker, budget, Counters, healthy>>

\* It is closed before that, and acquires nothing.
CloseDeferred(c) ==
    /\ ~healthy
    /\ At(c, "deferred")
    /\ GoTo(c, "idle")
    /\ UNCHANGED <<breaker, budget, Counters, healthy>>

-----------------------------------------------------------------------------
Cool ==
    /\ cooling
    /\ cooling' = FALSE
    /\ UNCHANGED <<state, failures, probe, prober, budget, pc, Counters, healthy>>

\* CircuitBreaker.reset, and CallBudget.reset.
ResetBreaker ==
    /\ ~healthy
    /\ RecordSuccess
    /\ UNCHANGED <<budget, pc, Counters, healthy>>

\* Nobody is in consume then.
ResetBudget ==
    /\ \A c \in Caller : ~Consumes(c)
    /\ used' = 0 /\ started' = 0
    /\ UNCHANGED <<read, threads, breaker, pc, Counters, healthy>>

BecomeHealthy ==
    /\ ~healthy /\ healthy' = TRUE
    /\ UNCHANGED <<breaker, budget, pc, Counters>>

GoesOn(c) ==
    \/ Refused(c) \/ Admitted(c) \/ OverBudget(c)
    \/ CheckBudget(c) \/ ReadUsed(c) \/ StartOperation(c)
    \/ Succeed(c) \/ FailTransiently(c) \/ FailForGood(c)
    \/ Wake(c) \/ Defer(c) \/ ResumeDeferred(c)

Next ==
    \/ \E c \in Caller : Call(c) \/ GoesOn(c) \/ CancelSleep(c) \/ CloseDeferred(c)
    \/ Cool \/ ResetBreaker \/ ResetBudget \/ BecomeHealthy

\* Operations return, coroutines are scheduled, time passes, and the callers
\* that need not pay keep calling.
Fairness ==
    /\ \A c \in Caller : WF_vars(GoesOn(c))
    /\ \A c \in Caller \ Budgeted : WF_vars(Call(c))
    /\ WF_vars(Cool)

Spec == Init /\ [][Next]_vars /\ Fairness

-----------------------------------------------------------------------------
Labels == {"idle", "entering", "admitted", "counting", "storing", "running", "sleeping",
           "deferred"}

TypeOK ==
    /\ state \in {"closed", "open", "half_open"}
    /\ failures \in 0 .. Threshold
    /\ cooling \in BOOLEAN /\ probe \in BOOLEAN /\ healthy \in BOOLEAN
    /\ prober \in Caller
    /\ threads \in BOOLEAN
    /\ used \in Nat /\ started \in Nat /\ read \in [Caller -> Nat]
    /\ pc \in [Caller -> Labels]
    /\ attempt \in [Caller -> 1 .. MaxAttempts]
    /\ deferred \in [Caller -> 0 .. MaxAttempts]
    /\ starts \in [Caller -> Nat]

(* A probe is never stranded: while the breaker says that one is in        *)
(* progress it is half-open, and the caller that took it is between        *)
(* before_call and the record of its outcome.  Nobody who was refused by   *)
(* the budget, cancelled, or left with an awaitable it never awaits keeps  *)
(* the breaker shut, and no late outcome of another call confuses it.      *)
NoStrandedProbe ==
    probe => state = "half_open" /\ pc[prober] \in {"admitted", "counting", "storing", "running"}

(* A call starts one operation for each attempt, a write at most one, and  *)
(* tasks pay for every one of them once, never beyond the limit: a retry   *)
(* pays again, going on with an awaitable does not.  Threads that meet in  *)
(* consume may overrun the limit, for a payment may be lost; none is made  *)
(* for an operation that does not start.                                   *)
EveryCallIsPaidOnce ==
    /\ used <= started
    /\ ~threads => used = started /\ used <= Limit
    /\ \A c \in Caller :
          /\ starts[c] <= attempt[c] /\ attempt[c] <= MaxAttempts
          /\ c \in Writer => starts[c] <= 1

(* Once the dependency answers again and only callers that need not pay    *)
(* keep calling, the breaker closes: whatever order the failures came in,  *)
(* no state of the breaker and no half-finished call shuts it for ever,    *)
(* as long as one caller at most defers.                                   *)
Recovers == healthy ~> state = "closed"
=============================================================================
