-------------------------- MODULE MiddlewareProofs --------------------------
(***************************************************************************)
(* Proofs about Middleware, for any callers, any threshold, any number of  *)
(* attempts and any limit: the breaker never strands a probe, and every    *)
(* operation that starts is paid for, by tasks of one event loop once.     *)
(*                                                                         *)
(* NoStrandedProbe is inductive together with TypeOK.  EveryCallIsPaidOnce *)
(* needs to know how many operations a call has started wherever it may    *)
(* be (Accounted); that what a caller read in consume is not more than     *)
(* what has started (NoneForNothing); and, for tasks, that whoever is past *)
(* the check of consume is there alone, so that what it checked and read   *)
(* is still true when it writes (CheckedIsCurrent).                        *)
(***************************************************************************)
EXTENDS Middleware, TLAPS

\* The operations a caller has started in this call: one for each attempt,
\* the present one included once it runs.
Accounted(c) ==
    /\ deferred[c] <= attempt[c]
    /\ starts[c] <= attempt[c]
    /\ pc[c] \in {"entering", "admitted", "counting", "storing"} /\ deferred[c] # attempt[c] =>
          starts[c] = attempt[c] - 1
    /\ Consumes(c) => deferred[c] # attempt[c]
    /\ pc[c] = "deferred" => deferred[c] = attempt[c]
    /\ pc[c] \in {"running", "deferred", "sleeping"} => starts[c] = attempt[c]
    /\ pc[c] \in {"entering", "admitted", "counting", "storing"} /\ deferred[c] = attempt[c] =>
          starts[c] = attempt[c]
    /\ pc[c] = "sleeping" => c \notin Writer /\ attempt[c] < MaxAttempts
    /\ c \in Writer => attempt[c] <= 1

\* What is in use or about to be written is covered by what has started.
NoneForNothing ==
    used <= started /\ \A c \in Caller : pc[c] = "storing" => read[c] <= started

\* Of tasks at most one is past the check, and nothing has changed since.
CheckedIsCurrent ==
    /\ used = started /\ used <= Limit
    /\ \A c \in Caller :
          /\ Consumes(c) => used < Limit
          /\ pc[c] = "storing" => read[c] = used
    /\ \A c, d \in Caller : Consumes(c) /\ Consumes(d) => c = d

BudgetInv ==
    /\ NoneForNothing
    /\ ~threads => CheckedIsCurrent
    /\ \A c \in Caller : Accounted(c)

-----------------------------------------------------------------------------
(* The breaker.                                                            *)

(* Whatever a caller does, the breaker stays in one of its three states    *)
(* and its count between zero and the threshold.                           *)
LEMMA BreakerType ==
  ASSUME TypeOK, NEW c \in Caller,
         \/ Admit(c) \/ RecordSuccess \/ RecordTransient \/ RecordUncounted \/ DeferProbe
         \/ UNCHANGED breaker
  PROVE  /\ state' \in {"closed", "open", "half_open"}
         /\ failures' \in 0 .. Threshold
         /\ cooling' \in BOOLEAN /\ probe' \in BOOLEAN
         /\ prober' \in Caller
<1> USE MiddlewareAssumption DEF MiddlewareAssumption, TypeOK, breaker, OpenIf
<1>1. CASE Admit(c)
  BY <1>1 DEF Admit
<1>2. CASE RecordSuccess
  <2>1. 0 \in 0 .. Threshold
    OBVIOUS
  <2> QED BY <1>2, <2>1 DEF RecordSuccess
<1>3. CASE RecordTransient
  <2>1. failures' \in 0 .. Threshold
    BY <1>3 DEF RecordTransient
  <2> QED BY <2>1, <1>3 DEF RecordTransient
<1>4. CASE RecordUncounted
  BY <1>4 DEF RecordUncounted
<1>5. CASE DeferProbe
  BY <1>5 DEF DeferProbe
<1>6. CASE UNCHANGED breaker
  BY <1>6
<1> QED BY <1>1, <1>2, <1>3, <1>4, <1>5, <1>6

-----------------------------------------------------------------------------
(* Type correctness.                                                       *)

(* No call and no step of one leaves a variable with a value outside its   *)
(* type; above all there is no attempt beyond max_attempts.                *)
LEMMA NextTypeOK == TypeOK /\ BudgetInv /\ [Next]_vars => TypeOK'
<1> SUFFICES ASSUME TypeOK, BudgetInv, [Next]_vars PROVE TypeOK'
  OBVIOUS
<1> USE MiddlewareAssumption DEF MiddlewareAssumption
<1>1. ASSUME NEW c \in Caller, Call(c) PROVE TypeOK'
  BY <1>1 DEF Call, At, GoTo, TypeOK, Labels, breaker, budget
<1>2. ASSUME NEW c \in Caller, Refused(c) \/ ResumeDeferred(c) \/ CancelSleep(c) \/ CloseDeferred(c)
      PROVE TypeOK'
  BY <1>2 DEF Refused, ResumeDeferred, CancelSleep, CloseDeferred, At, GoTo, TypeOK, Labels,
              breaker, budget, Counters
<1>3. ASSUME NEW c \in Caller, Admitted(c) PROVE TypeOK'
  BY <1>3, BreakerType DEF Admitted, At, GoTo, TypeOK, Labels, budget, Counters
<1>4. ASSUME NEW c \in Caller, OverBudget(c) \/ FailForGood(c) PROVE TypeOK'
  BY <1>4, BreakerType DEF OverBudget, FailForGood, At, GoTo, TypeOK, Labels, budget, Counters
<1>5. ASSUME NEW c \in Caller, StartOperation(c) PROVE TypeOK'
  <2>1. threads' \in BOOLEAN /\ used' \in Nat /\ started' \in Nat /\ read' \in [Caller -> Nat]
    BY <1>5 DEF StartOperation, StoreUsed, TypeOK, budget
  <2>2. starts' \in [Caller -> Nat]
    BY <1>5 DEF StartOperation, TypeOK
  <2> QED BY <1>5, <2>1, <2>2 DEF StartOperation, At, GoTo, TypeOK, Labels, breaker
<1>6. ASSUME NEW c \in Caller, Succeed(c) PROVE TypeOK'
  BY <1>6, BreakerType DEF Succeed, At, GoTo, TypeOK, Labels, budget, Counters
<1>7. ASSUME NEW c \in Caller, FailTransiently(c) PROVE TypeOK'
  <2>1. pc' \in [Caller -> Labels]
    BY <1>7 DEF FailTransiently, GoTo, TypeOK, Labels
  <2> QED BY <1>7, <2>1, BreakerType DEF FailTransiently, TypeOK, budget, Counters
<1>8. ASSUME NEW c \in Caller, Wake(c) PROVE TypeOK'
  <2>1. attempt[c] < MaxAttempts
    BY <1>8 DEF Wake, At, BudgetInv, Accounted
  <2> QED BY <1>8, <2>1 DEF Wake, At, GoTo, TypeOK, Labels, breaker, budget
<1>9. ASSUME NEW c \in Caller, Defer(c) PROVE TypeOK'
  <2>1. deferred' \in [Caller -> 0 .. MaxAttempts]
    BY <1>9 DEF Defer, TypeOK
  <2> QED BY <1>9, <2>1, BreakerType DEF Defer, At, GoTo, TypeOK, Labels, budget
<1>10. CASE Cool
  BY <1>10 DEF Cool, TypeOK, budget, Counters
<1>11. CASE ResetBreaker
  <2>1. PICK c \in Caller : c = prober
    BY DEF TypeOK
  <2> QED BY <1>11, <2>1, BreakerType DEF ResetBreaker, TypeOK, budget, Counters
<1>12. CASE ResetBudget \/ BecomeHealthy
  <2>1. threads' \in BOOLEAN /\ used' \in Nat /\ started' \in Nat /\ read' \in [Caller -> Nat]
    BY <1>12 DEF ResetBudget, BecomeHealthy, TypeOK, budget
  <2>2. UNCHANGED <<breaker, pc, Counters>> /\ healthy' \in BOOLEAN
    BY <1>12 DEF ResetBudget, BecomeHealthy, TypeOK
  <2> QED BY <2>1, <2>2 DEF TypeOK, breaker, Counters
<1>13. CASE UNCHANGED vars
  BY <1>13 DEF vars, breaker, budget, TypeOK
<1>14. ASSUME NEW c \in Caller, CheckBudget(c) \/ ReadUsed(c) PROVE TypeOK'
  BY <1>14 DEF CheckBudget, ReadUsed, At, GoTo, TypeOK, Labels, breaker, budget, Counters
<1>15. ASSUME NEW c \in Caller, Call(c) \/ GoesOn(c) \/ CancelSleep(c) \/ CloseDeferred(c)
       PROVE TypeOK'
  <2>1. CASE Call(c)
    BY <1>1, <2>1
  <2>2. CASE GoesOn(c)
    BY <1>2, <1>3, <1>4, <1>5, <1>6, <1>7, <1>8, <1>9, <1>14, <2>2 DEF GoesOn
  <2>3. CASE CancelSleep(c) \/ CloseDeferred(c)
    BY <1>2, <2>3
  <2> QED BY <1>15, <2>1, <2>2, <2>3
<1> QED BY <1>10, <1>11, <1>12, <1>13, <1>15 DEF Next

-----------------------------------------------------------------------------
(* The budget.                                                             *)

(* The steps of a call that do not touch the budget: all but the check,    *)
(* the read and the write of consume.                                      *)
LEMMA OutsideConsume ==
  ASSUME TypeOK, NEW c \in Caller,
         Call(c) \/ GoesOn(c) \/ CancelSleep(c) \/ CloseDeferred(c)
  PROVE  \/ CheckBudget(c) \/ ReadUsed(c)
         \/ StoreUsed(c) /\ At(c, "storing") /\ GoTo(c, "running")
         \/ /\ UNCHANGED budget
            /\ ~Consumes(c)'
            /\ \A d \in Caller \ {c} : pc'[d] = pc[d]
<1>1. CASE StartOperation(c)
  BY <1>1 DEF StartOperation, StoreUsed, GoTo, TypeOK, Consumes
<1>2. CASE Call(c) \/ CancelSleep(c) \/ CloseDeferred(c)
  BY <1>2 DEF Call, CancelSleep, CloseDeferred, GoTo, TypeOK, Consumes
<1>3. CASE \/ Refused(c) \/ Admitted(c) \/ OverBudget(c) \/ Succeed(c) \/ FailForGood(c)
           \/ Wake(c) \/ Defer(c) \/ ResumeDeferred(c)
  BY <1>3 DEF Refused, Admitted, OverBudget, Succeed, FailForGood, Wake, Defer, ResumeDeferred,
              GoTo, TypeOK, Consumes
<1>4. CASE FailTransiently(c)
  BY <1>4 DEF FailTransiently, GoTo, TypeOK, Consumes
<1> QED BY <1>1, <1>2, <1>3, <1>4 DEF GoesOn

(* A payment that is written was read before one more operation started:   *)
(* the budget never counts an operation that does not start.               *)
LEMMA CallKeepsCovered ==
  ASSUME TypeOK, NoneForNothing, NEW c \in Caller,
         Call(c) \/ GoesOn(c) \/ CancelSleep(c) \/ CloseDeferred(c)
  PROVE  NoneForNothing'
<1>0. /\ used \in Nat /\ started \in Nat /\ read \in [Caller -> Nat]
      /\ pc \in [Caller -> Labels]
  BY DEF TypeOK
<1>1. CASE UNCHANGED budget /\ ~Consumes(c)' /\ \A d \in Caller \ {c} : pc'[d] = pc[d]
  BY <1>1 DEF budget, NoneForNothing, Consumes
<1>2. CASE CheckBudget(c)
  BY <1>0, <1>2 DEF CheckBudget, GoTo, budget, NoneForNothing
<1>3. CASE ReadUsed(c)
  BY <1>0, <1>3 DEF ReadUsed, GoTo, NoneForNothing
<1>4. CASE StoreUsed(c) /\ At(c, "storing") /\ GoTo(c, "running")
  <2>1. /\ pc[c] = "storing" /\ pc' = [pc EXCEPT ![c] = "running"]
        /\ used' = read[c] + 1 /\ started' = started + 1 /\ read' = [read EXCEPT ![c] = 0]
    BY <1>4 DEF StoreUsed, At, GoTo
  <2>2. used' <= started'
    BY <1>0, <2>1 DEF NoneForNothing
  <2>3. ASSUME NEW d \in Caller, pc'[d] = "storing" PROVE read'[d] <= started'
    BY <1>0, <2>1, <2>3 DEF NoneForNothing
  <2> QED BY <2>2, <2>3 DEF NoneForNothing
<1> QED BY <1>1, <1>2, <1>3, <1>4, OutsideConsume

(* Tasks do not meet in consume: whoever passes the check is alone there,  *)
(* and what it checked and read is true until it writes.                   *)
LEMMA CallKeepsCurrent ==
  ASSUME TypeOK, CheckedIsCurrent, ~threads, NEW c \in Caller,
         Call(c) \/ GoesOn(c) \/ CancelSleep(c) \/ CloseDeferred(c)
  PROVE  CheckedIsCurrent'
<1> USE MiddlewareAssumption DEF MiddlewareAssumption
<1>0. used \in Nat /\ read \in [Caller -> Nat] /\ pc \in [Caller -> Labels]
  BY DEF TypeOK
<1>1. CASE UNCHANGED budget /\ ~Consumes(c)' /\ \A d \in Caller \ {c} : pc'[d] = pc[d]
  BY <1>1 DEF budget, CheckedIsCurrent, Consumes
<1>2. CASE CheckBudget(c)
  <2>1. UNCHANGED budget /\ used < Limit /\ \A d \in Caller \ {c} : ~Consumes(d)
    BY <1>2 DEF CheckBudget, MayCheck
  <2>2. pc' = [pc EXCEPT ![c] = "counting"]
    BY <1>2 DEF CheckBudget, GoTo
  <2> QED BY <1>0, <2>1, <2>2 DEF budget, CheckedIsCurrent, Consumes
<1>3. CASE ReadUsed(c)
  <2>1. Consumes(c) /\ UNCHANGED <<used, started>> /\ read' = [read EXCEPT ![c] = used]
    BY <1>3 DEF ReadUsed, At, Consumes
  <2>2. pc' = [pc EXCEPT ![c] = "storing"]
    BY <1>3 DEF ReadUsed, GoTo
  <2> QED BY <1>0, <2>1, <2>2 DEF CheckedIsCurrent, Consumes
<1>4. CASE StoreUsed(c) /\ At(c, "storing") /\ GoTo(c, "running")
  <2>1. /\ Consumes(c) /\ pc[c] = "storing" /\ pc' = [pc EXCEPT ![c] = "running"]
        /\ used' = read[c] + 1 /\ started' = started + 1
    BY <1>4 DEF StoreUsed, At, GoTo, Consumes
  <2>2. read[c] = used /\ used = started /\ used < Limit
    BY <2>1 DEF CheckedIsCurrent
  <2>3. ASSUME NEW d \in Caller PROVE ~Consumes(d)'
    BY <1>0, <2>1 DEF CheckedIsCurrent, Consumes
  <2>4. \A d \in Caller : pc'[d] # "storing"
    BY <2>3 DEF Consumes
  <2> QED BY <1>0, <2>1, <2>2, <2>3, <2>4 DEF CheckedIsCurrent
<1> QED BY <1>1, <1>2, <1>3, <1>4, OutsideConsume

(* Nobody else's account changes with a step of a call.                    *)
LEMMA OthersKeepAccounts ==
  ASSUME TypeOK, NEW c \in Caller, NEW d \in Caller, d # c, Accounted(d),
         Call(c) \/ GoesOn(c) \/ CancelSleep(c) \/ CloseDeferred(c)
  PROVE  Accounted(d)'
<1>1. pc'[d] = pc[d] /\ attempt'[d] = attempt[d] /\ deferred'[d] = deferred[d]
      /\ starts'[d] = starts[d]
  BY DEF TypeOK, GoTo, Counters, Call, GoesOn, CancelSleep, CloseDeferred, Refused, Admitted,
         OverBudget, CheckBudget, ReadUsed, StartOperation, Succeed, FailTransiently, FailForGood,
         Wake, Defer, ResumeDeferred
<1> QED BY <1>1 DEF Accounted, Consumes

(* Whatever a call does next, the budget counts no operation that has not  *)
(* started, that of tasks counts every one, and each caller has started    *)
(* one operation for each of its attempts.                                 *)
LEMMA NextBudgetInv == TypeOK /\ BudgetInv /\ [Next]_vars => BudgetInv'
<1> SUFFICES ASSUME TypeOK, BudgetInv, [Next]_vars PROVE BudgetInv'
  OBVIOUS
<1> USE MiddlewareAssumption DEF MiddlewareAssumption
<1>0. ASSUME UNCHANGED budget, UNCHANGED <<pc, attempt, deferred, starts>>
      PROVE  BudgetInv'
  BY <1>0 DEF BudgetInv, Accounted, NoneForNothing, CheckedIsCurrent, Consumes, budget
<1>1. ASSUME NEW c \in Caller, Call(c) \/ GoesOn(c) \/ CancelSleep(c) \/ CloseDeferred(c),
             Accounted(c)'
      PROVE  BudgetInv'
  <2>1. threads' = threads
    BY <1>1, OutsideConsume DEF CheckBudget, ReadUsed, StoreUsed, budget
  <2>2. NoneForNothing'
    BY <1>1, CallKeepsCovered DEF BudgetInv
  <2>3. ~threads => CheckedIsCurrent'
    BY <1>1, CallKeepsCurrent DEF BudgetInv
  <2>4. ASSUME NEW d \in Caller, d # c PROVE Accounted(d)'
    BY <1>1, <2>4, OthersKeepAccounts DEF BudgetInv
  <2> QED BY <1>1, <2>1, <2>2, <2>3, <2>4 DEF BudgetInv
<1>2. ASSUME NEW c \in Caller, Call(c) \/ GoesOn(c) \/ CancelSleep(c) \/ CloseDeferred(c)
      PROVE  Accounted(c)'
  <2>0. Accounted(c)
    BY DEF BudgetInv
  <2>1. /\ attempt[c] \in 1 .. MaxAttempts /\ deferred[c] \in 0 .. MaxAttempts
        /\ starts[c] \in Nat /\ pc[c] \in Labels
    BY DEF TypeOK
  <2>2. CASE Call(c)
    BY <2>2 DEF Call, GoTo, TypeOK, Accounted, Consumes
  <2>3. CASE Refused(c) \/ OverBudget(c) \/ Succeed(c) \/ FailForGood(c) \/ CancelSleep(c) \/ CloseDeferred(c)
    <3>1. pc'[c] = "idle" /\ UNCHANGED Counters
      BY <2>3 DEF Refused, OverBudget, Succeed, FailForGood, CancelSleep, CloseDeferred, GoTo, TypeOK
    <3> QED BY <3>1, <2>0 DEF Accounted, Consumes, Counters
  <2>4. CASE Admitted(c) \/ CheckBudget(c) \/ ReadUsed(c)
    <3>1. CASE Admitted(c)
      <4>1. pc[c] = "entering" /\ pc'[c] = "admitted" /\ UNCHANGED Counters
        BY <3>1 DEF Admitted, GoTo, At, TypeOK
      <4> QED BY <4>1, <2>0 DEF Accounted, Consumes, Counters
    <3>2. CASE CheckBudget(c)
      <4>1. /\ pc[c] = "admitted" /\ pc'[c] = "counting" /\ UNCHANGED Counters
            /\ deferred[c] # attempt[c]
        BY <3>2 DEF CheckBudget, Pays, Resumed, GoTo, At, TypeOK
      <4> QED BY <4>1, <2>0 DEF Accounted, Consumes, Counters
    <3>3. CASE ReadUsed(c)
      <4>1. pc[c] = "counting" /\ pc'[c] = "storing" /\ UNCHANGED Counters
        BY <3>3 DEF ReadUsed, GoTo, At, TypeOK
      <4> QED BY <4>1, <2>0 DEF Accounted, Consumes, Counters
    <3> QED BY <2>4, <3>1, <3>2, <3>3
  <2>5. CASE StartOperation(c)
    <3>1. /\ pc[c] \in {"admitted", "storing"} /\ pc'[c] = "running"
          /\ UNCHANGED <<attempt, deferred>>
      BY <2>5 DEF StartOperation, StoreUsed, GoTo, At, TypeOK
    <3>2. starts'[c] = IF deferred[c] = attempt[c] THEN starts[c] ELSE starts[c] + 1
      BY <2>5 DEF StartOperation, Resumed, TypeOK
    <3>3. starts'[c] = attempt[c]
      BY <3>1, <3>2, <2>0, <2>1 DEF Accounted, Consumes
    <3> QED BY <3>1, <3>3, <2>0, <2>1 DEF Accounted, Consumes
  <2>6. CASE FailTransiently(c)
    <3>1. pc[c] = "running" /\ UNCHANGED Counters
      BY <2>6 DEF FailTransiently, At
    <3>2. \/ pc'[c] = "idle"
          \/ pc'[c] = "sleeping" /\ c \notin Writer /\ attempt[c] < MaxAttempts
      BY <2>6 DEF FailTransiently, GoTo, Retries, TypeOK
    <3> QED BY <3>1, <3>2, <2>0 DEF Accounted, Consumes, Counters
  <2>7. CASE Wake(c)
    <3>1. /\ pc[c] = "sleeping" /\ pc'[c] = "entering"
          /\ attempt'[c] = attempt[c] + 1 /\ UNCHANGED <<deferred, starts>>
      BY <2>7 DEF Wake, GoTo, At, TypeOK
    <3> QED BY <3>1, <2>0, <2>1 DEF Accounted, Consumes
  <2>8. CASE Defer(c)
    <3>1. /\ pc[c] = "running" /\ pc'[c] = "deferred"
          /\ deferred'[c] = attempt[c] /\ UNCHANGED <<attempt, starts>>
      BY <2>8 DEF Defer, GoTo, At, TypeOK
    <3> QED BY <3>1, <2>0, <2>1 DEF Accounted, Consumes
  <2>9. CASE ResumeDeferred(c)
    <3>1. pc[c] = "deferred" /\ pc'[c] = "entering" /\ UNCHANGED Counters
      BY <2>9 DEF ResumeDeferred, GoTo, At, TypeOK
    <3> QED BY <3>1, <2>0 DEF Accounted, Consumes, Counters
  <2> QED BY <1>2, <2>2, <2>3, <2>4, <2>5, <2>6, <2>7, <2>8, <2>9 DEF GoesOn
<1>3. CASE Cool \/ ResetBreaker \/ BecomeHealthy \/ UNCHANGED vars
  BY <1>3, <1>0 DEF Cool, ResetBreaker, BecomeHealthy, vars, Counters
<1>4. CASE ResetBudget
  <2>1. /\ \A c \in Caller : ~Consumes(c) /\ UNCHANGED <<read, threads, pc, Counters>>
        /\ used' = 0 /\ started' = 0
    BY <1>4 DEF ResetBudget
  <2>2. \A c \in Caller : Accounted(c)' /\ ~Consumes(c)' /\ pc'[c] # "storing"
    BY <2>1 DEF BudgetInv, Accounted, Consumes, Counters
  <2>3. NoneForNothing'
    BY <2>1, <2>2 DEF NoneForNothing
  <2> QED BY <2>1, <2>2, <2>3 DEF BudgetInv, CheckedIsCurrent
<1> QED BY <1>0, <1>1, <1>2, <1>3, <1>4 DEF Next

(* Initially nothing has been paid and nothing started.                    *)
LEMMA InitBudget == Init => TypeOK /\ BudgetInv
<1> SUFFICES ASSUME Init PROVE TypeOK /\ BudgetInv
  OBVIOUS
<1>1. 0 \in 0 .. Threshold /\ 0 \in 0 .. MaxAttempts /\ 1 \in 1 .. MaxAttempts
  BY MiddlewareAssumption DEF MiddlewareAssumption
<1>2. TypeOK
  BY <1>1 DEF Init, TypeOK, Labels
<1>3. BudgetInv
  BY MiddlewareAssumption
     DEF MiddlewareAssumption, Init, BudgetInv, NoneForNothing, CheckedIsCurrent, Consumes, Accounted
<1> QED BY <1>2, <1>3

(* The middleware's variables stay well-typed, with no attempt beyond      *)
(* max_attempts; the budget counts no operation that has not started, and  *)
(* for tasks every one, whatever interleaves outside of consume.           *)
THEOREM MiddlewareTypeCorrect == Spec => [](TypeOK /\ BudgetInv)
<1>1. Init => TypeOK /\ BudgetInv
  BY InitBudget
<1>2. TypeOK /\ BudgetInv /\ [Next]_vars => (TypeOK /\ BudgetInv)'
  BY NextTypeOK, NextBudgetInv
<1> QED BY <1>1, <1>2, PTL DEF Spec

(* For any callers: a call starts one operation for each attempt at most,  *)
(* a write one; tasks pay for each of them once and never beyond the       *)
(* limit, although nothing locks the budget; and whatever threads do in    *)
(* consume, none pays for an operation that does not start.                *)
THEOREM PaidOnce == Spec => []EveryCallIsPaidOnce
<1>1. TypeOK /\ BudgetInv => EveryCallIsPaidOnce
  <2> SUFFICES ASSUME TypeOK, BudgetInv PROVE EveryCallIsPaidOnce
    OBVIOUS
  <2>1. used <= started /\ (~threads => used = started /\ used <= Limit)
    BY DEF BudgetInv, NoneForNothing, CheckedIsCurrent
  <2>2. ASSUME NEW c \in Caller
        PROVE  /\ starts[c] <= attempt[c] /\ attempt[c] <= MaxAttempts
               /\ c \in Writer => starts[c] <= 1
    <3>1. /\ attempt[c] \in 1 .. MaxAttempts /\ starts[c] \in Nat
      BY DEF TypeOK
    <3> QED BY <3>1, MiddlewareAssumption DEF MiddlewareAssumption, BudgetInv, Accounted
  <2> QED BY <2>1, <2>2 DEF EveryCallIsPaidOnce
<1> QED BY <1>1, MiddlewareTypeCorrect, PTL

-----------------------------------------------------------------------------
(* The probe.                                                              *)

(* A step of a caller or of the clock keeps the probe with the caller that *)
(* took it: a probe is taken where none is in progress, and whoever        *)
(* records an outcome, its own or a late one, ends the probe.              *)
LEMMA NextProbe == TypeOK /\ NoStrandedProbe /\ [Next]_vars => NoStrandedProbe'
<1> SUFFICES ASSUME TypeOK, NoStrandedProbe, [Next]_vars, probe'
             PROVE  state' = "half_open" /\ pc'[prober'] \in {"admitted", "counting", "storing", "running"}
  BY DEF NoStrandedProbe
<1>0. probe = TRUE \/ probe = FALSE
  BY DEF TypeOK
<1>1. ~(RecordSuccess \/ RecordTransient \/ RecordUncounted)
  BY DEF RecordSuccess, RecordTransient, RecordUncounted
<1>2. ASSUME NEW c \in Caller, UNCHANGED breaker,
             pc' = [pc EXCEPT ![c] = pc'[c]],
             pc[c] \notin {"admitted", "counting", "storing", "running"} \/ pc'[c] \in {"admitted", "counting", "storing", "running"}
      PROVE  state' = "half_open" /\ pc'[prober'] \in {"admitted", "counting", "storing", "running"}
  BY <1>2 DEF breaker, NoStrandedProbe, TypeOK
<1>3. ASSUME NEW c \in Caller,
             \/ Call(c) \/ Refused(c) \/ CheckBudget(c) \/ ReadUsed(c) \/ StartOperation(c) \/ Wake(c) \/ CancelSleep(c)
             \/ ResumeDeferred(c) \/ CloseDeferred(c)
      PROVE  state' = "half_open" /\ pc'[prober'] \in {"admitted", "counting", "storing", "running"}
  <2>1. UNCHANGED breaker /\ \E l \in Labels : pc' = [pc EXCEPT ![c] = l]
    BY <1>3 DEF Call, Refused, CheckBudget, ReadUsed, StartOperation, StoreUsed, Wake, CancelSleep, ResumeDeferred, CloseDeferred, GoTo,
               Labels
  <2>2. pc[c] \notin {"admitted", "counting", "storing", "running"} \/ pc'[c] \in {"admitted", "counting", "storing", "running"}
    BY <1>3 DEF Call, Refused, CheckBudget, ReadUsed, StartOperation, StoreUsed, Wake, CancelSleep, ResumeDeferred, CloseDeferred, GoTo,
               At, TypeOK
  <2>3. pc' = [pc EXCEPT ![c] = pc'[c]]
    BY <2>1 DEF TypeOK
  <2> QED BY <1>2, <2>1, <2>2, <2>3
<1>4. ASSUME NEW c \in Caller, Admitted(c)
      PROVE  state' = "half_open" /\ pc'[prober'] \in {"admitted", "counting", "storing", "running"}
  <2>1. CASE state = "closed"
    BY <1>0, <1>4, <2>1 DEF Admitted, Admit, breaker, NoStrandedProbe
  <2>2. CASE state # "closed"
    BY <1>4, <2>2 DEF Admitted, Admit, GoTo, TypeOK
  <2> QED BY <2>1, <2>2
<1>5. ASSUME NEW c \in Caller, OverBudget(c) \/ Succeed(c) \/ FailTransiently(c) \/ FailForGood(c)
      PROVE  FALSE
  BY <1>5, <1>1 DEF OverBudget, Succeed, FailTransiently, FailForGood
<1>6. ASSUME NEW c \in Caller, Defer(c) PROVE FALSE
  <2>1. state # "half_open" /\ UNCHANGED breaker
    BY <1>6 DEF Defer, DeferProbe
  <2> QED BY <1>0, <2>1 DEF breaker, NoStrandedProbe
<1>7. CASE ResetBreaker
  BY <1>7 DEF ResetBreaker, RecordSuccess
<1>8. CASE Cool \/ ResetBudget \/ BecomeHealthy \/ UNCHANGED vars
  <2>1. UNCHANGED <<state, probe, prober, pc>>
    BY <1>8 DEF Cool, ResetBudget, BecomeHealthy, vars, breaker
  <2> QED BY <1>0, <2>1 DEF NoStrandedProbe
<1>9. ASSUME NEW c \in Caller, Call(c) \/ GoesOn(c) \/ CancelSleep(c) \/ CloseDeferred(c)
      PROVE  state' = "half_open" /\ pc'[prober'] \in {"admitted", "counting", "storing", "running"}
  BY <1>3, <1>4, <1>5, <1>6, <1>9 DEF GoesOn
<1> QED BY <1>7, <1>8, <1>9 DEF Next

(* A probe is never stranded, however many callers share the breaker and   *)
(* wherever they are refused, cancelled or left: while one is in progress  *)
(* the breaker is half-open and the caller that took it is still on its    *)
(* way to record an outcome.                                               *)
THEOREM ProbeIsNeverStranded == Spec => []NoStrandedProbe
<1>1. Init => NoStrandedProbe
  BY DEF Init, NoStrandedProbe
<1> QED BY <1>1, NextProbe, MiddlewareTypeCorrect, PTL DEF Spec
=============================================================================
