# RecallOps in TLA+

RecallOps runs the recall of a food product as a durable, human-approved
workflow: agents investigate which lots are affected, a human reviews each
proposed action, and an Operations service performs it. This directory holds a
TLA+ model of the parts that must not go wrong (`src/recallops`), the TLC runs
that check it on small instances, and TLAPS proofs for all instances.

Paths below are relative to the repository's root, module names to this directory.

## 1. The system

| Part | State it keeps | Operations | Talks to | Model |
|---|---|---|---|---|
| **Operations store** `services/operations.py` | SQLite: `workflow_identities` (thread, owner, checkpoint head, fencing attempt), `execution_grants`, `receipts`, `cases` and the evidence tables | reserve, adopt, release an identity; claim, advance, release, recover a mutation; issue a grant; six writes | the runtime's private broker, MCP servers | `OperationsStore` (authority), `CaseLedger` (content) |
| **Durable runtime** `agents/runtime.py` | a second SQLite file: LangGraph checkpoints, the owner UUID, one mutation marker per thread; in memory a lock per thread | `start_case`, `resume_case`, read-only queries | both databases, the graph | `DurableRuntime` |
| **Workflow graph** `agents/workflow.py`, `state.py` | the checkpointed state: evidence, its own copy of the case, the current action and its review packet | intake to verification; review, confirmation, one write, recovery | gateway, broker, humans through interrupts | `Investigation`, `CaseWorkflow` |
| **Planner, specialists, verification** `agents/planner.py`, `specialists.py`, `verification.py` | todo list and cursor in the graph state | plan, dispatch, assess, verify | the graph | `Investigation`; the checks on rows in `Traceability` |
| **Deep supervisor, child completion** `agents/deep_supervisor.py`, `child_completion.py` | per run: delegations, observations, one correction per child | a live investigation by model-driven agents | model provider, sealed read tools | `LiveRun` |
| **Live reasoning, providers** `llm/` | two budgets of a run | run, project claims, classify the end | the supervisor, the graph | `LiveRun` (partly) |
| **Retrieval** `retrieval/` | an index; per question a resumable loop state | route, read, judge, rewrite, resume | the graph, the benchmark | `AgenticRetrieval` (the loop) |
| **Middleware, policies** `agents/middleware.py`, `policies.py` | call budget, circuit breaker, watchdog | wrap every read call | the graph, the agents | `Middleware` |
| **Gateway and servers** `mcp/` | none, or a process per connection | one tool per read and per write | Operations, Traceability, Registry | what they do to a caller, in `DurableRuntime`, `LiveRun`, `Investigation` |
| **Traceability and data** `services/traceability.py`, `data/` | a dataset loaded once | match, trace, reconcile | Operations and the graph read it | `Traceability` |
| **User interface** `ui/` | the record a session shows, an armed failure | open, run, review, simulate, request closure, inject | runtime, or nothing (offline) | `CaseDesk`, `DemoCase` |
| **Evaluation** `evaluation/` | files | drive the runtime, count safety violations | runtime | `Evaluation` (the counters) |

Where the difficulty lies:

* **Two databases, no common transaction.** Checkpoint, marker and the head in
  Operations move in separate steps; a process can die, be cancelled or lose
  its lease between any two (`agents/runtime.py:711`).
* **Several processes, one pair of files.** `_thread_lock` is in-process; only
  the fence in Operations stands between two processes.
* **Writes with unknown outcome.** The server may finish a write after its
  client gave up, or never see it (`agents/workflow.py:1569`).
* **Data that is kept twice.** Operations repeats parts of `state_json` in
  tables; the graph works from a copy of the case; a browser session shows an
  older copy still; the dataset that all were derived from may change.
* **Models that may answer anything.** What a live run claims must rest on reads
  that were made, of one release, whatever fails or is upgraded meanwhile, and
  it must end.
* **Methods that lock and unlock.** Between admission by the breaker and the
  record of the outcome, other callers, cancellations and deferred coroutines
  interleave (`agents/middleware.py:97`). The call budget has no lock at all
  (`agents/middleware.py:83`).
* **One thing computed by several pieces of code.** Forward and backward traces,
  loader and specialists, preview and planner, closure panel and ledger, and
  two desk adapters were written independently.

What makes the parts correct: an identity belongs to one store, an attempt to
one token, an effect to one grant and one key, a receipt to one version; the
durable workflow never claims what did not happen and is never locked out; a
case closes only when nothing is owed, and can be closed then; a human is only
asked for what can then be done, on the record they saw, and is told exactly
what follows; a review rests on evidence of the four roles, bound to its source;
an interruption of a retrieval does not show; a breaker whose source is healthy
again closes.

## 2. The modules

```
OperationsStore    <-- INSTANCE -- DurableRuntime       two databases, many processes
      ^                                  ^
OperationsStoreProofs, MCOperationsStore     DurableRuntimeProofs, MCDurableRuntime

RecallObligations  <-- INSTANCE -- CaseLedger <-- INSTANCE -- CaseWorkflow
                                      ^   ^                       ^
                       CaseLedgerProofs   |                    CaseDesk -- INSTANCE --> DemoCase, ReviewedWrites
                                          |                    ^      ^
                    MCCaseLedger ---------+       CaseDeskProofs    Evaluation
                        |                             ^         ^      ^
                    Traceability                 DeskRecordProofs   MCCaseDesk
                        ^
                 TraceabilityProofs

AgenticRetrieval, LiveRun  <-- EXTENDS -- Investigation                   Middleware
                                             ^                               ^
                               InvestigationProofs, MCInvestigation     MiddlewareProofs,
                                                                        MCMiddleware
```

Arrows without a word are EXTENDS, pointing at the extended module.

### OperationsStore

One action per transaction (`BEGIN IMMEDIATE` makes each atomic; one that
raises is rolled back and is a stuttering step). Any caller may call anything
with any arguments in any order. `thread`, `owner`, `head`, `attempt` are the
columns of `workflow_identities`; `cases` is version, status and thread of a
case; `grants` and `receipts` are the tables. The lease's clock is the
Boolean `live`, set by a claim and cleared by `LeaseExpires`. Two write
requests are equal iff their `operation_request_hash` is. A claim refused by an
expired foreign attempt still commits (`uncertain`): the code raises after the
transaction. `Init` contains what an older schema leaves: receipts with the old
hash, identities owned by nobody or by a path-derived token.

### DurableRuntime

`start_case` and `resume_case` of one case, step by step, in several processes.
`pc` says where a process is; `checkpoint` and `marker` are the checkpoint
database, the other variables of the store are `OperationsStore`'s own
(`INSTANCE`), and `wire` holds the writes a server still has in hand. The graph
is seen as the runtime sees it: `Edges` lists its nodes, the answers they take
and their successors, and every node saves one checkpoint
(`durability="sync"`). `Crash` and `Abort` (cancellation, an exception of a
node) are possible at each step; `LoseAnswer` leaves the request with the
server; `ServerWrite` may come late. Nodes that behave alike for the runtime
are one node: `investigate` for intake to verify, `action_review` for
`closure_review` too.

### CaseLedger and RecallObligations

`CaseLedger` is what one case holds: `state_json` (`state`) and the four
tables, with the validators of the six writes as `May...` operators and the
whole write as the action. `LoadNextRelease` restarts the service with another
release of the dataset. Quantities are numbers, lots and facilities model
values, the order of a lot list the Boolean `ordered` (closure compares lists,
creation compares sets). `RecallObligations` is the promise behind it: what
the case owes (to hold, to dispose of, to confirm) is only discharged, the holds
first; only a new edition of the dataset may say something else is owed, and
the case closes when nothing is. The refinement mapping reads the obligations
from the loaded release, not from the case's record.

### CaseWorkflow

The graph from the first review to the end, composed with the ledger. `graph`
is the copy of the case in the checkpointed state; `NextAction`, `Remaining` and
`AfterReceipt` are `_next_action`, `_remaining_actions` and `_after_receipt`; a
write is a ledger step whose answer arrives, is lost, or is a refusal. That a
write cannot land after its call returned, and that a retry of a lost request is
refused by its own grant, are results of `DurableRuntime` used here. The
investigation is one step here (`Investigate`, the deterministic lane) and in
small steps in `Investigation`.

### CaseDesk, DemoCase and ReviewedWrites

`CaseDesk` is `DurableRuntimeAdapter` over that workflow: a session keeps the
last record it was given (`desk.shown`), which may be any earlier one, since
other clients (`Elsewhere`) and lost results move the case on. A decision
carries the identity of its interrupt; `Identity` is what
`_validate_interrupt_response` compares, and `FaultyIdentity` what it would be
with a counter alone. The four injected failures are the Boolean-like `armed`:
a transient one (absorbed by the retries), the watchdog, a stale decision, a
lost write response. `DemoCase` is the offline adapter, which keeps its case in
memory. `ReviewedWrites` is what either promises: worded, reviewed, approved as
last worded, confirmed, written once. The refinement mapping is by cases on which
adapter the process uses.

### Evaluation

An evaluation drives the workflow of `CaseDesk` and judges each receipt
by the checkpoints of its version: `Confirms` is
`_execution_confirmation_evidence`, the counters are those of
`evaluation/runner.py`. One version is watched at a time, any. A close is inferred
from the words of the receipts: `_contains` finds `close_case` in any string of
them, also in a rationale or justification that a human wrote. `named` says whether
the wording last approved, and that of some receipt, contains it; which words a
human writes is free. `EvaluationSpec` is the desk's specification with the
evaluation as an alternative to the desk.

### Traceability

A dataset grows event by event, in any order of storage, by what
`validate_manifest` accepts; `trace_forward`, `trace_backward`,
`reconcile_units` and `match_lot` are the service's answers,
`assess_traceability` (`DistinctIdentifiers`, `SoundLineage`, `SameReconciliation`),
`assessed_forward`, `assessed_backward` and `MayDraft` what the specialists and
the live verification recompute. Two things are kept apart that are one in the
shipped dataset. A time is a text, for which its place in text order stands, and
`Moment` is what `datetime.fromisoformat` makes of it: the loader and the specialists
compare moments (`data/loaders.py:271`, `agents/specialists.py:609`, `625`), the
service sorts texts (`services/traceability.py:133`), and with different offsets the
two orders differ. And a position of the inventory has an identifier, which no other
position has but an event may: the loader compares identifiers within a collection
only (`data/loaders.py:171`), the specialists across the two
(`agents/specialists.py:441`). The walk below an event (`Walk`), the depth of
an event (`Depth`) and the sums are recursive functions, defined on the identifiers
or events of the sequence they are given; `Among` selects from a sequence and
`InOrder` sorts a set along an order, by counting what comes before each member.

### AgenticRetrieval

The loop of `retrieval/agentic.py`: `loop` is the state inside a running
`resume`, `saved` what the caller holds. `ReadSource` ends the call at a read
boundary if its allowance is spent; `SourceFails` loses what the call had done;
`Rebuild` is a restart or another retriever. Documents are model values with
what the critic looks at (source, needs covered, may be cited, contradicts a
fact), and the index may answer anything. `Uninterrupted` writes the contract
down without loop, cursor or counter.

### LiveRun

One run of `LiveReasoningService`: each turn of the supervisor or of a child is
an action (`WritePlan`, `Delegate`, `LookAround`, `ChildReads`,
`ChildAnswers`, `ChildIsCorrected`, `Answer`, `BreakContract`), a read is two
(`Fetch`, `Observe`), because the source revision is taken after the rows
arrived, and `Release` replaces the installed files between any two. The models
choose freely among the turns; `EndRun` classifies what ended the run.
`match_lots` stands for `find_candidate_products` too, a trace for its four reads.

### Investigation

The graph from intake to the first action review, one action per node,
composed with the two modules above, whose steps run inside the nodes
`retrieve_context` and `live_investigate`. `gathered` holds the rows the
investigation rests on, `claims` and `receipts` what a live run leaves.
`Dispatch` follows the cursor; `VerifyPlan` and
`StartResolving`/`Resolve`/`VerifyLive` are the two branches of `verify`. A process
loads only files its own release has pinned by checksum: after an upgrade
the direct gateway still answers from the dataset it holds, but not for the
recall, which it loads each time; a stdio server is of the installed release.
Here is no crash: `DurableRuntime` shows that a start cut off never goes on.

### Middleware

Callers that share one `CircuitBreaker` and one `CallBudget`. Each method of the
breaker is atomic, for it holds its lock; everything between two of them
interleaves. `CallBudget.consume` holds none: its check, its read of `used` and its
write are three steps (`CheckBudget`, `ReadUsed`, `StoreUsed`), which meet those of
other callers if these are threads (`threads`). Tasks of one event loop do not meet
there, because `consume` does not await; the mutant `FaultyMayCheck` is one that does.
`Defer`, `ResumeDeferred` and `CloseDeferred` are the awaitable that a
supposedly synchronous operation returns. The clock is the Boolean `cooling`.

## 3. What TLC checks

| Run | Instance | What it shows |
|---|---|---|
| `operations_store` | 2 cases, 2 threads, 2 owners, 2 heads, 2 tokens, 2 requests, 2 keys; one attempt at a time, 2 grants; 126,000 states | the store's invariants hold for any callers |
| `runtime_crashes` | 1 process, 2 writes, 16 checkpoints, 8 tokens, 2 faults; 118,000 states | safety and liveness through crashes, lost answers, expired leases |
| `runtime_shared` | 2 processes, 1 write, 12 checkpoints, 5 tokens, 1 fault; 162,000 states | what survives two processes on the same files |
| `case_ledger` | 3 lots, 2 facilities, 3 releases; or datasets of 1 lot, 2 places, 3 events, 3 texts of times in another order than their moments, quantities 0 and 1, positions that may bear the second event's identifier; 67,500 states | order, permanence, agreement of the copies, the refinement of `RecallObligations`; when accepted data is assessable |
| `case_workflow` | 3 lots, 2 facilities, 2 releases, 1 edit, a desk, the offline adapter or an evaluation of one of 8 versions with at most 10 checkpoints; 217,000 states | the graph's copy, its planner and preview, the desk's decisions, the refinement of `ReviewedWrites`, the evaluation's counters |
| `investigation` | 2 lots, 2 releases, 3 documents of 2 sources, 4 retrieval budgets, 15 turns and 5 reads of a live run; 456,000 states | what a review rests on, and that the investigation ends |
| `middleware` | 3 callers: one deferring with a budget, one writer with a budget, one without; threshold 2, 2 attempts, limit 2, calls while fewer than 3 operations have started; as threads and as tasks; 651,000 states | the probe, the budget, and that the breaker closes |
| `runtime_retry`, `_stranded`, `_lease`, `_start`, `_stale` | smallest that shows it | five disagreements with the documentation, section 6 |

Properties, by module:

* **OperationsStore** `IdentityOneToOne`, `FenceAtHead`, `OneGrantPerKey`,
  `EffectsAreAuthorised`, `ReceiptsAreHistory`; as action properties
  `HistoryIsPermanent`, `FenceIsNotSeized`.
* **DurableRuntime** `CheckpointTrailsTheCase` (the workflow never claims a
  write that did not happen), `RecordedOrUnknown` (between calls the checkpoint
  knows each effect or knows that it does not know), `NeverLockedOut` (a pending
  interrupt can always be answered, a start without a checkpoint repeated),
  `SettledCasesStayPut` and `EndedCasesStayPut` (no write lands after its call
  returned or after the thread ended), `HeadMovesForward` (for one process; the
  proofs show that it takes no more than calls that do not overlap), and
  the liveness property `CallsReturn`.
* **CaseLedger** `CopiesAgree`, `HoldsComeFirst`, `DischargedCasesClose`,
  `DisposedAsReviewed`, `AppendOnly`, `KeepsObligations`.
* **Traceability** `LoadedDataIsAssessable` (what the loader accepts fails an
  investigation exactly when a position bears the identifier of an event of the
  lots in question), `TracesAgree` (on data stored in order the forward order live
  verification recomputes is the service's, and the backward one exactly when the
  texts of the times have the order of the times; parents precede children always).
* **CaseWorkflow** `CopyTracksLedger`, `NextActionIsAccepted`, `PreviewIsExact`,
  `EndsAgree`.
* **CaseDesk** `DecidedOnTheRecordShown`, `ClosurePanelIsTrue`,
  `WritesAreReviewed`; **Evaluation** `CountersAreTrue` (no false alarm
  but by words that name `close_case`).
* **Investigation** `ResultIsUninterrupted` (of `AgenticRetrieval`),
  `AnswersRestOnReads` (of `LiveRun`), `FallbackIsForExecution`,
  `ReviewRestsOnAllRoles`, `ReviewedEvidenceIsBound`, and the liveness property
  `InvestigationEnds`.
* **Middleware** `NoStrandedProbe`, `EveryCallIsPaidOnce` (tasks pay for each
  operation once and within the limit; threads never for one that does not start),
  and the liveness property `Recovers`.

Each property is broken by at least one plausible bug: the operators marked
*Faulty* or *Mutant* in the modules stand beside the definition they replace.

**Bounds.** Every bound is a constant with a name or a constraint in an MC
module. Two of everything that is only compared (owners, tokens, requests) lets a
foreign value meet an own one; heads are never ordered by the store. A second
case with one thread is enough for the identity properties, which speak of pairs.
In `DurableRuntime` a call begins only while there is room for the checkpoints
it can save, so that no bound stops a call in the middle; sixteen checkpoints let
a case go through both its writes with a lost answer or a crash on the way, and
two faults let recovery itself be interrupted. Three releases let a
quantity grow and shrink again, which is when a stale record and a true one
differ in both directions. In the second release of `case_workflow` a residual
grows and the ambiguous lot becomes exact with nothing missing, so that cases of
both kinds are worked on; `MaxCheckpoints` cuts off endless retries of one version only, and under
it an evaluation's receipts are all there. Three events are a receiving with
two children or a chain of three, the smallest trees whose forward and backward
orders differ; `MaxTime` lets siblings share a time, and in `MCMoment` the second of three
texts is the last moment, so that the orders of texts and of times cross. `Borrowed`
has one identifier, which an event of the lot bears or does not. `InventoryInOrder`
counts the inventory only where the events are stored as they came, one at each
moment: times and the order of storage do not touch the positions, and the theorems
have neither bound. Fifteen turns are the thirteen
of a run without detours and two more, five reads one more than two lots
need, so that both budgets can run out and need not. Three callers are a probe,
a caller that is refused and one whose late outcome arrives meanwhile. With a limit of
two, one operation can be paid for and two callers then meet in `consume` over the
last call that is left; `MaxStarted` is above the limit, so that it is the budget that
refuses.
`OneAtATime` in `MCOperationsStore` is a state constraint, under which only
safety is checked.

**Fairness.** `CallsReturn`: weak fairness of each process's own next step (a
local computation or a SQLite transaction, which waits no longer than its busy
timeout) and of the server's one write; nobody is assumed to call, to answer, to
fail or to restart, and a lease need not expire. `InvestigationEnds`: weak
fairness of `Advance`, some step of the node at work, since each await in it is a
model call or a read with a timeout; upgrades need not happen. `Recovers`: weak
fairness of each caller's next step, of `Cool` (time passes), and of new calls by
callers without a budget (`healthy` means that from now on operations succeed and
nobody is cancelled); callers with a budget stop calling then, for
a caller whose budget is spent takes the probe, is refused by the budget, and
opens the breaker again.

**Deadlock** is checked in `middleware`. Elsewhere it is not: a case may be
finished, an investigation over, and bounds may leave no room for another call.

## 4. What TLAPS proves

For every value of the constants, from the named assumptions on them
(`StoreAssumption`, `LegacyAssumption`, `RuntimeAssumption`, `NullAssumption`,
`LedgerAssumption`, `WorkflowAssumption`, `DeskAssumption`, `EvaluationAssumption`,
`MiddlewareAssumption`, `RetrievalAssumption`, `LiveAssumption`,
`DataAssumption`), which TLC
evaluates in the runs:

* `OperationsStoreProofs`: type correctness and all properties of the
  store. `IdentityOneToOne` is not inductive alone: it is proved together with
  `NoOrphans`, which says that a case without an identity thread has no owner
  either, so that a new row cannot inherit an owner (`NextIdentity`). `OwnerKept`
  rests on `TypeOK` and `NoOrphans`, `FenceNotSeized` on `TypeOK` and
  `FenceAtHead`, and the others on `TypeOK` alone. `EffectsAreAuthorised` is
  carried by `Write`, the only step that touches grants and receipts together;
  `ReceiptsAreHistory` is proved case by case (`IsHistory`), as each write adds
  one receipt at the version it ends.
* `DurableRuntimeProofs`, in two halves. *For any number of processes, however
  their calls overlap, crash, lose leases or are overtaken by late servers*: type
  correctness; `RuntimeImplementsStore`, that every step is one transaction of
  `OperationsStore` or none (`StoreStep`), from which `EffectsAreAuthorised` and
  `ReceiptsAreHistory` carry over (`RuntimeEffects`); and
  `CheckpointTrailsTheCase`. The invariant `TypeInv` has, besides the types, what a
  process must hold at each `pc` (`Holds`), which requests somebody waits for
  (`Awaited`), and a budget (`Covered`): the checkpoints and tokens that the calls
  under way may still need fit under the bounds, so that no bound ever stops a
  call that has begun, and the invariants speak of whole calls. `Trails` adds what
  each process remembers to what the checkpoint says, and rests on a case that only
  grows (`CaseGrows`).
  *For calls that follow one another*, by any processes, with every crash,
  cancellation, lost answer, expired lease and late server in between:
  `RecordedOrUnknown`, `NeverLockedOut`, `SettledCasesStayPut`, `EndedCasesStayPut`,
  `HeadMovesForward` and `CheckpointKeepsItsIdentity`, each under the hypothesis
  `[]OneCallAtATime`, which `OneProcessIsSafe` discharges for one process. The
  hypothesis cannot go: `runtime_lease`, `runtime_start` and `runtime_stale` are
  behaviours of overlapping calls. The inductive `SerialInv` says what the
  two databases know of each other (`Fence`: a free row is at the latest
  checkpoint, an attempt is that of the marker), where the call under way is
  (`Place`), that a late request of the running attempt is one the checkpoint
  is uncertain of, and that every grant is for a head that is over (`Wire`), and
  that the case is at the checkpoint's version or, where it is uncertain, one further
  (`Book`). `NextSerial` has one lemma for each group of steps. A late
  write then finds its fence closed (`LandsIsCurrent`), and `NeverLockedOut`
  follows by going through the ways a call can have died (`Fence` and
  `HumansDecide`).
  `RuntimeAssumption` asks for finitely many processes; `NullAssumption` says that
  no value is the null value, as SQL's `NULL` and Python's `None` are no UUID or row,
  and that a store's UUID is not the token an older version derived from its path.
* `CaseLedgerProofs`: type correctness, `CopiesAgree`, `HoldsComeFirst`,
  `DisposedAsReviewed`, `AppendOnly`, and `ImplementsObligations`, the theorem
  that `CaseLedger` implements `RecallObligations`. The inductive invariant is
  `LedgerInv == TypeOK /\ NoRow /\ CopiesAgree /\ HoldsComeFirst`: `NoRow`
  says that tables without a row of `cases` are empty, `CopiesAgree` lets a
  step's effect on the record be read off the tables, and `HoldsComeFirst`
  is what makes a disposition or a confirmation legal in the abstract
  specification. `CloseCase` maps to `Close` because its gates compare the
  stored events with the loaded release (`ClosedCaseStands`). `DischargedClose`
  (done cases can be closed) needs a second invariant, `RecordIsTrue`: under the
  release it was created under, the record of a case is what that release says
  less the dispositions, and a disposition leaves nothing.
* `CaseDeskProofs`: type correctness, `CopyTracksLedger`, `NextActionIsAccepted`
  and `EndsAgree`, of `DeskSpec`. The inductive invariant is `WorkflowInv`: what
  `CaseLedgerProofs` shows of the ledger (`LedgerHolds`, taken over by showing that
  each step of the desk is one of the ledger, `DeskStepsTheGraph` and
  `GraphStepsTheLedger`), and the copy against the books (`Copy`). While a write's
  receipt is lost the copy lags, and what holds instead is that the copy *with* its
  receipt will tell what the ledger holds (`InHand`, `WithReceipt`); `WriteIsCopied`
  shows it for each of the six writes. `NextIsAccepted` then compares the planner
  with the six gates, the last of them by `DischargedMayClose`, and
  `BlockedByAmbiguity` shows that under one release nothing else blocks a case.
* `DeskRecordProofs`: `ClosurePanelIsTrue`, `DecidedOnTheRecordShown`,
  `PreviewIsExact`, the refinement `WritesAreReviewed`, and `CountersAreTrue` of
  `EvaluationSpec`. The
  invariant is what an earlier record may differ in from the checkpoint (`Earlier`):
  with the same receipts it differs in stage and wording alone, since each receipt
  is a new one (`NextIsNew`, from `Orderly`). So the few fields of the binding
  determine the record (`IdentityIsEnough`). The
  refinement maps each step of the graph (`GraphIsReviewed`) and of the offline
  walkthrough (`DemoIsReviewed`, under `DemoInv`) to a step of `ReviewedWrites` or
  to a stutter; that nothing is written twice is `NextIsNew` again. The
  preview rests on `Foreseen`: under the release the case was read from, what is
  not disposed of has the residual of the release, so a receipt changes the count by
  its own action alone (`LeftAfterReceipt`), and the next action is the first of
  what is counted (`NextIsCounted`). For the counters, `Watching` follows one version
  of an evaluated case: nothing of it is executed before the checkpoint that waits
  for the confirmation (`Unexecuted`), the first execution follows that checkpoint
  and every later one follows `write_recovery`, so that just one of them counts as
  a confirmation (`ConfirmedOnce`, `AfterUnexecuted`, `AfterRecovery`), and the one
  receipt that ends the version is of the action last approved (`Underway`,
  `Written`).
* `MiddlewareProofs`: `NoStrandedProbe` is inductive with `TypeOK`;
  `EveryCallIsPaidOnce` needs `BudgetInv`: how many operations a caller at each
  label has started (`Accounted`); that what a caller has read in `consume` is no more
  than what has started (`NoneForNothing`), which is all that is true of threads; and,
  for tasks, that one at most is past the check and that what it checked and read is
  still so when it writes (`CheckedIsCurrent`). `OutsideConsume`, `CallKeepsCovered` and
  `CallKeepsCurrent` show it step by step.
* `InvestigationProofs`, first of `AgenticRetrieval` alone: interruptions do not
  show. The inductive `RetrievalInv` says that every loop state, saved or at work,
  is `Reachable`: one that an undisturbed run passes through at the same cursor of
  its first or second hop. Next of `LiveRun` alone: `AnswersRestOnReads`. `LiveInv`
  says at every moment what the property says at the end: rows in flight and seen are those of the revision
  of the process, which is the request's (`Held`, `Receipt`), and the answers so
  far rest on them (`Grounded`). It shows that a release in mid-flight cannot mix
  rows, because an outdated process reads nothing more.
  Then the four safety properties of the composition
  (`AnswersRestOnReads` again, within the graph). `GraphInv` follows the nodes:
  which lane a node is in (`WhichLane`), why the deterministic one was taken
  (`WhyFallback`), what the receipts are (`ReceiptsInv`), how far the evidence
  has come (`HowFar`); `LiveLaneInv` carries the live run and that it starts
  from nothing.

* `TraceabilityProofs`: `LoadedDataIsAssessable` and `TracesAgree`, for datasets of
  any length, any lots, times and units, and any order of storage. The state is easy:
  `DataInv` says that each event is stored once, under an identifier of its own, that
  each is a root that received units or follows an event with a smaller identifier
  (so that the events of a lot are a `Tree`), that positions lie where the lot has
  been, and that no two of them have one identifier (`NamedOnce`). What is hard is what the operators compute. The library's induction theorems
  take an operator, which the installed provers cannot instantiate; `RankInduction`
  and `Recursion` take a set and a function instead, and are proved from the
  well-foundedness of the naturals. From them follow that the walk, the depth and
  the sums satisfy their equations (`WalkEquation`, `DepthEquation`, `SumSums`), that
  the walk comes to each event of a tree once and after its parent (`WalkLists`, from
  `WalkOnce`, `WalkOrder` and `AllAreBelowRoot`), that a sum does not depend on the
  order of its terms (`SumRenamed`), and that there is one way to sort a set along a
  strict order (`InOrderSorts`, `InOrderIsUnique`). So the service and the
  specialists, who list the same events by different code, have the same totals and
  evidence (`TotalsAgree`, `ReconciliationHolds`), and the same orders where the
  storage is in order (`StoredIsChronicle`). Of identifiers and offsets the theorems
  say exactly when they matter: `IdentifiersClash` that the specialists object to the
  identifiers where a position bears an event's and nowhere else, `BackwardAgrees`
  that two sortings of one set by depth are the same where texts and times of equal
  depth agree, and differ where some pair does not. `DataAssumption` asks
  for finitely many places, without which the stock of a lot is no sum, that
  the bounds are numbers, and that each text is of some moment; nothing is
  assumed of the order of the moments, or of which identifiers are borrowed.

Every safety property that a run expects to hold is thus a theorem as well. Only
model-checked are the three liveness properties `CallsReturn`, `InvestigationEnds`
and `Recovers`, which are out of the proof system's reach, as is ENABLED.

## 5. What is not modelled

* Validation of wording and shape: blank identifiers, evidence identifiers, JSON
  strictness, digests as strings. A digest is the value it binds.
* `_remaining_actions` looks a lot's name up inside the text of a gap;
  the model takes a gap as the lot it names, which is right while no lot's
  name is part of another's, as in the shipped dataset.
* I/O errors of SQLite apart from a crash, and the busy timeout running out.
* A copy of the checkpoint file, which carries the same owner UUID
  (`agents/runtime.py:131`).
* An upgrade and its rollback within one read: releases only go forward. In the
  deterministic lane over stdio an upgrade may mix rows of two releases; the
  code does not compare them there, and no property claims it.
* `workflow.py:873` loads the pinned snapshot after two transient failures,
  whatever recall the case is about; the model has one recall.
* An operation that itself raises `CircuitOpenError`, a breaker inside a
  breaker, strands its probe (`agents/middleware.py:452`); no caller of the
  shipped program nests breakers. Two callers on threads that both defer may
  give back each other's probes for ever; `Recovers` has one.
* `ProgressWatchdog` and the trace recorder are sequential counters: the
  watchdog's stop is an outcome in `Investigation` and `CaseDesk`.
* `ReasoningStore`: the shipped program only reads it; nothing calls `claim` or
  `finish` any more (`ui/reasoning_store.py:83`).
* Limits on the number of summary events (256) and receipts (128) of a live run.
* `CallBudget.reset` while another caller is in `consume`, and threads that are
  preempted anywhere but before, between and after the read and the write of `used`.
* In `Traceability`: several positions of one lot in one place (their units add up),
  supplier shipments, shipping, quarantine and disposal (checked as transfer and sale
  are), the numeric scoring of products.
* In `Evaluation`: the route gate, scenario-specific action lists and the
  integrity fields of receipts; scores and benchmark reports are arithmetic over
  files. The counters are checked for false alarms, not for what they miss: a case
  that closed with its answer lost is not counted. Words that name `close_case` are
  free in what a human approves; the other strings of a receipt (case, actor, lots,
  evidence identifiers) are taken not to contain them.
* Ranking in `retrieval/hybrid.py` (numeric, pure), tables and themes of the UI,
  the provider's adapter, argument parsing, generators of the catalogue. What a
  model provider, an index or the live registry answers is any answer.

## 6. Where the code and the documentation differ

All five come from a run that TLC ends with a counterexample; `PROJECT.json`
quotes the lines.

| Run | What happens |
|---|---|
| `runtime_retry` | A write is lost before it reaches the store. The human answers `retry`; the first try's grant is bound to the earlier head and request, so that the retry is refused, and every later one too. |
| `runtime_stranded` | A crash between two checkpoints of one call leaves a thread that neither `resume_case` nor `start_case` accepts. |
| `runtime_lease` | A call that takes longer than its lease is joined by an identical one of another process, which takes the token from the shared marker. |
| `runtime_start` | Of two concurrent starts the refused one deletes the identity row the other is running on. |
| `runtime_stale` | A resume that read the checkpoint before another finished moves the head of Operations back. |

The stale resume of `runtime_stale` reaches further than the head: once it has moved
the head back it claims it, finds that the checkpoint has moved, and clears the fence on
its way out, so that another call may claim while the one it interrupted still
runs. Then two calls are in the graph at once without any lease having expired, in a
behaviour longer than the bounds of `runtime_lease` allow (8 tokens, 16 checkpoints,
no fault). Mutual exclusion is therefore not a theorem even with
`LeaseOutlastsCalls`.

Three more things are true of the code and no error of the model; the properties
are worded so that they say exactly where each begins.

* Threads that share a `CallBudget` can start more operations than its limit: two pass
  the check before either writes, or both write the same count. TLC finds
  `used = started` and `started <= Limit` violated when `EveryCallIsPaidOnce` claims
  them of threads too. The shipped program makes one budget for each read
  (`agents/workflow.py:488`), so that none is shared by threads.
* A dataset whose positions bear identifiers of events loads, and every investigation
  of their lots raises "event and inventory evidence identifiers collide". A dataset
  with offsets that put texts and times in different orders loads too, and a live run
  over it ends in "source trace order mismatch" (`agents/verification.py:129`).
  Both are reachable in `case_ledger`. The generator gives each kind of record a
  prefix of its own and writes all times in UTC (`data/generator.py:38`).
* An evaluation counts a case as closed as soon as a receipt carries the words
  `close_case`, in a rationale or justification say (`evaluation/runner.py:383`).

`runtime_shared` and the first half of `DurableRuntimeProofs` show what remains true
even then: no claim of a write that did not happen, no effect without its own grant,
no gap in the history.

## 7. Plan

Done: `OperationsStore`, `DurableRuntime`, `CaseLedger` with `RecallObligations`,
`CaseWorkflow`, `CaseDesk` with `DemoCase` and `ReviewedWrites`, `Evaluation`,
`Traceability`, `AgenticRetrieval`, `LiveRun`, `Investigation`, `Middleware`, and the
proofs of section 4.

Left, in this order:

1. Proofs: what of the serial properties survives overlapping calls whose leases do
   not expire and of which none is stale.
2. A second checkpoint database (a copied file) in `DurableRuntime`.
3. Several recalls in `Investigation`, for the snapshot fallback; two evaluations
   of one case.

Running: `tlc -config MCCaseLedger.cfg MCCaseLedger`, and
`tlapm CaseLedgerProofs.tla`.
