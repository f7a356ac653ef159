--------------------------- MODULE DurableRuntime ---------------------------
(***************************************************************************)
(* RecallOpsRuntime.start_case and resume_case                             *)
(* (src/recallops/agents/runtime.py) of one case, over two databases that  *)
(* share no transaction: the checkpoint database, with the LangGraph       *)
(* checkpoints and the mutation marker, and the Operations database, an    *)
(* instance of OperationsStore.  Several operating-system processes may    *)
(* run against the same pair of files; the in-process lock _thread_lock    *)
(* does not reach across them.                                             *)
(*                                                                         *)
(* A step is one transaction of one database, or one superstep of the      *)
(* graph: durability="sync" saves a checkpoint after every node.  Between  *)
(* any two steps the process may die, be cancelled, or lose its lease.     *)
(* The write goes through a gateway whose server may finish it after the   *)
(* client gave up.                                                         *)
(***************************************************************************)
EXTENDS Integers, FiniteSets

CONSTANTS
  Procs,
  Starters,          \* the processes that call start_case too
  Case, Thread,
  Owner,             \* the UUID in the checkpoint database
  LegacyOwner, None,
  Writes,            \* how many writes the case takes: versions 0 .. Writes
  Answers,           \* the decisions the operators of a run make use of
  LeaseOutlastsCalls,\* no call takes longer than WORKFLOW_MUTATION_LEASE_SECONDS
  MaxCheckpoint,     \* bound: checkpoints ever saved
  MaxToken,          \* bound: attempt tokens ever drawn
  MaxFaults          \* bound: process deaths and cancellations

ASSUME RuntimeAssumption ==
  /\ IsFiniteSet(Procs) /\ Starters \subseteq Procs
  /\ Writes \in Nat \ {0}
  /\ LeaseOutlastsCalls \in BOOLEAN
  /\ MaxCheckpoint \in Nat /\ MaxToken \in Nat /\ MaxFaults \in Nat

-----------------------------------------------------------------------------
(* The graph as the runtime sees it: the node that runs next, and whether   *)
(* the checkpoint carries that node's interrupt.  "investigate" stands for  *)
(* the nodes from intake to verify, "action_review" for closure_review too, *)
(* the preparing nodes for all nodes that prepare the same interrupt.       *)

HumanNodes == {"action_review", "execution_confirmation", "write_recovery"}

Nodes == HumanNodes \cup
  {"investigate", "prepare_action_review", "verify_edited_action",
   "prepare_execution_confirmation", "execute_one_operation",
   "prepare_write_recovery", "END"}

AllDecisions ==
  {"start", "approve", "edit", "reject", "escalate", "confirm", "cancel", "retry"}

Statuses == {"active", "open", "blocked", "escalated", "closed"}

\* The edges from the nodes other than execute_one_operation: the node, the
\* answer it takes ("-": it asks nobody), its successor, the status it leaves.
Edges ==
  {<<"investigate", "-", "prepare_action_review", "active">>,
   <<"investigate", "-", "END", "escalated">>,
   <<"prepare_action_review", "-", "action_review", "active">>,
   <<"action_review", "approve", "prepare_execution_confirmation", "active">>,
   <<"action_review", "edit", "verify_edited_action", "active">>,
   <<"action_review", "edit", "action_review", "active">>,
   <<"action_review", "reject", "END", "open">>,
   <<"action_review", "escalate", "END", "escalated">>,
   <<"verify_edited_action", "-", "action_review", "active">>,
   <<"prepare_execution_confirmation", "-", "execution_confirmation", "active">>,
   <<"execution_confirmation", "confirm", "execute_one_operation", "active">>,
   <<"execution_confirmation", "cancel", "END", "open">>,
   <<"prepare_write_recovery", "-", "write_recovery", "active">>,
   <<"write_recovery", "retry", "execute_one_operation", "active">>,
   <<"write_recovery", "escalate", "END", "escalated">>}

Decisions(node) == {e[2] : e \in {e \in Edges : e[1] = node}}

CheckpointIds == 0 .. MaxCheckpoint     \* 0 is INITIAL_CHECKPOINT_HEAD

Checkpoint ==
  [id: CheckpointIds \ {0}, next: Nodes, interrupted: BOOLEAN,
   version: 0 .. Writes, status: Statuses]

Requests == CheckpointIds \X AllDecisions       \* _mutation_request_digest

\* The execution packet and its digest hold no checkpoint id.
Executions == {"execution_confirmation", "write_recovery"} \X (0 .. Writes)

WriteAt(v) ==
  [case |-> Case, thread |-> Thread, expected |-> v,
   action |-> IF v = 0 THEN "create_case"
              ELSE IF v = Writes - 1 THEN "close_case" ELSE "mutate"]

VARIABLES
  thread, owner, head, attempt, grants, cases, receipts,    \* OperationsStore
  checkpoint,   \* checkpoint database: its latest checkpoint, or None
  marker,       \* checkpoint database: recallops_mutation_attempts, or None
  wire,         \* write requests a server has not answered
  pc,           \* where each process is in start_case or resume_case
  before,       \* its before_checkpoint_id; 0 in start_case
  request,      \* its request digest
  held,         \* the marker row it has read or prepared
  memory,       \* the graph state it runs on: the checkpoint it saved last
  after,        \* its after_checkpoint_id, or created_checkpoint_id
  grant,        \* the execution grant it was handed
  reserved,     \* start_case: this call has made the reservation
  nextId, nextToken, faults

storeVars == <<thread, owner, head, attempt, grants, cases, receipts>>
localVars == <<before, request, held, memory, after, grant, reserved>>
vars == <<storeVars, checkpoint, marker, wire, pc, localVars, nextId, nextToken, faults>>

Store == INSTANCE OperationsStore WITH
  Cases <- {Case}, Threads <- {Thread}, Owners <- {Owner},
  Heads <- CheckpointIds, InitialHead <- 0, Tokens <- 1 .. MaxToken,
  Requests <- Requests, Executions <- Executions,
  Writes <- {WriteAt(v) : v \in 0 .. Writes - 1}, Keys <- 0 .. Writes - 1,
  LegacyReceipts <- {}

Marker == [token: 1 .. MaxToken, head: CheckpointIds, request: Requests]

Message == [proc: Procs, awaited: BOOLEAN, version: 0 .. Writes - 1, grant: Store!Grant]

\* SQL NULL and Python's None are none of the values; the UUID in a checkpoint
\* database is not a token derived from a path.
ASSUME NullAssumption ==
  /\ None \notin {Thread, Owner, LegacyOwner}
  /\ None \notin CheckpointIds /\ None \notin Executions /\ None \notin Checkpoint
  /\ None \notin Marker /\ None \notin Store!Attempt /\ None \notin Store!Grant
  /\ LegacyOwner # Owner

Executing == {"granted", "waiting", "answered", "unknown", "blocked"}

PCs == {"idle", "starting", "reserved", "unreserving",         \* start_case
        "resuming", "recovering", "recovered", "unmarked",     \* resume_case
        "prepared", "claimed", "running", "finishing", "unwinding", "clearing"}
       \cup Executing

TypeOK ==
  /\ Store!TypeOK
  /\ checkpoint \in Checkpoint \cup {None}
  /\ marker \in Marker \cup {None}
  /\ wire \subseteq Message
  /\ pc \in [Procs -> PCs]
  /\ before \in [Procs -> CheckpointIds]
  /\ request \in [Procs -> Requests]
  /\ held \in [Procs -> Marker \cup {None}]
  /\ memory \in [Procs -> Checkpoint \cup {None}]
  /\ after \in [Procs -> CheckpointIds]
  /\ grant \in [Procs -> Store!Grant \cup {None}]
  /\ reserved \in [Procs -> BOOLEAN]
  /\ nextId \in 1 .. MaxCheckpoint + 1
  /\ nextToken \in 1 .. MaxToken + 1
  /\ faults \in 0 .. MaxFaults

Init ==
  /\ Store!Init
  /\ checkpoint = None /\ marker = None
  /\ wire = {}
  /\ pc = [p \in Procs |-> "idle"]
  /\ before = [p \in Procs |-> 0]
  /\ request = [p \in Procs |-> <<0, "start">>]
  /\ held = [p \in Procs |-> None]
  /\ memory = [p \in Procs |-> None]
  /\ after = [p \in Procs |-> 0]
  /\ grant = [p \in Procs |-> None]
  /\ reserved = [p \in Procs |-> FALSE]
  /\ nextId = 1 /\ nextToken = 1 /\ faults = 0

-----------------------------------------------------------------------------
(* Helpers.                                                                 *)

Latest == IF checkpoint = None THEN 0 ELSE checkpoint.id
Starting(p) == before[p] = 0
Decision(p) == request[p][2]

Goto(p, label) == pc' = [pc EXCEPT ![p] = label]

\* The call returns or raises to its caller; its locals are gone.
Leave(p) ==
  /\ Goto(p, "idle")
  /\ before' = [before EXCEPT ![p] = 0]
  /\ request' = [request EXCEPT ![p] = <<0, "start">>]
  /\ held' = [held EXCEPT ![p] = None]
  /\ memory' = [memory EXCEPT ![p] = None]
  /\ after' = [after EXCEPT ![p] = 0]
  /\ grant' = [grant EXCEPT ![p] = None]
  /\ reserved' = [reserved EXCEPT ![p] = FALSE]

\* The except clause and the end of the try clause read the latest checkpoint.
ReadAfter(p, label) ==
  /\ Goto(p, label)
  /\ after' = [after EXCEPT ![p] = Latest]
  /\ UNCHANGED <<before, request, held, memory, grant, reserved>>

\* Nobody waits for the process's requests any more.
Abandon(p) ==
  wire' = {[m EXCEPT !.awaited = m.awaited /\ m.proc # p] : m \in wire}

\* _execution_attempt_binding: only these two interrupts bind an execution.
ExecutionOf(p) ==
  IF Decision(p) \in {"confirm", "cancel"} THEN <<"execution_confirmation", memory[p].version>>
  ELSE IF Decision(p) = "retry" \/ (~Starting(p) /\ memory[p].next = "write_recovery")
    THEN <<"write_recovery", memory[p].version>>
  ELSE None

\* A superstep ends: its checkpoint is durable before the next one begins.
Save(p, next, version, status) ==
  LET cp == [id |-> nextId, next |-> next, interrupted |-> FALSE,
             version |-> version, status |-> status]
  IN  /\ checkpoint' = cp
      /\ memory' = [memory EXCEPT ![p] = cp]
      /\ nextId' = nextId + 1
      /\ Goto(p, "running")
      /\ UNCHANGED <<storeVars, marker, nextToken, before, request, held, after,
                     grant, reserved>>

HoldsFence(p) ==
  Store!HoldsFence(Case, Thread, Owner, before[p], held[p].token, request[p])
AlreadyAt(h) == Store!AlreadyAt(Case, Thread, Owner, h)

CheckpointDB == <<checkpoint, marker, nextId, nextToken>>

\* Bound: a call begins only while there is room for what it saves and draws,
\* so that no bound stops a call half-way.
SavesPerCall == 3
Room ==
  LET calls == Cardinality({p \in Procs : pc[p] # "idle"}) + 1
  IN  /\ nextId + SavesPerCall * calls <= MaxCheckpoint + 1
      /\ nextToken + calls <= MaxToken + 1

-----------------------------------------------------------------------------
(* Before the claim.                                                        *)

StartCase(p) ==
  /\ p \in Starters /\ pc[p] = "idle" /\ Room
  /\ checkpoint = None
  /\ Goto(p, "starting")
  /\ UNCHANGED <<storeVars, CheckpointDB, wire, localVars, faults>>

\* One owner and one thread: the call cannot be refused.
ReserveIdentity(p) ==
  /\ pc[p] = "starting"
  /\ \/ /\ Store!ReserveWorkflowIdentity(Case, Thread, Owner)
        /\ reserved' = [reserved EXCEPT ![p] = TRUE]
     \/ /\ Store!AlreadyReserved(Case, Thread, Owner)
        /\ UNCHANGED <<storeVars, reserved>>
  /\ Goto(p, "reserved")
  /\ UNCHANGED <<CheckpointDB, wire, before, request, held, memory, after, grant, faults>>

\* resume_case reads the checkpoint and validates the identity; a checkpoint
\* without a pending interrupt, or without its identity row, is refused.
ResumeCase(p, d) ==
  /\ pc[p] = "idle" /\ Room
  /\ checkpoint # None /\ checkpoint.interrupted
  /\ d \in Decisions(checkpoint.next) \cap Answers
  /\ Store!ValidateOrClaimWorkflowIdentity(Case, Thread, Owner)
  /\ Goto(p, "resuming")
  /\ before' = [before EXCEPT ![p] = checkpoint.id]
  /\ request' = [request EXCEPT ![p] = <<checkpoint.id, d>>]
  /\ memory' = [memory EXCEPT ![p] = checkpoint]
  /\ UNCHANGED <<CheckpointDB, wire, held, after, grant, reserved, faults>>

\* _load_checkpoint_attempt: a marker of another head is to be recovered.
LoadMarker(p) ==
  /\ pc[p] = "resuming"
  /\ IF marker # None /\ marker.head # before[p]
       THEN held' = [held EXCEPT ![p] = marker] /\ Goto(p, "recovering")
       ELSE held' = held /\ Goto(p, "unmarked")
  /\ UNCHANGED <<storeVars, CheckpointDB, wire, before, request, memory, after, grant,
                 reserved, faults>>

RecoverFence(p) ==
  /\ pc[p] = "recovering"
  /\ \/ Store!RecoverWorkflowMutation(Case, Thread, Owner, held[p].head, before[p],
                                      held[p].token, held[p].request)
     \/ AlreadyAt(before[p]) /\ UNCHANGED storeVars
  /\ Goto(p, "recovered")
  /\ UNCHANGED <<CheckpointDB, wire, localVars, faults>>

\* _clear_checkpoint_attempt deletes the row of this token and request only.
DeleteMarker(p) ==
  marker' = IF marker # None /\ marker.token = held[p].token /\ marker.request = held[p].request
              THEN None ELSE marker

ClearStaleMarker(p) ==
  /\ pc[p] = "recovered"
  /\ DeleteMarker(p)
  /\ Goto(p, "unmarked")
  /\ UNCHANGED <<storeVars, checkpoint, nextId, nextToken, wire, localVars, faults>>

\* _prepare_checkpoint_attempt: draw a token, or take up the marker that an
\* earlier call left for this very head and request.
PrepareMarker(p) ==
  /\ pc[p] \in {"reserved", "unmarked"}
  /\ \/ /\ marker = None
        /\ marker' = [token |-> nextToken, head |-> before[p], request |-> request[p]]
        /\ nextToken' = nextToken + 1
     \/ /\ marker # None /\ marker.head = before[p] /\ marker.request = request[p]
        /\ UNCHANGED <<marker, nextToken>>
  /\ held' = [held EXCEPT ![p] = marker']
  /\ Goto(p, "prepared")
  /\ UNCHANGED <<storeVars, checkpoint, nextId, wire, before, request, memory, after,
                 grant, reserved, faults>>

\* A raise before the try clause: nothing is undone, not even a reservation.
RefuseEarly(p) ==
  /\ \/ /\ pc[p] = "recovering"
        /\ ~Store!HoldsFence(Case, Thread, Owner, held[p].head, held[p].token, held[p].request)
        /\ ~AlreadyAt(before[p])
     \/ /\ pc[p] \in {"reserved", "unmarked"}
        /\ marker # None
        /\ marker.head # before[p] \/ marker.request # request[p]
  /\ Leave(p)
  /\ UNCHANGED <<storeVars, CheckpointDB, wire, faults>>

Claim(p) ==
  /\ pc[p] = "prepared"
  /\ Store!ClaimWorkflowMutation(Case, Thread, Owner, before[p], held[p].token, request[p],
                                 ExecutionOf(p))
  /\ Goto(p, "claimed")
  /\ UNCHANGED <<CheckpointDB, wire, localVars, faults>>

\* start_case that made the reservation gives it back if it sees no checkpoint.
ClaimRefused(p) ==
  /\ pc[p] = "prepared"
  /\ ~Store!MayClaim(Case, Thread, Owner, before[p], held[p].token, request[p], ExecutionOf(p))
  /\ IF Store!MayMarkUncertain(Case, Thread, Owner, before[p], held[p].token)
       THEN Store!RefusedClaimMarksUncertain(Case, Thread, Owner, before[p], held[p].token)
       ELSE UNCHANGED storeVars
  /\ IF reserved[p] /\ Latest = 0
       THEN Goto(p, "unreserving") /\ UNCHANGED localVars
       ELSE Leave(p)
  /\ UNCHANGED <<CheckpointDB, wire, faults>>

ReleaseIdentity(p) ==
  /\ pc[p] = "unreserving"
  /\ \/ Store!ReleaseWorkflowIdentity(Case, Thread, Owner)
     \/ ~Store!MayRelease(Case, Thread, Owner) /\ UNCHANGED storeVars
  /\ Leave(p)
  /\ UNCHANGED <<CheckpointDB, wire, faults>>

-----------------------------------------------------------------------------
(* The graph runs.                                                          *)

\* The claimed call looks at the checkpoint once more; start_case then saves
\* its input.
Enter(p) ==
  /\ pc[p] = "claimed"
  /\ Latest = before[p]
  /\ IF Starting(p)
       THEN Save(p, "investigate", 0, "active")
       ELSE /\ Goto(p, "running")
            /\ UNCHANGED <<storeVars, CheckpointDB, localVars>>
  /\ UNCHANGED <<wire, faults>>

\* The answer belongs to the interrupt the call was started for.
Answered(p) == memory[p].id = before[p]

RunNode(p) ==
  /\ pc[p] = "running"
  /\ \E e \in Edges :
       /\ e[1] = memory[p].next
       /\ e[2] = "-" \/ (Answered(p) /\ e[2] = Decision(p))
       /\ Save(p, e[3], memory[p].version, e[4])
  /\ UNCHANGED <<wire, faults>>

\* Faulty: the marker is deleted before the head of Operations has moved.
StopClearsMarker(p) ==
  /\ pc[p] = "running"
  /\ \/ memory[p].next = "END" /\ checkpoint' = checkpoint
     \/ /\ memory[p].next \in HumanNodes /\ ~Answered(p)
        /\ checkpoint' = [checkpoint EXCEPT !.interrupted = TRUE]
  /\ marker' = None
  /\ ReadAfter(p, "finishing")
  /\ UNCHANGED <<storeVars, nextId, nextToken, wire, faults>>

\* The graph stops at its end or at the next interrupt, which is written to
\* the checkpoint it belongs to.
Stop(p) ==
  /\ pc[p] = "running"
  /\ \/ memory[p].next = "END" /\ checkpoint' = checkpoint
     \/ /\ memory[p].next \in HumanNodes /\ ~Answered(p)
        /\ checkpoint' = IF Latest = memory[p].id
                           THEN [checkpoint EXCEPT !.interrupted = TRUE] ELSE checkpoint
  /\ ReadAfter(p, "finishing")
  /\ UNCHANGED <<storeVars, marker, nextId, nextToken, wire, faults>>

IssueGrant(p) ==
  LET v == memory[p].version
      exec == ExecutionOf(p)
      reusable == Store!ReusableGrants(Case, Thread, Owner, exec, WriteAt(v), v)
      mayIssue == Store!MayIssue(Case, Thread, Owner, exec, WriteAt(v), v)
  IN
  /\ pc[p] = "running" /\ memory[p].next = "execute_one_operation"
  /\ \/ /\ Store!IssueWorkflowExecutionGrant(Case, Thread, Owner, exec, WriteAt(v), v)
        /\ grant' = [grant EXCEPT ![p] = Store!GrantBinding(Case, Thread, exec, WriteAt(v), v)]
        /\ Goto(p, "granted")
     \/ /\ ~mayIssue
        /\ \E g \in reusable : grant' = [grant EXCEPT ![p] = g]
        /\ Goto(p, "granted") /\ UNCHANGED storeVars
     \/ /\ ~mayIssue /\ reusable = {}
        /\ Goto(p, "unknown") /\ UNCHANGED <<storeVars, grant>>
  /\ UNCHANGED <<CheckpointDB, wire, before, request, held, memory, after, reserved, faults>>

SendWrite(p) ==
  /\ pc[p] = "granted"
  /\ wire' = wire \cup {[proc |-> p, awaited |-> TRUE, version |-> memory[p].version,
                         grant |-> grant[p]]}
  /\ Goto(p, "waiting")
  /\ UNCHANGED <<storeVars, CheckpointDB, localVars, faults>>

Reply(m, answer) ==
  pc' = IF m.awaited THEN [pc EXCEPT ![m.proc] = answer] ELSE pc

\* Faulty: a refusal is not answered.
ServerWriteSilently(m) ==
  /\ \/ Store!Write(WriteAt(m.version), m.version, m.grant) /\ Reply(m, "answered")
     \/ /\ ~Store!MayWrite(WriteAt(m.version), m.version, m.grant)
        /\ UNCHANGED <<storeVars, pc>>
  /\ wire' = wire \ {m}
  /\ UNCHANGED <<CheckpointDB, localVars, faults>>

\* The server takes a request, late or not; close_case may find a gate shut.
ServerWrite(m) ==
  LET w == WriteAt(m.version)
      replays == Store!Replays(w, m.version)
  IN
  /\ \/ Store!Write(w, m.version, m.grant) /\ Reply(m, "answered")
     \/ replays /\ Reply(m, "answered") /\ UNCHANGED storeVars
     \/ /\ ~replays /\ ~Store!MayWrite(w, m.version, m.grant)
        /\ Reply(m, "unknown") /\ UNCHANGED storeVars
     \/ /\ ~replays /\ w.action = "close_case"
        /\ Reply(m, "blocked") /\ UNCHANGED storeVars
  /\ wire' = wire \ {m}
  /\ UNCHANGED <<CheckpointDB, localVars, faults>>

\* The transport fails, or the answer is no receipt: the client has an
\* exception, and the request stays with the server.
LoseAnswer(p) ==
  /\ pc[p] = "waiting"
  /\ Abandon(p)
  /\ Goto(p, "unknown")
  /\ UNCHANGED <<storeVars, CheckpointDB, localVars, faults>>

\* _validate_receipt: the case stands one version further.
ReceiptIsValid(p) == cases[Case].version = memory[p].version + 1

\* What follows a receipt: the next action's review, or none is left to take.
AfterReceipt(v) ==
  IF WriteAt(v).action = "close_case" THEN {<<"END", "closed">>}
  ELSE {<<"END", "blocked">>} \cup
       IF v + 1 < Writes THEN {<<"prepare_action_review", "active">>} ELSE {}

\* Faulty: no answer counts as success.
RecordOutcomeOptimistic(p) ==
  /\ pc[p] \in {"answered", "unknown"}
  /\ \E s \in AfterReceipt(memory[p].version) :
       Save(p, s[1], memory[p].version + 1, s[2])
  /\ UNCHANGED <<wire, faults>>

\* Faulty: no answer counts as failure, and the action goes back to review.
RecordOutcomePessimistic(p) ==
  /\ \/ /\ pc[p] = "answered" /\ ReceiptIsValid(p)
        /\ \E s \in AfterReceipt(memory[p].version) :
             Save(p, s[1], memory[p].version + 1, s[2])
     \/ pc[p] = "unknown" /\ Save(p, "prepare_action_review", memory[p].version, "active")
  /\ UNCHANGED <<wire, faults>>

RecordOutcome(p) ==
  /\ \/ /\ pc[p] = "answered" /\ ReceiptIsValid(p)
        /\ \E s \in AfterReceipt(memory[p].version) :
             Save(p, s[1], memory[p].version + 1, s[2])
     \/ /\ pc[p] = "unknown" \/ (pc[p] = "answered" /\ ~ReceiptIsValid(p))
        /\ Save(p, "prepare_write_recovery", memory[p].version, "active")
     \/ /\ pc[p] = "blocked"
        /\ Save(p, "END", memory[p].version, "blocked")
  /\ UNCHANGED <<wire, faults>>

-----------------------------------------------------------------------------
(* After the graph.                                                         *)

\* advance_workflow_mutation, or its answer when this was done already.
Advanced(p) ==
  \/ Store!AdvanceWorkflowMutation(Case, Thread, Owner, before[p], after[p],
                                   held[p].token, request[p])
  \/ AlreadyAt(after[p]) /\ UNCHANGED storeVars

Finish(p) ==
  /\ pc[p] = "finishing"
  /\ \/ /\ Advanced(p)
        /\ Goto(p, "clearing") /\ UNCHANGED localVars
     \/ /\ ~HoldsFence(p) /\ ~AlreadyAt(after[p])
        /\ UNCHANGED storeVars
        /\ ReadAfter(p, "unwinding")
  /\ UNCHANGED <<CheckpointDB, wire, faults>>

\* Faulty: the except clause cleans up the checkpoint database only.
UnwindLocally(p) ==
  /\ pc[p] = "unwinding"
  /\ Goto(p, "clearing")
  /\ UNCHANGED <<storeVars, CheckpointDB, wire, localVars, faults>>

\* The except clause of a claimed call: advance to the checkpoint that was
\* reached, or release the attempt at the head it started from.
Unwind(p) ==
  /\ pc[p] = "unwinding"
  /\ \/ after[p] # before[p] /\ Advanced(p)
     \/ /\ after[p] = before[p]
        /\ \/ Store!ReleaseWorkflowMutation(Case, Thread, Owner, before[p], held[p].token,
                                            request[p])
           \/ AlreadyAt(before[p]) /\ UNCHANGED storeVars
  /\ Goto(p, "clearing")
  /\ UNCHANGED <<CheckpointDB, wire, localVars, faults>>

\* The except clause itself raises: the marker stays.
UnwindRefused(p) ==
  /\ pc[p] = "unwinding"
  /\ ~HoldsFence(p) /\ ~AlreadyAt(after[p])
  /\ Leave(p)
  /\ UNCHANGED <<storeVars, CheckpointDB, wire, faults>>

ClearMarker(p) ==
  /\ pc[p] = "clearing"
  /\ DeleteMarker(p)
  /\ IF reserved[p] /\ after[p] = 0
       THEN Goto(p, "unreserving") /\ UNCHANGED localVars
       ELSE Leave(p)
  /\ UNCHANGED <<storeVars, checkpoint, nextId, nextToken, wire, faults>>

\* The second look at the checkpoint fails.
CheckpointMoved(p) ==
  /\ pc[p] = "claimed"
  /\ Latest # before[p]
  /\ ReadAfter(p, "unwinding")
  /\ UNCHANGED <<storeVars, CheckpointDB, wire, faults>>

\* A cancellation, or an exception of a node.
Abort(p) ==
  /\ pc[p] \in {"claimed", "running", "finishing"} \cup Executing
  /\ faults < MaxFaults /\ faults' = faults + 1
  /\ ReadAfter(p, "unwinding")
  /\ Abandon(p)
  /\ UNCHANGED <<storeVars, CheckpointDB>>

\* The process dies; what it asked the server for may still happen.
Crash(p) ==
  /\ pc[p] # "idle"
  /\ faults < MaxFaults /\ faults' = faults + 1
  /\ Leave(p)
  /\ Abandon(p)
  /\ UNCHANGED <<storeVars, CheckpointDB>>

-----------------------------------------------------------------------------

\* What a process in a call does next, faults apart.
Proceed(p) ==
  \/ ReserveIdentity(p) \/ LoadMarker(p) \/ RecoverFence(p) \/ ClearStaleMarker(p)
  \/ PrepareMarker(p) \/ RefuseEarly(p) \/ Claim(p) \/ ClaimRefused(p) \/ ReleaseIdentity(p)
  \/ Enter(p) \/ CheckpointMoved(p) \/ RunNode(p) \/ Stop(p)
  \/ IssueGrant(p) \/ SendWrite(p) \/ RecordOutcome(p)
  \/ Finish(p) \/ Unwind(p) \/ UnwindRefused(p) \/ ClearMarker(p)

Call(p) == StartCase(p) \/ \E d \in AllDecisions : ResumeCase(p, d)

InGraph(p) == pc[p] \in {"running"} \cup Executing

\* The call has claimed its attempt and has not closed it.
InClaim(p) == InGraph(p) \/ pc[p] \in {"claimed", "finishing", "unwinding"}

LeaseExpires ==
  /\ LeaseOutlastsCalls => \A p \in Procs : ~InClaim(p)
  /\ Store!LeaseExpires(Case)
  /\ UNCHANGED <<CheckpointDB, wire, pc, localVars, faults>>

Next ==
  \/ \E p \in Procs : Call(p) \/ Proceed(p) \/ LoseAnswer(p) \/ Abort(p) \/ Crash(p)
  \/ \E m \in wire : ServerWrite(m)
  \/ LeaseExpires

Spec == Init /\ [][Next]_vars

\* Each step of a call is a local computation or a SQLite transaction that
\* waits at most its busy timeout, and so is the server's one write.  The
\* transport has no timeout of its own, and nobody has to call or to fail.
Fairness ==
  /\ \A p \in Procs : WF_vars(Proceed(p))
  /\ WF_vars(\E m \in wire : ServerWrite(m))

FairSpec == Spec /\ Fairness

-----------------------------------------------------------------------------
(* No call is under way.  A request an earlier call gave up may be.         *)
Resting == \A p \in Procs : pc[p] = "idle"

(* The durable workflow never claims a write that did not happen.           *)
CheckpointTrailsTheCase == checkpoint # None => checkpoint.version <= cases[Case].version

(* Between calls a write that happened is recorded in the checkpoint, or    *)
(* the checkpoint is at a node that knows its outcome is unknown: a case    *)
(* that a human rejected or cancelled, or that waits for a review, has no   *)
(* effect the checkpoint is unaware of (execute_one_operation, with the     *)
(* late servers, crashes and cancellations around it).                      *)
RecordedOrUnknown ==
  Resting /\ checkpoint # None /\ cases[Case].version # checkpoint.version =>
    /\ cases[Case].version = checkpoint.version + 1
    /\ \/ checkpoint.next \in {"execute_one_operation", "prepare_write_recovery", "write_recovery"}
       \/ checkpoint.status = "escalated"

\* The row of Operations is closed at the checkpoint's head, or is the
\* attempt of the marker left in the checkpoint database.
FreeAt(h) == head[Case] = h /\ attempt[Case] = None
MarkedAttempt ==
  Store!HoldsFence(Case, Thread, Owner, marker.head, marker.token, marker.request)

\* Once its lease has run out, resume_case(d) gets as far as its claim.
Accepts(h, req) ==
  CASE marker = None -> FreeAt(h)
    [] marker # None /\ marker.head # h -> FreeAt(h) \/ MarkedAttempt
    [] OTHER -> marker.request = req /\ head[Case] = h /\ (attempt[Case] = None \/ MarkedAttempt)

(* Whatever two databases without a common transaction went through, a      *)
(* pending interrupt can be answered, at least with the answer that was     *)
(* being processed, and a start that left no checkpoint can be repeated.    *)
NeverLockedOut ==
  Resting =>
    /\ checkpoint # None /\ checkpoint.interrupted =>
         /\ thread[Case] = Thread
         /\ \E d \in Decisions(checkpoint.next) : Accepts(checkpoint.id, <<checkpoint.id, d>>)
    /\ checkpoint = None /\ thread[Case] # None => Accepts(0, <<0, "start">>)

(* Between calls the case rests at an interrupt or at its end: reopening    *)
(* the two files resumes at the pending interrupt.                          *)
RestsAtAnInterrupt ==
  Resting /\ checkpoint # None => checkpoint.interrupted \/ checkpoint.next = "END"

\* Calls are over, and none of them died before it cleared its marker.
Settled == Resting /\ marker = None

(* A write whose answer was lost, or whose call was cancelled, cannot       *)
(* happen once its call has returned: the human decides on a case that      *)
(* stands still.                                                            *)
SettledCasesStayPut ==
  [][Settled /\ Settled' => cases' = cases]_vars

(* When the durable workflow has ended, cancelled, escalated or closed, no  *)
(* request that is still on its way to the server changes the case.         *)
EndedCasesStayPut ==
  [][checkpoint # None /\ checkpoint.next = "END" /\ checkpoint' = checkpoint
       => cases' = cases]_vars

(* A resume never moves the head of Operations back to an earlier           *)
(* checkpoint.                                                              *)
HeadMovesForward ==
  [][head[Case] # None /\ head'[Case] # None => head[Case] <= head'[Case]]_vars

(* A human who answers retry gets the completed write's receipt or the      *)
(* authority to make the one effect.                                        *)
RetryIsAuthorised ==
  \A p \in Procs :
    /\ pc[p] = "running" /\ memory[p].next = "execute_one_operation"
    /\ Decision(p) = "retry"
    /\ HoldsFence(p) /\ attempt[Case].live
    => LET v == memory[p].version
           exec == ExecutionOf(p)
       IN  \/ Store!MayIssue(Case, Thread, Owner, exec, WriteAt(v), v)
           \/ Store!ReusableGrants(Case, Thread, Owner, exec, WriteAt(v), v) # {}

(* A resume that overlaps another is rejected: one call at a time runs the  *)
(* graph.                                                                   *)
OneCallRunsTheGraph == \A p, q \in Procs : InGraph(p) /\ InGraph(q) => p = q

(* A concurrent start that fails alters nothing the other start relies on:  *)
(* a durable checkpoint keeps its identity row.                             *)
CheckpointKeepsItsIdentity == checkpoint # None => thread[Case] = Thread

(* Every call returns: it ends in a result or in an exception.              *)
CallsReturn == \A p \in Procs : pc[p] # "idle" ~> pc[p] = "idle"
=============================================================================
