------------------------ MODULE DurableRuntimeProofs ------------------------
(***************************************************************************)
(* Proofs about the durable runtime.  For any number of processes on the    *)
(* same two databases: its values have their types and no bound stops a     *)
(* call half-way, what it does to the Operations database is what the store *)
(* promises, and no checkpoint claims a write that did not happen.  For     *)
(* calls that follow one another, whatever crashes, cancellations, lost     *)
(* answers and late servers come between: what the two databases say of     *)
(* each other, that nobody is locked out, and that a case stands still      *)
(* between calls.                                                           *)
(***************************************************************************)
EXTENDS DurableRuntime, FiniteSetTheorems, TLAPS

-----------------------------------------------------------------------------
(* The store.                                                               *)

SP == INSTANCE OperationsStoreProofs WITH
  Cases <- {Case}, Threads <- {Thread}, Owners <- {Owner},
  Heads <- CheckpointIds, InitialHead <- 0, Tokens <- 1 .. MaxToken,
  Requests <- Requests, Executions <- Executions,
  Writes <- {WriteAt(v) : v \in 0 .. Writes - 1}, Keys <- 0 .. Writes - 1,
  LegacyReceipts <- {}

(* The runtime hands the store values its proofs allow.                     *)
LEMMA AsTheStoreAssumes == SP!StoreAssumption /\ SP!LegacyAssumption
<1>1. {WriteAt(v) : v \in 0 .. Writes - 1} \subseteq SP!WriteRequest
  BY RuntimeAssumption DEF RuntimeAssumption, WriteAt, SP!WriteRequest, SP!Actions
<1>2. SP!Attempt = Store!Attempt
  BY DEF SP!Attempt, Store!Attempt
<1>3. 0 \in CheckpointIds
  BY RuntimeAssumption DEF RuntimeAssumption, CheckpointIds
<1> QED
  BY <1>1, <1>2, <1>3, NullAssumption
     DEF NullAssumption, SP!StoreAssumption, SP!LegacyAssumption

(* The store of the runtime is the one the proofs speak of.                 *)
LEMMA SameTypes == Store!TypeOK <=> SP!TypeOK
BY DEF Store!TypeOK, SP!TypeOK, Store!Attempt, SP!Attempt, Store!Grant, SP!Grant,
       Store!Receipt, SP!Receipt, Store!CaseRow, SP!CaseRow

(* The same of its steps.                                                   *)
LEMMA SameSteps ==
  /\ Store!Init <=> SP!Init
  /\ Store!Next <=> SP!Next
<1>1. Store!Init <=> SP!Init
  BY DEF Store!Init, SP!Init, Store!LegacyRow, SP!LegacyRow
<1>2. \A c, t, o : Store!IdentityStep(c, t, o) <=> SP!IdentityStep(c, t, o)
  BY DEF Store!IdentityStep, SP!IdentityStep, Store!ReserveWorkflowIdentity,
         SP!ReserveWorkflowIdentity, Store!ThreadFree, SP!ThreadFree,
         Store!ValidateOrClaimWorkflowIdentity, SP!ValidateOrClaimWorkflowIdentity,
         Store!MayAdopt, SP!MayAdopt, Store!ReleaseWorkflowIdentity,
         SP!ReleaseWorkflowIdentity, Store!MayRelease, SP!MayRelease
<1>3. \A c, t, o : Store!FenceStep(c, t, o) <=> SP!FenceStep(c, t, o)
  BY DEF Store!FenceStep, SP!FenceStep, Store!ClaimWorkflowMutation, SP!ClaimWorkflowMutation,
         Store!MayClaim, SP!MayClaim, Store!Owned, SP!Owned, Store!AtHead, SP!AtHead,
         Store!SameAttempt, SP!SameAttempt, Store!ActiveAndUnexpired, SP!ActiveAndUnexpired,
         Store!NewAttempt, SP!NewAttempt, Store!FenceColumns, SP!FenceColumns,
         Store!RefusedClaimMarksUncertain, SP!RefusedClaimMarksUncertain,
         Store!MayMarkUncertain, SP!MayMarkUncertain, Store!ForeignAttempt, SP!ForeignAttempt,
         Store!AdvanceWorkflowMutation, SP!AdvanceWorkflowMutation, Store!HoldsFence,
         SP!HoldsFence, Store!CloseAttempt, SP!CloseAttempt, Store!ReleaseWorkflowMutation,
         SP!ReleaseWorkflowMutation, Store!RecoverWorkflowMutation, SP!RecoverWorkflowMutation
<1>4. \A c, t, o : Store!GrantStep(c, t, o) <=> SP!GrantStep(c, t, o)
  BY DEF Store!GrantStep, SP!GrantStep, Store!IssueWorkflowExecutionGrant,
         SP!IssueWorkflowExecutionGrant, Store!MayIssue, SP!MayIssue, Store!ActiveResume,
         SP!ActiveResume, Store!Owned, SP!Owned, Store!ActiveAndUnexpired,
         SP!ActiveAndUnexpired, Store!ReceiptsFor, SP!ReceiptsFor, Store!GrantsFor,
         SP!GrantsFor, Store!GrantBinding, SP!GrantBinding, Store!identityVars,
         SP!identityVars
<1>5. Store!WriteStep <=> SP!WriteStep
  BY DEF Store!WriteStep, SP!WriteStep, Store!Write, SP!Write, Store!MayWrite, SP!MayWrite,
         Store!CaseAccepts, SP!CaseAccepts, Store!Consumable, SP!Consumable,
         Store!GrantMatches, SP!GrantMatches, Store!GrantAttached, SP!GrantAttached,
         Store!ActiveAndUnexpired, SP!ActiveAndUnexpired, Store!ReceiptsFor, SP!ReceiptsFor,
         Store!ReplayLegacyCreate, SP!ReplayLegacyCreate, Store!identityVars, SP!identityVars
<1>6. \A c : Store!LeaseExpires(c) <=> SP!LeaseExpires(c)
  BY DEF Store!LeaseExpires, SP!LeaseExpires, Store!FenceColumns, SP!FenceColumns
<1> QED BY <1>1, <1>2, <1>3, <1>4, <1>5, <1>6 DEF Store!Next, SP!Next

-----------------------------------------------------------------------------
(* Types.  What a process holds where: the values its next step reads are   *)
(* there, and belong to the checkpoint it runs on.                          *)

\* The process holds a marker row that it has read or prepared.
MarkerHeld ==
  {"recovering", "recovered", "prepared", "claimed", "running", "finishing",
   "unwinding", "clearing"} \cup Executing

Unfinished(cp) == cp # None => cp.id < nextId /\ (cp.next # "END" => cp.version < Writes)

Holds(p) ==
  /\ before[p] < nextId
  /\ IF before[p] = 0 THEN request[p] = <<0, "start">> ELSE memory[p] # None
  /\ pc[p] \in {"running"} \cup Executing => memory[p] # None
  /\ pc[p] \in Executing => memory[p].next = "execute_one_operation"
  /\ pc[p] \in MarkerHeld => held[p] # None
  /\ pc[p] = "granted" => grant[p] # None
  /\ Unfinished(memory[p])
  /\ memory[p] # None /\ memory[p].next = "execute_one_operation" =>
       Decision(p) \in {"confirm", "retry"}

\* A request that is waited for is the one request of a process that waits.
Awaited ==
  /\ \A m \in wire : m.awaited => pc[m.proc] = "waiting"
  /\ \A m, n \in wire : m.awaited /\ n.awaited /\ m.proc = n.proc => m = n

(* The checkpoints a process may yet save and the tokens it may yet draw    *)
(* before its call is over.                                                 *)
SavesFrom(next) ==
  IF next \in HumanNodes \cup {"END"} THEN 0
  ELSE IF next \in {"investigate", "execute_one_operation"} THEN 2 ELSE 1

SavesLeft(p) ==
  IF pc[p] \in {"idle", "unreserving", "finishing", "unwinding", "clearing"} THEN 0
  ELSE IF pc[p] \in Executing THEN 2
  ELSE IF pc[p] = "running" /\ ~Answered(p) THEN SavesFrom(memory[p].next)
  ELSE SavesPerCall

Owed == {x \in Procs \X (1 .. SavesPerCall) : x[2] <= SavesLeft(x[1])}

Undrawn ==
  {p \in Procs : pc[p] \in {"starting", "reserved", "resuming", "recovering", "recovered",
                            "unmarked"}}

Covered ==
  /\ nextId + Cardinality(Owed) <= MaxCheckpoint + 1
  /\ nextToken + Cardinality(Undrawn) <= MaxToken + 1

TypeInv ==
  /\ TypeOK
  /\ \A p \in Procs : Holds(p)
  /\ Unfinished(checkpoint)
  /\ Awaited
  /\ Covered

-----------------------------------------------------------------------------
(* What the runtime does to the store.                                      *)

(* The arguments of a call have the types the store expects.                *)
LEMMA ArgumentTypes ==
  ASSUME TypeOK, NEW p \in Procs, Holds(p)
  PROVE  /\ before[p] \in CheckpointIds /\ after[p] \in CheckpointIds
         /\ request[p] \in Requests
         /\ held[p] # None => /\ held[p].token \in 1 .. MaxToken
                              /\ held[p].head \in CheckpointIds /\ held[p].request \in Requests
         /\ ExecutionOf(p) \in Executions \cup {None}
<1>1. held[p] # None => held[p] \in Marker
  BY DEF TypeOK
<1>2. memory[p] # None => memory[p].version \in 0 .. Writes
  BY DEF TypeOK, Checkpoint
<1>3. Decision(p) \in {"confirm", "cancel", "retry"} \/ ~Starting(p) => memory[p] # None
  BY DEF Holds, Decision, Starting
<1>4. ExecutionOf(p) \in Executions \cup {None}
  BY <1>2, <1>3 DEF ExecutionOf, Executions
<1> QED BY <1>1, <1>4 DEF TypeOK, Marker

(* The steps that leave the Operations database alone.                      *)
LEMMA OtherDatabase ==
  ASSUME NEW p \in Procs,
         \/ StartCase(p) \/ LoadMarker(p) \/ ClearStaleMarker(p) \/ PrepareMarker(p)
         \/ RefuseEarly(p) \/ Enter(p) \/ CheckpointMoved(p) \/ RunNode(p) \/ Stop(p)
         \/ SendWrite(p) \/ RecordOutcome(p) \/ UnwindRefused(p) \/ ClearMarker(p)
         \/ LoseAnswer(p) \/ Abort(p) \/ Crash(p)
  PROVE  UNCHANGED storeVars
BY DEF StartCase, LoadMarker, ClearStaleMarker, PrepareMarker, RefuseEarly, Enter,
       CheckpointMoved, RunNode, Stop, SendWrite, RecordOutcome, UnwindRefused, ClearMarker,
       LoseAnswer, Abort, Crash, Save, storeVars

(* The steps that reserve, adopt or release the identity row.               *)
LEMMA IdentitySteps ==
  ASSUME NEW p \in Procs,
         ReserveIdentity(p) \/ ReleaseIdentity(p) \/ \E d \in AllDecisions : ResumeCase(p, d)
  PROVE  Store!IdentityStep(Case, Thread, Owner) \/ UNCHANGED storeVars
BY DEF ReserveIdentity, ReleaseIdentity, ResumeCase, Store!IdentityStep, storeVars

(* The steps that claim, advance, release or recover the fence.             *)
LEMMA FenceSteps ==
  ASSUME TypeOK, NEW p \in Procs, Holds(p),
         RecoverFence(p) \/ Claim(p) \/ ClaimRefused(p) \/ Finish(p) \/ Unwind(p)
  PROVE  Store!FenceStep(Case, Thread, Owner) \/ UNCHANGED storeVars
<1>1. held[p] # None
  BY DEF Holds, MarkerHeld, RecoverFence, Claim, ClaimRefused, Finish, Unwind
<1>2. /\ before[p] \in CheckpointIds /\ after[p] \in CheckpointIds /\ request[p] \in Requests
      /\ held[p].token \in 1 .. MaxToken
      /\ held[p].head \in CheckpointIds /\ held[p].request \in Requests
      /\ ExecutionOf(p) \in Executions \cup {None}
  BY <1>1, ArgumentTypes
<1>3. CASE RecoverFence(p)
  BY <1>2, <1>3 DEF RecoverFence, Store!FenceStep
<1>4. CASE Claim(p)
  BY <1>2, <1>4 DEF Claim, Store!FenceStep
<1>5. CASE ClaimRefused(p)
  BY <1>2, <1>5 DEF ClaimRefused, Store!FenceStep
<1>6. CASE Finish(p)
  BY <1>2, <1>6 DEF Finish, Advanced, Store!FenceStep
<1>7. CASE Unwind(p)
  BY <1>2, <1>7 DEF Unwind, Advanced, Store!FenceStep
<1> QED BY <1>3, <1>4, <1>5, <1>6, <1>7

(* The write of a version is among those the store knows.                   *)
LEMMA WritesOfTheCase ==
  ASSUME NEW v \in 0 .. Writes - 1
  PROVE  WriteAt(v) \in {WriteAt(u) : u \in 0 .. Writes - 1} /\ WriteAt(v).case = Case
BY DEF WriteAt

(* The steps that issue a grant and that write.                             *)
LEMMA GrantAndWriteSteps ==
  ASSUME TypeInv,
         \/ \E p \in Procs : IssueGrant(p)
         \/ \E m \in wire : ServerWrite(m)
  PROVE  \/ Store!GrantStep(Case, Thread, Owner)
         \/ Store!WriteStep
         \/ UNCHANGED storeVars
<1>1. ASSUME NEW p \in Procs, IssueGrant(p)
      PROVE  Store!GrantStep(Case, Thread, Owner) \/ UNCHANGED storeVars
  <2>1. Holds(p) /\ TypeOK
    BY DEF TypeInv
  <2>2. memory[p] # None /\ memory[p].next = "execute_one_operation"
    BY <2>1, <1>1 DEF IssueGrant, Holds
  <2>3. memory[p].version \in 0 .. Writes - 1
    BY <2>1, <2>2, RuntimeAssumption DEF TypeOK, Checkpoint, Holds, Unfinished, RuntimeAssumption
  <2>4. ASSUME Store!IssueWorkflowExecutionGrant(Case, Thread, Owner, ExecutionOf(p),
                 WriteAt(memory[p].version), memory[p].version)
        PROVE  Store!GrantStep(Case, Thread, Owner)
    <3>1. ExecutionOf(p) \in Executions
      <4>1. memory[p].version \in 0 .. Writes
        BY <2>1, <2>2 DEF TypeOK, Checkpoint
      <4> QED BY <4>1, <2>1, <2>2 DEF Holds, ExecutionOf, Executions
    <3> QED BY <3>1, <2>3, <2>4, WritesOfTheCase DEF Store!GrantStep
  <2> QED BY <2>4, <1>1 DEF IssueGrant, storeVars
<1>2. ASSUME NEW m \in wire, ServerWrite(m)
      PROVE  Store!WriteStep \/ UNCHANGED storeVars
  <2>1. m.version \in 0 .. Writes - 1
    BY DEF TypeInv, TypeOK, Message
  <2>2. ASSUME Store!Write(WriteAt(m.version), m.version, m.grant) PROVE Store!WriteStep
    <3>1. m.grant \in grants
      BY <2>2 DEF Store!Write, Store!MayWrite, Store!Consumable
    <3> QED BY <2>1, <2>2, <3>1, WritesOfTheCase DEF Store!WriteStep
  <2> QED BY <1>2, <2>2 DEF ServerWrite, storeVars
<1> QED BY <1>1, <1>2

(* Whatever the runtime does is one transaction of the store, or none.      *)
LEMMA StoreStep == TypeInv /\ [Next]_vars => [Store!Next]_(Store!storeVars)
<1> SUFFICES ASSUME TypeInv, Next PROVE Store!Next \/ UNCHANGED storeVars
  BY DEF vars, storeVars, Store!storeVars
<1>1. \/ \E p \in Procs : Call(p) \/ Proceed(p) \/ LoseAnswer(p) \/ Abort(p) \/ Crash(p)
      \/ \E m \in wire : ServerWrite(m)
      \/ LeaseExpires
  BY DEF Next
<1>2. ASSUME NEW p \in Procs, Call(p) \/ Proceed(p) \/ LoseAnswer(p) \/ Abort(p) \/ Crash(p)
      PROVE  Store!Next \/ UNCHANGED storeVars
  <2>1. TypeOK /\ Holds(p)
    BY DEF TypeInv
  <2>2. CASE \/ StartCase(p) \/ LoadMarker(p) \/ ClearStaleMarker(p) \/ PrepareMarker(p)
             \/ RefuseEarly(p) \/ Enter(p) \/ CheckpointMoved(p) \/ RunNode(p) \/ Stop(p)
             \/ SendWrite(p) \/ RecordOutcome(p) \/ UnwindRefused(p) \/ ClearMarker(p)
             \/ LoseAnswer(p) \/ Abort(p) \/ Crash(p)
    BY <2>2, OtherDatabase
  <2>3. CASE ReserveIdentity(p) \/ ReleaseIdentity(p) \/ \E d \in AllDecisions : ResumeCase(p, d)
    BY <2>3, IdentitySteps DEF Store!Next
  <2>4. CASE RecoverFence(p) \/ Claim(p) \/ ClaimRefused(p) \/ Finish(p) \/ Unwind(p)
    BY <2>1, <2>4, FenceSteps DEF Store!Next
  <2>5. CASE IssueGrant(p)
    BY <2>5, GrantAndWriteSteps DEF Store!Next
  <2> QED BY <1>2, <2>2, <2>3, <2>4, <2>5 DEF Call, Proceed
<1>3. CASE \E m \in wire : ServerWrite(m)
  BY <1>3, GrantAndWriteSteps DEF Store!Next
<1>4. CASE LeaseExpires
  BY <1>4 DEF LeaseExpires, Store!Next
<1> QED BY <1>1, <1>2, <1>3, <1>4

-----------------------------------------------------------------------------
(* Type correctness.                                                        *)

\* TypeOK of the checkpoint database, the wire and the processes.
RuntimeTypes ==
  /\ checkpoint \in Checkpoint \cup {None}
  /\ marker \in Marker \cup {None}
  /\ wire \subseteq Message
  /\ pc \in [Procs -> PCs]
  /\ before \in [Procs -> CheckpointIds]
  /\ request \in [Procs -> Requests]
  /\ held \in [Procs -> Marker \cup {None}]
  /\ memory \in [Procs -> Checkpoint \cup {None}]
  /\ after \in [Procs -> CheckpointIds]
  /\ grant \in [Procs -> Store!Grant \cup {None}]
  /\ reserved \in [Procs -> BOOLEAN]
  /\ nextId \in 1 .. MaxCheckpoint + 1
  /\ nextToken \in 1 .. MaxToken + 1
  /\ faults \in 0 .. MaxFaults

\* TypeOK has two halves.
LEMMA TypeHalves == TypeOK <=> Store!TypeOK /\ RuntimeTypes
BY DEF TypeOK, RuntimeTypes

(* The saves of one call are three.                                         *)
LEMMA SavesAreFinite ==
  IsFiniteSet(1 .. SavesPerCall) /\ Cardinality(1 .. SavesPerCall) = SavesPerCall
<1>1. 1 \in Int /\ SavesPerCall \in Int /\ ~(1 > SavesPerCall)
  BY DEF SavesPerCall
<1>2. /\ IsFiniteSet(1 .. SavesPerCall)
      /\ Cardinality(1 .. SavesPerCall)
           = IF 1 > SavesPerCall THEN 0 ELSE SavesPerCall - 1 + 1
  BY <1>1, FS_Interval
<1> QED BY <1>1, <1>2

(* A budget is a number of saves that a call is entitled to.                *)
LEMMA Budgets ==
  /\ IsFiniteSet(Owed) /\ Cardinality(Owed) \in Nat
  /\ IsFiniteSet(Undrawn) /\ Cardinality(Undrawn) \in Nat
  /\ \A p \in Procs : SavesLeft(p) \in 0 .. SavesPerCall
<1>1. IsFiniteSet(Procs) /\ IsFiniteSet(1 .. SavesPerCall)
  BY RuntimeAssumption, SavesAreFinite DEF RuntimeAssumption
<1>2. IsFiniteSet(Procs \X (1 .. SavesPerCall))
  BY <1>1, FS_Product
<1>3. Owed \subseteq Procs \X (1 .. SavesPerCall) /\ Undrawn \subseteq Procs
  BY DEF Owed, Undrawn
<1>4. IsFiniteSet(Owed) /\ IsFiniteSet(Undrawn)
  BY <1>1, <1>2, <1>3, FS_Subset
<1>5. \A p \in Procs : SavesLeft(p) \in 0 .. SavesPerCall
  BY DEF SavesLeft, SavesFrom, SavesPerCall
<1> QED BY <1>4, <1>5, FS_CardinalityType

(* A process that has a save left finds an id for it.                       *)
LEMMA RoomToSave ==
  ASSUME TypeInv, NEW p \in Procs, SavesLeft(p) > 0
  PROVE  nextId \in 1 .. MaxCheckpoint /\ <<p, SavesLeft(p)>> \in Owed
<1>1. <<p, SavesLeft(p)>> \in Owed
  BY Budgets DEF Owed, SavesPerCall
<1>2. Cardinality(Owed) > 0
  BY <1>1, Budgets, FS_EmptySet
<1> QED BY <1>1, <1>2, Budgets, RuntimeAssumption
           DEF TypeInv, TypeOK, Covered, RuntimeAssumption

(* A process that has not drawn its token finds one.                        *)
LEMMA RoomToDraw ==
  ASSUME TypeInv, NEW p \in Undrawn
  PROVE  nextToken \in 1 .. MaxToken
<1>1. Cardinality(Undrawn) > 0
  BY Budgets, FS_EmptySet
<1> QED BY <1>1, Budgets, RuntimeAssumption DEF TypeInv, TypeOK, Covered, RuntimeAssumption

(* A step that saves nothing, and leaves nobody more to save, keeps the     *)
(* budget.                                                                  *)
LEMMA NothingSaved ==
  ASSUME TypeInv, nextId' = nextId, \A q \in Procs : SavesLeft(q)' <= SavesLeft(q)
  PROVE  nextId' + Cardinality(Owed') <= MaxCheckpoint + 1 /\ Cardinality(Owed') \in Nat
<1>1. Owed' \subseteq Owed
  <2> SUFFICES ASSUME NEW q \in Procs, NEW i \in 1 .. SavesPerCall, i <= SavesLeft(q)'
               PROVE  i <= SavesLeft(q)
    BY DEF Owed
  <2>1. SavesLeft(q) \in 0 .. SavesPerCall /\ SavesLeft(q)' <= SavesLeft(q)
    BY Budgets
  <2>2. SavesLeft(q)' \in Int
    BY DEF SavesLeft, SavesFrom, SavesPerCall
  <2> QED BY <2>1, <2>2 DEF SavesPerCall
<1>2. IsFiniteSet(Owed') /\ Cardinality(Owed') <= Cardinality(Owed)
  BY <1>1, Budgets, FS_Subset
<1>3. Cardinality(Owed') \in Nat
  BY <1>2, FS_CardinalityType
<1> QED BY <1>2, <1>3, Budgets, RuntimeAssumption DEF TypeInv, TypeOK, Covered, RuntimeAssumption

(* A save is taken from the budget of the process that saves.               *)
LEMMA OneSaved ==
  ASSUME TypeInv, nextId' = nextId + 1,
         NEW p \in Procs, SavesLeft(p)' < SavesLeft(p),
         \A q \in Procs \ {p} : SavesLeft(q)' = SavesLeft(q)
  PROVE  nextId' + Cardinality(Owed') <= MaxCheckpoint + 1 /\ Cardinality(Owed') \in Nat
<1> DEFINE spent == <<p, SavesLeft(p)>>
<1>1. SavesLeft(p)' \in Int /\ SavesLeft(p)' >= 0 /\ SavesLeft(p) \in 0 .. SavesPerCall
  BY Budgets DEF SavesLeft, SavesFrom, SavesPerCall
<1>2. spent \in Owed
  BY <1>1, RoomToSave DEF SavesPerCall
<1>3. Owed' \subseteq Owed \ {spent}
  <2> SUFFICES ASSUME NEW q \in Procs, NEW i \in 1 .. SavesPerCall, i <= SavesLeft(q)'
               PROVE  i <= SavesLeft(q) /\ <<q, i>> # spent
    BY DEF Owed
  <2>1. CASE q = p
    BY <2>1, <1>1 DEF SavesPerCall
  <2>2. CASE q # p
    BY <2>2
  <2> QED BY <2>1, <2>2
<1> HIDE DEF spent
<1>4. IsFiniteSet(Owed \ {spent}) /\ Cardinality(Owed \ {spent}) = Cardinality(Owed) - 1
  BY <1>2, Budgets, FS_RemoveElement
<1>5. IsFiniteSet(Owed') /\ Cardinality(Owed') <= Cardinality(Owed) - 1
  BY <1>3, <1>4, FS_Subset
<1>6. Cardinality(Owed') \in Nat
  BY <1>5, FS_CardinalityType
<1> QED BY <1>5, <1>6, Budgets, RuntimeAssumption DEF TypeInv, TypeOK, Covered, RuntimeAssumption

(* Nor does anybody draw a token he is not entitled to.                     *)
LEMMA NothingDrawn ==
  ASSUME TypeInv, nextToken' = nextToken, Undrawn' \subseteq Undrawn
  PROVE  nextToken' + Cardinality(Undrawn') <= MaxToken + 1 /\ Cardinality(Undrawn') \in Nat
<1>1. IsFiniteSet(Undrawn') /\ Cardinality(Undrawn') <= Cardinality(Undrawn)
  BY Budgets, FS_Subset
<1>2. Cardinality(Undrawn') \in Nat
  BY <1>1, FS_CardinalityType
<1> QED BY <1>1, <1>2, Budgets, RuntimeAssumption DEF TypeInv, TypeOK, Covered, RuntimeAssumption

(* A token that is drawn was set aside for the process that draws it.       *)
LEMMA OneDrawn ==
  ASSUME TypeInv, NEW p \in Undrawn, nextToken' = nextToken + 1,
         Undrawn' \subseteq Undrawn \ {p}
  PROVE  nextToken' + Cardinality(Undrawn') <= MaxToken + 1 /\ Cardinality(Undrawn') \in Nat
<1>1. IsFiniteSet(Undrawn \ {p}) /\ Cardinality(Undrawn \ {p}) = Cardinality(Undrawn) - 1
  BY Budgets, FS_RemoveElement
<1>2. IsFiniteSet(Undrawn') /\ Cardinality(Undrawn') <= Cardinality(Undrawn) - 1
  BY <1>1, FS_Subset
<1>3. Cardinality(Undrawn') \in Nat
  BY <1>2, FS_CardinalityType
<1> QED BY <1>2, <1>3, Budgets, RuntimeAssumption DEF TypeInv, TypeOK, Covered, RuntimeAssumption

(* A call begins only where the budget covers it with all calls under way.  *)
LEMMA CallCovered ==
  ASSUME TypeInv, NEW p \in Procs, pc[p] = "idle", Room,
         UNCHANGED <<nextId, nextToken>>,
         \A q \in Procs \ {p} : pc'[q] = pc[q]
  PROVE  Covered'
<1> DEFINE busy == {q \in Procs : pc[q] # "idle"}
           callers == busy \cup {p}
<1>1. busy \subseteq Procs /\ IsFiniteSet(busy)
  BY RuntimeAssumption, FS_Subset DEF RuntimeAssumption
<1>2. IsFiniteSet(callers) /\ Cardinality(callers) = Cardinality(busy) + 1
  BY <1>1, FS_AddElement
<1>3. Cardinality(busy) \in Nat
  BY <1>1, FS_CardinalityType
<1>4. Undrawn' \subseteq callers
  BY DEF Undrawn
<1>5. Owed' \subseteq callers \X (1 .. SavesPerCall)
  <2> SUFFICES ASSUME NEW q \in Procs, q \notin callers PROVE SavesLeft(q)' = 0
    BY DEF Owed
  <2>1. pc'[q] = "idle"
    OBVIOUS
  <2> QED BY <2>1 DEF SavesLeft
<1>6. Room => /\ nextId + SavesPerCall * (Cardinality(busy) + 1) <= MaxCheckpoint + 1
              /\ nextToken + (Cardinality(busy) + 1) <= MaxToken + 1
  BY DEF Room
<1> HIDE DEF busy, callers
<1>7. /\ IsFiniteSet(callers \X (1 .. SavesPerCall))
      /\ Cardinality(callers \X (1 .. SavesPerCall)) = Cardinality(callers) * SavesPerCall
  BY <1>2, SavesAreFinite, FS_Product
<1>8. /\ Cardinality(Owed') <= Cardinality(callers) * SavesPerCall
      /\ Cardinality(Undrawn') <= Cardinality(callers)
      /\ Cardinality(Owed') \in Nat /\ Cardinality(Undrawn') \in Nat
  BY <1>2, <1>4, <1>5, <1>7, FS_Subset, FS_CardinalityType
<1> QED BY <1>2, <1>3, <1>6, <1>8, RuntimeAssumption
           DEF Covered, SavesPerCall, TypeInv, TypeOK, RuntimeAssumption

\* TypeInv without the Operations database.
LocalInv ==
  /\ RuntimeTypes
  /\ \A p \in Procs : Holds(p)
  /\ Unfinished(checkpoint)
  /\ Awaited
  /\ Covered

(* TypeInv has the store's half, and one that each process has a share in.  *)
LEMMA InvHalves == TypeInv <=> Store!TypeOK /\ LocalInv
BY TypeHalves DEF TypeInv, LocalInv

\* The locals of the other processes are their own.
Others(p) ==
  \A q \in Procs \ {p} :
    /\ pc'[q] = pc[q] /\ before'[q] = before[q] /\ request'[q] = request[q]
    /\ held'[q] = held[q] /\ memory'[q] = memory[q] /\ after'[q] = after[q]
    /\ grant'[q] = grant[q] /\ reserved'[q] = reserved[q]

Own(p) == Call(p) \/ Proceed(p) \/ LoseAnswer(p) \/ Abort(p) \/ Crash(p)

(* A step of one process leaves the locals of the others alone.             *)
LEMMA OthersStay ==
  ASSUME RuntimeTypes, NEW p \in Procs, Own(p)
  PROVE  Others(p)
<1> USE DEF RuntimeTypes, Others, Goto, localVars
<1>1. CASE \/ StartCase(p) \/ (\E d \in AllDecisions : ResumeCase(p, d)) \/ ReserveIdentity(p)
           \/ LoadMarker(p) \/ RecoverFence(p) \/ ClearStaleMarker(p) \/ PrepareMarker(p)
  BY <1>1 DEF StartCase, ResumeCase, ReserveIdentity, LoadMarker, RecoverFence,
              ClearStaleMarker, PrepareMarker
<1>2. CASE \/ RefuseEarly(p) \/ Claim(p) \/ ClaimRefused(p) \/ ReleaseIdentity(p)
           \/ UnwindRefused(p) \/ ClearMarker(p) \/ Crash(p)
  BY <1>2 DEF RefuseEarly, Claim, ClaimRefused, ReleaseIdentity, UnwindRefused, ClearMarker,
              Crash, Leave
<1>3. CASE Enter(p) \/ RunNode(p) \/ RecordOutcome(p)
  BY <1>3 DEF Enter, RunNode, RecordOutcome, Save
<1>4. CASE CheckpointMoved(p) \/ Stop(p) \/ Abort(p) \/ Finish(p) \/ Unwind(p)
  BY <1>4 DEF CheckpointMoved, Stop, Abort, Finish, Unwind, ReadAfter
<1>5. CASE IssueGrant(p) \/ SendWrite(p) \/ LoseAnswer(p)
  BY <1>5 DEF IssueGrant, SendWrite, LoseAnswer
<1> QED BY <1>1, <1>2, <1>3, <1>4, <1>5 DEF Own, Call, Proceed

(* What another process holds is not disturbed, as ids only grow.           *)
LEMMA OthersHold ==
  ASSUME TypeInv, NEW p \in Procs, Others(p), nextId' \in {nextId, nextId + 1},
         NEW q \in Procs \ {p}
  PROVE  Holds(q)' /\ SavesLeft(q)' = SavesLeft(q)
<1>1. Holds(q) /\ nextId \in Int /\ before[q] \in Int
  BY RuntimeAssumption DEF TypeInv, TypeOK, CheckpointIds, RuntimeAssumption
<1>2. memory[q] # None => memory[q].id \in Int
  BY RuntimeAssumption DEF TypeInv, TypeOK, CheckpointIds, Checkpoint, RuntimeAssumption
<1>3. SavesLeft(q)' = SavesLeft(q)
  BY DEF Others, SavesLeft, Answered
<1> QED BY <1>1, <1>2, <1>3 DEF Others, Holds, Unfinished, Decision

(* A step that saves nothing and draws nothing.                             *)
LEMMA Moved ==
  ASSUME TypeInv, NEW p \in Procs, Others(p), RuntimeTypes', Holds(p)', Awaited',
         Unfinished(checkpoint)', UNCHANGED <<nextId, nextToken>>,
         SavesLeft(p)' <= SavesLeft(p), p \in Undrawn' => p \in Undrawn
  PROVE  LocalInv'
<1>1. \A q \in Procs : Holds(q)'
  BY OthersHold
<1>2. \A q \in Procs : SavesLeft(q)' <= SavesLeft(q)
  <2>1. ASSUME NEW q \in Procs \ {p} PROVE SavesLeft(q)' <= SavesLeft(q)
    BY OthersHold, Budgets DEF SavesPerCall
  <2> QED BY <2>1
<1>3. Undrawn' \subseteq Undrawn
  BY DEF Others, Undrawn
<1> QED BY <1>1, <1>2, <1>3, NothingSaved, NothingDrawn DEF LocalInv, Covered

(* A process that returns or dies lets go of everything.                    *)
LEMMA Left ==
  ASSUME TypeInv, NEW p \in Procs, pc[p] # "idle", Leave(p), Others(p),
         marker' \in Marker \cup {None}, faults' \in 0 .. MaxFaults,
         wire' \subseteq Message, Awaited', UNCHANGED <<checkpoint, nextId, nextToken>>
  PROVE  LocalInv'
<1> USE RuntimeAssumption DEF RuntimeAssumption
<1>1. RuntimeTypes'
  BY DEF TypeInv, TypeOK, RuntimeTypes, Leave, Goto, PCs, CheckpointIds, Requests,
         AllDecisions
<1>2. Holds(p)'
  BY DEF TypeInv, TypeOK, Holds, Leave, Goto, Unfinished, Executing, MarkerHeld
<1>3. SavesLeft(p)' = 0 /\ p \notin Undrawn'
  BY DEF TypeInv, TypeOK, SavesLeft, Leave, Goto, Undrawn
<1>4. Unfinished(checkpoint)' /\ SavesLeft(p) >= 0
  BY Budgets DEF TypeInv, Unfinished, SavesPerCall
<1> QED BY <1>1, <1>2, <1>3, <1>4, Moved

(* A superstep ends.                                                        *)
LEMMA Saved ==
  ASSUME TypeInv, NEW p \in Procs, Others(p),
         NEW next \in Nodes, NEW version \in 0 .. Writes, NEW status \in Statuses,
         Save(p, next, version, status), UNCHANGED <<wire, faults>>,
         pc[p] # "waiting", pc[p] \in MarkerHeld, p \notin Undrawn,
         next # "END" => version < Writes,
         next = "execute_one_operation" => Decision(p) \in {"confirm", "retry"},
         SavesFrom(next) < SavesLeft(p)
  PROVE  LocalInv'
<1> DEFINE cp == [id |-> nextId, next |-> next, interrupted |-> FALSE,
                  version |-> version, status |-> status]
<1>1. SavesLeft(p) > 0 /\ nextId \in 1 .. MaxCheckpoint
  <2>1. SavesFrom(next) \in Nat /\ SavesLeft(p) \in Int
    BY Budgets DEF SavesFrom, SavesPerCall
  <2>2. SavesLeft(p) > 0
    BY <2>1
  <2> QED BY <2>2, RoomToSave
<1>2. cp \in Checkpoint
  BY <1>1, RuntimeAssumption DEF Checkpoint, CheckpointIds, RuntimeAssumption
<1>3. /\ checkpoint' = cp /\ memory' = [memory EXCEPT ![p] = cp] /\ nextId' = nextId + 1
      /\ pc' = [pc EXCEPT ![p] = "running"]
      /\ UNCHANGED <<marker, nextToken, before, request, held, after, grant, reserved>>
  BY DEF Save, Goto
<1>4. cp.id = nextId /\ cp.next = next /\ cp.version = version
  OBVIOUS
<1> HIDE DEF cp
<1>5. RuntimeTypes'
  BY <1>1, <1>2, <1>3, RuntimeAssumption DEF TypeInv, TypeOK, RuntimeTypes, PCs, RuntimeAssumption
<1>6. pc'[p] = "running" /\ memory'[p] = cp /\ cp # None
  BY <1>2, <1>3, NullAssumption DEF TypeInv, TypeOK, NullAssumption
<1>7. Holds(p) /\ before[p] < nextId /\ before[p] \in Int
  BY RuntimeAssumption DEF TypeInv, TypeOK, Holds, CheckpointIds, RuntimeAssumption
<1>8. Holds(p)'
  BY <1>1, <1>3, <1>4, <1>6, <1>7 DEF Holds, Unfinished, Executing, MarkerHeld, Decision
<1>9. SavesLeft(p)' = SavesFrom(next)
  BY <1>1, <1>3, <1>4, <1>6, <1>7 DEF SavesLeft, Answered, Executing
<1>10. Unfinished(checkpoint)'
  BY <1>1, <1>3, <1>4 DEF Unfinished
<1>11. Awaited'
  <2>1. \A m \in wire : m.awaited => pc[m.proc] = "waiting" /\ m.proc \in Procs
    BY DEF TypeInv, TypeOK, Awaited, Message
  <2>2. \A m \in wire : m.awaited => pc'[m.proc] = "waiting"
    BY <2>1 DEF Others
  <2> QED BY <2>2 DEF TypeInv, Awaited
<1>12. \A q \in Procs : Holds(q)'
  BY <1>1, <1>3, <1>8, OthersHold
<1>13. nextId' + Cardinality(Owed') <= MaxCheckpoint + 1 /\ Cardinality(Owed') \in Nat
  BY <1>3, <1>9, OneSaved, OthersHold
<1>14. Undrawn' \subseteq Undrawn
  BY <1>6 DEF Undrawn, Others
<1> QED BY <1>3, <1>5, <1>10, <1>11, <1>12, <1>13, <1>14, NothingDrawn DEF LocalInv, Covered

(* No request is given up or sent: who waits keeps waiting.                 *)
LEMMA StillAwaited ==
  ASSUME TypeInv, NEW p \in Procs, Others(p), pc[p] # "waiting", UNCHANGED wire
  PROVE  Awaited' /\ wire' \subseteq Message
<1>1. \A m \in wire : m.proc \in Procs
  BY DEF TypeInv, TypeOK, Message
<1> QED BY <1>1 DEF TypeInv, TypeOK, Awaited, Others

(* A call begins.                                                           *)
LEMMA CallTypes ==
  ASSUME TypeInv, NEW p \in Procs, Call(p)
  PROVE  LocalInv'
<1>1. pc[p] = "idle" /\ Room /\ UNCHANGED <<checkpoint, marker, nextId, nextToken, wire, faults>>
  BY DEF Call, StartCase, ResumeCase, CheckpointDB
<1>2. TypeOK /\ RuntimeTypes /\ Holds(p) /\ Unfinished(checkpoint)
  BY TypeHalves DEF TypeInv
<1>3. Others(p)
  BY <1>2, OthersStay DEF Own
<1>4. Awaited' /\ wire' \subseteq Message
  BY <1>1, <1>3, StillAwaited
<1>5. Covered'
  BY <1>1, <1>3, CallCovered DEF Others
<1>6. RuntimeTypes' /\ Holds(p)'
  <2>1. CASE StartCase(p)
    BY <1>1, <1>2, <1>4, <2>1
       DEF StartCase, Goto, localVars, RuntimeTypes, Holds, PCs, Unfinished, Executing,
           MarkerHeld, Decision
  <2>2. ASSUME NEW d \in AllDecisions, ResumeCase(p, d) PROVE RuntimeTypes' /\ Holds(p)'
    <3>1. checkpoint \in Checkpoint /\ checkpoint.id \in CheckpointIds \ {0}
      BY <1>2, <2>2 DEF ResumeCase, RuntimeTypes, Checkpoint
    <3>2. /\ pc' = [pc EXCEPT ![p] = "resuming"]
          /\ before' = [before EXCEPT ![p] = checkpoint.id]
          /\ request' = [request EXCEPT ![p] = <<checkpoint.id, d>>]
          /\ memory' = [memory EXCEPT ![p] = checkpoint]
          /\ UNCHANGED <<held, after, grant, reserved>>
      BY <2>2 DEF ResumeCase, Goto
    <3>3. checkpoint.next # "execute_one_operation"
      BY <2>2 DEF ResumeCase, Decisions, Edges, AllDecisions
    <3>4. <<checkpoint.id, d>> \in Requests
      BY <3>1 DEF Requests
    <3>5. RuntimeTypes'
      BY <1>1, <1>2, <1>4, <3>1, <3>2, <3>4 DEF RuntimeTypes, PCs
    <3>6. /\ pc'[p] = "resuming" /\ before'[p] = checkpoint.id /\ memory'[p] = checkpoint
          /\ before'[p] # 0 /\ memory'[p] # None
      BY <1>2, <2>2, <3>1, <3>2 DEF ResumeCase, RuntimeTypes
    <3>7. Holds(p)'
      BY <1>1, <1>2, <3>3, <3>6, <2>2 DEF Holds, Unfinished, Executing, MarkerHeld, ResumeCase
    <3> QED BY <3>5, <3>7
  <2> QED BY <2>1, <2>2 DEF Call
<1>7. \A q \in Procs : Holds(q)'
  BY <1>1, <1>3, <1>6, OthersHold
<1>8. Unfinished(checkpoint)'
  BY <1>1, <1>2 DEF Unfinished
<1> QED BY <1>4, <1>5, <1>6, <1>7, <1>8 DEF LocalInv

(* Before the claim: locals are read and the marker is prepared.            *)
LEMMA BeforeClaimTypes ==
  ASSUME TypeInv, NEW p \in Procs,
         \/ ReserveIdentity(p) \/ LoadMarker(p) \/ RecoverFence(p) \/ ClearStaleMarker(p)
         \/ Claim(p)
  PROVE  LocalInv'
<1>1. TypeOK /\ RuntimeTypes /\ Holds(p) /\ Unfinished(checkpoint)
  BY TypeHalves DEF TypeInv
<1>2. Others(p)
  BY <1>1, OthersStay DEF Own, Proceed
<1>3. /\ pc[p] # "waiting"
      /\ UNCHANGED <<checkpoint, nextId, nextToken, wire, before, request, memory, after, grant, faults>>
  BY DEF ReserveIdentity, LoadMarker, RecoverFence, ClearStaleMarker, Claim, CheckpointDB,
         localVars
<1>4. Awaited' /\ wire' \subseteq Message
  BY <1>2, <1>3, StillAwaited
<1>5. RuntimeTypes' /\ Holds(p)'
  <2> USE DEF RuntimeTypes, Holds, Goto, PCs, Unfinished, Executing, MarkerHeld, Decision,
              CheckpointDB, localVars
  <2>1. CASE ReserveIdentity(p)
    BY <1>1, <1>3, <1>4, <2>1 DEF ReserveIdentity
  <2>2. CASE LoadMarker(p)
    BY <1>1, <1>3, <1>4, <2>2 DEF LoadMarker
  <2>3. CASE RecoverFence(p)
    BY <1>1, <1>3, <1>4, <2>3 DEF RecoverFence
  <2>4. CASE ClearStaleMarker(p)
    BY <1>1, <1>3, <1>4, <2>4 DEF ClearStaleMarker, DeleteMarker
  <2>5. CASE Claim(p)
    BY <1>1, <1>3, <1>4, <2>5 DEF Claim
  <2> QED BY <2>1, <2>2, <2>3, <2>4, <2>5
<1>6. SavesLeft(p)' <= SavesLeft(p) /\ (p \in Undrawn' => p \in Undrawn)
  <2>1. SavesLeft(p) = SavesPerCall
    BY DEF SavesLeft, ReserveIdentity, LoadMarker, RecoverFence, ClearStaleMarker, Claim, Executing
  <2>2. SavesLeft(p)' <= SavesPerCall
    BY DEF SavesLeft, SavesFrom, SavesPerCall
  <2>3. p \in Undrawn' => p \in Undrawn
    BY <1>1 DEF ReserveIdentity, LoadMarker, RecoverFence, ClearStaleMarker, Claim,
                RuntimeTypes, Goto, Undrawn
  <2> QED BY <2>1, <2>2, <2>3
<1>7. Unfinished(checkpoint)' /\ UNCHANGED <<nextId, nextToken>>
  BY <1>1, <1>3 DEF Unfinished
<1> QED BY <1>2, <1>4, <1>5, <1>6, <1>7, Moved

(* A token is drawn for a new marker.                                       *)
LEMMA PrepareTypes ==
  ASSUME TypeInv, NEW p \in Procs, PrepareMarker(p)
  PROVE  LocalInv'
<1>1. TypeOK /\ RuntimeTypes /\ Holds(p) /\ Unfinished(checkpoint)
  BY TypeHalves DEF TypeInv
<1>2. Others(p)
  BY <1>1, OthersStay DEF Own, Proceed
<1>3. /\ pc[p] \in {"reserved", "unmarked"} /\ p \in Undrawn
      /\ pc' = [pc EXCEPT ![p] = "prepared"] /\ held' = [held EXCEPT ![p] = marker']
      /\ UNCHANGED <<checkpoint, nextId, wire, before, request, memory, after, grant,
                     reserved, faults>>
  BY DEF PrepareMarker, Goto, Undrawn
<1>4. Awaited' /\ wire' \subseteq Message
  BY <1>2, <1>3, StillAwaited
<1>5. nextToken \in 1 .. MaxToken
  BY <1>3, RoomToDraw
<1>6. \/ marker' \in Marker /\ nextToken' = nextToken + 1
      \/ marker' \in Marker /\ nextToken' = nextToken
  BY <1>1, <1>5 DEF PrepareMarker, Marker, RuntimeTypes
<1>7. RuntimeTypes'
  BY <1>1, <1>3, <1>4, <1>5, <1>6, RuntimeAssumption DEF RuntimeTypes, PCs, RuntimeAssumption
<1>8. Holds(p)'
  BY <1>1, <1>3, <1>6, NullAssumption
     DEF RuntimeTypes, Holds, Unfinished, Executing, MarkerHeld, Decision, NullAssumption
<1>9. \A q \in Procs : Holds(q)' /\ SavesLeft(q)' <= SavesLeft(q)
  <2>1. SavesLeft(p)' = SavesPerCall /\ SavesLeft(p) = SavesPerCall
    BY <1>1, <1>3 DEF SavesLeft, RuntimeTypes, Executing
  <2>2. ASSUME NEW q \in Procs \ {p} PROVE Holds(q)' /\ SavesLeft(q)' <= SavesLeft(q)
    BY <1>2, <1>3, OthersHold, Budgets DEF SavesPerCall
  <2> QED BY <1>8, <2>1, <2>2 DEF SavesPerCall
<1>10. Undrawn' \subseteq Undrawn \ {p}
  BY <1>1, <1>2, <1>3 DEF Undrawn, Others, RuntimeTypes
<1>11. Covered'
  BY <1>3, <1>6, <1>9, <1>10, NothingSaved, NothingDrawn, OneDrawn DEF Covered
<1>12. Unfinished(checkpoint)'
  BY <1>1, <1>3 DEF Unfinished
<1> QED BY <1>4, <1>7, <1>9, <1>11, <1>12 DEF LocalInv

(* The ways out of a call.                                                  *)
LEMMA LeavingTypes ==
  ASSUME TypeInv, NEW p \in Procs,
         \/ RefuseEarly(p) \/ ClaimRefused(p) \/ ReleaseIdentity(p) \/ UnwindRefused(p)
         \/ ClearMarker(p)
  PROVE  LocalInv'
<1>1. TypeOK /\ RuntimeTypes /\ Holds(p) /\ Unfinished(checkpoint)
  BY TypeHalves DEF TypeInv
<1>2. Others(p)
  BY <1>1, OthersStay DEF Own, Proceed
<1>3. /\ pc[p] \notin {"idle", "waiting"} /\ marker' \in {marker, None}
      /\ UNCHANGED <<checkpoint, nextId, nextToken, wire, faults>>
  BY DEF RefuseEarly, ClaimRefused, ReleaseIdentity, UnwindRefused, ClearMarker, DeleteMarker,
         CheckpointDB
<1>4. Awaited' /\ wire' \subseteq Message
  BY <1>2, <1>3, StillAwaited
<1>5. marker' \in Marker \cup {None} /\ faults' \in 0 .. MaxFaults
  BY <1>1, <1>3 DEF RuntimeTypes
<1>6. Leave(p) \/ (Goto(p, "unreserving") /\ UNCHANGED localVars)
  BY DEF RefuseEarly, ClaimRefused, ReleaseIdentity, UnwindRefused, ClearMarker
<1>7. CASE Leave(p)
  BY <1>2, <1>3, <1>4, <1>5, <1>7, Left
<1>8. CASE Goto(p, "unreserving") /\ UNCHANGED localVars
  <2>1. RuntimeTypes'
    BY <1>1, <1>3, <1>4, <1>5, <1>8 DEF RuntimeTypes, Goto, localVars, PCs
  <2>2. pc'[p] = "unreserving"
    BY <1>1, <1>8 DEF RuntimeTypes, Goto
  <2>3. Holds(p)'
    BY <1>1, <1>3, <1>8, <2>2 DEF Holds, Unfinished, Executing, MarkerHeld, Decision, localVars
  <2>4. SavesLeft(p)' <= SavesLeft(p) /\ p \notin Undrawn'
    BY <2>2, Budgets DEF SavesLeft, Undrawn, SavesPerCall
  <2>5. Unfinished(checkpoint)' /\ UNCHANGED <<nextId, nextToken>>
    BY <1>1, <1>3 DEF Unfinished
  <2> QED BY <1>2, <1>4, <2>1, <2>3, <2>4, <2>5, Moved
<1> QED BY <1>6, <1>7, <1>8

(* A node runs, or the input of start_case is saved.                        *)
LEMMA SavingTypes ==
  ASSUME TypeInv, NEW p \in Procs, Enter(p) \/ RunNode(p) \/ RecordOutcome(p)
  PROVE  LocalInv'
<1>1. TypeOK /\ RuntimeTypes /\ Holds(p)
  BY TypeHalves DEF TypeInv
<1>2. Others(p)
  BY <1>1, OthersStay DEF Own, Proceed
<1> USE RuntimeAssumption DEF RuntimeAssumption
<1>3. CASE Enter(p) /\ Starting(p)
  <2>1. Save(p, "investigate", 0, "active") /\ UNCHANGED <<wire, faults>>
    BY <1>3 DEF Enter
  <2>2. /\ pc[p] = "claimed"
        /\ SavesFrom("investigate") < SavesLeft(p)
    BY <1>3 DEF Enter, SavesLeft, SavesFrom, HumanNodes, Executing, SavesPerCall
  <2>3. "investigate" \in Nodes /\ 0 \in 0 .. Writes /\ "active" \in Statuses /\ 0 < Writes
    BY DEF Nodes, Statuses
  <2> QED BY <1>2, <2>1, <2>2, <2>3, Saved DEF MarkerHeld, Undrawn
<1>4. CASE Enter(p) /\ ~Starting(p)
  <2>1. /\ pc' = [pc EXCEPT ![p] = "running"] /\ pc[p] = "claimed"
        /\ UNCHANGED <<checkpoint, marker, nextId, nextToken, wire, before, request, held,
                       memory, after, grant, reserved, faults>>
    BY <1>4 DEF Enter, Goto, CheckpointDB, localVars
  <2>2. Awaited' /\ wire' \subseteq Message
    BY <1>2, <2>1, StillAwaited
  <2>3. RuntimeTypes'
    BY <1>1, <2>1, <2>2 DEF RuntimeTypes, PCs
  <2>4. memory[p] # None
    BY <1>1, <1>4 DEF Holds, Starting
  <2>5. Holds(p)'
    BY <1>1, <2>1, <2>4 DEF Holds, RuntimeTypes, Unfinished, Executing, MarkerHeld, Decision
  <2>6. SavesLeft(p)' <= SavesLeft(p) /\ p \notin Undrawn'
    <3>1. SavesLeft(p) = SavesPerCall
      BY <2>1 DEF SavesLeft, Executing
    <3>2. SavesLeft(p)' <= SavesPerCall
      BY DEF SavesLeft, SavesFrom, SavesPerCall
    <3>3. p \notin Undrawn'
      BY <1>1, <2>1 DEF Undrawn, RuntimeTypes
    <3> QED BY <3>1, <3>2, <3>3
  <2>7. Unfinished(checkpoint)'
    BY <2>1 DEF TypeInv, Unfinished
  <2> QED BY <1>2, <2>1, <2>2, <2>3, <2>5, <2>6, <2>7, Moved
<1>5. CASE RunNode(p)
  <2>1. PICK e \in Edges : /\ e[1] = memory[p].next
                           /\ e[2] = "-" \/ (Answered(p) /\ e[2] = Decision(p))
                           /\ Save(p, e[3], memory[p].version, e[4])
    BY <1>5 DEF RunNode
  <2>2. pc[p] = "running" /\ memory[p] # None /\ UNCHANGED <<wire, faults>>
    BY <1>1, <1>5 DEF RunNode, Holds
  <2>3. memory[p] \in Checkpoint /\ memory[p].version \in 0 .. Writes
    BY <1>1, <2>2 DEF RuntimeTypes, Checkpoint
  <2>4. e[3] \in Nodes /\ e[4] \in Statuses
    BY DEF Edges, Nodes, HumanNodes, Statuses
  <2>5. memory[p].version < Writes
    <3>1. e[1] # "END"
      BY DEF Edges
    <3> QED BY <1>1, <2>1, <2>2, <3>1 DEF Holds, Unfinished
  <2>6. e[3] = "execute_one_operation" => Decision(p) \in {"confirm", "retry"}
    <3>1. e[3] = "execute_one_operation" => e[2] \in {"confirm", "retry"}
      BY DEF Edges
    <3> QED BY <2>1, <3>1
  <2>7. SavesFrom(e[3]) < SavesLeft(p)
    <3>1. SavesFrom(e[3]) <= 2
      BY DEF SavesFrom
    <3>2. e[2] = "-" => SavesFrom(e[3]) < SavesFrom(e[1])
      BY DEF Edges, SavesFrom, HumanNodes
    <3>3. SavesLeft(p) = IF Answered(p) THEN 3 ELSE SavesFrom(e[1])
      BY <2>1, <2>2 DEF SavesLeft, SavesPerCall, Executing
    <3>4. CASE Answered(p)
      BY <3>1, <3>3, <3>4 DEF SavesFrom
    <3>5. CASE ~Answered(p)
      BY <2>1, <3>2, <3>3, <3>5
    <3> QED BY <3>4, <3>5
  <2> QED BY <1>2, <2>1, <2>2, <2>3, <2>4, <2>5, <2>6, <2>7, Saved DEF MarkerHeld, Undrawn
<1>6. CASE RecordOutcome(p)
  <2>1. /\ pc[p] \in {"answered", "unknown", "blocked"}
        /\ pc[p] \in Executing /\ UNCHANGED <<wire, faults>>
    BY <1>6 DEF RecordOutcome, Executing
  <2>2. memory[p] # None /\ memory[p].next = "execute_one_operation"
    BY <1>1, <2>1 DEF Holds
  <2>3. memory[p].version \in 0 .. Writes - 1 /\ memory[p].version + 1 \in 0 .. Writes
        /\ memory[p].version \in 0 .. Writes
    BY <1>1, <2>2 DEF RuntimeTypes, Checkpoint, Holds, Unfinished
  <2>4. SavesLeft(p) = 2
    BY <2>1 DEF SavesLeft
  <2>5. \A s \in AfterReceipt(memory[p].version) :
          /\ s[1] \in {"END", "prepare_action_review"} /\ s[2] \in Statuses
          /\ s[1] # "END" => memory[p].version + 1 < Writes
    BY DEF AfterReceipt, Statuses
  <2>6. /\ {"END", "prepare_action_review", "prepare_write_recovery"} \subseteq Nodes
        /\ {"active", "blocked"} \subseteq Statuses
    BY DEF Nodes, Statuses
  <2>7. \A next \in {"END", "prepare_action_review", "prepare_write_recovery"} : SavesFrom(next) < 2
    BY DEF SavesFrom, HumanNodes
  <2>8. ASSUME NEW s \in AfterReceipt(memory[p].version),
               Save(p, s[1], memory[p].version + 1, s[2])
        PROVE  LocalInv'
    <3>1. /\ s[1] \in Nodes /\ s[2] \in Statuses /\ SavesFrom(s[1]) < SavesLeft(p)
          /\ s[1] # "END" => memory[p].version + 1 < Writes
          /\ s[1] # "execute_one_operation"
      BY <2>4, <2>5, <2>6, <2>7
    <3> QED BY <1>2, <2>1, <2>3, <2>8, <3>1, Saved DEF MarkerHeld, Undrawn
  <2>9. CASE Save(p, "prepare_write_recovery", memory[p].version, "active")
    <3>1. "prepare_write_recovery" \in Nodes /\ SavesFrom("prepare_write_recovery") < SavesLeft(p)
          /\ "active" \in Statuses /\ memory[p].version < Writes
      BY <2>3, <2>4, <2>6, <2>7
    <3> QED BY <1>2, <2>1, <2>3, <2>9, <3>1, Saved DEF MarkerHeld, Undrawn
  <2>10. CASE Save(p, "END", memory[p].version, "blocked")
    <3>1. "END" \in Nodes /\ SavesFrom("END") < SavesLeft(p) /\ "blocked" \in Statuses
      BY <2>4, <2>6, <2>7
    <3> QED BY <1>2, <2>1, <2>3, <2>10, <3>1, Saved DEF MarkerHeld, Undrawn
  <2> QED BY <1>6, <2>8, <2>9, <2>10 DEF RecordOutcome
<1> QED BY <1>3, <1>4, <1>5, <1>6

(* Of the requests of a process nobody waits for one it gave up.            *)
LEMMA Abandoned ==
  ASSUME TypeInv, NEW p \in Procs, Others(p), Abandon(p)
  PROVE  wire' \subseteq Message /\ Awaited'
<1> DEFINE given(m) == [m EXCEPT !.awaited = m.awaited /\ m.proc # p]
<1>1. wire' = {given(m) : m \in wire}
  BY DEF Abandon
<1>2. \A m \in wire : /\ m \in Message /\ m.proc \in Procs /\ given(m) \in Message
                      /\ given(m).proc = m.proc
                      /\ given(m).awaited => m.awaited /\ m.proc # p
  BY DEF TypeInv, TypeOK, Message
<1> HIDE DEF given
<1>3. wire' \subseteq Message
  BY <1>1, <1>2
<1>4. ASSUME NEW m \in wire, given(m).awaited PROVE pc'[m.proc] = "waiting"
  BY <1>2, <1>4 DEF TypeInv, Awaited, Others
<1>5. ASSUME NEW m \in wire, NEW n \in wire, given(m).awaited, given(n).awaited, m.proc = n.proc
      PROVE  m = n
  BY <1>2, <1>5 DEF TypeInv, Awaited
<1>6. \A m \in wire' : m.awaited => pc'[m.proc] = "waiting"
  BY <1>1, <1>2, <1>4
<1>7. \A m, n \in wire' : m.awaited /\ n.awaited /\ m.proc = n.proc => m = n
  <2> SUFFICES ASSUME NEW k \in wire, NEW l \in wire, given(k).awaited, given(l).awaited,
                      given(k).proc = given(l).proc
               PROVE  given(k) = given(l)
    BY <1>1
  <2>1. k = l
    BY <1>2, <1>5
  <2> QED BY <2>1
<1> QED BY <1>3, <1>6, <1>7 DEF Awaited

(* The claimed call reads the latest checkpoint and stops running: at an    *)
(* interrupt, after a failure, or because it was cancelled.                 *)
LEMMA StoppingTypes ==
  ASSUME TypeInv, NEW p \in Procs, CheckpointMoved(p) \/ Stop(p) \/ Finish(p) \/ Abort(p)
  PROVE  LocalInv'
<1>1. TypeOK /\ RuntimeTypes /\ Holds(p) /\ Unfinished(checkpoint)
  BY TypeHalves DEF TypeInv
<1>2. Others(p)
  BY <1>1, OthersStay DEF Own, Proceed
<1>3. /\ pc[p] \in {"claimed", "running", "finishing"} \cup Executing
      /\ faults' \in 0 .. MaxFaults
      /\ UNCHANGED <<marker, nextId, nextToken, before, request, held, memory, grant, reserved>>
  BY <1>1, RuntimeAssumption
     DEF CheckpointMoved, Stop, Finish, Abort, ReadAfter, CheckpointDB, localVars, RuntimeTypes,
         RuntimeAssumption
<1>4. \E label \in {"finishing", "unwinding", "clearing"} : pc' = [pc EXCEPT ![p] = label]
  BY DEF CheckpointMoved, Stop, Finish, Abort, ReadAfter, Goto
<1>5. after' \in [Procs -> CheckpointIds]
  <2>1. Latest \in CheckpointIds
    BY <1>1, RuntimeAssumption DEF RuntimeTypes, Latest, Checkpoint, CheckpointIds, RuntimeAssumption
  <2> QED BY <1>1, <2>1 DEF CheckpointMoved, Stop, Finish, Abort, ReadAfter, localVars, RuntimeTypes
<1>6. checkpoint' \in Checkpoint \cup {None} /\ Unfinished(checkpoint)'
  <2>1. CASE checkpoint' = checkpoint
    BY <1>1, <1>3, <2>1 DEF RuntimeTypes, Unfinished
  <2>2. CASE checkpoint # None /\ checkpoint' = [checkpoint EXCEPT !.interrupted = TRUE]
    <3>1. checkpoint \in Checkpoint
      BY <1>1, <2>2 DEF RuntimeTypes
    <3>2. /\ checkpoint' \in Checkpoint /\ checkpoint'.id = checkpoint.id
          /\ checkpoint'.next = checkpoint.next /\ checkpoint'.version = checkpoint.version
      BY <2>2, <3>1 DEF Checkpoint
    <3> QED BY <1>1, <1>3, <2>2, <3>2 DEF Unfinished
  <2>3. checkpoint' = checkpoint
        \/ (checkpoint # None /\ checkpoint' = [checkpoint EXCEPT !.interrupted = TRUE])
    <3>1. ASSUME Stop(p), Latest = memory[p].id, memory[p].next \in HumanNodes
          PROVE  checkpoint # None
      <4>1. memory[p] \in Checkpoint
        BY <1>1, <3>1 DEF Holds, Stop, RuntimeTypes
      <4> QED BY <3>1, <4>1 DEF Latest, Checkpoint
    <3> QED BY <3>1 DEF CheckpointMoved, Stop, Finish, Abort, CheckpointDB
  <2> QED BY <2>1, <2>2, <2>3
<1>7. wire' \subseteq Message /\ Awaited'
  <2>1. CASE ~Abort(p)
    <3>1. pc[p] # "waiting" /\ UNCHANGED wire
      BY <2>1 DEF CheckpointMoved, Stop, Finish
    <3> QED BY <1>2, <3>1, StillAwaited
  <2>2. CASE Abort(p)
    BY <1>2, <2>2, Abandoned DEF Abort
  <2> QED BY <2>1, <2>2
<1>8. RuntimeTypes'
  BY <1>1, <1>3, <1>4, <1>5, <1>6, <1>7 DEF RuntimeTypes, PCs
<1>9. Holds(p)' /\ SavesLeft(p)' = 0 /\ p \notin Undrawn'
  BY <1>1, <1>3, <1>4
     DEF RuntimeTypes, Holds, Unfinished, Executing, MarkerHeld, Decision, SavesLeft, Undrawn
<1>10. SavesLeft(p) >= 0
  BY Budgets DEF SavesPerCall
<1> QED BY <1>2, <1>3, <1>6, <1>7, <1>8, <1>9, <1>10, Moved

\* What IssueGrant hands out is a grant for the write at hand.
LEMMA GrantHandedOut ==
  ASSUME TypeInv, NEW p \in Procs, IssueGrant(p)
  PROVE  /\ \/ pc' = [pc EXCEPT ![p] = "granted"] /\ grant'[p] \in Store!Grant
            \/ pc' = [pc EXCEPT ![p] = "unknown"] /\ grant' = grant
         /\ grant' \in [Procs -> Store!Grant \cup {None}]
<1> DEFINE v == memory[p].version
           exec == ExecutionOf(p)
           binding == Store!GrantBinding(Case, Thread, exec, WriteAt(v), v)
<1>1. TypeOK /\ RuntimeTypes /\ Store!TypeOK /\ Holds(p)
  BY TypeHalves DEF TypeInv
<1>2. v \in 0 .. Writes - 1
  <2>1. memory[p] # None /\ memory[p].next = "execute_one_operation"
    BY <1>1 DEF IssueGrant, Holds
  <2> QED BY <1>1, <2>1, RuntimeAssumption
             DEF RuntimeTypes, Checkpoint, Holds, Unfinished, RuntimeAssumption
<1>3. ASSUME Store!IssueWorkflowExecutionGrant(Case, Thread, Owner, exec, WriteAt(v), v)
      PROVE  binding \in Store!Grant
  <2>1. /\ head[Case] # None /\ attempt[Case] # None /\ attempt[Case].execution = exec
        /\ exec \in Executions \cup {None}
    BY <1>1, <1>3, ArgumentTypes
       DEF Store!IssueWorkflowExecutionGrant, Store!MayIssue, Store!ActiveResume
  <2>2. exec \in Executions
    <3>1. memory[p] # None /\ memory[p].next = "execute_one_operation"
      BY <1>1 DEF IssueGrant, Holds
    <3>2. memory[p].version \in 0 .. Writes
      BY <1>1, <3>1 DEF TypeOK, Checkpoint
    <3> QED BY <1>1, <3>1, <3>2 DEF Holds, ExecutionOf, Executions
  <2>3. head[Case] \in CheckpointIds /\ attempt[Case].request \in Requests
    BY <1>1, <2>1 DEF Store!TypeOK, Store!Attempt
  <2> QED BY <1>2, <2>2, <2>3, WritesOfTheCase DEF Store!GrantBinding, Store!Grant
<1>4. \A g \in Store!ReusableGrants(Case, Thread, Owner, exec, WriteAt(v), v) : g \in Store!Grant
  BY <1>1 DEF Store!TypeOK, Store!ReusableGrants, Store!GrantsFor
<1>5. \/ /\ pc' = [pc EXCEPT ![p] = "granted"]
         /\ \E g \in Store!Grant : grant' = [grant EXCEPT ![p] = g]
      \/ pc' = [pc EXCEPT ![p] = "unknown"] /\ grant' = grant
  BY <1>3, <1>4 DEF IssueGrant, Goto
<1> QED BY <1>1, <1>5 DEF RuntimeTypes

(* A grant is handed out, the write is sent, its answer is lost.            *)
LEMMA SendingTypes ==
  ASSUME TypeInv, NEW p \in Procs, IssueGrant(p) \/ SendWrite(p) \/ LoseAnswer(p)
  PROVE  LocalInv'
<1>1. TypeOK /\ RuntimeTypes /\ Holds(p) /\ Unfinished(checkpoint) /\ Awaited
  BY TypeHalves DEF TypeInv
<1>2. Others(p)
  BY <1>1, OthersStay DEF Own, Proceed
<1>3. UNCHANGED <<checkpoint, marker, nextId, nextToken, before, request, held, memory, after,
                  reserved, faults>>
  BY DEF IssueGrant, SendWrite, LoseAnswer, CheckpointDB, localVars
<1>4. /\ memory[p] # None /\ memory[p].next = "execute_one_operation"
      /\ memory[p].version \in 0 .. Writes - 1
  <2>1. memory[p] # None /\ memory[p].next = "execute_one_operation"
    BY <1>1 DEF IssueGrant, SendWrite, LoseAnswer, Holds, Executing
  <2> QED BY <1>1, <2>1, RuntimeAssumption
             DEF RuntimeTypes, Checkpoint, Holds, Unfinished, RuntimeAssumption
<1>5. CASE IssueGrant(p)
  <2>1. \/ pc' = [pc EXCEPT ![p] = "granted"] /\ grant'[p] \in Store!Grant
        \/ pc' = [pc EXCEPT ![p] = "unknown"] /\ grant' = grant
    BY <1>5, GrantHandedOut
  <2>2. grant' \in [Procs -> Store!Grant \cup {None}]
    BY <1>5, GrantHandedOut
  <2>3. pc[p] = "running" /\ UNCHANGED wire
    BY <1>5 DEF IssueGrant
  <2>4. Awaited' /\ wire' \subseteq Message
    BY <1>2, <2>3, StillAwaited
  <2>5. RuntimeTypes'
    BY <1>1, <1>3, <2>1, <2>2, <2>4 DEF RuntimeTypes, PCs, Executing
  <2>6. pc'[p] \in {"granted", "unknown"}
    BY <1>1, <2>1 DEF RuntimeTypes
  <2>7. Holds(p)'
    BY <1>1, <1>3, <1>4, <2>1, <2>3, <2>6, NullAssumption
       DEF RuntimeTypes, Holds, Unfinished, Executing, MarkerHeld, Decision, NullAssumption
  <2>8. SavesLeft(p)' <= SavesLeft(p) /\ p \notin Undrawn'
    BY <1>4, <2>3, <2>6 DEF SavesLeft, SavesFrom, SavesPerCall, Executing, Undrawn, HumanNodes
  <2>9. Unfinished(checkpoint)' /\ UNCHANGED <<nextId, nextToken>>
    BY <1>1, <1>3 DEF Unfinished
  <2> QED BY <1>2, <2>4, <2>5, <2>7, <2>8, <2>9, Moved
<1>6. CASE SendWrite(p) \/ LoseAnswer(p)
  <2>1. /\ pc[p] \in {"granted", "waiting"} /\ grant' = grant
        /\ \E label \in {"waiting", "unknown"} : pc' = [pc EXCEPT ![p] = label]
    BY <1>6 DEF SendWrite, LoseAnswer, Goto, localVars
  <2>2. Awaited' /\ wire' \subseteq Message
    <3>1. CASE LoseAnswer(p)
      BY <1>2, <3>1, Abandoned DEF LoseAnswer
    <3>2. CASE SendWrite(p)
      <4> DEFINE m == [proc |-> p, awaited |-> TRUE, version |-> memory[p].version,
                       grant |-> grant[p]]
      <4>1. pc[p] = "granted" /\ wire' = wire \cup {m} /\ pc' = [pc EXCEPT ![p] = "waiting"]
        BY <3>2 DEF SendWrite, Goto
      <4>2. grant[p] \in Store!Grant
        BY <1>1, <4>1 DEF Holds, RuntimeTypes
      <4>3. m \in Message /\ m.proc = p
        BY <1>4, <4>2 DEF Message
      <4> HIDE DEF m
      <4>4. \A n \in wire : n.proc \in Procs /\ (n.awaited => n.proc # p)
        BY <1>1, <4>1 DEF RuntimeTypes, Message, Awaited
      <4>5. wire' \subseteq Message
        BY <1>1, <4>1, <4>3 DEF RuntimeTypes
      <4>6. pc'[p] = "waiting"
        BY <1>1, <4>1 DEF RuntimeTypes
      <4>7. Awaited'
        BY <1>1, <1>2, <4>1, <4>3, <4>4, <4>6 DEF Awaited, Others
      <4> QED BY <4>5, <4>7
    <3> QED BY <1>6, <3>1, <3>2
  <2>3. RuntimeTypes'
    BY <1>1, <1>3, <2>1, <2>2 DEF RuntimeTypes, PCs, Executing
  <2>4. pc'[p] \in {"waiting", "unknown"}
    BY <1>1, <2>1 DEF RuntimeTypes
  <2>5. Holds(p)'
    BY <1>1, <1>3, <1>4, <2>1, <2>4
       DEF RuntimeTypes, Holds, Unfinished, Executing, MarkerHeld, Decision
  <2>6. SavesLeft(p)' <= SavesLeft(p) /\ p \notin Undrawn'
    BY <2>1, <2>4 DEF SavesLeft, Executing, Undrawn
  <2>7. Unfinished(checkpoint)' /\ UNCHANGED <<nextId, nextToken>>
    BY <1>1, <1>3 DEF Unfinished
  <2> QED BY <1>2, <2>2, <2>3, <2>5, <2>6, <2>7, Moved
<1> QED BY <1>5, <1>6

(* The except clause, and a death anywhere.                                 *)
LEMMA EndingTypes ==
  ASSUME TypeInv, NEW p \in Procs, Unwind(p) \/ Crash(p)
  PROVE  LocalInv'
<1>1. TypeOK /\ RuntimeTypes /\ Holds(p) /\ Unfinished(checkpoint)
  BY TypeHalves DEF TypeInv
<1>2. Others(p)
  BY <1>1, OthersStay DEF Own, Proceed
<1>3. CASE Crash(p)
  <2>1. pc[p] # "idle" /\ Leave(p) /\ UNCHANGED <<checkpoint, marker, nextId, nextToken>>
    BY <1>3 DEF Crash, CheckpointDB
  <2>2. marker' \in Marker \cup {None} /\ faults' \in 0 .. MaxFaults
    BY <1>1, <1>3, <2>1, RuntimeAssumption DEF Crash, RuntimeTypes, RuntimeAssumption
  <2>3. wire' \subseteq Message /\ Awaited'
    BY <1>2, <1>3, Abandoned DEF Crash
  <2> QED BY <1>2, <2>1, <2>2, <2>3, Left
<1>4. CASE Unwind(p)
  <2>1. /\ pc[p] = "unwinding" /\ pc' = [pc EXCEPT ![p] = "clearing"]
        /\ UNCHANGED <<checkpoint, marker, nextId, nextToken, wire, before, request, held,
                       memory, after, grant, reserved, faults>>
    BY <1>4 DEF Unwind, Goto, CheckpointDB, localVars
  <2>2. Awaited' /\ wire' \subseteq Message
    BY <1>2, <2>1, StillAwaited
  <2>3. RuntimeTypes'
    BY <1>1, <2>1, <2>2 DEF RuntimeTypes, PCs
  <2>4. Holds(p)'
    BY <1>1, <2>1 DEF RuntimeTypes, Holds, Unfinished, Executing, MarkerHeld, Decision
  <2>5. SavesLeft(p)' <= SavesLeft(p) /\ p \notin Undrawn'
    BY <1>1, <2>1 DEF SavesLeft, Undrawn, RuntimeTypes
  <2>6. Unfinished(checkpoint)' /\ UNCHANGED <<nextId, nextToken>>
    BY <1>1, <2>1 DEF Unfinished
  <2> QED BY <1>2, <2>2, <2>3, <2>4, <2>5, <2>6, Moved
<1> QED BY <1>3, <1>4

(* The server answers who waits, or nobody.                                 *)
LEMMA ServerTypes ==
  ASSUME TypeInv, NEW m \in wire, ServerWrite(m)
  PROVE  LocalInv'
<1>1. RuntimeTypes /\ (\A p \in Procs : Holds(p)) /\ Unfinished(checkpoint) /\ Awaited
  BY TypeHalves DEF TypeInv
<1>2. m \in Message /\ m.proc \in Procs
  BY <1>1 DEF RuntimeTypes, Message
<1>3. /\ wire' = wire \ {m}
      /\ UNCHANGED <<checkpoint, marker, nextId, nextToken, before, request, held, memory, after,
                     grant, reserved, faults>>
      /\ \/ pc' = pc
         \/ /\ m.awaited
            /\ \E answer \in {"answered", "unknown", "blocked"} : pc' = [pc EXCEPT ![m.proc] = answer]
  BY DEF ServerWrite, Reply, CheckpointDB, localVars
<1>4. m.awaited => pc[m.proc] = "waiting"
  BY <1>1 DEF Awaited
<1>5. RuntimeTypes'
  BY <1>1, <1>2, <1>3 DEF RuntimeTypes, PCs, Executing
<1>6. ASSUME NEW q \in Procs PROVE /\ pc'[q] # pc[q] =>
                                       /\ q = m.proc /\ m.awaited /\ pc[q] = "waiting"
                                       /\ pc'[q] \in {"answered", "unknown", "blocked"}
                                   /\ SavesLeft(q)' = SavesLeft(q)
                                   /\ q \in Undrawn' => q \in Undrawn
                                   /\ Holds(q)'
  <2>1. pc'[q] # pc[q] => /\ q = m.proc /\ m.awaited /\ pc[q] = "waiting"
                          /\ pc'[q] \in {"answered", "unknown", "blocked"}
    BY <1>1, <1>2, <1>3, <1>4 DEF RuntimeTypes
  <2>2. CASE pc'[q] = pc[q]
    BY <1>1, <1>3, <2>1, <2>2 DEF SavesLeft, Undrawn, Answered, Holds, Unfinished, Decision
  <2>3. CASE pc[q] = "waiting" /\ pc'[q] \in {"answered", "unknown", "blocked"}
    <3>1. SavesLeft(q)' = SavesLeft(q) /\ q \notin Undrawn'
      BY <2>3 DEF SavesLeft, Undrawn, Executing
    <3>2. Holds(q)'
      BY <1>1, <1>3, <2>3 DEF Holds, Unfinished, Executing, MarkerHeld, Decision
    <3> QED BY <2>1, <3>1, <3>2
  <2> QED BY <2>1, <2>2, <2>3
<1>7. Awaited'
  <2>1. \A n \in wire : n.proc \in Procs
    BY <1>1 DEF RuntimeTypes, Message
  <2>2. ASSUME NEW n \in wire', n.awaited PROVE pc'[n.proc] = "waiting"
    <3>1. n \in wire /\ n # m /\ pc[n.proc] = "waiting"
      BY <1>1, <1>3, <2>2 DEF Awaited
    <3>2. ~(m.awaited /\ m.proc = n.proc)
      BY <1>1, <2>2, <3>1 DEF Awaited
    <3> QED BY <1>6, <2>1, <3>1, <3>2
  <2> QED BY <1>1, <1>3, <2>2 DEF Awaited
<1>8. \A q \in Procs : SavesLeft(q)' <= SavesLeft(q)
  BY <1>6, Budgets DEF SavesPerCall
<1>9. Undrawn' \subseteq Undrawn
  BY <1>6 DEF Undrawn
<1>10. Covered'
  BY <1>3, <1>8, <1>9, NothingSaved, NothingDrawn DEF Covered
<1>11. Unfinished(checkpoint)'
  BY <1>1, <1>3 DEF Unfinished
<1> QED BY <1>5, <1>6, <1>7, <1>10, <1>11 DEF LocalInv

(* At the start nobody has called.                                          *)
LEMMA InitTypeInv == Init => TypeInv
<1> SUFFICES ASSUME Init PROVE TypeInv
  OBVIOUS
<1> USE RuntimeAssumption DEF RuntimeAssumption
<1>1. Store!TypeOK
  BY AsTheStoreAssumes, SameTypes, SameSteps, SP!InitTypeOK DEF Init
<1>2. RuntimeTypes
  BY DEF Init, RuntimeTypes, PCs, CheckpointIds, Requests, AllDecisions
<1>3. (\A p \in Procs : Holds(p)) /\ Unfinished(checkpoint) /\ Awaited
  BY DEF Init, Holds, Unfinished, Awaited, Executing, MarkerHeld
<1>4. Owed = {} /\ Undrawn = {}
  <2>1. \A p \in Procs : pc[p] = "idle"
    BY DEF Init
  <2> QED BY <2>1 DEF Owed, Undrawn, SavesLeft
<1>5. Covered
  BY <1>4, FS_EmptySet DEF Covered, Init
<1> QED BY <1>1, <1>2, <1>3, <1>5, InvHalves DEF LocalInv

(* Every step keeps the types, and every save and every token that a call   *)
(* under way still needs is covered by the bounds.                          *)
LEMMA NextTypeInv == TypeInv /\ [Next]_vars => TypeInv'
<1>1. TypeInv /\ [Next]_vars => Store!TypeOK'
  <2>1. SP!TypeOK /\ [SP!Next]_(SP!storeVars) => SP!TypeOK'
    BY AsTheStoreAssumes, SP!NextTypeOK
  <2>2. (Store!TypeOK <=> SP!TypeOK)'
    BY SameTypes, PTL
  <2> QED BY <2>1, <2>2, SameTypes, SameSteps, StoreStep, InvHalves
             DEF Store!storeVars, SP!storeVars
<1>2. TypeInv /\ Next => LocalInv'
  <2> SUFFICES ASSUME TypeInv, Next PROVE LocalInv'
    OBVIOUS
  <2>1. ASSUME NEW p \in Procs, Own(p) PROVE LocalInv'
    BY <2>1, CallTypes, BeforeClaimTypes, PrepareTypes, LeavingTypes, SavingTypes,
       StoppingTypes, SendingTypes, EndingTypes DEF Own, Proceed
  <2>2. ASSUME NEW m \in wire, ServerWrite(m) PROVE LocalInv'
    BY <2>2, ServerTypes
  <2>3. CASE LeaseExpires
    <3>1. UNCHANGED <<checkpoint, marker, wire, pc, before, request, held, memory, after, grant,
                      reserved, nextId, nextToken, faults>>
      BY <2>3 DEF LeaseExpires, CheckpointDB, localVars
    <3>2. RuntimeTypes' /\ (\A p \in Procs : Holds(p)') /\ Unfinished(checkpoint)' /\ Awaited'
      BY <3>1, TypeHalves DEF TypeInv, RuntimeTypes, Holds, Unfinished, Awaited, Decision
    <3>3. Owed' = Owed /\ Undrawn' = Undrawn
      BY <3>1 DEF Owed, SavesLeft, Answered, Undrawn
    <3> QED BY <3>1, <3>2, <3>3 DEF LocalInv, Covered, TypeInv
  <2> QED BY <2>1, <2>2, <2>3 DEF Next, Own
<1>3. TypeInv /\ UNCHANGED vars => LocalInv'
  <2> SUFFICES ASSUME TypeInv, UNCHANGED vars PROVE LocalInv'
    OBVIOUS
  <2>1. UNCHANGED <<checkpoint, marker, wire, pc, before, request, held, memory, after, grant,
                    reserved, nextId, nextToken, faults>>
    BY DEF vars, localVars
  <2>2. RuntimeTypes' /\ (\A p \in Procs : Holds(p)') /\ Unfinished(checkpoint)' /\ Awaited'
    BY <2>1, TypeHalves DEF TypeInv, RuntimeTypes, Holds, Unfinished, Awaited, Decision
  <2>3. Owed' = Owed /\ Undrawn' = Undrawn
    BY <2>1 DEF Owed, SavesLeft, Answered, Undrawn
  <2> QED BY <2>1, <2>2, <2>3 DEF LocalInv, Covered, TypeInv
<1>4. (TypeInv <=> Store!TypeOK /\ LocalInv)'
  BY InvHalves, PTL
<1> QED BY <1>1, <1>2, <1>3, <1>4

(* Every value has its type, however many processes call, crash and race,   *)
(* and no bound is ever in the way of a call that has begun.                *)
THEOREM RuntimeTypeCorrect == Spec => [](TypeOK /\ Covered)
<1>1. TypeInv => TypeOK /\ Covered
  BY DEF TypeInv
<1> QED BY <1>1, InitTypeInv, NextTypeInv, PTL DEF Spec

(* The runtime does to the Operations database what the store offers its    *)
(* callers, and nothing else: whatever the store promises to any caller     *)
(* holds of this one, across both databases and every crash.                *)
THEOREM RuntimeImplementsStore == Spec => Store!Spec
<1>1. Init => Store!Init
  BY DEF Init
<1> QED BY <1>1, StoreStep, InitTypeInv, NextTypeInv, PTL DEF Spec, Store!Spec

(* What the store promises of effects and receipts holds of the runtime.    *)
THEOREM RuntimeEffects ==
  Spec => [](Store!EffectsAreAuthorised /\ Store!ReceiptsAreHistory)
<1>1. (Init => SP!Init) /\ (TypeInv /\ [Next]_vars => [SP!Next]_(SP!storeVars))
  BY SameSteps, StoreStep DEF Init, Store!storeVars, SP!storeVars
<1>2. /\ SP!Init => SP!TypeOK /\ SP!EffectsAreAuthorised /\ SP!ReceiptsAreHistory
      /\ SP!TypeOK /\ [SP!Next]_(SP!storeVars) => SP!TypeOK'
      /\ SP!TypeOK /\ SP!EffectsAreAuthorised /\ [SP!Next]_(SP!storeVars)
           => SP!EffectsAreAuthorised'
      /\ SP!TypeOK /\ SP!ReceiptsAreHistory /\ [SP!Next]_(SP!storeVars)
           => SP!ReceiptsAreHistory'
  BY AsTheStoreAssumes, SP!InitTypeOK, SP!NextTypeOK, SP!InitAuthorised, SP!NextAuthorised,
     SP!InitHistory, SP!NextHistory
<1>3. /\ SP!EffectsAreAuthorised => Store!EffectsAreAuthorised
      /\ SP!ReceiptsAreHistory => Store!ReceiptsAreHistory
  BY DEF Store!EffectsAreAuthorised, SP!EffectsAreAuthorised, Store!LegacyBorn, SP!LegacyBorn,
         Store!ReceiptsAreHistory, SP!ReceiptsAreHistory
<1> QED BY <1>1, <1>2, <1>3, InitTypeInv, NextTypeInv, PTL DEF Spec

-----------------------------------------------------------------------------
(* The checkpoint trails the case.                                          *)

CaseVersion == cases[Case].version

\* The write the message asks for is made: the case takes one version.
Lands(m) ==
  /\ m \in wire /\ Reply(m, "answered") /\ Store!GrantAttached(m.grant)
  /\ CaseVersion = m.version /\ CaseVersion' = m.version + 1
  /\ receipts' = receipts \cup
       {[key |-> m.version, write |-> WriteAt(m.version), legacy |-> FALSE]}

(* Of the server's answers only the write itself changes the case.          *)
LEMMA ServerStep ==
  ASSUME TypeInv, NEW m \in wire, ServerWrite(m)
  PROVE  UNCHANGED <<cases, receipts>> \/ Lands(m)
<1> SUFFICES ASSUME ~UNCHANGED <<cases, receipts>> PROVE Lands(m)
  OBVIOUS
<1>1. Store!Write(WriteAt(m.version), m.version, m.grant) /\ Reply(m, "answered")
  BY DEF ServerWrite, storeVars
<1>2. WriteAt(m.version).expected = m.version /\ WriteAt(m.version).case = Case
  BY DEF WriteAt
<1>3. /\ Store!GrantAttached(m.grant) /\ CaseVersion = m.version
      /\ receipts' = receipts \cup
           {[key |-> m.version, write |-> WriteAt(m.version), legacy |-> FALSE]}
  BY <1>1, <1>2 DEF Store!Write, Store!MayWrite, Store!Consumable, Store!CaseAccepts, CaseVersion
<1>4. CaseVersion' = m.version + 1
  BY <1>1, <1>2 DEF Store!Write, TypeInv, TypeOK, Store!TypeOK, CaseVersion
<1> QED BY <1>1, <1>3, <1>4 DEF Lands

(* Only a server changes the case, by a write whose grant is attached.      *)
LEMMA CaseStep ==
  ASSUME TypeInv, Next
  PROVE  \/ UNCHANGED <<cases, receipts>>
         \/ \E m \in wire : Lands(m)
<1>1. TypeOK /\ Store!TypeOK /\ \A p \in Procs : Holds(p)
  BY TypeHalves DEF TypeInv
<1>2. ASSUME NEW p \in Procs, Own(p) PROVE UNCHANGED <<cases, receipts>>
  <2>1. CASE \/ StartCase(p) \/ LoadMarker(p) \/ ClearStaleMarker(p) \/ PrepareMarker(p)
             \/ RefuseEarly(p) \/ Enter(p) \/ CheckpointMoved(p) \/ RunNode(p) \/ Stop(p)
             \/ SendWrite(p) \/ RecordOutcome(p) \/ UnwindRefused(p) \/ ClearMarker(p)
             \/ LoseAnswer(p) \/ Abort(p) \/ Crash(p)
    BY <2>1, OtherDatabase DEF storeVars
  <2>2. CASE ReserveIdentity(p) \/ ReleaseIdentity(p) \/ \E d \in AllDecisions : ResumeCase(p, d)
    BY <2>2 DEF ReserveIdentity, ReleaseIdentity, ResumeCase, Store!ReserveWorkflowIdentity,
                Store!ReleaseWorkflowIdentity, Store!ValidateOrClaimWorkflowIdentity, storeVars
  <2>3. CASE RecoverFence(p) \/ Claim(p) \/ ClaimRefused(p) \/ Finish(p) \/ Unwind(p)
    BY <2>3 DEF RecoverFence, Claim, ClaimRefused, Finish, Unwind, Advanced,
                Store!RecoverWorkflowMutation, Store!ClaimWorkflowMutation,
                Store!RefusedClaimMarksUncertain, Store!AdvanceWorkflowMutation,
                Store!ReleaseWorkflowMutation, Store!CloseAttempt, Store!FenceColumns, storeVars
  <2>4. CASE IssueGrant(p)
    BY <2>4 DEF IssueGrant, Store!IssueWorkflowExecutionGrant, storeVars
  <2> QED BY <1>2, <2>1, <2>2, <2>3, <2>4 DEF Own, Call, Proceed
<1>3. \A m \in wire : ServerWrite(m) => UNCHANGED <<cases, receipts>> \/ Lands(m)
  BY ServerStep
<1>4. LeaseExpires => UNCHANGED <<cases, receipts>>
  BY DEF LeaseExpires, Store!LeaseExpires, Store!FenceColumns
<1> QED BY <1>2, <1>3, <1>4 DEF Next, Own

(* The case never goes back.                                                *)
LEMMA CaseGrows ==
  ASSUME TypeInv, Next
  PROVE  CaseVersion \in Nat /\ CaseVersion' \in {CaseVersion, CaseVersion + 1}
BY CaseStep DEF Lands, CaseVersion, TypeInv, TypeOK, Store!TypeOK, Store!CaseRow

Behind(cp) == cp # None => cp.version <= CaseVersion

(* Nor do the checkpoints the processes run on claim a write that did not   *)
(* happen.                                                                  *)
Trails == Behind(checkpoint) /\ \A p \in Procs : Behind(memory[p])

(* A node records a new version only behind a valid receipt; what anybody   *)
(* holds stays behind a case that only grows.                               *)
LEMMA NextTrails == TypeInv /\ Trails /\ [Next]_vars => Trails'
<1> SUFFICES ASSUME TypeInv, Trails, Next PROVE Trails'
  BY DEF Trails, Behind, CaseVersion, vars, storeVars, localVars
<1> USE RuntimeAssumption DEF RuntimeAssumption
<1>1. RuntimeTypes /\ (\A p \in Procs : Holds(p))
  BY TypeHalves DEF TypeInv
<1>2. CaseVersion \in Nat /\ CaseVersion' \in {CaseVersion, CaseVersion + 1}
  BY CaseGrows
<1>3. ASSUME NEW cp, cp \in Checkpoint \cup {None}, Behind(cp)
      PROVE  cp # None => cp.version <= CaseVersion'
  <2>1. cp # None => cp.version \in Nat
    BY <1>3 DEF Checkpoint
  <2> QED BY <1>2, <1>3, <2>1 DEF Behind
<1>4. ASSUME NEW q \in Procs, memory'[q] = memory[q] PROVE Behind(memory[q])'
  BY <1>1, <1>3, <1>4 DEF Trails, Behind, RuntimeTypes
<1>5. checkpoint' = checkpoint => Behind(checkpoint)'
  BY <1>1, <1>3 DEF Trails, Behind, RuntimeTypes
<1>6. ASSUME NEW p \in Procs, Own(p) PROVE Trails'
  <2>1. Others(p)
    BY <1>1, <1>6, OthersStay
  <2>2. ASSUME memory'[p] = memory[p] \/ memory'[p] = None \/ Behind(memory[p])', Behind(checkpoint)'
        PROVE  Trails'
    BY <1>4, <2>1, <2>2 DEF Trails, Others, Behind
  <2>3. ASSUME NEW next, NEW status, NEW version \in Nat, version <= CaseVersion',
               Save(p, next, version, status)
        PROVE  Trails'
    <3>1. checkpoint'.version = version /\ memory'[p] = checkpoint'
      BY <1>1, <2>3 DEF Save, RuntimeTypes
    <3> QED BY <2>2, <2>3, <3>1 DEF Behind
  <2>4. CASE Enter(p) \/ RunNode(p) \/ RecordOutcome(p)
    <3>1. CaseVersion' = CaseVersion
      BY <2>4, OtherDatabase DEF storeVars, CaseVersion
    <3>2. memory[p] # None => memory[p].version \in Nat /\ memory[p].version <= CaseVersion
      BY <1>1 DEF RuntimeTypes, Checkpoint, Trails, Behind
    <3>3. CASE RunNode(p)
      <4>1. memory[p] # None
        BY <1>1, <3>3 DEF RunNode, Holds
      <4> QED BY <2>3, <3>1, <3>2, <3>3, <4>1 DEF RunNode
    <3>4. CASE RecordOutcome(p)
      <4>1. memory[p] # None
        BY <1>1, <3>4 DEF RecordOutcome, Holds, Executing
      <4>2. ReceiptIsValid(p) => memory[p].version + 1 <= CaseVersion
        BY <1>2 DEF ReceiptIsValid, CaseVersion
      <4> QED BY <2>3, <3>1, <3>2, <3>4, <4>1, <4>2 DEF RecordOutcome
    <3>5. CASE Enter(p)
      <4>1. CASE Starting(p)
        BY <1>2, <2>3, <3>1, <3>5, <4>1 DEF Enter
      <4>2. CASE ~Starting(p)
        BY <1>5, <2>2, <3>5, <4>2 DEF Enter, CheckpointDB, localVars
      <4> QED BY <4>1, <4>2
    <3> QED BY <2>4, <3>3, <3>4, <3>5
  <2>5. CASE \E d \in AllDecisions : ResumeCase(p, d)
    <3>1. checkpoint' = checkpoint /\ memory'[p] = checkpoint
      BY <1>1, <2>5 DEF ResumeCase, RuntimeTypes, CheckpointDB
    <3> QED BY <1>5, <2>2, <3>1 DEF Behind
  <2>6. CASE \/ RefuseEarly(p) \/ ClaimRefused(p) \/ ReleaseIdentity(p) \/ UnwindRefused(p)
             \/ ClearMarker(p) \/ Crash(p)
    <3>1. checkpoint' = checkpoint /\ (memory'[p] = None \/ memory'[p] = memory[p])
      BY <1>1, <2>6 DEF RefuseEarly, ClaimRefused, ReleaseIdentity, UnwindRefused, ClearMarker,
                        Crash, Leave, RuntimeTypes, localVars, CheckpointDB
    <3> QED BY <1>5, <2>2, <3>1
  <2>7. CASE Stop(p)
    <3>1. memory' = memory
      BY <2>7 DEF Stop, ReadAfter
    <3>2. checkpoint' = checkpoint \/ checkpoint' = [checkpoint EXCEPT !.interrupted = TRUE]
      BY <2>7 DEF Stop
    <3>3. checkpoint # None => checkpoint' = checkpoint
            \/ (checkpoint \in Checkpoint /\ checkpoint'.version = checkpoint.version)
      BY <1>1, <3>2 DEF RuntimeTypes, Checkpoint
    <3>4. checkpoint = None => checkpoint' = checkpoint
      <4>1. ASSUME checkpoint = None, Latest = memory[p].id, memory[p].next \in HumanNodes
            PROVE  FALSE
        <5>1. memory[p] \in Checkpoint
          BY <1>1, <2>7, <4>1 DEF Holds, Stop, RuntimeTypes
        <5> QED BY <4>1, <5>1 DEF Latest, Checkpoint
      <4> QED BY <2>7, <4>1 DEF Stop
    <3>5. Behind(checkpoint)'
      <4>1. checkpoint # None /\ checkpoint \in Checkpoint => checkpoint.version <= CaseVersion'
        BY <1>3 DEF Trails
      <4> QED BY <1>5, <3>3, <3>4, <4>1 DEF Behind
    <3> QED BY <2>2, <3>1, <3>5
  <2>8. CASE \/ StartCase(p) \/ ReserveIdentity(p) \/ LoadMarker(p) \/ RecoverFence(p)
             \/ ClearStaleMarker(p) \/ PrepareMarker(p) \/ Claim(p) \/ CheckpointMoved(p)
             \/ IssueGrant(p) \/ SendWrite(p) \/ Finish(p) \/ Unwind(p) \/ LoseAnswer(p)
             \/ Abort(p)
    <3>1. UNCHANGED <<checkpoint, memory>>
      BY <2>8 DEF StartCase, ReserveIdentity, LoadMarker, RecoverFence, ClearStaleMarker,
                  PrepareMarker, Claim, CheckpointMoved, IssueGrant, SendWrite, Finish, Unwind,
                  LoseAnswer, Abort, ReadAfter, CheckpointDB, localVars
    <3> QED BY <1>5, <2>2, <3>1
  <2> QED BY <1>6, <2>4, <2>5, <2>6, <2>7, <2>8 DEF Own, Call, Proceed
<1>7. CASE (\E m \in wire : ServerWrite(m)) \/ LeaseExpires
  <2>1. UNCHANGED <<checkpoint, memory>>
    BY <1>7 DEF ServerWrite, LeaseExpires, CheckpointDB, localVars
  <2> QED BY <1>4, <1>5, <2>1 DEF Trails
<1> QED BY <1>6, <1>7 DEF Next, Own

(* No checkpoint claims a write that did not happen, with any number of     *)
(* processes on the two databases and whatever leases they lose.            *)
THEOREM NoCheckpointAhead == Spec => []CheckpointTrailsTheCase
<1>1. Init => Trails
  BY DEF Init, Trails, Behind
<1>2. Trails => CheckpointTrailsTheCase
  BY DEF Trails, Behind, CaseVersion, CheckpointTrailsTheCase
<1> QED BY <1>1, <1>2, InitTypeInv, NextTypeInv, NextTrails, PTL DEF Spec

-----------------------------------------------------------------------------
(* Calls that follow one another.                                           *)

\* No call begins before the last one returned or died.
OneCallAtATime == \A p, q \in Procs : pc[p] # "idle" /\ pc[q] # "idle" => p = q

Unknowns == {"execute_one_operation", "prepare_write_recovery", "write_recovery"}

Identity ==
  /\ owner[Case] = IF thread[Case] = None THEN None ELSE Owner
  /\ thread[Case] = None =>
       head[Case] = None /\ attempt[Case] = None /\ marker = None /\ checkpoint = None

\* What the two databases say of each other, whoever died in between.
Fence ==
  /\ thread[Case] # None /\ attempt[Case] = None => head[Case] = Latest
  /\ attempt[Case] # None => marker # None /\ MarkedAttempt
  /\ marker # None =>
       /\ marker.head <= Latest
       /\ marker.head = Latest => thread[Case] # None /\ head[Case] = Latest
       /\ IF marker.head = 0 THEN marker.request = <<0, "start">>
          ELSE /\ marker.request[1] = marker.head
               /\ marker.head = Latest => marker.request[2] \in Decisions(checkpoint.next)

\* The answer to the interrupt the call resumed at is one of its decisions.
AtItsInterrupt(p) ==
  /\ before[p] = Latest
  /\ IF before[p] = 0 THEN checkpoint = None
     ELSE memory[p] = checkpoint /\ request[p][2] \in Decisions(checkpoint.next)

OwnMarker(p) ==
  /\ marker # None /\ held[p] = marker
  /\ marker.head = before[p] /\ marker.request = request[p]

Place(p) ==
  /\ before[p] = 0 => request[p] = <<0, "start">>
  /\ before[p] # 0 => request[p][1] = before[p]
  /\ pc[p] \in {"idle", "starting"} => ~reserved[p] /\ before[p] = 0
  /\ pc[p] \notin {"idle", "starting"} => thread[Case] = Thread
  /\ pc[p] \in {"starting", "reserved", "unreserving"} => before[p] = 0 /\ checkpoint = None
  /\ reserved[p] => before[p] = 0
  /\ reserved[p] /\ pc[p] = "reserved" => marker = None
  /\ reserved[p] /\ pc[p] = "prepared" => attempt[Case] = None
  /\ pc[p] = "unreserving" => marker = None
  /\ pc[p] \in {"resuming", "recovering", "recovered", "unmarked", "prepared", "claimed"} =>
       AtItsInterrupt(p)
  /\ pc[p] \in {"resuming", "recovering", "recovered", "unmarked"} => before[p] # 0
  /\ pc[p] \in {"recovering", "recovered"} =>
       marker # None /\ held[p] = marker /\ marker.head # before[p]
  /\ pc[p] = "recovered" => attempt[Case] = None
  /\ pc[p] = "unmarked" /\ marker # None => marker.head = before[p]
  /\ pc[p] = "prepared" => OwnMarker(p)
  /\ InClaim(p) => OwnMarker(p) /\ attempt[Case] # None
  /\ InGraph(p) =>
       /\ checkpoint # None /\ memory[p] = checkpoint
       /\ Latest = before[p] => request[p][2] \in Decisions(checkpoint.next)
  /\ pc[p] \in Executing => checkpoint.next = "execute_one_operation"
  /\ pc[p] \in {"finishing", "unwinding", "clearing"} => after[p] = Latest
  /\ pc[p] = "clearing" => OwnMarker(p) /\ attempt[Case] = None

\* A write request that the attempt of the moment could still let through.
Current(m) == attempt[Case] # None /\ m.grant.head = head[Case]

\* The process is about to send the one write of its call, or has its answer.
Unsent(p) ==
  \/ pc[p] \in {"granted", "answered", "blocked"}
  \/ pc[p] = "running" /\ memory[p].next = "execute_one_operation"

Wire ==
  /\ \A g \in grants : g.head < Latest
  /\ \A p \in Procs : pc[p] = "granted" => grant[p].head < Latest
  /\ \A m \in wire : m.grant.head < Latest
  /\ \A m \in wire : Current(m) =>
       /\ checkpoint.version = m.version /\ checkpoint.next \in Unknowns
       /\ \A p \in Procs : ~Unsent(p) /\ (pc[p] = "waiting" => m.awaited)
  /\ \A m \in wire : m.awaited => m.version = memory[m.proc].version

Book ==
  /\ IF checkpoint = None THEN cases[Case].version = 0
     ELSE \/ cases[Case].version = checkpoint.version
          \/ /\ cases[Case].version = checkpoint.version + 1
             /\ checkpoint.next \in Unknowns \/ checkpoint.status = "escalated"
  /\ checkpoint # None =>
       /\ checkpoint.status = "escalated" => checkpoint.next = "END"
       /\ checkpoint.interrupted => checkpoint.next \in HumanNodes
  /\ \A p \in Procs : pc[p] = "blocked" => cases[Case].version = memory[p].version
  /\ \A v \in 0 .. Writes - 1 : v < cases[Case].version => Store!Replays(WriteAt(v), v)

SerialInv ==
  /\ Identity /\ Fence /\ Wire /\ Book
  /\ \A p \in Procs : Place(p)

\* The sizes of the ids, and that only the missing checkpoint has id 0.
LEMMA Sizes ==
  ASSUME TypeInv
  PROVE  /\ Latest \in Nat /\ (Latest = 0 <=> checkpoint = None) /\ Latest < nextId
         /\ checkpoint # None => Latest = checkpoint.id /\ checkpoint \in Checkpoint
         /\ marker # None => marker \in Marker /\ marker.head \in Nat
         /\ head[Case] # None => head[Case] \in Nat
         /\ \A m \in wire : m \in Message /\ m.proc \in Procs /\ m.grant.head \in Nat
         /\ \A p \in Procs : before[p] \in Nat /\ before[p] < nextId
         /\ nextId \in Nat \ {0}
<1> USE RuntimeAssumption DEF RuntimeAssumption
<1>1. RuntimeTypes /\ Store!TypeOK /\ (\A p \in Procs : Holds(p)) /\ Unfinished(checkpoint)
  BY TypeHalves DEF TypeInv
<1>2. CheckpointIds \subseteq Nat
  BY DEF CheckpointIds
<1>3. /\ checkpoint # None => Latest = checkpoint.id /\ checkpoint \in Checkpoint
      /\ Latest \in Nat /\ (Latest = 0 <=> checkpoint = None) /\ Latest < nextId
      /\ nextId \in Nat \ {0}
  <2>1. nextId \in Nat \ {0}
    BY <1>1 DEF RuntimeTypes
  <2>2. checkpoint # None => /\ checkpoint \in Checkpoint /\ checkpoint.id \in Nat \ {0}
                             /\ checkpoint.id < nextId
    BY <1>1, <1>2 DEF RuntimeTypes, Checkpoint, Unfinished
  <2> QED BY <2>1, <2>2 DEF Latest
<1>4. marker # None => marker \in Marker /\ marker.head \in Nat
  BY <1>1, <1>2 DEF RuntimeTypes, Marker
<1>5. head[Case] # None => head[Case] \in Nat
  BY <1>1, <1>2 DEF Store!TypeOK
<1>6. \A m \in wire : m \in Message /\ m.proc \in Procs /\ m.grant.head \in Nat
  BY <1>1, <1>2 DEF RuntimeTypes, Message, Store!Grant
<1>7. \A p \in Procs : before[p] \in Nat /\ before[p] < nextId
  BY <1>1, <1>2 DEF RuntimeTypes, Holds
<1> QED BY <1>3, <1>4, <1>5, <1>6, <1>7

\* A claimed call holds the fence at the head it started from.
LEMMA ClaimHolds ==
  ASSUME TypeInv, SerialInv, NEW p \in Procs, InClaim(p)
  PROVE  /\ OwnMarker(p) /\ attempt[Case] # None /\ HoldsFence(p)
         /\ head[Case] = before[p] /\ before[p] <= Latest
         /\ thread[Case] = Thread
<1>1. OwnMarker(p) /\ attempt[Case] # None /\ Place(p)
  BY DEF SerialInv, Place
<1>2. MarkedAttempt /\ marker.head <= Latest
  BY <1>1 DEF SerialInv, Fence, OwnMarker
<1>3. thread[Case] = Thread
  BY <1>2 DEF MarkedAttempt, Store!HoldsFence, Store!Owned
<1> QED BY <1>1, <1>2, <1>3 DEF OwnMarker, MarkedAttempt, HoldsFence, Store!HoldsFence

\* At the head it started from, no earlier request is good for anything; nor is
\* one where the attempt is closed.
LEMMA NoneCurrent ==
  ASSUME TypeInv, SerialInv, NEW m \in wire, Current(m)
  PROVE  /\ attempt[Case] # None /\ head[Case] # Latest /\ checkpoint # None
         /\ checkpoint.version = m.version /\ checkpoint.next \in Unknowns
         /\ \A p \in Procs : ~Unsent(p)
<1>1. m.grant.head < Latest /\ m.grant.head \in Nat /\ Latest \in Nat
  BY Sizes DEF SerialInv, Wire
<1> QED BY <1>1, Sizes DEF Current, SerialInv, Wire

\* A step between two states in each of which at most one call is under way.
Ready == TypeInv /\ TypeInv' /\ SerialInv /\ OneCallAtATime /\ OneCallAtATime'

\* While one process is in a call, the others have nothing in their hands.
LEMMA Alone ==
  ASSUME Ready, NEW p \in Procs, Own(p), Others(p)
  PROVE  \A q \in Procs \ {p} : pc[q] = "idle" /\ pc'[q] = "idle" /\ Place(q)'
<1> SUFFICES ASSUME NEW q \in Procs \ {p}
             PROVE  pc[q] = "idle" /\ pc'[q] = "idle" /\ Place(q)'
  OBVIOUS
<1>1. RuntimeTypes
  BY TypeHalves DEF Ready, TypeInv
<1>2. pc[p] # "idle" \/ pc'[p] # "idle"
  BY <1>1 DEF Own, Call, Proceed, StartCase, ResumeCase, Goto, RuntimeTypes, ReserveIdentity,
              LoadMarker, RecoverFence, ClearStaleMarker, PrepareMarker, RefuseEarly, Claim,
              ClaimRefused, ReleaseIdentity, Enter, CheckpointMoved, RunNode, Stop, IssueGrant,
              SendWrite, RecordOutcome, Finish, Unwind, UnwindRefused, ClearMarker, LoseAnswer,
              Abort, Crash, Executing
<1>3. pc[q] = "idle" /\ pc'[q] = "idle"
  BY <1>2 DEF Ready, OneCallAtATime, Others
<1>4. before[q] = 0 /\ request[q] = <<0, "start">> /\ ~reserved[q]
  BY <1>3 DEF Ready, SerialInv, Place
<1>5. before'[q] = 0 /\ request'[q] = <<0, "start">> /\ ~reserved'[q]
  BY <1>4 DEF Others
<1>6. Place(q)'
  BY <1>3, <1>5 DEF Place, InClaim, InGraph, Executing
<1> QED BY <1>3, <1>6

\* Everybody's place is found once the place of the process that moves is.
LEMMA WithPlace ==
  ASSUME Ready, NEW p \in Procs, Own(p),
         Identity', Fence', Wire', Book', Place(p)'
  PROVE  SerialInv'
<1>1. Others(p)
  BY OthersStay, TypeHalves DEF Ready, TypeInv
<1> QED BY <1>1, Alone DEF Ready, SerialInv

(* The requests on the wire, after a step that sends none.                  *)
LEMMA WireKept ==
  ASSUME Ready, NEW p \in Procs, Own(p),
         \A n \in wire' : \E m \in wire : /\ n.grant = m.grant /\ n.version = m.version
                                          /\ n.proc = m.proc /\ (n.awaited => m.awaited),
         pc[p] # "waiting" \/ \A n \in wire' : n.awaited => n.proc # p,
         \A g \in grants' : g.head < Latest',
         pc'[p] = "granted" => grant'[p].head < Latest',
         Latest <= Latest',
         \A m \in wire : Current(m)' => /\ Current(m)
                                        /\ checkpoint'.version = m.version
                                        /\ checkpoint'.next \in Unknowns
                                        /\ ~Unsent(p)' /\ pc'[p] # "waiting"
  PROVE  Wire'
<1>1. Others(p)
  BY OthersStay, TypeHalves DEF Ready, TypeInv
<1>2. \A q \in Procs \ {p} : pc[q] = "idle" /\ pc'[q] = "idle"
  BY <1>1, Alone DEF Ready
<1>3. \A n \in wire' : ~n.awaited
  <2> SUFFICES ASSUME NEW n \in wire', n.awaited PROVE FALSE
    OBVIOUS
  <2>1. PICK m \in wire : n.proc = m.proc /\ m.awaited
    OBVIOUS
  <2>2. pc[n.proc] = "waiting" /\ n.proc \in Procs
    BY <2>1, Sizes DEF Ready, TypeInv, Awaited
  <2>3. n.proc = p
    BY <1>2, <2>2
  <2> QED BY <2>2, <2>3
<1>4. \A n \in wire' : n.grant.head < Latest'
  <2> SUFFICES ASSUME NEW n \in wire' PROVE n.grant.head < Latest'
    OBVIOUS
  <2>1. PICK m \in wire : n.grant = m.grant
    OBVIOUS
  <2>2. m.grant.head < Latest /\ m.grant.head \in Nat /\ Latest \in Nat
    BY Sizes DEF Ready, SerialInv, Wire
  <2>3. (TypeInv => Latest \in Nat)'
    BY Sizes, PTL
  <2> QED BY <2>1, <2>2, <2>3 DEF Ready
<1>5. \A q \in Procs : pc'[q] = "granted" => grant'[q].head < Latest'
  BY <1>2
<1>6. ASSUME NEW n \in wire', Current(n)'
      PROVE  /\ checkpoint'.version = n.version /\ checkpoint'.next \in Unknowns
             /\ \A q \in Procs : ~Unsent(q)' /\ pc'[q] # "waiting"
  <2>1. PICK m \in wire : n.grant = m.grant /\ n.version = m.version
    OBVIOUS
  <2>2. Current(m)'
    BY <1>6, <2>1 DEF Current
  <2> QED BY <1>2, <2>1, <2>2 DEF Unsent
<1> QED BY <1>3, <1>4, <1>5, <1>6 DEF Wire

(* The books, after a step that leaves the case, and what the checkpoint    *)
(* says of it, alone.                                                       *)
LEMMA BookKept ==
  ASSUME Ready, NEW p \in Procs, Own(p),
         UNCHANGED <<cases, receipts>>, pc'[p] # "blocked",
         \/ checkpoint' = checkpoint
         \/ /\ checkpoint # None /\ checkpoint' # None
            /\ checkpoint'.version = checkpoint.version /\ checkpoint'.next = checkpoint.next
            /\ checkpoint'.status = checkpoint.status
            /\ checkpoint'.interrupted => checkpoint.interrupted \/ checkpoint.next \in HumanNodes
  PROVE  Book'
<1>1. Others(p)
  BY OthersStay, TypeHalves DEF Ready, TypeInv
<1>2. \A q \in Procs : pc'[q] # "blocked"
  BY <1>1, Alone DEF Ready
<1> QED BY <1>2 DEF Ready, SerialInv, Book, Store!Replays, Store!ReceiptsFor

\* The columns of the row after the store's operations on the fence.
LEMMA FenceEffects ==
  ASSUME Store!TypeOK
  PROVE  /\ \A h : Store!CloseAttempt(Case, h) =>
              /\ head'[Case] = h /\ attempt'[Case] = None
              /\ UNCHANGED <<thread, owner, grants, cases, receipts>>
         /\ \A h, tok, req, exec : Store!ClaimWorkflowMutation(Case, Thread, Owner, h, tok, req, exec) =>
              /\ head'[Case] = h /\ attempt'[Case] = Store!NewAttempt(tok, h, req, exec)
              /\ thread[Case] = Thread /\ owner[Case] = Owner
              /\ UNCHANGED <<thread, owner, grants, cases, receipts>>
BY DEF Store!TypeOK, Store!CloseAttempt, Store!ClaimWorkflowMutation, Store!MayClaim,
       Store!Owned, Store!FenceColumns

\* A step before the claim that leaves the identity and the fence as they are,
\* or closes the attempt at the latest checkpoint, leaves the rest in order.
LEMMA QuietStep ==
  ASSUME Ready, NEW p \in Procs, Own(p),
         UNCHANGED <<wire, grants, cases, receipts, checkpoint>>, pc[p] # "waiting",
         pc'[p] \notin {"granted", "answered", "blocked", "waiting", "running"},
         attempt'[Case] # None => attempt[Case] # None /\ head'[Case] = head[Case]
  PROVE  Wire' /\ Book'
<1>1. Latest' = Latest /\ Latest \in Nat
  BY Sizes DEF Latest, Ready
<1>2. \A m \in wire : Current(m)' => /\ Current(m)
                                     /\ checkpoint'.version = m.version
                                     /\ checkpoint'.next \in Unknowns
                                     /\ ~Unsent(p)' /\ pc'[p] # "waiting"
  BY NoneCurrent DEF Ready, Current, Unsent
<1>3. \A n \in wire' : \E m \in wire : /\ n.grant = m.grant /\ n.version = m.version
                                       /\ n.proc = m.proc /\ (n.awaited => m.awaited)
  OBVIOUS
<1>4. \A g \in grants' : g.head < Latest'
  BY <1>1 DEF Ready, SerialInv, Wire
<1>5. Wire'
  BY <1>1, <1>2, <1>3, <1>4, WireKept
<1> QED BY <1>5, BookKept DEF Ready

(* A call begins, and start_case reserves the identity.                     *)
LEMMA SerialBegin ==
  ASSUME Ready, NEW p \in Procs, Call(p) \/ ReserveIdentity(p)
  PROVE  SerialInv'
<1>1. Own(p) /\ RuntimeTypes /\ Store!TypeOK /\ Identity /\ Fence /\ Place(p)
  BY TypeHalves DEF Own, Proceed, Ready, TypeInv, SerialInv
<1>2. CASE StartCase(p)
  <2>1. /\ pc[p] = "idle" /\ checkpoint = None /\ pc'[p] = "starting"
        /\ UNCHANGED <<thread, owner, head, attempt, grants, cases, receipts, checkpoint, marker,
                       wire, before, request, held, memory, after, grant, reserved>>
    BY <1>1, <1>2 DEF StartCase, Goto, RuntimeTypes, storeVars, localVars, CheckpointDB
  <2>2. Wire' /\ Book'
    BY <1>1, <2>1, QuietStep
  <2>3. Identity' /\ Fence'
    BY <1>1, <2>1 DEF Identity, Fence, Latest, MarkedAttempt, Store!HoldsFence, Store!Owned
  <2>4. Place(p)'
    BY <1>1, <2>1 DEF Place, InClaim, InGraph, Executing
  <2> QED BY <1>1, <2>2, <2>3, <2>4, WithPlace
<1>3. CASE ReserveIdentity(p)
  <2>1. /\ pc[p] = "starting" /\ pc'[p] = "reserved"
        /\ UNCHANGED <<attempt, grants, cases, receipts, checkpoint, marker,
                       wire, before, request, held, memory, after, grant>>
    BY <1>1, <1>3 DEF ReserveIdentity, Goto, RuntimeTypes, storeVars, CheckpointDB,
                      Store!ReserveWorkflowIdentity
  <2>2. before[p] = 0 /\ checkpoint = None /\ ~reserved[p] /\ Latest = 0 /\ Latest' = 0
    BY <1>1, <2>1 DEF Place, Latest
  <2>3. \/ /\ thread[Case] = None /\ thread'[Case] = Thread /\ owner'[Case] = Owner
           /\ head'[Case] = 0 /\ marker = None /\ attempt[Case] = None
        \/ /\ thread[Case] = Thread /\ UNCHANGED <<thread, owner, head, reserved>>
    BY <1>1, <1>3
       DEF ReserveIdentity, Store!ReserveWorkflowIdentity, Store!AlreadyReserved,
           Store!TypeOK, Identity, storeVars
  <2>4. Wire' /\ Book'
    BY <1>1, <2>1, <2>3, QuietStep
  <2>5. thread'[Case] = Thread /\ thread'[Case] # None
    BY <2>3, NullAssumption DEF NullAssumption
  <2>6. Identity' /\ Fence'
    BY <1>1, <2>1, <2>2, <2>3, <2>5
       DEF Identity, Fence, Latest, MarkedAttempt, Store!HoldsFence, Store!Owned
  <2>7. Place(p)'
    BY <1>1, <2>1, <2>2, <2>3, <2>5 DEF Place, InClaim, InGraph, Executing
  <2> QED BY <1>1, <2>4, <2>6, <2>7, WithPlace
<1>4. ASSUME NEW d \in AllDecisions, ResumeCase(p, d) PROVE SerialInv'
  <2>1. /\ pc[p] = "idle" /\ pc'[p] = "resuming" /\ checkpoint # None
        /\ d \in Decisions(checkpoint.next)
        /\ before'[p] = checkpoint.id /\ request'[p] = <<checkpoint.id, d>>
        /\ memory'[p] = checkpoint
        /\ UNCHANGED <<thread, head, attempt, grants, cases, receipts, checkpoint, marker, wire,
                       held, after, grant, reserved>>
        /\ thread[Case] = Thread /\ owner'[Case] = Owner
    BY <1>1, <1>4
       DEF ResumeCase, Goto, RuntimeTypes, CheckpointDB, Store!ValidateOrClaimWorkflowIdentity,
           Store!MayAdopt, Store!TypeOK
  <2>2. Latest' = Latest /\ Latest = checkpoint.id /\ Latest # 0
    BY <2>1, Sizes DEF Latest, Ready
  <2>3. Wire' /\ Book'
    BY <1>1, <2>1, QuietStep
  <2>4. thread[Case] # None /\ owner[Case] = Owner
    BY <1>1, <2>1, NullAssumption DEF NullAssumption, Identity
  <2>5. Identity' /\ Fence'
    BY <1>1, <2>1, <2>2, <2>4
       DEF Identity, Fence, MarkedAttempt, Store!HoldsFence, Store!Owned
  <2>6. AtItsInterrupt(p)'
    BY <2>1, <2>2 DEF AtItsInterrupt
  <2>7. ~reserved'[p]
    BY <1>1, <2>1 DEF Place
  <2>8. Place(p)'
    BY <2>1, <2>2, <2>6, <2>7 DEF Place, InClaim, InGraph, Executing
  <2> QED BY <1>1, <2>3, <2>5, <2>8, WithPlace
<1> QED BY <1>2, <1>3, <1>4 DEF Call

(* resume_case reads the marker an earlier call left, recovers its fence    *)
(* and deletes it.                                                          *)
LEMMA SerialRecover ==
  ASSUME Ready, NEW p \in Procs, LoadMarker(p) \/ RecoverFence(p) \/ ClearStaleMarker(p)
  PROVE  SerialInv'
<1>1. Own(p) /\ RuntimeTypes /\ Store!TypeOK /\ Identity /\ Fence /\ Place(p)
  BY TypeHalves DEF Own, Proceed, Ready, TypeInv, SerialInv
<1>2. /\ AtItsInterrupt(p) /\ before[p] # 0 /\ thread[Case] = Thread
      /\ pc[p] \in {"resuming", "recovering", "recovered"}
      /\ UNCHANGED <<thread, owner, grants, cases, receipts, checkpoint, wire, before, request,
                     memory, after, grant, reserved>>
  BY <1>1 DEF LoadMarker, RecoverFence, ClearStaleMarker, Place, storeVars, localVars,
              CheckpointDB, Store!RecoverWorkflowMutation, Store!CloseAttempt, Store!FenceColumns
<1>3. thread[Case] # None /\ Latest' = Latest /\ before[p] = Latest /\ AtItsInterrupt(p)'
  BY <1>2, NullAssumption DEF NullAssumption, AtItsInterrupt, Latest
<1>4. CASE LoadMarker(p)
  <2>1. /\ UNCHANGED <<head, attempt, marker>>
        /\ \/ /\ marker # None /\ marker.head # before[p]
              /\ held'[p] = marker /\ pc'[p] = "recovering"
           \/ /\ marker = None \/ marker.head = before[p]
              /\ pc'[p] = "unmarked"
    BY <1>1, <1>4 DEF LoadMarker, Goto, RuntimeTypes, storeVars, CheckpointDB
  <2>2. Wire' /\ Book'
    BY <1>1, <1>2, <2>1, QuietStep
  <2>3. Identity' /\ Fence'
    BY <1>1, <1>2, <1>3, <2>1
       DEF Identity, Fence, MarkedAttempt, Store!HoldsFence, Store!Owned
  <2>4. Place(p)'
    BY <1>1, <1>2, <1>3, <2>1 DEF Place, InClaim, InGraph, Executing
  <2> QED BY <1>1, <2>2, <2>3, <2>4, WithPlace
<1>5. CASE RecoverFence(p)
  <2>1. /\ pc[p] = "recovering" /\ pc'[p] = "recovered" /\ UNCHANGED <<marker, held>>
        /\ head'[Case] = before[p] /\ attempt'[Case] = None
    BY <1>1, <1>5, FenceEffects
       DEF RecoverFence, Goto, RuntimeTypes, CheckpointDB, localVars,
           Store!RecoverWorkflowMutation, AlreadyAt, Store!AlreadyAt, storeVars
  <2>2. Wire' /\ Book'
    BY <1>1, <1>2, <2>1, QuietStep
  <2>3. Identity' /\ Fence'
    BY <1>1, <1>2, <1>3, <2>1
       DEF Identity, Fence, MarkedAttempt, Store!HoldsFence, Store!Owned
  <2>4. Place(p)'
    BY <1>1, <1>2, <1>3, <2>1 DEF Place, InClaim, InGraph, Executing
  <2> QED BY <1>1, <2>2, <2>3, <2>4, WithPlace
<1>6. CASE ClearStaleMarker(p)
  <2>1. /\ pc[p] = "recovered" /\ pc'[p] = "unmarked"
        /\ held[p] = marker /\ marker # None /\ attempt[Case] = None
        /\ marker' = None /\ UNCHANGED <<head, attempt, held>>
    BY <1>1, <1>6
       DEF ClearStaleMarker, DeleteMarker, Goto, RuntimeTypes, localVars, storeVars, Place
  <2>2. Wire' /\ Book'
    BY <1>1, <1>2, <2>1, QuietStep
  <2>3. Identity' /\ Fence'
    BY <1>1, <1>2, <1>3, <2>1
       DEF Identity, Fence, MarkedAttempt, Store!HoldsFence, Store!Owned
  <2>4. Place(p)'
    BY <1>1, <1>2, <1>3, <2>1 DEF Place, InClaim, InGraph, Executing
  <2> QED BY <1>1, <2>2, <2>3, <2>4, WithPlace
<1> QED BY <1>4, <1>5, <1>6

(* The marker is prepared and the attempt is claimed.                       *)
LEMMA SerialClaim ==
  ASSUME Ready, NEW p \in Procs, PrepareMarker(p) \/ Claim(p)
  PROVE  SerialInv'
<1>1. Own(p) /\ RuntimeTypes /\ Store!TypeOK /\ Identity /\ Fence /\ Place(p)
  BY TypeHalves DEF Own, Proceed, Ready, TypeInv, SerialInv
<1>2. /\ thread[Case] = Thread
      /\ pc[p] \in {"reserved", "unmarked", "prepared"}
      /\ UNCHANGED <<thread, owner, grants, cases, receipts, checkpoint, wire, before, request,
                     memory, after, grant, reserved>>
  BY <1>1 DEF PrepareMarker, Claim, Place, storeVars, localVars, CheckpointDB,
              Store!ClaimWorkflowMutation, Store!FenceColumns
<1>3. thread[Case] # None /\ Latest' = Latest /\ Latest \in Nat /\ (Latest = 0 <=> checkpoint = None)
  BY <1>2, Sizes, NullAssumption DEF NullAssumption, Latest, Ready
<1>4. AtItsInterrupt(p) /\ AtItsInterrupt(p)' /\ before[p] = Latest
  BY <1>1, <1>2, <1>3 DEF Place, AtItsInterrupt
<1>5. CASE PrepareMarker(p)
  <2>1. /\ pc[p] \in {"reserved", "unmarked"} /\ pc'[p] = "prepared"
        /\ UNCHANGED <<head, attempt>> /\ held'[p] = marker'
        /\ \/ marker = None /\ marker' = [token |-> nextToken, head |-> before[p], request |-> request[p]]
           \/ /\ marker # None /\ marker' = marker
              /\ marker.head = before[p] /\ marker.request = request[p]
    BY <1>1, <1>5 DEF PrepareMarker, Goto, RuntimeTypes, storeVars
  <2>2. marker' # None /\ marker'.head = before[p] /\ marker'.request = request[p]
    <3>1. PrepareMarker(p) => held'[p] # None
      BY <2>1 DEF Ready, TypeInv, Holds, MarkerHeld
    <3> QED BY <1>5, <2>1, <3>1
  <2>3. Wire' /\ Book'
    BY <1>1, <1>2, <2>1, QuietStep
  <2>4. head[Case] = Latest
    BY <1>1, <1>3, <1>4, <2>1 DEF Fence
  <2>5. Fence'
    <3>1. attempt'[Case] # None => marker' # None /\ MarkedAttempt'
      <4>1. attempt[Case] # None => marker # None /\ MarkedAttempt
        BY <1>1 DEF Fence
      <4> QED BY <1>2, <2>1, <4>1 DEF MarkedAttempt, Store!HoldsFence, Store!Owned
    <3>2. /\ marker'.head = 0 => marker'.request = <<0, "start">>
          /\ marker'.head # 0 => /\ marker'.request[1] = marker'.head
                                 /\ marker'.request[2] \in Decisions(checkpoint.next)
      BY <1>1, <1>4, <2>2 DEF Place, AtItsInterrupt
    <3> QED BY <1>1, <1>2, <1>3, <1>4, <2>1, <2>2, <2>4, <3>1, <3>2 DEF Fence
  <2>6. Identity'
    BY <1>1, <1>2, <1>3 DEF Identity
  <2>7. reserved'[p] => attempt'[Case] = None
    BY <1>1, <1>2, <2>1, <1>4, <1>3 DEF Place, Fence, AtItsInterrupt
  <2>8. Place(p)'
    BY <1>1, <1>2, <1>4, <2>1, <2>2, <2>7 DEF Place, OwnMarker, InClaim, InGraph, Executing
  <2> QED BY <1>1, <2>3, <2>5, <2>6, <2>8, WithPlace
<1>6. CASE Claim(p)
  <2>1. /\ pc[p] = "prepared" /\ pc'[p] = "claimed" /\ UNCHANGED <<marker, held>>
        /\ head'[Case] = before[p]
        /\ attempt'[Case] = Store!NewAttempt(held[p].token, before[p], request[p], ExecutionOf(p))
        /\ owner[Case] = Owner
    BY <1>1, <1>6, FenceEffects DEF Claim, Goto, RuntimeTypes, CheckpointDB, localVars
  <2>2. OwnMarker(p) /\ OwnMarker(p)'
    BY <1>1, <1>2, <2>1 DEF Place, OwnMarker
  <2>3. attempt'[Case] # None
    <3>1. held[p] \in Marker
      BY <1>1, <2>2 DEF RuntimeTypes, OwnMarker
    <3>2. ExecutionOf(p) \in Executions \cup {None}
      BY ArgumentTypes, TypeHalves DEF Ready, TypeInv
    <3>3. attempt'[Case] \in Store!Attempt
      BY <1>1, <2>1, <3>1, <3>2 DEF Store!NewAttempt, Store!Attempt, Marker, RuntimeTypes
    <3> QED BY <3>3, NullAssumption DEF NullAssumption
  <2>4. MarkedAttempt'
    BY <1>2, <2>1, <2>2, <2>3
       DEF MarkedAttempt, Store!HoldsFence, Store!Owned, OwnMarker, Store!NewAttempt
  <2>5. Fence' /\ Identity'
    BY <1>1, <1>2, <1>3, <1>4, <2>1, <2>2, <2>3, <2>4 DEF Fence, Identity, OwnMarker
  <2>6. \A m \in wire : ~Current(m)'
    <3>1. \A m \in wire : m.grant.head < Latest /\ m.grant.head \in Nat
      BY Sizes DEF Ready, SerialInv, Wire
    <3> QED BY <1>3, <1>4, <2>1, <3>1 DEF Current
  <2>7. Wire'
    <3>1. \A g \in grants' : g.head < Latest'
      BY <1>2, <1>3 DEF Ready, SerialInv, Wire
    <3>2. \A n \in wire' : \E m \in wire : /\ n.grant = m.grant /\ n.version = m.version
                                           /\ n.proc = m.proc /\ (n.awaited => m.awaited)
      BY <1>2
    <3> QED BY <1>1, <1>3, <2>1, <2>6, <3>1, <3>2, WireKept
  <2>8. Book'
    BY <1>1, <1>2, <2>1, BookKept
  <2>9. Place(p)'
    BY <1>1, <1>2, <1>4, <2>1, <2>2, <2>3 DEF Place, InClaim, InGraph, Executing
  <2> QED BY <1>1, <2>5, <2>7, <2>8, <2>9, WithPlace
<1> QED BY <1>5, <1>6


\* What the two databases say of each other is about these columns only.
LEMMA SameRows ==
  ASSUME Ready, UNCHANGED <<thread, owner, head, attempt, checkpoint, marker>>
  PROVE  Identity' /\ Fence' /\ Latest' = Latest
BY DEF Ready, SerialInv, Identity, Fence, Latest, MarkedAttempt, Store!HoldsFence, Store!Owned

\* A call that is over has nothing in its hands.
LEMMA LeftPlace ==
  ASSUME RuntimeTypes, NEW p \in Procs, Leave(p)
  PROVE  Place(p)' /\ pc'[p] = "idle" /\ reserved'[p] = FALSE
<1>1. /\ pc'[p] = "idle" /\ before'[p] = 0 /\ request'[p] = <<0, "start">>
      /\ reserved'[p] = FALSE
  BY DEF Leave, Goto, RuntimeTypes
<1> QED BY <1>1 DEF Place, InClaim, InGraph, Executing

\* The requests on the wire, after a step that gives up those of its process or
\* has none.
LEMMA OnTheWire ==
  ASSUME Ready, NEW p \in Procs,
         \/ Abandon(p)
         \/ pc[p] # "waiting" /\ UNCHANGED wire
  PROVE  /\ \A n \in wire' : \E m \in wire : /\ n.grant = m.grant /\ n.version = m.version
                                             /\ n.proc = m.proc /\ (n.awaited => m.awaited)
         /\ pc[p] # "waiting" \/ \A n \in wire' : n.awaited => n.proc # p
<1>1. CASE Abandon(p)
  <2> DEFINE given(m) == [m EXCEPT !.awaited = m.awaited /\ m.proc # p]
  <2>1. wire' = {given(m) : m \in wire}
    BY <1>1 DEF Abandon
  <2>2. \A m \in wire : /\ given(m).grant = m.grant /\ given(m).version = m.version
                        /\ given(m).proc = m.proc
                        /\ given(m).awaited => m.awaited /\ m.proc # p
    BY Sizes DEF Ready, Message
  <2> HIDE DEF given
  <2> QED BY <2>1, <2>2
<1>2. CASE pc[p] # "waiting" /\ UNCHANGED wire
  BY <1>2
<1> QED BY <1>1, <1>2

(* A call that returns, or dies, and leaves both databases as they are.     *)
LEMMA SerialLeave ==
  ASSUME Ready, NEW p \in Procs, Own(p), Leave(p),
         UNCHANGED <<storeVars, checkpoint, marker>>,
         \/ Abandon(p)
         \/ pc[p] # "waiting" /\ UNCHANGED wire
  PROVE  SerialInv'
<1>1. RuntimeTypes /\ UNCHANGED <<thread, owner, head, attempt, grants, cases, receipts>>
  BY TypeHalves DEF Ready, TypeInv, storeVars
<1>2. Place(p)' /\ pc'[p] = "idle"
  BY <1>1, LeftPlace
<1>3. Identity' /\ Fence' /\ Latest' = Latest /\ Latest \in Nat
  BY <1>1, SameRows, Sizes DEF Ready
<1>4. Book'
  BY <1>1, <1>2, BookKept
<1>5. /\ \A n \in wire' : \E m \in wire : /\ n.grant = m.grant /\ n.version = m.version
                                          /\ n.proc = m.proc /\ (n.awaited => m.awaited)
      /\ pc[p] # "waiting" \/ \A n \in wire' : n.awaited => n.proc # p
  BY <1>1, OnTheWire
<1>6. \A m \in wire : Current(m)' => /\ Current(m)
                                     /\ checkpoint'.version = m.version
                                     /\ checkpoint'.next \in Unknowns
                                     /\ ~Unsent(p)' /\ pc'[p] # "waiting"
  BY <1>1, <1>2, NoneCurrent DEF Ready, Current, Unsent
<1>7. \A g \in grants' : g.head < Latest'
  BY <1>1, <1>3 DEF Ready, SerialInv, Wire
<1>8. Wire'
  BY <1>2, <1>3, <1>5, <1>6, <1>7, WireKept
<1> QED BY <1>2, <1>3, <1>4, <1>8, WithPlace

(* A call that follows another is refused by nothing but itself: where the  *)
(* code would mark an attempt uncertain, or give back a reservation that    *)
(* was made for it, the guards of the claim hold.                           *)
LEMMA SerialRefused ==
  ASSUME Ready, NEW p \in Procs,
         RefuseEarly(p) \/ ClaimRefused(p) \/ UnwindRefused(p) \/ Crash(p)
  PROVE  SerialInv'
<1>1. Own(p) /\ RuntimeTypes /\ Identity /\ Fence /\ Place(p)
  BY TypeHalves DEF Own, Proceed, Ready, TypeInv, SerialInv
<1>2. CASE RefuseEarly(p) \/ UnwindRefused(p) \/ Crash(p)
  BY <1>1, <1>2, SerialLeave DEF RefuseEarly, UnwindRefused, Crash, CheckpointDB
<1>3. CASE ClaimRefused(p)
  <2>1. /\ pc[p] = "prepared" /\ OwnMarker(p) /\ AtItsInterrupt(p) /\ thread[Case] = Thread
        /\ reserved[p] => attempt[Case] = None
    BY <1>1, <1>3 DEF ClaimRefused, Place
  <2>2. thread[Case] # None /\ owner[Case] = Owner
    BY <1>1, <2>1, NullAssumption DEF Identity, NullAssumption
  <2>3. ~Store!MayMarkUncertain(Case, Thread, Owner, before[p], held[p].token)
    BY <1>1, <2>1
       DEF Store!MayMarkUncertain, Store!ForeignAttempt, Fence, MarkedAttempt,
           Store!HoldsFence, OwnMarker
  <2>4. ~reserved[p]
    BY <1>1, <1>3, <2>1, <2>2
       DEF ClaimRefused, Store!MayClaim, Store!Owned, Store!AtHead, Fence, AtItsInterrupt
  <2>5. Leave(p) /\ UNCHANGED <<storeVars, checkpoint, marker, wire>>
    BY <1>3, <2>3, <2>4 DEF ClaimRefused, CheckpointDB
  <2> QED BY <1>1, <2>1, <2>5, SerialLeave
<1> QED BY <1>2, <1>3

(* The marker is cleared, and a reservation without a checkpoint is given   *)
(* back.                                                                    *)
LEMMA SerialClear ==
  ASSUME Ready, NEW p \in Procs, ClearMarker(p) \/ ReleaseIdentity(p)
  PROVE  SerialInv'
<1>1. Own(p) /\ RuntimeTypes /\ Store!TypeOK /\ Identity /\ Fence /\ Place(p)
  BY TypeHalves DEF Own, Proceed, Ready, TypeInv, SerialInv
<1>2. CASE ClearMarker(p)
  <2>1. /\ pc[p] = "clearing" /\ OwnMarker(p) /\ attempt[Case] = None /\ after[p] = Latest
        /\ thread[Case] = Thread
        /\ UNCHANGED <<thread, owner, head, attempt, grants, cases, receipts, checkpoint, wire>>
    BY <1>1, <1>2 DEF ClearMarker, Place, storeVars
  <2>2. marker' = None /\ thread[Case] # None /\ Latest' = Latest
        /\ (Latest = 0 <=> checkpoint = None)
    BY <1>2, <2>1, Sizes, NullAssumption
       DEF ClearMarker, DeleteMarker, OwnMarker, NullAssumption, Latest, Ready
  <2>3. \/ /\ reserved[p] /\ after[p] = 0 /\ pc'[p] = "unreserving"
           /\ UNCHANGED <<before, request, reserved>>
        \/ Leave(p)
    BY <1>1, <1>2 DEF ClearMarker, Goto, RuntimeTypes, localVars
  <2>4. Identity' /\ Fence'
    BY <1>1, <2>1, <2>2 DEF Identity, Fence
  <2>5. Place(p)'
    <3>1. CASE Leave(p)
      BY <1>1, <3>1, LeftPlace
    <3>2. CASE /\ reserved[p] /\ after[p] = 0 /\ pc'[p] = "unreserving"
               /\ UNCHANGED <<before, request, reserved>>
      BY <1>1, <2>1, <2>2, <3>2 DEF Place, InClaim, InGraph, Executing
    <3> QED BY <2>3, <3>1, <3>2
  <2>6. pc'[p] \in {"idle", "unreserving"}
    BY <1>1, <2>3, LeftPlace
  <2>7. Wire' /\ Book'
    BY <1>1, <2>1, <2>6, QuietStep
  <2> QED BY <1>1, <2>4, <2>5, <2>7, WithPlace
<1>3. CASE ReleaseIdentity(p)
  <2>1. /\ pc[p] = "unreserving" /\ marker = None /\ checkpoint = None
        /\ Leave(p)
        /\ UNCHANGED <<grants, cases, receipts, checkpoint, marker, wire>>
    BY <1>1, <1>3
       DEF ReleaseIdentity, Store!ReleaseWorkflowIdentity, Place, storeVars, CheckpointDB
  <2>2. \/ UNCHANGED <<thread, owner, head, attempt>>
        \/ /\ thread'[Case] = None /\ owner'[Case] = None /\ head'[Case] = None
           /\ attempt'[Case] = None
    BY <1>1, <1>3
       DEF ReleaseIdentity, Store!ReleaseWorkflowIdentity, Store!TypeOK, storeVars
  <2>3. Identity' /\ Fence'
    BY <1>1, <2>1, <2>2, SameRows DEF Identity, Fence, Ready
  <2>4. Place(p)' /\ pc'[p] = "idle"
    BY <1>1, <2>1, LeftPlace
  <2>5. Wire' /\ Book'
    BY <1>1, <2>1, <2>2, <2>4, QuietStep
  <2> QED BY <1>1, <2>3, <2>4, <2>5, WithPlace
<1> QED BY <1>2, <1>3

\* A claimed call of Place, with what its checkpoint is.
LEMMA Claimed ==
  ASSUME Ready, NEW p \in Procs, InClaim(p)
  PROVE  /\ OwnMarker(p) /\ attempt[Case] # None /\ thread[Case] = Thread
         /\ head[Case] = before[p] /\ marker.head = before[p] /\ before[p] <= Latest
         /\ HoldsFence(p) /\ Place(p)
BY ClaimHolds DEF Ready, SerialInv, OwnMarker

(* A superstep ends with its checkpoint: the fence stays at the head the    *)
(* call started from, and the new checkpoint knows what may still come.     *)
LEMMA SerialSave ==
  ASSUME Ready, NEW p \in Procs, Own(p), InClaim(p), pc[p] # "waiting",
         NEW next, NEW version, NEW status,
         Save(p, next, version, status), UNCHANGED <<wire, faults>>,
         \A m \in wire : Current(m) => /\ m.version = version /\ next \in Unknowns
                                       /\ next # "execute_one_operation",
         \/ cases[Case].version = version
         \/ /\ cases[Case].version = version + 1
            /\ next \in Unknowns \/ status = "escalated",
         status = "escalated" => next = "END"
  PROVE  SerialInv'
<1> DEFINE cp == [id |-> nextId, next |-> next, interrupted |-> FALSE,
                  version |-> version, status |-> status]
<1>1. RuntimeTypes /\ Identity /\ Fence /\ Wire /\ Book
  BY TypeHalves DEF Ready, TypeInv, SerialInv
<1>2. /\ pc'[p] = "running" /\ checkpoint' = cp /\ memory'[p] = cp
      /\ UNCHANGED <<thread, owner, head, attempt, grants, cases, receipts, marker,
                     before, request, held, after, grant, reserved>>
  BY <1>1 DEF Save, Goto, RuntimeTypes, storeVars
<1>3. checkpoint' # None
  <2>1. memory'[p] # None
    BY <1>2 DEF Ready, TypeInv, Holds
  <2> QED BY <1>2, <2>1
<1>4. /\ Latest' = nextId /\ Latest < Latest' /\ Latest \in Nat /\ Latest' \in Nat
      /\ before[p] \in Nat /\ before[p] < nextId
  BY <1>2, <1>3, Sizes DEF Latest, Ready
<1>5. OwnMarker(p) /\ attempt[Case] # None /\ thread[Case] = Thread /\ Place(p)
      /\ marker.head = before[p]
  BY Claimed
<1> HIDE DEF cp
<1>6. thread[Case] # None
  BY <1>5, NullAssumption DEF NullAssumption
<1>7. Identity' /\ Fence'
  <2>1. Identity'
    BY <1>1, <1>2, <1>6 DEF Identity
  <2>2. marker'.head < Latest'
    BY <1>2, <1>4, <1>5
  <2>3. MarkedAttempt' /\ marker' # None
    BY <1>1, <1>2, <1>5 DEF Fence, MarkedAttempt, Store!HoldsFence, Store!Owned
  <2> QED BY <1>1, <1>2, <1>4, <1>5, <2>1, <2>2, <2>3 DEF Fence
<1>8. Wire'
  <2>1. \A m \in wire : Current(m)' => /\ Current(m)
                                       /\ checkpoint'.version = m.version
                                       /\ checkpoint'.next \in Unknowns
                                       /\ ~Unsent(p)' /\ pc'[p] # "waiting"
    BY <1>2 DEF Current, Unsent, cp
  <2>2. \A g \in grants' : g.head < Latest'
    <3>1. \A g \in grants : g.head \in Nat /\ g.head < Latest
      BY <1>1, TypeHalves DEF Wire, Ready, TypeInv, Store!TypeOK, Store!Grant, CheckpointIds
    <3> QED BY <1>2, <1>4, <3>1
  <2>3. \A n \in wire' : \E m \in wire : /\ n.grant = m.grant /\ n.version = m.version
                                         /\ n.proc = m.proc /\ (n.awaited => m.awaited)
    OBVIOUS
  <2> QED BY <1>2, <1>4, <2>1, <2>2, <2>3, WireKept
<1>9. Book'
  <2>1. Others(p)
    BY <1>1, OthersStay
  <2>2. \A q \in Procs : pc'[q] # "blocked"
    BY <1>2, <2>1, Alone
  <2> QED BY <1>1, <1>2, <1>3, <2>2 DEF Book, Store!Replays, Store!ReceiptsFor, cp
<1>10. Place(p)'
  <2>1. OwnMarker(p)' /\ attempt'[Case] # None
    BY <1>2, <1>5 DEF OwnMarker
  <2>2. /\ before'[p] = 0 => request'[p] = <<0, "start">>
        /\ before'[p] # 0 => request'[p][1] = before'[p]
        /\ reserved'[p] => before'[p] = 0
        /\ thread'[Case] = Thread
    BY <1>2, <1>5 DEF Place
  <2> QED BY <1>2, <1>3, <1>4, <2>1, <2>2 DEF Place, InClaim, InGraph, Executing
<1> QED BY <1>7, <1>8, <1>9, <1>10, WithPlace

(* The claimed call enters the graph: nothing of an earlier call reaches    *)
(* the case at the head it claimed.                                         *)
LEMMA SerialEnter ==
  ASSUME Ready, NEW p \in Procs, Enter(p)
  PROVE  SerialInv'
<1>1. Own(p) /\ RuntimeTypes /\ Identity /\ Fence /\ Book /\ InClaim(p)
  BY TypeHalves DEF Own, Proceed, Ready, TypeInv, SerialInv, Enter, InClaim
<1>2. /\ OwnMarker(p) /\ attempt[Case] # None /\ thread[Case] = Thread
      /\ head[Case] = before[p] /\ Place(p)
  BY <1>1, Claimed
<1>3. pc[p] = "claimed" /\ before[p] = Latest /\ AtItsInterrupt(p)
  BY <1>2 DEF Enter, Place
<1>4. \A m \in wire : ~Current(m)
  BY <1>2, <1>3, NoneCurrent DEF Ready
<1>5. CASE Starting(p)
  <2>1. checkpoint = None /\ cases[Case].version = 0
    BY <1>1, <1>3, <1>5 DEF Starting, AtItsInterrupt, Book
  <2>2. Save(p, "investigate", 0, "active") /\ UNCHANGED <<wire, faults>>
    BY <1>5 DEF Enter
  <2> QED BY <1>1, <1>3, <1>4, <2>1, <2>2, SerialSave
<1>6. CASE ~Starting(p)
  <2>1. /\ pc'[p] = "running"
        /\ UNCHANGED <<thread, owner, head, attempt, grants, cases, receipts, checkpoint,
                       marker, wire, before, request, held, memory, after, grant, reserved>>
    BY <1>1, <1>6 DEF Enter, Goto, RuntimeTypes, storeVars, localVars, CheckpointDB
  <2>2. Identity' /\ Fence' /\ Latest' = Latest /\ Latest \in Nat
    BY <2>1, SameRows, Sizes DEF Ready
  <2>3. Book'
    BY <1>1, <2>1, BookKept
  <2>4. Wire'
    <3>1. \A m \in wire : ~Current(m)'
      BY <1>4, <2>1 DEF Current
    <3>2. \A g \in grants' : g.head < Latest'
      BY <2>1, <2>2 DEF Ready, SerialInv, Wire
    <3>3. \A n \in wire' : \E m \in wire : /\ n.grant = m.grant /\ n.version = m.version
                                           /\ n.proc = m.proc /\ (n.awaited => m.awaited)
      BY <2>1
    <3> QED BY <1>1, <1>3, <2>1, <2>2, <3>1, <3>2, <3>3, WireKept
  <2>5. Place(p)'
    <3>1. checkpoint # None /\ memory[p] = checkpoint
          /\ request[p][2] \in Decisions(checkpoint.next)
      BY <1>3, <1>6, Sizes DEF AtItsInterrupt, Starting, Latest, Ready
    <3> QED BY <1>2, <1>3, <2>1, <2>2, <3>1
            DEF Place, OwnMarker, InClaim, InGraph, Executing
  <2> QED BY <1>1, <2>2, <2>3, <2>4, <2>5, WithPlace
<1> QED BY <1>5, <1>6

(* A node runs: an outcome that is unknown is not forgotten on the way to   *)
(* the human who is asked about it.                                         *)
LEMMA SerialRunNode ==
  ASSUME Ready, NEW p \in Procs, RunNode(p)
  PROVE  SerialInv'
<1>1. Own(p) /\ Book /\ Wire /\ InClaim(p) /\ pc[p] = "running"
  BY DEF Own, Proceed, Ready, SerialInv, RunNode, InClaim, InGraph
<1>2. head[Case] = before[p] /\ memory[p] = checkpoint /\ checkpoint # None
  BY <1>1, Claimed DEF Place, InGraph
<1>3. PICK e \in Edges : /\ e[1] = memory[p].next
                         /\ e[2] = "-" \/ (Answered(p) /\ e[2] = Decision(p))
                         /\ Save(p, e[3], memory[p].version, e[4])
  BY DEF RunNode
<1>4. UNCHANGED <<wire, faults>>
  BY DEF RunNode
<1>5. /\ e[1] # "execute_one_operation" /\ e[1] # "END"
      /\ e[4] = "escalated" => e[3] = "END"
      /\ e[1] \in Unknowns => e[3] \in Unknowns \/ e[4] = "escalated"
      /\ e[1] \in Unknowns /\ e[2] = "-" => e[3] = "write_recovery"
  BY DEF Edges, Unknowns
<1>6. \A m \in wire : Current(m) => /\ m.version = memory[p].version /\ e[3] \in Unknowns
                                    /\ e[3] # "execute_one_operation"
  <2> SUFFICES ASSUME NEW m \in wire, Current(m)
               PROVE  /\ m.version = memory[p].version /\ e[3] \in Unknowns
                      /\ e[3] # "execute_one_operation"
    OBVIOUS
  <2>1. checkpoint.version = m.version /\ checkpoint.next \in Unknowns /\ head[Case] # Latest
    BY NoneCurrent DEF Ready
  <2>2. ~Answered(p)
    BY <1>2, <2>1 DEF Answered, Latest
  <2> QED BY <1>2, <1>3, <1>5, <2>1, <2>2 DEF Unknowns
<1>7. \/ cases[Case].version = memory[p].version
      \/ /\ cases[Case].version = memory[p].version + 1
         /\ e[3] \in Unknowns \/ e[4] = "escalated"
  BY <1>1, <1>2, <1>3, <1>5 DEF Book
<1> QED BY <1>1, <1>3, <1>4, <1>5, <1>6, <1>7, SerialSave

(* The outcome of the write is recorded as what it was.                     *)
LEMMA SerialRecord ==
  ASSUME Ready, NEW p \in Procs, RecordOutcome(p)
  PROVE  SerialInv'
<1>1. /\ Own(p) /\ Book /\ Wire /\ InClaim(p)
      /\ pc[p] \in {"answered", "unknown", "blocked"}
      /\ UNCHANGED <<wire, faults>>
  BY DEF Own, Proceed, Ready, SerialInv, RecordOutcome, InClaim, InGraph, Executing
<1>2. /\ head[Case] = before[p] /\ memory[p] = checkpoint /\ checkpoint # None
      /\ checkpoint.next = "execute_one_operation"
  BY <1>1, Claimed DEF Place, InGraph, Executing
<1>3. /\ checkpoint.status # "escalated"
      /\ \/ cases[Case].version = memory[p].version
         \/ cases[Case].version = memory[p].version + 1
  BY <1>1, <1>2 DEF Book
<1>4. pc[p] \in {"answered", "blocked"} => \A m \in wire : ~Current(m)
  BY NoneCurrent DEF Ready, Unsent
<1>5. CASE /\ pc[p] = "answered" /\ ReceiptIsValid(p)
           /\ \E s \in AfterReceipt(memory[p].version) :
                Save(p, s[1], memory[p].version + 1, s[2])
  <2>1. PICK s \in AfterReceipt(memory[p].version) :
               Save(p, s[1], memory[p].version + 1, s[2])
    BY <1>5
  <2>2. s[2] # "escalated"
    BY DEF AfterReceipt
  <2>3. cases[Case].version = memory[p].version + 1
    BY <1>5 DEF ReceiptIsValid
  <2> QED BY <1>1, <1>4, <1>5, <2>1, <2>2, <2>3, SerialSave
<1>6. CASE Save(p, "prepare_write_recovery", memory[p].version, "active")
  <2>1. \A m \in wire : Current(m) => m.version = memory[p].version
    BY <1>2, NoneCurrent DEF Ready
  <2>2. "prepare_write_recovery" \in Unknowns
    BY DEF Unknowns
  <2> QED BY <1>1, <1>3, <1>6, <2>1, <2>2, SerialSave
<1>7. CASE pc[p] = "blocked" /\ Save(p, "END", memory[p].version, "blocked")
  <2>1. cases[Case].version = memory[p].version
    BY <1>1, <1>7 DEF Book
  <2> QED BY <1>1, <1>4, <1>7, <2>1, SerialSave
<1> QED BY <1>5, <1>6, <1>7 DEF RecordOutcome

(* The call reads the checkpoint it reached, given up or at its stop.       *)
LEMMA SerialRead ==
  ASSUME Ready, NEW p \in Procs, Own(p), InClaim(p),
         NEW label \in {"finishing", "unwinding"}, ReadAfter(p, label),
         UNCHANGED <<storeVars, marker>>,
         \/ checkpoint' = checkpoint
         \/ /\ checkpoint # None /\ checkpoint.next \in HumanNodes
            /\ checkpoint' = [checkpoint EXCEPT !.interrupted = TRUE],
         \/ Abandon(p)
         \/ pc[p] # "waiting" /\ UNCHANGED wire
  PROVE  SerialInv'
<1>1. RuntimeTypes /\ Identity /\ Fence /\ Book /\ Wire
  BY TypeHalves DEF Ready, TypeInv, SerialInv
<1>2. /\ pc'[p] = label /\ after'[p] = Latest
      /\ UNCHANGED <<thread, owner, head, attempt, grants, cases, receipts, before, request,
                     held, memory, grant, reserved>>
  BY <1>1 DEF ReadAfter, Goto, RuntimeTypes, storeVars
<1>3. OwnMarker(p) /\ attempt[Case] # None /\ thread[Case] = Thread /\ Place(p)
  BY Claimed
<1>4. /\ checkpoint' = None <=> checkpoint = None
      /\ checkpoint # None => /\ checkpoint'.id = checkpoint.id
                              /\ checkpoint'.version = checkpoint.version
                              /\ checkpoint'.next = checkpoint.next
                              /\ checkpoint'.status = checkpoint.status
                              /\ checkpoint'.interrupted =>
                                   checkpoint.interrupted \/ checkpoint.next \in HumanNodes
  <2>1. checkpoint # None => checkpoint \in Checkpoint
    BY <1>1 DEF RuntimeTypes
  <2>2. CASE checkpoint' = checkpoint
    BY <2>2
  <2>3. CASE /\ checkpoint # None /\ checkpoint.next \in HumanNodes
             /\ checkpoint' = [checkpoint EXCEPT !.interrupted = TRUE]
    <3>1. checkpoint' \in Checkpoint
      BY <2>1, <2>3 DEF Checkpoint
    <3> QED BY <2>1, <2>3, <3>1, NullAssumption DEF Checkpoint, NullAssumption
  <2> QED BY <2>2, <2>3
<1>5. Latest' = Latest /\ Latest \in Nat /\ (Latest = 0 <=> checkpoint = None)
  BY <1>4, Sizes DEF Latest, Ready
<1>6. thread[Case] # None
  BY <1>3, NullAssumption DEF NullAssumption
<1>7. Identity' /\ Fence'
  <2>1. marker # None /\ marker.head = Latest /\ marker.head # 0 => checkpoint # None
    BY <1>5
  <2> QED BY <1>1, <1>2, <1>4, <1>5, <1>6, <2>1
          DEF Identity, Fence, MarkedAttempt, Store!HoldsFence, Store!Owned
<1>8. Wire'
  <2>1. \A m \in wire : Current(m)' => /\ Current(m)
                                       /\ checkpoint'.version = m.version
                                       /\ checkpoint'.next \in Unknowns
                                       /\ ~Unsent(p)' /\ pc'[p] # "waiting"
    BY <1>2, <1>4, NoneCurrent DEF Ready, Current, Unsent
  <2>2. \A g \in grants' : g.head < Latest'
    BY <1>1, <1>2, <1>5 DEF Wire
  <2> QED BY <1>2, <1>5, <2>1, <2>2, OnTheWire, WireKept
<1>9. Book'
  BY <1>2, <1>4, BookKept
<1>10. Place(p)'
  BY <1>2, <1>3, <1>5 DEF Place, OwnMarker, InClaim, InGraph, Executing
<1> QED BY <1>7, <1>8, <1>9, <1>10, WithPlace

(* The graph stops, the second look fails, or a fault ends the run.         *)
LEMMA SerialStop ==
  ASSUME Ready, NEW p \in Procs, Stop(p) \/ CheckpointMoved(p) \/ Abort(p)
  PROVE  SerialInv'
<1>1. Own(p) /\ InClaim(p)
  BY DEF Own, Proceed, Stop, CheckpointMoved, Abort, InClaim, InGraph
<1>2. CASE Stop(p)
  <2>1. pc[p] = "running" /\ checkpoint # None /\ memory[p] = checkpoint
    BY <1>1, <1>2, Claimed DEF Stop, Place, InGraph
  <2>2. ReadAfter(p, "finishing") /\ UNCHANGED <<storeVars, marker, wire>>
    BY <1>2 DEF Stop
  <2>3. \/ checkpoint' = checkpoint
        \/ /\ checkpoint.next \in HumanNodes
           /\ checkpoint' = [checkpoint EXCEPT !.interrupted = TRUE]
    BY <1>2, <2>1 DEF Stop
  <2> QED BY <1>1, <2>1, <2>2, <2>3, SerialRead
<1>3. CASE CheckpointMoved(p)
  BY <1>1, <1>3, SerialRead DEF CheckpointMoved, CheckpointDB
<1>4. CASE Abort(p)
  BY <1>1, <1>4, SerialRead DEF Abort, CheckpointDB
<1> QED BY <1>2, <1>3, <1>4

(* The attempt is closed at the checkpoint that was reached.                *)
LEMMA SerialFinish ==
  ASSUME Ready, NEW p \in Procs, Finish(p) \/ Unwind(p)
  PROVE  SerialInv'
<1>1. /\ Own(p) /\ InClaim(p) /\ RuntimeTypes /\ Store!TypeOK /\ Identity /\ Fence
      /\ pc[p] \in {"finishing", "unwinding"}
  BY TypeHalves DEF Own, Proceed, Ready, TypeInv, SerialInv, Finish, Unwind, InClaim
<1>2. /\ OwnMarker(p) /\ attempt[Case] # None /\ thread[Case] = Thread /\ HoldsFence(p)
      /\ Place(p)
  BY <1>1, Claimed
<1>3. after[p] = Latest
  BY <1>1, <1>2 DEF Place
<1>4. /\ \A h : ~AlreadyAt(h)
      /\ Advanced(p) => Store!CloseAttempt(Case, after[p])
  BY <1>2 DEF AlreadyAt, Store!AlreadyAt, Advanced, Store!AdvanceWorkflowMutation
<1>5. Store!CloseAttempt(Case, after[p]) /\ Goto(p, "clearing") /\ UNCHANGED localVars
  BY <1>2, <1>4 DEF Finish, Unwind, Store!ReleaseWorkflowMutation
<1>6. /\ head'[Case] = Latest /\ attempt'[Case] = None /\ pc'[p] = "clearing"
      /\ UNCHANGED <<thread, owner, grants, cases, receipts, checkpoint, marker, wire,
                     before, request, held, memory, after, grant, reserved>>
  BY <1>1, <1>3, <1>5, FenceEffects
     DEF Goto, RuntimeTypes, localVars, Finish, Unwind, CheckpointDB
<1>7. Latest' = Latest /\ Latest \in Nat /\ thread[Case] # None
  BY <1>2, <1>6, Sizes, NullAssumption DEF Latest, Ready, NullAssumption
<1>8. Identity' /\ Fence'
  BY <1>1, <1>6, <1>7 DEF Identity, Fence
<1>9. Wire' /\ Book'
  BY <1>1, <1>6, QuietStep
<1>10. Place(p)'
  BY <1>2, <1>3, <1>6, <1>7 DEF Place, OwnMarker, InClaim, InGraph, Executing
<1> QED BY <1>1, <1>8, <1>9, <1>10, WithPlace

(* The one write of a call: its grant carries the head the call started     *)
(* from, which the checkpoint has passed, so that no grant of an earlier    *)
(* call is good at a later head.                                            *)
LEMMA SerialGrant ==
  ASSUME Ready, NEW p \in Procs, IssueGrant(p)
  PROVE  SerialInv'
<1>1. /\ Own(p) /\ InClaim(p) /\ RuntimeTypes /\ Fence /\ Wire /\ pc[p] = "running"
      /\ memory[p].next = "execute_one_operation"
  BY TypeHalves DEF Own, Proceed, Ready, TypeInv, SerialInv, IssueGrant, InClaim, InGraph
<1>2. /\ OwnMarker(p) /\ attempt[Case] # None /\ thread[Case] = Thread
      /\ head[Case] = before[p] /\ before[p] <= Latest /\ Place(p)
  BY <1>1, Claimed
<1>3. Latest \in Nat /\ before[p] \in Nat
  BY Sizes DEF Ready
<1>4. checkpoint # None /\ memory[p] = checkpoint /\ before[p] < Latest
  <2>1. Decisions("execute_one_operation") = {}
    BY DEF Decisions, Edges
  <2> QED BY <1>1, <1>2, <1>3, <2>1 DEF Place, InGraph
<1>5. /\ pc'[p] \in {"granted", "unknown"}
      /\ UNCHANGED <<thread, owner, head, attempt, cases, receipts, checkpoint, marker, wire,
                     before, request, held, memory, after, reserved>>
  BY <1>1
     DEF IssueGrant, Goto, RuntimeTypes, storeVars, CheckpointDB,
         Store!IssueWorkflowExecutionGrant, Store!identityVars
<1>6. /\ \A g \in grants' : g.head < Latest
      /\ pc'[p] = "granted" => grant'[p].head < Latest
  <2> DEFINE v == memory[p].version
             exec == ExecutionOf(p)
             binding == Store!GrantBinding(Case, Thread, exec, WriteAt(v), v)
             reusable == Store!ReusableGrants(Case, Thread, Owner, exec, WriteAt(v), v)
  <2>1. binding.head = before[p]
    BY <1>2 DEF Store!GrantBinding
  <2>2. reusable \subseteq grants
    BY DEF Store!ReusableGrants, Store!GrantsFor
  <2>3. \/ grants' = grants \cup {binding} /\ grant' = [grant EXCEPT ![p] = binding]
        \/ grants' = grants /\ \E g \in reusable : grant' = [grant EXCEPT ![p] = g]
        \/ grants' = grants /\ pc' = [pc EXCEPT ![p] = "unknown"]
    BY DEF IssueGrant, Goto, storeVars, Store!IssueWorkflowExecutionGrant
  <2>4. \A g \in grants : g.head < Latest
    BY <1>1 DEF Wire
  <2> HIDE DEF binding, reusable
  <2> QED BY <1>1, <1>4, <2>1, <2>2, <2>3, <2>4 DEF RuntimeTypes
<1>7. Identity' /\ Fence' /\ Latest' = Latest
  BY <1>5, SameRows
<1>8. Book'
  BY <1>1, <1>5, BookKept
<1>9. Wire'
  <2>1. \A m \in wire : ~Current(m)'
    BY <1>1, <1>5, NoneCurrent DEF Ready, Current, Unsent
  <2>2. \A n \in wire' : \E m \in wire : /\ n.grant = m.grant /\ n.version = m.version
                                         /\ n.proc = m.proc /\ (n.awaited => m.awaited)
    BY <1>5
  <2> QED BY <1>1, <1>3, <1>5, <1>6, <1>7, <2>1, <2>2, WireKept
<1>10. Place(p)'
  BY <1>1, <1>2, <1>4, <1>5, <1>7 DEF Place, OwnMarker, InClaim, InGraph, Executing
<1> QED BY <1>1, <1>7, <1>8, <1>9, <1>10, WithPlace

(* A write is sent under the grant of the claimed call, for the action its  *)
(* checkpoint is at.                                                        *)
LEMMA SerialSend ==
  ASSUME Ready, NEW p \in Procs, SendWrite(p)
  PROVE  SerialInv'
<1> DEFINE sent == [proc |-> p, awaited |-> TRUE, version |-> memory[p].version,
                    grant |-> grant[p]]
<1>1. /\ Own(p) /\ InClaim(p) /\ RuntimeTypes /\ Wire /\ pc[p] = "granted"
      /\ Awaited
  BY TypeHalves
     DEF Own, Proceed, Ready, TypeInv, SerialInv, SendWrite, InClaim, InGraph, Executing
<1>2. /\ OwnMarker(p) /\ attempt[Case] # None /\ thread[Case] = Thread /\ Place(p)
      /\ memory[p] = checkpoint /\ checkpoint # None
      /\ checkpoint.next = "execute_one_operation"
      /\ Latest = before[p] => request[p][2] \in Decisions(checkpoint.next)
  BY <1>1, Claimed DEF Place, InGraph, Executing
<1>3. /\ pc'[p] = "waiting" /\ wire' = wire \cup {sent}
      /\ UNCHANGED <<thread, owner, head, attempt, grants, cases, receipts, checkpoint, marker,
                     before, request, held, memory, after, grant, reserved>>
  BY <1>1 DEF SendWrite, Goto, RuntimeTypes, storeVars, CheckpointDB, localVars
<1>4. Identity' /\ Fence' /\ Latest' = Latest
  BY <1>3, SameRows
<1>5. Book'
  BY <1>1, <1>3, BookKept
<1>6. \A q \in Procs \ {p} : pc[q] = "idle" /\ pc'[q] = "idle"
  BY <1>1, Alone, OthersStay
<1>7. Wire'
  <2>1. \A g \in grants' : g.head < Latest'
    BY <1>1, <1>3, <1>4 DEF Wire
  <2>2. \A q \in Procs : pc'[q] # "granted" /\ ~Unsent(q)'
    BY <1>3, <1>6 DEF Unsent
  <2>3. grant[p].head < Latest /\ \A m \in wire : m.grant.head < Latest
    BY <1>1 DEF Wire
  <2>4. \A m \in wire : ~Current(m)'
    BY <1>1, <1>3, NoneCurrent DEF Ready, Current, Unsent
  <2>5. \A m \in wire : ~m.awaited
    <3> SUFFICES ASSUME NEW m \in wire, m.awaited PROVE FALSE
      OBVIOUS
    <3>1. pc[m.proc] = "waiting" /\ m.proc \in Procs
      BY <1>1, Sizes DEF Awaited, Ready
    <3> QED BY <1>1, <1>6, <3>1
  <2>6. \A m \in wire' : m.grant.head < Latest'
    BY <1>3, <1>4, <2>3
  <2>7. ASSUME NEW m \in wire', Current(m)'
        PROVE  /\ checkpoint'.version = m.version /\ checkpoint'.next \in Unknowns
               /\ m.awaited
    <3>1. m = sent
      BY <1>3, <2>4, <2>7
    <3> QED BY <1>2, <1>3, <3>1 DEF Unknowns
  <2>8. \A m \in wire' : m.awaited => m.version = memory'[m.proc].version
    BY <1>3, <2>5
  <2> HIDE DEF sent
  <2> QED BY <2>1, <2>2, <2>6, <2>7, <2>8 DEF Wire
<1>8. Place(p)'
  <2>1. OwnMarker(p)' /\ attempt'[Case] # None
    BY <1>2, <1>3 DEF OwnMarker
  <2>2. /\ before'[p] = 0 => request'[p] = <<0, "start">>
        /\ before'[p] # 0 => request'[p][1] = before'[p]
        /\ reserved'[p] => before'[p] = 0
    BY <1>2, <1>3 DEF Place
  <2> QED BY <1>2, <1>3, <1>4, <2>1, <2>2 DEF Place, InClaim, InGraph, Executing
<1> QED BY <1>1, <1>4, <1>5, <1>7, <1>8, WithPlace

(* The answer of a write is lost: the request may still be on the wire, and *)
(* the graph goes on to the node that knows the outcome is open.            *)
LEMMA SerialLose ==
  ASSUME Ready, NEW p \in Procs, LoseAnswer(p)
  PROVE  SerialInv'
<1>1. Own(p) /\ InClaim(p) /\ RuntimeTypes /\ Wire /\ pc[p] = "waiting"
  BY TypeHalves
     DEF Own, Ready, TypeInv, SerialInv, LoseAnswer, InClaim, InGraph, Executing
<1>2. /\ OwnMarker(p) /\ attempt[Case] # None /\ thread[Case] = Thread /\ Place(p)
      /\ memory[p] = checkpoint /\ checkpoint # None
      /\ checkpoint.next = "execute_one_operation"
      /\ Latest = before[p] => request[p][2] \in Decisions(checkpoint.next)
  BY <1>1, Claimed DEF Place, InGraph, Executing
<1>3. /\ pc'[p] = "unknown" /\ Abandon(p)
      /\ UNCHANGED <<thread, owner, head, attempt, grants, cases, receipts, checkpoint, marker,
                     before, request, held, memory, after, grant, reserved>>
  BY <1>1 DEF LoseAnswer, Goto, RuntimeTypes, storeVars, CheckpointDB, localVars
<1>4. Identity' /\ Fence' /\ Latest' = Latest /\ Latest \in Nat
  BY <1>3, SameRows, Sizes DEF Ready
<1>5. Book'
  BY <1>1, <1>3, BookKept
<1>6. \A m \in wire : Current(m)' => /\ Current(m)
                                     /\ checkpoint'.version = m.version
                                     /\ checkpoint'.next \in Unknowns
                                     /\ ~Unsent(p)' /\ pc'[p] # "waiting"
  BY <1>3, NoneCurrent DEF Ready, Current, Unsent
<1>7. \A g \in grants' : g.head < Latest'
  BY <1>1, <1>3, <1>4 DEF Wire
<1>8. Wire'
  BY <1>1, <1>3, <1>4, <1>6, <1>7, OnTheWire, WireKept
<1>9. Place(p)'
  <2>1. OwnMarker(p)' /\ attempt'[Case] # None
    BY <1>2, <1>3 DEF OwnMarker
  <2>2. /\ before'[p] = 0 => request'[p] = <<0, "start">>
        /\ before'[p] # 0 => request'[p][1] = before'[p]
        /\ reserved'[p] => before'[p] = 0
    BY <1>2, <1>3 DEF Place
  <2> QED BY <1>2, <1>3, <1>4, <2>1, <2>2 DEF Place, InClaim, InGraph, Executing
<1> QED BY <1>1, <1>4, <1>5, <1>8, <1>9, WithPlace

(* The server takes a request: it changes the case only for the attempt of  *)
(* the moment, whose checkpoint knows that the outcome is open.             *)
LEMMA SerialServer ==
  ASSUME Ready, NEW m \in wire, ServerWrite(m)
  PROVE  SerialInv'
<1>1. RuntimeTypes /\ Store!TypeOK /\ Identity /\ Fence /\ Wire /\ Book /\ Awaited
      /\ \A p \in Procs : Place(p)
  BY TypeHalves DEF Ready, TypeInv, SerialInv
<1>2. m \in Message /\ m.proc \in Procs /\ (m.awaited => pc[m.proc] = "waiting")
  BY <1>1, Sizes DEF Ready, Awaited
<1>3. /\ wire' = wire \ {m}
      /\ UNCHANGED <<thread, owner, head, attempt, checkpoint, marker, before, request, held,
                     memory, after, grant, reserved>>
  BY DEF ServerWrite, storeVars, Store!Write, Store!identityVars, CheckpointDB, localVars
<1>4. \A g \in grants' : \E f \in grants : g.head = f.head
  <2>1. CASE grants' = grants
    BY <2>1
  <2>2. CASE Store!Write(WriteAt(m.version), m.version, m.grant)
    <3>1. m.grant \in grants
      BY <2>2 DEF Store!Write, Store!MayWrite, Store!Consumable
    <3>2. [m.grant EXCEPT !.consumed = TRUE].head = m.grant.head
      BY <1>2 DEF Message, Store!Grant
    <3> QED BY <2>2, <3>1, <3>2 DEF Store!Write
  <2> QED BY <2>1, <2>2 DEF ServerWrite, storeVars
<1>5. \A q \in Procs :
        \/ pc'[q] = pc[q]
        \/ /\ m.awaited /\ q = m.proc /\ pc[q] = "waiting"
           /\ pc'[q] \in {"answered", "unknown", "blocked"}
  BY <1>1, <1>2 DEF ServerWrite, Reply, RuntimeTypes
<1>6. Identity' /\ Fence' /\ Latest' = Latest
  BY <1>3, SameRows
<1>7. ASSUME NEW q \in Procs PROVE Place(q)'
  <2>1. CASE pc'[q] = pc[q]
    BY <1>1, <1>3, <1>6, <2>1
       DEF Place, OwnMarker, AtItsInterrupt, InClaim, InGraph, Executing
  <2>2. CASE pc[q] = "waiting" /\ pc'[q] \in {"answered", "unknown", "blocked"}
    <3>1. /\ OwnMarker(q) /\ attempt[Case] # None /\ checkpoint # None /\ memory[q] = checkpoint
          /\ Latest = before[q] => request[q][2] \in Decisions(checkpoint.next)
          /\ checkpoint.next = "execute_one_operation"
          /\ before[q] = 0 => request[q] = <<0, "start">>
          /\ before[q] # 0 => request[q][1] = before[q]
          /\ reserved[q] => before[q] = 0
          /\ thread[Case] = Thread
      BY <1>1, <2>2 DEF Place, InClaim, InGraph, Executing
    <3>2. OwnMarker(q)'
      BY <1>3, <3>1 DEF OwnMarker
    <3> QED BY <1>3, <1>6, <2>2, <3>1, <3>2 DEF Place, InClaim, InGraph, Executing
  <2> QED BY <1>5, <2>1, <2>2
<1>8. Wire'
  <2>1. \A g \in grants' : g.head < Latest'
    BY <1>1, <1>4, <1>6 DEF Wire
  <2>2. \A q \in Procs : pc'[q] = "granted" => grant'[q].head < Latest'
    BY <1>1, <1>3, <1>5, <1>6 DEF Wire
  <2>3. /\ \A n \in wire' : n.grant.head < Latest'
        /\ \A n \in wire' : n.awaited => n.version = memory'[n.proc].version
    BY <1>1, <1>3, <1>6 DEF Wire
  <2>4. ASSUME NEW n \in wire', Current(n)'
        PROVE  /\ checkpoint'.version = n.version /\ checkpoint'.next \in Unknowns
               /\ \A q \in Procs : ~Unsent(q)' /\ (pc'[q] = "waiting" => n.awaited)
    <3>1. n \in wire /\ n # m /\ Current(n)
      BY <1>3, <2>4 DEF Current
    <3>2. /\ checkpoint.version = n.version /\ checkpoint.next \in Unknowns
          /\ \A q \in Procs : ~Unsent(q) /\ (pc[q] = "waiting" => n.awaited)
      BY <1>1, <3>1 DEF Wire
    <3>3. ASSUME NEW q \in Procs PROVE pc'[q] = pc[q] \/ pc'[q] = "unknown"
      <4> SUFFICES ASSUME m.awaited, q = m.proc, pc[q] = "waiting" PROVE FALSE
        BY <1>5
      <4>1. n.awaited /\ n.proc \in Procs
        BY <3>1, <3>2, Sizes DEF Ready
      <4>2. pc[n.proc] = "waiting"
        BY <1>1, <3>1, <4>1 DEF Awaited
      <4>3. n.proc = m.proc
        BY <1>2, <4>1, <4>2 DEF Ready, OneCallAtATime
      <4> QED BY <1>1, <3>1, <4>1, <4>3 DEF Awaited
    <3> QED BY <1>3, <3>2, <3>3 DEF Unsent
  <2> QED BY <2>1, <2>2, <2>3, <2>4 DEF Wire
<1>9. CASE UNCHANGED <<cases, receipts>>
  <2>1. ASSUME NEW q \in Procs, pc'[q] = "blocked"
        PROVE  cases[Case].version = memory[q].version
    <3>1. CASE pc[q] = "blocked"
      BY <1>1, <3>1 DEF Book
    <3>2. CASE pc[q] # "blocked"
      <4>1. m.awaited /\ q = m.proc /\ pc[q] = "waiting"
        BY <1>5, <2>1, <3>2
      <4>2. ~Store!Replays(WriteAt(m.version), m.version)
        BY <1>1, <2>1, <4>1 DEF ServerWrite, Reply, RuntimeTypes
      <4>3. m.version = memory[q].version /\ memory[q] = checkpoint /\ checkpoint # None
        BY <1>1, <4>1 DEF Wire, Place, InGraph, Executing
      <4>4. m.version \in 0 .. Writes - 1
        BY <1>2 DEF Message
      <4> QED BY <1>1, <4>2, <4>3, <4>4 DEF Book
    <3> QED BY <3>1, <3>2
  <2> QED BY <1>1, <1>3, <1>6, <1>7, <1>8, <1>9, <2>1
          DEF SerialInv, Book, Store!Replays, Store!ReceiptsFor
<1>10. CASE Lands(m)
  <2>1. Current(m)
    <3>1. m.grant.case = Case
      BY <1>2 DEF Message, Store!Grant
    <3> QED BY <1>10, <3>1 DEF Lands, Store!GrantAttached, Current
  <2>2. /\ checkpoint # None /\ checkpoint.version = m.version
        /\ checkpoint.next \in Unknowns /\ \A q \in Procs : pc[q] # "blocked"
    BY <2>1, NoneCurrent DEF Ready, Unsent
  <2>3. \A q \in Procs : pc'[q] # "blocked"
    BY <1>1, <1>10, <2>2 DEF Lands, Reply, RuntimeTypes
  <2>4. /\ cases[Case].version = m.version /\ cases'[Case].version = m.version + 1
        /\ m.version \in Nat
        /\ receipts' = receipts \cup
             {[key |-> m.version, write |-> WriteAt(m.version), legacy |-> FALSE]}
    BY <1>2, <1>10 DEF Lands, CaseVersion, Message
  <2>5. ASSUME NEW v \in 0 .. Writes - 1, v < cases'[Case].version
        PROVE  Store!Replays(WriteAt(v), v)'
    <3>1. CASE v = m.version
      <4> DEFINE r == [key |-> v, write |-> WriteAt(v), legacy |-> FALSE]
      <4>1. r.key = v /\ r.write = WriteAt(v) /\ r.legacy = FALSE
        OBVIOUS
      <4>2. r \in receipts'
        BY <2>4, <3>1
      <4> HIDE DEF r
      <4> QED BY <4>1, <4>2 DEF Store!Replays, Store!ReceiptsFor
    <3>2. CASE v < m.version
      BY <1>1, <2>4, <3>2 DEF Book, Store!Replays, Store!ReceiptsFor
    <3> QED BY <2>4, <2>5, <3>1, <3>2
  <2>6. Book'
    BY <1>1, <1>3, <2>2, <2>3, <2>4, <2>5 DEF Book
  <2> QED BY <1>6, <1>7, <1>8, <2>6 DEF SerialInv
<1> QED BY <1>9, <1>10, ServerStep DEF Ready

(* A lease that runs out takes no attempt away.                             *)
LEMMA SerialLease ==
  ASSUME Ready, LeaseExpires
  PROVE  SerialInv'
<1>1. Store!TypeOK /\ Store!TypeOK' /\ Identity /\ Fence /\ Wire /\ Book
      /\ \A p \in Procs : Place(p)
  BY DEF Ready, TypeInv, TypeOK, SerialInv
<1>2. /\ attempt[Case] # None /\ attempt' = [attempt EXCEPT ![Case].live = FALSE]
      /\ UNCHANGED <<thread, owner, head, grants, cases, receipts, checkpoint, marker, wire,
                     pc, before, request, held, memory, after, grant, reserved>>
  BY DEF LeaseExpires, Store!LeaseExpires, Store!FenceColumns, CheckpointDB, localVars
<1>3. /\ attempt'[Case] # None
      /\ attempt'[Case].token = attempt[Case].token
      /\ attempt'[Case].expected = attempt[Case].expected
      /\ attempt'[Case].request = attempt[Case].request
  <2>1. attempt[Case] \in Store!Attempt
    BY <1>1, <1>2 DEF Store!TypeOK
  <2>2. attempt'[Case] = [attempt[Case] EXCEPT !.live = FALSE]
    BY <1>1, <1>2 DEF Store!TypeOK
  <2>3. attempt'[Case] \in Store!Attempt
    BY <2>1, <2>2 DEF Store!Attempt
  <2> QED BY <2>1, <2>2, <2>3, NullAssumption DEF Store!Attempt, NullAssumption
<1>4. Latest' = Latest
  BY <1>2 DEF Latest
<1>5. Identity' /\ Fence'
  BY <1>1, <1>2, <1>3, <1>4
     DEF Identity, Fence, MarkedAttempt, Store!HoldsFence, Store!Owned
<1>6. Wire' /\ Book'
  BY <1>1, <1>2, <1>3, <1>4
     DEF Wire, Book, Current, Unsent, Store!Replays, Store!ReceiptsFor
<1>7. ASSUME NEW p \in Procs PROVE Place(p)'
  <2>1. Place(p)
    BY <1>1
  <2> QED BY <1>2, <1>3, <1>4, <2>1
          DEF Place, OwnMarker, AtItsInterrupt, InClaim, InGraph, Executing
<1> QED BY <1>5, <1>6, <1>7 DEF SerialInv

(* At the start there is no row, no checkpoint and no request.              *)
LEMMA InitSerial == Init => SerialInv
<1> SUFFICES ASSUME Init PROVE SerialInv
  OBVIOUS
<1>1. /\ thread[Case] = None /\ owner[Case] = None /\ head[Case] = None
      /\ attempt[Case] = None /\ grants = {} /\ cases[Case].version = 0
      /\ checkpoint = None /\ marker = None /\ wire = {}
      /\ \A p \in Procs : /\ pc[p] = "idle" /\ before[p] = 0 /\ request[p] = <<0, "start">>
                          /\ reserved[p] = FALSE
  BY DEF Init, Store!Init, Store!LegacyRow
<1>2. Identity /\ Fence
  BY <1>1 DEF Identity, Fence
<1>3. Wire
  BY <1>1 DEF Wire
<1>4. Book
  BY <1>1, RuntimeAssumption DEF Book, RuntimeAssumption
<1>5. \A p \in Procs : Place(p)
  BY <1>1 DEF Place, InClaim, InGraph, Executing
<1> QED BY <1>2, <1>3, <1>4, <1>5 DEF SerialInv

(* What holds of two databases, the calls and the requests on the wire as   *)
(* long as no call begins before the last one returned or died.             *)
LEMMA NextSerial ==
  TypeInv /\ TypeInv' /\ SerialInv /\ OneCallAtATime /\ OneCallAtATime' /\ [Next]_vars
    => SerialInv'
<1> SUFFICES ASSUME Ready, [Next]_vars PROVE SerialInv'
  BY DEF Ready
<1>1. ASSUME NEW p \in Procs, Own(p) PROVE SerialInv'
  BY <1>1, SerialBegin, SerialRecover, SerialClaim, SerialRefused, SerialClear, SerialEnter,
     SerialRunNode, SerialRecord, SerialStop, SerialFinish, SerialGrant, SerialSend, SerialLose
     DEF Own, Proceed
<1>2. ASSUME UNCHANGED vars PROVE SerialInv'
  <2>1. UNCHANGED <<thread, owner, head, attempt, grants, cases, receipts, checkpoint, marker,
                    wire, pc, before, request, held, memory, after, grant, reserved>>
    BY <1>2 DEF vars, storeVars, localVars
  <2>2. Identity' /\ Fence' /\ Latest' = Latest
    BY <2>1, SameRows
  <2>3. Wire' /\ Book'
    BY <2>1, <2>2
       DEF Ready, SerialInv, Wire, Book, Current, Unsent, Store!Replays, Store!ReceiptsFor
  <2>4. ASSUME NEW p \in Procs PROVE Place(p)'
    <3>1. Place(p)
      BY DEF Ready, SerialInv
    <3> QED BY <2>1, <2>2, <3>1
            DEF Place, OwnMarker, AtItsInterrupt, InClaim, InGraph, Executing
  <2> QED BY <2>2, <2>3, <2>4 DEF SerialInv
<1> QED BY <1>1, <1>2, SerialServer, SerialLease DEF Next, Own

\* What the theorems below have in common.
LEMMA SerialCorrect == Spec /\ []OneCallAtATime => [](TypeInv /\ SerialInv)
BY InitTypeInv, NextTypeInv, InitSerial, NextSerial, PTL DEF Spec

(* A write that happened is in the checkpoint, or the checkpoint is at a    *)
(* node that knows its outcome is unknown, or was escalated: a case a human *)
(* rejected has no effect the checkpoint is unaware of.                     *)
THEOREM SerialRecorded == Spec /\ []OneCallAtATime => []RecordedOrUnknown
<1>1. TypeInv /\ SerialInv => RecordedOrUnknown
  BY DEF SerialInv, Book, Unknowns, RecordedOrUnknown
<1> QED BY <1>1, SerialCorrect, PTL

\* Every node that asks a human takes an answer.
LEMMA HumansDecide == \A node \in HumanNodes : \E d : d \in Decisions(node)
<1> DEFINE review == <<"action_review", "approve", "prepare_execution_confirmation", "active">>
           confirmation == <<"execution_confirmation", "cancel", "END", "open">>
           recovery == <<"write_recovery", "escalate", "END", "escalated">>
<1>1. review \in Edges /\ confirmation \in Edges /\ recovery \in Edges
  BY DEF Edges
<1>2. review[2] \in Decisions("action_review")
  BY <1>1 DEF Decisions
<1>3. confirmation[2] \in Decisions("execution_confirmation")
  BY <1>1 DEF Decisions
<1>4. recovery[2] \in Decisions("write_recovery")
  BY <1>1 DEF Decisions
<1> QED BY <1>2, <1>3, <1>4 DEF HumanNodes

(* Whatever crash, cancellation or late answer came between: a pending      *)
(* interrupt can be answered, and a start without a checkpoint repeated.    *)
THEOREM SerialNotLockedOut == Spec /\ []OneCallAtATime => []NeverLockedOut
<1>1. TypeInv /\ SerialInv => NeverLockedOut
  <2> SUFFICES ASSUME TypeInv, SerialInv PROVE NeverLockedOut
    OBVIOUS
  <2>1. RuntimeTypes /\ Store!TypeOK /\ Identity /\ Fence /\ Book
    BY TypeHalves DEF TypeInv, SerialInv
  <2>2. CASE checkpoint # None /\ checkpoint.interrupted
    <3> DEFINE id == checkpoint.id
    <3>1. thread[Case] = Thread /\ thread[Case] # None /\ Latest = id /\ id # 0
      BY <2>1, <2>2, Sizes DEF Identity, Store!TypeOK
    <3>2. checkpoint.next \in HumanNodes
      BY <2>1, <2>2 DEF Book
    <3>3. \E d \in Decisions(checkpoint.next) : Accepts(id, <<id, d>>)
      <4>1. CASE marker = None
        <5>1. \A d : Accepts(id, <<id, d>>)
          BY <2>1, <3>1, <4>1 DEF Accepts, FreeAt, Fence
        <5> QED BY <3>2, <5>1, HumansDecide
      <4>2. CASE marker # None /\ marker.head # id
        <5>1. \A d : Accepts(id, <<id, d>>)
          BY <2>1, <3>1, <4>2 DEF Accepts, FreeAt, Fence
        <5> QED BY <3>2, <5>1, HumansDecide
      <4>3. CASE marker # None /\ marker.head = id
        <5>1. marker.request \in Requests
          BY <2>1, <4>3 DEF RuntimeTypes, Marker
        <5>2. marker.request[1] = id /\ marker.request[2] \in Decisions(checkpoint.next)
          BY <2>1, <3>1, <4>3 DEF Fence
        <5>3. marker.request = <<id, marker.request[2]>>
          BY <5>1, <5>2 DEF Requests
        <5>4. head[Case] = id /\ (attempt[Case] = None \/ MarkedAttempt)
          BY <2>1, <3>1, <4>3 DEF Fence
        <5> QED BY <4>3, <5>2, <5>3, <5>4 DEF Accepts
      <4> QED BY <4>1, <4>2, <4>3
    <3> QED BY <2>2, <3>1, <3>3 DEF NeverLockedOut
  <2>3. ASSUME checkpoint = None, thread[Case] # None PROVE Accepts(0, <<0, "start">>)
    <3>1. Latest = 0
      BY <2>3 DEF Latest
    <3>2. marker # None => marker.head = 0
      BY <2>1, <3>1, Sizes DEF Fence
    <3> QED BY <2>1, <2>3, <3>1, <3>2 DEF Accepts, FreeAt, Fence
  <2> QED BY <2>2, <2>3 DEF NeverLockedOut
<1> QED BY <1>1, SerialCorrect, PTL

\* A write that lands is one of the attempt of the moment.
LEMMA LandsIsCurrent ==
  ASSUME TypeInv, NEW m \in wire, Lands(m)
  PROVE  Current(m)
<1>1. m.grant.case = Case
  BY Sizes DEF Message, Store!Grant
<1> QED BY <1>1 DEF Lands, Store!GrantAttached, Current

(* The case stands still while no call is under way and none has left its   *)
(* marker: a write whose answer was lost cannot happen then.                *)
THEOREM SerialCasesStayPut == Spec /\ []OneCallAtATime => SettledCasesStayPut
<1>1. TypeInv /\ SerialInv /\ [Next]_vars => [Settled /\ Settled' => cases' = cases]_vars
  <2> SUFFICES ASSUME TypeInv, SerialInv, Next, Settled PROVE cases' = cases
    OBVIOUS
  <2>1. attempt[Case] = None
    BY DEF SerialInv, Fence, Settled
  <2> QED BY <2>1, CaseStep, LandsIsCurrent DEF Current
<1> QED BY <1>1, SerialCorrect, PTL DEF Spec, SettledCasesStayPut

(* When the workflow has ended no request on its way to the server changes  *)
(* the case.                                                                *)
THEOREM SerialEndsStayPut == Spec /\ []OneCallAtATime => EndedCasesStayPut
<1>1. TypeInv /\ SerialInv /\ [Next]_vars =>
        [checkpoint # None /\ checkpoint.next = "END" /\ checkpoint' = checkpoint
           => cases' = cases]_vars
  <2> SUFFICES ASSUME TypeInv, SerialInv, Next, checkpoint # None, checkpoint.next = "END"
               PROVE  cases' = cases
    OBVIOUS
  <2> QED BY CaseStep, LandsIsCurrent, NoneCurrent DEF Unknowns
<1> QED BY <1>1, SerialCorrect, PTL DEF Spec, EndedCasesStayPut

(* A resume never moves the head of Operations back: the attempt it closes  *)
(* or recovers is behind the checkpoint it has read.                        *)
LEMMA HeadStep ==
  ASSUME TypeInv, SerialInv, Next, head[Case] # None, head'[Case] # None
  PROVE  head[Case] <= head'[Case]
<1>1. RuntimeTypes /\ Store!TypeOK /\ Identity /\ Fence /\ (\A p \in Procs : Place(p))
      /\ Latest \in Nat /\ head[Case] \in Nat /\ thread[Case] # None
  BY TypeHalves, Sizes DEF TypeInv, SerialInv, Identity
<1>2. head'[Case] = head[Case] => head[Case] <= head'[Case]
  BY <1>1
<1>3. ASSUME NEW p \in Procs, Own(p) PROVE head[Case] <= head'[Case]
  <2>1. CASE \/ StartCase(p) \/ LoadMarker(p) \/ ClearStaleMarker(p) \/ PrepareMarker(p)
             \/ RefuseEarly(p) \/ Enter(p) \/ CheckpointMoved(p) \/ RunNode(p) \/ Stop(p)
             \/ SendWrite(p) \/ RecordOutcome(p) \/ UnwindRefused(p) \/ ClearMarker(p)
             \/ LoseAnswer(p) \/ Abort(p) \/ Crash(p)
    BY <1>2, <2>1, OtherDatabase DEF storeVars
  <2>2. CASE ReserveIdentity(p) \/ ReleaseIdentity(p) \/ \E d \in AllDecisions : ResumeCase(p, d)
    BY <1>1, <1>2, <2>2
       DEF ReserveIdentity, ReleaseIdentity, ResumeCase, Store!ReserveWorkflowIdentity,
           Store!ReleaseWorkflowIdentity, Store!ValidateOrClaimWorkflowIdentity,
           Store!TypeOK, storeVars
  <2>3. CASE RecoverFence(p)
    <3>1. Store!CloseAttempt(Case, before[p]) \/ UNCHANGED storeVars
      BY <2>3 DEF RecoverFence, Store!RecoverWorkflowMutation
    <3>2. Store!CloseAttempt(Case, before[p]) => head[Case] <= before[p]
      <4>1. held[p] = marker /\ marker # None /\ before[p] = Latest
        BY <1>1, <2>3 DEF RecoverFence, Place, AtItsInterrupt
      <4>2. head[Case] = before[p] \/ head[Case] = marker.head
        BY <2>3, <4>1
           DEF RecoverFence, Store!RecoverWorkflowMutation, Store!HoldsFence,
               AlreadyAt, Store!AlreadyAt
      <4> QED BY <1>1, <4>1, <4>2 DEF Fence
    <3> QED BY <1>1, <1>2, <3>1, <3>2, FenceEffects DEF storeVars
  <2>4. CASE Claim(p) \/ ClaimRefused(p)
    BY <1>1, <1>2, <2>4
       DEF Claim, ClaimRefused, Store!ClaimWorkflowMutation, Store!MayClaim, Store!AtHead,
           Store!RefusedClaimMarksUncertain, Store!MayMarkUncertain, Store!TypeOK, storeVars
  <2>5. CASE Finish(p) \/ Unwind(p)
    <3>1. InClaim(p) /\ pc[p] \in {"finishing", "unwinding"}
      BY <2>5 DEF Finish, Unwind, InClaim
    <3>2. head[Case] = before[p] /\ before[p] <= Latest /\ after[p] = Latest
      BY <1>1, <3>1, ClaimHolds DEF Place
    <3>3. \/ Store!CloseAttempt(Case, after[p]) \/ Store!CloseAttempt(Case, before[p])
          \/ UNCHANGED storeVars
      BY <2>5
         DEF Finish, Unwind, Advanced, Store!AdvanceWorkflowMutation,
             Store!ReleaseWorkflowMutation
    <3> QED BY <1>1, <1>2, <3>2, <3>3, FenceEffects DEF storeVars
  <2>6. CASE IssueGrant(p)
    BY <1>2, <2>6 DEF IssueGrant, Store!IssueWorkflowExecutionGrant, Store!identityVars, storeVars
  <2> QED BY <1>3, <2>1, <2>2, <2>3, <2>4, <2>5, <2>6 DEF Own, Call, Proceed
<1>4. (\E m \in wire : ServerWrite(m)) \/ LeaseExpires => head'[Case] = head[Case]
  BY DEF ServerWrite, Store!Write, Store!identityVars, storeVars, LeaseExpires,
         Store!LeaseExpires
<1> QED BY <1>2, <1>3, <1>4 DEF Next, Own

(* The head that Operations has for the case never goes back while calls    *)
(* follow one another: a resume recovers only to a checkpoint it has read.  *)
THEOREM SerialHeadForward == Spec /\ []OneCallAtATime => HeadMovesForward
<1>1. TypeInv /\ SerialInv /\ [Next]_vars =>
        [head[Case] # None /\ head'[Case] # None => head[Case] <= head'[Case]]_vars
  BY HeadStep
<1> QED BY <1>1, SerialCorrect, PTL DEF Spec, HeadMovesForward

(* One start and its resumes, one process after the other: an identity row  *)
(* is given back only where there is no checkpoint.                         *)
THEOREM SerialIdentityKept == Spec /\ []OneCallAtATime => []CheckpointKeepsItsIdentity
<1>1. TypeInv /\ SerialInv => CheckpointKeepsItsIdentity
  BY DEF SerialInv, Identity, CheckpointKeepsItsIdentity, TypeInv, TypeOK, Store!TypeOK
<1> QED BY <1>1, SerialCorrect, PTL

\* With one process no call can overlap another.
LEMMA OneProcess == (\A p, q \in Procs : p = q) => OneCallAtATime
BY DEF OneCallAtATime

(* What the run with one process checks, for any number of writes, crashes, *)
(* cancellations and late servers.                                          *)
THEOREM OneProcessIsSafe ==
  ASSUME \A p, q \in Procs : p = q
  PROVE  /\ Spec => [](RecordedOrUnknown /\ NeverLockedOut /\ CheckpointKeepsItsIdentity)
         /\ Spec => SettledCasesStayPut /\ EndedCasesStayPut /\ HeadMovesForward
<1>1. OneCallAtATime
  BY OneProcess
<1> QED BY <1>1, SerialRecorded, SerialNotLockedOut, SerialIdentityKept, SerialCasesStayPut,
           SerialEndsStayPut, SerialHeadForward, PTL
=============================================================================
