------------------------------- MODULE LiveRun -------------------------------
(***************************************************************************)
(* One run of LiveReasoningService (llm/live_reasoning.py): a supervising  *)
(* model that plans, delegates to four specialists in a fixed order and    *)
(* answers (agents/deep_supervisor.py); the children, held to their own    *)
(* reads by ChildCompletionMiddleware (agents/child_completion.py); the    *)
(* sealed read tools with their budget; and the classification of whatever *)
(* ends the run into success, execution failure or semantic failure.       *)
(*                                                                         *)
(* The models may answer anything.  The installed release, code and data,  *)
(* may be replaced by a newer one at any moment.  Loaders accept only the  *)
(* files their own release has pinned, so a process that is older than the *)
(* files can read nothing; the stdio servers are started for each read and *)
(* answer from what is installed then.  What a release says is a CONSTANT: *)
(* the recall, the lots its predicate matches, the trace of each lot.      *)
(***************************************************************************)
EXTENDS Integers, FiniteSets, Sequences

CONSTANTS
    Lot,
    Revisions,                \* releases of code and data, numbered in order
    Recall, Matched, Trace,   \* what each revision says; Matched[r][p], of predicate p
    TurnBudget,               \* model calls of a run: 64, and the graph's 100 supersteps
    ReadBudget,               \* sealed reads of a run: 128
    WRONG                     \* an answer no revision supports

ASSUME LiveAssumption ==
    /\ Revisions \subseteq Nat
    /\ Recall \in [Revisions -> Nat]
    /\ Matched \in [Revisions -> [{Recall[r] : r \in Revisions} \cup {WRONG} -> SUBSET Lot]]
    /\ Trace \in [Revisions -> [Lot -> Nat]]
    /\ TurnBudget \in Nat /\ ReadBudget \in Nat

Roles == 1 .. 4     \* recall, matching, traceability, containment: ROLES, in order

Predicates == {Recall[r] : r \in Revisions} \cup {WRONG}

\* match_lots also stands for find_candidate_products, which is required with it;
\* the trace of a lot for its four reads.
RecallRead == [tool |-> "get_recall"]
MatchRead(p) == [tool |-> "match_lots", predicate |-> p]
TraceRead(l) == [tool |-> "trace", lot |-> l]
TraceReads(lots) == {TraceRead(l) : l \in lots}
MatchReads == {MatchRead(p) : p \in Predicates}

\* specialist_catalog: the tools a role is given.
Allowed(role) ==
    CASE role = 1 -> {RecallRead}
      [] role = 2 -> MatchReads
      [] role = 3 -> TraceReads(Lot)
      [] role = 4 -> {}

Reads == {RecallRead} \cup MatchReads \cup TraceReads(Lot)

\* What a read of the files of revision r returns.
RowsOf(read, r) ==
    CASE read.tool = "get_recall" -> <<Recall[r]>>
      [] read.tool = "match_lots" -> <<Matched[r][read.predicate]>>
      [] read.tool = "trace" -> <<Trace[r][read.lot]>>

\* What the specialist of a role concludes from revision r.
Conclusion(role, r) ==
    LET lots == Matched[r][Recall[r]]
        traces == [l \in lots |-> Trace[r][l]]
    IN  CASE role = 1 -> Recall[r]
          [] role = 2 -> lots
          [] role = 3 -> traces
          [] role = 4 -> <<lots, traces>>

\* Well-shaped answers: for the matching role any choice of lots.
Answers(role) ==
    IF role = 2 THEN SUBSET Lot
    ELSE {Conclusion(role, r) : r \in Revisions} \cup {WRONG}

VARIABLES
    disk,        \* the release that is installed
    process,     \* the release of the running process
    transport,   \* how reads are made, "direct" or "stdio"
    bound,       \* source_digest of the request; 0 before a run
    run,         \* idle, running, raising, or the status of the result
    planned,     \* plan_written
    child,       \* the role delegated to at the moment; 0 for none
    artifacts,   \* completed specialist artifacts, in delegation order
    corrected,   \* child_completion_corrections
    pending,     \* reads of the child in flight: <<read, rows>>, rows = <<>> before
    seen,        \* READ_TOOL_OBSERVATIONS of completed reads
    failures,    \* what has failed: reads by kind, the provider, a budget, a contract
    turns,       \* model calls made
    readsUsed    \* LIVE_READ_BUDGET

installed == <<disk, process, transport>>
liveVars == <<installed, bound, run, planned, child, artifacts, corrected, pending, seen,
              failures, turns, readsUsed>>

Ended == {"success", "execution_failure", "semantic_failure"}

LiveInit ==
    /\ disk \in Revisions /\ process = disk
    /\ transport \in {"direct", "stdio"}
    /\ bound = 0 /\ run = "idle" /\ planned = FALSE /\ child = 0 /\ artifacts = <<>>
    /\ corrected = FALSE /\ pending = {} /\ seen = {} /\ failures = {}
    /\ turns = 0 /\ readsUsed = 0

Release ==
    /\ disk + 1 \in Revisions
    /\ disk' = disk + 1
    /\ UNCHANGED <<process, transport, bound, run, planned, child, artifacts, corrected,
                   pending, seen, failures, turns, readsUsed>>

\* source_revision() answers; otherwise a checksum is wrong and it raises.
Readable == disk = process

-----------------------------------------------------------------------------
(* How a run ends.                                                         *)

\* Mutant: one transport failure among the failed reads is enough to fall back.
FaultyClassify(f) ==
    IF f \cap {"transport read", "budget", "provider"} # {}
    THEN "execution_failure" ELSE "semantic_failure"

\* The except block: failed reads decide first, then the error that was raised.
Classify(f) ==
    LET reads == f \cap {"semantic read", "transport read"}
    IN  IF reads # {}
        THEN IF reads = {"transport read"} THEN "execution_failure" ELSE "semantic_failure"
        ELSE IF f \cap {"budget", "provider"} # {} THEN "execution_failure"
        ELSE "semantic_failure"

\* A failed run keeps nothing of what it found (claims None, receipts ()).
EndRun(f) ==
    /\ run' = Classify(f)
    /\ failures' = f
    /\ artifacts' = <<>> /\ seen' = {} /\ pending' = {} /\ child' = 0
    /\ UNCHANGED <<installed, bound, planned, corrected, readsUsed>>

-----------------------------------------------------------------------------
(* The supervisor.                                                         *)

OwnReads(role) == {o \in seen : o.role = role}

\* Every read of this child completed against the revision of the request.
Sound(role) == \A o \in OwnReads(role) : o.source = bound

\* _run_isolated up to the first model call.
Begin(digest) ==
    /\ run = "idle"
    /\ bound' = digest
    /\ IF Readable /\ process = digest
       THEN run' = "running" /\ UNCHANGED failures
       ELSE run' = "semantic_failure" /\ failures' = {"contract"}
    /\ UNCHANGED <<installed, planned, child, artifacts, corrected, pending,
                   seen, turns, readsUsed>>

\* on_chat_model_start: the call beyond the budget raises.
ModelAnswers == run = "running" /\ pending = {} /\ turns < TurnBudget /\ turns' = turns + 1
Supervising == child = 0

WritePlan ==
    /\ ModelAnswers /\ Supervising
    /\ planned' = TRUE
    /\ UNCHANGED <<installed, bound, run, child, artifacts, corrected, pending, seen, failures,
                   readsUsed>>

\* One task per turn, a plan in an earlier turn, every earlier task completed,
\* the next role of the fixed order; before_agent resets the child's corrections.
Delegate ==
    /\ ModelAnswers /\ Supervising
    /\ planned
    /\ Len(artifacts) < Cardinality(Roles)
    /\ child' = Len(artifacts) + 1
    /\ corrected' = FALSE
    /\ UNCHANGED <<installed, bound, run, planned, artifacts, pending, seen, failures, readsUsed>>

\* ls and read_file, of the supervisor or of a child.
LookAround ==
    /\ ModelAnswers
    /\ Sound(child)
    /\ UNCHANGED <<installed, bound, run, planned, child, artifacts, corrected, pending, seen,
                   failures, readsUsed>>

\* The last answer: four typed artifacts, an unchanged source, and claims that
\* project_specialist_claims accepts, or a ValueError.
Answer ==
    /\ ModelAnswers /\ Supervising
    /\ Len(artifacts) = Cardinality(Roles)
    /\ Readable /\ process = bound
    /\ run' = "success"
    /\ UNCHANGED <<installed, bound, planned, child, artifacts, corrected, pending, seen, failures,
                   readsUsed>>

\* Any other turn, a malformed answer, a claim the projection refuses, an
\* answer after the source has moved: a ValueError out of the graph.
BreakContract == ModelAnswers /\ EndRun(failures \cup {"contract"})

ProviderFails == ModelAnswers /\ EndRun(failures \cup {"provider"})

RunOutOfTurns ==
    /\ run = "running" /\ pending = {} /\ turns = TurnBudget
    /\ EndRun(failures \cup {"budget"})
    /\ UNCHANGED turns

-----------------------------------------------------------------------------
(* The children and their sealed reads.                                    *)

\* The reads a role must have made, which follow from the answers before its own.
Required(role) ==
    CASE role = 1 -> {RecallRead}
      [] role = 2 -> {MatchRead(artifacts[1])}
      [] role = 3 -> TraceReads(artifacts[2])
      [] role = 4 -> {}

ChildReads(reads) ==
    /\ ModelAnswers /\ child # 0
    /\ Sound(child)
    /\ reads # {} /\ reads \subseteq Allowed(child)
    /\ pending' = {[read |-> r, rows |-> <<>>] : r \in reads}
    /\ UNCHANGED <<installed, bound, run, planned, child, artifacts, corrected, seen, failures,
                   readsUsed>>

InFlight(p) == run \in {"running", "raising"} /\ p \in pending

\* Only the first error is raised; of reads, every failure is recorded.
Raised(kind) == IF run = "raising" THEN failures ELSE failures \cup {kind}

\* _invoke_sealed_read_tool: the budget is spent, then the rows are fetched, by a
\* service of this process or by a server of the installed release.
StartRead(p) ==
    /\ InFlight(p) /\ p.rows = <<>>
    /\ readsUsed < ReadBudget
    /\ readsUsed' = readsUsed + 1

Fetch(p) ==
    /\ StartRead(p)
    /\ Readable \/ transport = "stdio"
    /\ pending' = (pending \ {p}) \cup {[p EXCEPT !.rows = RowsOf(p.read, disk)]}
    /\ UNCHANGED <<installed, bound, run, planned, child, artifacts, corrected,
                   seen, failures, turns>>

ReadFails(p, kind) ==
    /\ StartRead(p)
    /\ kind = "transport read" => transport = "stdio"
    /\ pending' = pending \ {p}
    /\ failures' = failures \cup {kind}
    /\ run' = "raising"
    /\ UNCHANGED <<installed, bound, planned, child, artifacts, corrected, seen,
                   turns>>

ReadOverBudget(p) ==
    /\ InFlight(p) /\ p.rows = <<>>
    /\ readsUsed >= ReadBudget
    /\ pending' = pending \ {p}
    /\ failures' = Raised("budget")
    /\ run' = "raising"
    /\ UNCHANGED <<installed, bound, planned, child, artifacts, corrected, seen,
                   turns, readsUsed>>

\* The rows are here; the source revision is taken only now, and may raise.
Stamped(p) == Readable

Observe(p) ==
    /\ InFlight(p) /\ p.rows # <<>>
    /\ pending' = pending \ {p}
    /\ IF Stamped(p)
       THEN /\ seen' = seen \cup {[role |-> child, read |-> p.read, rows |-> p.rows,
                                   source |-> process]}
            /\ UNCHANGED <<run, failures>>
       ELSE /\ failures' = Raised("contract")
            /\ run' = "raising"
            /\ UNCHANGED seen
    /\ UNCHANGED <<installed, bound, planned, child, artifacts, corrected, turns,
                   readsUsed>>

\* The exception reaches the service; reads still in flight are abandoned.
Raise == run = "raising" /\ EndRun(failures) /\ UNCHANGED turns

\* Mutant: any read of the child will do.
FaultyCompletes(role) == Required(role) = {} \/ OwnReads(role) # {}

Completes(role) == Required(role) \subseteq {o.read : o \in OwnReads(role)}

ChildAnswers(claim) ==
    /\ ModelAnswers /\ child # 0
    /\ Sound(child)
    /\ claim \in Answers(child)
    /\ Completes(child)
    /\ artifacts' = Append(artifacts, claim)
    /\ child' = 0
    /\ UNCHANGED <<installed, bound, run, planned, corrected, pending, seen, failures,
                   readsUsed>>

\* An ill-formed answer, or one without its reads, is dropped once.
ChildIsCorrected ==
    /\ ModelAnswers /\ child # 0
    /\ Sound(child)
    /\ ~corrected
    /\ corrected' = TRUE
    /\ UNCHANGED <<installed, bound, run, planned, child, artifacts, pending, seen, failures,
                   readsUsed>>

-----------------------------------------------------------------------------
\* The whole run, but for the files that change under it.
LiveStep ==
    \/ WritePlan \/ Delegate \/ LookAround \/ Answer
    \/ BreakContract \/ ProviderFails \/ RunOutOfTurns
    \/ \E reads \in SUBSET Reads : ChildReads(reads)
    \/ \E p \in pending : Fetch(p) \/ Observe(p) \/ ReadOverBudget(p)
    \/ \E p \in pending, kind \in {"semantic read", "transport read"} : ReadFails(p, kind)
    \/ Raise
    \/ child # 0 /\ (\E claim \in Answers(child) : ChildAnswers(claim))
    \/ ChildIsCorrected

LiveNext == LiveStep \/ (\E digest \in Revisions : Begin(digest)) \/ Release

LiveSpec == LiveInit /\ [][LiveNext]_liveVars

-----------------------------------------------------------------------------
LiveTypeOK ==
    /\ disk \in Revisions /\ process \in Revisions /\ transport \in {"direct", "stdio"}
    /\ bound \in Revisions \cup {0}
    /\ run \in {"idle", "running", "raising"} \cup Ended
    /\ planned \in BOOLEAN /\ corrected \in BOOLEAN
    /\ child \in 0 .. 4
    /\ Len(artifacts) \in 0 .. 4
    /\ \A p \in pending : p.read \in Reads
    /\ \A o \in seen : o.role \in Roles /\ o.read \in Reads /\ o.source \in Revisions
    /\ failures \subseteq {"semantic read", "transport read", "budget", "provider", "contract"}
    /\ turns \in 0 .. TurnBudget /\ readsUsed \in 0 .. ReadBudget

(* A run succeeds only on evidence: each of its three reading children made *)
(* itself every read that the answers before its own call for (the recall; *)
(* the lots of the claimed predicate; the trace of every claimed lot, the  *)
(* ambiguous ones too), and each read returned the rows of the revision    *)
(* the request is bound to, although files and servers may be replaced     *)
(* while reads are in flight, in any order, and the model answers freely.  *)
AnswersRestOnReads ==
    run = "success" =>
        \A role \in 1 .. 3 :
            \A q \in CASE role = 1 -> {RecallRead}
                       [] role = 2 -> {MatchRead(artifacts[1])}
                       [] role = 3 -> TraceReads(artifacts[2]) :
                [role |-> role, read |-> q, rows |-> RowsOf(q, bound), source |-> bound] \in seen
=============================================================================
