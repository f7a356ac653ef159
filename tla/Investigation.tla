---------------------------- MODULE Investigation ----------------------------
(***************************************************************************)
(* The investigation of a case by the workflow graph, from intake to the   *)
(* first action review (agents/workflow.py): retrieve context; let the     *)
(* live models investigate, or run the four specialists of the plan; fall  *)
(* back from the one to the other when the provider fails; verify the      *)
(* outcome against the source (agents/verification.py); and only then      *)
(* offer an action for review.                                             *)
(*                                                                         *)
(* It composes AgenticRetrieval and LiveRun, whose steps run inside the    *)
(* nodes retrieve_context and live_investigate.  The release installed     *)
(* under the process may change between any two steps.  A crash is not     *)
(* here: DurableRuntime shows that a start that was cut off never goes on. *)
(***************************************************************************)
EXTENDS AgenticRetrieval, LiveRun

CONSTANT Uncertain    \* lots whose plant code is uncertain: matched as ambiguous

VARIABLES
    caller,     \* "graph", or "benchmark": whoever calls the retriever on its own
    mode,       \* "openai" or "deterministic"
    node,       \* the graph node that runs next, or is running
    status,     \* status of the case
    source,     \* investigation_source
    digest,     \* source_digest of the case; 0 before it is taken
    order,      \* specialist_execution_order, as long as plan_todo_cursor
    gathered,   \* the source rows the investigation rests on: <<read, rows>>
    liveRun,    \* live_run: how the live run ended, and what had failed
    claims,     \* live_claims: a conclusion for each role
    receipts    \* the receipts of the live run: <<read, rows, source>>

graphVars == <<caller, mode, node, status, source, digest, order, gathered, liveRun,
               claims, receipts>>
vars == <<retrievalVars, liveVars, graphVars>>

Over == {"end", "action_review", "raised"}
NoRun == [status |-> "none", failures |-> {}]

GatheredRows(read) == (CHOOSE g \in gathered : g[1] = read)[2]
HasGathered(read) == \E g \in gathered : g[1] = read

\* Mutant: ambiguous lots are not traced.
FaultyRelevant(lots) == lots \ Uncertain

\* Every confirmed and every ambiguous lot is traced.
Relevant(lots) == lots
\* What the specialists conclude from the rows at hand (investigate_recall,
\* assess_product_lots, assess_traceability, draft_containment).
Matching == MatchRead(GatheredRows(RecallRead)[1])
MatchedLots == GatheredRows(Matching)[1]
Traces == [l \in Relevant(MatchedLots) |-> GatheredRows(TraceRead(l))[1]]
Concluded(role) ==
    CASE role = 1 -> GatheredRows(RecallRead)[1]
      [] role = 2 -> MatchedLots
      [] role = 3 -> Traces
      [] role = 4 -> <<MatchedLots, Traces>>

AllTraced == \A l \in Relevant(MatchedLots) : HasGathered(TraceRead(l))

-----------------------------------------------------------------------------
Init ==
    /\ RetrievalInit /\ LiveInit
    /\ caller \in {"graph", "benchmark"}
    /\ mode \in {"openai", "deterministic"}
    /\ caller = "benchmark" => mode = "deterministic" /\ transport = "direct"
    /\ node = (IF caller = "graph" THEN "intake" ELSE "retrieve_context")
    /\ status = "none" /\ source = "none" /\ digest = 0 /\ order = <<>>
    /\ gathered = {} /\ liveRun = NoRun /\ claims = <<>> /\ receipts = {}

\* The graph moves on to node n with status s.
GoTo(n, s) == node' = n /\ status' = s /\ UNCHANGED <<caller, mode>>
Escalate == GoTo("end", "escalated")

\* start_case takes the source revision; intake sets everything else up.
Intake ==
    /\ node = "intake"
    /\ IF Readable
       THEN /\ digest' = process
            /\ source' = mode
            /\ GoTo("retrieve_context", "investigating")
       ELSE GoTo("raised", status) /\ UNCHANGED <<digest, source>>
    /\ UNCHANGED <<retrievalVars, liveVars, order, gathered, liveRun, claims, receipts>>

-----------------------------------------------------------------------------
(* retrieve_context.                                                       *)

\* The result is kept for the report only; the model forgets it.
ForgetRetrieval ==
    /\ route' = <<>> /\ index' = [a \in Query \X Source |-> {}] /\ rewritable' = FALSE
    /\ retriever' \in Budgets /\ retriever' = CHOOSE b \in Budgets : TRUE
    /\ saved' = NewLoop(<<>>, retriever') /\ loop' = NONE /\ room' = 0 /\ result' = NONE

\* The graph never limits a call and never saves a loop state.
RetrieveInGraph ==
    /\ caller = "graph" /\ node = "retrieve_context"
    /\ Resume(0) \/ ReadSource \/ RunOutOfBudget \/ Judge
    /\ UNCHANGED <<liveVars, graphVars>>

RetrieveAlone ==
    /\ caller = "benchmark"
    /\ RetrievalNext
    /\ UNCHANGED <<liveVars, graphVars>>

Retrieved ==
    /\ caller = "graph" /\ node = "retrieve_context"
    /\ result # NONE
    /\ \/ GoTo(IF mode = "openai" THEN "prepare_live_investigation" ELSE "plan", status)
       \/ Escalate                         \* the watchdog: a repeated signature
    /\ ForgetRetrieval
    /\ UNCHANGED <<liveVars, source, digest, order, gathered, liveRun, claims, receipts>>

RetrievalFails ==
    /\ caller = "graph" /\ node = "retrieve_context"
    /\ loop # NONE /\ loop.cursor < Len(route) /\ Fits(loop.reads + 1, loop.budgets)
    /\ Escalate
    /\ ForgetRetrieval
    /\ UNCHANGED <<liveVars, source, digest, order, gathered, liveRun, claims, receipts>>

-----------------------------------------------------------------------------
(* The live lane.                                                          *)

\* live_request: the context is built again from the files and must be of the
\* revision of the case.
RequestIsBound == Readable /\ process = digest

PrepareLive ==
    /\ node = "prepare_live_investigation"
    /\ IF RequestIsBound
       THEN /\ liveRun' = [status |-> "started", failures |-> {}]
            /\ GoTo("live_investigate", status)
       ELSE Escalate /\ UNCHANGED liveRun
    /\ UNCHANGED <<retrievalVars, liveVars, source, digest, order, gathered, claims, receipts>>

StartLive ==
    /\ node = "live_investigate"
    /\ Begin(digest)
    /\ UNCHANGED <<retrievalVars, graphVars>>

StepLive ==
    /\ node = "live_investigate"
    /\ LiveStep
    /\ UNCHANGED <<retrievalVars, graphVars>>

\* A run that has ended leaves its result; each run starts from nothing.
ForgetLive ==
    /\ UNCHANGED installed
    /\ bound' = 0 /\ run' = "idle" /\ planned' = FALSE /\ child' = 0 /\ artifacts' = <<>>
    /\ corrected' = FALSE /\ pending' = {} /\ seen' = {} /\ failures' = {}
    /\ turns' = 0 /\ readsUsed' = 0

LiveInvestigated ==
    /\ node = "live_investigate"
    /\ run \in Ended
    /\ liveRun' = [status |-> run, failures |-> failures]
    /\ claims' = artifacts
    /\ receipts' = {<<o.read, o.rows, o.source>> : o \in seen}
    /\ IF run = "execution_failure"
       THEN source' = "deterministic_fallback" /\ GoTo("plan", status)
       ELSE GoTo("verify", status) /\ UNCHANGED source
    /\ ForgetLive
    /\ UNCHANGED <<retrievalVars, digest, order, gathered>>

-----------------------------------------------------------------------------
(* The deterministic lane: the four specialists in the order of the plan.   *)

SpecialistNode(role) ==
    CASE role = 1 -> "regulatory_intake"
      [] role = 2 -> "product_lot_match"
      [] role = 3 -> "trace_forward_backward"
      [] role = 4 -> "containment_draft"

Plan ==
    /\ node = "plan"
    /\ order' = <<>>
    /\ GoTo("dispatch_specialist", status)
    /\ UNCHANGED <<retrievalVars, liveVars, source, digest, gathered, liveRun, claims, receipts>>

\* validated_dispatch_state: the ledger is a prefix of the plan.
InPlanOrder == \A i \in DOMAIN order : order[i] = i

Dispatch ==
    /\ node = "dispatch_specialist"
    /\ IF ~InPlanOrder THEN Escalate
       ELSE IF Len(order) = Cardinality(Roles) THEN GoTo("verify", status)
       ELSE GoTo(SpecialistNode(Len(order) + 1), status)
    /\ UNCHANGED <<retrievalVars, liveVars, source, digest, order, gathered, liveRun, claims,
                   receipts>>

\* Mutant: the containment node does not complete its todo.
FaultyCompleted(role) ==
    order' = (IF role = 4 THEN order ELSE Append(order, role)) /\ GoTo("dispatch_specialist", status)

Completed(role) == order' = Append(order, role) /\ GoTo("dispatch_specialist", status)

\* A read through the case's gateway: the direct one holds the dataset it was
\* opened with and loads the recall each time; a stdio server is of the installed release.
GatewayAnswers(read) == transport = "stdio" \/ read # RecallRead \/ Readable
GatewayRows(read) == RowsOf(read, IF transport = "stdio" THEN disk ELSE process)
Gather(read) ==
    /\ GatewayAnswers(read)
    /\ gathered' = gathered \cup {<<read, GatewayRows(read)>>}

\* The second case is the pinned snapshot, after two transient failures.
RegulatoryIntake ==
    /\ node = "regulatory_intake"
    /\ \/ Gather(RecallRead) /\ Completed(1)
       \/ /\ Readable
          /\ gathered' = gathered \cup {<<RecallRead, RowsOf(RecallRead, process)>>}
          /\ Completed(1)
       \/ ~Readable /\ GoTo("raised", status) /\ UNCHANGED <<gathered, order>>
       \/ Escalate /\ UNCHANGED <<gathered, order>>
    /\ UNCHANGED <<retrievalVars, liveVars, source, digest, liveRun, claims, receipts>>

ProductLotMatch ==
    /\ node = "product_lot_match"
    /\ \/ /\ Gather(Matching)
          /\ GatewayRows(Matching)[1] \ Uncertain # {}
          /\ Completed(2)
       \/ Escalate /\ UNCHANGED <<gathered, order>>   \* no confirmed lots, or no evidence
    /\ UNCHANGED <<retrievalVars, liveVars, source, digest, liveRun, claims, receipts>>

TraceOneLot(l) ==
    /\ node = "trace_forward_backward"
    /\ l \in Relevant(MatchedLots) /\ ~HasGathered(TraceRead(l))
    /\ Gather(TraceRead(l))
    /\ UNCHANGED <<retrievalVars, liveVars, caller, mode, node, status, source, digest, order,
                   liveRun, claims, receipts>>

\* The node ends and reconcile follows, or either rejects the evidence.
Reconcile ==
    /\ node = "trace_forward_backward"
    /\ \/ AllTraced /\ Completed(3)
       \/ Escalate /\ UNCHANGED order
    /\ UNCHANGED <<retrievalVars, liveVars, source, digest, gathered, liveRun, claims, receipts>>

ContainmentDraft ==
    /\ node = "containment_draft"
    /\ Completed(4)
    /\ UNCHANGED <<retrievalVars, liveVars, source, digest, gathered, liveRun, claims, receipts>>

-----------------------------------------------------------------------------
(* Verification.                                                           *)

\* The deterministic branch checks the ledger; a failure may be injected.
VerifyPlan ==
    /\ node = "verify" /\ source # "openai"
    /\ \/ InPlanOrder /\ Len(order) = Cardinality(Roles) /\ GoTo("prepare_action_review", status)
       \/ Escalate
    /\ UNCHANGED <<retrievalVars, liveVars, source, digest, order, gathered, liveRun, claims,
                   receipts>>

\* The live branch resolves the evidence again, read by read.
StartResolving ==
    /\ node = "verify" /\ source = "openai"
    /\ IF RequestIsBound /\ liveRun.status = "success"
       THEN GoTo("resolve_trusted_evidence", status)
       ELSE Escalate
    /\ UNCHANGED <<retrievalVars, liveVars, source, digest, order, gathered, liveRun, claims,
                   receipts>>

\* get_recall, then the lots its predicate matches, then the trace of each of them.
NextReads ==
    IF ~HasGathered(RecallRead) THEN {RecallRead}
    ELSE IF ~HasGathered(Matching) THEN {Matching}
    ELSE {r \in TraceReads(Relevant(MatchedLots)) : ~HasGathered(r)}

Resolve(read) ==
    /\ node = "resolve_trusted_evidence"
    /\ read \in NextReads
    /\ Gather(read)
    /\ UNCHANGED <<retrievalVars, liveVars, caller, mode, node, status, source, digest, order,
                   liveRun, claims, receipts>>

\* source_revision() once more: the evidence is of one revision.
SourceIsUnchanged == Readable

\* Mutant: receipts are enough; the claims are not compared.
FaultySupported ==
    /\ \A g \in gathered : <<g[1], g[2], digest>> \in receipts
    /\ MatchedLots \ Uncertain # {}

\* verify_live_investigation: receipts first, then every claim.
Supported ==
    /\ \A g \in gathered : <<g[1], g[2], digest>> \in receipts
    /\ \A role \in Roles : claims[role] = Concluded(role)
    /\ MatchedLots \ Uncertain # {}

\* On success the state of the case is the projection of the resolved rows.
VerifyLive ==
    /\ node = "resolve_trusted_evidence"
    /\ IF NextReads = {} /\ SourceIsUnchanged /\ Supported
       THEN GoTo("prepare_action_review", status) /\ order' = <<1, 2, 3, 4>>
            /\ UNCHANGED gathered
       ELSE Escalate /\ UNCHANGED order /\ gathered' = {}
    /\ UNCHANGED <<retrievalVars, liveVars, source, digest, liveRun, claims, receipts>>

\* The first action is always create_case (_next_action).
PrepareActionReview ==
    /\ node = "prepare_action_review"
    /\ GoTo("action_review", "review_required")
    /\ UNCHANGED <<retrievalVars, liveVars, source, digest, order, gathered, liveRun, claims,
                   receipts>>

-----------------------------------------------------------------------------
Advance ==
    \/ Intake
    \/ RetrieveInGraph \/ Retrieved \/ RetrievalFails
    \/ PrepareLive \/ StartLive \/ StepLive \/ LiveInvestigated
    \/ Plan \/ Dispatch \/ RegulatoryIntake \/ ProductLotMatch
    \/ (\E l \in Lot : TraceOneLot(l)) \/ Reconcile \/ ContainmentDraft
    \/ VerifyPlan \/ StartResolving \/ (\E read \in Reads : Resolve(read)) \/ VerifyLive
    \/ PrepareActionReview

Upgrade ==
    /\ caller = "graph" /\ node \notin Over
    /\ Release
    /\ UNCHANGED <<retrievalVars, graphVars>>

Next == Advance \/ RetrieveAlone \/ Upgrade

\* A node that can go on does: the event loop runs it, and a call of a model or
\* a server returns or times out.
InvestigationSpec == Init /\ [][Next]_vars /\ WF_vars(Advance)

-----------------------------------------------------------------------------
InvestigationTypeOK ==
    /\ RetrievalTypeOK /\ LiveTypeOK
    /\ caller \in {"graph", "benchmark"} /\ mode \in {"openai", "deterministic"}
    /\ status \in {"none", "investigating", "escalated", "review_required"}
    /\ source \in {"none", "openai", "deterministic", "deterministic_fallback"}
    /\ digest \in Revisions \cup {0}
    /\ order \in {SubSeq(<<1, 2, 3, 4>>, 1, n) : n \in 0 .. 4}
    /\ \A g \in gathered : g[1] \in Reads

Reviewed == status = "review_required"

(* The deterministic specialists take over from the models only when the   *)
(* execution failed (provider, transport, budget), never when the models'  *)
(* answers or reads were wrong, and they keep nothing of the failed run;   *)
(* a run that failed for its content never reaches a review.               *)
FallbackIsForExecution ==
    /\ source = "deterministic_fallback" =>
          /\ liveRun.failures \cap {"transport read", "budget", "provider"} # {}
          /\ "semantic read" \notin liveRun.failures
          /\ claims = <<>> /\ receipts = {}
    /\ liveRun.status = "semantic_failure" => ~Reviewed /\ source = "openai"

(* Whatever is put up for review is what the specialists conclude from the *)
(* source revision the case is bound to: the models' claims and the rows   *)
(* behind them, whichever way they were read and whatever was released in  *)
(* between; and, with a gateway of the same process, the deterministic     *)
(* lane's rows as well.                                                    *)
ReviewedEvidenceIsBound ==
    /\ Reviewed /\ (source = "openai" \/ transport = "direct") =>
          \A role \in Roles : Concluded(role) = Conclusion(role, digest)
    /\ Reviewed /\ source = "openai" =>
          \A role \in Roles : claims[role] = Conclusion(role, digest)

(* No action is reviewed before all four specialists, in order, whichever  *)
(* lane they ran in: a recall was read, a confirmed lot found, and every   *)
(* matched lot, the ambiguous ones too, traced and reconciled.             *)
ReviewRestsOnAllRoles ==
    Reviewed =>
        /\ order = <<1, 2, 3, 4>>
        /\ HasGathered(RecallRead)
        /\ HasGathered(Matching)
        /\ MatchedLots \ Uncertain # {}
        /\ \A l \in MatchedLots : HasGathered(TraceRead(l))

(* Every investigation comes to a review, an escalation or an exception:   *)
(* the budgets of model calls, reads, hops and corrections leave no way to *)
(* go round for ever, whatever the models answer.                          *)
InvestigationEnds == caller = "graph" ~> node \in Over
=============================================================================
