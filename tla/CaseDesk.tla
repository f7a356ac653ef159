------------------------------ MODULE CaseDesk ------------------------------
(***************************************************************************)
(* The desk a case is worked from: DurableRuntimeAdapter                    *)
(* (src/recallops/ui/adapter.py) over the workflow of CaseWorkflow.         *)
(*                                                                         *)
(* A browser session keeps the last record it was given and sends it back   *)
(* with every operation.  Meanwhile the case moves on elsewhere: by another *)
(* client of the runtime, or by an operation of this session whose result   *)
(* was lost.  So what is shown may be any earlier record, and each decision *)
(* carries the identity of the interrupt it was made for.                   *)
(* An operation that raises leaves the session as it was.  Operations of    *)
(* two clients do not overlap here; DurableRuntime has that.                *)
(***************************************************************************)
EXTENDS CaseWorkflow

CONSTANT DemoWordings

VARIABLES
  desk,      \* ui_case: what the session shows, and its armed failure
  demo       \* ui_case of a process that uses the offline adapter instead

Demo == INSTANCE DemoCase WITH NoDemo <- None

\* _RUNTIME_FAILURE_STAGES; the failures that a run absorbs are one.
StageOf == [transient |-> "run", watchdog |-> "run",
            stale_decision |-> "review", lost_response |-> "simulate"]
Scenarios == DOMAIN StageOf

Panels == {"none", "closed", "blocked", "review"}

Desk == [shown: Graph, armed: Scenarios \cup {None}, panel: Panels] \cup {None}

deskVars == <<vars, desk, demo>>

DeskInit == Init /\ desk = None /\ Demo!DemoInit

-----------------------------------------------------------------------------
(* The identity of an interrupt and what a record shows.                    *)

Kinds == {"action_review", "closure_review", "execution_confirmation", "write_outcome_recovery"}

ASSUME DeskAssumption ==
  /\ None \notin Kinds /\ None \notin Demo!Bindings /\ None \notin Demo!Cases
  /\ 0 \in DemoWordings

Kind(g) ==
  CASE g.stage = "review" /\ g.current.type = "close_case" -> "closure_review"
    [] g.stage = "review" /\ g.current.type # "close_case" -> "action_review"
    [] g.stage = "confirmation" -> "execution_confirmation"
    [] g.stage = "recovery" -> "write_outcome_recovery"
    [] OTHER -> None

\* case_version: the receipts so far.
Version(g) == Cardinality(g.receipts)

\* Faulty: bound by kind and version, as a counter would do.
FaultyIdentity(g) == <<Kind(g), Version(g)>>

\* What _bound_runtime_response sends and _validate_interrupt_response
\* compares; the digest covers the action with its wording.
Identity(g) == <<Kind(g), Version(g), g.current, g.rationale>>

Bound == Identity(desk.shown) = Identity(graph)

HasCheckpoint(g) == g.stage # "investigating"

\* validate_review_submission and can_simulate, whose other checks compare
\* fields of the one record shown.
MaySubmitReview(g) == Kind(g) \in {"action_review", "closure_review"}

MaySimulate(g) == Kind(g) \in {"execution_confirmation", "write_outcome_recovery"}

Show(g, armed) == desk' = [shown |-> g, armed |-> armed, panel |-> "none"]

\* The record as the runtime returns it, with nothing armed.
Reload == Show(graph, None)

\* _arm_failure and _project_failure: a failure that was not for this stage
\* stays armed.
Armed(s) == desk.armed = s
StillArmed(stage) ==
  IF desk.armed # None /\ StageOf[desk.armed] = stage THEN None ELSE desk.armed

-----------------------------------------------------------------------------
(* The operations.                                                          *)

OpenCase ==
  /\ desk = None
  /\ ~HasCheckpoint(graph)
  /\ Reload
  /\ UNCHANGED vars

\* A session that still shows the intake of a started case is given its
\* record, and loses its armed failure.
RunInvestigation(scope) ==
  /\ desk # None
  /\ \/ /\ HasCheckpoint(graph)
        /\ Reload
        /\ UNCHANGED vars
     \/ /\ ~Armed("watchdog")
        /\ Investigate(scope)
        /\ Show(graph', StillArmed("run"))
     \/ /\ Armed("watchdog") /\ ~HasCheckpoint(graph)
        /\ graph' = [graph EXCEPT !.stage = "escalated"]
        /\ UNCHANGED <<case, write>>
        /\ Show(graph', StillArmed("run"))

\* resume_review.  The injected stale decision is refused after the claim; any
\* refusal then shows the record of the checkpoint.
ResumeReview ==
  /\ desk # None
  /\ MaySubmitReview(desk.shown)
  /\ \/ /\ Armed("stale_decision")
        /\ Reload
        /\ UNCHANGED vars
     \/ /\ ~Armed("stale_decision")
        /\ Bound
        /\ Approve \/ Edit \/ \E end \in {"open", "escalated"} : Decline("review", end)
        /\ Show(graph', desk.armed)

\* A retry of a write whose grant is spent changes nothing.
RetryInVain ==
  /\ graph.stage = "recovery" /\ write = "spent"
  /\ UNCHANGED vars

\* lost_write_response: the receipt is dropped after the write, or after its
\* replay.
DropResponse ==
  /\ graph.stage \in {"confirmation", "recovery"} /\ write # "spent"
  /\ \/ write = "none" /\ LedgerWrite(graph.current)
     \/ write = "landed" /\ UNCHANGED case
  /\ write' = "landed"
  /\ graph' = [graph EXCEPT !.stage = "recovery"]

SimulateApprovedActions ==
  /\ desk # None
  /\ MaySimulate(desk.shown)
  /\ Bound
  /\ \/ Armed("lost_response") /\ DropResponse
     \/ ~Armed("lost_response") /\ (ConfirmAnswered \/ RetryReplayed)
     \/ ConfirmUnsent \/ ConfirmLost \/ ConfirmRefused \/ RetryInVain
  /\ Show(graph', StillArmed("simulate"))

AwaitsClosureReview(g) == Kind(g) = "closure_review"

\* Faulty: the approval gate passes when nothing is pending.
FaultyPanelOf(g) ==
  IF g.stage = "closed" THEN "closed"
  ELSE IF g.gaps # {} \/ Unacknowledged(g) # {} \/ g.ambiguous # {}
          \/ Kind(g) \notin {"closure_review", None}
       THEN "blocked"
  ELSE "review"

\* The gates of request_closure.  The violations of a failed verification
\* come with an escalated case, which the approval gate blocks as well.
PanelOf(g) ==
  IF g.stage = "closed" THEN "closed"
  ELSE IF g.gaps # {} \/ Unacknowledged(g) # {} \/ g.ambiguous # {}
          \/ ~AwaitsClosureReview(g)
       THEN "blocked"
  ELSE "review"

\* request_closure writes nothing; it reloads the record of a started case,
\* and its armed failure is gone with the old one.
RequestClosure ==
  /\ desk # None
  /\ LET record == IF HasCheckpoint(desk.shown) THEN graph ELSE desk.shown IN
     desk' = [shown |-> record, panel |-> PanelOf(record),
              armed |-> IF HasCheckpoint(desk.shown) THEN None ELSE desk.armed]
  /\ UNCHANGED vars

InjectFailure(scenario) ==
  /\ desk # None
  /\ CASE StageOf[scenario] = "run" -> ~HasCheckpoint(desk.shown)
       [] StageOf[scenario] = "review" -> MaySubmitReview(desk.shown)
       [] StageOf[scenario] = "simulate" -> MaySimulate(desk.shown)
  /\ desk' = [desk EXCEPT !.armed = scenario]
  /\ UNCHANGED vars

\* The case moves on without this session.
Elsewhere == Next /\ UNCHANGED desk

DurableNext ==
  \/ OpenCase
  \/ \E scope \in SUBSET Lots : RunInvestigation(scope)
  \/ ResumeReview
  \/ SimulateApprovedActions
  \/ RequestClosure
  \/ \E scenario \in Scenarios : InjectFailure(scenario)
  \/ Elsewhere

\* A process has one adapter (ui/app.py): a case of the offline walkthrough
\* never meets the runtime.
Untouched == desk = None /\ graph.stage = "investigating" /\ release = 1

DeskNext ==
  \/ demo = None /\ DurableNext /\ UNCHANGED demo
  \/ Untouched /\ Demo!DemoNext /\ UNCHANGED <<vars, desk>>

DeskSpec == DeskInit /\ [][DeskNext]_deskVars

-----------------------------------------------------------------------------
(* What the session may be trusted with.                                    *)

(* A decision or a confirmation of the desk takes effect only on the record *)
(* the human saw: the few fields of the binding determine all of it, the    *)
(* gaps, the acknowledgements, the preview and the wording.                 *)
DecidedOnTheRecordShown ==
  [][desk' # desk /\ <<graph, write>>' # <<graph, write>> => desk.shown = graph]_deskVars

\* The phase of a record of the graph, and of the demo's.
GraphPhase ==
  CASE graph.stage = "investigating" -> "fresh"
    [] graph.stage = "review" -> "review"
    [] graph.stage \in {"confirmation", "recovery"} -> "confirmed"
    [] OTHER -> "over"

DemoPhase ==
  CASE demo.status = "investigating" -> "fresh"
    [] demo.kind = "action_review" -> "review"
    [] demo.kind = "execution_confirmation" -> "confirmed"
    [] OTHER -> "over"

Reviewed ==
  INSTANCE ReviewedWrites
    WITH Actions  <- Action,
         Wordings <- 0 .. MaxEdits \cup DemoWordings,
         phase    <- IF demo = None THEN GraphPhase ELSE DemoPhase,
         action   <- IF demo = None THEN graph.current
                     ELSE IF demo.proposed = None THEN None ELSE Act(demo.proposed.step, None),
         wording  <- IF demo = None THEN graph.rationale
                     ELSE IF demo.proposed = None THEN 0 ELSE demo.proposed.wording,
         written  <- IF demo = None THEN graph.receipts
                     ELSE {Act(step, None) : step \in demo.receipts}

(* Both adapters implement ReviewedWrites: what is written was reviewed,    *)
(* approved in its last wording and confirmed, once, whatever was lost,     *)
(* retried or asked of the closure panel in between.                        *)
WritesAreReviewed == Reviewed!Spec

(* The closure panel, computed from other fields than the plan: it asks for *)
(* the final review exactly when that review is pending and, while the      *)
(* dataset is the one the case was planned on, when the ledger would close; *)
(* what it shows as closed is closed.                                       *)
ClosurePanelIsTrue ==
  desk # None /\ desk.panel # "none" =>
    /\ (desk.panel = "review") = AwaitsClosureReview(desk.shown)
    /\ desk.panel = "review" /\ desk.shown = graph /\ SameRelease => Ledger!MayClose
    /\ desk.panel = "closed" => state # None /\ state.closed
=============================================================================
