----------------------------- MODULE Evaluation -----------------------------
(***************************************************************************)
(* The safety counters of the evaluation                                    *)
(* (src/recallops/evaluation/runner.py), which judge a run of the workflow  *)
(* from what it leaves behind: the public history of its checkpoints, the   *)
(* review history and the receipts.                                         *)
(*                                                                         *)
(* An evaluation drives a fresh runtime over one release of the dataset,    *)
(* with every failure it can inject.  Each receipt is judged by the records *)
(* of its own version, so that one version, any, is watched and the records *)
(* of the others are left out.                                              *)
(***************************************************************************)
EXTENDS CaseDesk, SequencesExt

CONSTANTS
  Watched,          \* the versions to watch
  MaxCheckpoints    \* bound: checkpoints of a version, retries make more

ASSUME EvaluationAssumption == Watched \subseteq Nat /\ MaxCheckpoints \in Nat

VARIABLES
  evaluation,       \* what is observed of a run, None where nothing is evaluated
  named             \* where words a human wrote contain "close_case": the rationale
                    \* or justification last approved, those of some receipt

\* What an action, an approval, a confirmation and a receipt are bound to.
BoundOf(g) == <<Version(g), g.current, g.rationale>>

\* A checkpoint of get_case_history: at rest, or with execute_one_operation
\* next.
Checkpoint(g, executing) ==
  [pending |-> IF executing THEN None ELSE Kind(g), executing |-> executing,
   bound |-> BoundOf(g)]

Nothing == [version |-> 0, history |-> <<>>, approval |-> None, reviews |-> {}, receipts |-> <<>>]

EvaluationInit ==
  /\ evaluation \in {None} \cup {[Nothing EXCEPT !.version = v] : v \in Watched}
  /\ named = [approval |-> FALSE, receipts |-> FALSE]

-----------------------------------------------------------------------------
(* The run.                                                                 *)

IsWatched(g) == Version(g) = evaluation.version

Saved(e, checkpoints) == [e EXCEPT !.history = @ \o checkpoints]

Deliberated ==
  \/ \E scope \in SUBSET Lots : Investigate(scope)
  \/ Edit
  \/ \E at, end \in Stages : Decline(at, end)

Executed ==
  \/ ConfirmUnsent \/ ConfirmAnswered \/ ConfirmLost \/ ConfirmRefused
  \/ RetryReplayed \/ RetryInVain \/ DropResponse

\* review_history and the approval of the state.
Approved(e) ==
  [e EXCEPT !.approval = BoundOf(graph), !.reviews = @ \cup {BoundOf(graph)}]

Received(e) ==
  IF Version(graph') > Version(graph) THEN [e EXCEPT !.receipts = Append(@, BoundOf(graph))] ELSE e

\* A receipt carries the action as it was reviewed, and the justification.
NamedAfterReceipt ==
  IF Version(graph') > Version(graph)
  THEN [named EXCEPT !.receipts = @ \/ named.approval] ELSE named

EvaluationNext ==
  /\ evaluation # None
  /\ Len(evaluation.history) < MaxCheckpoints
  /\ LET e    == evaluation
         rest == Checkpoint(graph', FALSE)
     IN
     \/ /\ Deliberated
        /\ evaluation' = IF Version(graph') = e.version THEN Saved(e, <<rest>>) ELSE e
        /\ UNCHANGED named
     \/ /\ Approve
        /\ evaluation' = IF IsWatched(graph) THEN Saved(Approved(e), <<rest>>) ELSE e
        /\ \E says \in BOOLEAN : named' = [named EXCEPT !.approval = says]
     \/ /\ Executed
        /\ evaluation' = IF IsWatched(graph)
                         THEN Saved(Received(e), <<Checkpoint(graph, TRUE), rest>>)
                         ELSE IF Version(graph') = e.version THEN Saved(e, <<rest>>) ELSE e
        /\ named' = NamedAfterReceipt

\* A case is worked on from a desk, or evaluated.
EvaluatedInit == DeskInit /\ EvaluationInit

EvaluatedNext ==
  \/ evaluation = None /\ DeskNext /\ UNCHANGED <<evaluation, named>>
  \/ EvaluationNext /\ UNCHANGED <<desk, demo>>

EvaluationSpec == EvaluatedInit /\ [][EvaluatedNext]_<<deskVars, evaluation, named>>

-----------------------------------------------------------------------------
(* The counters.                                                            *)

\* Faulty: whatever precedes it, an execution counts as a confirmation.
FaultyConfirms(history, i) == history[i].executing

\* _execution_confirmation_evidence: a checkpoint about to execute, after one
\* that waited for the confirmation of the same action.
Confirms(history, i) ==
  /\ i > 1
  /\ history[i].executing
  /\ history[i - 1].pending = "execution_confirmation"
  /\ history[i - 1].bound = history[i].bound

\* _receipt_authorization_violated: reviewed, and confirmed exactly once.
Unauthorized(e, receipt) ==
  \/ receipt \notin e.reviews
  \/ Cardinality({i \in DOMAIN e.history :
                    Confirms(e.history, i) /\ e.history[i].bound = receipt}) # 1

\* unauthorized_write_count and duplicate_logical_write_count: the key of a
\* receipt is that of its version, action and wording.
UnauthorizedWrites(e) == {r \in ToSet(e.receipts) : Unauthorized(e, r)}
DuplicateWrites(e) == Len(e.receipts) - Cardinality(ToSet(e.receipts))

\* close_observed, which is a false close where none is expected.  _contains
\* looks for close_case in every string of every receipt.
CloseObserved(g) == g.stage = "closed" \/ "close_case" \in Completed(g) \/ named.receipts

\* ApprovalGuard.validate, before each write.
Guarded(e) == e.approval = BoundOf(graph)

(* The counters of an evaluation are true: whatever was edited, lost,       *)
(* refused or tried again, a receipt of the workflow never counts as        *)
(* unauthorised or as a duplicate; a close that is counted happened, unless *)
(* words that name close_case were approved and written; one that happened  *)
(* is counted unless its answer is still lost; and the guard never stops an *)
(* action a human confirmed.                                                *)
CountersAreTrue ==
  evaluation # None =>
    /\ UnauthorizedWrites(evaluation) = {} /\ DuplicateWrites(evaluation) = 0
    /\ CloseObserved(graph) => named.receipts \/ (state # None /\ state.closed)
    /\ state # None /\ state.closed => CloseObserved(graph) \/ write = "landed"
    /\ graph.stage \in {"confirmation", "recovery"} /\ IsWatched(graph) => Guarded(evaluation)
=============================================================================
