------------------------------ MODULE DemoCase ------------------------------
(***************************************************************************)
(* The offline walkthrough: DeterministicDemoAdapter                        *)
(* (src/recallops/ui/adapter.py).  It has no runtime and no store: the      *)
(* whole case is the mapping the session passes back and forth, and the     *)
(* binding of interrupt, approval and action is checked on that mapping.    *)
(***************************************************************************)
EXTENDS Naturals

CONSTANTS
  NoDemo,        \* nothing pending, no approval, no case
  DemoWordings   \* the wordings of an action, 0 the drafted one

VARIABLE demo    \* the case mapping

Steps == {"create_case", "apply_inventory_hold"}

\* One of proposed_actions with its digest, at a version of the case; the same
\* fields bind interrupts (with their kind) and approvals.
Bindings == [step: Steps, wording: DemoWordings, version: Nat]

Cases ==
  [status: {"investigating", "review_required", "approved_pending_execution",
            "open_monitoring", "open_closure_blocked", "open", "escalated"},
   version: Nat, proposed: Bindings \cup {NoDemo},
   kind: {"none", "action_review", "execution_confirmation"},
   interrupt: Bindings \cup {NoDemo}, approval: Bindings \cup {NoDemo},
   receipts: SUBSET Steps, panel: {"none", "blocked"}]

DemoInit == demo = NoDemo

Proposal(step, version) == [step |-> step, wording |-> 0, version |-> version]

\* open_case, for the pinned recall only.
OpenDemo ==
  /\ demo = NoDemo
  /\ demo' = [status |-> "investigating", version |-> 0, proposed |-> NoDemo,
              kind |-> "none", interrupt |-> NoDemo, approval |-> NoDemo,
              receipts |-> {}, panel |-> "none"]

Review(d, action) ==
  [d EXCEPT !.proposed = action, !.interrupt = action, !.kind = "action_review",
            !.status = "review_required"]

Rest(d, status) ==
  [d EXCEPT !.interrupt = NoDemo, !.kind = "none", !.status = status]

\* A second run returns the case as it is.
RunDemo ==
  /\ demo # NoDemo /\ demo.status = "investigating"
  /\ demo' = Review(demo, Proposal("create_case", demo.version))

\* _require_interrupt: the pending interrupt is for the one proposed action
\* at the current version.
Requires(kind) ==
  /\ demo # NoDemo /\ demo.kind = kind
  /\ demo.interrupt = demo.proposed
  /\ demo.interrupt.version = demo.version

ReviewDemo ==
  /\ Requires("action_review")
  /\ \/ demo' = [demo EXCEPT !.approval = demo.proposed, !.kind = "execution_confirmation",
                             !.status = "approved_pending_execution"]
     \/ \E wording \in DemoWordings :
          demo' = [Review(demo, [demo.proposed EXCEPT !.wording = wording])
                   EXCEPT !.approval = NoDemo]
     \/ \E end \in {"open", "escalated"} :
          demo' = [Rest(demo, end) EXCEPT !.approval = NoDemo]

\* Faulty: the approval of the case is taken for that of the hold as well.
FaultyAfterWrite(d) ==
  IF d.proposed.step = "create_case"
  THEN [Review(d, Proposal("apply_inventory_hold", d.version))
        EXCEPT !.approval = Proposal("apply_inventory_hold", d.version),
               !.kind = "execution_confirmation"]
  ELSE [Rest(d, "open_monitoring") EXCEPT !.proposed = NoDemo]

\* The hold follows the creation; after it the case is monitored.
AfterWrite(d) ==
  IF d.proposed.step = "create_case"
  THEN Review(d, Proposal("apply_inventory_hold", d.version))
  ELSE [Rest(d, "open_monitoring") EXCEPT !.proposed = NoDemo]

\* simulate_approved_actions: the approval is checked once more, against the
\* version and the digest.
SimulateDemo ==
  /\ Requires("execution_confirmation")
  /\ demo.approval # NoDemo
  /\ demo.approval = demo.proposed /\ demo.approval.version = demo.version
  /\ demo' = AfterWrite([demo EXCEPT !.receipts = @ \cup {demo.proposed.step},
                                     !.version = @ + 1, !.approval = NoDemo])

\* request_closure: the flagship data always has gaps, an ambiguous lot and
\* silent facilities.  It overwrites the status and leaves what is pending.
ClosureDemo ==
  /\ demo # NoDemo /\ demo.status # "investigating"
  /\ demo' = [demo EXCEPT !.status = "open_closure_blocked", !.panel = "blocked"]

DemoNext == OpenDemo \/ RunDemo \/ ReviewDemo \/ SimulateDemo \/ ClosureDemo
=============================================================================
