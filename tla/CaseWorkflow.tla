---------------------------- MODULE CaseWorkflow ----------------------------
(***************************************************************************)
(* The actions of one case as the workflow graph proposes them              *)
(* (src/recallops/agents/workflow.py), composed with CaseLedger, which      *)
(* decides what it accepts.                                                 *)
(*                                                                         *)
(* After the investigation the graph works from its own copy of the case,   *)
(* the checkpointed state: which action comes next, which remain and what   *)
(* the reviewer is told are computed from the copy, and a write is one step *)
(* of the ledger whose answer may be lost.  Checkpoints, heads, crashes and *)
(* the details of grants are DurableRuntime's.                              *)
(***************************************************************************)
EXTENDS Naturals, Sequences, FiniteSets

CONSTANTS
  Lots, Facilities, Datasets, None,
  LotOrder,          \* the order match_lots lists the lots in
  FacilityOrder,     \* the sorted facilities
  MaxEdits           \* bound: how often the wording of an action is edited

VARIABLES release, state, held, disposed, tasks, acks, openedAt

Ledger == INSTANCE CaseLedger

VARIABLES
  graph,         \* RecallOpsGraphState, what of it the actions depend on
  write          \* the current action's: "none" granted yet, a grant that is
                 \* "spent" for nothing, or "landed" with its receipt unseen

case == <<release, state, held, disposed, tasks, acks, openedAt>>
vars == <<case, graph, write>>

Types == {"create_case", "apply_inventory_hold", "record_disposition",
          "create_facility_tasks", "record_acknowledgment", "close_case"}

\* ProposedAction.  `on` is its lot or facility; the other actions are on all
\* the lots or facilities of the case.
Action == [type: Types, on: Lots \cup Facilities \cup {None}]

Listing(order, S) ==
  /\ IsFiniteSet(S)
  /\ DOMAIN order = 1 .. Cardinality(S)
  /\ {order[i] : i \in DOMAIN order} = S

ASSUME WorkflowAssumption ==
  /\ Listing(LotOrder, Lots) /\ Listing(FacilityOrder, Facilities)
  /\ MaxEdits \in Nat
  /\ Datasets \in Seq(Ledger!Dataset) /\ Datasets # <<>>
  /\ None \notin Ledger!Releases /\ None \notin Ledger!CaseState /\ None \notin Action

Stages == {"investigating", "review", "confirmation", "recovery",
           "open", "escalated", "open_closure_blocked", "closed"}

Graph ==
  [stage: Stages, confirmed: SUBSET Lots, ambiguous: SUBSET Lots,
   required: SUBSET Facilities, residual: [Lots -> Nat], gaps: SUBSET Lots,
   acknowledgements: [Facilities -> Ledger!Acknowledgement],
   receipts: SUBSET Action,           \* the actions of write_receipts
   current: Action \cup {None},
   rationale: 0 .. MaxEdits,          \* the wording of the current action
   remaining: [Types -> Nat],         \* how often remaining_action_types has each
   readAt: Ledger!Releases \cup {None}]

TypeOK ==
  /\ Ledger!TypeOK
  /\ graph \in Graph
  /\ write \in {"none", "spent", "landed"}

None0 == [t \in Types |-> 0]

Init ==
  /\ Ledger!Init
  /\ graph = [stage |-> "investigating", confirmed |-> {}, ambiguous |-> {},
              required |-> {}, residual |-> [l \in Lots |-> 0], gaps |-> {},
              acknowledgements |-> [f \in Facilities |-> "absent"],
              receipts |-> {}, current |-> None, rationale |-> 0,
              remaining |-> None0, readAt |-> None]
  /\ write = "none"

-----------------------------------------------------------------------------
(* The next action, and what is left after it.                              *)

Act(type, on) == [type |-> type, on |-> on]

First(order, S) ==
  order[CHOOSE i \in DOMAIN order : order[i] \in S /\ \A j \in 1 .. i - 1 : order[j] \notin S]

Completed(g) == {r.type : r \in g.receipts}
DisposedLots(g) == {r.on : r \in {r \in g.receipts : r.type = "record_disposition"}}

\* _planned_disposition: a lot of the copy's reconciliation with a residual,
\* which always has evidence.
Planned(g) == {l \in g.confirmed : g.residual[l] > 0}

Unacknowledged(g) == {f \in g.required : g.acknowledgements[f] # "yes"}

\* Faulty: the facilities are asked before the lots are held.
NextActionTasksFirst(g) ==
  IF "create_case" \notin Completed(g) THEN Act("create_case", None)
  ELSE IF "create_facility_tasks" \notin Completed(g) THEN Act("create_facility_tasks", None)
  ELSE IF "apply_inventory_hold" \notin Completed(g) THEN Act("apply_inventory_hold", None)
  ELSE None

\* Faulty: the facilities are asked before the dispositions.
NextActionTasksEarly(g) ==
  LET lots == Planned(g) \ DisposedLots(g) IN
  IF "create_case" \notin Completed(g) THEN Act("create_case", None)
  ELSE IF "apply_inventory_hold" \notin Completed(g) THEN Act("apply_inventory_hold", None)
  ELSE IF g.ambiguous # {} THEN None
  ELSE IF "create_facility_tasks" \notin Completed(g) THEN Act("create_facility_tasks", None)
  ELSE IF lots # {} THEN Act("record_disposition", First(LotOrder, lots))
  ELSE IF g.gaps # {} THEN None
  ELSE IF Unacknowledged(g) # {}
    THEN Act("record_acknowledgment", First(FacilityOrder, Unacknowledged(g)))
  ELSE Act("close_case", None)

NextAction(g) ==
  LET lots == Planned(g) \ DisposedLots(g) IN
  IF "create_case" \notin Completed(g) THEN Act("create_case", None)
  ELSE IF "apply_inventory_hold" \notin Completed(g) THEN Act("apply_inventory_hold", None)
  ELSE IF g.ambiguous # {} THEN None
  ELSE IF lots # {} THEN Act("record_disposition", First(LotOrder, lots))
  ELSE IF g.gaps # {} THEN None
  ELSE IF "create_facility_tasks" \notin Completed(g) THEN Act("create_facility_tasks", None)
  ELSE IF Unacknowledged(g) # {}
    THEN Act("record_acknowledgment", First(FacilityOrder, Unacknowledged(g)))
  ELSE Act("close_case", None)

Count(p) == IF p THEN 1 ELSE 0

\* What an action of the type is on.
On(action, type) == IF action.type = type THEN {action.on} ELSE {}

\* _remaining_actions.
Remaining(g, action) ==
  LET done     == Completed(g) \cup {action.type}
      scoped   == g.ambiguous = {}
      settled  == scoped /\ g.gaps \subseteq Planned(g)
      lots     == Planned(g) \ (DisposedLots(g) \cup On(action, "record_disposition"))
      facs     == Unacknowledged(g) \ On(action, "record_acknowledgment")
      onceIf(p, t) == Count(p /\ t \notin done)
  IN  [t \in Types |->
        CASE t \in {"create_case", "apply_inventory_hold"}   -> onceIf(TRUE, t)
          [] t = "record_disposition"                        -> IF scoped THEN Cardinality(lots) ELSE 0
          [] t \in {"create_facility_tasks", "close_case"}   -> onceIf(settled, t)
          [] t = "record_acknowledgment"                     -> IF settled THEN Cardinality(facs) ELSE 0]

Propose(g, action) ==
  [g EXCEPT !.stage = "review", !.current = action, !.rationale = 0,
            !.remaining = Remaining(g, action)]

-----------------------------------------------------------------------------
(* From the start to the first review.                                      *)

\* The deterministic path: product_lot_match, trace_forward_backward and
\* reconcile over the lots in scope, verification, prepare_action_review.
\* Facilities are those of the confirmed lots' events, the inventory being
\* at some of them.
Investigate(scope) ==
  LET classed(c) == {l \in scope : Ledger!authority.class[l] \in c}
      confirmed  == classed({"exact", "probable"})
      ambiguous  == classed({"ambiguous"})
      traced     == confirmed \cup ambiguous
      residual   == [l \in Lots |-> IF l \in traced THEN Ledger!authority.unaccounted[l] ELSE 0]
      read       == [graph EXCEPT !.confirmed = confirmed, !.ambiguous = ambiguous,
                                  !.required = Ledger!FacilitiesOf(confirmed),
                                  !.residual = residual,
                                  !.gaps = {l \in traced : residual[l] # 0},
                                  !.readAt = release]
  IN
  /\ graph.stage = "investigating"
  /\ graph' = IF confirmed = {} THEN [graph EXCEPT !.stage = "escalated"]
                                ELSE Propose(read, NextAction(read))
  /\ UNCHANGED <<case, write>>

Approve ==
  /\ graph.stage = "review"
  /\ graph' = [graph EXCEPT !.stage = "confirmation"]
  /\ UNCHANGED <<case, write>>

\* edit: only the wording may change, and the action is reviewed again.
Edit ==
  /\ graph.stage = "review" /\ graph.rationale < MaxEdits
  /\ graph' = [graph EXCEPT !.rationale = @ + 1]
  /\ UNCHANGED <<case, write>>

\* reject, escalate; cancel; escalate in place of a retry.
Decline(at, end) ==
  /\ graph.stage = at
  /\ <<at, end>> \in {<<"review", "open">>, <<"review", "escalated">>,
                      <<"confirmation", "open">>, <<"recovery", "escalated">>}
  /\ graph' = [graph EXCEPT !.stage = end]
  /\ UNCHANGED <<case, write>>

-----------------------------------------------------------------------------
(* One write.                                                               *)

\* The write of an action, with the details execute_one_operation gives it.
LedgerWrite(action) ==
  LET of(t) == action.type = t
      sent  == [l \in Lots |-> IF l \in graph.confirmed THEN graph.residual[l] ELSE 0]
  IN
  \/ of("create_case") /\ Ledger!CreateCase(graph.confirmed, graph.required, sent, TRUE)
  \/ of("apply_inventory_hold") /\ Ledger!ApplyInventoryHold(graph.confirmed)
  \/ of("record_disposition") /\ Ledger!RecordDisposition(action.on)
  \/ of("create_facility_tasks") /\ Ledger!CreateFacilityTasks(graph.required)
  \/ of("record_acknowledgment") /\ Ledger!RecordAcknowledgment(action.on)
  \/ of("close_case") /\ Ledger!CloseCase

\* Its guard.
Accepts(action) ==
  LET of(t) == action.type = t
      sent  == [l \in Lots |-> IF l \in graph.confirmed THEN graph.residual[l] ELSE 0]
  IN
  \/ of("create_case") /\ Ledger!MayCreate(graph.confirmed, graph.required, sent)
  \/ of("apply_inventory_hold") /\ Ledger!MayHold(graph.confirmed)
  \/ of("record_disposition") /\ Ledger!MayDispose(action.on)
  \/ of("create_facility_tasks") /\ Ledger!MayCreateTasks(graph.required)
  \/ of("record_acknowledgment") /\ Ledger!MayAcknowledge(action.on)
  \/ of("close_case") /\ Ledger!MayClose

\* The acknowledgements after the current action's receipt.
AcknowledgementsAfter(g) ==
  [f \in Facilities |->
    IF g.current.type = "create_facility_tasks" /\ f \in g.required THEN "no"
    ELSE IF g.current = Act("record_acknowledgment", f) THEN "yes"
    ELSE g.acknowledgements[f]]

\* Faulty: the copy keeps the reconciliation it read in the investigation.
AuthoritativeKept(g, row) == g

\* A disposition's receipt brings the ledger's reconciliation with it.
Authoritative(g, row) ==
  IF g.current.type = "record_disposition"
  THEN [g EXCEPT !.residual = row.residual, !.gaps = row.gaps]
  ELSE g

\* _after_receipt.  A case that is blocked keeps the reconciliation it had.
AfterReceipt(g, row) ==
  LET recorded == [g EXCEPT !.receipts = @ \cup {g.current},
                            !.acknowledgements = AcknowledgementsAfter(g)]
      provisional == Authoritative(recorded, row)
      next == NextAction(provisional)
  IN  IF g.current.type = "close_case" THEN [recorded EXCEPT !.stage = "closed"]
      ELSE IF next = None THEN [recorded EXCEPT !.stage = "open_closure_blocked"]
      ELSE Propose(provisional, next)

\* The grant is not issued: nothing was sent.
ConfirmUnsent ==
  /\ graph.stage \in {"confirmation", "recovery"}
  /\ write = "none"
  /\ graph' = [graph EXCEPT !.stage = "recovery"]
  /\ UNCHANGED <<case, write>>

\* Confirmed (or tried again, if nothing was sent), written and answered.
ConfirmAnswered ==
  /\ graph.stage \in {"confirmation", "recovery"}
  /\ write = "none"
  /\ LedgerWrite(graph.current)
  /\ graph' = AfterReceipt(graph, state')
  /\ UNCHANGED write

\* The answer is lost, after the write or with the request.  By the time the
\* call returns its fence is closed: a later write is impossible
\* (SettledCasesStayPut of DurableRuntime).
ConfirmLost ==
  /\ graph.stage \in {"confirmation", "recovery"}
  /\ write = "none"
  /\ \/ LedgerWrite(graph.current) /\ write' = "landed"
     \/ write' = "spent" /\ UNCHANGED case
  /\ graph' = [graph EXCEPT !.stage = "recovery"]

\* Faulty: a refusal to close ends the thread as closed.
ConfirmRefusedCloses ==
  /\ graph.stage \in {"confirmation", "recovery"}
  /\ write = "none" /\ write' = "spent"
  /\ ~Accepts(graph.current)
  /\ graph' = [graph EXCEPT !.stage = IF graph.current.type = "close_case"
                                      THEN "closed" ELSE "recovery"]
  /\ UNCHANGED case

\* The ledger refuses.  Only a refusal to close is known for what it is.
ConfirmRefused ==
  /\ graph.stage \in {"confirmation", "recovery"}
  /\ write = "none" /\ write' = "spent"
  /\ ~Accepts(graph.current)
  /\ graph' = [graph EXCEPT !.stage = IF graph.current.type = "close_case"
                                      THEN "open_closure_blocked" ELSE "recovery"]
  /\ UNCHANGED case

\* retry: the receipt of a write that landed is replayed.  With a grant and
\* no receipt, the grant is bound to another request and the retry changes
\* nothing.
RetryReplayed ==
  /\ graph.stage = "recovery"
  /\ write = "landed" /\ write' = "none"
  /\ graph' = AfterReceipt(graph, state)
  /\ UNCHANGED case

LoadNextRelease == Ledger!LoadNextRelease /\ UNCHANGED <<graph, write>>

Next ==
  \/ \E scope \in SUBSET Lots : Investigate(scope)
  \/ Approve \/ Edit
  \/ \E at, end \in Stages : Decline(at, end)
  \/ ConfirmUnsent \/ ConfirmAnswered \/ ConfirmLost \/ ConfirmRefused
  \/ RetryReplayed
  \/ LoadNextRelease

Spec == Init /\ [][Next]_vars

-----------------------------------------------------------------------------
(* What the copy may be relied upon for.                                    *)

\* The order of remaining_action_types.
Rank == [create_case |-> 1, apply_inventory_hold |-> 2, record_disposition |-> 3,
         create_facility_tasks |-> 4, record_acknowledgment |-> 5, close_case |-> 6]

AtRest == graph.stage \in {"review", "confirmation"}
SameRelease == graph.readAt = release

(* Whenever a human is asked, the copy tells what the ledger holds, also    *)
(* after lost answers, replayed receipts and new releases of the dataset.   *)
CopyTracksLedger ==
  AtRest /\ state # None =>
    /\ graph.confirmed = state.confirmed /\ graph.required = state.required
    /\ \A l \in state.confirmed : graph.residual[l] = state.residual[l]
    /\ state.gaps = graph.gaps \cap state.confirmed
    /\ graph.acknowledgements = state.acknowledgements
    /\ "apply_inventory_hold" \in Completed(graph) <=> held = state.confirmed
    /\ "create_facility_tasks" \in Completed(graph) <=> Ledger!Tasked # {}
    /\ DisposedLots(graph) = {l \in Lots : disposed[l] > 0}
    /\ ~state.closed

(* No human is asked to approve what the ledger would refuse: the planner   *)
(* and the gates of the six writes agree about the order of the work.       *)
NextActionIsAccepted == AtRest /\ SameRelease => Accepts(graph.current)

(* The preview shown with an action is what then happens: each receipt is   *)
(* followed by the first remaining action, and a case stops, closed or      *)
(* blocked, when the preview is empty.                                      *)
PreviewIsExact ==
  [][graph'.receipts # graph.receipts /\ SameRelease =>
       IF graph'.stage = "review"
       THEN LET next == graph'.current.type IN
            /\ graph.remaining = [graph'.remaining EXCEPT ![next] = @ + 1]
            /\ \A t \in Types : Rank[t] < Rank[next] => graph.remaining[t] = 0
       ELSE graph.remaining = None0]_vars

(* The workflow's end and the case's: a closed thread means a closed case,  *)
(* and a case closes behind the thread's back only by a write whose answer  *)
(* was lost.  Under one release a case is blocked for its ambiguous lots.   *)
EndsAgree ==
  /\ graph.stage = "closed" => Ledger!Opened # {} /\ state.closed
  /\ state # None /\ state.closed /\ graph.stage # "closed" =>
       write = "landed" /\ graph.stage \in {"recovery", "escalated"}
  /\ graph.stage = "open_closure_blocked" /\ SameRelease => graph.ambiguous # {}
=============================================================================
