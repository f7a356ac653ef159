-------------------------- MODULE DeskRecordProofs --------------------------
(***************************************************************************)
(* Proofs about the record a session of CaseDesk shows: a decision takes    *)
(* effect only on the record the human saw, and the closure panel is true   *)
(* of it (both by what an earlier record may differ in from the             *)
(* checkpoint); the desk implements ReviewedWrites; the preview of what is  *)
(* left to do is what then happens; and the counters of Evaluation, which   *)
(* are computed from the checkpoints such a run leaves, are true.           *)
(***************************************************************************)
EXTENDS CaseDeskProofs, Evaluation

\* The record of a case that was opened and not started.
Blank ==
  [stage |-> "investigating", confirmed |-> {}, ambiguous |-> {},
   required |-> {}, residual |-> [l \in Lots |-> 0], gaps |-> {},
   acknowledgements |-> [f \in Facilities |-> "absent"],
   receipts |-> {}, current |-> None, rationale |-> 0,
   remaining |-> None0, readAt |-> None]

\* The receipts are those of a plan, in which no action comes twice.
Orderly(g) ==
  /\ "close_case" \notin Completed(g)
  /\ "record_acknowledgment" \in Completed(g) => "create_facility_tasks" \in Completed(g)
  /\ \A f \in Facilities :
       Act("record_acknowledgment", f) \in g.receipts => g.acknowledgements[f] = "yes"

\* All but the stage and the wording.
SameRecord(g, k) ==
  SameCopy(g, k) /\ k.current = g.current /\ k.remaining = g.remaining

GraphRecords ==
  /\ graph.stage = "investigating" => graph = Blank
  /\ IsFiniteSet(graph.receipts)
  /\ graph.stage # "closed" => Orderly(graph)

\* A record the graph may have had, which the case has not left behind unless
\* by another receipt.
Earlier(g) ==
  /\ g \in Graph
  /\ IF HasCheckpoint(g) THEN HasCheckpoint(graph) ELSE g = Blank
  /\ g.receipts \subseteq graph.receipts
  /\ HasCheckpoint(g) /\ g.receipts = graph.receipts => SameRecord(graph, g)
  /\ g.stage = "review" => g.current = NextAction(g) /\ g.current # None
  /\ g.stage = "closed" => state # None /\ state.closed

DeskRecords ==
  desk # None =>
    /\ DOMAIN desk = {"shown", "armed", "panel"}
    /\ Earlier(desk.shown)
    /\ desk.panel \in {"none", PanelOf(desk.shown)}

RecordInv == WorkflowInv /\ GraphRecords /\ DeskRecords

-----------------------------------------------------------------------------
(* The steps of the graph.                                                  *)

(* Whatever is proposed is proposed for review, with the receipts so far.   *)
LEMMA ProposedStage ==
  ASSUME NEW g, NEW a, {"stage", "receipts"} \subseteq DOMAIN g
  PROVE  Propose(g, a).stage = "review" /\ Propose(g, a).receipts = g.receipts
BY DEF Propose

(* The next action was not done before.                                     *)
LEMMA NextIsNew ==
  ASSUME NEW g \in Graph, Orderly(g), NextAction(g) # None
  PROVE  NextAction(g) \notin g.receipts
<1> SUFFICES ASSUME NextAction(g) \in g.receipts PROVE FALSE
  OBVIOUS
<1> DEFINE lots == Planned(g) \ DisposedLots(g)
<1>1. NextAction(g).type \in Completed(g)
  BY DEF Completed
<1>2. \A t, on : Act(t, on).type = t /\ Act(t, on).on = on
  BY DEF Act
<1>3. lots # {} => First(LotOrder, lots) \in lots
  <2>1. lots \in SUBSET Lots /\ Listing(LotOrder, Lots)
    BY WorkflowAssumption DEF WorkflowAssumption, Planned, Graph
  <2> HIDE DEF lots
  <2> QED BY <2>1, FirstIsIn
<1>4. Unacknowledged(g) # {} => First(FacilityOrder, Unacknowledged(g)) \in Unacknowledged(g)
  <2>1. Unacknowledged(g) \in SUBSET Facilities /\ Listing(FacilityOrder, Facilities)
    BY WorkflowAssumption DEF WorkflowAssumption, Unacknowledged, Graph
  <2> QED BY <2>1, FirstIsIn
<1>5. NextAction(g).type = "record_disposition" => NextAction(g).on \in DisposedLots(g)
  BY DEF DisposedLots
<1> HIDE DEF lots
<1>6. CASE lots # {} /\ NextAction(g) = Act("record_disposition", First(LotOrder, lots))
  BY <1>2, <1>3, <1>5, <1>6 DEF lots
<1>7. CASE Unacknowledged(g) # {} /\
           NextAction(g) = Act("record_acknowledgment", First(FacilityOrder, Unacknowledged(g)))
  BY <1>2, <1>4, <1>7 DEF Orderly, Unacknowledged, Graph
<1>8. \/ lots # {} /\ NextAction(g) = Act("record_disposition", First(LotOrder, lots))
      \/ Unacknowledged(g) # {} /\
           NextAction(g) = Act("record_acknowledgment", First(FacilityOrder, Unacknowledged(g)))
  BY <1>1, <1>2 DEF NextAction, lots, Orderly
<1> QED BY <1>6, <1>7, <1>8

\* The three ways a record of the graph comes about.
Started ==
  /\ graph.stage = "investigating" /\ graph'.stage \in {"review", "escalated"}
  /\ graph'.receipts = graph.receipts

Moved ==
  /\ graph' \in Graph
  /\ SameRecord(graph, graph') /\ graph'.rationale \in 0 .. MaxEdits
  /\ \/ graph' = graph
     \/ /\ graph.stage = "review" /\ graph'.stage \in {"review", "confirmation"}
        /\ graph'.stage = "confirmation" => graph'.rationale = graph.rationale
     \/ /\ graph.stage \in {"confirmation", "recovery"} /\ graph'.stage = "recovery"
        /\ graph'.rationale = graph.rationale
     \/ /\ graph.stage \in {"review", "confirmation", "recovery"}
        /\ graph'.stage \in {"open", "escalated", "open_closure_blocked"}

Receipted ==
  /\ graph.stage \in {"confirmation", "recovery"}
  /\ \E row \in Ledger!CaseState : graph' = AfterReceipt(graph, row)

(* An answer, and the replay of one, bring the receipt of the action.       *)
LEMMA AnsweredIsReceipted ==
  ASSUME RecordInv, WorkflowInv', ConfirmAnswered \/ RetryReplayed
  PROVE  Receipted
<1> USE DEF RecordInv, WorkflowInv, Typed
<1>1. CASE ConfirmAnswered
  <2>1. graph.current = NextAction(graph) /\ graph.current # None
    BY <1>1 DEF ConfirmAnswered, InHand
  <2>2. Sound' /\ Stepping
    <3>1. LedgerHolds' => Sound'
      BY HoldsSound, PTL
    <3> QED BY <3>1, HoldsSound DEF Stepping
  <2>3. state' \in Ledger!CaseState
    BY <1>1, <2>2, SendingIsWriting DEF ConfirmAnswered, Copied, Sound
  <2> QED BY <1>1, <2>3 DEF ConfirmAnswered, Receipted
<1>2. CASE RetryReplayed
  <2>1. state \in Ledger!CaseState
    BY <1>2, HoldsSound DEF RetryReplayed, InHand, Sound
  <2> QED BY <1>2, <2>1 DEF RetryReplayed, Receipted
<1> QED BY <1>1, <1>2

(* There is no other way.                                                   *)
LEMMA GraphMoves ==
  ASSUME RecordInv, GraphStep, WorkflowInv'
  PROVE  Started \/ Moved \/ Receipted
<1> USE DEF RecordInv, WorkflowInv, Typed
<1>1. ASSUME NEW s \in Stages, graph' = [graph EXCEPT !.stage = s],
             \/ graph.stage = "review" /\ s = "confirmation"
             \/ graph.stage \in {"confirmation", "recovery"} /\ s = "recovery"
             \/ /\ graph.stage \in {"review", "confirmation", "recovery"}
                /\ s \in {"open", "escalated", "open_closure_blocked"}
      PROVE  Moved
  BY <1>1, Restaged DEF Moved, SameRecord, Graph
<1>2. ASSUME UNCHANGED graph PROVE Moved
  BY <1>2 DEF Moved, SameRecord, SameCopy, Graph
<1>3. ASSUME NEW scope \in SUBSET Lots, Investigate(scope) PROVE Started
  <2>1. \/ graph' = [graph EXCEPT !.stage = "escalated"]
        \/ \E g, a : /\ {"stage", "receipts"} \subseteq DOMAIN g /\ g.receipts = graph.receipts
                     /\ graph' = Propose(g, a)
    <3>1. ASSUME NEW c, NEW m, NEW q, NEW r, NEW h, NEW v
          PROVE  LET g == [graph EXCEPT !.confirmed = c, !.ambiguous = m, !.required = q,
                                        !.residual = r, !.gaps = h, !.readAt = v]
                 IN  {"stage", "receipts"} \subseteq DOMAIN g /\ g.receipts = graph.receipts
      BY DEF Graph
    <3> QED BY <1>3, <3>1 DEF Investigate
  <2>3. graph' = [graph EXCEPT !.stage = "escalated"] =>
          graph'.stage = "escalated" /\ graph'.receipts = graph.receipts
    BY Restaged DEF Stages, SameCopy
  <2>4. \A g, a : {"stage", "receipts"} \subseteq DOMAIN g =>
          Propose(g, a).stage = "review" /\ Propose(g, a).receipts = g.receipts
    BY ProposedStage
  <2>2. graph'.stage \in {"escalated", "review"} /\ graph'.receipts = graph.receipts
    BY <2>1, <2>3, <2>4
  <2> QED BY <1>3, <2>2 DEF Investigate, Started, HasCheckpoint
<1>4. ASSUME ~HasCheckpoint(graph), graph' = [graph EXCEPT !.stage = "escalated"] PROVE Started
  BY <1>4, Restaged DEF Started, HasCheckpoint, Stages, SameCopy
<1>5. CASE Approve \/ \E at, end \in Stages : Decline(at, end)
  BY <1>1, <1>5 DEF Approve, Decline, Stages
<1>6. CASE Edit
  <2>1. /\ graph' = [graph EXCEPT !.rationale = graph.rationale + 1] /\ graph.stage = "review"
        /\ graph' \in Graph
    BY <1>6 DEF Edit, Graph
  <2> DEFINE r == graph.rationale + 1
  <2>2. graph' = [graph EXCEPT !.rationale = r]
    BY <2>1
  <2> HIDE DEF r
  <2> QED BY <2>1, <2>2 DEF Moved, SameRecord, SameCopy, Graph
<1>7. CASE ConfirmUnsent \/ ConfirmLost \/ ConfirmRefused \/ DropResponse
  BY <1>1, <1>7 DEF ConfirmUnsent, ConfirmLost, ConfirmRefused, DropResponse, Stages
<1>8. CASE ConfirmAnswered \/ RetryReplayed
  BY <1>8, AnsweredIsReceipted
<1>9. CASE LoadNextRelease \/ UNCHANGED vars
  BY <1>2, <1>9 DEF LoadNextRelease, vars
<1> QED BY <1>3, <1>4, <1>5, <1>6, <1>7, <1>8, <1>9 DEF GraphStep

(* A receipt is a new one, and leaves the receipts those of a plan.         *)
LEMMA ReceiptedRecords ==
  ASSUME RecordInv, WorkflowInv', Receipted
  PROVE  /\ GraphRecords' /\ HasCheckpoint(graph')
         /\ graph'.receipts = graph.receipts \cup {graph.current}
         /\ graph.current \notin graph.receipts
         /\ graph'.stage \in {"review", "closed", "open_closure_blocked"}
<1> USE DEF RecordInv, WorkflowInv, Typed
<1>1. PICK row \in Ledger!CaseState : graph' = AfterReceipt(graph, row)
  BY DEF Receipted
<1> DEFINE k == WithReceipt(graph, row)
           recorded == [graph EXCEPT !.receipts = @ \cup {graph.current},
                                     !.acknowledgements = AcknowledgementsAfter(graph)]
<1>2. /\ graph.current = NextAction(graph) /\ graph.current # None /\ graph.current \in Action
      /\ Orderly(graph) /\ IsFiniteSet(graph.receipts)
  BY NextActionType DEF Receipted, InHand, GraphRecords
<1>3. graph.current \notin graph.receipts
  BY <1>2, NextIsNew
<1>4. /\ k \in Graph /\ k.receipts = graph.receipts \cup {graph.current}
      /\ k.acknowledgements = AcknowledgementsAfter(graph)
  BY <1>2, ReceivedFields
<1>5. recorded.receipts = graph.receipts \cup {graph.current} /\ "stage" \in DOMAIN recorded
  BY DEF Graph
<1>6. graph' = IF graph.current.type = "close_case" THEN [recorded EXCEPT !.stage = "closed"]
               ELSE IF NextAction(k) = None THEN [recorded EXCEPT !.stage = "open_closure_blocked"]
               ELSE Propose(k, NextAction(k))
  BY <1>1 DEF AfterReceipt, WithReceipt
<1>7. recorded.acknowledgements = AcknowledgementsAfter(graph)
  BY DEF Graph
<1> HIDE DEF k, recorded
<1>8. NextAction(k) # None => /\ Propose(k, NextAction(k)).stage = "review"
                              /\ SameCopy(k, Propose(k, NextAction(k)))
  BY <1>4, NextActionType, Proposed
<1>9. /\ graph'.receipts = graph.receipts \cup {graph.current}
      /\ graph'.acknowledgements = AcknowledgementsAfter(graph)
      /\ HasCheckpoint(graph')
      /\ graph'.stage = "closed" <=> graph.current.type = "close_case"
      /\ graph'.stage \in {"review", "closed", "open_closure_blocked"}
  <2>1. ASSUME NEW s \in Stages, graph' = [recorded EXCEPT !.stage = s]
        PROVE  /\ graph'.receipts = recorded.receipts /\ graph'.stage = s
               /\ graph'.acknowledgements = recorded.acknowledgements
    BY <1>5, <2>1
  <2>2. CASE graph.current.type = "close_case"
    BY <1>5, <1>6, <1>7, <2>1, <2>2 DEF HasCheckpoint, Stages
  <2>3. CASE graph.current.type # "close_case" /\ NextAction(k) = None
    BY <1>5, <1>6, <1>7, <2>1, <2>3 DEF HasCheckpoint, Stages
  <2>4. CASE graph.current.type # "close_case" /\ NextAction(k) # None
    BY <1>4, <1>6, <1>8, <2>4 DEF HasCheckpoint, SameCopy
  <2> QED BY <2>2, <2>3, <2>4
<1>10. Completed(graph') = Completed(graph) \cup {graph.current.type}
  BY <1>9 DEF Completed
<1>11. ASSUME graph'.stage # "closed" PROVE Orderly(graph')
  <2> DEFINE ack(f) == Act("record_acknowledgment", f)
  <2>1. \A f : ack(f).type = "record_acknowledgment"
    BY DEF Act
  <2>2. graph.current.type = "record_acknowledgment" => "create_facility_tasks" \in Completed(graph)
    <3>1. \A t, on : Act(t, on).type = t
      BY DEF Act
    <3> QED BY <1>2, <3>1 DEF NextAction
  <2>3. graph.current.type = "create_facility_tasks" => "create_facility_tasks" \notin Completed(graph)
    <3>1. \A t, on : Act(t, on).type = t
      BY DEF Act
    <3> QED BY <1>2, <3>1 DEF NextAction
  <2>4. ASSUME NEW f \in Facilities, ack(f) \in graph'.receipts
        PROVE  graph'.acknowledgements[f] = "yes"
    <3>1. CASE ack(f) = graph.current
      BY <1>9, <2>1, <3>1 DEF AcknowledgementsAfter
    <3>2. CASE ack(f) \in graph.receipts
      <4>1. "record_acknowledgment" \in Completed(graph)
        BY <2>1, <3>2 DEF Completed
      <4>2. graph.current.type # "create_facility_tasks"
        BY <1>2, <2>3, <4>1 DEF Orderly
      <4> QED BY <1>2, <1>9, <3>2, <4>2 DEF AcknowledgementsAfter, Orderly
    <3> QED BY <1>9, <2>4, <3>1, <3>2
  <2> QED BY <1>2, <1>9, <1>10, <1>11, <2>2, <2>4 DEF Orderly
<1>12. IsFiniteSet(graph'.receipts)
  BY <1>2, <1>9, FS_AddElement
<1> QED BY <1>2, <1>3, <1>9, <1>11, <1>12 DEF GraphRecords, HasCheckpoint

(* What the case keeps of an earlier record when the graph moves on.        *)
LEMMA RecordsOfGraph ==
  ASSUME RecordInv, GraphStep, WorkflowInv'
  PROVE  GraphRecords' /\ \A g : Earlier(g) => Earlier(g)'
<1> USE DEF RecordInv, WorkflowInv, Typed
<1>1. GraphStep => LedgerStep
  BY GraphStepsTheLedger
<1>2. state # None /\ state.closed => state' = state
  BY <1>1 DEF LedgerStep, Ledger!CreateCase, Ledger!MayCreate, Ledger!ApplyInventoryHold,
              Ledger!MayHold, Ledger!CreateFacilityTasks, Ledger!MayCreateTasks,
              Ledger!RecordAcknowledgment, Ledger!MayAcknowledge, Ledger!RecordDisposition,
              Ledger!MayDispose, Ledger!CloseCase, Ledger!MayClose, Ledger!LoadNextRelease,
              Ledger!Open, case
<1>3. CASE Started
  <2>1. graph = Blank /\ graph.receipts = {} /\ graph'.receipts = {} /\ HasCheckpoint(graph')
    BY <1>3 DEF Started, GraphRecords, Blank, HasCheckpoint
  <2>2. GraphRecords'
    <3>1. Completed(graph') = {}
      BY <2>1 DEF Completed
    <3> QED BY <2>1, <3>1, FS_EmptySet DEF GraphRecords, Orderly, HasCheckpoint
  <2>3. ASSUME NEW g, Earlier(g) PROVE Earlier(g)'
    <3>1. g = Blank /\ ~HasCheckpoint(g)
      BY <1>3, <2>3 DEF Earlier, Started, HasCheckpoint, Blank
    <3> QED BY <2>1, <2>3, <3>1 DEF Earlier, HasCheckpoint, Blank
  <2> QED BY <2>2, <2>3
<1>4. CASE Moved
  <2>1. GraphRecords'
    <3>1. Completed(graph') = Completed(graph)
      BY <1>4 DEF Moved, SameRecord, SameCopy, Completed
    <3> QED BY <1>4, <3>1 DEF Moved, SameRecord, SameCopy, GraphRecords, Orderly, HasCheckpoint
  <2>2. ASSUME NEW g, Earlier(g) PROVE Earlier(g)'
    BY <1>2, <1>4, <2>2 DEF Moved, SameRecord, SameCopy, Earlier, HasCheckpoint
  <2> QED BY <2>1, <2>2
<1>5. CASE Receipted
  <2>1. ASSUME NEW g, Earlier(g) PROVE Earlier(g)'
    BY <1>2, <1>5, <2>1, ReceiptedRecords DEF Earlier
  <2> QED BY <1>5, <2>1, ReceiptedRecords
<1> QED BY <1>3, <1>4, <1>5, GraphMoves

-----------------------------------------------------------------------------
(* The steps of the desk.                                                   *)

(* The graph's record is one a session may be shown.                        *)
LEMMA GraphIsEarlier ==
  ASSUME WorkflowInv, GraphRecords
  PROVE  Earlier(graph)
BY DEF WorkflowInv, Typed, InHand, Ended, GraphRecords, Earlier, HasCheckpoint, SameRecord, SameCopy

(* A session starts with nothing.                                           *)
LEMMA InitRecordInv == DeskInit => RecordInv
<1> SUFFICES ASSUME DeskInit PROVE RecordInv
  OBVIOUS
<1>1. graph = Blank /\ graph.receipts = {} /\ WorkflowInv
  BY InitWorkflowInv DEF DeskInit, Init, Blank
<1>2. Completed(graph) = {}
  BY <1>1 DEF Completed
<1> QED BY <1>1, <1>2, FS_EmptySet DEF RecordInv, GraphRecords, Orderly, DeskRecords, DeskInit

(* What a step of the desk may show: nothing new, the record after the      *)
(* step, or the answer of the closure panel.                                *)
LEMMA DeskMoves ==
  ASSUME [DeskNext]_deskVars
  PROVE  \/ UNCHANGED desk
         \/ \E armed : desk' = [shown |-> graph', armed |-> armed, panel |-> "none"]
         \/ UNCHANGED vars /\ desk # None /\ \E armed : desk' = [desk EXCEPT !.armed = armed]
         \/ UNCHANGED vars /\ desk # None /\ RequestClosure
<1>1. CASE OpenCase
  BY <1>1 DEF OpenCase, Reload, Show, vars
<1>2. CASE \E scope \in SUBSET Lots : RunInvestigation(scope)
  BY <1>2 DEF RunInvestigation, Reload, Show, vars
<1>3. CASE ResumeReview
  BY <1>3 DEF ResumeReview, Reload, Show, vars
<1>4. CASE SimulateApprovedActions
  BY <1>4 DEF SimulateApprovedActions, Show
<1>5. CASE RequestClosure
  BY <1>5 DEF RequestClosure
<1>6. CASE \E scenario \in Scenarios : InjectFailure(scenario)
  BY <1>6 DEF InjectFailure
<1>7. CASE UNCHANGED desk \/ Elsewhere
  BY <1>7 DEF Elsewhere
<1> QED BY <1>1, <1>2, <1>3, <1>4, <1>5, <1>6, <1>7 DEF DeskNext, DurableNext, deskVars

(* The invariant of the records is inductive.                               *)
LEMMA NextRecordInv == RecordInv /\ [DeskNext]_deskVars => RecordInv'
<1> SUFFICES ASSUME RecordInv, [DeskNext]_deskVars PROVE RecordInv'
  OBVIOUS
<1>1. WorkflowInv' /\ GraphStep
  BY NextWorkflowInv, DeskStepsTheGraph DEF RecordInv
<1>2. GraphRecords' /\ \A g : Earlier(g) => Earlier(g)'
  BY <1>1, RecordsOfGraph
<1>3. Earlier(graph)'
  <2>1. WorkflowInv' /\ GraphRecords' => Earlier(graph)'
    BY GraphIsEarlier, PTL
  <2> QED BY <1>1, <1>2, <2>1
<1>4. CASE UNCHANGED desk
  BY <1>1, <1>2, <1>4 DEF RecordInv, DeskRecords
<1>5. ASSUME NEW armed, desk' = [shown |-> graph', armed |-> armed, panel |-> "none"]
      PROVE  RecordInv'
  BY <1>1, <1>2, <1>3, <1>5 DEF RecordInv, DeskRecords, Earlier
<1>6. ASSUME NEW armed, UNCHANGED vars, desk # None, desk' = [desk EXCEPT !.armed = armed]
      PROVE  RecordInv'
  <2>1. /\ desk'.shown = desk.shown /\ desk'.panel = desk.panel
        /\ DOMAIN desk' = {"shown", "armed", "panel"}
    BY <1>6 DEF RecordInv, DeskRecords
  <2> QED BY <1>1, <1>2, <1>6, <2>1 DEF RecordInv, DeskRecords
<1>7. CASE UNCHANGED vars /\ desk # None /\ RequestClosure
  <2> DEFINE record == IF HasCheckpoint(desk.shown) THEN graph ELSE desk.shown
  <2>1. /\ desk'.shown = record /\ desk'.panel = PanelOf(record)
        /\ DOMAIN desk' = {"shown", "armed", "panel"}
    BY <1>7 DEF RequestClosure
  <2>2. \E r : r = record /\ Earlier(r)'
    <3>1. HasCheckpoint(desk.shown) => record = graph'
      BY <1>7 DEF vars
    <3>2. \E r : r = graph' /\ Earlier(r)'
      BY <1>3 DEF Earlier
    <3>3. \E r : r = desk.shown /\ Earlier(r)'
      <4>1. \E r : r = desk.shown /\ Earlier(r)
        BY <1>7 DEF RecordInv, DeskRecords
      <4> QED BY <1>2, <4>1
    <3> QED BY <3>1, <3>2, <3>3
  <2> HIDE DEF record
  <2> QED BY <1>1, <1>2, <2>1, <2>2 DEF RecordInv, DeskRecords, Earlier
<1> QED BY <1>4, <1>5, <1>6, <1>7, DeskMoves

(* The invariant of the records.                                            *)
LEMMA RecordInvariant == DeskSpec => []RecordInv
  BY InitRecordInv, NextRecordInv, PTL DEF DeskSpec

-----------------------------------------------------------------------------
(* What the session may be trusted with.                                    *)

(* The kind of an interrupt tells the stage that waits for it.              *)
LEMMA KindsOfStages ==
  ASSUME NEW g
  PROVE  /\ Kind(g) = "action_review" => g.stage = "review"
         /\ Kind(g) = "closure_review" <=> g.stage = "review" /\ g.current.type = "close_case"
         /\ Kind(g) = "execution_confirmation" <=> g.stage = "confirmation"
         /\ Kind(g) = "write_outcome_recovery" <=> g.stage = "recovery"
BY DeskAssumption DEF DeskAssumption, Kinds, Kind

(* The closure panel asks for the final review exactly when it is pending   *)
(* and the ledger would close, and what it shows as closed is closed.       *)
THEOREM PanelTellsTheTruth == DeskSpec => []ClosurePanelIsTrue
<1>1. RecordInv => ClosurePanelIsTrue
  <2> SUFFICES ASSUME RecordInv, desk # None, desk.panel # "none"
               PROVE  /\ (desk.panel = "review") = AwaitsClosureReview(desk.shown)
                      /\ desk.panel = "review" /\ desk.shown = graph /\ SameRelease
                           => Ledger!MayClose
                      /\ desk.panel = "closed" => state # None /\ state.closed
    BY DEF ClosurePanelIsTrue
  <2> DEFINE g == desk.shown
  <2>1. desk.panel = PanelOf(g) /\ Earlier(g)
    BY DEF RecordInv, DeskRecords
  <2> HIDE DEF g
  <2>2. AwaitsClosureReview(g) <=> g.stage = "review" /\ g.current.type = "close_case"
    BY KindsOfStages DEF AwaitsClosureReview
  <2>3. AwaitsClosureReview(g) => g.gaps = {} /\ Unacknowledged(g) = {} /\ g.ambiguous = {}
    <3>1. \A t, on : Act(t, on).type = t
      BY DEF Act
    <3> QED BY <2>1, <2>2, <3>1 DEF Earlier, NextAction
  <2>4. PanelOf(g) \in {"closed", "blocked", "review"}
        /\ (PanelOf(g) = "review" <=> AwaitsClosureReview(g))
        /\ (PanelOf(g) = "closed" <=> g.stage = "closed")
    BY <2>2, <2>3 DEF PanelOf
  <2>5. ASSUME desk.panel = "review", g = graph, SameRelease PROVE Ledger!MayClose
    <3>1. graph.stage = "review" /\ graph.current.type = "close_case"
      BY <2>1, <2>2, <2>4, <2>5
    <3>2. Waiting
      BY <2>5, <3>1, HoldsSound
         DEF RecordInv, WorkflowInv, InHand, Typed, SameRelease, Waiting
    <3> QED BY <3>1, <3>2, NextIsAccepted DEF Accepts
  <2>6. AwaitsClosureReview(g) \in BOOLEAN
    BY DEF AwaitsClosureReview
  <2> QED BY <2>1, <2>4, <2>5, <2>6 DEF g, Earlier
<1> QED BY <1>1, RecordInvariant, PTL

(* Two records of one identity are the same record.                         *)
LEMMA IdentityIsEnough ==
  ASSUME RecordInv, desk # None, Bound, MaySubmitReview(desk.shown) \/ MaySimulate(desk.shown)
  PROVE  desk.shown = graph
<1> DEFINE g == desk.shown
<1>1. Earlier(g) /\ IsFiniteSet(graph.receipts) /\ graph \in Graph /\ g \in Graph
  BY DEF RecordInv, DeskRecords, GraphRecords, WorkflowInv, Typed, Earlier
<1>2. /\ Kind(g) = Kind(graph) /\ Version(g) = Version(graph) /\ g.rationale = graph.rationale
      /\ MaySubmitReview(g) \/ MaySimulate(g)
  BY DEF Bound, Identity
<1> HIDE DEF g
<1>3. g.stage = graph.stage /\ HasCheckpoint(g)
  BY <1>2, KindsOfStages DEF MaySubmitReview, MaySimulate, HasCheckpoint
<1>4. g.receipts = graph.receipts
  BY <1>1, <1>2, FS_Subset DEF Earlier, Version
<1>5. SameRecord(graph, g)
  BY <1>1, <1>3, <1>4 DEF Earlier
<1>6. g = graph
  BY <1>1, <1>2, <1>3, <1>5 DEF SameRecord, SameCopy, Graph
<1> QED BY <1>6 DEF g

(* A decision or a confirmation of the desk takes effect only on the record *)
(* the human saw.                                                           *)
THEOREM DecisionsAreForWhatWasShown == DeskSpec => DecidedOnTheRecordShown
<1>1. ASSUME RecordInv, [DeskNext]_deskVars
      PROVE  [desk' # desk /\ <<graph, write>>' # <<graph, write>> => desk.shown = graph]_deskVars
  <2> SUFFICES ASSUME DeskNext, desk' # desk, <<graph, write>>' # <<graph, write>>
               PROVE  desk.shown = graph
    BY <1>1 DEF deskVars
  <2>1. CASE \E scope \in SUBSET Lots : RunInvestigation(scope)
    <3>1. desk # None /\ ~HasCheckpoint(graph)
      BY <2>1 DEF RunInvestigation, Investigate, HasCheckpoint, vars
    <3> QED BY <1>1, <3>1 DEF RecordInv, DeskRecords, GraphRecords, Earlier, HasCheckpoint
  <2>2. CASE ResumeReview
    <3>1. desk # None /\ MaySubmitReview(desk.shown) /\ Bound
      BY <2>2 DEF ResumeReview, vars
    <3> QED BY <1>1, <3>1, IdentityIsEnough
  <2>3. CASE SimulateApprovedActions
    <3>1. desk # None /\ MaySimulate(desk.shown) /\ Bound
      BY <2>3 DEF SimulateApprovedActions
    <3> QED BY <1>1, <3>1, IdentityIsEnough
  <2> QED BY <2>1, <2>2, <2>3
          DEF DeskNext, DurableNext, OpenCase, RequestClosure, InjectFailure, Elsewhere, vars
<1> QED BY <1>1, RecordInvariant, PTL DEF DeskSpec, DecidedOnTheRecordShown

-----------------------------------------------------------------------------
(* Both adapters implement ReviewedWrites.                                  *)

\* The walkthrough: what is pending is bound, and a hold follows a creation.
DemoInv ==
  demo # None =>
    /\ demo \in Demo!Cases
    /\ graph.stage = "investigating"
    /\ demo.kind # "none" =>
         /\ demo.status # "investigating" /\ demo.proposed # None
         /\ demo.receipts = IF demo.proposed.step = "create_case" THEN {} ELSE {"create_case"}
    /\ demo.status = "investigating" => demo.receipts = {} /\ demo.kind = "none"

(* The walkthrough keeps to its shape.                                      *)
LEMMA NextDemoInv ==
  ASSUME DemoInv, Untouched, Demo!DemoNext, UNCHANGED <<vars, desk>>
  PROVE  DemoInv' /\ demo' \in Demo!Cases
<1> USE DEF Demo!Review, Demo!Rest, Demo!Proposal
<1>0. /\ graph.stage = "investigating" /\ UNCHANGED graph
      /\ 0 \in DemoWordings /\ {"create_case", "apply_inventory_hold"} = Demo!Steps
      /\ None \notin Demo!Bindings
  BY DeskAssumption DEF Untouched, vars, DeskAssumption, Demo!Steps
<1>1. CASE Demo!OpenDemo
  <2>1. demo' \in Demo!Cases
    BY <1>1 DEF Demo!OpenDemo, Demo!Cases
  <2> QED BY <1>0, <1>1, <2>1 DEF Demo!OpenDemo, DemoInv
<1>2. CASE Demo!RunDemo
  <2>1. demo \in Demo!Cases /\ demo.receipts = {} /\ demo.version \in Nat
    BY <1>2 DEF Demo!RunDemo, DemoInv, Demo!Cases
  <2> DEFINE b == Demo!Proposal("create_case", demo.version)
  <2>2. b \in Demo!Bindings /\ b.step = "create_case" /\ b # None
    BY <1>0, <2>1 DEF Demo!Bindings
  <2>3. demo' = Demo!Review(demo, b)
    BY <1>2 DEF Demo!RunDemo
  <2> HIDE DEF b
  <2> QED BY <1>0, <2>1, <2>2, <2>3 DEF Demo!Cases, DemoInv
<1>3. CASE Demo!ReviewDemo
  <2>1. /\ demo \in Demo!Cases /\ demo # None /\ demo.kind = "action_review"
        /\ demo.proposed \in Demo!Bindings /\ demo.status # "investigating"
        /\ demo.receipts = IF demo.proposed.step = "create_case" THEN {} ELSE {"create_case"}
    BY <1>3 DEF Demo!ReviewDemo, Demo!Requires, DemoInv, Demo!Cases
  <2>2. CASE demo' = [demo EXCEPT !.approval = demo.proposed, !.kind = "execution_confirmation",
                                  !.status = "approved_pending_execution"]
    BY <1>0, <2>1, <2>2 DEF Demo!Cases, DemoInv
  <2>3. ASSUME NEW wording \in DemoWordings,
               demo' = [Demo!Review(demo, [demo.proposed EXCEPT !.wording = wording])
                        EXCEPT !.approval = None]
        PROVE  DemoInv' /\ demo' \in Demo!Cases
    <3> DEFINE b == [demo.proposed EXCEPT !.wording = wording]
    <3>1. b \in Demo!Bindings /\ b.step = demo.proposed.step
      BY <2>1 DEF Demo!Bindings
    <3> HIDE DEF b
    <3>2. demo' = [Demo!Review(demo, b) EXCEPT !.approval = None]
      BY <2>3 DEF b
    <3> QED BY <1>0, <2>1, <3>1, <3>2 DEF Demo!Cases, DemoInv
  <2>4. ASSUME NEW end \in {"open", "escalated"},
               demo' = [Demo!Rest(demo, end) EXCEPT !.approval = None]
        PROVE  DemoInv' /\ demo' \in Demo!Cases
    BY <1>0, <2>1, <2>4 DEF Demo!Cases, DemoInv
  <2> QED BY <1>3, <2>2, <2>3, <2>4 DEF Demo!ReviewDemo
<1>4. CASE Demo!SimulateDemo
  <2>1. /\ demo \in Demo!Cases /\ demo # None /\ demo.kind = "execution_confirmation"
        /\ demo.proposed \in Demo!Bindings /\ demo.status # "investigating"
        /\ demo.receipts = IF demo.proposed.step = "create_case" THEN {} ELSE {"create_case"}
        /\ demo.proposed.step \in Demo!Steps /\ demo.version \in Nat
    BY <1>4 DEF Demo!SimulateDemo, Demo!Requires, DemoInv, Demo!Cases, Demo!Bindings
  <2> DEFINE d == [demo EXCEPT !.receipts = @ \cup {demo.proposed.step},
                               !.version = @ + 1, !.approval = None]
             b == Demo!Proposal("apply_inventory_hold", d.version)
  <2>2. /\ d \in Demo!Cases /\ d.proposed = demo.proposed /\ d.version \in Nat
        /\ d.receipts = demo.receipts \cup {demo.proposed.step} /\ d.status # "investigating"
    <3> DEFINE d1 == [demo EXCEPT !.receipts = demo.receipts \cup {demo.proposed.step}]
               d2 == [d1 EXCEPT !.version = demo.version + 1]
               d3 == [d2 EXCEPT !.approval = None]
    <3>1. d1 \in Demo!Cases /\ d1.proposed = demo.proposed /\ d1.status = demo.status
          /\ d1.receipts = demo.receipts \cup {demo.proposed.step}
      BY <2>1 DEF Demo!Cases
    <3>4. d = d3
      BY <2>1 DEF Demo!Cases
    <3> HIDE DEF d1
    <3>2. d2 \in Demo!Cases /\ d2.proposed = demo.proposed /\ d2.status = demo.status
          /\ d2.receipts = demo.receipts \cup {demo.proposed.step}
      BY <2>1, <3>1 DEF Demo!Cases
    <3> HIDE DEF d2
    <3>3. d3 \in Demo!Cases /\ d3.proposed = demo.proposed /\ d3.status = demo.status
          /\ d3.receipts = demo.receipts \cup {demo.proposed.step}
      BY <3>2 DEF Demo!Cases
    <3>5. d3.version \in Nat
      BY <3>3 DEF Demo!Cases
    <3> HIDE DEF d3, d
    <3> QED BY <2>1, <3>3, <3>4, <3>5
  <2>3. b \in Demo!Bindings /\ b.step = "apply_inventory_hold"
    BY <1>0, <2>2 DEF Demo!Bindings
  <2>4. demo' = Demo!AfterWrite(d)
    BY <1>4 DEF Demo!SimulateDemo
  <2> HIDE DEF d
  <2>5. CASE demo.proposed.step = "create_case"
    <3>1. demo' = Demo!Review(d, b)
      BY <2>2, <2>4, <2>5 DEF Demo!AfterWrite
    <3> HIDE DEF b
    <3> QED BY <1>0, <2>1, <2>2, <2>3, <2>5, <3>1 DEF Demo!Cases, DemoInv
  <2>6. CASE demo.proposed.step # "create_case"
    <3>1. demo' = [Demo!Rest(d, "open_monitoring") EXCEPT !.proposed = None]
      BY <2>2, <2>4, <2>6 DEF Demo!AfterWrite
    <3> QED BY <1>0, <2>1, <2>2, <3>1 DEF Demo!Cases, DemoInv
  <2> QED BY <2>5, <2>6
<1>5. CASE Demo!ClosureDemo
  BY <1>0, <1>5 DEF Demo!ClosureDemo, Demo!Cases, DemoInv
<1> QED BY <1>1, <1>2, <1>3, <1>4, <1>5 DEF Demo!DemoNext

\* What ReviewedWrites sees of the walkthrough and of the graph.
DemoAction == IF demo.proposed = None THEN None ELSE Act(demo.proposed.step, None)
DemoWording == IF demo.proposed = None THEN 0 ELSE demo.proposed.wording
DemoWritten == {Act(step, None) : step \in demo.receipts}

(* The walkthrough implements it.                                           *)
LEMMA DemoIsReviewed ==
  ASSUME RecordInv, DemoInv, Untouched, Demo!DemoNext, UNCHANGED <<vars, desk>>
  PROVE  [Reviewed!Next]_(Reviewed!reviewVars)
<1>1. DemoInv' /\ demo' \in Demo!Cases /\ demo' # None
  BY NextDemoInv, DeskAssumption DEF DeskAssumption
<1> USE DEF Demo!Review, Demo!Rest, Demo!Proposal
<1>2. /\ graph = Blank /\ {"create_case", "apply_inventory_hold"} = Demo!Steps
      /\ None \notin Demo!Bindings /\ 0 \in DemoWordings
      /\ \A step \in Demo!Steps : Act(step, None) \in Action
      /\ \A step \in Demo!Steps : Act(step, None).type = step
  BY DeskAssumption
     DEF DeskAssumption, RecordInv, GraphRecords, Untouched, Demo!Steps, Act, Action, Types
<1>3. ASSUME demo # None
      PROVE  /\ demo \in Demo!Cases
             /\ Reviewed!reviewVars = <<DemoPhase, DemoAction, DemoWording, DemoWritten>>
             /\ Reviewed!reviewVars' = <<DemoPhase', DemoAction', DemoWording', DemoWritten'>>
  BY <1>1, <1>3 DEF DemoInv, Reviewed!reviewVars, DemoAction, DemoWording, DemoWritten
<1>4. CASE Demo!OpenDemo
  <2>1. /\ demo = None /\ demo' # None /\ demo'.status = "investigating"
        /\ demo'.proposed = None /\ demo'.receipts = {} /\ demo'.kind = "none"
    BY <1>1, <1>4 DEF Demo!OpenDemo
  <2>2. graph.stage = "investigating" /\ graph.current = None /\ graph.rationale = 0
        /\ graph.receipts = {}
    BY <1>2 DEF Blank
  <2> QED BY <2>1, <2>2 DEF Reviewed!reviewVars, GraphPhase, DemoPhase
<1>5. CASE Demo!RunDemo
  <2>1. /\ demo # None /\ demo.status = "investigating" /\ demo.receipts = {}
        /\ demo.kind = "none" /\ demo \in Demo!Cases
    BY <1>5 DEF Demo!RunDemo, DemoInv
  <2> DEFINE b == Demo!Proposal("create_case", demo.version)
  <2>2. demo' = Demo!Review(demo, b) /\ b.step = "create_case" /\ b.wording = 0 /\ b # None
    BY <1>2, <1>5, <2>1 DEF Demo!RunDemo, Demo!Cases, Demo!Bindings
  <2> HIDE DEF b
  <2>3. /\ demo'.status = "review_required" /\ demo'.kind = "action_review"
        /\ demo'.proposed = b /\ demo'.receipts = {}
    BY <2>1, <2>2 DEF Demo!Cases
  <2>4. /\ DemoPhase = "fresh" /\ DemoPhase' = "review"
        /\ DemoAction' = Act("create_case", None) /\ DemoWording' = 0
        /\ DemoWritten = {} /\ DemoWritten' = {}
    BY <2>1, <2>2, <2>3 DEF DemoPhase, DemoAction, DemoWording, DemoWritten
  <2> QED BY <1>1, <1>2, <2>1, <2>4
          DEF Reviewed!Next, Reviewed!Propose, Reviewed!Offer, DemoAction, DemoWording, DemoWritten
<1>6. CASE Demo!ReviewDemo
  <2>1. /\ demo \in Demo!Cases /\ demo # None /\ demo.kind = "action_review"
        /\ demo.proposed \in Demo!Bindings /\ demo.status # "investigating"
    BY <1>6 DEF Demo!ReviewDemo, Demo!Requires, DemoInv, Demo!Cases
  <2>5. DemoPhase = "review"
    BY <2>1 DEF DemoPhase
  <2>2. CASE demo' = [demo EXCEPT !.approval = demo.proposed, !.kind = "execution_confirmation",
                                  !.status = "approved_pending_execution"]
    <3>1. /\ DemoPhase' = "confirmed" /\ demo'.proposed = demo.proposed
          /\ demo'.receipts = demo.receipts
      BY <2>1, <2>2 DEF DemoPhase, Demo!Cases
    <3>2. DemoAction' = DemoAction /\ DemoWording' = DemoWording /\ DemoWritten' = DemoWritten
      BY <3>1 DEF DemoAction, DemoWording, DemoWritten
    <3> QED BY <1>1, <2>1, <2>5, <3>1, <3>2
            DEF Reviewed!Next, Reviewed!Approve, DemoAction, DemoWording, DemoWritten
  <2>3. ASSUME NEW wording \in DemoWordings,
               demo' = [Demo!Review(demo, [demo.proposed EXCEPT !.wording = wording])
                        EXCEPT !.approval = None]
        PROVE  Reviewed!Reword
    <3> DEFINE b == [demo.proposed EXCEPT !.wording = wording]
    <3>1. b \in Demo!Bindings /\ b.step = demo.proposed.step /\ b.wording = wording
      BY <2>1 DEF Demo!Bindings
    <3> HIDE DEF b
    <3>2. demo' = [Demo!Review(demo, b) EXCEPT !.approval = None]
      BY <2>3 DEF b
    <3>3. /\ DemoPhase' = "review" /\ demo'.proposed = b /\ demo'.receipts = demo.receipts
      BY <2>1, <3>2 DEF DemoPhase, Demo!Cases
    <3>4. DemoAction' = DemoAction /\ DemoWording' = wording /\ DemoWritten' = DemoWritten
      BY <1>2, <2>1, <3>1, <3>3 DEF DemoAction, DemoWording, DemoWritten
    <3> QED BY <1>1, <2>1, <2>5, <3>3, <3>4
            DEF Reviewed!Reword, DemoAction, DemoWording, DemoWritten
  <2>4. ASSUME NEW end \in {"open", "escalated"},
               demo' = [Demo!Rest(demo, end) EXCEPT !.approval = None]
        PROVE  Reviewed!Decline
    <3>1. DemoPhase' = "over" /\ demo'.receipts = demo.receipts
      BY <2>1, <2>4 DEF DemoPhase, Demo!Cases
    <3> QED BY <1>1, <2>1, <2>5, <3>1 DEF Reviewed!Decline, DemoWritten
  <2> QED BY <1>6, <2>2, <2>3, <2>4 DEF Demo!ReviewDemo, Reviewed!Next
<1>7. CASE Demo!SimulateDemo
  <2>1. /\ demo \in Demo!Cases /\ demo # None /\ demo.kind = "execution_confirmation"
        /\ demo.proposed \in Demo!Bindings /\ demo.status # "investigating"
        /\ demo.receipts = IF demo.proposed.step = "create_case" THEN {} ELSE {"create_case"}
        /\ demo.proposed # None
    BY <1>2, <1>7 DEF Demo!SimulateDemo, Demo!Requires, DemoInv, Demo!Cases
  <2> DEFINE d == [demo EXCEPT !.receipts = @ \cup {demo.proposed.step},
                               !.version = @ + 1, !.approval = None]
             b == Demo!Proposal("apply_inventory_hold", d.version)
  <2>2. /\ d.proposed = demo.proposed /\ d.receipts = demo.receipts \cup {demo.proposed.step}
        /\ d.status # "investigating"
        /\ DOMAIN d = {"status", "version", "proposed", "kind", "interrupt", "approval",
                       "receipts", "panel"}
    BY <2>1 DEF Demo!Cases
  <2>3. demo' = Demo!AfterWrite(d)
    BY <1>7 DEF Demo!SimulateDemo
  <2> HIDE DEF d
  <2>4. DemoPhase = "confirmed" /\ DemoAction = Act(demo.proposed.step, None)
    BY <2>1 DEF DemoPhase, DemoAction
  <2>5. demo'.receipts = demo.receipts \cup {demo.proposed.step}
    BY <2>2, <2>3 DEF Demo!AfterWrite
  <2>6. DemoWritten' = DemoWritten \cup {DemoAction}
    BY <2>4, <2>5 DEF DemoWritten
  <2>7. CASE demo.proposed.step = "create_case"
    <3>1. /\ demo'.proposed = b /\ demo'.kind = "action_review"
          /\ demo'.status = "review_required"
      BY <2>2, <2>3, <2>7 DEF Demo!AfterWrite
    <3>2. b # None /\ b.step = "apply_inventory_hold" /\ b.wording = 0
      BY <1>1, <3>1 DEF DemoInv
    <3>3. /\ DemoPhase' = "review" /\ DemoAction' = Act("apply_inventory_hold", None)
          /\ DemoWording' = 0
      BY <3>1, <3>2 DEF DemoPhase, DemoAction, DemoWording
    <3>4. DemoWritten' = {Act("create_case", None)}
      BY <2>1, <2>5, <2>7 DEF DemoWritten
    <3>5. Act("apply_inventory_hold", None) # Act("create_case", None)
      BY <1>2
    <3> QED BY <1>1, <1>2, <2>1, <2>4, <2>6, <3>3, <3>4, <3>5
            DEF Reviewed!Next, Reviewed!Write, Reviewed!Offer, DemoAction, DemoWording, DemoWritten
  <2>8. CASE demo.proposed.step # "create_case"
    <3>1. DemoPhase' = "over"
      BY <2>2, <2>3, <2>8 DEF Demo!AfterWrite, DemoPhase
    <3> QED BY <1>1, <2>1, <2>4, <2>6, <3>1
            DEF Reviewed!Next, Reviewed!Write, Reviewed!Offer, DemoAction, DemoWritten
  <2> QED BY <2>7, <2>8
<1>8. CASE Demo!ClosureDemo
  <2>1. /\ demo # None /\ demo \in Demo!Cases /\ demo.status # "investigating"
        /\ demo' = [demo EXCEPT !.status = "open_closure_blocked", !.panel = "blocked"]
    BY <1>8 DEF Demo!ClosureDemo, DemoInv
  <2>2. /\ demo'.proposed = demo.proposed /\ demo'.receipts = demo.receipts
        /\ demo'.kind = demo.kind /\ demo'.status = "open_closure_blocked"
    BY <2>1 DEF Demo!Cases
  <2>3. DemoPhase' = DemoPhase /\ DemoAction' = DemoAction /\ DemoWording' = DemoWording
        /\ DemoWritten' = DemoWritten
    BY <2>1, <2>2 DEF DemoPhase, DemoAction, DemoWording, DemoWritten
  <2> QED BY <1>3, <2>1, <2>3
<1> QED BY <1>4, <1>5, <1>6, <1>7, <1>8 DEF Demo!DemoNext

(* The graph implements it: an investigation proposes, a receipt writes and *)
(* offers what follows, and what is left to the human changes no more than  *)
(* stage and wording.                                                       *)
LEMMA GraphIsReviewed ==
  ASSUME RecordInv, RecordInv', GraphStep, demo = None, demo' = None
  PROVE  [Reviewed!Next]_(Reviewed!reviewVars)
<1> USE DEF RecordInv, WorkflowInv, Typed
<1>1. /\ graph \in Graph /\ graph' \in Graph
      /\ graph'.rationale \in 0 .. MaxEdits \cup DemoWordings
  BY DEF Graph
<1>2. graph'.stage = "review" => graph'.current \in Action \ graph'.receipts
  <2>1. graph'.stage = "review" =>
          /\ graph'.current = NextAction(graph') /\ graph'.current # None /\ Orderly(graph')
    BY DEF InHand, GraphRecords
  <2> QED BY <1>1, <2>1, NextActionType, NextIsNew
<1>3. /\ GraphPhase = "review" <=> graph.stage = "review"
      /\ GraphPhase = "fresh" <=> graph.stage = "investigating"
      /\ GraphPhase = "confirmed" <=> graph.stage \in {"confirmation", "recovery"}
      /\ GraphPhase \in {"review", "fresh", "confirmed", "over"}
      /\ GraphPhase' = "review" <=> graph'.stage = "review"
      /\ GraphPhase' = "fresh" <=> graph'.stage = "investigating"
      /\ GraphPhase' = "confirmed" <=> graph'.stage \in {"confirmation", "recovery"}
      /\ GraphPhase' \in {"review", "fresh", "confirmed", "over"}
  BY DEF GraphPhase
<1>4. ASSUME GraphPhase' \in {"review", "over"} PROVE Reviewed!Offer(graph'.receipts)
  BY <1>1, <1>2, <1>3, <1>4 DEF Reviewed!Offer
<1>5. CASE Started
  <2>1. graph.receipts = {} /\ graph'.receipts = {}
    BY <1>5 DEF Started, GraphRecords, Blank
  <2> QED BY <1>3, <1>4, <1>5, <2>1 DEF Started, Reviewed!Next, Reviewed!Propose
<1>6. CASE Moved
  <2>1. /\ graph'.current = graph.current /\ graph'.receipts = graph.receipts
    BY <1>6 DEF Moved, SameRecord, SameCopy
  <2>2. CASE graph' = graph
    BY <2>2 DEF Reviewed!reviewVars, GraphPhase
  <2>3. CASE graph.stage = "review" /\ graph'.stage = "review"
    BY <1>1, <1>3, <2>1, <2>3 DEF Reviewed!Next, Reviewed!Reword
  <2>4. CASE /\ graph.stage = "review" /\ graph'.stage = "confirmation"
             /\ graph'.rationale = graph.rationale
    BY <1>3, <2>1, <2>4 DEF Reviewed!Next, Reviewed!Approve
  <2>5. CASE /\ graph.stage \in {"confirmation", "recovery"} /\ graph'.stage = "recovery"
             /\ graph'.rationale = graph.rationale
    BY <2>1, <2>5 DEF Reviewed!reviewVars, GraphPhase
  <2>6. CASE /\ graph.stage \in {"review", "confirmation", "recovery"}
             /\ graph'.stage \in {"open", "escalated", "open_closure_blocked"}
    BY <1>3, <2>1, <2>6 DEF Reviewed!Next, Reviewed!Decline
  <2> QED BY <1>6, <2>2, <2>3, <2>4, <2>5, <2>6 DEF Moved
<1>7. CASE Receipted
  <2>1. /\ graph'.receipts = graph.receipts \cup {graph.current}
        /\ graph'.stage \in {"review", "closed", "open_closure_blocked"}
    BY <1>7, ReceiptedRecords
  <2> QED BY <1>3, <1>4, <1>7, <2>1 DEF Receipted, Reviewed!Next, Reviewed!Write
<1> QED BY <1>5, <1>6, <1>7, GraphMoves

(* Whichever adapter is used, what is written was reviewed, approved in its *)
(* last wording and confirmed, once, whatever was lost, retried or asked of *)
(* the closure panel in between.                                            *)
THEOREM ImplementsReviewedWrites == DeskSpec => WritesAreReviewed
<1>1. DeskInit => DemoInv /\ Reviewed!Init
  BY DEF DeskInit, Init, Demo!DemoInit, DemoInv, Reviewed!Init, GraphPhase
<1>2. RecordInv /\ DemoInv /\ [DeskNext]_deskVars => DemoInv'
  <2> SUFFICES ASSUME RecordInv, DemoInv, [DeskNext]_deskVars PROVE DemoInv'
    OBVIOUS
  <2>1. CASE demo = None /\ UNCHANGED demo
    BY <2>1 DEF DemoInv
  <2>2. CASE UNCHANGED deskVars
    BY <2>2 DEF DemoInv, deskVars, vars
  <2> QED BY <2>1, <2>2, NextDemoInv DEF DeskNext
<1>3. RecordInv /\ RecordInv' /\ DemoInv /\ [DeskNext]_deskVars
        => [Reviewed!Next]_(Reviewed!reviewVars)
  <2> SUFFICES ASSUME RecordInv, RecordInv', DemoInv, [DeskNext]_deskVars
               PROVE  [Reviewed!Next]_(Reviewed!reviewVars)
    OBVIOUS
  <2>1. CASE demo = None /\ UNCHANGED demo
    BY <2>1, DeskStepsTheGraph, GraphIsReviewed
  <2>2. CASE UNCHANGED deskVars
    BY <2>2 DEF deskVars, vars, Reviewed!reviewVars, GraphPhase, DemoPhase
  <2> QED BY <2>1, <2>2, DemoIsReviewed DEF DeskNext
<1> QED BY <1>1, <1>2, <1>3, RecordInvariant, PTL DEF DeskSpec, WritesAreReviewed, Reviewed!Spec

-----------------------------------------------------------------------------
(* The preview.                                                             *)

\* What _remaining_actions counts, once it is known that a gap is a lot to be
\* disposed of unless lots are ambiguous.
Left(scoped, done, lots, facs) ==
  [t \in Types |->
    IF t = "record_disposition" THEN IF scoped THEN Cardinality(lots) ELSE 0
    ELSE IF t = "record_acknowledgment" THEN IF scoped THEN Cardinality(facs) ELSE 0
    ELSE Count((scoped \/ t \in {"create_case", "apply_inventory_hold"}) /\ t \notin done)]

LeftAfter(g, action) ==
  Left(g.ambiguous = {}, Completed(g) \cup {action.type},
       Planned(g) \ (DisposedLots(g) \cup On(action, "record_disposition")),
       Unacknowledged(g) \ On(action, "record_acknowledgment"))

(* In a copy that a plan can be made from, that is what is counted.         *)
LEMMA RemainingIsLeft ==
  ASSUME NEW g \in Graph, NEW action, Planning(g)
  PROVE  Remaining(g, action) = LeftAfter(g, action)
<1>1. g.ambiguous = {} => g.gaps \subseteq Planned(g)
  BY DEF Planning, Planned, Graph
<1> DEFINE lots == Planned(g) \ (DisposedLots(g) \cup On(action, "record_disposition"))
           facs == Unacknowledged(g) \ On(action, "record_acknowledgment")
           done == Completed(g) \cup {action.type}
<1>2. ASSUME NEW t \in Types PROVE Remaining(g, action)[t] = LeftAfter(g, action)[t]
  <2>1. LeftAfter(g, action)[t] =
          IF t = "record_disposition" THEN IF g.ambiguous = {} THEN Cardinality(lots) ELSE 0
          ELSE IF t = "record_acknowledgment" THEN IF g.ambiguous = {} THEN Cardinality(facs) ELSE 0
          ELSE Count((g.ambiguous = {} \/ t \in {"create_case", "apply_inventory_hold"})
                     /\ t \notin done)
    BY DEF LeftAfter, Left
  <2>2. Remaining(g, action)[t] =
          CASE t \in {"create_case", "apply_inventory_hold"} -> Count(TRUE /\ t \notin done)
            [] t = "record_disposition" -> IF g.ambiguous = {} THEN Cardinality(lots) ELSE 0
            [] t \in {"create_facility_tasks", "close_case"} ->
                 Count((g.ambiguous = {} /\ g.gaps \subseteq Planned(g)) /\ t \notin done)
            [] t = "record_acknowledgment" ->
                 IF g.ambiguous = {} /\ g.gaps \subseteq Planned(g) THEN Cardinality(facs) ELSE 0
    BY DEF Remaining
  <2> HIDE DEF lots, facs, done
  <2> QED BY <1>1, <2>1, <2>2 DEF Types, Count
<1> QED BY <1>2 DEF Remaining, LeftAfter, Left

(* The first of what is left is the next action, and the rest is what is    *)
(* left once it is in hand.                                                 *)
LEMMA NextIsCounted ==
  ASSUME NEW g \in Graph, "close_case" \notin Completed(g), NextAction(g) # None
  PROVE  LET n    == NextAction(g).type
             left == Left(g.ambiguous = {}, Completed(g), Planned(g) \ DisposedLots(g),
                          Unacknowledged(g))
         IN  /\ left = [LeftAfter(g, NextAction(g)) EXCEPT ![n] = @ + 1]
             /\ \A t \in Types : Rank[t] < Rank[n] => left[t] = 0
<1> DEFINE lots == Planned(g) \ DisposedLots(g)
           facs == Unacknowledged(g)
           next == NextAction(g)
           n == next.type
           lots1 == lots \ On(next, "record_disposition")
           facs1 == facs \ On(next, "record_acknowledgment")
           done == Completed(g)
           scoped == g.ambiguous = {}
           left == Left(scoped, done, lots, facs)
           after == Left(scoped, done \cup {n}, lots1, facs1)
<1>1. LeftAfter(g, next) = after
  BY DEF LeftAfter
<1>2. IsFiniteSet(lots) /\ IsFiniteSet(facs)
  <2>1. lots \in SUBSET Lots /\ facs \in SUBSET Facilities
    BY DEF Planned, Unacknowledged, Graph
  <2>2. IsFiniteSet(Lots) /\ IsFiniteSet(Facilities)
    BY WorkflowAssumption DEF WorkflowAssumption, Listing
  <2> HIDE DEF lots, facs
  <2> QED BY <2>1, <2>2, FS_Subset
<1>3. \A t, on : Act(t, on).type = t /\ Act(t, on).on = on
  BY DEF Act
<1>4. lots # {} => First(LotOrder, lots) \in lots
  <2>1. lots \in SUBSET Lots /\ Listing(LotOrder, Lots)
    BY WorkflowAssumption DEF WorkflowAssumption, Planned, Graph
  <2> HIDE DEF lots
  <2> QED BY <2>1, FirstIsIn
<1>5. facs # {} => First(FacilityOrder, facs) \in facs
  <2>1. facs \in SUBSET Facilities /\ Listing(FacilityOrder, Facilities)
    BY WorkflowAssumption DEF WorkflowAssumption, Unacknowledged, Graph
  <2> HIDE DEF facs
  <2> QED BY <2>1, FirstIsIn
<1>6. next # None /\
      next = IF "create_case" \notin done THEN Act("create_case", None)
             ELSE IF "apply_inventory_hold" \notin done THEN Act("apply_inventory_hold", None)
             ELSE IF ~scoped THEN None
             ELSE IF lots # {} THEN Act("record_disposition", First(LotOrder, lots))
             ELSE IF g.gaps # {} THEN None
             ELSE IF "create_facility_tasks" \notin done THEN Act("create_facility_tasks", None)
             ELSE IF facs # {} THEN Act("record_acknowledgment", First(FacilityOrder, facs))
             ELSE Act("close_case", None)
  BY DEF NextAction
<1>7. /\ Cardinality(lots) \in Nat /\ Cardinality(facs) \in Nat
      /\ lots = {} => Cardinality(lots) = 0
      /\ facs = {} => Cardinality(facs) = 0
  <2> HIDE DEF lots, facs
  <2> QED BY <1>2, FS_CardinalityType, FS_EmptySet
<1>8. /\ n = "record_disposition" => next.on \in lots
      /\ n = "record_acknowledgment" => next.on \in facs
  <2> HIDE DEF lots, facs, next, done, scoped
  <2> QED BY <1>3, <1>4, <1>5, <1>6
<1>9. /\ Cardinality(lots1) = IF n = "record_disposition" THEN Cardinality(lots) - 1
                                                          ELSE Cardinality(lots)
      /\ Cardinality(facs1) = IF n = "record_acknowledgment" THEN Cardinality(facs) - 1
                                                             ELSE Cardinality(facs)
  <2>1. \A x : /\ x \in lots => Cardinality(lots \ {x}) = Cardinality(lots) - 1
               /\ x \in facs => Cardinality(facs \ {x}) = Cardinality(facs) - 1
    <3> HIDE DEF lots, facs
    <3> QED BY <1>2, FS_RemoveElement
  <2> HIDE DEF lots, facs, next
  <2>2. lots \ {} = lots /\ facs \ {} = facs
    OBVIOUS
  <2> QED BY <1>8, <2>1, <2>2 DEF On
<1> DEFINE value(d, ls, fs, t) ==
      IF t = "record_disposition" THEN IF scoped THEN Cardinality(ls) ELSE 0
      ELSE IF t = "record_acknowledgment" THEN IF scoped THEN Cardinality(fs) ELSE 0
      ELSE Count((scoped \/ t \in {"create_case", "apply_inventory_hold"}) /\ t \notin d)
<1>10. /\ left = [t \in Types |-> value(done, lots, facs, t)]
       /\ after = [t \in Types |-> value(done \cup {n}, lots1, facs1, t)]
  BY DEF Left
<1>11. /\ n \in Types
       /\ value(done, lots, facs, n) = value(done \cup {n}, lots1, facs1, n) + 1
       /\ \A t \in Types \ {n} : value(done, lots, facs, t) = value(done \cup {n}, lots1, facs1, t)
  <2> HIDE DEF lots, facs, next, done, scoped, lots1, facs1
  <2>1. \A t \in Types \ {n} : value(done, lots, facs, t) = value(done \cup {n}, lots1, facs1, t)
    BY <1>9 DEF Types, Count
  <2>2. n \in Types /\ value(done, lots, facs, n) = value(done \cup {n}, lots1, facs1, n) + 1
    BY <1>3, <1>6, <1>7, <1>9 DEF Types, Count, done
  <2> QED BY <2>1, <2>2
<1>12. /\ Rank["create_case"] = 1 /\ Rank["apply_inventory_hold"] = 2
       /\ Rank["record_disposition"] = 3 /\ Rank["create_facility_tasks"] = 4
       /\ Rank["record_acknowledgment"] = 5 /\ Rank["close_case"] = 6
  BY DEF Rank
<1>13. \A t \in Types : Rank[t] < Rank[n] => value(done, lots, facs, t) = 0
  <2> HIDE DEF lots, facs, next, done, scoped
  <2> QED BY <1>3, <1>6, <1>7, <1>12 DEF Types, Count
<1> HIDE DEF value, lots, facs, next, done, scoped, lots1, facs1
<1>14. left = [after EXCEPT ![n] = @ + 1]
  <2>1. /\ \A t \in Types : left[t] = value(done, lots, facs, t)
        /\ \A t \in Types : after[t] = value(done \cup {n}, lots1, facs1, t)
        /\ DOMAIN left = Types /\ DOMAIN after = Types
        /\ left = [t \in Types |-> left[t]]
    BY <1>10
  <2> HIDE DEF left, after
  <2>2. \A t \in Types : left[t] = [after EXCEPT ![n] = @ + 1][t]
    BY <1>11, <2>1
  <2> QED BY <2>1, <2>2
<1>15. \A t \in Types : Rank[t] < Rank[n] => left[t] = 0
  BY <1>10, <1>13
<1> QED BY <1>1, <1>14, <1>15 DEF lots, facs, next, done, scoped

\* What the preview of an action in hand rests on: its estimates are the
\* residuals of the release, and nobody has answered before being asked.
Foreseen ==
  /\ Planning(graph)
  /\ "create_facility_tasks" \notin Completed(graph) =>
       \A f \in graph.required : graph.acknowledgements[f] # "yes"
  /\ graph.readAt = release =>
       \A l \in graph.confirmed \ DisposedLots(graph) :
         graph.residual[l] = Datasets[release].unaccounted[l]

Deciding == graph.stage \in {"review", "confirmation", "recovery"}

Previewed == Deciding => graph.remaining = Remaining(graph, graph.current) /\ Foreseen

(* A copy that tells what the ledger holds foresees what is left.           *)
LEMMA CopyForesees == WorkflowInv /\ Deciding /\ write # "landed" => Foreseen
<1> SUFFICES ASSUME WorkflowInv, Deciding, write # "landed" PROVE Foreseen
  OBVIOUS
<1>1. /\ graph \in Graph /\ Copy(graph, book) /\ Sound /\ LedgerHolds
  BY HoldsSound DEF WorkflowInv, Typed, InHand, Deciding
<1> USE DEF Copy
<1>2. ASSUME "create_facility_tasks" \notin Completed(graph), NEW f \in graph.required
      PROVE  graph.acknowledgements[f] # "yes"
  <2>1. f \in Facilities /\ tasks[f] = "absent" /\ graph.acknowledgements = acks
    BY <1>1, <1>2 DEF Graph, Tracks, book
  <2>2. acks[f] # "yes"
    <3>1. state # None => (tasks[f] = "absent" <=> acks[f] = "absent")
      BY <1>1, <2>1 DEF LedgerHolds, LP!LedgerInv, LP!CopiesAgree
    <3> QED BY <1>1, <2>1, <3>1 DEF Sound
  <2> QED BY <2>1, <2>2
<1>3. ASSUME graph.readAt = release, NEW l \in graph.confirmed \ DisposedLots(graph)
      PROVE  graph.residual[l] = Datasets[release].unaccounted[l]
  <2>1. CASE state = None
    BY <1>1, <1>3, <2>1 DEF ReadUnder, book
  <2>2. CASE state # None
    <3>1. openedAt = release
      <4>1. /\ openedAt \in Nat /\ release \in Nat /\ openedAt <= release /\ release <= openedAt
        BY <1>1, <1>3, <2>2 DEF Sound, Kept, ReadUnder, Ledger!Releases, book
      <4> QED BY <4>1
    <3>2. /\ l \in Lots /\ l \in state.confirmed /\ graph.residual[l] = state.residual[l]
          /\ ~(disposed[l] > 0) /\ disposed[l] \in Nat /\ state.disposed = disposed
      BY <1>1, <1>3, <2>2 DEF Graph, Tracks, Sound, Kept, book
    <3>3. state.residual[l] = Datasets[release].unaccounted[l] - disposed[l]
      BY <1>1, <3>1, <3>2, RecordOfRelease DEF Ledger!Residual, Ledger!authority
    <3>4. Datasets[release].unaccounted[l] \in Nat
      <4>1. Datasets[release] \in Ledger!Dataset
        BY <1>1, WorkflowAssumption DEF WorkflowAssumption, Sound, Ledger!Releases
      <4> QED BY <3>2, <4>1 DEF Ledger!Dataset
    <3> QED BY <3>2, <3>3, <3>4
  <2> QED BY <2>1, <2>2
<1> QED BY <1>1, <1>2, <1>3 DEF Foreseen

(* The count depends on nothing but the copy.                               *)
LEMMA SameRemaining ==
  ASSUME NEW g, NEW k, NEW action, SameCopy(g, k)
  PROVE  Remaining(k, action) = Remaining(g, action)
BY DEF SameCopy, Remaining, Completed, DisposedLots, Planned, Unacknowledged

(* A proposal comes with its preview.                                       *)
LEMMA ProposalPreviewed ==
  ASSUME NEW g, NEW action, DOMAIN g = DOMAIN graph, graph \in Graph
  PROVE  LET k == Propose(g, action) IN
         /\ k.current = action /\ k.stage = "review" /\ SameCopy(g, k)
         /\ k.remaining = Remaining(k, action)
<1> DEFINE k == Propose(g, action)
           r == Remaining(g, action)
<1>1. /\ k.current = action /\ k.stage = "review" /\ SameCopy(g, k) /\ k.remaining = r
  <2>1. k = [g EXCEPT !.stage = "review", !.current = action, !.rationale = 0, !.remaining = r]
    BY DEF Propose
  <2>2. {"stage", "current", "rationale", "remaining"} \subseteq DOMAIN g
    BY DEF Graph
  <2> HIDE DEF k, r
  <2> QED BY <2>1, <2>2 DEF SameCopy, Graph
<1> HIDE DEF k
<1> QED BY <1>1, SameRemaining DEF k, r

(* The preview is made with each proposal and stands until the receipt.     *)
LEMMA NextPreviewed ==
  ASSUME RecordInv, WorkflowInv', GraphStep, Previewed
  PROVE  Previewed'
<1>0. Deciding' /\ write' # "landed" => Foreseen'
  <2>1. (WorkflowInv /\ Deciding /\ write # "landed" => Foreseen)'
    BY CopyForesees, PTL
  <2> QED BY <2>1
<1> USE DEF RecordInv, WorkflowInv, Typed
<1>1. ASSUME NEW g, NEW a, DOMAIN g = DOMAIN graph, graph' = Propose(g, a) PROVE Previewed'
  <2>1. graph'.stage = "review" /\ graph'.current = a /\ graph'.remaining = Remaining(graph', a)
    BY <1>1, ProposalPreviewed
  <2>2. write' # "landed"
    BY <2>1 DEF InHand
  <2> QED BY <1>0, <2>1, <2>2 DEF Previewed, Deciding
<1>2. CASE Started
  <2>1. CASE \E scope \in SUBSET Lots : Investigate(scope)
    <3>1. \/ graph' = [graph EXCEPT !.stage = "escalated"]
          \/ \E g, a : DOMAIN g = DOMAIN graph /\ graph' = Propose(g, a)
      BY <2>1 DEF Investigate
    <3>2. graph' = [graph EXCEPT !.stage = "escalated"] => ~Deciding'
      BY Restaged DEF Stages, Deciding
    <3> QED BY <1>1, <3>1, <3>2 DEF Previewed
  <2>2. CASE ~\E scope \in SUBSET Lots : Investigate(scope)
    <3>1. graph.stage = "investigating" /\ ~(graph'.stage = graph.stage)
      BY <1>2 DEF Started
    <3>2. graph' = [graph EXCEPT !.stage = "escalated"]
      BY <2>2, <3>1
         DEF GraphStep, Approve, Edit, Decline, ConfirmUnsent, ConfirmAnswered, ConfirmLost,
             ConfirmRefused, RetryReplayed, DropResponse, LoadNextRelease, vars
    <3>3. ~Deciding'
      BY <3>2, Restaged DEF Stages, Deciding
    <3> QED BY <3>3 DEF Previewed
  <2> QED BY <2>1, <2>2
<1>3. CASE Moved
  <2> SUFFICES ASSUME Deciding' PROVE graph'.remaining = Remaining(graph', graph'.current) /\ Foreseen'
    BY DEF Previewed
  <2>1. Deciding
    BY <1>3 DEF Moved, Deciding
  <2>2. /\ SameCopy(graph, graph') /\ graph'.current = graph.current
        /\ graph'.remaining = graph.remaining
    BY <1>3 DEF Moved, SameRecord
  <2>3. graph'.remaining = Remaining(graph', graph'.current)
    BY <2>1, <2>2, SameRemaining DEF Previewed
  <2>4. /\ Completed(graph') = Completed(graph) /\ DisposedLots(graph') = DisposedLots(graph)
    BY <2>2 DEF SameCopy, Completed, DisposedLots
  <2>5. graph'.readAt = release' => graph.readAt = release /\ release' = release
    <3>1. release' = release \/ release' = release + 1
      <4>1. LedgerStep
        BY GraphStepsTheLedger
      <4> QED BY <4>1 DEF LedgerStep, Ledger!CreateCase, Ledger!ApplyInventoryHold,
              Ledger!CreateFacilityTasks, Ledger!RecordAcknowledgment, Ledger!RecordDisposition,
              Ledger!CloseCase, Ledger!LoadNextRelease, case
    <3>2. graph.readAt \in Nat /\ release \in Nat /\ graph.readAt <= release
      <4>1. CASE write # "landed"
        BY <2>1, <4>1, HoldsSound DEF Deciding, InHand, Copy, ReadUnder, book, Sound, Ledger!Releases
      <4>2. CASE write = "landed"
        <5>1. /\ state \in Ledger!CaseState /\ graph.current \in Action
              /\ Copy(WithReceipt(graph, state), book) /\ Sound
          BY <2>1, <4>2, HoldsSound, NextActionType DEF Deciding, InHand, Sound
        <5>2. WithReceipt(graph, state).readAt = graph.readAt
          BY <5>1, ReceivedFields
        <5> QED BY <5>1, <5>2 DEF Copy, ReadUnder, book, Sound, Ledger!Releases
      <4> QED BY <4>1, <4>2
    <3> QED BY <2>2, <3>1, <3>2 DEF SameCopy
  <2>6. Foreseen'
    BY <2>1, <2>2, <2>4, <2>5 DEF Previewed, Foreseen, SameCopy, Planning
  <2> QED BY <2>3, <2>6
<1>4. CASE Receipted
  <2>1. PICK row \in Ledger!CaseState : graph' = AfterReceipt(graph, row)
    BY <1>4 DEF Receipted
  <2> DEFINE k == WithReceipt(graph, row)
  <2>2. graph.current \in Action
    BY <1>4, NextActionType DEF Receipted, InHand
  <2>3. k \in Graph
    BY <2>2, ReceivedFields
  <2>4. \/ graph' = Propose(k, NextAction(k))
        \/ graph'.stage \in {"closed", "open_closure_blocked"}
    BY <2>1 DEF AfterReceipt, WithReceipt, Graph
  <2> QED BY <1>1, <2>3, <2>4 DEF Previewed, Deciding, Graph
<1> QED BY <1>2, <1>3, <1>4, GraphMoves

(* What a receipt leaves to be done is what was counted.                    *)
LEMMA LeftAfterReceipt ==
  ASSUME graph \in Graph, graph' \in Graph, NEW row \in Ledger!CaseState, Foreseen, Foreseen',
         SameCopy(WithReceipt(graph, row), graph'),
         graph.current = NextAction(graph), graph.current # None,
         graph.readAt = release, release' = release
  PROVE  LeftAfter(graph, graph.current)
           = Left(graph'.ambiguous = {}, Completed(graph'),
                  Planned(graph') \ DisposedLots(graph'), Unacknowledged(graph'))
<1> DEFINE c == graph.current
           k == WithReceipt(graph, row)
<1>1. /\ c \in Action /\ c = Act(c.type, c.on)
      /\ c.type = "record_acknowledgment" => c.on \in Facilities
  BY NextActionType DEF Action, Act
<1>2. /\ k.confirmed = graph.confirmed /\ k.ambiguous = graph.ambiguous
      /\ k.required = graph.required /\ k.readAt = graph.readAt
      /\ k.receipts = graph.receipts \cup {c}
      /\ k.acknowledgements = AcknowledgementsAfter(graph)
      /\ Completed(k) = Completed(graph) \cup {c.type}
      /\ DisposedLots(k) = DisposedLots(graph) \cup On(c, "record_disposition")
  BY <1>1, ReceivedFields, ReceivedDone DEF On
<1> HIDE DEF k
<1>3. /\ graph'.confirmed = graph.confirmed /\ graph'.ambiguous = graph.ambiguous
      /\ graph'.required = graph.required /\ graph'.readAt = release'
      /\ graph'.acknowledgements = AcknowledgementsAfter(graph)
      /\ Completed(graph') = Completed(graph) \cup {c.type}
      /\ DisposedLots(graph') = DisposedLots(graph) \cup On(c, "record_disposition")
  BY <1>2 DEF SameCopy, Completed, DisposedLots, k
<1> HIDE DEF c
<1>4. Planned(graph') \ DisposedLots(graph')
        = Planned(graph) \ (DisposedLots(graph) \cup On(c, "record_disposition"))
  <2>1. \A l \in graph.confirmed \ DisposedLots(graph') : graph'.residual[l] = graph.residual[l]
    BY <1>3 DEF Foreseen
  <2> QED BY <1>3, <2>1 DEF Planned
<1>5. Unacknowledged(graph') = Unacknowledged(graph) \ On(c, "record_acknowledgment")
  <2> SUFFICES ASSUME NEW f \in graph.required
               PROVE  graph'.acknowledgements[f] # "yes" <=>
                        graph.acknowledgements[f] # "yes" /\ f \notin On(c, "record_acknowledgment")
    BY <1>3 DEF Unacknowledged
  <2>1. f \in Facilities
    BY DEF Graph
  <2>2. graph'.acknowledgements[f] =
          IF c.type = "create_facility_tasks" THEN "no"
          ELSE IF c = Act("record_acknowledgment", f) THEN "yes" ELSE graph.acknowledgements[f]
    BY <1>3, <2>1 DEF AcknowledgementsAfter, c
  <2>3. CASE c.type = "create_facility_tasks"
    <3>1. "create_facility_tasks" \notin Completed(graph)
      BY <2>3 DEF NextAction, Act, c
    <3> QED BY <2>2, <2>3, <3>1 DEF Foreseen, On
  <2>4. CASE c.type = "record_acknowledgment"
    BY <1>1, <2>2, <2>4 DEF On, Act
  <2>5. CASE c.type \notin {"create_facility_tasks", "record_acknowledgment"}
    BY <2>2, <2>5 DEF On, Act
  <2> QED BY <2>3, <2>4, <2>5
<1> QED BY <1>3, <1>4, <1>5 DEF LeftAfter, c

(* Nothing is counted of a case whose last action is in hand, nor of one    *)
(* whose last receipt leaves it blocked.                                    *)
LEMMA NothingLeft ==
  ASSUME graph \in Graph, Foreseen, graph.current = NextAction(graph), graph.current # None,
         \/ graph.current.type = "close_case"
         \/ /\ graph.ambiguous # {}
            /\ {"create_case", "apply_inventory_hold"} \subseteq
                 Completed(graph) \cup {graph.current.type}
  PROVE  Remaining(graph, graph.current) = None0
<1> DEFINE c == graph.current
           done == Completed(graph) \cup {c.type}
           lots == Planned(graph) \ (DisposedLots(graph) \cup On(c, "record_disposition"))
           facs == Unacknowledged(graph) \ On(c, "record_acknowledgment")
<1>1. Remaining(graph, c) = Left(graph.ambiguous = {}, done, lots, facs)
  BY RemainingIsLeft DEF Foreseen, LeftAfter
<1>2. {"create_case", "apply_inventory_hold"} \subseteq done
  BY DEF NextAction, Act
<1>3. graph.ambiguous = {} =>
        /\ Cardinality(lots) = 0 /\ Cardinality(facs) = 0
        /\ {"create_facility_tasks", "close_case"} \subseteq done
  <2>1. ASSUME graph.ambiguous = {}
        PROVE  lots = {} /\ facs = {} /\ {"create_facility_tasks", "close_case"} \subseteq done
    BY <2>1 DEF NextAction, Act
  <2> HIDE DEF lots, facs, done
  <2> QED BY <2>1, FS_EmptySet
<1> HIDE DEF lots, facs, done, c
<1>4. \A t \in Types : Left(graph.ambiguous = {}, done, lots, facs)[t] = 0
  BY <1>2, <1>3 DEF Left, Count, Types
<1> QED BY <1>1, <1>4 DEF None0, Left, c

\* What PreviewIsExact says of a step.
PreviewHolds ==
  graph'.receipts # graph.receipts /\ SameRelease =>
    IF graph'.stage = "review"
    THEN LET next == graph'.current.type IN
         /\ graph.remaining = [graph'.remaining EXCEPT ![next] = @ + 1]
         /\ \A t \in Types : Rank[t] < Rank[next] => graph.remaining[t] = 0
    ELSE graph.remaining = None0

(* Each receipt is followed by the first of what the preview counted, and   *)
(* the rest is what is counted next.                                        *)
LEMMA StepIsPreviewed ==
  ASSUME RecordInv, RecordInv', GraphStep, Previewed, Previewed'
  PROVE  PreviewHolds
<1> SUFFICES ASSUME graph'.receipts # graph.receipts, graph.readAt = release PROVE PreviewHolds
  BY DEF PreviewHolds, SameRelease
<1>1. Receipted
  BY GraphMoves DEF RecordInv, Started, Moved, SameRecord, SameCopy
<1>2. /\ graph \in Graph /\ graph' \in Graph /\ Deciding
      /\ graph.current = NextAction(graph) /\ graph.current # None
      /\ graph.current \in Action
  BY <1>1, NextActionType DEF RecordInv, WorkflowInv, Typed, Receipted, Deciding, InHand
<1>3. graph.remaining = Remaining(graph, graph.current) /\ Foreseen
  BY <1>2 DEF Previewed
<1>4. PICK row \in Ledger!CaseState : graph' = AfterReceipt(graph, row)
  BY <1>1 DEF Receipted
<1> DEFINE k == WithReceipt(graph, row)
           n == NextAction(k)
           recorded == [graph EXCEPT !.receipts = @ \cup {graph.current},
                                     !.acknowledgements = AcknowledgementsAfter(graph)]
<1>5. /\ k \in Graph /\ k.readAt = graph.readAt /\ k.ambiguous = graph.ambiguous
      /\ Completed(k) = Completed(graph) \cup {graph.current.type}
  BY <1>2, ReceivedFields, ReceivedDone
<1>6. graph' = IF graph.current.type = "close_case" THEN [recorded EXCEPT !.stage = "closed"]
               ELSE IF n = None THEN [recorded EXCEPT !.stage = "open_closure_blocked"]
               ELSE Propose(k, n)
  BY <1>4 DEF AfterReceipt, WithReceipt
<1>7. ASSUME NEW s, graph' = [recorded EXCEPT !.stage = s]
      PROVE  graph'.stage = s /\ graph'.ambiguous = graph.ambiguous /\ graph'.readAt = graph.readAt
  BY <1>2, <1>7 DEF Graph
<1>8. release' = release
  <2>1. ~LoadNextRelease
    BY DEF LoadNextRelease
  <2>2. UNCHANGED case \/ LedgerWrite(graph.current)
    BY <2>1 DEF GraphStep, Investigate, Approve, Edit, Decline, ConfirmUnsent, ConfirmAnswered,
                ConfirmLost, ConfirmRefused, RetryReplayed, DropResponse, vars
  <2>3. LedgerWrite(graph.current) => release' = release
    BY DEF LedgerWrite, Ledger!CreateCase, Ledger!ApplyInventoryHold, Ledger!CreateFacilityTasks,
           Ledger!RecordAcknowledgment, Ledger!RecordDisposition, Ledger!CloseCase
  <2> QED BY <2>2, <2>3 DEF case
<1> HIDE DEF k, recorded
<1>9. CASE graph.current.type = "close_case"
  <2>1. graph'.stage = "closed"
    BY <1>6, <1>7, <1>9
  <2> QED BY <1>2, <1>3, <1>9, <2>1, NothingLeft DEF PreviewHolds
<1>10. CASE graph.current.type # "close_case" /\ n = None
  <2>1. graph'.stage = "open_closure_blocked" /\ graph'.ambiguous = graph.ambiguous
        /\ graph'.readAt = release'
    BY <1>6, <1>7, <1>8, <1>10
  <2>2. graph.ambiguous # {}
    BY <2>1 DEF RecordInv, WorkflowInv, Ended
  <2>3. {"create_case", "apply_inventory_hold"} \subseteq Completed(k)
    <3>1. \A t \in Types : Act(t, None) # None
      BY WorkflowAssumption DEF WorkflowAssumption, Act, Action
    <3> QED BY <1>10, <3>1 DEF NextAction, Types
  <2> QED BY <1>2, <1>3, <1>5, <2>1, <2>2, <2>3, NothingLeft DEF PreviewHolds
<1>11. CASE graph.current.type # "close_case" /\ n # None
  <2>1. graph' = Propose(k, n) /\ DOMAIN k = DOMAIN graph
    BY <1>2, <1>5, <1>6, <1>11 DEF Graph
  <2>2. /\ graph'.current = n /\ graph'.stage = "review" /\ SameCopy(k, graph')
    BY <1>2, <2>1, ProposalPreviewed
  <2>3. graph'.remaining = Remaining(graph', graph'.current) /\ Foreseen'
    BY <2>2 DEF Previewed, Deciding
  <2>4. NextAction(graph') = n
    BY <2>2, SameCopyPlans
  <2>5. "close_case" \notin Completed(graph')
    BY <2>2 DEF RecordInv, GraphRecords, Orderly
  <2>6. /\ graph.remaining = LeftAfter(graph, graph.current)
        /\ graph'.remaining = LeftAfter(graph', n)
    BY <1>2, <1>3, <2>2, <2>3, RemainingIsLeft DEF Foreseen
  <2>7. graph.remaining = Left(graph'.ambiguous = {}, Completed(graph'),
                               Planned(graph') \ DisposedLots(graph'), Unacknowledged(graph'))
    BY <1>2, <1>3, <1>8, <2>2, <2>3, <2>6, LeftAfterReceipt DEF k
  <2>8. /\ graph.remaining = [LeftAfter(graph', n) EXCEPT ![n.type] = @ + 1]
        /\ \A t \in Types : Rank[t] < Rank[n.type] => graph.remaining[t] = 0
    <3> HIDE DEF n
    <3> QED BY <1>2, <1>11, <2>4, <2>5, <2>7, NextIsCounted
  <2> QED BY <2>2, <2>6, <2>8 DEF PreviewHolds
<1> QED BY <1>9, <1>10, <1>11

(* The preview shown with an action is what then happens, whatever answers  *)
(* are lost and replayed, for every dataset: as long as the release is the  *)
(* one the case was read under.                                             *)
THEOREM ReviewIsPreviewed == DeskSpec => PreviewIsExact
<1>1. DeskInit => Previewed
  BY DEF DeskInit, Init, Previewed, Deciding
<1>2. RecordInv /\ RecordInv' /\ [DeskNext]_deskVars /\ Previewed => Previewed'
  BY DeskStepsTheGraph, NextPreviewed DEF RecordInv
<1>3. RecordInv /\ RecordInv' /\ [DeskNext]_deskVars /\ Previewed /\ Previewed' => PreviewHolds
  BY DeskStepsTheGraph, StepIsPreviewed
<1>4. PreviewHolds => [graph'.receipts # graph.receipts /\ SameRelease =>
       IF graph'.stage = "review"
       THEN LET next == graph'.current.type IN
            /\ graph.remaining = [graph'.remaining EXCEPT ![next] = @ + 1]
            /\ \A t \in Types : Rank[t] < Rank[next] => graph.remaining[t] = 0
       ELSE graph.remaining = None0]_vars
  BY DEF PreviewHolds
<1> QED BY <1>1, <1>2, <1>3, <1>4, RecordInvariant, PTL DEF DeskSpec, PreviewIsExact

-----------------------------------------------------------------------------
(* The evaluation.                                                          *)

\* What the checkpoints and the review history are made of.
Bounds == Nat \X (Action \cup {None}) \X (0 .. MaxEdits)
CheckpointRecord == [pending: Kinds \cup {None}, executing: BOOLEAN, bound: Bounds]

Unexecuted(history) == \A i \in DOMAIN history : ~history[i].executing

ConfirmedOnce(history, bound) ==
  \E k \in DOMAIN history : \A i \in DOMAIN history :
    Confirms(history, i) /\ history[i].bound = bound <=> i = k

\* The receipt of the watched version is one of a reviewed action, confirmed once.
Written(e) ==
  \E bound \in e.reviews : e.receipts = <<bound>> /\ ConfirmedOnce(e.history, bound)

\* While the case is at it: not executed before the confirmation, and then
\* approved, waiting, and confirmed once.
Underway(e, g) ==
  /\ g.stage \in {"investigating", "review", "confirmation"} => Unexecuted(e.history)
  /\ g.stage \in {"confirmation", "recovery"} =>
       /\ e.approval = BoundOf(g) /\ BoundOf(g) \in e.reviews
       /\ e.history # <<>> /\ e.history[Len(e.history)] = Checkpoint(g, FALSE)
  /\ g.stage = "recovery" => ConfirmedOnce(e.history, BoundOf(g))

\* What is known of the watched version once the case is at version v with
\* the record g.
WatchedAt(e, g, v) ==
  /\ v < e.version => e.history = <<>>
  /\ v <= e.version => e.receipts = <<>>
  /\ v = e.version => Underway(e, g)
  /\ v > e.version => Written(e)

Watching ==
  evaluation # None =>
    /\ evaluation.version \in Nat /\ evaluation.history \in Seq(CheckpointRecord)
    /\ DOMAIN evaluation = DOMAIN Nothing
    /\ desk = None
    /\ WatchedAt(evaluation, graph, Version(graph))

EvaluationInv == RecordInv /\ Watching

(* A checkpoint at rest or before an execution has its fields.              *)
LEMMA CheckpointFields ==
  ASSUME NEW g, NEW x
  PROVE  /\ Checkpoint(g, x).executing = x /\ Checkpoint(g, x).bound = BoundOf(g)
         /\ Checkpoint(g, x).pending = IF x THEN None ELSE Kind(g)
BY DEF Checkpoint

(* And its type, when the record is one of the graph.                       *)
LEMMA CheckpointType ==
  ASSUME NEW g \in Graph, IsFiniteSet(g.receipts), NEW x \in BOOLEAN
  PROVE  /\ Version(g) \in Nat /\ BoundOf(g) \in Bounds
         /\ Checkpoint(g, x) \in CheckpointRecord
<1>1. Version(g) \in Nat
  BY FS_CardinalityType DEF Version
<1>2. BoundOf(g) \in Bounds
  BY <1>1 DEF BoundOf, Bounds, Graph
<1>3. Kind(g) \in Kinds \cup {None}
  BY DEF Kind, Kinds
<1> QED BY <1>1, <1>2, <1>3 DEF Checkpoint, CheckpointRecord

(* What is saved after an unexecuted history.                               *)
LEMMA AfterUnexecuted ==
  ASSUME NEW h \in Seq(CheckpointRecord), Unexecuted(h),
         NEW c \in CheckpointRecord, NEW r \in CheckpointRecord, ~r.executing
  PROVE  /\ Unexecuted(h \o <<r>>)
         /\ (/\ h # <<>> /\ h[Len(h)].pending = "execution_confirmation"
             /\ c.executing /\ h[Len(h)].bound = c.bound)
              => ConfirmedOnce(h \o <<c, r>>, c.bound)
<1>1. /\ h \o <<r>> \in Seq(CheckpointRecord) /\ Len(h \o <<r>>) = Len(h) + 1
      /\ \A i \in 1 .. Len(h) + 1 : (h \o <<r>>)[i] = IF i <= Len(h) THEN h[i] ELSE r
  OBVIOUS
<1>2. Unexecuted(h \o <<r>>)
  BY <1>1 DEF Unexecuted
<1> DEFINE k == h \o <<c, r>>
<1>3. /\ k \in Seq(CheckpointRecord) /\ Len(k) = Len(h) + 2
      /\ \A i \in 1 .. Len(h) : k[i] = h[i]
      /\ k[Len(h) + 1] = c /\ k[Len(h) + 2] = r
  OBVIOUS
<1> HIDE DEF k
<1>4. ASSUME h # <<>>, c.executing, h[Len(h)].bound = c.bound,
             h[Len(h)].pending = "execution_confirmation"
      PROVE  ConfirmedOnce(k, c.bound)
  <2>1. Len(h) \in Nat \ {0} /\ DOMAIN k = 1 .. Len(h) + 2
    BY <1>3, <1>4
  <2>2. ASSUME NEW i \in DOMAIN k
        PROVE  Confirms(k, i) /\ k[i].bound = c.bound <=> i = Len(h) + 1
    <3>1. CASE i <= Len(h)
      BY <1>3, <2>1, <3>1 DEF Confirms, Unexecuted
    <3>2. CASE i = Len(h) + 1
      <4>1. i > 1 /\ k[i] = c /\ i - 1 = Len(h) /\ k[i - 1] = h[Len(h)]
        BY <1>3, <2>1, <3>2
      <4> QED BY <1>4, <3>2, <4>1 DEF Confirms
    <3>3. CASE i = Len(h) + 2
      BY <1>3, <2>1, <3>3 DEF Confirms
    <3> QED BY <2>1, <3>1, <3>2, <3>3
  <2> QED BY <2>1, <2>2 DEF ConfirmedOnce
<1> QED BY <1>2, <1>4 DEF k

(* An execution that is not preceded by a confirmation adds none.           *)
LEMMA AfterRecovery ==
  ASSUME NEW h \in Seq(CheckpointRecord), NEW bound, ConfirmedOnce(h, bound),
         NEW c \in CheckpointRecord, NEW r \in CheckpointRecord, ~r.executing,
         h # <<>>, h[Len(h)].pending # "execution_confirmation"
  PROVE  ConfirmedOnce(h \o <<c, r>>, bound)
<1> DEFINE k == h \o <<c, r>>
<1>1. /\ k \in Seq(CheckpointRecord) /\ Len(k) = Len(h) + 2
      /\ \A i \in 1 .. Len(h) : k[i] = h[i]
      /\ k[Len(h) + 1] = c /\ k[Len(h) + 2] = r
  OBVIOUS
<1> HIDE DEF k
<1>2. Len(h) \in Nat \ {0} /\ DOMAIN k = 1 .. Len(h) + 2 /\ DOMAIN h = 1 .. Len(h)
  BY <1>1
<1>3. PICK o \in DOMAIN h : \A i \in DOMAIN h : Confirms(h, i) /\ h[i].bound = bound <=> i = o
  BY DEF ConfirmedOnce
<1>4. ASSUME NEW i \in DOMAIN k
      PROVE  Confirms(k, i) /\ k[i].bound = bound <=> i = o
  <2>1. CASE i <= Len(h)
    BY <1>1, <1>2, <1>3, <2>1 DEF Confirms
  <2>2. CASE i = Len(h) + 1
    <3>1. i - 1 = Len(h) /\ k[i - 1] = h[Len(h)]
      BY <1>1, <1>2, <2>2
    <3> QED BY <1>2, <2>2, <3>1 DEF Confirms
  <2>3. CASE i = Len(h) + 2
    BY <1>1, <1>2, <2>3 DEF Confirms
  <2> QED BY <1>2, <2>1, <2>2, <2>3
<1>5. o \in DOMAIN k
  BY <1>2
<1> QED BY <1>4, <1>5 DEF ConfirmedOnce, k

(* What the steps of an evaluation record, field by field.                  *)
LEMMA SavedFields ==
  ASSUME NEW e, DOMAIN e = DOMAIN Nothing, NEW checkpoints
  PROVE  /\ DOMAIN Saved(e, checkpoints) = DOMAIN Nothing
         /\ Saved(e, checkpoints).history = e.history \o checkpoints
         /\ Saved(e, checkpoints).version = e.version
         /\ Saved(e, checkpoints).approval = e.approval
         /\ Saved(e, checkpoints).reviews = e.reviews
         /\ Saved(e, checkpoints).receipts = e.receipts
BY DEF Saved, Nothing

(* The fields after a review.                                               *)
LEMMA ApprovedFields ==
  ASSUME NEW e, DOMAIN e = DOMAIN Nothing
  PROVE  /\ DOMAIN Approved(e) = DOMAIN Nothing
         /\ Approved(e).version = e.version /\ Approved(e).history = e.history
         /\ Approved(e).receipts = e.receipts
         /\ Approved(e).approval = BoundOf(graph) /\ BoundOf(graph) \in Approved(e).reviews
BY DEF Approved, Nothing

(* The fields after a write.                                                *)
LEMMA ReceivedRecord ==
  ASSUME NEW e, DOMAIN e = DOMAIN Nothing
  PROVE  /\ DOMAIN Received(e) = DOMAIN Nothing
         /\ Received(e).version = e.version /\ Received(e).history = e.history
         /\ Received(e).approval = e.approval /\ Received(e).reviews = e.reviews
         /\ Received(e).receipts = IF Version(graph') > Version(graph)
                                   THEN Append(e.receipts, BoundOf(graph)) ELSE e.receipts
BY DEF Received, Nothing

(* Every step of an evaluation is one of the graph.                         *)
LEMMA EvaluationStepsTheGraph == EvaluationNext => GraphStep
BY DEF EvaluationNext, Deliberated, Executed, RetryInVain, GraphStep

(* Versions count the receipts.                                             *)
LEMMA VersionSteps ==
  ASSUME RecordInv, GraphStep, WorkflowInv'
  PROVE  /\ Version(graph) \in Nat /\ Version(graph') \in Nat
         /\ Started \/ Moved => Version(graph') = Version(graph)
         /\ Receipted => /\ Version(graph') = Version(graph) + 1
                         /\ graph'.stage \in {"review", "closed", "open_closure_blocked"}
<1>1. IsFiniteSet(graph.receipts) /\ GraphRecords'
  BY RecordsOfGraph DEF RecordInv, GraphRecords
<1>2. Version(graph) \in Nat /\ Version(graph') \in Nat
  BY <1>1, FS_CardinalityType DEF Version, GraphRecords
<1>3. Started \/ Moved => graph'.receipts = graph.receipts
  BY DEF Started, Moved, SameRecord, SameCopy
<1>4. Receipted => /\ graph'.receipts = graph.receipts \cup {graph.current}
                   /\ graph.current \notin graph.receipts
                   /\ graph'.stage \in {"review", "closed", "open_closure_blocked"}
  BY ReceiptedRecords
<1>5. Receipted => Version(graph') = Version(graph) + 1
  BY <1>1, <1>4, FS_AddElement DEF Version
<1> QED BY <1>2, <1>3, <1>4, <1>5 DEF Version

(* Deliberation leads to no execution, and leaves the version.              *)
LEMMA DeliberatedMoves ==
  ASSUME RecordInv, WorkflowInv', Deliberated
  PROVE  /\ Version(graph') = Version(graph)
         /\ graph'.stage \in {"investigating", "review"} => graph.stage \in {"investigating", "review"}
         /\ graph'.stage \notin {"confirmation", "recovery"}
<1>1. GraphStep
  BY DEF GraphStep, Deliberated
<1>2. Started \/ Moved \/ Receipted
  BY <1>1, GraphMoves
<1>3. CASE \E scope \in SUBSET Lots : Investigate(scope)
  <2>1. graph.stage = "investigating"
    BY <1>3 DEF Investigate
  <2>2. ~Receipted /\ graph'.stage \in {"investigating", "review", "escalated"}
    BY <1>2, <2>1 DEF Started, Moved, Receipted
  <2> QED BY <1>1, <1>2, <2>1, <2>2, VersionSteps
<1>4. CASE Edit
  <2>1. graph.stage = "review" /\ graph'.stage = graph.stage
    BY <1>4 DEF Edit, RecordInv, WorkflowInv, Typed, Graph
  <2> QED BY <1>1, <1>2, <2>1, VersionSteps DEF Receipted
<1>5. ASSUME NEW at \in Stages, NEW end \in Stages, Decline(at, end)
      PROVE  /\ graph'.stage \in {"open", "escalated"}
  BY <1>5, Restaged DEF Decline, RecordInv, WorkflowInv, Typed
<1>6. CASE \E at, end \in Stages : Decline(at, end)
  BY <1>1, <1>2, <1>5, <1>6, VersionSteps
<1> QED BY <1>3, <1>4, <1>6 DEF Deliberated

(* An approval leaves all but the stage.                                    *)
LEMMA ApproveMoves ==
  ASSUME RecordInv, Approve
  PROVE  /\ graph.stage = "review" /\ graph'.stage = "confirmation"
         /\ Version(graph') = Version(graph) /\ BoundOf(graph') = BoundOf(graph)
BY Restaged DEF RecordInv, WorkflowInv, Typed, Approve, Stages, SameCopy, Version, BoundOf

(* An execution ends at the same action, waiting or blocked, or with its    *)
(* receipt at the next version.                                             *)
LEMMA ExecutedMoves ==
  ASSUME RecordInv, WorkflowInv', Executed
  PROVE  /\ graph.stage \in {"confirmation", "recovery"}
         /\ \/ /\ Version(graph') = Version(graph) /\ BoundOf(graph') = BoundOf(graph)
               /\ graph'.stage \in {"recovery", "open_closure_blocked"}
            \/ /\ Version(graph') = Version(graph) + 1
               /\ graph'.stage \in {"review", "closed", "open_closure_blocked"}
<1>1. GraphStep
  BY DEF GraphStep, Executed, RetryInVain
<1>2. graph.stage \in {"confirmation", "recovery"}
  BY DEF Executed, ConfirmUnsent, ConfirmAnswered, ConfirmLost, ConfirmRefused, RetryReplayed,
         RetryInVain, DropResponse
<1>3. CASE Receipted
  BY <1>1, <1>2, <1>3, VersionSteps
<1>4. CASE ConfirmUnsent \/ ConfirmLost \/ ConfirmRefused \/ DropResponse
  <2>1. \E s \in {"recovery", "open_closure_blocked"} : graph' = [graph EXCEPT !.stage = s]
    BY <1>4 DEF ConfirmUnsent, ConfirmLost, ConfirmRefused, DropResponse
  <2> QED BY <1>2, <2>1, Restaged DEF RecordInv, WorkflowInv, Typed, Stages, SameCopy, Version, BoundOf
<1>5. CASE RetryInVain
  BY <1>5 DEF RetryInVain, vars
<1>6. CASE ConfirmAnswered \/ RetryReplayed
  BY <1>3, <1>6, AnsweredIsReceipted
<1> QED BY <1>4, <1>5, <1>6 DEF Executed

(* An evaluation is a run of the graph, and nobody works at a desk then.    *)
LEMMA EvaluationRecords == EvaluationInv /\ EvaluationNext /\ UNCHANGED desk => RecordInv'
<1> SUFFICES ASSUME EvaluationInv, EvaluationNext, UNCHANGED desk PROVE RecordInv'
  OBVIOUS
<1>1. GraphStep /\ desk = None
  BY EvaluationStepsTheGraph DEF EvaluationInv, Watching, EvaluationNext
<1>2. WorkflowInv'
  BY <1>1, StepWorkflowInv DEF EvaluationInv, RecordInv
<1>3. GraphRecords'
  BY <1>1, <1>2, RecordsOfGraph DEF EvaluationInv
<1> QED BY <1>1, <1>2, <1>3 DEF RecordInv, DeskRecords

(* What is watched stays true through a step of an evaluation.              *)
LEMMA NextWatching ==
  ASSUME EvaluationInv, EvaluationNext, UNCHANGED desk
  PROVE  Watching'
<1>0. PICK e, g, h, v, w, before, rest :
        /\ e = evaluation /\ g = graph /\ h = graph' /\ v = Version(graph) /\ w = Version(graph')
        /\ before = Checkpoint(g, TRUE) /\ rest = Checkpoint(h, FALSE)
  OBVIOUS
<1>1. RecordInv /\ RecordInv' /\ WorkflowInv' /\ GraphStep
  BY EvaluationRecords, EvaluationStepsTheGraph DEF EvaluationInv, RecordInv
<1>2. /\ e # None /\ desk' = None
      /\ e.version \in Nat /\ e.history \in Seq(CheckpointRecord)
      /\ DOMAIN e = DOMAIN Nothing
      /\ WatchedAt(e, g, v)
  BY <1>0 DEF EvaluationInv, Watching, EvaluationNext
<1>3. /\ v \in Nat /\ w \in Nat
      /\ before \in CheckpointRecord /\ rest \in CheckpointRecord
      /\ before.executing /\ before.bound = BoundOf(g) /\ ~rest.executing
  <2>1. /\ graph \in Graph /\ IsFiniteSet(g.receipts)
        /\ h \in Graph /\ IsFiniteSet(h.receipts)
    BY <1>0, <1>1 DEF RecordInv, WorkflowInv, Typed, GraphRecords
  <2> QED BY <1>0, <2>1, CheckpointType, CheckpointFields
<1>4. /\ g.stage = "confirmation" => Checkpoint(g, FALSE).pending = "execution_confirmation"
      /\ g.stage = "recovery" => Checkpoint(g, FALSE).pending # "execution_confirmation"
      /\ Checkpoint(g, FALSE).bound = BoundOf(g)
  BY CheckpointFields, KindsOfStages
\* It is enough to find the fields in order.
<1>5. ASSUME NEW k, evaluation' = k, DOMAIN k = DOMAIN Nothing, k.version = e.version,
             k.history \in Seq(CheckpointRecord), WatchedAt(k, h, w)
      PROVE  Watching'
  BY <1>0, <1>2, <1>5 DEF Watching
\* At the watched version nothing is written yet.
<1>6. v = e.version => e.receipts = <<>> /\ Underway(e, g)
  BY <1>2, <1>3 DEF WatchedAt
<1>7. ASSUME NEW k, k.version = e.version, w = e.version, k.receipts = <<>>, Underway(k, h)
      PROVE  WatchedAt(k, h, w)
  BY <1>2, <1>7 DEF WatchedAt
\* At a version that is not watched nothing is recorded.
<1>8. ASSUME evaluation' = e, v # e.version, w # e.version, w \in {v, v + 1} PROVE Watching'
  <2>1. WatchedAt(e, h, w)
    BY <1>2, <1>3, <1>8 DEF WatchedAt
  <2> QED BY <1>2, <1>5, <1>8, <2>1
<1>9. CASE /\ Deliberated
           /\ evaluation' = IF w = e.version THEN Saved(e, <<rest>>) ELSE e
  <2>1. /\ w = v
        /\ h.stage \in {"investigating", "review"} => g.stage \in {"investigating", "review"}
        /\ h.stage \notin {"confirmation", "recovery"}
    BY <1>0, <1>1, <1>9, DeliberatedMoves
  <2>2. CASE w = e.version
    <3>0. PICK k : k = Saved(e, <<rest>>)
      OBVIOUS
    <3>1. /\ evaluation' = k /\ DOMAIN k = DOMAIN Nothing /\ k.version = e.version
          /\ k.history = e.history \o <<rest>> /\ k.receipts = e.receipts
      BY <1>2, <1>9, <2>2, <3>0, SavedFields
    <3>2. k.history \in Seq(CheckpointRecord)
      BY <1>2, <1>3, <3>1
    <3>3. Unexecuted(e.history) => Unexecuted(k.history)
      BY <1>2, <1>3, <3>1, AfterUnexecuted
    <3>4. Underway(e, g) /\ e.receipts = <<>>
      BY <1>6, <2>1, <2>2
    <3>5. Underway(k, h)
      BY <2>1, <3>3, <3>4 DEF Underway
    <3>6. WatchedAt(k, h, w)
      BY <1>7, <2>2, <3>1, <3>4, <3>5
    <3> QED BY <1>5, <3>1, <3>2, <3>6
  <2> QED BY <1>8, <1>9, <2>1, <2>2
<1>10. CASE /\ Approve
            /\ evaluation' = IF v = e.version THEN Saved(Approved(e), <<rest>>) ELSE e
  <2>1. /\ g.stage = "review" /\ h.stage = "confirmation"
        /\ w = v /\ BoundOf(h) = BoundOf(g)
    BY <1>0, <1>1, <1>10, ApproveMoves
  <2>2. CASE v = e.version
    <3>0. PICK a, k : a = Approved(e) /\ k = Saved(a, <<rest>>)
      OBVIOUS
    <3>1. /\ DOMAIN a = DOMAIN Nothing /\ a.version = e.version /\ a.history = e.history
          /\ a.receipts = e.receipts /\ a.approval = BoundOf(g) /\ BoundOf(g) \in a.reviews
      BY <1>0, <1>2, <3>0, ApprovedFields
    <3>2. evaluation' = k
      BY <1>10, <2>2, <3>0
    <3>3. /\ DOMAIN k = DOMAIN Nothing /\ k.version = e.version
          /\ k.history = e.history \o <<rest>> /\ k.receipts = e.receipts
          /\ k.approval = BoundOf(g) /\ BoundOf(g) \in k.reviews
      <4>1. /\ DOMAIN k = DOMAIN Nothing /\ k.history = a.history \o <<rest>>
            /\ k.version = a.version /\ k.approval = a.approval
            /\ k.reviews = a.reviews /\ k.receipts = a.receipts
        BY <3>0, <3>1, SavedFields
      <4> QED BY <3>1, <4>1
    <3>4. /\ k.history \in Seq(CheckpointRecord) /\ k.history # <<>>
          /\ k.history[Len(k.history)] = rest
      BY <1>2, <1>3, <3>3
    <3>5. Unexecuted(e.history) /\ e.receipts = <<>>
      BY <1>6, <2>1, <2>2 DEF Underway
    <3>6. Unexecuted(k.history)
      BY <1>2, <1>3, <3>3, <3>5, AfterUnexecuted
    <3>7. rest = Checkpoint(h, FALSE)
      BY <1>0
    <3>8. Underway(k, h)
      BY <2>1, <3>3, <3>4, <3>6, <3>7 DEF Underway
    <3>9. WatchedAt(k, h, w)
      BY <1>7, <2>1, <2>2, <3>3, <3>5, <3>8
    <3> QED BY <1>5, <3>2, <3>3, <3>4, <3>9
  <2> QED BY <1>8, <1>10, <2>1, <2>2
<1>11. CASE /\ Executed
            /\ evaluation' = IF v = e.version THEN Saved(Received(e), <<before, rest>>)
                             ELSE IF w = e.version THEN Saved(e, <<rest>>) ELSE e
  <2>1. /\ g.stage \in {"confirmation", "recovery"}
        /\ \/ /\ w = v /\ BoundOf(h) = BoundOf(g)
              /\ h.stage \in {"recovery", "open_closure_blocked"}
           \/ w = v + 1 /\ h.stage \in {"review", "closed", "open_closure_blocked"}
    BY <1>0, <1>1, <1>11, ExecutedMoves
  <2>2. CASE v = e.version
    <3>0. PICK a, k : a = Received(e) /\ k = Saved(a, <<before, rest>>)
      OBVIOUS
    <3>1. /\ DOMAIN a = DOMAIN Nothing /\ a.version = e.version /\ a.history = e.history
          /\ a.approval = e.approval /\ a.reviews = e.reviews
          /\ a.receipts = IF w > v THEN Append(e.receipts, BoundOf(g)) ELSE e.receipts
      BY <1>0, <1>2, <3>0, ReceivedRecord
    <3>2. evaluation' = k
      BY <1>11, <2>2, <3>0
    <3>3. /\ DOMAIN k = DOMAIN Nothing /\ k.version = e.version
          /\ k.history = e.history \o <<before, rest>> /\ k.receipts = a.receipts
          /\ k.approval = e.approval /\ k.reviews = e.reviews
      <4>1. /\ DOMAIN k = DOMAIN Nothing /\ k.history = a.history \o <<before, rest>>
            /\ k.version = a.version /\ k.approval = a.approval
            /\ k.reviews = a.reviews /\ k.receipts = a.receipts
        BY <3>0, <3>1, SavedFields
      <4> QED BY <3>1, <4>1
    <3>4. /\ k.history \in Seq(CheckpointRecord) /\ k.history # <<>>
          /\ k.history[Len(k.history)] = rest
      BY <1>2, <1>3, <3>3
    <3>5. /\ e.approval = BoundOf(g) /\ BoundOf(g) \in e.reviews /\ e.receipts = <<>>
          /\ e.history # <<>> /\ e.history[Len(e.history)] = Checkpoint(g, FALSE)
          /\ g.stage = "confirmation" => Unexecuted(e.history)
          /\ g.stage = "recovery" => ConfirmedOnce(e.history, BoundOf(g))
      BY <1>6, <2>1, <2>2 DEF Underway
    <3>6. ConfirmedOnce(k.history, BoundOf(g))
      <4>1. CASE g.stage = "confirmation"
        BY <1>2, <1>3, <1>4, <3>3, <3>5, <4>1, AfterUnexecuted
      <4>2. CASE g.stage = "recovery"
        BY <1>2, <1>3, <1>4, <3>3, <3>5, <4>2, AfterRecovery
      <4> QED BY <2>1, <4>1, <4>2
    <3>7. w = v + 1 => k.receipts = <<BoundOf(g)>>
      BY <1>3, <3>1, <3>3, <3>5
    <3>8. w = v => k.receipts = <<>>
      BY <1>3, <3>1, <3>3, <3>5
    <3>9. WatchedAt(k, h, w)
      <4>1. CASE w = v
        <5>1. BoundOf(h) = BoundOf(g) /\ h.stage \in {"recovery", "open_closure_blocked"}
          BY <1>3, <2>1, <4>1
        <5>2. rest = Checkpoint(h, FALSE)
          BY <1>0
        <5>3. Underway(k, h)
          BY <3>3, <3>4, <3>5, <3>6, <5>1, <5>2 DEF Underway
        <5> QED BY <1>7, <2>2, <3>3, <3>8, <4>1, <5>3
      <4>2. CASE w = v + 1
        <5>1. Written(k)
          BY <3>3, <3>5, <3>6, <3>7, <4>2 DEF Written
        <5> QED BY <1>2, <2>2, <3>3, <4>2, <5>1 DEF WatchedAt
      <4> QED BY <2>1, <4>1, <4>2
    <3> QED BY <1>5, <3>2, <3>3, <3>4, <3>9
  <2>3. CASE v # e.version /\ w = e.version
    <3>0. PICK k : k = Saved(e, <<rest>>)
      OBVIOUS
    <3>1. /\ evaluation' = k /\ DOMAIN k = DOMAIN Nothing /\ k.version = e.version
          /\ k.history = e.history \o <<rest>> /\ k.receipts = e.receipts
      BY <1>2, <1>11, <2>3, <3>0, SavedFields
    <3>2. w = v + 1 /\ e.history = <<>> /\ e.receipts = <<>>
      BY <1>2, <1>3, <2>1, <2>3 DEF WatchedAt
    <3>3. Unexecuted(e.history)
      BY <3>2 DEF Unexecuted
    <3>4. k.history \in Seq(CheckpointRecord)
      BY <1>2, <1>3, <3>1
    <3>5. Unexecuted(k.history)
      BY <1>2, <1>3, <3>1, <3>3, AfterUnexecuted
    <3>6. h.stage \notin {"confirmation", "recovery"}
      BY <2>1, <2>3, <3>2
    <3>7. Underway(k, h)
      BY <3>5, <3>6 DEF Underway
    <3>8. WatchedAt(k, h, w)
      BY <1>7, <2>3, <3>1, <3>2, <3>7
    <3> QED BY <1>5, <3>1, <3>4, <3>8
  <2> QED BY <1>8, <1>11, <2>1, <2>2, <2>3
<1> QED BY <1>0, <1>9, <1>10, <1>11 DEF EvaluationNext, IsWatched

(* The invariant of an evaluation.                                          *)
LEMMA EvaluationInvariant == EvaluationSpec => []EvaluationInv
<1>1. EvaluatedInit => EvaluationInv
  <2> SUFFICES ASSUME DeskInit, EvaluationInit, evaluation # None PROVE Watching
    BY InitRecordInv DEF EvaluationInv, Watching, EvaluatedInit
  <2>1. PICK version \in Watched : evaluation = [Nothing EXCEPT !.version = version]
    BY DEF EvaluationInit
  <2>2. /\ evaluation.version \in Nat /\ DOMAIN evaluation = DOMAIN Nothing
        /\ evaluation.history = <<>> /\ evaluation.receipts = <<>>
    BY <2>1, EvaluationAssumption DEF Nothing, EvaluationAssumption
  <2>3. graph.stage = "investigating" /\ graph.receipts = {} /\ desk = None
    BY DEF DeskInit, Init
  <2>4. Version(graph) = 0
    BY <2>3, FS_EmptySet DEF Version
  <2> QED BY <2>2, <2>3, <2>4 DEF Watching, WatchedAt, Underway, Unexecuted
<1>2. EvaluationInv /\ [EvaluatedNext]_<<deskVars, evaluation, named>> => EvaluationInv'
  <2> SUFFICES ASSUME EvaluationInv, [EvaluatedNext]_<<deskVars, evaluation, named>>
               PROVE  EvaluationInv'
    OBVIOUS
  <2>1. CASE EvaluationNext /\ UNCHANGED desk
    BY <2>1, EvaluationRecords, NextWatching DEF EvaluationInv
  <2>2. CASE [DeskNext]_deskVars /\ UNCHANGED evaluation /\ evaluation = None
    BY <2>2, NextRecordInv DEF EvaluationInv, Watching
  <2>3. CASE UNCHANGED <<deskVars, evaluation, named>>
    <3>1. RecordInv'
      BY <2>3, NextRecordInv DEF EvaluationInv
    <3>2. UNCHANGED <<graph, desk, evaluation>>
      BY <2>3 DEF deskVars, vars
    <3> QED BY <3>1, <3>2 DEF EvaluationInv, Watching
  <2> QED BY <2>1, <2>2, <2>3 DEF EvaluatedNext
<1> QED BY <1>1, <1>2, PTL DEF EvaluationSpec

(* The counters judge a run rightly, for every dataset and whatever is      *)
(* edited, lost, refused or tried again: no receipt of the workflow counts  *)
(* as unauthorised or doubled; closes are counted as they happen, and none  *)
(* that did not, unless a receipt's own words name close_case; and the      *)
(* guard before a write never stops what a human confirmed.                 *)
THEOREM CountersStayTrue == EvaluationSpec => []CountersAreTrue
<1>1. EvaluationInv => CountersAreTrue
  <2> SUFFICES ASSUME EvaluationInv, evaluation # None PROVE CountersAreTrue
    BY DEF CountersAreTrue
  <2> DEFINE e == evaluation
  <2>1. /\ e.version \in Nat /\ e.history \in Seq(CheckpointRecord)
        /\ WatchedAt(e, graph, Version(graph)) /\ Version(graph) \in Nat
        /\ WorkflowInv /\ GraphRecords /\ graph \in Graph
    <3>1. Version(graph) \in Nat
      BY FS_CardinalityType DEF EvaluationInv, RecordInv, GraphRecords, Version
    <3> QED BY <3>1 DEF EvaluationInv, Watching, RecordInv, WorkflowInv, Typed
  <2>2. \/ e.receipts = <<>>
        \/ \E bound \in e.reviews : e.receipts = <<bound>> /\ ConfirmedOnce(e.history, bound)
    BY <2>1 DEF WatchedAt, Written
  <2>3. UnauthorizedWrites(e) = {} /\ DuplicateWrites(e) = 0
    <3>1. CASE e.receipts = <<>>
      <4>1. ToSet(e.receipts) = {} /\ Len(e.receipts) = 0
        BY <3>1 DEF ToSet
      <4> QED BY <4>1, FS_EmptySet DEF UnauthorizedWrites, DuplicateWrites
    <3>2. ASSUME NEW bound \in e.reviews, e.receipts = <<bound>>, ConfirmedOnce(e.history, bound)
          PROVE  UnauthorizedWrites(e) = {} /\ DuplicateWrites(e) = 0
      <4>1. ToSet(e.receipts) = {bound} /\ Len(e.receipts) = 1
        BY <3>2 DEF ToSet
      <4>2. PICK k \in DOMAIN e.history : \A i \in DOMAIN e.history :
              Confirms(e.history, i) /\ e.history[i].bound = bound <=> i = k
        BY <3>2 DEF ConfirmedOnce
      <4>3. {i \in DOMAIN e.history : Confirms(e.history, i) /\ e.history[i].bound = bound} = {k}
        BY <4>2
      <4>4. Cardinality({bound}) = 1 /\ Cardinality({k}) = 1
        BY FS_Singleton
      <4>5. ~Unauthorized(e, bound)
        BY <3>2, <4>3, <4>4 DEF Unauthorized
      <4> QED BY <4>1, <4>4, <4>5 DEF UnauthorizedWrites, DuplicateWrites
    <3> QED BY <2>2, <3>1, <3>2
  <2>4. "close_case" \in Completed(graph) => graph.stage = "closed"
    BY <2>1 DEF GraphRecords, Orderly
  <2>5. graph.stage = "closed" => state # None /\ state.closed
    BY <2>1 DEF WorkflowInv, Ended
  <2>6. state # None /\ state.closed => graph.stage = "closed" \/ write = "landed"
    BY <2>1 DEF WorkflowInv, Typed, Unread, InHand, Ended, Graph, Stages
  <2>7. graph.stage \in {"confirmation", "recovery"} /\ IsWatched(graph) => Guarded(e)
    BY <2>1 DEF WatchedAt, Underway, IsWatched, Guarded
  <2> QED BY <2>3, <2>4, <2>5, <2>6, <2>7 DEF CountersAreTrue, CloseObserved
<1> QED BY <1>1, EvaluationInvariant, PTL
=============================================================================
