--------------------------- MODULE CaseDeskProofs ---------------------------
(***************************************************************************)
(* Proofs about CaseDesk and the CaseWorkflow it works on, for every        *)
(* dataset, every sequence of releases and every desk: the checkpointed     *)
(* copy tells what the ledger holds, what is put before a human the ledger  *)
(* accepts, and thread and case end together.  What is known of the ledger  *)
(* is taken from CaseLedgerProofs.                                          *)
(***************************************************************************)
EXTENDS CaseDesk, WellFoundedInduction, FiniteSetTheorems, TLAPS

LP == INSTANCE CaseLedgerProofs

(* Of a nonempty part of a listing there is a first.                        *)
LEMMA FirstIsIn ==
  ASSUME NEW order, NEW S, Listing(order, S), NEW T \in SUBSET S, T # {}
  PROVE  First(order, T) \in T
<1> DEFINE D == {i \in DOMAIN order : order[i] \in T}
<1>1. Cardinality(S) \in Nat
  BY FS_CardinalityType DEF Listing
<1>2. D \subseteq Nat /\ D # {}
  BY <1>1 DEF Listing
<1>3. PICK i \in D : \A j \in D : ~(<<j, i>> \in OpToRel(<, Nat))
  <2> HIDE DEF D
  <2> QED BY <1>2, NatLessThanWellFounded, WFMin
<1>4. \A j \in 1 .. i - 1 : order[j] \notin T
  <2> SUFFICES ASSUME NEW j \in 1 .. i - 1, order[j] \in T PROVE FALSE
    OBVIOUS
  <2>1. i \in 1 .. Cardinality(S) /\ j \in 1 .. Cardinality(S) /\ j < i
    BY <1>1 DEF Listing
  <2>2. j \in D
    BY <2>1 DEF Listing
  <2>3. <<j, i>> \in OpToRel(<, Nat)
    BY <2>1, <1>1 DEF OpToRel
  <2> QED BY <1>3, <2>2, <2>3
<1> QED BY <1>4 DEF First

(* The assumption of the ledger's proofs.                                   *)
LEMMA AsTheLedgerAssumes == LP!LedgerAssumption
BY WorkflowAssumption
   DEF WorkflowAssumption, LP!LedgerAssumption, LP!Dataset, Ledger!Dataset, LP!CaseState,
       Ledger!CaseState, Ledger!Releases, LP!Releases, Ledger!Classes, LP!Classes,
       Ledger!Acknowledgement, LP!Acknowledgement

\* What the ledger's proofs show of it, and that the workflow sends the lots in
\* order.
LedgerHolds == LP!LedgerInv /\ LP!RecordIsTrue /\ (state # None => state.ordered)

(* Creation and disposition are those the ledger's proofs speak of.         *)
LEMMA CreatesAsLedger ==
  ASSUME NEW lots \in SUBSET Lots, NEW facilities \in SUBSET Facilities, NEW sent,
         Ledger!CreateCase(lots, facilities, sent, TRUE)
  PROVE  LP!CreateCase(lots, facilities, LP!Residuals(lots, LP!Nothing), TRUE)
BY DEF Ledger!CreateCase, LP!CreateCase, Ledger!MayCreate, LP!MayCreate, Ledger!Eligible,
       LP!Eligible, Ledger!FacilitiesOf, LP!FacilitiesOf, Ledger!Candidates, LP!Candidates,
       Ledger!tables, LP!tables, Ledger!authority, LP!authority, Ledger!Residual, LP!Residual,
       Ledger!Residuals, LP!Residuals, Ledger!Nothing, LP!Nothing, Ledger!GapsIn, LP!GapsIn

(* The same of a disposition.                                               *)
LEMMA DisposesAsLedger ==
  ASSUME NEW l \in Lots, Ledger!RecordDisposition(l)
  PROVE  LP!RecordDisposition(l)
BY DEF Ledger!RecordDisposition, LP!RecordDisposition, Ledger!MayDispose, LP!MayDispose,
       Ledger!Overdrawn, LP!Overdrawn, Ledger!Taking, LP!Taking, Ledger!authority, LP!authority,
       Ledger!Residual, LP!Residual, Ledger!Residuals, LP!Residuals, Ledger!Open, LP!Open,
       Ledger!GapsIn, LP!GapsIn

(* Both leave a row.                                                        *)
LEMMA RowWritten ==
  ASSUME LedgerHolds
  PROVE  /\ \A lots \in SUBSET Lots, facilities \in SUBSET Facilities :
              \A sent : Ledger!CreateCase(lots, facilities, sent, TRUE) => state' \in Ledger!CaseState
         /\ \A l \in Lots : Ledger!RecordDisposition(l) => state' \in Ledger!CaseState
<1>1. LP!TypeOK
  BY DEF LedgerHolds, LP!LedgerInv
<1>2. Ledger!CaseState = LP!CaseState
  BY DEF Ledger!CaseState, LP!CaseState, Ledger!Classes, LP!Classes, Ledger!Acknowledgement,
         LP!Acknowledgement
<1> QED BY <1>1, <1>2, AsTheLedgerAssumes, LP!RowAfterWrite, CreatesAsLedger, DisposesAsLedger

\* The steps of the workflow that change the ledger are the ledger's own.
LedgerStep ==
  \/ \E lots \in SUBSET Lots, facilities \in SUBSET Facilities : \E sent :
       Ledger!CreateCase(lots, facilities, sent, TRUE)
  \/ \E lots \in SUBSET Lots : Ledger!ApplyInventoryHold(lots)
  \/ \E facilities \in SUBSET Facilities : Ledger!CreateFacilityTasks(facilities)
  \/ \E f \in Facilities : Ledger!RecordAcknowledgment(f)
  \/ \E l \in Lots : Ledger!RecordDisposition(l)
  \/ Ledger!CloseCase
  \/ Ledger!LoadNextRelease
  \/ UNCHANGED case

(* What the ledger's proofs show of its steps.                              *)
LEMMA LedgerStays == LedgerHolds /\ LedgerStep => LedgerHolds'
<1> SUFFICES ASSUME LedgerHolds, LedgerStep
             PROVE  /\ [LP!Next]_(LP!ledgerVars)
                    /\ state' # None => state'.ordered
  BY AsTheLedgerAssumes, LP!NextLedgerInv, LP!NextRecordIsTrue DEF LedgerHolds
<1> USE DEF Ledger!authority, LP!authority, Ledger!Residual, LP!Residual, Ledger!Residuals,
            LP!Residuals, Ledger!Nothing, LP!Nothing, Ledger!Open, LP!Open, Ledger!GapsIn, LP!GapsIn,
            LP!Next
<1>1. ASSUME NEW lots \in SUBSET Lots, NEW facilities \in SUBSET Facilities, NEW sent,
             Ledger!CreateCase(lots, facilities, sent, TRUE)
      PROVE  LP!CreateCase(lots, facilities, LP!Residuals(lots, LP!Nothing), TRUE)
  BY <1>1, CreatesAsLedger
<1>2. ASSUME NEW lots \in SUBSET Lots, Ledger!ApplyInventoryHold(lots)
      PROVE  LP!ApplyInventoryHold(lots)
  BY <1>2 DEF Ledger!ApplyInventoryHold, LP!ApplyInventoryHold, Ledger!MayHold, LP!MayHold
<1>3. ASSUME NEW facilities \in SUBSET Facilities, Ledger!CreateFacilityTasks(facilities)
      PROVE  LP!CreateFacilityTasks(facilities)
  BY <1>3 DEF Ledger!CreateFacilityTasks, LP!CreateFacilityTasks, Ledger!MayCreateTasks,
              LP!MayCreateTasks, Ledger!Reset, LP!Reset
<1>4. ASSUME NEW f \in Facilities, Ledger!RecordAcknowledgment(f) PROVE LP!RecordAcknowledgment(f)
  BY <1>4 DEF Ledger!RecordAcknowledgment, LP!RecordAcknowledgment, Ledger!MayAcknowledge,
              LP!MayAcknowledge
<1>5. ASSUME NEW l \in Lots, Ledger!RecordDisposition(l) PROVE LP!RecordDisposition(l)
  BY <1>5, DisposesAsLedger
<1>6. Ledger!CloseCase => LP!CloseCase
  BY DEF Ledger!CloseCase, LP!CloseCase, Ledger!MayClose, LP!MayClose, Ledger!AuthorityUnchanged,
         LP!AuthorityUnchanged, Ledger!Reconciled, LP!Reconciled, Ledger!AllAcknowledged,
         LP!AllAcknowledged, Ledger!Eligible, LP!Eligible, Ledger!Candidates, LP!Candidates,
         Ledger!FacilitiesOf, LP!FacilitiesOf, Ledger!Overdrawn, LP!Overdrawn, Ledger!Tasked,
         LP!Tasked, Ledger!Acknowledged, LP!Acknowledged, Ledger!tables, LP!tables
<1>7. Ledger!LoadNextRelease => LP!LoadNextRelease
  BY DEF Ledger!LoadNextRelease, LP!LoadNextRelease, Ledger!Releases, LP!Releases,
         Ledger!tables, LP!tables
<1>8. UNCHANGED case => UNCHANGED LP!ledgerVars
  BY DEF case, LP!ledgerVars, LP!tables
<1>9. [LP!Next]_(LP!ledgerVars)
  BY <1>1, <1>2, <1>3, <1>4, <1>5, <1>6, <1>7, <1>8 DEF LedgerStep
<1>10. state # None => state \in Ledger!CaseState
  BY DEF LedgerHolds, LP!LedgerInv, LP!TypeOK, LP!CaseState, Ledger!CaseState, LP!Classes,
         Ledger!Classes, LP!Acknowledgement, Ledger!Acknowledgement
<1>11. state' # None => state'.ordered
  <2> USE DEF LedgerHolds, Ledger!CaseState
  <2>1. ASSUME state # None, state' # None, UNCHANGED state PROVE state'.ordered
    BY <2>1
  <2>2. ASSUME NEW lots \in SUBSET Lots, NEW facilities \in SUBSET Facilities, NEW sent,
               Ledger!CreateCase(lots, facilities, sent, TRUE)
        PROVE  state'.ordered
    BY <2>2 DEF Ledger!CreateCase
  <2> QED BY <1>10, <2>1, <2>2
          DEF LedgerStep, case, Ledger!ApplyInventoryHold, Ledger!CreateFacilityTasks,
              Ledger!RecordAcknowledgment, Ledger!RecordDisposition, Ledger!CloseCase,
              Ledger!LoadNextRelease, Ledger!MayCreateTasks, Ledger!MayAcknowledge, Ledger!MayHold,
              Ledger!MayDispose, Ledger!MayClose, Ledger!Open
<1> QED BY <1>9, <1>11

-----------------------------------------------------------------------------
(* The copy and the books.                                                  *)

\* The ledger as one value.
book ==
  [release |-> release, row |-> state, held |-> held, disposed |-> disposed,
   tasks |-> tasks, acks |-> acks, openedAt |-> openedAt]

\* What is used of LedgerHolds when a receipt arrives.
Kept(b) ==
  /\ b.release \in Ledger!Releases
  /\ b.row # None =>
       /\ b.row \in Ledger!CaseState
       /\ b.openedAt \in Ledger!Releases /\ b.openedAt <= b.release
       /\ b.row.disposed = b.disposed
       /\ b.openedAt = b.release =>
            \A l \in b.row.confirmed : b.disposed[l] > 0 => b.row.residual[l] = 0

\* The copy is one a plan can be made from.
Planning(g) ==
  /\ g.confirmed # {} /\ g.required # {}
  /\ g.gaps \subseteq g.confirmed \cup g.ambiguous
  /\ \A l \in g.confirmed : l \in g.gaps <=> g.residual[l] # 0

\* The copy tells what the books hold.
Tracks(g, b) ==
  /\ "create_case" \in Completed(g) <=> b.row # None
  /\ b.row # None =>
       /\ g.confirmed = b.row.confirmed /\ g.required = b.row.required
       /\ \A l \in b.row.confirmed : g.residual[l] = b.row.residual[l]
  /\ b.held = IF "apply_inventory_hold" \in Completed(g) THEN g.confirmed ELSE {}
  /\ {f \in Facilities : b.tasks[f] # "absent"} =
       IF "create_facility_tasks" \in Completed(g) THEN g.required ELSE {}
  /\ DisposedLots(g) = {l \in Lots : b.disposed[l] > 0}
  /\ g.acknowledgements = b.acks

\* The copy was read before the case was created, and as long as the release
\* is the same it is what a creation is checked against.
ReadUnder(g, b) ==
  /\ g.readAt \in Ledger!Releases /\ g.readAt <= b.release
  /\ b.row # None => g.readAt <= b.openedAt
  /\ b.row = None /\ g.readAt = b.release =>
       /\ \A l \in g.confirmed :
            /\ Datasets[b.release].class[l] \in {"exact", "probable"}
            /\ g.residual[l] = Datasets[b.release].unaccounted[l]
       /\ g.required = UNION {Datasets[b.release].facilities[l] : l \in g.confirmed}

Copy(g, b) == Planning(g) /\ Tracks(g, b) /\ ReadUnder(g, b)

\* The copy once the receipt of its current action is in.
WithReceipt(g, row) ==
  Authoritative([g EXCEPT !.receipts = @ \cup {g.current},
                          !.acknowledgements = AcknowledgementsAfter(g)], row)

SameCopy(g, k) ==
  /\ k.confirmed = g.confirmed /\ k.ambiguous = g.ambiguous /\ k.required = g.required
  /\ k.residual = g.residual /\ k.gaps = g.gaps /\ k.readAt = g.readAt
  /\ k.acknowledgements = g.acknowledgements /\ k.receipts = g.receipts

(* What does not touch the copy leaves the plan and what it tells alone.    *)
LEMMA SameCopyPlans ==
  ASSUME NEW g, NEW k, NEW b, SameCopy(g, k)
  PROVE  /\ NextAction(k) = NextAction(g)
         /\ Copy(g, b) => Copy(k, b)
<1> USE DEF SameCopy
<1>1. Completed(k) = Completed(g) /\ DisposedLots(k) = DisposedLots(g)
  BY DEF Completed, DisposedLots
<1>2. Planned(k) = Planned(g) /\ Unacknowledged(k) = Unacknowledged(g)
  BY DEF Planned, Unacknowledged
<1> QED BY <1>1, <1>2 DEF NextAction, Copy, Planning, Tracks, ReadUnder

(* The next action is an action, or there is none.                          *)
LEMMA NextActionType ==
  ASSUME NEW g \in Graph
  PROVE  /\ NextAction(g) \in Action \cup {None}
         /\ NextAction(g) # None =>
              /\ NextAction(g).type = "record_disposition" => NextAction(g).on \in Lots
              /\ NextAction(g).type = "record_acknowledgment" => NextAction(g).on \in Facilities
<1> DEFINE lots == Planned(g) \ DisposedLots(g)
<1>1. \A t \in Types : Act(t, None) \in Action /\ Act(t, None).type = t
  BY DEF Action, Act
<1>0. Listing(LotOrder, Lots) /\ Listing(FacilityOrder, Facilities)
  BY WorkflowAssumption DEF WorkflowAssumption
<1>2. lots # {} => First(LotOrder, lots) \in Lots
  <2>1. lots \in SUBSET Lots
    BY DEF Planned, Graph
  <2> HIDE DEF lots
  <2> QED BY <1>0, <2>1, FirstIsIn
<1>3. Unacknowledged(g) # {} => First(FacilityOrder, Unacknowledged(g)) \in Facilities
  <2>1. Unacknowledged(g) \in SUBSET Facilities
    BY DEF Unacknowledged, Graph
  <2> QED BY <1>0, <2>1, FirstIsIn
<1>4. \A l \in Lots : /\ Act("record_disposition", l) \in Action
                      /\ Act("record_disposition", l).on = l
                      /\ Act("record_disposition", l).type = "record_disposition"
  BY DEF Action, Act, Types
<1>5. \A f \in Facilities : /\ Act("record_acknowledgment", f) \in Action
                            /\ Act("record_acknowledgment", f).on = f
                            /\ Act("record_acknowledgment", f).type = "record_acknowledgment"
  BY DEF Action, Act, Types
<1> HIDE DEF lots
<1>6. /\ {"create_case", "apply_inventory_hold", "create_facility_tasks", "close_case"} \subseteq Types
      /\ NextAction(g) \in {Act(t, None) : t \in {"create_case", "apply_inventory_hold",
                                                  "create_facility_tasks", "close_case"}}
                 \cup {None} \cup (IF lots # {} THEN {Act("record_disposition", First(LotOrder, lots))} ELSE {})
                 \cup (IF Unacknowledged(g) # {}
                       THEN {Act("record_acknowledgment", First(FacilityOrder, Unacknowledged(g)))} ELSE {})
  BY DEF NextAction, lots, Types
<1> QED BY <1>1, <1>2, <1>3, <1>4, <1>5, <1>6

(* What WithReceipt changes of the copy.                                    *)
LEMMA ReceivedFields ==
  ASSUME NEW g \in Graph, g.current \in Action, NEW row \in Ledger!CaseState
  PROVE  LET k == WithReceipt(g, row) IN
         /\ k \in Graph
         /\ k.confirmed = g.confirmed /\ k.ambiguous = g.ambiguous /\ k.required = g.required
         /\ k.readAt = g.readAt
         /\ k.receipts = g.receipts \cup {g.current}
         /\ k.acknowledgements = AcknowledgementsAfter(g)
         /\ k.residual = IF g.current.type = "record_disposition" THEN row.residual ELSE g.residual
         /\ k.gaps = IF g.current.type = "record_disposition" THEN row.gaps ELSE g.gaps
<1>1. AcknowledgementsAfter(g) \in [Facilities -> Ledger!Acknowledgement]
  BY DEF AcknowledgementsAfter, Graph, Ledger!Acknowledgement
<1>2. g.receipts \cup {g.current} \in SUBSET Action
  BY DEF Graph
<1> DEFINE paid == [g EXCEPT !.receipts = @ \cup {g.current}]
           k == [g EXCEPT !.receipts = @ \cup {g.current},
                          !.acknowledgements = AcknowledgementsAfter(g)]
<1>3. /\ k \in Graph /\ k.current = g.current
      /\ k.confirmed = g.confirmed /\ k.ambiguous = g.ambiguous /\ k.required = g.required
      /\ k.readAt = g.readAt /\ k.receipts = g.receipts \cup {g.current}
      /\ k.acknowledgements = AcknowledgementsAfter(g)
      /\ k.residual = g.residual /\ k.gaps = g.gaps
  <2>1. paid \in Graph
    BY <1>2 DEF Graph
  <2>2. k = [paid EXCEPT !.acknowledgements = AcknowledgementsAfter(g)]
    BY DEF Graph
  <2>3. k \in Graph
    <3> HIDE DEF paid, k
    <3> QED BY <1>1, <2>1, <2>2 DEF Graph
  <2> QED BY <2>3 DEF Graph
<1>4. row.residual \in [Lots -> Nat] /\ row.gaps \in SUBSET Lots
  BY DEF Ledger!CaseState
<1> HIDE DEF k
<1>5. ASSUME g.current.type = "record_disposition"
      PROVE  /\ [k EXCEPT !.residual = row.residual, !.gaps = row.gaps] \in Graph
             /\ WithReceipt(g, row) = [k EXCEPT !.residual = row.residual, !.gaps = row.gaps]
  <2> DEFINE m == [k EXCEPT !.residual = row.residual]
  <2>1. m \in Graph
    BY <1>3, <1>4 DEF Graph
  <2>2. [k EXCEPT !.residual = row.residual, !.gaps = row.gaps] = [m EXCEPT !.gaps = row.gaps]
    BY <1>3 DEF Graph
  <2>3. [m EXCEPT !.gaps = row.gaps] \in Graph
    <3> HIDE DEF m
    <3> QED BY <2>1, <1>4 DEF Graph
  <2>4. WithReceipt(g, row) = [k EXCEPT !.residual = row.residual, !.gaps = row.gaps]
    BY <1>3, <1>5 DEF WithReceipt, Authoritative, k
  <2> QED BY <2>2, <2>3, <2>4
<1>6. g.current.type # "record_disposition" => WithReceipt(g, row) = k
  BY <1>3 DEF WithReceipt, Authoritative, k
<1> QED BY <1>3, <1>4, <1>5, <1>6 DEF Graph

(* What a receipt adds to the actions that are done.                        *)
LEMMA ReceivedDone ==
  ASSUME NEW g \in Graph, g.current \in Action, NEW row \in Ledger!CaseState
  PROVE  /\ Completed(WithReceipt(g, row)) = Completed(g) \cup {g.current.type}
         /\ DisposedLots(WithReceipt(g, row)) =
              DisposedLots(g) \cup (IF g.current.type = "record_disposition"
                                    THEN {g.current.on} ELSE {})
<1>1. WithReceipt(g, row).receipts = g.receipts \cup {g.current}
  BY ReceivedFields
<1> QED BY <1>1 DEF Completed, DisposedLots

-----------------------------------------------------------------------------
(* A write.                                                                 *)

\* What the steps below use of LedgerHolds, in the terms of CaseWorkflow.
Sound ==
  /\ Kept(book)
  /\ state # None => /\ state \in Ledger!CaseState /\ state.ordered
                     /\ state.acknowledgements = acks
                     /\ state.gaps = Ledger!GapsIn(state.confirmed, state.residual)
  /\ state = None => /\ held = {} /\ \A l \in Lots : disposed[l] = 0
                     /\ \A f \in Facilities : tasks[f] = "absent" /\ acks[f] = "absent"
  /\ held \subseteq Lots /\ disposed \in [Lots -> Nat]
  /\ tasks \in [Facilities -> {"absent", "pending", "acknowledged"}]
  /\ acks \in [Facilities -> Ledger!Acknowledgement]
  /\ release \in Ledger!Releases /\ openedAt \in Ledger!Releases \cup {None}

(* The ledger is sound.                                                     *)
LEMMA HoldsSound == LedgerHolds => Sound
<1> SUFFICES ASSUME LedgerHolds PROVE Sound
  OBVIOUS
<1>1. LP!TypeOK /\ LP!NoRow /\ LP!CopiesAgree /\ LP!RecordIsTrue
  BY DEF LedgerHolds, LP!LedgerInv
<1> USE DEF Ledger!CaseState, LP!CaseState, Ledger!Classes, LP!Classes, Ledger!Acknowledgement,
            LP!Acknowledgement, Ledger!Releases, LP!Releases
<1>2. /\ state # None => state \in Ledger!CaseState
      /\ held \subseteq Lots /\ disposed \in [Lots -> Nat]
      /\ tasks \in [Facilities -> {"absent", "pending", "acknowledged"}]
      /\ acks \in [Facilities -> Ledger!Acknowledgement]
      /\ release \in Ledger!Releases /\ openedAt \in Ledger!Releases \cup {None}
  BY <1>1 DEF LP!TypeOK
<1>3. state # None => /\ state.acknowledgements = acks /\ state.disposed = disposed
                      /\ state.gaps = Ledger!GapsIn(state.confirmed, state.residual)
  BY <1>1 DEF LP!CopiesAgree, LP!GapsIn, Ledger!GapsIn
<1>4. Kept(book)
  BY <1>1, <1>2, <1>3 DEF Kept, book, LP!RecordIsTrue
<1> QED BY <1>1, <1>2, <1>3, <1>4 DEF Sound, LP!NoRow, LedgerHolds

\* A write of the current action, by a copy that tells what the ledger holds.
Writing ==
  /\ graph \in Graph /\ graph.current \in Action
  /\ graph.current.type = "record_disposition" => graph.current.on \in Lots
  /\ graph.current.type = "record_acknowledgment" => graph.current.on \in Facilities
  /\ LedgerHolds /\ Sound /\ Sound' /\ Copy(graph, book)
  /\ LedgerWrite(graph.current)

Copied == /\ state' # None
          /\ Copy(WithReceipt(graph, state'), book')
          /\ state'.closed <=> graph.current.type = "close_case"

(* The case is created from the copy.                                       *)
LEMMA CreateCopied == Writing /\ graph.current.type = "create_case" => Copied
<1> SUFFICES ASSUME Writing, graph.current.type = "create_case" PROVE Copied
  OBVIOUS
<1> DEFINE sent == [l \in Lots |-> IF l \in graph.confirmed THEN graph.residual[l] ELSE 0]
           k == WithReceipt(graph, state')
<1> HIDE DEF k
<1>1. Ledger!CreateCase(graph.confirmed, graph.required, sent, TRUE)
  BY DEF Writing, LedgerWrite
<1>2. /\ state' # None /\ state' \in Ledger!CaseState /\ ~state'.closed
      /\ state = None /\ UNCHANGED <<release, held, disposed, tasks, acks>>
      /\ state'.confirmed = graph.confirmed /\ state'.required = graph.required
      /\ state'.residual = sent
      /\ openedAt' = release
  <2>1. state' \in Ledger!CaseState
    BY <1>1, RowWritten DEF Writing, Graph
  <2> QED BY <1>1, <2>1, WorkflowAssumption
     DEF Ledger!CreateCase, Ledger!MayCreate, Ledger!tables, Writing, Sound, WorkflowAssumption
<1>3. /\ k.confirmed = graph.confirmed /\ k.required = graph.required /\ k.readAt = graph.readAt
      /\ k.acknowledgements = graph.acknowledgements /\ k.residual = graph.residual
      /\ k.gaps = graph.gaps /\ k.ambiguous = graph.ambiguous
  <2>1. AcknowledgementsAfter(graph) = graph.acknowledgements
    BY DEF AcknowledgementsAfter, Act, Writing, Graph
  <2> QED BY <1>2, <2>1, ReceivedFields DEF k, Writing
<1>4. Completed(k) = Completed(graph) \cup {"create_case"} /\ DisposedLots(k) = DisposedLots(graph)
  BY <1>2, ReceivedDone DEF k, Writing
<1>5. \A l \in graph.confirmed : sent[l] = graph.residual[l]
  BY DEF Writing, Graph
<1>6. Planning(k)
  BY <1>3 DEF Planning, Writing, Copy
<1>7. Tracks(k, book')
  BY <1>2, <1>3, <1>4, <1>5 DEF Tracks, book, Writing, Copy
<1>8. ReadUnder(k, book')
  BY <1>2, <1>3 DEF ReadUnder, book, Writing, Copy
<1> QED BY <1>2, <1>6, <1>7, <1>8 DEF Copied, Copy, k

(* The hold takes every lot of the case.                                    *)
LEMMA HoldCopied == Writing /\ graph.current.type = "apply_inventory_hold" => Copied
<1> SUFFICES ASSUME Writing, graph.current.type = "apply_inventory_hold" PROVE Copied
  OBVIOUS
<1> DEFINE k == WithReceipt(graph, state')
<1> HIDE DEF k
<1>1. Ledger!ApplyInventoryHold(graph.confirmed)
  BY DEF Writing, LedgerWrite
<1>2. /\ state # None /\ ~state.closed /\ state' = state /\ state \in Ledger!CaseState
      /\ UNCHANGED <<release, disposed, tasks, acks, openedAt>>
      /\ held' = held \cup graph.confirmed
  BY <1>1 DEF Ledger!ApplyInventoryHold, Ledger!MayHold, Ledger!Open, Writing, Sound
<1>3. /\ k.confirmed = graph.confirmed /\ k.required = graph.required /\ k.readAt = graph.readAt
      /\ k.acknowledgements = graph.acknowledgements /\ k.residual = graph.residual
      /\ k.gaps = graph.gaps /\ k.ambiguous = graph.ambiguous
  <2>1. AcknowledgementsAfter(graph) = graph.acknowledgements
    BY DEF AcknowledgementsAfter, Act, Writing, Graph
  <2> QED BY <1>2, <2>1, ReceivedFields DEF k, Writing
<1>4. Completed(k) = Completed(graph) \cup {"apply_inventory_hold"}
      /\ DisposedLots(k) = DisposedLots(graph)
  BY <1>2, ReceivedDone DEF k, Writing
<1>6. Planning(k)
  BY <1>3 DEF Planning, Writing, Copy
<1>7. Tracks(k, book')
  BY <1>2, <1>3, <1>4 DEF Tracks, book, Writing, Copy
<1>8. ReadUnder(k, book')
  BY <1>2, <1>3 DEF ReadUnder, book, Writing, Copy
<1> QED BY <1>2, <1>6, <1>7, <1>8 DEF Copied, Copy, k

(* The tasks are those of the required facilities.                          *)
LEMMA TasksCopied == Writing /\ graph.current.type = "create_facility_tasks" => Copied
<1> SUFFICES ASSUME Writing, graph.current.type = "create_facility_tasks" PROVE Copied
  OBVIOUS
<1> DEFINE k == WithReceipt(graph, state')
<1> HIDE DEF k
<1>1. Ledger!CreateFacilityTasks(graph.required)
  BY DEF Writing, LedgerWrite
<1>2. /\ state # None /\ ~state.closed /\ state \in Ledger!CaseState
      /\ UNCHANGED <<release, held, disposed, openedAt>>
      /\ tasks' = [f \in Facilities |-> IF f \in graph.required THEN "pending" ELSE tasks[f]]
      /\ acks' = Ledger!Reset(acks, graph.required)
      /\ state' = [state EXCEPT !.acknowledgements =
                     Ledger!Reset(state.acknowledgements, graph.required)]
      /\ \A f \in Facilities : tasks[f] = "absent"
  BY <1>1 DEF Ledger!CreateFacilityTasks, Ledger!MayCreateTasks, Ledger!Open, Writing, Sound
<1>9. /\ state' # None /\ state' \in Ledger!CaseState /\ ~state'.closed
      /\ state'.confirmed = state.confirmed /\ state'.required = state.required
      /\ state'.residual = state.residual
  <2>1. Ledger!Reset(state.acknowledgements, graph.required) \in [Facilities -> Ledger!Acknowledgement]
    BY <1>2 DEF Ledger!Reset, Ledger!CaseState, Ledger!Acknowledgement
  <2>2. /\ state' \in Ledger!CaseState /\ state'.closed = state.closed
        /\ state'.confirmed = state.confirmed /\ state'.required = state.required
        /\ state'.residual = state.residual
    BY <1>2, <2>1 DEF Ledger!CaseState
  <2> QED BY <1>2, <2>2, WorkflowAssumption DEF WorkflowAssumption
<1>3. /\ k.confirmed = graph.confirmed /\ k.required = graph.required /\ k.readAt = graph.readAt
      /\ k.residual = graph.residual /\ k.gaps = graph.gaps /\ k.ambiguous = graph.ambiguous
      /\ k.acknowledgements = AcknowledgementsAfter(graph)
  BY <1>9, ReceivedFields DEF k, Writing
<1>4. Completed(k) = Completed(graph) \cup {"create_facility_tasks"}
      /\ DisposedLots(k) = DisposedLots(graph)
  BY <1>9, ReceivedDone DEF k, Writing
<1>5. AcknowledgementsAfter(graph) = acks'
  BY <1>2 DEF AcknowledgementsAfter, Act, Ledger!Reset, Writing, Copy, Tracks, book
<1>6. Planning(k)
  BY <1>3 DEF Planning, Writing, Copy
<1>10. {f \in Facilities : tasks'[f] # "absent"} = graph.required
  BY <1>2 DEF Writing, Graph
<1>7. Tracks(k, book')
  <2>0. Tracks(graph, book)
    BY DEF Writing, Copy
  <2> USE DEF Tracks, book
  <2>1. "create_case" \in Completed(k) <=> book'.row # None
    BY <2>0, <1>2, <1>4, <1>9
  <2>7. /\ graph.confirmed = state.confirmed /\ graph.required = state.required
        /\ \A l \in state.confirmed : graph.residual[l] = state.residual[l]
    BY <2>0, <1>2
  <2>2. /\ k.confirmed = book'.row.confirmed /\ k.required = book'.row.required
        /\ \A l \in book'.row.confirmed : k.residual[l] = book'.row.residual[l]
    BY <2>7, <1>3, <1>9
  <2>3. /\ book'.held = IF "apply_inventory_hold" \in Completed(k) THEN k.confirmed ELSE {}
    BY <2>0, <1>2, <1>3, <1>4
  <2>4. {f \in Facilities : book'.tasks[f] # "absent"} =
       IF "create_facility_tasks" \in Completed(k) THEN k.required ELSE {}
    BY <1>3, <1>4, <1>10
  <2>5. DisposedLots(k) = {l \in Lots : book'.disposed[l] > 0}
    BY <2>0, <1>2, <1>4
  <2>6. k.acknowledgements = book'.acks
    BY <1>3, <1>5
  <2> QED BY <2>1, <2>2, <2>3, <2>4, <2>5, <2>6
<1>8. ReadUnder(k, book')
  BY <1>2, <1>9, <1>3 DEF ReadUnder, book, Writing, Copy
<1> QED BY <1>2, <1>9, <1>6, <1>7, <1>8 DEF Copied, Copy, k

(* An acknowledgement changes the table, the row and the copy alike.        *)
LEMMA AcknowledgeCopied == Writing /\ graph.current.type = "record_acknowledgment" => Copied
<1> SUFFICES ASSUME Writing, graph.current.type = "record_acknowledgment" PROVE Copied
  OBVIOUS
<1> DEFINE k == WithReceipt(graph, state')
           f == graph.current.on
<1> HIDE DEF k
<1>0. f \in Facilities /\ graph.current = Act("record_acknowledgment", f)
  BY DEF Writing, Action, Act
<1> HIDE DEF f
<1>1. Ledger!RecordAcknowledgment(f)
  BY DEF Writing, LedgerWrite, f
<1>2. /\ state # None /\ ~state.closed /\ state \in Ledger!CaseState
      /\ UNCHANGED <<release, held, disposed, openedAt>>
      /\ tasks' = [tasks EXCEPT ![f] = "acknowledged"] /\ tasks[f] # "absent"
      /\ acks' = [acks EXCEPT ![f] = "yes"]
      /\ state' = [state EXCEPT !.acknowledgements[f] = "yes"]
  BY <1>1 DEF Ledger!RecordAcknowledgment, Ledger!MayAcknowledge, Ledger!Open, Writing, Sound
<1>9. /\ state' # None /\ state' \in Ledger!CaseState /\ ~state'.closed
      /\ state'.confirmed = state.confirmed /\ state'.required = state.required
      /\ state'.residual = state.residual
  <2>1. /\ state' \in Ledger!CaseState /\ state'.closed = state.closed
        /\ state'.confirmed = state.confirmed /\ state'.required = state.required
        /\ state'.residual = state.residual
    BY <1>2, <1>0 DEF Ledger!CaseState, Ledger!Acknowledgement
  <2> QED BY <1>2, <2>1, WorkflowAssumption DEF WorkflowAssumption
<1>3. /\ k.confirmed = graph.confirmed /\ k.required = graph.required /\ k.readAt = graph.readAt
      /\ k.residual = graph.residual /\ k.gaps = graph.gaps /\ k.ambiguous = graph.ambiguous
      /\ k.acknowledgements = AcknowledgementsAfter(graph)
  BY <1>9, ReceivedFields DEF k, Writing
<1>4. Completed(k) = Completed(graph) \cup {"record_acknowledgment"}
      /\ DisposedLots(k) = DisposedLots(graph)
  BY <1>9, ReceivedDone DEF k, Writing
<1>5. AcknowledgementsAfter(graph) = acks'
  <2>1. acks = graph.acknowledgements /\ acks \in [Facilities -> Ledger!Acknowledgement]
    BY DEF Writing, Copy, Tracks, book, Sound
  <2>2. \A e \in Facilities : AcknowledgementsAfter(graph)[e] = IF e = f THEN "yes" ELSE acks[e]
    BY <1>0, <2>1 DEF AcknowledgementsAfter, Act
  <2>3. AcknowledgementsAfter(graph) = [e \in Facilities |-> AcknowledgementsAfter(graph)[e]]
    BY DEF AcknowledgementsAfter
  <2> QED BY <1>2, <2>1, <2>2, <2>3
<1>6. Planning(k)
  BY <1>3 DEF Planning, Writing, Copy
<1>10. {e \in Facilities : tasks'[e] # "absent"} = {e \in Facilities : tasks[e] # "absent"}
  BY <1>2, <1>0 DEF Writing, Sound
<1>7. Tracks(k, book')
  <2>0. Tracks(graph, book)
    BY DEF Writing, Copy
  <2> USE DEF Tracks, book
  <2>1. "create_case" \in Completed(k) <=> book'.row # None
    BY <2>0, <1>2, <1>4, <1>9
  <2>7. /\ graph.confirmed = state.confirmed /\ graph.required = state.required
        /\ \A l \in state.confirmed : graph.residual[l] = state.residual[l]
    BY <2>0, <1>2
  <2>2. /\ k.confirmed = book'.row.confirmed /\ k.required = book'.row.required
        /\ \A l \in book'.row.confirmed : k.residual[l] = book'.row.residual[l]
    BY <2>7, <1>3, <1>9
  <2>3. /\ book'.held = IF "apply_inventory_hold" \in Completed(k) THEN k.confirmed ELSE {}
    BY <2>0, <1>2, <1>3, <1>4
  <2>4. {e \in Facilities : book'.tasks[e] # "absent"} =
       IF "create_facility_tasks" \in Completed(k) THEN k.required ELSE {}
    BY <2>0, <1>3, <1>4, <1>10
  <2>5. DisposedLots(k) = {l \in Lots : book'.disposed[l] > 0}
    BY <2>0, <1>2, <1>4
  <2>6. k.acknowledgements = book'.acks
    BY <1>3, <1>5
  <2> QED BY <2>1, <2>2, <2>3, <2>4, <2>5, <2>6
<1>8. ReadUnder(k, book')
  BY <1>2, <1>9, <1>3 DEF ReadUnder, book, Writing, Copy
<1> QED BY <1>2, <1>9, <1>6, <1>7, <1>8 DEF Copied, Copy, k

(* A disposition brings the ledger's reconciliation into the copy.          *)
LEMMA DisposeCopied == Writing /\ graph.current.type = "record_disposition" => Copied
<1> SUFFICES ASSUME Writing, graph.current.type = "record_disposition" PROVE Copied
  OBVIOUS
<1> DEFINE k == WithReceipt(graph, state')
           l == graph.current.on
<1> HIDE DEF k
<1>0. l \in Lots
  BY DEF Writing
<1> HIDE DEF l
<1>1. Ledger!RecordDisposition(l)
  BY DEF Writing, LedgerWrite, l
<1> DEFINE more == Ledger!Residual(state.disposed, l)
           residual == Ledger!Residuals(state.confirmed, Ledger!Taking(l))
<1>2. /\ state # None /\ ~state.closed /\ state \in Ledger!CaseState /\ l \in state.confirmed
      /\ UNCHANGED <<release, held, tasks, acks, openedAt>>
      /\ disposed' = [disposed EXCEPT ![l] = @ + more] /\ more > 0
      /\ state' = [state EXCEPT !.disposed = Ledger!Taking(l), !.residual = residual,
                                !.gaps = Ledger!GapsIn(state.confirmed, residual)]
  BY <1>1 DEF Ledger!RecordDisposition, Ledger!MayDispose, Ledger!Open, Writing, Sound
<1>11. state'.confirmed = state.confirmed /\ state'.required = state.required
       /\ state'.closed = state.closed /\ state'.acknowledgements = state.acknowledgements
       /\ state'.gaps = Ledger!GapsIn(state.confirmed, residual) /\ state'.residual = residual
       /\ state' # None
  <2> HIDE DEF residual
  <2>1. state' \in Ledger!CaseState /\ state' # None
    BY <1>0, <1>1, RowWritten, WorkflowAssumption DEF Writing, WorkflowAssumption
  <2> QED BY <1>2, <2>1 DEF Ledger!CaseState
<1>12. state' \in Ledger!CaseState
  BY <1>11 DEF Writing, Sound
<1>3. /\ k.confirmed = graph.confirmed /\ k.required = graph.required /\ k.readAt = graph.readAt
      /\ k.residual = state'.residual /\ k.gaps = state'.gaps /\ k.ambiguous = graph.ambiguous
      /\ k.acknowledgements = AcknowledgementsAfter(graph)
  BY <1>12, ReceivedFields DEF k, Writing
<1>4. Completed(k) = Completed(graph) \cup {"record_disposition"}
      /\ DisposedLots(k) = DisposedLots(graph) \cup {l}
  BY <1>12, ReceivedDone DEF k, l, Writing
<1>5. AcknowledgementsAfter(graph) = acks'
  BY <1>2 DEF AcknowledgementsAfter, Act, Writing, Copy, Tracks, book, Sound
<1>9. graph.confirmed = state.confirmed /\ graph.required = state.required
  BY <1>2 DEF Writing, Copy, Tracks, book
<1>6. Planning(k)
  <2> HIDE DEF residual
  <2> QED BY <1>3, <1>9, <1>11 DEF Planning, Writing, Copy, Ledger!GapsIn
<1>10. {m \in Lots : disposed'[m] > 0} = {m \in Lots : disposed[m] > 0} \cup {l}
  <2>1. disposed \in [Lots -> Nat] /\ disposed' \in [Lots -> Nat]
    BY DEF Writing, Sound
  <2>2. more \in Int
    <3>1. Datasets[release] \in Ledger!Dataset
      BY WorkflowAssumption DEF WorkflowAssumption, Writing, Sound, Ledger!Releases
    <3>2. state.disposed[l] \in Nat
      BY <1>0, <1>2 DEF Ledger!CaseState
    <3> QED BY <1>0, <3>1, <3>2 DEF Ledger!Residual, Ledger!authority, Ledger!Dataset
  <2> HIDE DEF more
  <2>3. disposed'[l] = disposed[l] + more /\ \A m \in Lots \ {l} : disposed'[m] = disposed[m]
    BY <1>0, <1>2, <2>1
  <2> QED BY <1>0, <1>2, <2>1, <2>2, <2>3
<1>7. Tracks(k, book')
  <2> HIDE DEF residual, more
  <2>0. Tracks(graph, book)
    BY DEF Writing, Copy
  <2> USE DEF Tracks, book
  <2>1. "create_case" \in Completed(k) <=> book'.row # None
    BY <2>0, <1>2, <1>4, <1>11
  <2>7. /\ graph.confirmed = state.confirmed /\ graph.required = state.required
        /\ \A m \in state.confirmed : graph.residual[m] = state.residual[m]
    BY <2>0, <1>2
  <2>2. /\ k.confirmed = book'.row.confirmed /\ k.required = book'.row.required
        /\ \A m \in book'.row.confirmed : k.residual[m] = book'.row.residual[m]
    BY <2>7, <1>3, <1>11
  <2>3. /\ book'.held = IF "apply_inventory_hold" \in Completed(k) THEN k.confirmed ELSE {}
    BY <2>0, <1>2, <1>3, <1>4
  <2>4. {f \in Facilities : book'.tasks[f] # "absent"} =
       IF "create_facility_tasks" \in Completed(k) THEN k.required ELSE {}
    BY <2>0, <1>2, <1>3, <1>4
  <2>5. DisposedLots(k) = {m \in Lots : book'.disposed[m] > 0}
    BY <2>0, <1>4, <1>10
  <2>6. k.acknowledgements = book'.acks
    BY <1>2, <1>3, <1>5
  <2> QED BY <2>1, <2>2, <2>3, <2>4, <2>5, <2>6
<1>8. ReadUnder(k, book')
  <2> HIDE DEF residual, more
  <2> QED BY <1>2, <1>11, <1>3 DEF ReadUnder, book, Writing, Copy
<1> QED BY <1>2, <1>11, <1>6, <1>7, <1>8 DEF Copied, Copy, k

(* Closing changes the row alone.                                           *)
LEMMA CloseCopied == Writing /\ graph.current.type = "close_case" => Copied
<1> SUFFICES ASSUME Writing, graph.current.type = "close_case" PROVE Copied
  OBVIOUS
<1> DEFINE k == WithReceipt(graph, state')
<1> HIDE DEF k
<1>1. Ledger!CloseCase
  BY DEF Writing, LedgerWrite
<1>2. /\ state # None /\ state \in Ledger!CaseState
      /\ UNCHANGED <<release, held, disposed, tasks, acks, openedAt>>
      /\ state' = [state EXCEPT !.closed = TRUE]
  BY <1>1 DEF Ledger!CloseCase, Ledger!MayClose, Ledger!Open, Ledger!tables, Writing, Sound
<1>9. /\ state' # None /\ state' \in Ledger!CaseState /\ state'.closed
      /\ state'.confirmed = state.confirmed /\ state'.required = state.required
      /\ state'.residual = state.residual
  <2>1. /\ state' \in Ledger!CaseState /\ state'.closed
        /\ state'.confirmed = state.confirmed /\ state'.required = state.required
        /\ state'.residual = state.residual
    BY <1>2 DEF Ledger!CaseState
  <2> QED BY <2>1, WorkflowAssumption DEF WorkflowAssumption
<1>3. /\ k.confirmed = graph.confirmed /\ k.required = graph.required /\ k.readAt = graph.readAt
      /\ k.acknowledgements = graph.acknowledgements /\ k.residual = graph.residual
      /\ k.gaps = graph.gaps /\ k.ambiguous = graph.ambiguous
  <2>1. AcknowledgementsAfter(graph) = graph.acknowledgements
    BY DEF AcknowledgementsAfter, Act, Writing, Graph
  <2> QED BY <1>9, <2>1, ReceivedFields DEF k, Writing
<1>4. Completed(k) = Completed(graph) \cup {"close_case"} /\ DisposedLots(k) = DisposedLots(graph)
  BY <1>9, ReceivedDone DEF k, Writing
<1>6. Planning(k)
  BY <1>3 DEF Planning, Writing, Copy
<1>7. Tracks(k, book')
  <2>0. Tracks(graph, book)
    BY DEF Writing, Copy
  <2> USE DEF Tracks, book
  <2>1. "create_case" \in Completed(k) <=> book'.row # None
    BY <2>0, <1>2, <1>4, <1>9
  <2>7. /\ graph.confirmed = state.confirmed /\ graph.required = state.required
        /\ \A l \in state.confirmed : graph.residual[l] = state.residual[l]
    BY <2>0, <1>2
  <2>2. /\ k.confirmed = book'.row.confirmed /\ k.required = book'.row.required
        /\ \A l \in book'.row.confirmed : k.residual[l] = book'.row.residual[l]
    BY <2>7, <1>3, <1>9
  <2>3. /\ book'.held = IF "apply_inventory_hold" \in Completed(k) THEN k.confirmed ELSE {}
    BY <2>0, <1>2, <1>3, <1>4
  <2>4. {f \in Facilities : book'.tasks[f] # "absent"} =
       IF "create_facility_tasks" \in Completed(k) THEN k.required ELSE {}
    BY <2>0, <1>2, <1>3, <1>4
  <2>5. DisposedLots(k) = {l \in Lots : book'.disposed[l] > 0}
    BY <2>0, <1>2, <1>4
  <2>6. k.acknowledgements = book'.acks
    BY <2>0, <1>2, <1>3
  <2> QED BY <2>1, <2>2, <2>3, <2>4, <2>5, <2>6
<1>8. ReadUnder(k, book')
  BY <1>2, <1>9, <1>3 DEF ReadUnder, book, Writing, Copy
<1> QED BY <1>9, <1>6, <1>7, <1>8 DEF Copied, Copy, k

(* Whatever is written, the copy with its receipt tells what the ledger     *)
(* holds.                                                                   *)
LEMMA WriteIsCopied == Writing => Copied
BY CreateCopied, HoldCopied, TasksCopied, AcknowledgeCopied, DisposeCopied, CloseCopied
   DEF Writing, Action, Types

-----------------------------------------------------------------------------
(* The planner and the gates.                                               *)

(* Under its own release the record is that release's, and a case whose     *)
(* work is done may close.                                                  *)
LEMMA RecordOfRelease ==
  ASSUME LedgerHolds, openedAt = release
  PROVE  /\ state # None /\ Ledger!AuthorityUnchanged /\ Ledger!DischargedCasesClose
         /\ \A l \in state.confirmed :
              /\ ~Ledger!Overdrawn(state.disposed, l)
              /\ state.residual[l] = Ledger!Residual(state.disposed, l)
              /\ state.disposed[l] > 0 => state.residual[l] = 0
<1>1. LP!RecordIsTrue /\ LP!TypeOK
  BY DEF LedgerHolds, LP!LedgerInv
<1>2. None # release
  BY <1>1, WorkflowAssumption DEF LP!TypeOK, WorkflowAssumption, LP!Releases, Ledger!Releases
<1> USE DEF Ledger!authority, LP!authority
<1>3. Ledger!AuthorityUnchanged
  BY <1>1 DEF LP!RecordIsTrue, LP!AuthorityUnchanged, Ledger!AuthorityUnchanged, LP!Eligible,
              Ledger!Eligible, LP!Candidates, Ledger!Candidates, LP!FacilitiesOf, Ledger!FacilitiesOf
<1>4. Ledger!DischargedCasesClose
  <2>1. LP!DischargedCasesClose
    BY AsTheLedgerAssumes, LP!DischargedMayClose DEF LedgerHolds
  <2>2. Ledger!Discharged <=> LP!Discharged
    BY DEF Ledger!Discharged, LP!Discharged, Ledger!ToDispose, LP!ToDispose, Ledger!ToConfirm,
           LP!ToConfirm, Ledger!Opened, LP!Opened, LP!FacilitiesOf, Ledger!FacilitiesOf
  <2>3. LP!MayClose => Ledger!MayClose
    BY DEF LP!MayClose, Ledger!MayClose, LP!Open, Ledger!Open, LP!AuthorityUnchanged,
           Ledger!AuthorityUnchanged, LP!Reconciled, Ledger!Reconciled, LP!AllAcknowledged,
           Ledger!AllAcknowledged, LP!Eligible, Ledger!Eligible, LP!Candidates, Ledger!Candidates,
           LP!FacilitiesOf, Ledger!FacilitiesOf, LP!Overdrawn, Ledger!Overdrawn, LP!Residual,
           Ledger!Residual, LP!Tasked, Ledger!Tasked, LP!Acknowledged, Ledger!Acknowledged
  <2> QED BY <2>1, <2>2, <2>3 DEF LP!DischargedCasesClose, Ledger!DischargedCasesClose, LP!Open,
                                  Ledger!Open
<1>5. \A l \in state.confirmed :
         /\ ~Ledger!Overdrawn(state.disposed, l)
         /\ state.residual[l] = Ledger!Residual(state.disposed, l)
         /\ state.disposed[l] > 0 => state.residual[l] = 0
  BY <1>1 DEF LP!RecordIsTrue, LP!Overdrawn, Ledger!Overdrawn, LP!Residual, Ledger!Residual
<1> QED BY <1>1, <1>2, <1>3, <1>4, <1>5 DEF LP!RecordIsTrue

\* A copy that waits for its next action, under the release it was read from.
Waiting ==
  /\ graph \in Graph /\ LedgerHolds /\ Sound /\ Copy(graph, book)
  /\ state # None => ~state.closed
  /\ graph.readAt = release
  /\ graph.current = NextAction(graph) /\ graph.current # None

(* What every case but the first needs: the case is open and is the copy's, *)
(* its lots are held when their hold is done.                               *)
LEMMA OpenedByCopy ==
  ASSUME Waiting, "create_case" \in Completed(graph)
  PROVE  /\ state # None /\ ~state.closed /\ state \in Ledger!CaseState /\ openedAt = release
         /\ graph.confirmed = state.confirmed /\ graph.required = state.required
         /\ state.disposed = disposed
         /\ \A l \in state.confirmed : graph.residual[l] = state.residual[l]
         /\ held = IF "apply_inventory_hold" \in Completed(graph) THEN state.confirmed ELSE {}
         /\ state.confirmed # {} /\ state.required # {} /\ state.confirmed \subseteq Lots
<1> USE DEF Waiting, Copy, book
<1>1. state # None
  BY DEF Tracks
<1>2. openedAt = release
  <2>1. /\ openedAt \in Nat /\ release \in Nat /\ openedAt <= release /\ release <= openedAt
    BY <1>1 DEF Sound, Kept, ReadUnder, Ledger!Releases
  <2> QED BY <2>1
<1>3. state \in Ledger!CaseState /\ state.disposed = disposed
  BY <1>1 DEF Sound, Kept
<1>4. /\ graph.confirmed = state.confirmed /\ graph.required = state.required
      /\ \A l \in state.confirmed : graph.residual[l] = state.residual[l]
      /\ held = IF "apply_inventory_hold" \in Completed(graph) THEN graph.confirmed ELSE {}
  BY <1>1 DEF Tracks
<1> QED BY <1>1, <1>2, <1>3, <1>4 DEF Planning, Ledger!CaseState

(* A disposition of a lot with a residual and no disposition yet.           *)
LEMMA DispositionIsAccepted ==
  ASSUME Waiting, "create_case" \in Completed(graph), "apply_inventory_hold" \in Completed(graph),
         NEW l \in Planned(graph)
  PROVE  Ledger!MayDispose(l)
<1>1. /\ state # None /\ ~state.closed /\ state \in Ledger!CaseState /\ l \in state.confirmed
      /\ l \in held /\ state.residual[l] > 0 /\ l \in Lots /\ openedAt = release
  BY OpenedByCopy DEF Planned
<1>2. \A m \in state.confirmed : /\ ~Ledger!Overdrawn(state.disposed, m)
                                 /\ state.residual[m] = Ledger!Residual(state.disposed, m)
  BY <1>1, RecordOfRelease DEF Waiting
<1>3. ASSUME NEW m \in state.confirmed PROVE ~Ledger!Overdrawn(Ledger!Taking(l), m)
  <2>1. m \in Lots /\ state.disposed \in [Lots -> Nat]
    BY <1>1 DEF Ledger!CaseState
  <2>2. Datasets[release] \in Ledger!Dataset
    BY WorkflowAssumption DEF WorkflowAssumption, Waiting, Sound, Ledger!Releases
  <2>3. Ledger!Taking(l)[m] = IF m = l THEN Datasets[release].unaccounted[l] ELSE state.disposed[m]
    BY <1>1, <2>1, <2>2 DEF Ledger!Taking, Ledger!Residual, Ledger!authority, Ledger!Dataset
  <2> QED BY <1>1, <1>2, <2>1, <2>2, <2>3 DEF Ledger!Overdrawn, Ledger!authority, Ledger!Dataset
<1> QED BY <1>1, <1>2, <1>3 DEF Ledger!MayDispose, Ledger!Open

(* When nothing is left to plan, the case may close.                        *)
LEMMA ClosureIsAccepted ==
  ASSUME Waiting, "create_case" \in Completed(graph), "apply_inventory_hold" \in Completed(graph),
         graph.gaps = {}, Unacknowledged(graph) = {}
  PROVE  Ledger!MayClose
<1>1. /\ state # None /\ ~state.closed /\ state \in Ledger!CaseState /\ openedAt = release
      /\ graph.confirmed = state.confirmed /\ graph.required = state.required
      /\ state.disposed = disposed /\ held = state.confirmed
      /\ \A l \in state.confirmed : graph.residual[l] = state.residual[l]
  BY OpenedByCopy
<1>2. ASSUME NEW l \in state.confirmed PROVE disposed[l] = Ledger!authority.unaccounted[l]
  <2>1. state.residual[l] = 0
    BY <1>1 DEF Waiting, Copy, Planning
  <2>2. Ledger!Residual(state.disposed, l) = 0
    BY <1>1, <2>1, RecordOfRelease DEF Waiting
  <2>3. Datasets[release] \in Ledger!Dataset /\ l \in Lots /\ disposed \in [Lots -> Nat]
    BY <1>1, WorkflowAssumption
       DEF WorkflowAssumption, Waiting, Sound, Ledger!Releases, Ledger!CaseState
  <2> QED BY <1>1, <2>2, <2>3 DEF Ledger!Residual, Ledger!authority, Ledger!Dataset
<1>3. \A f \in state.required : acks[f] = "yes"
  BY <1>1 DEF Unacknowledged, Waiting, Copy, Tracks, book
<1>4. Ledger!AuthorityUnchanged /\ Ledger!DischargedCasesClose
  BY <1>1, RecordOfRelease DEF Waiting
<1>5. Ledger!Discharged
  BY <1>1, <1>2, <1>3, <1>4
     DEF Ledger!Discharged, Ledger!ToDispose, Ledger!ToConfirm, Ledger!Opened,
         Ledger!AuthorityUnchanged
<1> QED BY <1>1, <1>4, <1>5 DEF Ledger!DischargedCasesClose, Ledger!Open, Waiting, Sound

(* The next action of a copy that tells what the ledger holds is accepted.  *)
LEMMA NextIsAccepted == Waiting => Accepts(graph.current)
<1> SUFFICES ASSUME Waiting PROVE Accepts(graph.current)
  OBVIOUS
<1> DEFINE done == Completed(graph)
           lots == Planned(graph) \ DisposedLots(graph)
           sent == [l \in Lots |-> IF l \in graph.confirmed THEN graph.residual[l] ELSE 0]
<1>1. CASE "create_case" \notin done
  <2>1. graph.current.type = "create_case" /\ state = None
    BY <1>1 DEF Waiting, NextAction, Act, Copy, Tracks, book
  <2>2. /\ graph.confirmed # {} /\ graph.confirmed \subseteq Lots
        /\ \A l \in graph.confirmed : /\ Datasets[release].class[l] \in {"exact", "probable"}
                                      /\ graph.residual[l] = Datasets[release].unaccounted[l]
        /\ graph.required = UNION {Datasets[release].facilities[l] : l \in graph.confirmed}
    BY <2>1 DEF Waiting, Copy, ReadUnder, book, Planning, Graph
  <2>3. Datasets[release] \in Ledger!Dataset
    BY WorkflowAssumption DEF WorkflowAssumption, Waiting, Sound, Ledger!Releases
  <2>4. sent = Ledger!Residuals(graph.confirmed, Ledger!Nothing)
    BY <2>2, <2>3 DEF Ledger!Residuals, Ledger!Residual, Ledger!Nothing, Ledger!authority,
                      Ledger!Dataset
  <2>5. Ledger!MayCreate(graph.confirmed, graph.required, sent)
    <3> HIDE DEF sent
    <3> QED BY <2>1, <2>2, <2>4 DEF Ledger!MayCreate, Ledger!Eligible, Ledger!FacilitiesOf,
                                    Ledger!authority
  <2> QED BY <2>1, <2>5 DEF Accepts
<1>2. CASE "create_case" \in done /\ "apply_inventory_hold" \notin done
  <2>1. graph.current.type = "apply_inventory_hold"
    BY <1>2 DEF Waiting, NextAction, Act
  <2>2. Ledger!MayHold(graph.confirmed)
    BY <1>2, OpenedByCopy DEF Ledger!MayHold, Ledger!Open
  <2> QED BY <2>1, <2>2 DEF Accepts
<1>3. CASE {"create_case", "apply_inventory_hold"} \subseteq done
  <2>1. graph.ambiguous = {}
    BY <1>3 DEF Waiting, NextAction
  <2>2. CASE lots # {}
    <3>1. graph.current = Act("record_disposition", First(LotOrder, lots))
      BY <1>3, <2>1, <2>2 DEF Waiting, NextAction
    <3>2. First(LotOrder, lots) \in lots
      <4>1. lots \in SUBSET Lots /\ Listing(LotOrder, Lots)
        BY WorkflowAssumption DEF WorkflowAssumption, Planned, Waiting, Graph
      <4> HIDE DEF lots
      <4> QED BY <2>2, <4>1, FirstIsIn
    <3>3. graph.current.type = "record_disposition" /\ graph.current.on \in Planned(graph)
      BY <3>1, <3>2 DEF Act
    <3> QED BY <1>3, <3>3, DispositionIsAccepted DEF Accepts
  <2>3. CASE lots = {}
    <3>1. graph.gaps = {}
      BY <1>3, <2>1, <2>3 DEF Waiting, NextAction
    <3>2. CASE "create_facility_tasks" \notin done
      <4>1. graph.current.type = "create_facility_tasks"
        BY <1>3, <2>1, <2>3, <3>1, <3>2 DEF Waiting, NextAction, Act
      <4>2. \A f \in Facilities : tasks[f] = "absent"
        BY <3>2 DEF Waiting, Copy, Tracks, book
      <4>3. Ledger!MayCreateTasks(graph.required)
        BY <1>3, <4>2, OpenedByCopy DEF Ledger!MayCreateTasks, Ledger!Open
      <4> QED BY <4>1, <4>3 DEF Accepts
    <3>3. CASE "create_facility_tasks" \in done /\ Unacknowledged(graph) # {}
      <4> DEFINE f == First(FacilityOrder, Unacknowledged(graph))
      <4>1. graph.current = Act("record_acknowledgment", f)
        BY <1>3, <2>1, <2>3, <3>1, <3>3 DEF Waiting, NextAction
      <4>2. f \in Unacknowledged(graph)
        <5>1. Unacknowledged(graph) \in SUBSET Facilities /\ Listing(FacilityOrder, Facilities)
          BY WorkflowAssumption DEF WorkflowAssumption, Unacknowledged, Waiting, Graph
        <5> QED BY <3>3, <5>1, FirstIsIn
      <4> HIDE DEF f
      <4>3. tasks[f] # "absent"
        BY <3>3, <4>2 DEF Unacknowledged, Waiting, Copy, Tracks, book
      <4>4. Ledger!MayAcknowledge(f)
        BY <1>3, <4>3, OpenedByCopy DEF Ledger!MayAcknowledge, Ledger!Open
      <4> QED BY <4>1, <4>4 DEF Accepts, Act
    <3>4. CASE "create_facility_tasks" \in done /\ Unacknowledged(graph) = {}
      <4>1. graph.current.type = "close_case"
        BY <1>3, <2>1, <2>3, <3>1, <3>4 DEF Waiting, NextAction, Act
      <4>2. Ledger!MayClose
        BY <1>3, <3>1, <3>4, ClosureIsAccepted
      <4> QED BY <4>1, <4>2 DEF Accepts
    <3> QED BY <3>2, <3>3, <3>4
  <2> QED BY <2>2, <2>3
<1> QED BY <1>1, <1>2, <1>3

(* A case whose copy has no next action under its release waits for its     *)
(* ambiguous lots.                                                          *)
LEMMA BlockedByAmbiguity ==
  ASSUME NEW g \in Graph, NEW b, Kept(b), Copy(g, b), b.row # None, b.disposed \in [Lots -> Nat],
         g.readAt = b.release, NextAction(g) = None
  PROVE  g.ambiguous # {}
<1> SUFFICES ASSUME g.ambiguous = {} PROVE FALSE
  OBVIOUS
<1>0. \A t, x : Act(t, x).type = t
  BY DEF Act
<1>1. \A t \in Types, x \in Lots \cup Facilities \cup {None} : Act(t, x) # None
  BY WorkflowAssumption DEF WorkflowAssumption, Act, Action
<1>2. /\ Planned(g) \subseteq DisposedLots(g)
      /\ g.gaps # {}
  <2> DEFINE lots == Planned(g) \ DisposedLots(g)
  <2>1. lots # {} => First(LotOrder, lots) \in Lots
    <3>1. lots \in SUBSET Lots /\ Listing(LotOrder, Lots)
      BY WorkflowAssumption DEF WorkflowAssumption, Planned, Graph
    <3> HIDE DEF lots
    <3> QED BY <3>1, FirstIsIn
  <2>2. Unacknowledged(g) # {} => First(FacilityOrder, Unacknowledged(g)) \in Facilities
    <3>1. Unacknowledged(g) \in SUBSET Facilities /\ Listing(FacilityOrder, Facilities)
      BY WorkflowAssumption DEF WorkflowAssumption, Unacknowledged, Graph
    <3> QED BY <3>1, FirstIsIn
  <2> HIDE DEF lots
  <2>3. lots = {} /\ g.gaps # {}
    BY <1>1, <2>1, <2>2 DEF NextAction, lots, Types
  <2> QED BY <2>3 DEF lots
<1>3. PICK l \in g.confirmed : l \in g.gaps
  BY <1>2 DEF Copy, Planning
<1>4. l \in Lots /\ g.residual[l] \in Nat /\ g.residual[l] # 0
  BY <1>3 DEF Graph, Copy, Planning
<1>5. l \in DisposedLots(g)
  BY <1>2, <1>4 DEF Planned
<1>6. b.disposed[l] > 0 /\ b.row.residual[l] = g.residual[l] /\ l \in b.row.confirmed
  BY <1>5 DEF Copy, Tracks
<1>7. b.openedAt = b.release
  <2>1. /\ b.openedAt \in Nat /\ b.release \in Nat /\ b.openedAt <= b.release
        /\ b.release <= b.openedAt
    BY DEF Kept, Copy, ReadUnder, Ledger!Releases
  <2> QED BY <2>1
<1> QED BY <1>4, <1>6, <1>7 DEF Kept

-----------------------------------------------------------------------------
(* The invariant of the workflow.                                           *)

\* Nothing was written before the investigation is over.
Unread ==
  graph.stage = "investigating" =>
    /\ state = None /\ write = "none" /\ graph.receipts = {}
    /\ graph.acknowledgements = [f \in Facilities |-> "absent"]

\* While an action is in hand, the copy tells what the ledger holds, or will
\* once the receipt that was lost is in.
InHand ==
  graph.stage \in {"review", "confirmation", "recovery"} =>
    /\ graph.current = NextAction(graph) /\ graph.current # None
    /\ graph.stage # "recovery" => write = "none"
    /\ write # "landed" => Copy(graph, book) /\ (state # None => ~state.closed)
    /\ write = "landed" => /\ state # None
                           /\ Copy(WithReceipt(graph, state), book)
                           /\ state.closed <=> graph.current.type = "close_case"

\* How a thread ends.
Ended ==
  /\ graph.stage = "closed" => state # None /\ state.closed /\ state.confirmed # {}
  /\ graph.stage \in {"open", "escalated", "open_closure_blocked"} /\ state # None /\ state.closed =>
       write = "landed" /\ graph.stage = "escalated"
  /\ graph.stage = "open_closure_blocked" =>
       /\ graph.readAt \in Ledger!Releases /\ graph.readAt <= release
       /\ graph.readAt = release => graph.ambiguous # {}

Typed == graph \in Graph /\ write \in {"none", "spent", "landed"}

WorkflowInv == LedgerHolds /\ Typed /\ Unread /\ InHand /\ Ended

(* A case starts within the invariant.                                      *)
LEMMA InitWorkflowInv == Init => WorkflowInv
<1> SUFFICES ASSUME Init PROVE WorkflowInv
  OBVIOUS
<1>1. LedgerHolds
  <2>1. LP!Init
    BY DEF Init, Ledger!Init, LP!Init
  <2> QED BY <2>1, AsTheLedgerAssumes, LP!InitLedgerInv, LP!InitRecordIsTrue
          DEF LedgerHolds, LP!Init
<1>2. graph \in Graph
  <2>1. None0 \in [Types -> Nat] /\ [l \in Lots |-> 0] \in [Lots -> Nat]
        /\ [f \in Facilities |-> "absent"] \in [Facilities -> Ledger!Acknowledgement]
    BY DEF None0, Ledger!Acknowledgement
  <2>2. 0 \in 0 .. MaxEdits
    BY WorkflowAssumption DEF WorkflowAssumption
  <2> QED BY <2>1, <2>2 DEF Init, Graph, Stages
<1> QED BY <1>1, <1>2 DEF Init, Ledger!Init, WorkflowInv, Typed, Unread, InHand, Ended

(* Moving the copy to another stage is all that changes.                    *)
LEMMA Restaged ==
  ASSUME NEW g \in Graph, NEW s \in Stages
  PROVE  LET k == [g EXCEPT !.stage = s] IN
         /\ k \in Graph /\ SameCopy(g, k) /\ k.current = g.current /\ k.stage = s
         /\ k.remaining = g.remaining /\ k.rationale = g.rationale
BY DEF Graph, SameCopy

(* The counts of the preview.                                               *)
LEMMA RemainingType ==
  ASSUME NEW g \in Graph, NEW action
  PROVE  Remaining(g, action) \in [Types -> Nat]
<1>1. IsFiniteSet(Lots) /\ IsFiniteSet(Facilities)
  BY WorkflowAssumption DEF WorkflowAssumption, Listing
<1>2. Cardinality(Planned(g) \ (DisposedLots(g) \cup On(action, "record_disposition"))) \in Nat
  <2>1. Planned(g) \ (DisposedLots(g) \cup On(action, "record_disposition")) \in SUBSET Lots
    BY DEF Planned, Graph
  <2> QED BY <1>1, <2>1, FS_Subset, FS_CardinalityType
<1>3. Cardinality(Unacknowledged(g) \ On(action, "record_acknowledgment")) \in Nat
  <2>1. Unacknowledged(g) \ On(action, "record_acknowledgment") \in SUBSET Facilities
    BY DEF Unacknowledged, Graph
  <2> QED BY <1>1, <2>1, FS_Subset, FS_CardinalityType
<1>4. \A p : Count(p) \in Nat
  BY DEF Count
<1> QED BY <1>2, <1>3, <1>4 DEF Remaining, Types

(* A proposal leaves the copy alone.                                        *)
LEMMA Proposed ==
  ASSUME NEW g \in Graph, NEW a \in Action
  PROVE  /\ Propose(g, a) \in Graph /\ SameCopy(g, Propose(g, a))
         /\ Propose(g, a).current = a /\ Propose(g, a).stage = "review"
<1>1. Remaining(g, a) \in [Types -> Nat] /\ 0 \in 0 .. MaxEdits
  BY RemainingType, WorkflowAssumption DEF WorkflowAssumption
<1> DEFINE r == Remaining(g, a)
           h == [g EXCEPT !.remaining = r]
           i == [h EXCEPT !.rationale = 0]
           j == [i EXCEPT !.current = a]
           k == [j EXCEPT !.stage = "review"]
<1>2. r \in [Types -> Nat]
  BY <1>1
<1> HIDE DEF r
<1>3. h \in Graph /\ SameCopy(g, h)
  BY <1>2 DEF Graph, SameCopy
<1> HIDE DEF h
<1>4. i \in Graph /\ SameCopy(g, i)
  BY <1>1, <1>3 DEF Graph, SameCopy
<1> HIDE DEF i
<1>5. j \in Graph /\ SameCopy(g, j) /\ j.current = a
  BY <1>4 DEF Graph, SameCopy
<1> HIDE DEF j
<1>6. k \in Graph /\ SameCopy(g, k) /\ k.current = a /\ k.stage = "review"
  BY <1>5 DEF Graph, SameCopy, Stages
<1>7. Propose(g, a) = k
  BY DEF Propose, k, j, i, h, r, Graph
<1> QED BY <1>6, <1>7

(* A lost receipt will say the same of a copy that only changed its stage.  *)
LEMMA SameReceived ==
  ASSUME NEW g \in Graph, NEW k \in Graph, SameCopy(g, k), k.current = g.current,
         g.current \in Action, NEW row \in Ledger!CaseState
  PROVE  SameCopy(WithReceipt(g, row), WithReceipt(k, row))
<1>1. AcknowledgementsAfter(k) = AcknowledgementsAfter(g)
  BY DEF AcknowledgementsAfter, SameCopy
<1> QED BY <1>1, ReceivedFields DEF SameCopy

-----------------------------------------------------------------------------
(* The steps.                                                               *)

\* What every step knows: the invariant before it, and the ledger after it.
Stepping == WorkflowInv /\ LedgerHolds' /\ Sound /\ Sound'

(* A step that only moves an action in hand to another of its stages.       *)
LEMMA InHandStays ==
  ASSUME Stepping, UNCHANGED <<case, write>>, graph' \in Graph, SameCopy(graph, graph'),
         graph'.current = graph.current,
         graph.stage \in {"review", "confirmation", "recovery"},
         graph'.stage \in {"review", "confirmation", "recovery"},
         graph'.stage = "recovery" \/ write = "none"
  PROVE  WorkflowInv'
<1> USE DEF Stepping, WorkflowInv, Typed
<1>1. NextAction(graph') = NextAction(graph) /\ (Copy(graph, book) => Copy(graph', book))
  BY SameCopyPlans
<1>2. book' = book /\ state' = state
  BY DEF case, book
<1>3. ASSUME write = "landed" PROVE Copy(WithReceipt(graph', state'), book')
  <2>1. /\ Copy(WithReceipt(graph, state), book) /\ state # None
        /\ graph.current = NextAction(graph) /\ graph.current # None
    BY <1>3 DEF InHand
  <2>2. state \in Ledger!CaseState /\ graph.current \in Action
    BY <2>1, NextActionType DEF Sound
  <2>3. SameCopy(WithReceipt(graph, state), WithReceipt(graph', state))
    BY <2>2, SameReceived
  <2> QED BY <1>2, <2>1, <2>3, SameCopyPlans
<1>4. InHand'
  BY <1>1, <1>2, <1>3 DEF InHand
<1> QED BY <1>4 DEF Unread, Ended

(* The investigation ends in a review of its first action, or escalates.    *)
LEMMA InvestigateKeeps ==
  ASSUME Stepping, NEW scope \in SUBSET Lots, Investigate(scope)
  PROVE  WorkflowInv'
<1> USE DEF Stepping, WorkflowInv, Typed
<1> DEFINE classed(c) == {l \in scope : Ledger!authority.class[l] \in c}
           confirmed == classed({"exact", "probable"})
           ambiguous == classed({"ambiguous"})
           traced == confirmed \cup ambiguous
           residual == [l \in Lots |-> IF l \in traced THEN Ledger!authority.unaccounted[l] ELSE 0]
           required == Ledger!FacilitiesOf(confirmed)
           gaps == {l \in traced : residual[l] # 0}
           read == [graph EXCEPT !.confirmed = confirmed, !.ambiguous = ambiguous,
                                 !.required = required, !.residual = residual, !.gaps = gaps,
                                 !.readAt = release]
<1>1. /\ state = None /\ write = "none" /\ graph.receipts = {}
      /\ graph.acknowledgements = [f \in Facilities |-> "absent"]
      /\ UNCHANGED <<case, write>> /\ graph.stage = "investigating"
      /\ graph' = IF confirmed = {} THEN [graph EXCEPT !.stage = "escalated"]
                  ELSE Propose(read, NextAction(read))
  BY DEF Unread, Investigate
<1>2. /\ Ledger!authority \in Ledger!Dataset /\ release \in Ledger!Releases
  BY WorkflowAssumption DEF WorkflowAssumption, Sound, Ledger!Releases, Ledger!authority
<1>3. confirmed \in SUBSET Lots /\ ambiguous \in SUBSET Lots /\ traced \in SUBSET Lots
  OBVIOUS
<1>4. residual \in [Lots -> Nat] /\ gaps \in SUBSET Lots /\ gaps \subseteq traced
  BY <1>2, <1>3 DEF Ledger!Dataset
<1>5. required \in SUBSET Facilities /\ (confirmed # {} => required # {})
  BY <1>2, <1>3 DEF Ledger!Dataset, Ledger!FacilitiesOf
<1>6. /\ read \in Graph
      /\ read.confirmed = confirmed /\ read.ambiguous = ambiguous /\ read.required = required
      /\ read.residual = residual /\ read.gaps = gaps /\ read.readAt = release
      /\ read.receipts = {} /\ read.acknowledgements = graph.acknowledgements
  <2> HIDE DEF confirmed, ambiguous, required, residual, gaps
  <2> DEFINE h == [graph EXCEPT !.confirmed = confirmed, !.ambiguous = ambiguous]
             i == [h EXCEPT !.required = required, !.residual = residual]
             j == [i EXCEPT !.gaps = gaps, !.readAt = release]
  <2>1. h \in Graph /\ h.confirmed = confirmed /\ h.ambiguous = ambiguous
        /\ h.receipts = {} /\ h.acknowledgements = graph.acknowledgements
    BY <1>1, <1>3 DEF Graph
  <2>4. read = j
    BY DEF Graph
  <2> HIDE DEF h
  <2>2. /\ i \in Graph /\ i.confirmed = confirmed /\ i.ambiguous = ambiguous
        /\ i.required = required /\ i.residual = residual
        /\ i.receipts = {} /\ i.acknowledgements = graph.acknowledgements
    BY <2>1, <1>4, <1>5 DEF Graph
  <2> HIDE DEF i
  <2>3. /\ j \in Graph /\ j.confirmed = confirmed /\ j.ambiguous = ambiguous
        /\ j.required = required /\ j.residual = residual /\ j.gaps = gaps /\ j.readAt = release
        /\ j.receipts = {} /\ j.acknowledgements = graph.acknowledgements
    BY <2>2, <1>2, <1>4 DEF Graph
  <2> HIDE DEF j, read
  <2> QED BY <2>3, <2>4
<1>7. book' = book /\ state' = None
  BY <1>1 DEF case, book
<1>8. CASE confirmed = {}
  <2>1. graph' = [graph EXCEPT !.stage = "escalated"]
    BY <1>1, <1>8
  <2>2. graph' \in Graph /\ graph'.stage = "escalated"
    BY <2>1, Restaged DEF Stages
  <2> QED BY <1>1, <1>7, <2>2 DEF Unread, InHand, Ended
<1>9. CASE confirmed # {}
  <2>1. Planning(read)
    <3>1. \A l \in confirmed : l \in gaps <=> residual[l] # 0
      BY <1>3
    <3> HIDE DEF confirmed, residual, gaps, required, read
    <3> QED BY <1>4, <1>5, <1>6, <1>9, <3>1 DEF Planning
  <2>2. Tracks(read, book)
    <3>1. Completed(read) = {} /\ DisposedLots(read) = {}
      <4> HIDE DEF read
      <4> QED BY <1>6 DEF Completed, DisposedLots
    <3>2. /\ held = {} /\ \A l \in Lots : disposed[l] = 0
          /\ \A f \in Facilities : tasks[f] = "absent" /\ acks[f] = "absent"
          /\ acks \in [Facilities -> Ledger!Acknowledgement]
      BY <1>1 DEF Sound
    <3> HIDE DEF read
    <3> QED BY <1>1, <1>6, <3>1, <3>2 DEF Tracks, book
  <2>3. ReadUnder(read, book)
    <3>1. /\ \A l \in confirmed : /\ Datasets[release].class[l] \in {"exact", "probable"}
                                  /\ residual[l] = Datasets[release].unaccounted[l]
          /\ required = UNION {Datasets[release].facilities[l] : l \in confirmed}
          /\ release <= release
      BY <1>2 DEF Ledger!authority, Ledger!FacilitiesOf, Ledger!Releases
    <3> HIDE DEF confirmed, residual, gaps, required, read
    <3> QED BY <1>1, <1>2, <1>6, <3>1 DEF ReadUnder, book
  <2> HIDE DEF read
  <2>4. NextAction(read) = Act("create_case", None)
    <3>1. "create_case" \notin Completed(read)
      BY <1>6 DEF Completed
    <3> QED BY <3>1 DEF NextAction
  <2>5. NextAction(read) \in Action /\ NextAction(read) # None
    BY <2>4, WorkflowAssumption DEF WorkflowAssumption, Act, Action, Types
  <2>6. graph' = Propose(read, NextAction(read))
    BY <1>1, <1>9
  <2>7. /\ graph' \in Graph /\ SameCopy(read, graph') /\ graph'.stage = "review"
        /\ graph'.current = NextAction(read)
    BY <1>6, <2>5, <2>6, Proposed
  <2>8. Copy(graph', book) /\ NextAction(graph') = NextAction(read)
    BY <2>1, <2>2, <2>3, <2>7, SameCopyPlans DEF Copy
  <2> QED BY <1>1, <1>7, <2>5, <2>7, <2>8 DEF Unread, InHand, Ended
<1> QED BY <1>8, <1>9

(* The human's decisions change no more than the stage or the wording.      *)
LEMMA ReviewKeeps ==
  ASSUME Stepping, Approve \/ Edit \/ (\E at, end \in Stages : Decline(at, end))
  PROVE  WorkflowInv'
<1> USE DEF Stepping, WorkflowInv, Typed
<1>1. CASE Approve
  <2>1. write = "none"
    BY <1>1 DEF Approve, InHand
  <2> QED BY <1>1, <2>1, Restaged, InHandStays DEF Approve, Stages
<1>2. CASE Edit
  <2>1. write = "none"
    BY <1>2 DEF Edit, InHand
  <2>3. graph.rationale + 1 \in 0 .. MaxEdits
    <3>1. graph.rationale \in 0 .. MaxEdits /\ MaxEdits \in Nat /\ graph.rationale < MaxEdits
      BY <1>2, WorkflowAssumption DEF Edit, Graph, WorkflowAssumption
    <3> QED BY <3>1
  <2>2. /\ graph' \in Graph /\ SameCopy(graph, graph') /\ graph'.current = graph.current
        /\ graph'.stage = "review"
    <3> DEFINE r == graph.rationale + 1
    <3>1. r \in 0 .. MaxEdits /\ graph' = [graph EXCEPT !.rationale = r] /\ graph.stage = "review"
      BY <1>2, <2>3 DEF Edit, Graph
    <3> HIDE DEF r
    <3> QED BY <3>1 DEF Graph, SameCopy
  <2> QED BY <1>2, <2>1, <2>2, InHandStays DEF Edit
<1>3. ASSUME NEW at \in Stages, NEW end \in Stages, Decline(at, end) PROVE WorkflowInv'
  <2>1. /\ graph' \in Graph /\ graph'.stage = end /\ UNCHANGED <<case, write>>
        /\ graph.stage = at /\ end \in {"open", "escalated"}
        /\ at \in {"review", "confirmation", "recovery"}
        /\ at = "recovery" => end = "escalated"
    BY <1>3, Restaged DEF Decline
  <2>2. state # None /\ state.closed => write = "landed" /\ at = "recovery"
    BY <2>1 DEF InHand
  <2> QED BY <2>1, <2>2 DEF case, Unread, InHand, Ended
<1> QED BY <1>1, <1>2, <1>3

(* A receipt brings the copy up to the ledger, and the next action is       *)
(* planned from it.                                                         *)
LEMMA ReceiptKeeps ==
  ASSUME Stepping, graph.current \in Action, Copied, graph' = AfterReceipt(graph, state'),
         write' = "none"
  PROVE  WorkflowInv'
<1> USE DEF Stepping, WorkflowInv, Typed
<1> DEFINE k == WithReceipt(graph, state')
           recorded == [graph EXCEPT !.receipts = @ \cup {graph.current},
                                     !.acknowledgements = AcknowledgementsAfter(graph)]
<1>1. state' # None /\ state' \in Ledger!CaseState /\ Copy(k, book')
      /\ (state'.closed <=> graph.current.type = "close_case")
  BY DEF Copied, Sound
<1>2. k \in Graph /\ k.ambiguous = graph.ambiguous /\ k.readAt = graph.readAt
  BY <1>1, ReceivedFields
<1>3. ASSUME NEW s \in Stages
      PROVE  LET e == [recorded EXCEPT !.stage = s] IN
             /\ e \in Graph /\ e.stage = s
             /\ e.ambiguous = graph.ambiguous /\ e.readAt = graph.readAt
  <2>1. AcknowledgementsAfter(graph) \in [Facilities -> Ledger!Acknowledgement]
    BY DEF AcknowledgementsAfter, Graph, Ledger!Acknowledgement
  <2> DEFINE h == [graph EXCEPT !.receipts = @ \cup {graph.current}]
             i == [h EXCEPT !.acknowledgements = AcknowledgementsAfter(graph)]
  <2>2. h \in Graph /\ h.ambiguous = graph.ambiguous /\ h.readAt = graph.readAt
    BY DEF Graph
  <2>3. recorded = i
    BY DEF Graph
  <2> HIDE DEF h
  <2>4. i \in Graph /\ i.ambiguous = graph.ambiguous /\ i.readAt = graph.readAt
    BY <2>1, <2>2 DEF Graph
  <2> HIDE DEF i, recorded
  <2> QED BY <2>3, <2>4 DEF Graph
<1>4. graph' = IF graph.current.type = "close_case" THEN [recorded EXCEPT !.stage = "closed"]
               ELSE IF NextAction(k) = None THEN [recorded EXCEPT !.stage = "open_closure_blocked"]
               ELSE Propose(k, NextAction(k))
  BY DEF AfterReceipt, WithReceipt
<1> HIDE DEF k, recorded
<1>5. CASE graph.current.type = "close_case"
  <2>1. graph' \in Graph /\ graph'.stage = "closed"
    BY <1>3, <1>4, <1>5 DEF Stages
  <2>2. state'.confirmed # {}
    BY <1>1 DEF Copy, Planning, Tracks, book
  <2> QED BY <1>1, <1>5, <2>1, <2>2 DEF Unread, InHand, Ended
<1>6. CASE graph.current.type # "close_case" /\ NextAction(k) = None
  <2>1. /\ graph' \in Graph /\ graph'.stage = "open_closure_blocked"
        /\ graph'.ambiguous = k.ambiguous /\ graph'.readAt = k.readAt
    BY <1>2, <1>3, <1>4, <1>6 DEF Stages
  <2>2. Kept(book') /\ book'.row # None /\ book'.disposed \in [Lots -> Nat]
        /\ book'.release = release'
    BY <1>1 DEF Sound, book
  <2>3. k.readAt = book'.release => k.ambiguous # {}
    BY <1>1, <1>2, <1>6, <2>2, BlockedByAmbiguity
  <2>4. k.readAt \in Ledger!Releases /\ k.readAt <= release'
    BY <1>1, <2>2 DEF Copy, ReadUnder
  <2> QED BY <1>1, <1>6, <2>1, <2>2, <2>3, <2>4 DEF Unread, InHand, Ended
<1>7. CASE graph.current.type # "close_case" /\ NextAction(k) # None
  <2>1. NextAction(k) \in Action
    BY <1>2, <1>7, NextActionType
  <2>2. graph' = Propose(k, NextAction(k))
    BY <1>4, <1>7
  <2>3. /\ graph' \in Graph /\ SameCopy(k, graph') /\ graph'.stage = "review"
        /\ graph'.current = NextAction(k)
    BY <1>2, <2>1, <2>2, Proposed
  <2>4. NextAction(graph') = NextAction(k) /\ Copy(graph', book')
    BY <1>1, <2>3, SameCopyPlans
  <2> QED BY <1>1, <1>7, <2>3, <2>4 DEF Unread, InHand, Ended
<1> QED BY <1>5, <1>6, <1>7

(* Whatever is sent is a write by a copy that tells what the ledger holds.  *)
LEMMA SendingIsWriting ==
  ASSUME Stepping, graph.stage \in {"confirmation", "recovery"}, write = "none",
         LedgerWrite(graph.current)
  PROVE  Copied /\ graph.current \in Action
<1>1. /\ graph.current = NextAction(graph) /\ graph.current # None /\ Copy(graph, book)
      /\ graph \in Graph
  BY DEF Stepping, WorkflowInv, InHand, Typed
<1>2. Writing
  BY <1>1, NextActionType DEF Writing, Stepping, WorkflowInv
<1> QED BY <1>2, WriteIsCopied DEF Writing

(* A grant that was not issued, an answer, a lost answer, a refusal, a      *)
(* replay, and a session that drops the answer itself.                      *)
LEMMA WritesKeep ==
  ASSUME Stepping,
         \/ ConfirmUnsent \/ ConfirmAnswered \/ ConfirmLost \/ ConfirmRefused
         \/ RetryReplayed \/ DropResponse
  PROVE  WorkflowInv'
<1> USE DEF Stepping, WorkflowInv, Typed
<1> DEFINE waits == [graph EXCEPT !.stage = "recovery"]
<1>0. /\ waits \in Graph /\ SameCopy(graph, waits) /\ waits.current = graph.current
      /\ waits.stage = "recovery"
  BY Restaged DEF Stages
<1> HIDE DEF waits
<1>1. CASE ConfirmUnsent
  BY <1>0, <1>1, InHandStays DEF ConfirmUnsent, waits
<1>2. CASE ConfirmAnswered
  <2>1. Copied /\ graph.current \in Action
    BY <1>2, SendingIsWriting DEF ConfirmAnswered
  <2> QED BY <1>2, <2>1, ReceiptKeeps DEF ConfirmAnswered
<1>3. CASE graph.stage \in {"confirmation", "recovery"} /\ write = "none" /\ write' = "landed"
           /\ LedgerWrite(graph.current) /\ graph' = waits
  <2>1. Copied /\ graph.current \in Action
    BY <1>3, SendingIsWriting
  <2>2. state' \in Ledger!CaseState
    BY <2>1 DEF Copied, Sound
  <2>3. SameCopy(WithReceipt(graph, state'), WithReceipt(graph', state'))
    BY <1>0, <1>3, <2>1, <2>2, SameReceived
  <2>4. Copy(WithReceipt(graph', state'), book') /\ NextAction(graph') = NextAction(graph)
    BY <1>0, <1>3, <2>1, <2>3, SameCopyPlans DEF Copied
  <2>5. graph.current = NextAction(graph) /\ graph.current # None
    BY <1>3 DEF InHand
  <2> QED BY <1>0, <1>3, <2>1, <2>4, <2>5 DEF Copied, Unread, InHand, Ended
<1>4. CASE graph.stage \in {"confirmation", "recovery"} /\ write = "none" /\ write' = "spent"
           /\ UNCHANGED case /\ graph' = waits
  <2>1. /\ graph.current = NextAction(graph) /\ graph.current # None
        /\ Copy(graph, book) /\ (state # None => ~state.closed)
    BY <1>4 DEF InHand
  <2>2. NextAction(graph') = NextAction(graph) /\ Copy(graph', book)
    BY <1>0, <1>4, <2>1, SameCopyPlans
  <2>3. book' = book /\ state' = state
    BY <1>4 DEF case, book
  <2> QED BY <1>0, <1>4, <2>1, <2>2, <2>3 DEF Unread, InHand, Ended
<1>5. CASE ConfirmLost
  BY <1>3, <1>4, <1>5 DEF ConfirmLost, waits
<1>6. CASE ConfirmRefused
  <2>1. /\ graph.stage \in {"confirmation", "recovery"} /\ write = "none" /\ write' = "spent"
        /\ UNCHANGED case /\ ~Accepts(graph.current)
        /\ graph' = IF graph.current.type = "close_case"
                    THEN [graph EXCEPT !.stage = "open_closure_blocked"] ELSE waits
    BY <1>6 DEF ConfirmRefused, waits
  <2>2. CASE graph.current.type # "close_case"
    BY <1>4, <2>1, <2>2
  <2>3. CASE graph.current.type = "close_case"
    <3>1. /\ graph.current = NextAction(graph) /\ graph.current # None
          /\ Copy(graph, book) /\ (state # None => ~state.closed)
      BY <2>1 DEF InHand
    <3>2. /\ graph' \in Graph /\ graph'.stage = "open_closure_blocked"
          /\ SameCopy(graph, graph')
      BY <2>1, <2>3, Restaged DEF Stages
    <3>3. graph.readAt # release
      BY <2>1, <3>1, NextIsAccepted DEF Waiting
    <3>4. graph.readAt \in Ledger!Releases /\ graph.readAt <= release
      BY <3>1 DEF Copy, ReadUnder, book
    <3> QED BY <2>1, <3>1, <3>2, <3>3, <3>4 DEF case, SameCopy, Unread, InHand, Ended
  <2> QED BY <2>2, <2>3
<1>7. CASE RetryReplayed
  <2>1. /\ graph.stage = "recovery" /\ write = "landed" /\ write' = "none" /\ UNCHANGED case
        /\ graph' = AfterReceipt(graph, state)
    BY <1>7 DEF RetryReplayed
  <2>2. book' = book /\ state' = state
    BY <2>1 DEF case, book
  <2>3. Copied /\ graph.current \in Action
    BY <2>1, <2>2, NextActionType DEF Copied, InHand
  <2> QED BY <2>1, <2>2, <2>3, ReceiptKeeps
<1>8. CASE DropResponse
  <2>1. CASE write = "none"
    BY <1>3, <1>8, <2>1 DEF DropResponse, waits
  <2>2. CASE write # "none"
    <3>1. /\ graph.stage \in {"confirmation", "recovery"} /\ UNCHANGED <<case, write>>
          /\ graph' = waits
      BY <1>8, <2>2 DEF DropResponse, waits
    <3> QED BY <1>0, <3>1, InHandStays
  <2> QED BY <2>1, <2>2
<1> QED BY <1>1, <1>2, <1>5, <1>6, <1>7, <1>8

(* A new release leaves what the copy tells as true as it was.              *)
LEMMA ReleaseKeeps ==
  ASSUME Stepping, LoadNextRelease
  PROVE  WorkflowInv'
<1> USE DEF Stepping, WorkflowInv, Typed
<1>1. /\ release' = release + 1 /\ UNCHANGED <<graph, write, state, held, disposed, tasks, acks, openedAt>>
      /\ release \in Ledger!Releases /\ release \in Nat
  BY DEF LoadNextRelease, Ledger!LoadNextRelease, Ledger!tables, Sound, Ledger!Releases
<1>2. ASSUME NEW g, Copy(g, book) PROVE Copy(g, book')
  <2>1. Tracks(g, book')
    BY <1>1, <1>2 DEF Copy, Tracks, book
  <2>2. g.readAt \in Ledger!Releases /\ g.readAt \in Nat /\ g.readAt <= release
    BY <1>2 DEF Copy, ReadUnder, book, Ledger!Releases
  <2>3. g.readAt <= release' /\ g.readAt # release'
    BY <1>1, <2>2
  <2>4. ReadUnder(g, book')
    BY <1>1, <1>2, <2>2, <2>3 DEF Copy, ReadUnder, book
  <2> QED BY <1>2, <2>1, <2>4 DEF Copy
<1>3. Ended'
  <2>1. graph.stage = "open_closure_blocked" =>
          graph.readAt \in Ledger!Releases /\ graph.readAt <= release
    BY DEF Ended
  <2>2. graph.readAt \in Ledger!Releases /\ graph.readAt <= release =>
          graph.readAt <= release' /\ graph.readAt # release'
    BY <1>1 DEF Ledger!Releases
  <2> QED BY <1>1, <2>1, <2>2 DEF Ended
<1>4. WithReceipt(graph', state') = WithReceipt(graph, state)
  BY <1>1
<1> QED BY <1>1, <1>2, <1>3, <1>4 DEF Unread, InHand

(* Nothing of the workflow changes.                                         *)
LEMMA StutterKeeps ==
  ASSUME Stepping, UNCHANGED vars
  PROVE  WorkflowInv'
BY DEF Stepping, WorkflowInv, Typed, vars, case, Unread, InHand, Ended, book, Copy, Planning,
       Tracks, ReadUnder

(* An armed watchdog escalates before anything is read.                     *)
LEMMA WatchdogKeeps ==
  ASSUME Stepping, ~HasCheckpoint(graph), graph' = [graph EXCEPT !.stage = "escalated"],
         UNCHANGED <<case, write>>
  PROVE  WorkflowInv'
<1> USE DEF Stepping, WorkflowInv, Typed
<1>1. graph' \in Graph /\ graph'.stage = "escalated"
  BY Restaged DEF Stages
<1>2. state' = None
  BY DEF HasCheckpoint, Unread, case
<1> QED BY <1>1, <1>2 DEF Unread, InHand, Ended

-----------------------------------------------------------------------------
(* The workflow and the desk.                                               *)

\* The steps of the graph, wherever they are taken from.
GraphStep ==
  \/ \E scope \in SUBSET Lots : Investigate(scope)
  \/ Approve \/ Edit \/ \E at, end \in Stages : Decline(at, end)
  \/ ConfirmUnsent \/ ConfirmAnswered \/ ConfirmLost \/ ConfirmRefused \/ RetryReplayed
  \/ DropResponse
  \/ LoadNextRelease
  \/ ~HasCheckpoint(graph) /\ graph' = [graph EXCEPT !.stage = "escalated"] /\ UNCHANGED <<case, write>>
  \/ UNCHANGED vars

(* Every step of the desk is one of them.                                   *)
LEMMA DeskStepsTheGraph == [DeskNext]_deskVars => GraphStep
<1> SUFFICES ASSUME [DeskNext]_deskVars PROVE GraphStep
  OBVIOUS
<1> USE DEF GraphStep
<1>1. CASE OpenCase \/ RequestClosure \/ \E scenario \in Scenarios : InjectFailure(scenario)
  BY <1>1 DEF OpenCase, RequestClosure, InjectFailure
<1>2. CASE \E scope \in SUBSET Lots : RunInvestigation(scope)
  BY <1>2 DEF RunInvestigation
<1>3. CASE ResumeReview
  BY <1>3 DEF ResumeReview, Stages
<1>4. CASE SimulateApprovedActions
  BY <1>4 DEF SimulateApprovedActions, RetryInVain
<1>5. CASE Elsewhere
  BY <1>5 DEF Elsewhere, Next
<1>6. CASE UNCHANGED vars
  BY <1>6
<1> QED BY <1>1, <1>2, <1>3, <1>4, <1>5, <1>6 DEF DeskNext, DurableNext, deskVars

(* What is sent to the ledger is a step of the ledger.                      *)
LEMMA WriteStepsTheLedger ==
  ASSUME graph \in Graph, LedgerWrite(graph.current),
         graph.current = NextAction(graph), graph.current # None
  PROVE  LedgerStep
<1>1. graph.confirmed \in SUBSET Lots /\ graph.required \in SUBSET Facilities
  BY DEF Graph
<1>2. /\ graph.current.type = "record_disposition" => graph.current.on \in Lots
      /\ graph.current.type = "record_acknowledgment" => graph.current.on \in Facilities
  BY NextActionType
<1> QED BY <1>1, <1>2 DEF LedgerWrite, LedgerStep

(* And so is every step of the graph.                                       *)
LEMMA GraphStepsTheLedger == WorkflowInv /\ GraphStep => LedgerStep
<1> SUFFICES ASSUME WorkflowInv, GraphStep PROVE LedgerStep
  OBVIOUS
<1>1. CASE UNCHANGED case \/ LoadNextRelease
  BY <1>1 DEF LedgerStep, LoadNextRelease
<1>2. CASE graph.stage \in {"confirmation", "recovery"} /\ LedgerWrite(graph.current)
  BY <1>2, WriteStepsTheLedger DEF WorkflowInv, Typed, InHand
<1> QED BY <1>1, <1>2 DEF GraphStep, Investigate, Approve, Edit, Decline, ConfirmUnsent,
       ConfirmAnswered, ConfirmLost, ConfirmRefused, RetryReplayed, DropResponse, vars

(* The invariant is inductive.                                              *)
LEMMA StepWorkflowInv == WorkflowInv /\ GraphStep => WorkflowInv'
<1>0. LedgerHolds' => Sound'
  BY HoldsSound, PTL
<1> SUFFICES ASSUME WorkflowInv, GraphStep PROVE WorkflowInv'
  OBVIOUS
<1>1. LedgerHolds'
  BY GraphStepsTheLedger, LedgerStays DEF WorkflowInv
<1>2. Stepping
  BY <1>0, <1>1, HoldsSound DEF Stepping, WorkflowInv
<1> QED BY <1>2, InvestigateKeeps, ReviewKeeps, WritesKeep, ReleaseKeeps, StutterKeeps,
           WatchdogKeeps DEF GraphStep

(* And so it is for the desk.                                               *)
LEMMA NextWorkflowInv == WorkflowInv /\ [DeskNext]_deskVars => WorkflowInv'
BY StepWorkflowInv, DeskStepsTheGraph

(* The invariant of a case, whatever the desk and the others do.            *)
LEMMA WorkflowInvariant == DeskSpec => []WorkflowInv
  BY InitWorkflowInv, NextWorkflowInv, PTL DEF DeskSpec, DeskInit

(* The ledger, the checkpointed copy and the pending write stay well-typed. *)
THEOREM WorkflowTypeCorrect == DeskSpec => []TypeOK
<1>1. WorkflowInv => TypeOK
  BY DEF WorkflowInv, Typed, TypeOK, LedgerHolds, LP!LedgerInv, LP!TypeOK, Ledger!TypeOK,
         LP!CaseState, Ledger!CaseState, LP!Classes, Ledger!Classes, LP!Acknowledgement,
         Ledger!Acknowledgement, LP!Releases, Ledger!Releases
<1> QED BY <1>1, WorkflowInvariant, PTL

(* For every dataset, every sequence of releases, lost answers and stale    *)
(* records: whenever a human is asked, the copy tells what the ledger holds.*)
THEOREM CopyIsCurrent == DeskSpec => []CopyTracksLedger
<1>1. WorkflowInv => CopyTracksLedger
  <2> SUFFICES ASSUME WorkflowInv, AtRest, state # None PROVE CopyTracksLedger
    BY DEF CopyTracksLedger
  <2>1. Copy(graph, book) /\ ~state.closed /\ Sound /\ graph \in Graph
    BY HoldsSound DEF WorkflowInv, InHand, AtRest, Typed
  <2>2. /\ graph.confirmed = state.confirmed /\ graph.required = state.required
        /\ \A l \in state.confirmed : graph.residual[l] = state.residual[l]
        /\ held = IF "apply_inventory_hold" \in Completed(graph) THEN graph.confirmed ELSE {}
        /\ Ledger!Tasked = IF "create_facility_tasks" \in Completed(graph)
                           THEN graph.required ELSE {}
        /\ DisposedLots(graph) = {l \in Lots : disposed[l] > 0}
        /\ graph.acknowledgements = acks
    BY <2>1 DEF Copy, Tracks, book, Ledger!Tasked
  <2>3. state.acknowledgements = acks /\ state.gaps = Ledger!GapsIn(state.confirmed, state.residual)
    BY <2>1 DEF Sound
  <2>4. /\ graph.confirmed # {} /\ graph.required # {}
        /\ \A l \in graph.confirmed : l \in graph.gaps <=> graph.residual[l] # 0
    BY <2>1 DEF Copy, Planning
  <2>5. state.gaps = graph.gaps \cap state.confirmed
    BY <2>2, <2>3, <2>4 DEF Ledger!GapsIn
  <2> QED BY <2>1, <2>2, <2>3, <2>4, <2>5 DEF CopyTracksLedger
<1> QED BY <1>1, WorkflowInvariant, PTL

(* No human is asked to approve what the ledger would refuse.               *)
THEOREM ReviewedIsAccepted == DeskSpec => []NextActionIsAccepted
<1>1. WorkflowInv => NextActionIsAccepted
  <2> SUFFICES ASSUME WorkflowInv, AtRest, SameRelease PROVE Accepts(graph.current)
    BY DEF NextActionIsAccepted
  <2>1. Waiting
    BY HoldsSound DEF WorkflowInv, InHand, AtRest, Typed, SameRelease, Waiting
  <2> QED BY <2>1, NextIsAccepted
<1> QED BY <1>1, WorkflowInvariant, PTL

(* A closed thread means a closed case; a case closes behind the thread's   *)
(* back only by a lost answer; under one release a case is blocked for its  *)
(* ambiguous lots.                                                          *)
THEOREM ThreadAndCaseEndTogether == DeskSpec => []EndsAgree
<1>1. WorkflowInv => EndsAgree
  <2> SUFFICES ASSUME WorkflowInv PROVE EndsAgree
    OBVIOUS
  <2>0. Sound /\ graph.stage \in Stages /\ write \in {"none", "spent", "landed"}
    BY HoldsSound DEF WorkflowInv, Typed, Graph
  <2>1. graph.stage = "closed" => Ledger!Opened # {} /\ state.closed
    <3> SUFFICES ASSUME graph.stage = "closed" PROVE Ledger!Opened # {} /\ state.closed
      OBVIOUS
    <3>1. state # None /\ state.closed /\ state.confirmed # {}
      BY DEF WorkflowInv, Ended
    <3> QED BY <3>1 DEF Ledger!Opened
  <2>2. state # None /\ state.closed /\ graph.stage # "closed" =>
          write = "landed" /\ graph.stage \in {"recovery", "escalated"}
    BY <2>0 DEF WorkflowInv, Unread, InHand, Ended, Stages
  <2>3. graph.stage = "open_closure_blocked" /\ SameRelease => graph.ambiguous # {}
    BY DEF WorkflowInv, Ended, SameRelease
  <2> QED BY <2>1, <2>2, <2>3 DEF EndsAgree
<1> QED BY <1>1, WorkflowInvariant, PTL
=============================================================================
