-------------------------- MODULE CaseLedgerProofs --------------------------
(***************************************************************************)
(* Proofs about CaseLedger, for every dataset, every number of releases and *)
(* every caller: the row and its tables agree, holds come first, evidence   *)
(* is only added, what is disposed of is what was reviewed, and the ledger  *)
(* implements RecallObligations.                                            *)
(***************************************************************************)
EXTENDS CaseLedger, TLAPS

-----------------------------------------------------------------------------
(* Types.                                                                   *)

(* The loaded release classifies every lot, counts its residual and names   *)
(* its facilities.                                                          *)
LEMMA AuthorityType ==
  ASSUME release \in Releases
  PROVE  /\ authority.class \in [Lots -> Classes]
         /\ authority.unaccounted \in [Lots -> Nat]
         /\ authority.facilities \in [Lots -> (SUBSET Facilities) \ {{}}]
  <1>1. Datasets[release] \in Dataset
    BY LedgerAssumption DEF LedgerAssumption, Releases
  <1> QED BY <1>1 DEF authority, Dataset

(* A residual is a quantity as long as the events do not exceed it.         *)
LEMMA ResidualType ==
  ASSUME release \in Releases, NEW taken \in [Lots -> Nat], NEW l \in Lots,
         ~Overdrawn(taken, l)
  PROVE  Residual(taken, l) \in Nat
  BY AuthorityType DEF Residual, Overdrawn

(* A lot's disposition adds what is left of it to its events.               *)
LEMMA TakingType ==
  ASSUME TypeOK, NEW l \in Lots, MayDispose(l)
  PROVE  /\ state \in CaseState /\ ~state.closed
         /\ state.disposed \in [Lots -> Nat]
         /\ Residual(state.disposed, l) \in Nat \ {0}
         /\ Taking(l) \in [Lots -> Nat]
         /\ Residuals(state.confirmed, Taking(l)) \in [Lots -> Nat]
  <1>1. state \in CaseState /\ ~state.closed /\ state.disposed \in [Lots -> Nat]
    BY DEF MayDispose, Open, TypeOK, CaseState
  <1>2. Residual(state.disposed, l) \in Nat \ {0}
    BY <1>1, ResidualType DEF MayDispose, TypeOK
  <1>3. Taking(l) \in [Lots -> Nat]
    BY <1>1, <1>2 DEF Taking
  <1>4. ASSUME NEW m \in state.confirmed
        PROVE  Residual(Taking(l), m) \in Nat
    <2>1. m \in Lots
      BY <1>1, <1>4 DEF CaseState
    <2>2. ~Overdrawn(Taking(l), m)
      BY <1>4 DEF MayDispose
    <2> QED BY <1>3, <2>1, <2>2, ResidualType DEF TypeOK
  <1>5. Residuals(state.confirmed, Taking(l)) \in [Lots -> Nat]
    BY <1>4 DEF Residuals
  <1> QED BY <1>1, <1>2, <1>3, <1>5

(* At the start there is no case.                                           *)
LEMMA InitTypeOK == Init => TypeOK
  <1> SUFFICES ASSUME Init PROVE TypeOK
    OBVIOUS
  <1>1. 1 \in Releases
    BY LedgerAssumption DEF LedgerAssumption, Releases
  <1> QED BY <1>1 DEF Init, TypeOK, Acknowledgement

(* A write that changes the row leaves a row.                               *)
LEMMA RowAfterWrite ==
  ASSUME TypeOK
  PROVE  /\ \A lots \in SUBSET Lots, facilities \in SUBSET Facilities, ordered \in BOOLEAN :
              CreateCase(lots, facilities, Residuals(lots, Nothing), ordered)
                => state = None /\ state' \in CaseState
         /\ \A facilities \in SUBSET Facilities :
              CreateFacilityTasks(facilities) => state \in CaseState /\ state' \in CaseState
         /\ \A f \in Facilities :
              RecordAcknowledgment(f) => state \in CaseState /\ state' \in CaseState
         /\ \A l \in Lots :
              RecordDisposition(l) => state \in CaseState /\ state' \in CaseState
         /\ CloseCase => state \in CaseState /\ state' \in CaseState
  <1> USE DEF TypeOK, Acknowledgement
  <1>1. ASSUME NEW lots \in SUBSET Lots, NEW facilities \in SUBSET Facilities,
               NEW ordered \in BOOLEAN,
               CreateCase(lots, facilities, Residuals(lots, Nothing), ordered)
        PROVE  state = None /\ state' \in CaseState
    <2>1. Residuals(lots, Nothing) \in [Lots -> Nat]
      BY AuthorityType DEF Residuals, Residual, Nothing
    <2>2. Candidates(lots) \in [Lots -> Classes]
      BY AuthorityType DEF Candidates, Classes
    <2> QED BY <1>1, <2>1, <2>2 DEF CreateCase, MayCreate, CaseState, Nothing, GapsIn
  <1>2. ASSUME NEW facilities \in SUBSET Facilities, CreateFacilityTasks(facilities)
        PROVE  state \in CaseState /\ state' \in CaseState
    <2>1. state \in CaseState
      BY <1>2 DEF CreateFacilityTasks, MayCreateTasks, Open
    <2>2. Reset(state.acknowledgements, facilities) \in [Facilities -> Acknowledgement]
      BY <2>1 DEF Reset, CaseState
    <2> QED BY <1>2, <2>1, <2>2 DEF CreateFacilityTasks, CaseState
  <1>3. ASSUME NEW f \in Facilities, RecordAcknowledgment(f)
        PROVE  state \in CaseState /\ state' \in CaseState
    <2>1. state \in CaseState
      BY <1>3 DEF RecordAcknowledgment, MayAcknowledge, Open
    <2> QED BY <1>3, <2>1 DEF RecordAcknowledgment, CaseState
  <1>4. ASSUME NEW l \in Lots, RecordDisposition(l)
        PROVE  state \in CaseState /\ state' \in CaseState
    <2>1. MayDispose(l)
      BY <1>4 DEF RecordDisposition
    <2> QED BY <1>4, <2>1, TakingType DEF RecordDisposition, CaseState, GapsIn
  <1>5. ASSUME CloseCase PROVE state \in CaseState /\ state' \in CaseState
    <2>1. state \in CaseState
      BY <1>5 DEF CloseCase, MayClose, Open
    <2> QED BY <1>5, <2>1 DEF CloseCase, CaseState
  <1> QED BY <1>1, <1>2, <1>3, <1>4, <1>5

(* Every write, and every new release, leaves each value of its type.       *)
LEMMA NextTypeOK == TypeOK /\ [Next]_ledgerVars => TypeOK'
  <1> SUFFICES ASSUME TypeOK, [Next]_ledgerVars PROVE TypeOK'
    OBVIOUS
  <1> USE DEF TypeOK, Acknowledgement
  <1>1. ASSUME NEW lots \in SUBSET Lots, NEW facilities \in SUBSET Facilities,
               NEW ordered \in BOOLEAN,
               CreateCase(lots, facilities, Residuals(lots, Nothing), ordered)
        PROVE  TypeOK'
    <2>1. state' \in CaseState
      BY <1>1, RowAfterWrite
    <2> QED BY <1>1, <2>1 DEF CreateCase, tables
  <1>2. ASSUME NEW lots \in SUBSET Lots, ApplyInventoryHold(lots)
        PROVE  TypeOK'
    BY <1>2 DEF ApplyInventoryHold
  <1>3. ASSUME NEW facilities \in SUBSET Facilities, CreateFacilityTasks(facilities)
        PROVE  TypeOK'
    <2>1. state' \in CaseState
      BY <1>3, RowAfterWrite
    <2>2. Reset(acks, facilities) \in [Facilities -> Acknowledgement]
      BY DEF Reset
    <2> QED BY <1>3, <2>1, <2>2 DEF CreateFacilityTasks
  <1>4. ASSUME NEW f \in Facilities, RecordAcknowledgment(f)
        PROVE  TypeOK'
    <2>1. state' \in CaseState
      BY <1>4, RowAfterWrite
    <2> QED BY <1>4, <2>1 DEF RecordAcknowledgment
  <1>5. ASSUME NEW l \in Lots, RecordDisposition(l)
        PROVE  TypeOK'
    <2>1. state' \in CaseState
      BY <1>5, RowAfterWrite
    <2>2. disposed' \in [Lots -> Nat]
      BY <1>5, TakingType DEF RecordDisposition
    <2> QED BY <1>5, <2>1, <2>2 DEF RecordDisposition
  <1>6. ASSUME CloseCase PROVE TypeOK'
    <2>1. state' \in CaseState
      BY <1>6, RowAfterWrite
    <2> QED BY <1>6, <2>1 DEF CloseCase, tables
  <1>7. ASSUME LoadNextRelease PROVE TypeOK'
    BY <1>7 DEF LoadNextRelease, tables
  <1>8. ASSUME UNCHANGED ledgerVars PROVE TypeOK'
    BY <1>8 DEF ledgerVars, tables
  <1> QED BY <1>1, <1>2, <1>3, <1>4, <1>5, <1>6, <1>7, <1>8 DEF Next

(* The ledger is type correct: in particular no residual is ever negative,  *)
(* whatever release is loaded after a disposition.                          *)
THEOREM LedgerTypeCorrect == Spec => []TypeOK
  BY InitTypeOK, NextTypeOK, PTL DEF Spec

-----------------------------------------------------------------------------
(* The row and the tables.                                                  *)

\* Without a row there is nothing in the tables.
NoRow ==
  state = None =>
    /\ held = {} /\ \A l \in Lots : disposed[l] = 0
    /\ \A f \in Facilities : tasks[f] = "absent" /\ acks[f] = "absent"

LedgerInv == TypeOK /\ NoRow /\ CopiesAgree /\ HoldsComeFirst

(* An empty ledger satisfies the inductive invariant.                       *)
LEMMA InitLedgerInv == Init => LedgerInv
  <1> SUFFICES ASSUME Init PROVE LedgerInv
    OBVIOUS
  <1>1. TypeOK
    BY InitTypeOK
  <1>2. NoRow /\ CopiesAgree /\ HoldsComeFirst
    BY DEF Init, NoRow, CopiesAgree, HoldsComeFirst
  <1> QED BY <1>1, <1>2 DEF LedgerInv

(* Every write keeps the row, its tables and the order of containment in    *)
(* step.                                                                    *)
LEMMA NextLedgerInv == LedgerInv /\ [Next]_ledgerVars => LedgerInv'
  <1> SUFFICES ASSUME LedgerInv, [Next]_ledgerVars PROVE LedgerInv'
    OBVIOUS
  <1> USE DEF LedgerInv
  <1>0. TypeOK'
    BY NextTypeOK
  <1>1. ASSUME NEW lots \in SUBSET Lots, NEW facilities \in SUBSET Facilities,
               NEW ordered \in BOOLEAN,
               CreateCase(lots, facilities, Residuals(lots, Nothing), ordered)
        PROVE  (NoRow /\ CopiesAgree /\ HoldsComeFirst)'
    <2>1. /\ state = None /\ state' \in CaseState /\ UNCHANGED tables
          /\ state'.disposed = Nothing
          /\ state'.acknowledgements = [f \in Facilities |-> "absent"]
          /\ state'.gaps = GapsIn(state'.confirmed, state'.residual)
      BY <1>1, RowAfterWrite DEF CreateCase, CaseState
    <2>2. disposed = Nothing /\ acks = [f \in Facilities |-> "absent"]
      BY <2>1 DEF NoRow, Nothing, TypeOK
    <2>3. NoRow'
      BY <2>1, LedgerAssumption DEF NoRow, LedgerAssumption
    <2>4. CopiesAgree'
      BY <2>1, <2>2 DEF NoRow, CopiesAgree, tables, GapsIn
    <2>5. HoldsComeFirst'
      BY <2>1 DEF NoRow, HoldsComeFirst, tables
    <2> QED BY <2>3, <2>4, <2>5
  <1>2. ASSUME NEW lots \in SUBSET Lots, ApplyInventoryHold(lots)
        PROVE  (NoRow /\ CopiesAgree /\ HoldsComeFirst)'
    <2>1. \A f \in Facilities : tasks[f] = "absent"
      BY <1>2 DEF ApplyInventoryHold, MayHold, Open, HoldsComeFirst
    <2> QED BY <1>2, <2>1 DEF ApplyInventoryHold, MayHold, Open, NoRow, CopiesAgree,
                              HoldsComeFirst, GapsIn
  <1>3. ASSUME NEW facilities \in SUBSET Facilities, CreateFacilityTasks(facilities)
        PROVE  (NoRow /\ CopiesAgree /\ HoldsComeFirst)'
    <2>1. /\ state \in CaseState /\ state # None
          /\ state' \in CaseState /\ state' # None
          /\ facilities = state.required /\ held = state.confirmed
      BY <1>3, RowAfterWrite, LedgerAssumption DEF CreateFacilityTasks, MayCreateTasks, Open, LedgerAssumption
    <2>2. /\ state'.confirmed = state.confirmed /\ state'.required = state.required
          /\ state'.residual = state.residual /\ state'.gaps = state.gaps
          /\ state'.disposed = state.disposed
          /\ state'.acknowledgements = Reset(state.acknowledgements, facilities)
      BY <1>3, <2>1 DEF CreateFacilityTasks, CaseState
    <2>3. \A f \in Facilities :
            /\ tasks'[f] = IF f \in facilities THEN "pending" ELSE tasks[f]
            /\ acks'[f] = IF f \in facilities THEN "no" ELSE acks[f]
      BY <1>3 DEF CreateFacilityTasks, Reset
    <2>4. CopiesAgree'
      BY <1>3, <2>1, <2>2, <2>3 DEF CopiesAgree, CreateFacilityTasks, GapsIn
    <2>5. HoldsComeFirst'
      BY <1>3, <2>1, <2>2, <2>3 DEF HoldsComeFirst, CreateFacilityTasks, MayCreateTasks, TypeOK
    <2>6. NoRow'
      BY <2>1, LedgerAssumption DEF NoRow, LedgerAssumption
    <2> QED BY <2>4, <2>5, <2>6
  <1>4. ASSUME NEW f \in Facilities, RecordAcknowledgment(f)
        PROVE  (NoRow /\ CopiesAgree /\ HoldsComeFirst)'
    <2>1. state \in CaseState /\ state # None /\ state' \in CaseState /\ state' # None /\ tasks[f] # "absent"
      BY <1>4, RowAfterWrite, LedgerAssumption DEF RecordAcknowledgment, MayAcknowledge, Open, LedgerAssumption
    <2>2. /\ state'.confirmed = state.confirmed /\ state'.required = state.required
          /\ state'.residual = state.residual /\ state'.gaps = state.gaps
          /\ state'.disposed = state.disposed
          /\ state'.acknowledgements = [state.acknowledgements EXCEPT ![f] = "yes"]
      BY <1>4, <2>1 DEF RecordAcknowledgment, CaseState
    <2>3. \A e \in Facilities :
            /\ tasks'[e] = IF e = f THEN "acknowledged" ELSE tasks[e]
            /\ acks'[e] = IF e = f THEN "yes" ELSE acks[e]
      BY <1>4 DEF RecordAcknowledgment, TypeOK
    <2>4. disposed' = disposed /\ acks' = [acks EXCEPT ![f] = "yes"]
      BY <1>4 DEF RecordAcknowledgment
    <2>5. /\ state.disposed = disposed /\ state.acknowledgements = acks
          /\ state.gaps = GapsIn(state.confirmed, state.residual)
          /\ \A e \in Facilities : /\ tasks[e] = "acknowledged" <=> acks[e] = "yes"
                                   /\ tasks[e] = "absent" <=> acks[e] = "absent"
      BY <2>1 DEF CopiesAgree
    <2>6. CopiesAgree'
      BY <2>1, <2>2, <2>3, <2>4, <2>5 DEF CopiesAgree, GapsIn
    <2>7. HoldsComeFirst'
      BY <1>4, <2>1, <2>2, <2>3 DEF HoldsComeFirst, RecordAcknowledgment
    <2>8. NoRow'
      BY <2>1, LedgerAssumption DEF NoRow, LedgerAssumption
    <2> QED BY <2>6, <2>7, <2>8
  <1>5. ASSUME NEW l \in Lots, RecordDisposition(l)
        PROVE  (NoRow /\ CopiesAgree /\ HoldsComeFirst)'
    <2>1. /\ MayDispose(l) /\ state # None /\ l \in held
          /\ state \in CaseState /\ state' \in CaseState /\ state' # None
      BY <1>5, RowAfterWrite, LedgerAssumption DEF RecordDisposition, MayDispose, Open, LedgerAssumption
    <2>2. /\ state'.confirmed = state.confirmed /\ state'.required = state.required
          /\ state'.gaps = GapsIn(state.confirmed, state'.residual)
          /\ state'.disposed = Taking(l)
          /\ state'.acknowledgements = state.acknowledgements
      BY <1>5, <2>1 DEF RecordDisposition, CaseState
    <2>3. disposed' = Taking(l)
      BY <1>5, <2>1 DEF CopiesAgree, RecordDisposition, Taking
    <2>4. CopiesAgree'
      BY <1>5, <2>2, <2>3, <2>1 DEF CopiesAgree, RecordDisposition, GapsIn
    <2>5. HoldsComeFirst'
      BY <1>5, <2>1, <2>2 DEF HoldsComeFirst, RecordDisposition, TypeOK
    <2>6. NoRow'
      BY <2>1, LedgerAssumption DEF NoRow, LedgerAssumption
    <2> QED BY <2>4, <2>5, <2>6
  <1>6. ASSUME CloseCase PROVE (NoRow /\ CopiesAgree /\ HoldsComeFirst)'
    <2>1. state \in CaseState /\ state # None /\ state' \in CaseState /\ state' # None /\ UNCHANGED tables
      BY <1>6, RowAfterWrite, LedgerAssumption DEF CloseCase, MayClose, Open, LedgerAssumption
    <2>2. /\ state'.confirmed = state.confirmed /\ state'.required = state.required
          /\ state'.residual = state.residual /\ state'.gaps = state.gaps
          /\ state'.disposed = state.disposed
          /\ state'.acknowledgements = state.acknowledgements
      BY <1>6, <2>1 DEF CloseCase, CaseState
    <2>3. NoRow'
      BY <2>1, LedgerAssumption DEF NoRow, LedgerAssumption
    <2> QED BY <2>1, <2>2, <2>3 DEF CopiesAgree, HoldsComeFirst, GapsIn, tables
  <1>7. ASSUME LoadNextRelease PROVE (NoRow /\ CopiesAgree /\ HoldsComeFirst)'
    BY <1>7 DEF LoadNextRelease, NoRow, CopiesAgree, HoldsComeFirst, GapsIn, tables
  <1>8. ASSUME UNCHANGED ledgerVars PROVE (NoRow /\ CopiesAgree /\ HoldsComeFirst)'
    BY <1>8 DEF ledgerVars, NoRow, CopiesAgree, HoldsComeFirst, GapsIn, tables
  <1> QED BY <1>0, <1>1, <1>2, <1>3, <1>4, <1>5, <1>6, <1>7, <1>8 DEF Next

(* The inductive invariant holds of every behaviour.                        *)
LEMMA LedgerInvariant == Spec => []LedgerInv
  BY InitLedgerInv, NextLedgerInv, PTL DEF Spec

(* The row of a case and the tables that repeat it always tell the same.    *)
THEOREM CopiesStayInStep == Spec => []CopiesAgree
  BY LedgerInvariant, PTL DEF LedgerInv

(* No disposition and no facility task precedes the holds.                  *)
THEOREM HoldsAreFirst == Spec => []HoldsComeFirst
  BY LedgerInvariant, PTL DEF LedgerInv

-----------------------------------------------------------------------------
(* Steps.                                                                   *)

(* A quantity disposed of is the one the record showed when the action was  *)
(* reviewed, whichever release is loaded by then.                           *)
THEOREM ReviewedQuantities == Spec => DisposedAsReviewed
  <1>1. ASSUME LedgerInv, [Next]_ledgerVars
        PROVE  [\A l \in Lots : disposed'[l] # disposed[l] =>
                  disposed'[l] - disposed[l] = state.residual[l]]_ledgerVars
    <2> USE DEF LedgerInv
    <2>1. CASE \E l \in Lots : RecordDisposition(l)
      <3>1. PICK m \in Lots : RecordDisposition(m)
        BY <2>1
      <3>2. /\ state.residual[m] = Residual(state.disposed, m)
            /\ Residual(state.disposed, m) \in Nat \ {0}
        BY <1>1, <3>1, TakingType DEF RecordDisposition, MayDispose
      <3>3. \A l \in Lots : disposed'[l] =
              IF l = m THEN disposed[l] + Residual(state.disposed, m) ELSE disposed[l]
        BY <1>1, <3>1 DEF RecordDisposition, TypeOK
      <3>4. \A l \in Lots : disposed[l] \in Nat
        BY <1>1 DEF TypeOK
      <3> QED BY <3>2, <3>3, <3>4
    <2>2. CASE UNCHANGED disposed
      BY <2>2
    <2>3. (\E l \in Lots : RecordDisposition(l)) \/ UNCHANGED disposed
      BY <1>1 DEF Next, CreateCase, ApplyInventoryHold, CreateFacilityTasks, RecordAcknowledgment,
             CloseCase, LoadNextRelease, ledgerVars, tables
    <2> QED BY <2>1, <2>2, <2>3
  <1> QED BY <1>1, LedgerInvariant, PTL DEF Spec, DisposedAsReviewed

(* A closed case accepts no write.                                          *)
LEMMA ClosedCaseStands ==
  ASSUME TypeOK, [Next]_ledgerVars, state # None, state.closed
  PROVE  state' = state /\ tables' = tables
  BY DEF Next, CreateCase, MayCreate, ApplyInventoryHold, MayHold, CreateFacilityTasks,
         MayCreateTasks, RecordAcknowledgment, MayAcknowledge, RecordDisposition, MayDispose,
         CloseCase, MayClose, Open, LoadNextRelease, ledgerVars, tables

(* Holds, dispositions and acknowledgements are never taken back, and a     *)
(* closed case never changes.                                               *)
THEOREM EvidenceIsPermanent == Spec => AppendOnly
  <1>1. ASSUME LedgerInv, [Next]_ledgerVars
        PROVE  /\ held \subseteq held'
               /\ \A l \in Lots : disposed[l] <= disposed'[l]
               /\ \A f \in Facilities : acks[f] = "yes" => acks'[f] = "yes"
    <2> USE DEF LedgerInv
    <2>0. \A l \in Lots : disposed[l] \in Nat
      BY <1>1 DEF TypeOK
    <2>1. CASE \E l \in Lots : RecordDisposition(l)
      <3>1. PICK m \in Lots : RecordDisposition(m)
        BY <2>1
      <3>2. Residual(state.disposed, m) \in Nat \ {0}
        BY <1>1, <3>1, TakingType DEF RecordDisposition
      <3>3. \A l \in Lots : disposed'[l] =
              IF l = m THEN disposed[l] + Residual(state.disposed, m) ELSE disposed[l]
        BY <1>1, <3>1 DEF RecordDisposition, TypeOK
      <3>4. UNCHANGED <<held, acks>>
        BY <3>1 DEF RecordDisposition
      <3> QED BY <2>0, <3>2, <3>3, <3>4
    <2>2. CASE \E facilities \in SUBSET Facilities : CreateFacilityTasks(facilities)
      <3>1. PICK facilities \in SUBSET Facilities : CreateFacilityTasks(facilities)
        BY <2>2
      <3>2. \A f \in Facilities : acks[f] = "absent"
        BY <1>1, <3>1 DEF CreateFacilityTasks, MayCreateTasks, Open, CopiesAgree
      <3>3. UNCHANGED <<held, disposed>>
        BY <3>1 DEF CreateFacilityTasks
      <3> QED BY <2>0, <3>2, <3>3
    <2>3. CASE \E f \in Facilities : RecordAcknowledgment(f)
      <3>1. PICK f \in Facilities : RecordAcknowledgment(f)
        BY <2>3
      <3>2. UNCHANGED <<held, disposed>> /\ acks' = [acks EXCEPT ![f] = "yes"]
        BY <3>1 DEF RecordAcknowledgment
      <3> QED BY <1>1, <2>0, <3>2 DEF TypeOK
    <2>4. CASE held \subseteq held' /\ UNCHANGED <<disposed, acks>>
      BY <2>0, <2>4
    <2>5. \/ \E l \in Lots : RecordDisposition(l)
          \/ \E facilities \in SUBSET Facilities : CreateFacilityTasks(facilities)
          \/ \E f \in Facilities : RecordAcknowledgment(f)
          \/ held \subseteq held' /\ UNCHANGED <<disposed, acks>>
      BY <1>1 DEF Next, CreateCase, ApplyInventoryHold, CloseCase, LoadNextRelease, ledgerVars, tables
    <2> QED BY <2>1, <2>2, <2>3, <2>4, <2>5
  <1>2. ASSUME LedgerInv, [Next]_ledgerVars
        PROVE  [/\ held \subseteq held'
                /\ \A l \in Lots : disposed[l] <= disposed'[l]
                /\ \A f \in Facilities : acks[f] = "yes" => acks'[f] = "yes"
                /\ state # None /\ state.closed => state' = state /\ tables' = tables]_ledgerVars
    BY <1>1, <1>2, ClosedCaseStands DEF LedgerInv
  <1> QED BY <1>2, LedgerInvariant, PTL DEF Spec, AppendOnly

-----------------------------------------------------------------------------
(* The ledger implements RecallObligations.                                 *)

(* An empty ledger is a case that owes nothing.                             *)
LEMMA InitObligations == Init => Obligations!Init
  BY DEF Init, Obligations!Init, Opened, ToDispose, ToConfirm, FacilitiesOf

(* A write discharges what is owed, a new release revises it, and nothing   *)
(* else changes it.                                                         *)
LEMMA NextObligations ==
  ASSUME LedgerInv, LedgerInv', [Next]_ledgerVars
  PROVE  [Obligations!Next]_<<IF state = None THEN "none"
                               ELSE IF state.closed THEN "closed" ELSE "open",
                              release, <<Opened \ held, ToDispose, ToConfirm>>>>
  <1> USE DEF LedgerInv
  <1> DEFINE phase == IF state = None THEN "none" ELSE IF state.closed THEN "closed" ELSE "open"
             toHold == Opened \ held
             mapped == <<phase, release, <<toHold, ToDispose, ToConfirm>>>>
  <1>1. ASSUME NEW lots \in SUBSET Lots, NEW facilities \in SUBSET Facilities,
               NEW ordered \in BOOLEAN,
               CreateCase(lots, facilities, Residuals(lots, Nothing), ordered)
        PROVE  Obligations!Open
    <2>1. /\ state = None /\ state' \in CaseState /\ state' # None
          /\ state'.confirmed = lots /\ ~state'.closed
          /\ lots # {} /\ facilities = FacilitiesOf(lots)
          /\ UNCHANGED <<release, held, disposed, tasks, acks>>
      BY <1>1, RowAfterWrite, LedgerAssumption
         DEF CreateCase, MayCreate, CaseState, LedgerAssumption, tables
    <2>2. held = {} /\ \A f \in Facilities : acks[f] # "yes"
      BY <2>1 DEF NoRow
    <2>3. Opened' = lots /\ toHold' = lots
      BY <2>1, <2>2 DEF Opened
    <2>4. ToConfirm' = FacilitiesOf(lots)
      BY <2>1, <2>2, <2>3 DEF ToConfirm, FacilitiesOf, authority
    <2>5. FacilitiesOf(lots) # {}
      <3>1. PICK l \in lots : TRUE
        BY <2>1
      <3>2. authority.facilities[l] # {}
        BY <3>1, AuthorityType DEF TypeOK
      <3> QED BY <3>1, <3>2 DEF FacilitiesOf
    <2>6. ToDispose' \subseteq lots
      BY <2>3 DEF ToDispose
    <2>7. phase = "none" /\ phase' = "open"
      BY <2>1
    <2>8. /\ toHold' \in (SUBSET Lots) \ {{}}
          /\ ToDispose' \in SUBSET toHold'
          /\ ToConfirm' \in (SUBSET Facilities) \ {{}}
      <3>1. toHold' \in (SUBSET Lots) \ {{}}
        BY <2>1, <2>3
      <3>2. ToDispose' \in SUBSET toHold'
        BY <2>3, <2>6
      <3>3. ToConfirm' \in (SUBSET Facilities) \ {{}}
        BY <2>1, <2>4, <2>5
      <3> QED BY <3>1, <3>2, <3>3
    <2> QED BY <2>1, <2>7, <2>8 DEF Obligations!Open
  <1>2. ASSUME NEW lots \in SUBSET Lots, ApplyInventoryHold(lots)
        PROVE  Obligations!Hold
    <2>1. /\ state # None /\ ~state.closed /\ lots # {}
          /\ lots \subseteq Opened /\ lots \cap held = {}
          /\ held' = held \cup lots
          /\ UNCHANGED <<release, state, disposed, acks>>
      BY <1>2 DEF ApplyInventoryHold, MayHold, Open, Opened
    <2>2. toHold' \in (SUBSET toHold) \ {toHold}
      <3>1. Opened' = Opened /\ toHold' = toHold \ lots
        BY <2>1 DEF Opened
      <3>2. PICK l \in lots : l \in toHold
        BY <2>1
      <3>3. l \notin toHold' /\ toHold' \subseteq toHold
        BY <3>1
      <3> QED BY <3>2, <3>3
    <2>3. UNCHANGED <<ToDispose, ToConfirm>>
      BY <2>1 DEF ToDispose, ToConfirm, Opened, FacilitiesOf, authority
    <2> QED BY <2>1, <2>2, <2>3 DEF Obligations!Hold
  <1>3. ASSUME NEW facilities \in SUBSET Facilities, CreateFacilityTasks(facilities)
        PROVE  UNCHANGED mapped
    <2>1. /\ state # None /\ state' # None
          /\ state'.confirmed = state.confirmed /\ state'.closed = state.closed
          /\ UNCHANGED <<release, held, disposed>>
      BY <1>3, RowAfterWrite, LedgerAssumption
         DEF CreateFacilityTasks, MayCreateTasks, Open, CaseState, LedgerAssumption
    <2>2. \A f \in Facilities : acks[f] # "yes" /\ acks'[f] # "yes"
      BY <1>3 DEF CreateFacilityTasks, MayCreateTasks, Open, CopiesAgree, Reset
    <2>3. Opened' = Opened
      BY <2>1 DEF Opened
    <2>4. UNCHANGED <<ToDispose, ToConfirm>>
      <3>1. FacilitiesOf(Opened) \subseteq Facilities
        BY AuthorityType DEF TypeOK, CaseState, Opened, FacilitiesOf
      <3> QED BY <2>1, <2>2, <2>3, <3>1 DEF ToDispose, ToConfirm, FacilitiesOf, authority
    <2> QED BY <2>1, <2>3, <2>4
  <1>4. ASSUME NEW f \in Facilities, RecordAcknowledgment(f)
        PROVE  Obligations!Confirm(f) \/ UNCHANGED mapped
    <2>1. /\ state # None /\ ~state.closed /\ state' # None /\ tasks[f] # "absent"
          /\ state'.confirmed = state.confirmed /\ state'.closed = state.closed
          /\ acks' = [acks EXCEPT ![f] = "yes"]
          /\ UNCHANGED <<release, held, disposed>>
      BY <1>4, RowAfterWrite, LedgerAssumption
         DEF RecordAcknowledgment, MayAcknowledge, Open, CaseState, LedgerAssumption
    <2>2. toHold = {}
      BY <2>1 DEF HoldsComeFirst, Opened
    <2>3. Opened' = Opened /\ UNCHANGED ToDispose
      BY <2>1 DEF Opened, ToDispose, authority
    <2>4. ToConfirm' = ToConfirm \ {f}
      <3>1. FacilitiesOf(Opened) \subseteq Facilities
        BY AuthorityType DEF TypeOK, CaseState, Opened, FacilitiesOf
      <3>2. \A e \in Facilities : acks'[e] = IF e = f THEN "yes" ELSE acks[e]
        BY <2>1 DEF TypeOK
      <3> QED BY <2>1, <2>3, <3>1, <3>2 DEF ToConfirm, FacilitiesOf, authority
    <2>5. CASE f \in ToConfirm
      BY <2>1, <2>2, <2>3, <2>4, <2>5 DEF Obligations!Confirm
    <2>6. CASE f \notin ToConfirm
      BY <2>1, <2>2, <2>3, <2>4, <2>6
    <2> QED BY <2>5, <2>6
  <1>5. ASSUME NEW l \in Lots, RecordDisposition(l)
        PROVE  Obligations!Dispose(l)
    <2>1. /\ state # None /\ ~state.closed /\ state' # None /\ l \in held
          /\ l \in state.confirmed
          /\ state'.confirmed = state.confirmed /\ state'.closed = state.closed
          /\ disposed' = [disposed EXCEPT ![l] = @ + Residual(state.disposed, l)]
          /\ UNCHANGED <<release, held, acks>>
      BY <1>5, RowAfterWrite, LedgerAssumption
         DEF RecordDisposition, MayDispose, Open, CaseState, LedgerAssumption
    <2>2. /\ Residual(disposed, l) \in Nat \ {0}
          /\ state.disposed = disposed
      BY <1>5, <2>1, TakingType DEF RecordDisposition, CopiesAgree
    <2>3. /\ disposed[l] # authority.unaccounted[l]
          /\ disposed'[l] = authority.unaccounted[l]
          /\ \A m \in Lots \ {l} : disposed'[m] = disposed[m]
      BY <2>1, <2>2, AuthorityType DEF TypeOK, Residual
    <2>4. Opened' = Opened /\ Opened \subseteq Lots /\ toHold' = toHold
      BY <2>1 DEF Opened, TypeOK, CaseState
    <2>5. l \in ToDispose \ toHold /\ ToDispose' = ToDispose \ {l}
      BY <2>1, <2>3, <2>4 DEF ToDispose, authority, Opened
    <2>6. UNCHANGED ToConfirm
      BY <2>1, <2>4 DEF ToConfirm, FacilitiesOf, authority
    <2> QED BY <2>1, <2>4, <2>5, <2>6 DEF Obligations!Dispose
  <1>6. ASSUME CloseCase PROVE Obligations!Close
    <2>1. /\ MayClose /\ state # None /\ state \in CaseState /\ ~state.closed
          /\ state' # None /\ state'.closed /\ state'.confirmed = state.confirmed
          /\ UNCHANGED <<release, held, disposed, tasks, acks>>
      BY <1>6, RowAfterWrite, LedgerAssumption
         DEF CloseCase, MayClose, Open, CaseState, LedgerAssumption, tables
    <2>2. toHold = {}
      BY <2>1 DEF MayClose, Opened
    <2>3. ToDispose = {}
      <3>1. ASSUME NEW l \in state.confirmed
            PROVE  disposed[l] = authority.unaccounted[l]
        <4>1. authority.unaccounted[l] - disposed[l] = 0
          BY <2>1 DEF MayClose, Reconciled, Residual
        <4>2. disposed[l] \in Nat /\ authority.unaccounted[l] \in Nat
          BY <2>1, AuthorityType DEF CaseState, TypeOK
        <4> QED BY <4>1, <4>2
      <3> QED BY <2>1, <3>1 DEF ToDispose, Opened
    <2>4. ToConfirm = {}
      BY <2>1 DEF MayClose, AuthorityUnchanged, AllAcknowledged, Tasked, ToConfirm, Opened
    <2>5. UNCHANGED <<toHold, ToDispose, ToConfirm>>
      BY <2>1 DEF Opened, ToDispose, ToConfirm, FacilitiesOf, authority
    <2> QED BY <2>1, <2>2, <2>3, <2>4, <2>5 DEF Obligations!Close, Obligations!owed
  <1>7. ASSUME LoadNextRelease PROVE Obligations!Revise
    <2>1. Opened' = Opened /\ Opened' \subseteq Lots
      BY <1>7 DEF LoadNextRelease, Opened, TypeOK, CaseState
    <2>2. ToDispose' \in SUBSET Lots
      BY <2>1 DEF ToDispose
    <2>3. ToConfirm' \in SUBSET Facilities
      <3>1. release' \in Releases
        BY DEF TypeOK
      <3>2. Datasets[release'] \in Dataset
        BY <3>1, LedgerAssumption DEF LedgerAssumption, Releases
      <3>3. \A l \in Lots : authority'.facilities[l] \subseteq Facilities
        BY <3>2 DEF authority, Dataset
      <3> QED BY <2>1, <3>3 DEF ToConfirm, FacilitiesOf
    <2> QED BY <1>7, <2>1, <2>2, <2>3 DEF LoadNextRelease, Obligations!Revise, tables
  <1>8. ASSUME UNCHANGED ledgerVars PROVE UNCHANGED mapped
    BY <1>8 DEF ledgerVars, tables, Opened, ToDispose, ToConfirm, FacilitiesOf, authority
  <1> QED
    BY <1>1, <1>2, <1>3, <1>4, <1>5, <1>6, <1>7, <1>8 DEF Next, Obligations!Next

(* Whatever the callers write, and whichever releases are loaded, the case  *)
(* keeps the promise of RecallObligations; in particular it closes only     *)
(* when, by the release loaded at that moment, nothing is owed.             *)
THEOREM ImplementsObligations == Spec => KeepsObligations
  BY InitObligations, NextObligations, LedgerInvariant, PTL
     DEF Spec, KeepsObligations, Obligations!Spec, Obligations!owed

-----------------------------------------------------------------------------
(* Closure.                                                                 *)

\* Under the release a case was created under, its record is what that release
\* says of it: a lot is either not disposed of, or wholly.
RecordIsTrue ==
  /\ openedAt = None <=> state = None
  /\ openedAt # None => openedAt <= release
  /\ openedAt = release =>
       /\ AuthorityUnchanged
       /\ \A l \in state.confirmed :
            /\ ~Overdrawn(state.disposed, l)
            /\ state.residual[l] = Residual(state.disposed, l)
            /\ state.disposed[l] > 0 => state.residual[l] = 0

(* What a case is created from is today's authority.                        *)
LEMMA CreatedTrue ==
  ASSUME TypeOK, NEW lots \in SUBSET Lots, NEW facilities \in SUBSET Facilities,
         NEW ordered \in BOOLEAN,
         CreateCase(lots, facilities, Residuals(lots, Nothing), ordered)
  PROVE  RecordIsTrue'
  <1>1. /\ state' # None /\ openedAt' = release /\ release' = release
        /\ state'.confirmed = lots /\ state'.class = Candidates(lots)
        /\ state'.required = FacilitiesOf(lots)
        /\ state'.residual = Residuals(lots, Nothing) /\ state'.disposed = Nothing
        /\ Eligible(lots) /\ release \in Releases /\ None \notin Releases
    BY RowAfterWrite, LedgerAssumption
       DEF CreateCase, MayCreate, CaseState, LedgerAssumption, TypeOK
  <1>2. AuthorityUnchanged'
    BY <1>1 DEF AuthorityUnchanged, Eligible, Candidates, FacilitiesOf, authority
  <1>3. ASSUME NEW l \in lots
        PROVE  /\ ~(Nothing[l] > authority.unaccounted[l]) /\ Nothing[l] = 0
               /\ Residuals(lots, Nothing)[l] = Residual(Nothing, l)
    BY AuthorityType DEF Nothing, Residuals, Residual, TypeOK
  <1>4. authority' = authority
    BY <1>1 DEF authority
  <1>5. openedAt' <= release'
    BY <1>1 DEF Releases
  <1> QED BY <1>1, <1>2, <1>3, <1>4, <1>5 DEF RecordIsTrue, Overdrawn, Residual

(* A write that keeps what the record says of the lots keeps it true.       *)
LEMMA StaysTrue ==
  ASSUME RecordIsTrue, UNCHANGED <<release, openedAt>>, state # None, state' # None,
         \A field \in {"confirmed", "class", "required", "residual", "disposed"} :
           state'[field] = state[field]
  PROVE  RecordIsTrue'
  <1>1. /\ state'.confirmed = state.confirmed /\ state'.class = state.class
        /\ state'.required = state.required /\ state'.residual = state.residual
        /\ state'.disposed = state.disposed
    OBVIOUS
  <1>2. authority' = authority
    BY DEF authority
  <1>3. AuthorityUnchanged => AuthorityUnchanged'
    BY <1>1, <1>2 DEF AuthorityUnchanged, Eligible, Candidates, FacilitiesOf
  <1> QED BY <1>1, <1>2, <1>3 DEF RecordIsTrue, Overdrawn, Residual

(* A disposition takes the whole of its lot and nothing of the others.      *)
LEMMA DisposedTrue ==
  ASSUME LedgerInv, RecordIsTrue, NEW l \in Lots, RecordDisposition(l)
  PROVE  RecordIsTrue'
  <1>1. /\ MayDispose(l) /\ state # None /\ state' # None
        /\ state \in CaseState /\ state' \in CaseState
    BY RowAfterWrite, LedgerAssumption
       DEF RecordDisposition, MayDispose, Open, LedgerAssumption, LedgerInv
  <1>2. /\ state'.confirmed = state.confirmed /\ state'.class = state.class
        /\ state'.required = state.required /\ state'.disposed = Taking(l)
        /\ state'.residual = Residuals(state.confirmed, Taking(l))
        /\ UNCHANGED <<release, openedAt>>
    BY <1>1 DEF RecordDisposition, CaseState
  <1>3. authority' = authority
    BY <1>2 DEF authority
  <1>4. AuthorityUnchanged => AuthorityUnchanged'
    BY <1>2, <1>3 DEF AuthorityUnchanged, Eligible, Candidates, FacilitiesOf
  <1>5. ASSUME NEW m \in state.confirmed, openedAt = release
        PROVE  /\ ~Overdrawn(Taking(l), m)
               /\ Residuals(state.confirmed, Taking(l))[m] = Residual(Taking(l), m)
               /\ Taking(l)[m] > 0 => Residual(Taking(l), m) = 0
    <2>1. /\ m \in Lots /\ state.disposed \in [Lots -> Nat] /\ authority.unaccounted[m] \in Nat
          /\ authority.unaccounted[l] \in Nat
      BY <1>1, AuthorityType DEF CaseState, LedgerInv, TypeOK
    <2>2. Taking(l)[m] = IF m = l THEN authority.unaccounted[l] ELSE state.disposed[m]
      BY <2>1 DEF Taking, Residual
    <2>3. state.disposed[m] > 0 => authority.unaccounted[m] - state.disposed[m] = 0
      BY <1>5 DEF RecordIsTrue, Residual
    <2>4. ~Overdrawn(Taking(l), m)
      BY <1>1 DEF MayDispose
    <2> QED BY <2>1, <2>2, <2>3, <2>4 DEF Residuals, Residual
  <1> QED BY <1>1, <1>2, <1>3, <1>4, <1>5 DEF RecordIsTrue, Overdrawn, Residual

(* No write and no release makes the record of a case wrong under its own   *)
(* release; a later release is never the one it was created under.          *)
LEMMA NextRecordIsTrue == LedgerInv /\ RecordIsTrue /\ [Next]_ledgerVars => RecordIsTrue'
  <1> SUFFICES ASSUME LedgerInv, RecordIsTrue, [Next]_ledgerVars PROVE RecordIsTrue'
    OBVIOUS
  <1> USE DEF LedgerInv
  <1>1. ASSUME NEW lots \in SUBSET Lots, ApplyInventoryHold(lots) PROVE RecordIsTrue'
    BY <1>1, StaysTrue DEF ApplyInventoryHold, MayHold, Open
  <1>2. ASSUME NEW facilities \in SUBSET Facilities, CreateFacilityTasks(facilities)
        PROVE  RecordIsTrue'
    <2>1. /\ state \in CaseState /\ state # None /\ state' # None /\ UNCHANGED <<release, openedAt>>
          /\ state' = [state EXCEPT !.acknowledgements = Reset(state.acknowledgements, facilities)]
      BY <1>2, RowAfterWrite, LedgerAssumption
         DEF CreateFacilityTasks, MayCreateTasks, Open, LedgerAssumption
    <2> QED BY <2>1, StaysTrue DEF CaseState
  <1>3. ASSUME NEW f \in Facilities, RecordAcknowledgment(f) PROVE RecordIsTrue'
    <2>1. /\ state \in CaseState /\ state # None /\ state' # None /\ UNCHANGED <<release, openedAt>>
          /\ state' = [state EXCEPT !.acknowledgements[f] = "yes"]
      BY <1>3, RowAfterWrite, LedgerAssumption
         DEF RecordAcknowledgment, MayAcknowledge, Open, LedgerAssumption
    <2> QED BY <2>1, StaysTrue DEF CaseState
  <1>4. ASSUME CloseCase PROVE RecordIsTrue'
    <2>1. /\ state \in CaseState /\ state # None /\ state' # None /\ UNCHANGED <<release, openedAt>>
          /\ state' = [state EXCEPT !.closed = TRUE]
      BY <1>4, RowAfterWrite, LedgerAssumption DEF CloseCase, MayClose, Open, LedgerAssumption
    <2> QED BY <2>1, StaysTrue DEF CaseState
  <1>5. ASSUME LoadNextRelease PROVE RecordIsTrue'
    <2>1. /\ release \in Nat /\ release' = release + 1 /\ UNCHANGED <<state, openedAt>>
          /\ None \notin Releases /\ release' \in Releases
      BY <1>5, LedgerAssumption DEF LoadNextRelease, TypeOK, Releases, LedgerAssumption
    <2>2. openedAt # None => openedAt \in Nat
      BY DEF TypeOK, Releases
    <2> QED BY <2>1, <2>2 DEF RecordIsTrue
  <1>6. ASSUME UNCHANGED ledgerVars PROVE RecordIsTrue'
    BY <1>6 DEF ledgerVars, RecordIsTrue, AuthorityUnchanged, Eligible, Candidates, FacilitiesOf,
                Overdrawn, Residual, authority
  <1> QED BY <1>1, <1>2, <1>3, <1>4, <1>5, <1>6, CreatedTrue, DisposedTrue DEF Next

(* At the start there is no case to be wrong about.                         *)
LEMMA InitRecordIsTrue == Init => RecordIsTrue
  <1>1. None # 1
    BY LedgerAssumption DEF LedgerAssumption, Releases
  <1> QED BY <1>1 DEF Init, RecordIsTrue

(* A case that listed its lots in order and met its obligations can be      *)
(* closed, while the dataset is the one it was created under.               *)
LEMMA DischargedMayClose == LedgerInv /\ RecordIsTrue => DischargedCasesClose
  <1> SUFFICES ASSUME LedgerInv, RecordIsTrue, Open, state.ordered, openedAt = release, Discharged
               PROVE  MayClose
    BY DEF DischargedCasesClose
  <1> USE DEF LedgerInv
  <1>1. /\ state \in CaseState /\ state # None
        /\ AuthorityUnchanged /\ held = state.confirmed
        /\ state.disposed = disposed /\ state.acknowledgements = acks
    BY DEF Open, TypeOK, RecordIsTrue, Discharged, CopiesAgree
  <1>2. ASSUME NEW l \in state.confirmed
        PROVE  /\ ~Overdrawn(disposed, l) /\ state.residual[l] = Residual(disposed, l)
               /\ state.residual[l] = 0 /\ state.class[l] # "ambiguous"
    <2>1. l \in Lots /\ disposed[l] = authority.unaccounted[l] /\ authority.unaccounted[l] \in Nat
      BY <1>1, AuthorityType DEF Discharged, ToDispose, Opened, CaseState, TypeOK
    <2>2. state.class[l] = authority.class[l] /\ authority.class[l] \in {"exact", "probable"}
      BY <1>1, <2>1 DEF AuthorityUnchanged, Candidates, Eligible
    <2> QED BY <1>1, <2>1, <2>2 DEF RecordIsTrue, Residual
  <1>3. state.gaps = {}
    BY <1>1, <1>2 DEF CopiesAgree, GapsIn
  <1>4. AllAcknowledged
    <2>1. \A f \in state.required : f \in Facilities /\ acks[f] = "yes"
      BY <1>1 DEF Discharged, ToConfirm, Opened, AuthorityUnchanged, CaseState
    <2>2. \A f \in Facilities : /\ f \in state.required => tasks[f] = "acknowledged"
                                /\ tasks[f] # "absent" => f \in state.required
                                /\ tasks[f] = "absent" => acks[f] = "absent"
      BY <1>1, <2>1 DEF CopiesAgree, HoldsComeFirst
    <2>3. Tasked = state.required
      BY <1>1, <2>1, <2>2 DEF Tasked, CaseState
    <2>4. acks = [f \in Facilities |-> IF f \in Tasked THEN Acknowledged(f) ELSE "absent"]
      <3>1. acks \in [Facilities -> Acknowledgement]
        BY DEF TypeOK
      <3>2. \A f \in Facilities : acks[f] = IF f \in Tasked THEN Acknowledged(f) ELSE "absent"
        BY <2>1, <2>2, <2>3 DEF Acknowledged
      <3> QED BY <3>1, <3>2
    <2> QED BY <1>1, <2>1, <2>2, <2>3, <2>4 DEF AllAcknowledged
  <1> QED BY <1>1, <1>2, <1>3, <1>4 DEF MayClose, Reconciled

(* No sequence of writes leads to a case whose work is done and which the   *)
(* gates of close_case refuse for ever.                                     *)
THEOREM DischargedClose == Spec => []DischargedCasesClose
  BY InitLedgerInv, NextLedgerInv, InitRecordIsTrue, NextRecordIsTrue, DischargedMayClose, PTL
     DEF Spec
=============================================================================
