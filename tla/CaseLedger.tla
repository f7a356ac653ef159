----------------------------- MODULE CaseLedger -----------------------------
(***************************************************************************)
(* What one recall case holds in the Operations service                    *)
(* (src/recallops/services/operations.py): the state_json of its row, and  *)
(* the tables inventory_holds, disposition_events, tasks and               *)
(* acknowledgements that repeat parts of it, with the validators and       *)
(* transforms of the six writes.                                           *)
(*                                                                         *)
(* A write here is one that OperationsStore has authorised: grants,        *)
(* versions and idempotency are its subject.  The arguments are any a      *)
(* caller can send.  A case is checked against the trace dataset at every  *)
(* step, and a service that restarts may load another release of it.       *)
(***************************************************************************)
EXTENDS Integers, Sequences

CONSTANTS
  Lots, Facilities,
  Datasets,      \* releases of the dataset, in the order they are loaded
  None

Classes == {"exact", "probable", "ambiguous", "rejected"}

(* What Operations takes from a release: how the recall's predicate         *)
(* classifies each lot, the units reconcile_units cannot account for, and   *)
(* the facilities the lot's trace events name.                              *)
Dataset ==
  [class: [Lots -> Classes], unaccounted: [Lots -> Nat],
   facilities: [Lots -> (SUBSET Facilities) \ {{}}]]

Releases == 1 .. Len(Datasets)

Acknowledgement == {"absent", "no", "yes"}

\* state_json.  `class` is its candidate_lots, `residual` and `ordered` its
\* reconciliation: the units left, and that it lists the lots as
\* confirmed_lot_ids does.
CaseState ==
  [confirmed: SUBSET Lots, class: [Lots -> Classes], required: SUBSET Facilities,
   residual: [Lots -> Nat], ordered: BOOLEAN, gaps: SUBSET Lots,
   disposed: [Lots -> Nat], acknowledgements: [Facilities -> Acknowledgement],
   closed: BOOLEAN]

ASSUME LedgerAssumption ==
  /\ Datasets \in Seq(Dataset) /\ Datasets # <<>>
  /\ None \notin Releases /\ None \notin CaseState

VARIABLES
  release,       \* the release of the dataset the service has loaded
  state,         \* cases.state_json; None: no row
  held,          \* inventory_holds
  disposed,      \* disposition_events: the units of each lot's events
  tasks,         \* tasks
  acks,          \* acknowledgements
  openedAt       \* history: the release create_case ran under

tables == <<held, disposed, tasks, acks>>
ledgerVars == <<release, state, tables, openedAt>>

TypeOK ==
  /\ release \in Releases
  /\ state \in CaseState \cup {None}
  /\ held \in SUBSET Lots
  /\ disposed \in [Lots -> Nat]
  /\ tasks \in [Facilities -> {"absent", "pending", "acknowledged"}]
  /\ acks \in [Facilities -> Acknowledgement]
  /\ openedAt \in Releases \cup {None}

Init ==
  /\ release = 1
  /\ state = None
  /\ held = {}
  /\ disposed = [l \in Lots |-> 0]
  /\ tasks = [f \in Facilities |-> "absent"]
  /\ acks = [f \in Facilities |-> "absent"]
  /\ openedAt = None

-----------------------------------------------------------------------------
(* The authority a case is checked against.                                 *)

authority == Datasets[release]

Open == state # None /\ ~state.closed

\* _reconciliation_with_dispositions: what is left of a lot's residual.  It
\* raises when the events take more than there is.
Residual(taken, l) == authority.unaccounted[l] - taken[l]

Overdrawn(taken, l) == taken[l] > authority.unaccounted[l]

Eligible(lots) == \A l \in lots : authority.class[l] \in {"exact", "probable"}
FacilitiesOf(lots) == UNION {authority.facilities[l] : l \in lots}

\* candidate_lots holds the matches of the confirmed lots and of no others.
Candidates(lots) == [l \in Lots |-> IF l \in lots THEN authority.class[l] ELSE "rejected"]

\* The reconciliation and the gaps that follow from the disposition events.
Residuals(lots, taken) == [l \in Lots |-> IF l \in lots THEN Residual(taken, l) ELSE 0]
GapsIn(lots, residual) == {l \in lots : residual[l] # 0}

-----------------------------------------------------------------------------
(* The writes.                                                              *)

Nothing == [l \in Lots |-> 0]

\* The evidence sent is compared with the authority, except for the order of
\* the reconciliation.
MayCreate(lots, facilities, residual) ==
  /\ state = None
  /\ lots # {}
  /\ Eligible(lots)
  /\ facilities = FacilitiesOf(lots)
  /\ residual = Residuals(lots, Nothing)

CreateCase(lots, facilities, residual, ordered) ==
  /\ MayCreate(lots, facilities, residual)
  /\ state' = [confirmed |-> lots, class |-> Candidates(lots), required |-> facilities,
               residual |-> residual, ordered |-> ordered, gaps |-> GapsIn(lots, residual),
               disposed |-> Nothing,
               acknowledgements |-> [f \in Facilities |-> "absent"], closed |-> FALSE]
  /\ openedAt' = release
  /\ UNCHANGED <<release, tables>>

MayHold(lots) ==
  /\ Open
  /\ lots # {}
  /\ lots \subseteq state.confirmed
  /\ lots \cap held = {}

\* Any lots of the case that are not held yet: not necessarily all.
ApplyInventoryHold(lots) ==
  /\ MayHold(lots)
  /\ held' = held \cup lots
  /\ UNCHANGED <<release, state, disposed, tasks, acks, openedAt>>

\* Faulty: tasks may be created again.
MayCreateTasksAgain(facilities) ==
  /\ Open
  /\ facilities # {}
  /\ facilities = state.required
  /\ held = state.confirmed

\* Faulty: tasks may precede the holds.
MayCreateTasksEarly(facilities) ==
  /\ Open
  /\ facilities # {}
  /\ \A f \in Facilities : tasks[f] = "absent"
  /\ facilities = state.required

MayCreateTasks(facilities) ==
  /\ Open
  /\ facilities # {}
  /\ \A f \in Facilities : tasks[f] = "absent"
  /\ facilities = state.required
  /\ held = state.confirmed

\* INSERT OR REPLACE: the acknowledgements start again.
Reset(old, facilities) == [f \in Facilities |-> IF f \in facilities THEN "no" ELSE old[f]]

CreateFacilityTasks(facilities) ==
  /\ MayCreateTasks(facilities)
  /\ tasks' = [f \in Facilities |-> IF f \in facilities THEN "pending" ELSE tasks[f]]
  /\ acks' = Reset(acks, facilities)
  /\ state' = [state EXCEPT !.acknowledgements = Reset(state.acknowledgements, facilities)]
  /\ UNCHANGED <<release, held, disposed, openedAt>>

\* An acknowledgement may be recorded again, for no effect.
MayAcknowledge(f) == Open /\ tasks[f] # "absent"

\* Faulty: the table is written and the row is not.
RecordAcknowledgmentInTable(f) ==
  /\ MayAcknowledge(f)
  /\ acks' = [acks EXCEPT ![f] = "yes"]
  /\ tasks' = [tasks EXCEPT ![f] = "acknowledged"]
  /\ UNCHANGED <<release, state, held, disposed, openedAt>>

RecordAcknowledgment(f) ==
  /\ MayAcknowledge(f)
  /\ acks' = [acks EXCEPT ![f] = "yes"]
  /\ tasks' = [tasks EXCEPT ![f] = "acknowledged"]
  /\ state' = [state EXCEPT !.acknowledgements[f] = "yes"]
  /\ UNCHANGED <<release, held, disposed, openedAt>>

\* The disposition takes the whole residual; nobody else names a quantity.
Taking(l) == [state.disposed EXCEPT ![l] = @ + Residual(state.disposed, l)]

\* Faulty: the persisted reconciliation is not compared.
MayDisposeStale(l) ==
  /\ Open
  /\ l \in state.confirmed
  /\ l \in held
  /\ state.residual[l] > 0

MayDispose(l) ==
  /\ Open
  /\ l \in state.confirmed
  /\ l \in held
  /\ ~Overdrawn(state.disposed, l)
  /\ state.residual[l] = Residual(state.disposed, l)
  /\ Residual(state.disposed, l) > 0
  /\ \A m \in state.confirmed : ~Overdrawn(Taking(l), m)

\* Faulty: the residual of the lot is written and the gaps are forgotten.
RecordDispositionKeepsGaps(l) ==
  /\ MayDispose(l)
  /\ disposed' = [disposed EXCEPT ![l] = @ + Residual(state.disposed, l)]
  /\ state' = [state EXCEPT !.disposed = Taking(l),
                            !.residual = Residuals(state.confirmed, Taking(l))]
  /\ UNCHANGED <<release, held, tasks, acks, openedAt>>

RecordDisposition(l) ==
  /\ MayDispose(l)
  /\ disposed' = [disposed EXCEPT ![l] = @ + Residual(state.disposed, l)]
  /\ LET residual == Residuals(state.confirmed, Taking(l))
     IN  state' = [state EXCEPT !.disposed = Taking(l), !.residual = residual,
                                !.gaps = GapsIn(state.confirmed, residual)]
  /\ UNCHANGED <<release, held, tasks, acks, openedAt>>

-----------------------------------------------------------------------------
(* Closure.                                                                 *)

\* The facilities the case has tasks for; an absent acknowledgement reads 0.
Tasked == {f \in Facilities : tasks[f] # "absent"}
Acknowledged(f) == IF acks[f] = "yes" THEN "yes" ELSE "no"

AuthorityUnchanged ==
  /\ Eligible(state.confirmed)
  /\ state.class = Candidates(state.confirmed)
  /\ state.required = FacilitiesOf(state.confirmed)

\* The stored events, replayed on today's dataset, give the persisted
\* reconciliation and leave nothing.
Reconciled ==
  /\ disposed = state.disposed
  /\ \A l \in state.confirmed :
       /\ ~Overdrawn(disposed, l)
       /\ state.residual[l] = Residual(disposed, l)
       /\ state.residual[l] = 0
  /\ state.ordered

AllAcknowledged ==
  /\ Tasked = state.required
  /\ \A f \in Tasked : acks[f] = "yes" /\ tasks[f] = "acknowledged"
  /\ state.acknowledgements =
       [f \in Facilities |-> IF f \in Tasked THEN Acknowledged(f) ELSE "absent"]

\* Faulty: the persisted reconciliation is taken for the truth.
MayCloseOnRecord ==
  /\ Open
  /\ held = state.confirmed
  /\ \A l \in state.confirmed : state.residual[l] = 0
  /\ state.gaps = {}
  /\ AllAcknowledged

MayClose ==
  /\ Open
  /\ held = state.confirmed
  /\ AuthorityUnchanged
  /\ Reconciled
  /\ state.gaps = {} /\ \A l \in state.confirmed : state.class[l] # "ambiguous"
  /\ AllAcknowledged

CloseCase ==
  /\ MayClose
  /\ state' = [state EXCEPT !.closed = TRUE]
  /\ UNCHANGED <<release, tables, openedAt>>

-----------------------------------------------------------------------------

\* The service restarts with the next release of the dataset.
LoadNextRelease ==
  /\ release + 1 \in Releases
  /\ release' = release + 1
  /\ UNCHANGED <<state, tables, openedAt>>

Next ==
  \/ \E lots \in SUBSET Lots, facilities \in SUBSET Facilities, ordered \in BOOLEAN :
       CreateCase(lots, facilities, Residuals(lots, Nothing), ordered)
  \/ \E lots \in SUBSET Lots : ApplyInventoryHold(lots)
  \/ \E facilities \in SUBSET Facilities : CreateFacilityTasks(facilities)
  \/ \E f \in Facilities : RecordAcknowledgment(f)
  \/ \E l \in Lots : RecordDisposition(l)
  \/ CloseCase
  \/ LoadNextRelease

Spec == Init /\ [][Next]_ledgerVars

-----------------------------------------------------------------------------
(* What the case may be relied upon for.                                    *)

(* The row and the tables that repeat it tell the same: no write updates    *)
(* one of them only (close_case refuses a case for ever when they differ).  *)
CopiesAgree ==
  state # None =>
    /\ state.disposed = disposed
    /\ state.acknowledgements = acks
    /\ state.gaps = GapsIn(state.confirmed, state.residual)
    /\ \A f \in Facilities : /\ tasks[f] = "acknowledged" <=> acks[f] = "yes"
                             /\ tasks[f] = "absent" <=> acks[f] = "absent"

(* Containment comes first: what was disposed of was held, and no facility  *)
(* is asked before every lot of the case is held.                           *)
HoldsComeFirst ==
  /\ \A l \in Lots : disposed[l] > 0 => l \in held
  /\ \A f \in Facilities : tasks[f] # "absent" =>
       held = state.confirmed /\ f \in state.required
  /\ held # {} => state # None /\ held \subseteq state.confirmed

\* What the case still owes, by the loaded release.
Opened == IF state = None THEN {} ELSE state.confirmed
ToDispose == {l \in Opened : disposed[l] # authority.unaccounted[l]}
ToConfirm == {f \in FacilitiesOf(Opened) : acks[f] # "yes"}

Obligations == INSTANCE RecallObligations WITH
  Editions <- Releases,
  phase <- IF state = None THEN "none" ELSE IF state.closed THEN "closed" ELSE "open",
  edition <- release,
  toHold <- Opened \ held,
  toDispose <- ToDispose,
  toConfirm <- ToConfirm

(* The writes implement the case's promise: each only discharges what is     *)
(* owed, holds first, and no case closes on a stale record - what is owed is *)
(* read from the loaded release, never from the record a reviewer saw.       *)
KeepsObligations == Obligations!Spec

(* What is disposed of is what the record showed when the action was         *)
(* reviewed, whatever the dataset says by then: a release that accounts for  *)
(* a lot differently makes the disposition fail.                             *)
DisposedAsReviewed ==
  [][\A l \in Lots : disposed'[l] # disposed[l] =>
       disposed'[l] - disposed[l] = state.residual[l]]_ledgerVars

(* Evidence is only added: no write takes back a hold, a disposition or an  *)
(* acknowledgement, and nothing changes a closed case.                      *)
AppendOnly ==
  [][/\ held \subseteq held'
     /\ \A l \in Lots : disposed[l] <= disposed'[l]
     /\ \A f \in Facilities : acks[f] = "yes" => acks'[f] = "yes"
     /\ state # None /\ state.closed => state' = state /\ tables' = tables]_ledgerVars

\* The obligations of the case are met.
Discharged == held = state.confirmed /\ ToDispose = {} /\ ToConfirm = {}

(* The gates of close_case do not contradict the other writes: under one    *)
(* release, a case that listed its lots in order and met its obligations    *)
(* can be closed.                                                           *)
DischargedCasesClose ==
  Open /\ state.ordered /\ openedAt = release /\ Discharged => MayClose
=============================================================================
