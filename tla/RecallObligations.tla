-------------------------- MODULE RecallObligations --------------------------
(***************************************************************************)
(* What opening a recall case promises, whoever writes and in whatever      *)
(* order: the case owes holds, dispositions and confirmations; they are     *)
(* only ever discharged, the holds before the rest; it closes when nothing  *)
(* is owed, and once.  Only a new edition of the trace dataset may say      *)
(* that something else is owed.                                             *)
(*                                                                         *)
(* The abstract specification of CaseLedger.                                *)
(***************************************************************************)
EXTENDS Naturals

CONSTANTS Lots, Facilities, Editions

VARIABLES
  phase,         \* "none", "open", "closed"
  edition,       \* the edition of the dataset obligations are read from
  toHold, toDispose, toConfirm

owed == <<toHold, toDispose, toConfirm>>

Init ==
  /\ phase = "none"
  /\ edition = 1
  /\ toHold = {} /\ toDispose = {} /\ toConfirm = {}

\* A case is opened for some lots: all are to be held, some have units to
\* dispose of, and some facility is to confirm.
Open ==
  /\ phase = "none" /\ phase' = "open"
  /\ toHold' \in (SUBSET Lots) \ {{}}
  /\ toDispose' \in SUBSET toHold'
  /\ toConfirm' \in (SUBSET Facilities) \ {{}}
  /\ UNCHANGED edition

Hold ==
  /\ phase = "open"
  /\ toHold' \in (SUBSET toHold) \ {toHold}
  /\ UNCHANGED <<phase, edition, toDispose, toConfirm>>

Dispose(l) ==
  /\ phase = "open"
  /\ l \in toDispose \ toHold
  /\ toDispose' = toDispose \ {l}
  /\ UNCHANGED <<phase, edition, toHold, toConfirm>>

Confirm(f) ==
  /\ phase = "open"
  /\ toHold = {}
  /\ f \in toConfirm
  /\ toConfirm' = toConfirm \ {f}
  /\ UNCHANGED <<phase, edition, toHold, toDispose>>

Close ==
  /\ phase = "open" /\ phase' = "closed"
  /\ owed = <<{}, {}, {}>>
  /\ UNCHANGED <<edition, owed>>

\* The holds are the case's own; the rest is read from the dataset.
Revise ==
  /\ edition + 1 \in Editions /\ edition' = edition + 1
  /\ toDispose' \in SUBSET Lots
  /\ toConfirm' \in SUBSET Facilities
  /\ UNCHANGED <<phase, toHold>>

Next ==
  \/ Open \/ Hold \/ Close \/ Revise
  \/ \E l \in Lots : Dispose(l)
  \/ \E f \in Facilities : Confirm(f)

Spec == Init /\ [][Next]_<<phase, edition, owed>>
=============================================================================
