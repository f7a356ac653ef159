---------------------------- MODULE Traceability ----------------------------
(***************************************************************************)
(* The operational evidence: the dataset the loader accepts                 *)
(* (src/recallops/data/loaders.py), the answers the traceability service    *)
(* derives from it (services/traceability.py), and the checks with which    *)
(* the specialists take those answers apart again (agents/specialists.py,   *)
(* agents/verification.py).                                                 *)
(*                                                                         *)
(* The three were written one by one and no call compares them as a whole:  *)
(* the loader accepts a dataset without asking the others.  Here a dataset  *)
(* grows by whatever the loader accepts, in any order of storage.           *)
(***************************************************************************)
EXTENDS Integers, Sequences, FiniteSets, SequencesExt

CONSTANTS
  Lot, Place,        \* lots and facilities
  Nobody,            \* no facility
  MaxEvents,         \* bound: events of a dataset
  MaxTime,           \* bound: texts of occurred_at, each for its place in text order
  Moment,            \* datetime.fromisoformat of a text; its offset may be any
  MaxUnits,          \* bound: the quantity of an event
  Borrowed           \* bound: the event identifiers a position may bear as well

Own == 0             \* the identifier of a position: one that no event has
Unfiled == -1        \* there is no such position

ASSUME DataAssumption ==
  /\ IsFiniteSet(Place) /\ {MaxTime, MaxUnits} \subseteq Nat
  /\ Moment \in [1 .. MaxTime -> Nat]
  /\ Borrowed \subseteq Nat \ {0}

VARIABLE data        \* dataset.json: events in storage order, and inventory_positions:
                     \* their units and their identifiers

\* quarantine and disposal are counted as sale and return are; shipping is
\* checked as transfer is.
EventTypes == {"receiving", "transfer", "sale", "return"}

Root == 0            \* parent_event_id of a root

\* The events that may be written next; at is the text of occurred_at.
NextEvents ==
  [id: {Len(data.events) + 1}, lot: Lot, type: EventTypes, parent: 0 .. Len(data.events),
   at: 1 .. MaxTime, from: Place \cup {Nobody}, to: Place \cup {Nobody},
   quantity: 0 .. MaxUnits]

DataInit ==
  data = [events |-> <<>>, on_hand |-> [l \in Lot |-> [p \in Place |-> 0]],
          filed |-> [l \in Lot |-> [p \in Place |-> Unfiled]]]

\* The events of es that are in S, in the order of es.
Among(es, S) == FlattenSeq([i \in DOMAIN es |-> IF es[i] \in S THEN <<es[i]>> ELSE <<>>])

\* S along a strict order of its members, a set of pairs.
InOrder(S, order) ==
  [n \in 1 .. Cardinality(S) |->
     CHOOSE x \in S : Cardinality({y \in S : <<y, x>> \in order}) = n - 1]

EventsOf(l) == Among(data.events, {e \in ToSet(data.events) : e.lot = l})
ById(i) == CHOOSE e \in ToSet(data.events) : e.id = i

Total(es, type) ==
  SumFunction([i \in DOMAIN es |-> IF es[i].type = type THEN es[i].quantity ELSE 0])

Stock(l) == SumFunction(data.on_hand[l])
Positions(l) == {p \in Place : data.filed[l][p] # Unfiled}

Either(x, y) == IF x # Nobody THEN x ELSE y
PlacesOf(es) == UNION {{e.from, e.to} : e \in ToSet(es)} \ {Nobody}

-----------------------------------------------------------------------------
(* validate_manifest.                                                       *)

\* Faulty: an event may be filed anywhere.
FaultyFollows(e, parent) ==
  /\ parent.lot = e.lot
  /\ e.quantity <= parent.quantity
  /\ Moment[e.at] > Moment[parent.at]

\* An event continues its parent: same lot, no more units, the same place,
\* strictly later.
Follows(e, parent) ==
  /\ parent.lot = e.lot
  /\ e.quantity <= parent.quantity
  /\ Either(e.from, e.to) = Either(parent.to, parent.from)
  /\ Moment[e.at] > Moment[parent.at]

AcceptsEvent(e) ==
  /\ e.type = "transfer" => e.quantity > 0
  /\ IF e.parent = Root
     THEN e.type = "receiving" /\ e.to # Nobody
     ELSE /\ \E p \in ToSet(data.events) : p.id = e.parent
          /\ Follows(e, ById(e.parent))

\* The place is in the lineage, and the identifier is that of no other position:
\* that it is not an event's is not asked.
AcceptsPosition(l, p, name) ==
  /\ p \in PlacesOf(EventsOf(l))
  /\ name = Own \/ \A m \in Lot, o \in Place : data.filed[m][o] # name

\* The quantity equation with the three aggregates of a lot leaves one value
\* for its unaccounted units.
UnaccountedFor(l) ==
  LET es == EventsOf(l)
  IN  Total(es, "receiving") - Stock(l) - Total(es, "sale") - Total(es, "return")

\* The dataset may be installed.
Loads == \A l \in Lot : UnaccountedFor(l) >= 0

-----------------------------------------------------------------------------
(* The dataset as it is written.                                            *)

\* Any position: storage order is not checked.  Identifiers are given in the
\* order of time, roots come from no facility, and the inventory is counted
\* last.
AddEvent(e, position) ==
  /\ Len(data.events) < MaxEvents
  /\ \A l \in Lot : Positions(l) = {}
  /\ e.parent = Root => e.from = Nobody
  /\ \A d \in ToSet(data.events) : Moment[d.at] <= Moment[e.at]
  /\ e.id = Len(data.events) + 1
  /\ AcceptsEvent(e)
  /\ data' = [data EXCEPT !.events = InsertAt(@, position, e)]

\* With or without units.
AddPosition(l, p, name, units) ==
  /\ data.filed[l][p] = Unfiled
  /\ AcceptsPosition(l, p, name)
  /\ Stock(l) + units <= MaxUnits
  /\ data' = [data EXCEPT !.on_hand[l][p] = units, !.filed[l][p] = name]

DataNext ==
  \/ \E e \in NextEvents, position \in 1 .. Len(data.events) + 1 : AddEvent(e, position)
  \/ \E l \in Lot, p \in Place, name \in {Own} \cup Borrowed, units \in 0 .. MaxUnits :
       AddPosition(l, p, name, units)

DataSpec == DataInit /\ [][DataNext]_data

-----------------------------------------------------------------------------
(* The service.                                                             *)

Children(es, id) == Among(es, {e \in ToSet(es) : e.parent = id})

\* What follows from an event or, under Root, from none: each child and then
\* what follows from it.
Walk(es) ==
  LET walk[id \in {Root} \cup {e.id : e \in ToSet(es)}] ==
        LET children == Children(es, id)
        IN  FlattenSeq([k \in DOMAIN children |-> <<children[k]>> \o walk[children[k].id]])
  IN  walk

Depth(es) ==
  LET depth[e \in ToSet(es)] ==
        IF e.parent = Root THEN 0
        ELSE depth[CHOOSE p \in ToSet(es) : p.id = e.parent] + 1
  IN  depth

WalkFromRoots(es) == Walk(es)[Root]

trace_forward(l) == WalkFromRoots(EventsOf(l))

\* Faulty: the newest events first, whatever they follow.
FaultyTraceBackward(l) ==
  LET es == ToSet(EventsOf(l))
      newer(d, e) == d.at > e.at \/ (d.at = e.at /\ d.id < e.id)
  IN  InOrder(es, {p \in es \X es : newer(p[1], p[2])})

\* Sorted by depth, then by the text of the time; Python's sort keeps storage
\* order else.
trace_backward(l) ==
  LET es == EventsOf(l)
      deep == Depth(es)
      depth(i) == deep[es[i]]
      before(i, j) ==
        \/ depth(i) > depth(j)
        \/ depth(i) = depth(j) /\ es[i].at < es[j].at
        \/ depth(i) = depth(j) /\ es[i].at = es[j].at /\ i < j
      order == InOrder(DOMAIN es, {p \in (DOMAIN es) \X (DOMAIN es) : before(p[1], p[2])})
  IN  [n \in DOMAIN order |-> es[order[n]]]

Components == {"received", "on_hand", "sold", "returned"}

Quantities(es, l) ==
  [received |-> Total(es, "receiving"), on_hand |-> Stock(l),
   sold |-> Total(es, "sale"), returned |-> Total(es, "return")]

\* component_evidence; the inventory positions of a lot are its facilities.
Evidence(es, l) ==
  LET of(type) == {e.id : e \in {e \in ToSet(es) : e.type = type}}
  IN  [received |-> of("receiving"), sold |-> of("sale"), returned |-> of("return"),
       on_hand |-> Positions(l)]

reconcile_units(l) ==
  LET es == trace_forward(l)
      units == Quantities(es, l)
  IN  [quantities |-> units, evidence |-> Evidence(es, l),
       unaccounted |-> units.received - units.on_hand - units.sold - units.returned]

\* Reconciliation's validator: the residual exists, and each quantity and the
\* residual rest on evidence.
Balanced(r) ==
  /\ r.unaccounted >= 0
  /\ \A c \in Components : r.quantities[c] > 0 => r.evidence[c] # {}

HasEvidence(r) == \E c \in Components : r.evidence[c] # {}

\* match_lots, from the number of digits the lot's UPC differs in, its plant
\* code and whether its date is inside the window.
Score(distance) == IF distance = 0 THEN 10 ELSE IF distance = 1 THEN 8 ELSE 0

match_lot(distance, plant, inside) ==
  IF ~inside \/ Score(distance) = 0 THEN "rejected"
  ELSE IF plant = "uncertain" THEN "ambiguous"
  ELSE IF plant = "listed" /\ Score(distance) = 10 THEN "exact"
  ELSE IF plant = "listed" THEN "probable"
  ELSE "rejected"

-----------------------------------------------------------------------------
(* The specialists.                                                         *)

\* _derive_lot_classification, on the product's own classification.
derive_lot_classification(distance, plant, inside) ==
  LET product == IF distance = 0 THEN "exact" ELSE IF distance = 1 THEN "probable" ELSE "rejected"
  IN  IF ~inside \/ product = "rejected" THEN "rejected"
      ELSE IF plant = "uncertain" THEN "ambiguous"
      ELSE IF plant = "listed" THEN product
      ELSE "rejected"

\* assess_product_lots accepts the service's labels.
AssessesMatching ==
  \A distance \in 0 .. 2, plant \in {"listed", "uncertain", "other"}, inside \in BOOLEAN :
    match_lot(distance, plant, inside) = derive_lot_classification(distance, plant, inside)

\* The lineage checks of assess_traceability on the events it was given.
SoundLineage(es, l) ==
  LET given == ToSet(es)
      parent(e) == CHOOSE p \in given : p.id = e.parent
  IN
  /\ Cardinality(given) = Len(es) /\ Cardinality({e.id : e \in given}) = Len(es)
  /\ \A e \in given :
       /\ e.lot = l
       /\ IF e.parent = Root THEN e.type = "receiving" /\ e.to # Nobody
          ELSE /\ e.parent \in {p.id : p \in given}
               /\ parent(e).lot = e.lot
               /\ Either(parent(e).to, parent(e).from) = Either(e.from, e.to)

\* expected_reconciliation, and its comparison with the one supplied.
SameReconciliation(es, l, r) ==
  /\ r.quantities = Quantities(es, l)
  /\ r.evidence = Evidence(es, l)

\* The identifiers of the events and positions it was given are all different.
DistinctIdentifiers(lots) ==
  LET events    == UNION {ToSet(trace_forward(l)) : l \in lots}
      positions == {x \in lots \X Place : x[2] \in Positions(x[1])}
      name(x)   == data.filed[x[1]][x[2]]
  IN  /\ \A d, e \in events : d.id = e.id => d = e
      /\ \A x, y \in positions : name(x) = name(y) => name(x) = Own \/ x = y
      /\ \A x \in positions, e \in events : name(x) # e.id

\* It does not raise, on the service's answers about these lots.
assess_traceability(lots) ==
  /\ DistinctIdentifiers(lots)
  /\ \A l \in lots :
       LET es == trace_forward(l)
       IN  SoundLineage(es, l) /\ SameReconciliation(es, l, reconcile_units(l))

\* Siblings, and events of one depth, by time and identifier.
Earlier(d, e) ==
  \/ Moment[d.at] < Moment[e.at]
  \/ Moment[d.at] = Moment[e.at] /\ d.id < e.id

Chronicle(S) == InOrder(S, {p \in S \X S : Earlier(p[1], p[2])})

assessed_forward(es) == WalkFromRoots(Chronicle(ToSet(es)))

assessed_backward(es) ==
  LET S == ToSet(es)
      deep == Depth(es)
      deeper(d, e) ==
        \/ deep[d] > deep[e]
        \/ deep[d] = deep[e] /\ Earlier(d, e)
  IN  InOrder(S, {p \in S \X S : deeper(p[1], p[2])})

\* draft_containment: holds for the confirmed lots, tasks for the places of
\* all traced lots.  It refuses a lot without a reconciled trace.
MayDraft(lots) == \A l \in lots : HasEvidence(reconcile_units(l))

FacilitiesToAsk(lots) ==
  UNION {PlacesOf(trace_forward(l)) \cup Positions(l) : l \in lots}

-----------------------------------------------------------------------------
(* What the loader's word is worth.                                         *)

HasEvents(l) == EventsOf(l) # <<>>

\* What the loader does not ask: no position of the lots bears the identifier
\* of an event of theirs.
PositionsApart(lots) ==
  \A k, l \in lots : \A p \in Positions(k), e \in ToSet(EventsOf(l)) : data.filed[k][p] # e.id

(* Of what the specialists check again, only one thing can still fail an    *)
(* investigation of a dataset the loader accepts, a position that bears the *)
(* identifier of an event: but for that, the answers of the service about   *)
(* any lots with events pass every check, lead to the facilities of the     *)
(* lineage, and account for the units each lot's row says are missing.  A   *)
(* lot without events loads, and has no reconciliation.                     *)
LoadedDataIsAssessable ==
  Loads =>
    /\ AssessesMatching
    /\ \A lots \in SUBSET {l \in Lot : HasEvents(l)} :
         /\ assess_traceability(lots) <=> PositionsApart(lots)
         /\ MayDraft(lots)
         /\ FacilitiesToAsk(lots) = UNION {PlacesOf(EventsOf(l)) : l \in lots}
    /\ \A l \in Lot : HasEvents(l) =>
         LET r == reconcile_units(l)
         IN  /\ ToSet(trace_forward(l)) = ToSet(EventsOf(l))
             /\ Balanced(r) /\ r.unaccounted = UnaccountedFor(l)

\* What the loader does not ask either, and the generated dataset is: the
\* events of a lot are stored by time and identifier,
StoredInOrder(l) ==
  \A i, j \in DOMAIN EventsOf(l) : i < j => Earlier(EventsOf(l)[i], EventsOf(l)[j])

\* and times are written so that the text of an earlier one comes first, as
\* with one offset throughout; it matters between events of one depth.
WrittenInOrder(l) ==
  LET es   == EventsOf(l)
      deep == Depth(es)
  IN  \A d, e \in ToSet(es) : deep[d] = deep[e] /\ Earlier(d, e) => d.at <= e.at

(* The two orders a live run is verified against are the service's own:     *)
(* verification raises "source trace order mismatch" otherwise.  On a       *)
(* dataset stored in order the forward orders agree, and the backward ones  *)
(* exactly where the texts of the times have the order of the times, for    *)
(* the service sorts texts.  In any case a parent precedes its children     *)
(* forward and follows them backward.                                       *)
TracesAgree ==
  \A l \in Lot :
    LET precedes(es, d, e) == \E i, j \in DOMAIN es : i < j /\ es[i] = d /\ es[j] = e IN
    /\ StoredInOrder(l) =>
         /\ trace_forward(l) = assessed_forward(EventsOf(l))
         /\ trace_backward(l) = assessed_backward(EventsOf(l)) <=> WrittenInOrder(l)
    /\ \A e \in ToSet(EventsOf(l)) : e.parent # Root =>
         /\ precedes(trace_forward(l), ById(e.parent), e)
         /\ precedes(trace_backward(l), e, ById(e.parent))
=============================================================================
