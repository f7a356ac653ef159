---------------------------- MODULE MCCaseLedger ----------------------------
(* Small instances of CaseLedger and of Traceability for TLC: a behaviour   *)
(* either works on the case, under the three releases below, or writes a    *)
(* dataset event by event.                                                  *)
EXTENDS CaseLedger, Traceability, TLC

CONSTANTS a, b, q, f, g

\* Lots a and b, each with a residual, and q that only looks like the recall's.
First ==
  [class |-> (a :> "exact" @@ b :> "probable" @@ q :> "ambiguous"),
   unaccounted |-> (a :> 1 @@ b :> 2 @@ q :> 1),
   facilities |-> (a :> {f} @@ b :> {f, g} @@ q :> {g})]

\* A correction: a unit of b found, one more of a missing, q cleared up.
Second ==
  [First EXCEPT !.unaccounted = (a :> 2 @@ b :> 1 @@ q :> 1),
                !.class = (a :> "exact" @@ b :> "probable" @@ q :> "exact")]

\* And one that takes the missing unit of a back.
Third == [Second EXCEPT !.unaccounted = (a :> 1 @@ b :> 1 @@ q :> 1)]

MCDatasets == <<First, Second, Third>>

MCInit == Init /\ DataInit

\* Bound: the inventory is counted where the events are stored as they came, one
\* at each moment; elsewhere it would be the same.
InventoryInOrder ==
  data'.filed # data.filed =>
    \A i \in DOMAIN data.events : data.events[i].id = i /\ Moment[data.events[i].at] = i

MCNext ==
  \/ data.events = <<>> /\ Next /\ UNCHANGED data
  \/ state = None /\ release = 1 /\ DataNext /\ InventoryInOrder /\ UNCHANGED ledgerVars

MCSpec == MCInit /\ [][MCNext]_<<ledgerVars, data>>

\* Three texts of which the second, with another offset, is the last moment.
MCMoment == <<1, 3, 2>>

Symmetry == Permutations(Place)
=============================================================================
