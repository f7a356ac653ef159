----------------------------- MODULE MCCaseDesk -----------------------------
(* A small instance of CaseDesk and of Evaluation for TLC.                  *)
EXTENDS Evaluation, TLC

CONSTANTS a, b, q, f, g

\* Lots a and b, each with a residual, and q that only looks like the recall's.
FirstRelease ==
  [class |-> (a :> "exact" @@ b :> "probable" @@ q :> "ambiguous"),
   unaccounted |-> (a :> 1 @@ b :> 2 @@ q :> 1),
   facilities |-> (a :> {f} @@ b :> {f, g} @@ q :> {g})]

\* One more unit of a is missing, and q is cleared up.
SecondRelease ==
  [FirstRelease EXCEPT !.unaccounted = (a :> 2 @@ b :> 2 @@ q :> 0),
                       !.class = (a :> "exact" @@ b :> "probable" @@ q :> "exact")]

MCDatasets == <<FirstRelease, SecondRelease>>
MCLotOrder == <<a, b, q>>
MCFacilityOrder == <<f, g>>
=============================================================================
