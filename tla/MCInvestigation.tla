---------------------------- MODULE MCInvestigation ----------------------------
(* Two lots, one with an uncertain plant code; two releases that differ in  *)
(* the trace of the second lot; three documents of two sources.             *)
EXTENDS Investigation, TLC

CONSTANTS d1, d2, d3, official, synthetic, n1, l1, l2

MCSourceOf == d1 :> official @@ d2 :> official @@ d3 :> synthetic
MCCovers == d1 :> {} @@ d2 :> {n1} @@ d3 :> {n1}
MCRoutes == {<<>>, <<official>>, <<official, synthetic>>}
B(hops, queries, reads) == [hops |-> hops, queries |-> queries, reads |-> reads]
MCBudgets == {B(2, 4, 8), B(2, 3, 8), B(1, 4, 4), B(2, 4, 1)}

MCRecall == 1 :> 1 @@ 2 :> 1
MCMatched == 1 :> (1 :> {l1, l2} @@ WRONG :> {}) @@ 2 :> (1 :> {l1, l2} @@ WRONG :> {l2})
MCTrace == 1 :> (l1 :> 1 @@ l2 :> 0) @@ 2 :> (l1 :> 1 @@ l2 :> 1)
================================================================================
