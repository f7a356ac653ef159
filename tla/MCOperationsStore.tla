------------------------- MODULE MCOperationsStore -------------------------
(* A small instance of OperationsStore for TLC.                             *)
EXTENDS OperationsStore, FiniteSets, TLC

CONSTANTS c1, c2, t1, t2, x1, x2

MCWrite(c, t, a, v) == [case |-> c, thread |-> t, action |-> a, expected |-> v]

\* Case c1 can be created and closed; c2 is created by an older release.
MCWrites ==
  {MCWrite(c1, t1, "create_case", 0), MCWrite(c1, t1, "close_case", 1),
   MCWrite(c2, t2, "create_case", 0)}

MCLegacyReceipts ==
  {[key |-> x2, write |-> MCWrite(c2, t2, "create_case", 0), legacy |-> TRUE]}

\* Owners, tokens and digests are only ever compared.
Symmetry == Permutations(Owners) \cup Permutations(Tokens) \cup Permutations(Requests)

\* Bounds: one attempt at a time over both cases, at most two grants, and
\* thread t2 left to its case.
OneAtATime ==
  /\ Cardinality({c \in Cases : attempt[c] # None}) <= 1
  /\ Cardinality(grants) <= 2
  /\ \A c \in Cases : thread[c] = t2 => c = c2
=============================================================================
