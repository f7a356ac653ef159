------------------------- MODULE InvestigationProofs -------------------------
(***************************************************************************)
(* Proofs about the investigation and the retrieval it starts with, for    *)
(* any lots, documents, routes, releases, budgets, interruptions and       *)
(* answers of the models: that an interrupted retrieval returns what an    *)
(* undisturbed one returns, when the deterministic specialists take over,  *)
(* that no review precedes the four roles, and that what is reviewed is    *)
(* bound to the source revision of the case.                               *)
(***************************************************************************)
EXTENDS Investigation, FiniteSetTheorems, SequenceTheorems, TLAPS

-----------------------------------------------------------------------------
(* The retrieval.  ResultIsUninterrupted speaks of its end only.  What is   *)
(* inductive is Reachable: each state a caller may hold or a resume may     *)
(* work on is one that an undisturbed run passes through, at the same       *)
(* cursor.                                                                  *)

ReadSoFar(q, n) == {<<q, route[i]>> : i \in 1 .. n}

First == Merged(AnswersTo("asked"), index)
Both == Merged(AnswersTo("asked") \cup AnswersTo("rewritten"), index)

\* A state of the first hop, before any judgement.
FirstHop(l) ==
    /\ ~l.rewritten
    /\ l.hop = (IF route = <<>> THEN 0 ELSE 1)
    /\ l.reads = l.cursor
    /\ l.answers = ReadSoFar("asked", l.cursor)
    /\ l.evidence = {} /\ l.gaps = {}

\* A state of the second hop: the first was judged, and the budget allows both.
SecondHop(l) ==
    /\ l.rewritten /\ rewritable
    /\ route # <<>> /\ l.hop = 2 /\ l.budgets.hops = 2
    /\ l.reads = Len(route) + l.cursor
    /\ l.answers = AnswersTo("asked") \cup ReadSoFar("rewritten", l.cursor)
    /\ l.gaps = Gaps(route, First) /\ l.gaps # {}
    /\ Fits(2 * Len(route), l.budgets)

Reachable(l) ==
    /\ l \in LoopStates
    /\ l.cursor <= Len(route)
    /\ Fits(l.reads, l.budgets)
    /\ FirstHop(l) \/ SecondHop(l)

RetrievalInv ==
    /\ route \in Seq(Source) /\ index \in Indexes /\ rewritable \in BOOLEAN
    /\ Reachable(saved)
    /\ loop = NONE \/ (Reachable(loop) /\ loop.budgets = saved.budgets /\ route # <<>>)

-----------------------------------------------------------------------------
(* The data.                                                               *)

(* What the critic finds missing is a gap of one of the three kinds, and   *)
(* the merged evidence consists of documents.                              *)
LEMMA GapsType ==
  ASSUME NEW r \in Seq(Source), NEW e \in SUBSET Doc
  PROVE  Gaps(r, e) \in SUBSET ({"source", "need", "contradiction"} \X (Source \cup Need \cup Doc))
<1>1. SourcesOf(r) \subseteq Source
  BY DEF SourcesOf
<1> QED BY <1>1 DEF Gaps

\* What the answers merge to is a set of documents.
LEMMA MergedType ==
  ASSUME index \in Indexes, NEW a \in SUBSET (Query \X Source)
  PROVE  Merged(a, index) \in SUBSET Doc
BY DEF Indexes, Merged

(* Reading the source under the cursor extends what has been read, and     *)
(* once the cursor is at the end, every source of the route has been read. *)
LEMMA ReadOneMore ==
  ASSUME route \in Seq(Source), NEW q, NEW n \in Nat, n < Len(route)
  PROVE  ReadSoFar(q, n) \cup {<<q, route[n + 1]>>} = ReadSoFar(q, n + 1)
<1>1. 1 .. (n + 1) = (1 .. n) \cup {n + 1}
  OBVIOUS
<1> QED BY <1>1 DEF ReadSoFar

\* A question read at every source of its route has all its answers.
LEMMA ReadAll ==
  ASSUME route \in Seq(Source), NEW q
  PROVE  ReadSoFar(q, Len(route)) = AnswersTo(q)
BY DEF ReadSoFar, AnswersTo, SourcesOf

\* The answers to a question are well-typed.
LEMMA AnswersType ==
  ASSUME route \in Seq(Source), NEW q \in Query
  PROVE  AnswersTo(q) \in SUBSET (Query \X Source)
BY DEF AnswersTo, SourcesOf

-----------------------------------------------------------------------------
(* The steps.                                                              *)

(* A read moves along the undisturbed run.                                 *)
LEMMA AfterReadReachable ==
  ASSUME RetrievalInv, NEW l, Reachable(l), l.cursor < Len(route), Fits(l.reads + 1, l.budgets)
  PROVE  Reachable(AfterRead(l)) /\ AfterRead(l).budgets = l.budgets
<1> DEFINE m == AfterRead(l)
<1>1. /\ l \in LoopStates /\ l.cursor \in Nat /\ l.reads \in Nat /\ l.budgets \in Budgets
      /\ route \in Seq(Source) /\ route[l.cursor + 1] \in Source
  BY DEF Reachable, LoopStates, RetrievalInv
<1>2. /\ m.hop = l.hop /\ m.cursor = l.cursor + 1 /\ m.rewritten = l.rewritten
      /\ m.reads = l.reads + 1 /\ m.evidence = l.evidence /\ m.gaps = l.gaps
      /\ m.budgets = l.budgets
      /\ m.answers = l.answers \cup {<<QueryOf(l), route[l.cursor + 1]>>}
  BY <1>1 DEF AfterRead, LoopStates
<1>3. m \in LoopStates
  <2>1. l.answers \cup {<<QueryOf(l), route[l.cursor + 1]>>} \in SUBSET (Query \X Source)
    BY <1>1 DEF LoopStates, QueryOf, Query
  <2>2. m = [[[l EXCEPT !.answers = @ \cup {<<QueryOf(l), route[l.cursor + 1]>>}]
                  EXCEPT !.cursor = @ + 1] EXCEPT !.reads = @ + 1]
    BY <1>1 DEF AfterRead, LoopStates
  <2>3. [l EXCEPT !.answers = @ \cup {<<QueryOf(l), route[l.cursor + 1]>>}] \in LoopStates
    BY <1>1, <2>1 DEF LoopStates
  <2>4. ASSUME NEW k \in LoopStates
        PROVE  [k EXCEPT !.cursor = @ + 1] \in LoopStates /\ [k EXCEPT !.reads = @ + 1] \in LoopStates
    BY DEF LoopStates
  <2> HIDE DEF m
  <2> QED BY <2>2, <2>3, <2>4
<1>4. CASE FirstHop(l)
  <2>1. m.answers = ReadSoFar("asked", m.cursor)
    BY <1>1, <1>2, <1>4, ReadOneMore DEF FirstHop, QueryOf
  <2> QED BY <1>1, <1>2, <1>3, <1>4, <2>1 DEF FirstHop, Reachable
<1>5. CASE SecondHop(l)
  <2>1. m.answers = AnswersTo("asked") \cup ReadSoFar("rewritten", m.cursor)
    BY <1>1, <1>2, <1>5, ReadOneMore DEF SecondHop, QueryOf
  <2>2. m.reads = Len(route) + m.cursor
    BY <1>1, <1>2, <1>5 DEF SecondHop
  <2>3. SecondHop(m)
    <3> HIDE DEF m
    <3> QED BY <1>2, <1>5, <2>1, <2>2 DEF SecondHop
  <2> QED BY <1>1, <1>2, <1>3, <2>3 DEF Reachable
<1> QED BY <1>2, <1>4, <1>5 DEF Reachable

(* Judging gives the loop its evidence and its gaps and leaves the rest.    *)
LEMMA JudgedState ==
  ASSUME route \in Seq(Source), index \in Indexes, NEW l \in LoopStates,
         NEW e \in SUBSET Doc
  PROVE  LET m == [l EXCEPT !.evidence = e, !.gaps = Gaps(route, e)]
         IN  /\ m \in LoopStates /\ m.evidence = e /\ m.gaps = Gaps(route, e)
             /\ m.hop = l.hop /\ m.cursor = l.cursor /\ m.rewritten = l.rewritten
             /\ m.reads = l.reads /\ m.answers = l.answers /\ m.budgets = l.budgets
<1> DEFINE m == [l EXCEPT !.evidence = e, !.gaps = Gaps(route, e)]
<1>1. m = [[l EXCEPT !.evidence = e] EXCEPT !.gaps = Gaps(route, e)]
  OBVIOUS
<1>2. [l EXCEPT !.evidence = e] \in LoopStates
  BY DEF LoopStates
<1>3. ASSUME NEW k \in LoopStates PROVE [k EXCEPT !.gaps = Gaps(route, e)] \in LoopStates
  BY GapsType DEF LoopStates
<1>4. m \in LoopStates
  <2> HIDE DEF m
  <2> QED BY <1>1, <1>2, <1>3
<1> QED BY <1>4 DEF LoopStates

(* The rewrite takes a fully read first hop to the start of the second.     *)
LEMMA RewriteReachable ==
  ASSUME route \in Seq(Source), NEW l \in LoopStates, ~l.rewritten, rewritable, route # <<>>,
         l.hop = 1, l.hop < l.budgets.hops, l.reads = Len(route),
         l.answers = AnswersTo("asked"), l.gaps = Gaps(route, First), l.gaps # {},
         Fits(l.reads, l.budgets), Fits(l.reads + Len(route), l.budgets)
  PROVE  Reachable(Rewrite(l)) /\ Rewrite(l).budgets = l.budgets
<1> DEFINE m == Rewrite(l)
<1>1. m = [[[l EXCEPT !.hop = @ + 1] EXCEPT !.cursor = 0] EXCEPT !.rewritten = TRUE]
  BY DEF Rewrite, LoopStates
<1>2. [l EXCEPT !.hop = @ + 1] \in LoopStates
  BY DEF LoopStates
<1>3. ASSUME NEW k \in LoopStates
      PROVE  [k EXCEPT !.cursor = 0] \in LoopStates /\ [k EXCEPT !.rewritten = TRUE] \in LoopStates
  BY DEF LoopStates
<1>4. m \in LoopStates
  <2> HIDE DEF m
  <2> QED BY <1>1, <1>2, <1>3
<1>5. /\ m.hop = 2 /\ m.cursor = 0 /\ m.rewritten /\ m.reads = l.reads
      /\ m.answers = l.answers /\ m.gaps = l.gaps /\ m.budgets = l.budgets
  BY DEF Rewrite, LoopStates
<1>6. ReadSoFar("rewritten", 0) = {}
  BY DEF ReadSoFar
<1>7. l.budgets.hops = 2
  BY RetrievalAssumption DEF RetrievalAssumption, LoopStates
<1>8. Len(route) \in Nat /\ Len(route) + Len(route) = 2 * Len(route) /\ Len(route) + 0 = Len(route)
  OBVIOUS
<1>9. SecondHop(m)
  <2> HIDE DEF m
  <2> QED BY <1>5, <1>6, <1>7, <1>8 DEF SecondHop
<1> QED
  <2> HIDE DEF m
  <2>1. Reachable(m)
    BY <1>4, <1>5, <1>8, <1>9 DEF Reachable
  <2> QED BY <2>1, <1>5 DEF m

(* A run that ends for want of budget has read as much as the budget        *)
(* allows, and has not judged anything yet.                                 *)
LEMMA OutOfBudgetResult ==
  ASSUME RetrievalInv, NEW l, Reachable(l), route # <<>>, l.cursor < Len(route),
         ~Fits(l.reads + 1, l.budgets)
  PROVE  Outcome(l, FALSE, IF l.gaps = {} THEN {<<"budget">>} ELSE l.gaps, "budget_exhausted")
            = Uninterrupted(l.budgets)
<1>1. /\ route \in Seq(Source) /\ l.cursor \in Nat /\ l.reads \in Nat /\ Len(route) \in Nat
      /\ l.budgets.queries \in Nat /\ l.budgets.reads \in Nat
  BY RetrievalAssumption DEF RetrievalAssumption, Reachable, LoopStates, RetrievalInv
<1>2. ~SecondHop(l)
  BY <1>1 DEF SecondHop, Fits
<1>3. FirstHop(l)
  BY <1>2 DEF Reachable
<1>4. Len(route) # 0
  BY <1>1
<1>5. l.reads = IF l.budgets.queries <= l.budgets.reads THEN l.budgets.queries ELSE l.budgets.reads
  BY <1>1 DEF Fits, Reachable
<1>6. l.reads < Len(route)
  BY <1>1, <1>3 DEF FirstHop
<1>7. Outcome(l, FALSE, {<<"budget">>}, "budget_exhausted")
        = [coverage |-> FALSE, gaps |-> {<<"budget">>}, reason |-> "budget_exhausted",
           evidence |-> {}, citations |-> {}, hop |-> 1, reads |-> l.reads, rewritten |-> FALSE]
  <2>1. l.rewritten = FALSE /\ l.hop = 1 /\ l.evidence = {} /\ {} \cap Cited = {}
    BY <1>3 DEF FirstHop, Reachable, LoopStates
  <2> QED BY <2>1 DEF Outcome
<1>8. Uninterrupted(l.budgets)
        = [coverage |-> FALSE, gaps |-> {<<"budget">>}, reason |-> "budget_exhausted",
           evidence |-> {}, citations |-> {}, hop |-> 1, reads |-> l.reads, rewritten |-> FALSE]
  <2>1. {} \cap Cited = {}
    OBVIOUS
  <2> QED BY <2>1, <1>4, <1>5, <1>6 DEF Uninterrupted
<1> QED BY <1>3, <1>7, <1>8 DEF FirstHop

(* A first hop that is read to its end has asked every source once.         *)
LEMMA FirstJudged ==
  ASSUME RetrievalInv, NEW l, Reachable(l), FirstHop(l), route # <<>>, l.cursor = Len(route)
  PROVE  /\ l.reads = Len(route) /\ l.hop = 1 /\ l.answers = AnswersTo("asked")
         /\ Merged(l.answers, index) = First /\ First \in SUBSET Doc
BY ReadAll, MergedType, AnswersType DEF RetrievalInv, FirstHop, First, Query

(* A second hop has twice as many reads, and the answers to both queries.   *)
LEMMA SecondJudged ==
  ASSUME RetrievalInv, NEW l, Reachable(l), SecondHop(l), l.cursor = Len(route)
  PROVE  /\ l.reads = 2 * Len(route) /\ l.hop = 2
         /\ Merged(l.answers, index) = Both /\ Both \in SUBSET Doc
<1>1. l.answers = AnswersTo("asked") \cup AnswersTo("rewritten")
  BY ReadAll DEF RetrievalInv, SecondHop
<1>2. l.reads = 2 * Len(route)
  BY DEF RetrievalInv, SecondHop
<1>3. AnswersTo("asked") \cup AnswersTo("rewritten") \in SUBSET (Query \X Source)
  BY AnswersType DEF Query, RetrievalInv
<1> QED BY <1>1, <1>2, <1>3, MergedType DEF SecondHop, Both, RetrievalInv

(* How a first hop ends when nothing is missing, when one hop is all there  *)
(* may be, when the budget does not allow a second, and when the question   *)
(* cannot be rewritten.                                                     *)
LEMMA FirstHopResult ==
  ASSUME RetrievalInv, NEW l, Reachable(l), FirstHop(l), route # <<>>, l.cursor = Len(route),
         NEW m, m.hop = l.hop, m.reads = l.reads, m.rewritten = l.rewritten,
         m.evidence = First
  PROVE  /\ Gaps(route, First) = {} =>
               Outcome(m, TRUE, {}, "coverage_satisfied") = Uninterrupted(l.budgets)
         /\ Gaps(route, First) # {} /\ l.hop >= l.budgets.hops =>
               Outcome(m, FALSE, Gaps(route, First), "evidence_gap_after_rewrite")
                  = Uninterrupted(l.budgets)
         /\ Gaps(route, First) # {} /\ l.hop < l.budgets.hops
              /\ ~Fits(l.reads + Len(route), l.budgets) =>
               Outcome(m, FALSE, Gaps(route, First), "budget_exhausted")
                  = Uninterrupted(l.budgets)
         /\ Gaps(route, First) # {} /\ l.hop < l.budgets.hops
              /\ Fits(l.reads + Len(route), l.budgets) /\ ~rewritable =>
               Outcome(m, FALSE, Gaps(route, First), "progress_stalled")
                  = Uninterrupted(l.budgets)
<1> DEFINE n == Len(route)
           b == l.budgets
           most == IF b.queries <= b.reads THEN b.queries ELSE b.reads
           Report(coverage, gaps, reason) ==
              [coverage |-> coverage, gaps |-> gaps, reason |-> reason, evidence |-> First,
               citations |-> First \cap Cited, hop |-> 1, reads |-> n, rewritten |-> FALSE]
<1>1. l.reads = n /\ l.hop = 1 /\ l.rewritten = FALSE
  BY FirstJudged DEF FirstHop, Reachable, LoopStates
<1>2. ASSUME NEW coverage, NEW gaps, NEW reason
      PROVE  Outcome(m, coverage, gaps, reason) = Report(coverage, gaps, reason)
  BY <1>1 DEF Outcome
<1>3. /\ n \in Nat /\ n # 0 /\ b.queries \in Nat /\ b.reads \in Nat /\ b.hops \in 1 .. 2
  BY RetrievalAssumption DEF RetrievalAssumption, Reachable, LoopStates, RetrievalInv
<1>4. ~(most < n)
  BY <1>1, <1>3 DEF Reachable, Fits
<1>5. (most < 2 * n) <=> ~Fits(l.reads + n, b)
  BY <1>1, <1>3 DEF Fits
<1>6. (b.hops = 1) <=> l.hop >= b.hops
  BY <1>1, <1>3
<1>7. ASSUME Gaps(route, First) = {}
      PROVE  Uninterrupted(b) = Report(TRUE, {}, "coverage_satisfied")
  BY <1>3, <1>4, <1>7 DEF Uninterrupted, First
<1>8. ASSUME Gaps(route, First) # {}, l.hop >= b.hops
      PROVE  Uninterrupted(b) = Report(FALSE, Gaps(route, First), "evidence_gap_after_rewrite")
  BY <1>3, <1>4, <1>6, <1>8 DEF Uninterrupted, First
<1>9. ASSUME Gaps(route, First) # {}, l.hop < b.hops, ~Fits(l.reads + n, b)
      PROVE  Uninterrupted(b) = Report(FALSE, Gaps(route, First), "budget_exhausted")
  BY <1>1, <1>3, <1>4, <1>5, <1>9 DEF Uninterrupted, First
<1>10. ASSUME Gaps(route, First) # {}, l.hop < b.hops, Fits(l.reads + n, b), ~rewritable
       PROVE  Uninterrupted(b) = Report(FALSE, Gaps(route, First), "progress_stalled")
  BY <1>1, <1>3, <1>4, <1>5, <1>10 DEF Uninterrupted, First
<1> HIDE DEF Report
<1> QED BY <1>2, <1>7, <1>8, <1>9, <1>10

(* A second hop ends the run, whether or not something is still missing.    *)
LEMMA SecondHopResult ==
  ASSUME RetrievalInv, NEW l, Reachable(l), SecondHop(l), l.cursor = Len(route),
         NEW m, m.hop = l.hop, m.reads = l.reads, m.rewritten = l.rewritten,
         m.evidence = Both
  PROVE  /\ Gaps(route, Both) = {} =>
               Outcome(m, TRUE, {}, "coverage_satisfied_after_rewrite") = Uninterrupted(l.budgets)
         /\ Gaps(route, Both) # {} =>
               Outcome(m, FALSE, Gaps(route, Both), "evidence_gap_after_rewrite")
                  = Uninterrupted(l.budgets)
<1> DEFINE n == Len(route)
           b == l.budgets
           most == IF b.queries <= b.reads THEN b.queries ELSE b.reads
           Report(coverage, gaps, reason) ==
              [coverage |-> coverage, gaps |-> gaps, reason |-> reason, evidence |-> Both,
               citations |-> Both \cap Cited, hop |-> 2, reads |-> 2 * n, rewritten |-> TRUE]
<1>1. l.reads = 2 * n /\ l.hop = 2 /\ l.rewritten = TRUE
  BY SecondJudged DEF SecondHop, Reachable, LoopStates
<1>2. ASSUME NEW coverage, NEW gaps, NEW reason
      PROVE  Outcome(m, coverage, gaps, reason) = Report(coverage, gaps, reason)
  BY <1>1 DEF Outcome
<1>3. /\ n \in Nat /\ n # 0 /\ b.queries \in Nat /\ b.reads \in Nat /\ b.hops = 2
  BY RetrievalAssumption DEF RetrievalAssumption, Reachable, LoopStates, RetrievalInv, SecondHop
<1>4. ~(most < n) /\ ~(most < 2 * n)
  BY <1>3 DEF SecondHop, Fits
<1>5. rewritable /\ Gaps(route, First) # {}
  BY DEF SecondHop
<1>6. ASSUME Gaps(route, Both) = {}
      PROVE  Uninterrupted(b) = Report(TRUE, {}, "coverage_satisfied_after_rewrite")
  BY <1>3, <1>4, <1>5, <1>6 DEF Uninterrupted, First, Both
<1>7. ASSUME Gaps(route, Both) # {}
      PROVE  Uninterrupted(b) = Report(FALSE, Gaps(route, Both), "evidence_gap_after_rewrite")
  <2>1. n # 0 /\ b.hops # 1
    BY <1>3
  <2> QED BY <2>1, <1>4, <1>5, <1>7, Zenon DEF Uninterrupted, First, Both
<1> HIDE DEF Report
<1> QED BY <1>2, <1>6, <1>7

-----------------------------------------------------------------------------
(* The invariant.                                                           *)

(* A fresh state is one the undisturbed run starts from.                    *)
LEMMA InitRetrievalInv == RetrievalInit => RetrievalInv
<1> SUFFICES ASSUME RetrievalInit PROVE RetrievalInv
  OBVIOUS
<1>1. /\ route \in Seq(Source) /\ index \in Indexes /\ rewritable \in BOOLEAN /\ loop = NONE
      /\ saved = NewLoop(route, retriever) /\ retriever \in Budgets
      /\ retriever.queries \in Nat /\ retriever.reads \in Nat
  BY RetrievalAssumption DEF RetrievalInit, RetrievalAssumption
<1>2. saved \in LoopStates
  BY <1>1 DEF NewLoop, LoopStates
<1>3. ReadSoFar("asked", 0) = {}
  BY DEF ReadSoFar
<1>4. FirstHop(saved)
  BY <1>1, <1>3 DEF FirstHop, NewLoop
<1>5. saved.cursor = 0 /\ saved.reads = 0 /\ saved.budgets = retriever
  BY <1>1 DEF NewLoop
<1>6. Reachable(saved)
  BY <1>1, <1>2, <1>4, <1>5 DEF Reachable, Fits
<1> QED BY <1>1, <1>6 DEF RetrievalInv

(* Reachable is about a state, the question and the index: what leaves      *)
(* these alone leaves it alone.                                             *)
LEMMA ReachableStays ==
  ASSUME UNCHANGED question
  PROVE  /\ Reachable(saved') => Reachable(saved)'
         /\ Reachable(loop') => Reachable(loop)'
<1>1. Reachable(saved') => Reachable(saved)'
  <2>1. FirstHop(saved') => FirstHop(saved)'
    BY DEF question, FirstHop, ReadSoFar
  <2>2. SecondHop(saved') => SecondHop(saved)'
    BY DEF question, SecondHop, ReadSoFar, First, AnswersTo, SourcesOf, Merged, Gaps, Fits
  <2> QED BY <2>1, <2>2 DEF question, Reachable, Fits
<1>2. Reachable(loop') => Reachable(loop)'
  <2>1. FirstHop(loop') => FirstHop(loop)'
    BY DEF question, FirstHop, ReadSoFar
  <2>2. SecondHop(loop') => SecondHop(loop)'
    BY DEF question, SecondHop, ReadSoFar, First, AnswersTo, SourcesOf, Merged, Gaps, Fits
  <2> QED BY <2>1, <2>2 DEF question, Reachable, Fits
<1> QED BY <1>1, <1>2

\* The question stays, and the budget a run was started with.
Onwards == UNCHANGED question /\ saved'.budgets = saved.budgets

(* Every step keeps the question, the budget of the run and the invariant.  *)
LEMMA NextRetrievalInv ==
  RetrievalInv /\ [RetrievalNext]_retrievalVars => RetrievalInv' /\ Onwards
<1> SUFFICES ASSUME RetrievalInv, [RetrievalNext]_retrievalVars
             PROVE  RetrievalInv' /\ Onwards
  OBVIOUS
<1>1. /\ route \in Seq(Source) /\ index \in Indexes /\ rewritable \in BOOLEAN
      /\ Reachable(saved)
      /\ loop = NONE \/ (Reachable(loop) /\ loop.budgets = saved.budgets /\ route # <<>>)
  BY DEF RetrievalInv
<1>0. ASSUME UNCHANGED question, Reachable(saved'), saved'.budgets = saved.budgets,
             loop' = NONE \/ (Reachable(loop') /\ loop'.budgets = saved.budgets /\ route # <<>>)
      PROVE  RetrievalInv' /\ Onwards
  BY <1>0, <1>1, ReachableStays DEF RetrievalInv, Onwards, question
<1>2. ASSUME UNCHANGED question, UNCHANGED saved,
             loop' = NONE \/ loop' = loop \/ (loop' = saved /\ route # <<>>)
      PROVE  RetrievalInv' /\ Onwards
  BY <1>0, <1>1, <1>2
<1>3. ASSUME NEW n \in Allowances, Resume(n) PROVE RetrievalInv' /\ Onwards
  <2>1. saved.hop # 0 => route # <<>>
    BY <1>1 DEF Reachable, FirstHop, SecondHop
  <2> QED BY <1>2, <1>3, <2>1 DEF Resume
<1>4. CASE ReadSource
  <2>1. /\ loop # NONE /\ Reachable(loop) /\ loop.budgets = saved.budgets /\ route # <<>>
        /\ loop.cursor < Len(route) /\ Fits(loop.reads + 1, loop.budgets) /\ UNCHANGED question
    BY <1>1, <1>4 DEF ReadSource
  <2>2. Reachable(AfterRead(loop)) /\ AfterRead(loop).budgets = saved.budgets
    BY <2>1, AfterReadReachable
  <2>3. CASE saved' = AfterRead(loop) /\ loop' = NONE
    BY <1>0, <2>1, <2>2, <2>3
  <2>4. CASE loop' = AfterRead(loop) /\ UNCHANGED saved
    BY <1>0, <1>1, <2>1, <2>2, <2>4
  <2> QED BY <1>4, <2>3, <2>4 DEF ReadSource
<1>5. CASE SourceFails \/ RunOutOfBudget \/ (\E b \in Budgets : Rebuild(b)) \/ UNCHANGED retrievalVars
  BY <1>2, <1>5 DEF SourceFails, RunOutOfBudget, Finish, Rebuild, retrievalVars, question
<1>6. CASE Judge
  <2> DEFINE evidence == Merged(loop.answers, index)
             judged == [loop EXCEPT !.evidence = evidence, !.gaps = Gaps(route, evidence)]
  <2>1. CASE loop' = NONE /\ UNCHANGED <<question, saved>>
    BY <1>2, <2>1 DEF question
  <2>2. CASE /\ ~loop.rewritten /\ loop.hop < loop.budgets.hops /\ rewritable
             /\ Gaps(route, evidence) # {} /\ Fits(loop.reads + Len(route), loop.budgets)
             /\ loop' = Rewrite(judged) /\ UNCHANGED <<question, saved>>
    <3>1. /\ Reachable(loop) /\ loop.budgets = saved.budgets /\ route # <<>>
          /\ loop.cursor = Len(route) /\ loop \in LoopStates
      BY <1>1, <1>6 DEF Judge, Reachable
    <3>2. FirstHop(loop)
      BY <2>2, <3>1 DEF Reachable, SecondHop
    <3>3. /\ loop.reads = Len(route) /\ loop.hop = 1 /\ loop.answers = AnswersTo("asked")
          /\ evidence = First /\ First \in SUBSET Doc
      BY <3>1, <3>2, FirstJudged
    <3>4. /\ judged \in LoopStates /\ judged.gaps = Gaps(route, First)
          /\ judged.hop = loop.hop /\ judged.rewritten = loop.rewritten
          /\ judged.reads = loop.reads /\ judged.answers = loop.answers
          /\ judged.budgets = loop.budgets
      <4> DEFINE k == [loop EXCEPT !.evidence = First, !.gaps = Gaps(route, First)]
      <4>1. judged = k
        BY <3>3
      <4>2. /\ k \in LoopStates /\ k.gaps = Gaps(route, First)
            /\ k.hop = loop.hop /\ k.rewritten = loop.rewritten
            /\ k.reads = loop.reads /\ k.answers = loop.answers
            /\ k.budgets = loop.budgets
        BY <1>1, <3>1, <3>3, JudgedState
      <4> HIDE DEF judged, k
      <4> QED BY <4>1, <4>2
    <3>5. Reachable(Rewrite(judged)) /\ Rewrite(judged).budgets = judged.budgets
      <4> HIDE DEF judged
      <4>1. Fits(loop.reads, loop.budgets)
        BY <3>1 DEF Reachable
      <4> QED BY <1>1, <2>2, <3>1, <3>3, <3>4, <3>2, <4>1, RewriteReachable DEF FirstHop
    <3> HIDE DEF judged
    <3> QED BY <1>0, <1>1, <2>2, <3>1, <3>4, <3>5
  <2> QED BY <1>6, <2>1, <2>2 DEF Judge, Finish
<1> QED BY <1>3, <1>4, <1>5, <1>6 DEF RetrievalNext

(* The result a step produces is the result of the undisturbed run.         *)
LEMMA ResultOfStep ==
  ASSUME RetrievalInv, [RetrievalNext]_retrievalVars, result' # result
  PROVE  result' = Uninterrupted(saved.budgets)
<1>1. /\ route \in Seq(Source) /\ index \in Indexes /\ Reachable(saved)
      /\ loop = NONE \/ (Reachable(loop) /\ loop.budgets = saved.budgets /\ route # <<>>)
  BY DEF RetrievalInv
<1>2. ASSUME NEW n \in Allowances, Resume(n) PROVE result' = Uninterrupted(saved.budgets)
  <2>1. saved.hop = 0 /\ result' = Outcome(saved, FALSE, {<<"question">>}, "empty_query")
    BY <1>2 DEF Resume
  <2>2. route = <<>> /\ FirstHop(saved)
    BY <1>1, <2>1 DEF Reachable, FirstHop, SecondHop
  <2>3. /\ Len(route) = 0 /\ saved.cursor = 0 /\ saved.reads = 0 /\ saved.rewritten = FALSE
        /\ saved.evidence = {} /\ {} \cap Cited = {}
    BY <1>1, <2>2 DEF Reachable, LoopStates, FirstHop
  <2> QED BY <2>1, <2>3 DEF Outcome, Uninterrupted
<1>3. CASE RunOutOfBudget
  BY <1>1, <1>3, OutOfBudgetResult DEF RunOutOfBudget, Finish
<1>4. CASE Judge
  <2> DEFINE evidence == Merged(loop.answers, index)
             gaps == Gaps(route, evidence)
             judged == [loop EXCEPT !.evidence = evidence, !.gaps = gaps]
  <2>1. /\ Reachable(loop) /\ loop.budgets = saved.budgets /\ route # <<>>
        /\ loop.cursor = Len(route) /\ loop \in LoopStates
    BY <1>1, <1>4 DEF Judge, Reachable
  <2>2. CASE FirstHop(loop)
    <3>1. evidence = First /\ First \in SUBSET Doc /\ ~loop.rewritten
      BY <2>1, <2>2, FirstJudged DEF FirstHop
    <3>2. /\ judged.evidence = First /\ judged.hop = loop.hop /\ judged.reads = loop.reads
          /\ judged.rewritten = loop.rewritten
      BY <1>1, <2>1, <3>1, JudgedState
    <3>3. \/ gaps = {} /\ result' = Outcome(judged, TRUE, {}, "coverage_satisfied")
          \/ /\ gaps # {} /\ loop.hop >= loop.budgets.hops
             /\ result' = Outcome(judged, FALSE, gaps, "evidence_gap_after_rewrite")
          \/ /\ gaps # {} /\ loop.hop < loop.budgets.hops
             /\ ~Fits(loop.reads + Len(route), loop.budgets)
             /\ result' = Outcome(judged, FALSE, gaps, "budget_exhausted")
          \/ /\ gaps # {} /\ loop.hop < loop.budgets.hops
             /\ Fits(loop.reads + Len(route), loop.budgets) /\ ~rewritable
             /\ result' = Outcome(judged, FALSE, gaps, "progress_stalled")
      BY <1>4, <3>1 DEF Judge, Finish
    <3> HIDE DEF judged
    <3> QED BY <2>1, <2>2, <3>1, <3>2, <3>3, FirstHopResult
  <2>3. CASE SecondHop(loop)
    <3>1. evidence = Both /\ Both \in SUBSET Doc /\ loop.rewritten
      BY <2>1, <2>3, SecondJudged DEF SecondHop
    <3>2. /\ judged.evidence = Both /\ judged.hop = loop.hop /\ judged.reads = loop.reads
          /\ judged.rewritten = loop.rewritten
      BY <1>1, <2>1, <3>1, JudgedState
    <3>3. \/ gaps = {} /\ result' = Outcome(judged, TRUE, {}, "coverage_satisfied_after_rewrite")
          \/ gaps # {} /\ result' = Outcome(judged, FALSE, gaps, "evidence_gap_after_rewrite")
      BY <1>4, <3>1 DEF Judge, Finish
    <3> HIDE DEF judged
    <3> QED BY <2>1, <2>3, <3>1, <3>2, <3>3, SecondHopResult
  <2> QED BY <2>1, <2>2, <2>3 DEF Reachable
<1>5. CASE ReadSource \/ SourceFails \/ (\E b \in Budgets : Rebuild(b)) \/ UNCHANGED retrievalVars
  BY <1>5 DEF ReadSource, SourceFails, Rebuild, retrievalVars
<1> QED BY <1>2, <1>3, <1>4, <1>5 DEF RetrievalNext

(* Whatever reads were lost, wherever a run was interrupted, restarted or   *)
(* taken up by another retriever, and however often, its result is that of  *)
(* the undisturbed run on the same question, index and budget.              *)
THEOREM InterruptionsDoNotShow == RetrievalSpec => []ResultIsUninterrupted
<1>1. RetrievalInit => RetrievalInv /\ ResultIsUninterrupted
  <2>1. RetrievalInit => ResultIsUninterrupted
    BY DEF RetrievalInit, ResultIsUninterrupted
  <2> QED BY <2>1, InitRetrievalInv
<1>2. RetrievalInv /\ ResultIsUninterrupted /\ [RetrievalNext]_retrievalVars
        => (RetrievalInv /\ ResultIsUninterrupted)'
  <2> SUFFICES ASSUME RetrievalInv, ResultIsUninterrupted, [RetrievalNext]_retrievalVars
               PROVE  RetrievalInv' /\ ResultIsUninterrupted'
    OBVIOUS
  <2>1. RetrievalInv' /\ UNCHANGED question /\ saved'.budgets = saved.budgets
    BY NextRetrievalInv DEF Onwards
  <2>2. Uninterrupted(saved.budgets)' = Uninterrupted(saved.budgets)
    BY <2>1 DEF Uninterrupted, question, AnswersTo, SourcesOf, Gaps, Merged
  <2>3. result' = result => ResultIsUninterrupted'
    BY <2>2 DEF ResultIsUninterrupted
  <2>4. result' # result => ResultIsUninterrupted'
    BY <2>2, ResultOfStep DEF ResultIsUninterrupted
  <2> QED BY <2>1, <2>3, <2>4
<1> QED BY <1>1, <1>2, PTL DEF RetrievalSpec

-----------------------------------------------------------------------------
(* A live run succeeds only on evidence.  The invariant says of every       *)
(* moment of the run what the property says of its end: rows in flight and *)
(* rows seen are those of the revision of the process, which is that of    *)
(* the request, and the answers so far rest on them.                       *)

Claims == UNION {Answers(role) : role \in Roles}

Receipt(role, q) ==
    [role |-> role, read |-> q, rows |-> RowsOf(q, process), source |-> process]

\* Rows in flight come from the installed release; it is never an older one than
\* the process, so they are of the process if its files are still readable.
Held(p) ==
    /\ p = [read |-> p.read, rows |-> p.rows]
    /\ p.rows # <<>> /\ Readable => p.rows = RowsOf(p.read, process)

Grounded(role) == \A q \in Required(role) : Receipt(role, q) \in seen

LiveInv ==
    /\ disk \in Nat /\ process \in Nat /\ process <= disk
    /\ artifacts \in Seq(Claims)
    /\ child # 0 => child \in Roles /\ child = Len(artifacts) + 1
    /\ run \in {"running", "raising", "success"} => bound = process
    /\ run = "success" => Len(artifacts) = 4
    /\ \A p \in pending : Held(p)
    /\ \A o \in seen : o = Receipt(o.role, o.read)
    /\ \A role \in 1 .. Len(artifacts) : Grounded(role)

-----------------------------------------------------------------------------
(* There are four roles.                                                   *)
LEMMA FourRoles == Cardinality(Roles) = 4
<1>1. 1 \in Int /\ 4 \in Int /\ ~(1 > 4) /\ 4 - 1 + 1 = 4
  OBVIOUS
<1>2. Cardinality(1 .. 4) = IF 1 > 4 THEN 0 ELSE 4 - 1 + 1
  BY <1>1, FS_Interval
<1> QED BY <1>1, <1>2 DEF Roles

(* Where the releases, the artifacts and what was read stay, so does the   *)
(* evidence.                                                               *)
LEMMA SameEvidence ==
  ASSUME LiveInv, UNCHANGED <<disk, process, bound, artifacts, pending, seen>>,
         child' # 0 => child' \in Roles /\ child' = Len(artifacts) + 1,
         run' \in {"running", "raising", "success"} => bound = process,
         run' = "success" => Len(artifacts) = 4
  PROVE  LiveInv'
<1>1. \A p \in pending' : Held(p)'
  BY DEF LiveInv, Held, Readable
<1>2. \A o \in seen' : o = Receipt(o.role, o.read)'
  BY DEF LiveInv, Receipt
<1>3. \A role \in 1 .. Len(artifacts') : Grounded(role)'
  BY DEF LiveInv, Grounded, Receipt, Required
<1> QED BY <1>1, <1>2, <1>3 DEF LiveInv

(* A run that ends in failure keeps nothing, so it claims nothing.         *)
LEMMA EndRunInv ==
  ASSUME LiveInv, NEW f, EndRun(f) PROVE LiveInv'
<1>1. /\ artifacts' = <<>> /\ seen' = {} /\ pending' = {} /\ child' = 0
      /\ UNCHANGED <<disk, process>>
      /\ run' \notin {"running", "raising", "success"}
  BY DEF EndRun, installed, Classify
<1>2. <<>> \in Seq(Claims) /\ Len(<<>>) = 0 /\ 1 .. 0 = {}
  OBVIOUS
<1> QED BY <1>1, <1>2 DEF LiveInv

(* Rows in flight and rows seen may change as long as each of them is of   *)
(* the process's revision, and none that was seen is lost.                 *)
LEMMA MoreEvidence ==
  ASSUME LiveInv, UNCHANGED <<disk, process, bound, child, artifacts>>,
         run' = run \/ (run' = "raising" /\ run \in {"running", "raising"}),
         \A p \in pending' : Held(p),
         seen \subseteq seen', \A o \in seen' : o = Receipt(o.role, o.read)
  PROVE  LiveInv'
<1>1. \A p \in pending' : Held(p)'
  BY DEF Held, Readable
<1>2. \A o \in seen' : o = Receipt(o.role, o.read)'
  BY DEF Receipt
<1>3. \A role \in 1 .. Len(artifacts') : Grounded(role)'
  BY DEF LiveInv, Grounded, Receipt, Required
<1> QED BY <1>1, <1>2, <1>3 DEF LiveInv

-----------------------------------------------------------------------------
(* The steps of a run.                                                     *)

(* A read fetches the rows of the installed release; if that is the        *)
(* process's own when they are observed, it was when they were fetched.    *)
LEMMA FetchInv ==
  ASSUME LiveInv, NEW p \in pending, Fetch(p) PROVE LiveInv'
<1> DEFINE q == [p EXCEPT !.rows = RowsOf(p.read, disk)]
<1>1. p = [read |-> p.read, rows |-> p.rows]
  BY DEF LiveInv, Held
<1>2. q.read = p.read /\ q.rows = RowsOf(p.read, disk) /\ q = [read |-> q.read, rows |-> q.rows]
  BY <1>1
<1>3. Held(q)
  BY <1>2 DEF Held, Readable
<1>4. pending' = (pending \ {p}) \cup {q}
      /\ UNCHANGED <<disk, process, bound, child, artifacts>> /\ run' = run /\ seen' = seen
  BY DEF Fetch, installed
<1> HIDE DEF q
<1>5. \A r \in pending' : Held(r)
  BY <1>3, <1>4 DEF LiveInv
<1>6. seen \subseteq seen' /\ \A o \in seen' : o = Receipt(o.role, o.read)
  BY <1>4 DEF LiveInv
<1> QED BY <1>4, <1>5, <1>6, MoreEvidence

(* An observation is stamped with the revision its rows are of.            *)
LEMMA ObserveInv ==
  ASSUME LiveInv, NEW p \in pending, Observe(p) PROVE LiveInv'
<1>1. /\ pending' = pending \ {p} /\ p.rows # <<>>
      /\ run \in {"running", "raising"}
      /\ UNCHANGED <<disk, process, bound, child, artifacts>>
  BY DEF Observe, installed, InFlight
<1>2. \A r \in pending' : Held(r)
  BY <1>1 DEF LiveInv
<1>3. \A o \in seen : o = Receipt(o.role, o.read)
  BY DEF LiveInv
<1>4. CASE Stamped(p)
  <2> DEFINE o == [role |-> child, read |-> p.read, rows |-> p.rows, source |-> process]
  <2>1. p.rows = RowsOf(p.read, process)
    BY <1>1, <1>4 DEF Stamped, LiveInv, Held
  <2>2. o.role = child /\ o.read = p.read /\ o = Receipt(child, p.read)
    BY <2>1 DEF Receipt
  <2>3. seen' = seen \cup {o} /\ run' = run
    BY <1>4 DEF Observe
  <2> HIDE DEF o
  <2> QED BY <1>1, <1>2, <1>3, <2>2, <2>3, MoreEvidence
<1>5. CASE ~Stamped(p)
  <2>1. seen' = seen /\ run' = "raising"
    BY <1>5 DEF Observe
  <2> QED BY <1>1, <1>2, <1>3, <2>1, MoreEvidence
<1> QED BY <1>4, <1>5

(* A read that fails, or has no budget left, only leaves the flight.       *)
LEMMA ReadLostInv ==
  ASSUME LiveInv, NEW p \in pending,
         ReadOverBudget(p) \/ ReadFails(p, "semantic read") \/ ReadFails(p, "transport read")
  PROVE  LiveInv'
<1>1. /\ pending' = pending \ {p} /\ run \in {"running", "raising"} /\ run' = "raising"
      /\ UNCHANGED <<disk, process, bound, child, artifacts, seen>>
  BY DEF ReadOverBudget, ReadFails, StartRead, installed, InFlight
<1>2. (\A r \in pending' : Held(r)) /\ (\A o \in seen : o = Receipt(o.role, o.read))
  BY <1>1 DEF LiveInv
<1> QED BY <1>1, <1>2, MoreEvidence

(* A child starts reading without any rows.                                *)
LEMMA ChildReadsInv ==
  ASSUME LiveInv, NEW reads, ChildReads(reads) PROVE LiveInv'
<1>1. /\ pending' = {[read |-> r, rows |-> <<>>] : r \in reads}
      /\ UNCHANGED <<disk, process, bound, child, artifacts>> /\ run' = run /\ seen' = seen
  BY DEF ChildReads, installed
<1>2. \A p \in pending' : Held(p)
  BY <1>1 DEF Held
<1>3. seen \subseteq seen' /\ \A o \in seen' : o = Receipt(o.role, o.read)
  BY <1>1 DEF LiveInv
<1> QED BY <1>1, <1>2, <1>3, MoreEvidence

(* A child that is let go has read what its answer had to rest on, and the *)
(* answers before its own stay.                                            *)
LEMMA ChildAnswersInv ==
  ASSUME LiveInv, child # 0, NEW claim \in Answers(child), ChildAnswers(claim) PROVE LiveInv'
<1> DEFINE n == Len(artifacts)
<1>1. /\ artifacts' = Append(artifacts, claim) /\ child' = 0
      /\ run = "running" /\ run' = run /\ pending = {} /\ pending' = pending
      /\ Completes(child)
      /\ UNCHANGED <<disk, process, bound, seen>>
  BY DEF ChildAnswers, ModelAnswers, installed
<1>2. artifacts \in Seq(Claims) /\ child = n + 1 /\ child \in Roles /\ claim \in Claims /\ n \in Nat
  BY DEF LiveInv, Claims
<1>3. /\ artifacts' \in Seq(Claims) /\ Len(artifacts') = n + 1
      /\ \A i \in 1 .. n : artifacts'[i] = artifacts[i]
  BY <1>1, <1>2
<1>4. ASSUME NEW role \in 1 .. (n + 1), role \in Roles PROVE Required(role)' = Required(role)
  <2>1. n \in Nat
    BY <1>2
  <2> HIDE DEF n
  <2>2. role = 1 \/ role = 2 \/ role = 3 \/ role = 4
    BY <1>4 DEF Roles
  <2>3. role = 2 => 1 \in 1 .. n
    BY <2>1
  <2>4. role = 3 => 2 \in 1 .. n
    BY <2>1
  <2>5. (role = 2 => artifacts'[1] = artifacts[1]) /\ (role = 3 => artifacts'[2] = artifacts[2])
    BY <1>3, <2>3, <2>4
  <2> QED BY <2>2, <2>5 DEF Required
<1>5. \A role \in 1 .. n : Grounded(role)
  BY DEF LiveInv
<1>6. Grounded(child)
  <2> SUFFICES ASSUME NEW q \in Required(child) PROVE Receipt(child, q) \in seen
    BY DEF Grounded
  <2>1. PICK o \in seen : o.role = child /\ o.read = q
    BY <1>1 DEF Completes, OwnReads
  <2> QED BY <2>1 DEF LiveInv
<1>7. 1 .. (n + 1) \subseteq Roles
  BY <1>2 DEF Roles
<1>8. \A role \in 1 .. (n + 1) : Grounded(role)'
  <2> SUFFICES ASSUME NEW role \in 1 .. (n + 1) PROVE Grounded(role)'
    OBVIOUS
  <2>1. Grounded(role)
    BY <1>2, <1>5, <1>6
  <2> QED BY <2>1, <1>1, <1>4, <1>7 DEF Grounded, Receipt
<1>9. (\A p \in pending' : Held(p)') /\ (\A o \in seen' : o = Receipt(o.role, o.read)')
  BY <1>1 DEF LiveInv, Receipt
<1> QED BY <1>1, <1>3, <1>8, <1>9 DEF LiveInv

(* Every step of a run keeps the invariant.                                *)
LEMMA LiveStepInv == LiveInv /\ LiveStep => LiveInv'
<1> SUFFICES ASSUME LiveInv, LiveStep PROVE LiveInv'
  OBVIOUS
<1>0. artifacts \in Seq(Claims) /\ Len(artifacts) \in Nat
  BY DEF LiveInv
<1>1. CASE WritePlan \/ LookAround \/ ChildIsCorrected
  BY <1>1, SameEvidence DEF WritePlan, LookAround, ChildIsCorrected, installed, LiveInv
<1>2. CASE Delegate
  <2>1. /\ UNCHANGED <<disk, process, bound, artifacts, pending, seen, run>>
        /\ child' = Len(artifacts) + 1 /\ Len(artifacts) < 4
    BY <1>2, FourRoles DEF Delegate, installed
  <2>2. child' \in Roles
    BY <1>0, <2>1 DEF Roles
  <2> QED BY <2>1, <2>2, SameEvidence DEF LiveInv
<1>3. CASE Answer
  <2>1. /\ UNCHANGED <<disk, process, bound, artifacts, pending, seen, child>>
        /\ Len(artifacts) = 4 /\ run = "running"
    BY <1>3, FourRoles DEF Answer, ModelAnswers, installed
  <2> QED BY <2>1, SameEvidence DEF LiveInv
<1>4. CASE BreakContract \/ ProviderFails \/ RunOutOfTurns \/ Raise
  BY <1>4, EndRunInv DEF BreakContract, ProviderFails, RunOutOfTurns, Raise
<1>5. ASSUME NEW reads \in SUBSET Reads, ChildReads(reads) PROVE LiveInv'
  BY <1>5, ChildReadsInv
<1>6. ASSUME NEW p \in pending, Fetch(p) \/ Observe(p) \/ ReadOverBudget(p) PROVE LiveInv'
  BY <1>6, FetchInv, ObserveInv, ReadLostInv
<1>7. ASSUME NEW p \in pending, NEW kind \in {"semantic read", "transport read"}, ReadFails(p, kind)
      PROVE  LiveInv'
  BY <1>7, ReadLostInv
<1>8. ASSUME child # 0, NEW claim \in Answers(child), ChildAnswers(claim) PROVE LiveInv'
  BY <1>8, ChildAnswersInv
<1> QED BY <1>1, <1>2, <1>3, <1>4, <1>5, <1>6, <1>7, <1>8 DEF LiveStep

(* So does its beginning, and a release of new files at any moment: rows   *)
(* of a newer release are never those of a readable process.               *)
LEMMA BeginInv ==
  ASSUME LiveInv, NEW revision, Begin(revision), seen = {}, artifacts = <<>>, pending = {}
  PROVE  LiveInv'
<1>1. UNCHANGED <<disk, process, child, artifacts, pending, seen>>
      /\ ((run' = "running" /\ bound' = process) \/ run' = "semantic_failure")
  BY DEF Begin, installed
<1>2. <<>> \in Seq(Claims) /\ Len(<<>>) = 0 /\ 1 .. 0 = {}
  OBVIOUS
<1> QED BY <1>1, <1>2 DEF LiveInv

\* An upgrade of the checkout leaves what a running process has read alone.
LEMMA ReleaseInv == LiveInv /\ Release => LiveInv'
<1> SUFFICES ASSUME LiveInv, Release PROVE LiveInv'
  OBVIOUS
<1>1. disk' = disk + 1 /\ UNCHANGED <<process, bound, child, artifacts, pending, seen, run>>
  BY DEF Release
<1>2. \A p \in pending' : Held(p)'
  BY <1>1 DEF LiveInv, Held, Readable
<1>3. (\A o \in seen' : o = Receipt(o.role, o.read)')
      /\ (\A role \in 1 .. Len(artifacts') : Grounded(role)')
  BY <1>1 DEF LiveInv, Receipt, Grounded, Required
<1>4. disk' \in Nat /\ process' <= disk'
  BY <1>1 DEF LiveInv
<1> QED BY <1>1, <1>2, <1>3, <1>4 DEF LiveInv

-----------------------------------------------------------------------------
(* The end of a run.                                                       *)

(* The invariant implies the property: its three reading roles are         *)
(* grounded in receipts of the process's revision, which is the bound one. *)
LEMMA InvIsEnough == LiveInv => AnswersRestOnReads
<1> SUFFICES ASSUME LiveInv, run = "success", NEW role \in 1 .. 3
             PROVE  \A q \in CASE role = 1 -> {RecallRead}
                               [] role = 2 -> {MatchRead(artifacts[1])}
                               [] role = 3 -> TraceReads(artifacts[2]) :
                       [role |-> role, read |-> q, rows |-> RowsOf(q, bound), source |-> bound]
                          \in seen
  BY DEF AnswersRestOnReads
<1>1. Grounded(role) /\ bound = process
  <2>1. Len(artifacts) = 4 /\ bound = process
    BY DEF LiveInv
  <2>2. role \in 1 .. Len(artifacts)
    BY <2>1
  <2> QED BY <2>1, <2>2 DEF LiveInv
<1>2. role = 1 \/ role = 2 \/ role = 3
  OBVIOUS
<1> QED BY <1>1, <1>2 DEF Grounded, Receipt, Required

\* Before a run nothing has been answered or read.
Untouched == run = "idle" => seen = {} /\ artifacts = <<>> /\ pending = {}

\* A live run that has not begun holds nothing, whatever happens beside it.
LEMMA UntouchedStays == Untouched /\ (LiveStep \/ Release) => Untouched'
<1> SUFFICES ASSUME Untouched, LiveStep \/ Release, run' = "idle"
             PROVE  seen' = {} /\ artifacts' = <<>> /\ pending' = {}
  BY DEF Untouched
<1>1. CASE Release
  BY <1>1 DEF Release, Untouched
<1>2. CASE LiveStep
  BY <1>2 DEF LiveStep, WritePlan, Delegate, LookAround, Answer, BreakContract, ProviderFails,
              RunOutOfTurns, ChildReads, Fetch, Observe, ReadOverBudget, ReadFails, Raise,
              ChildAnswers, ChildIsCorrected, ModelAnswers, EndRun, Classify, InFlight, StartRead
<1> QED BY <1>1, <1>2

(* A live run succeeds only on the reads its answers call for, each made   *)
(* by the child that needed it and each with the rows of the revision the  *)
(* request is bound to, for any lots, releases, budgets and answers.       *)
THEOREM LiveAnswersRestOnReads == LiveSpec => []AnswersRestOnReads
<1>1. LiveInit => LiveInv /\ Untouched
  <2> SUFFICES ASSUME LiveInit PROVE LiveInv /\ Untouched
    OBVIOUS
  <2>1. disk \in Nat /\ process = disk
    BY LiveAssumption DEF LiveInit, LiveAssumption
  <2>2. <<>> \in Seq(Claims) /\ Len(<<>>) = 0 /\ 1 .. 0 = {}
    OBVIOUS
  <2> QED BY <2>1, <2>2 DEF LiveInit, LiveInv, Untouched
<1>2. LiveInv /\ Untouched /\ [LiveNext]_liveVars => (LiveInv /\ Untouched)'
  <2> SUFFICES ASSUME LiveInv, Untouched, [LiveNext]_liveVars PROVE LiveInv' /\ Untouched'
    OBVIOUS
  <2>1. CASE LiveStep \/ Release
    BY <2>1, LiveStepInv, ReleaseInv, UntouchedStays
  <2>2. ASSUME NEW revision \in Revisions, Begin(revision) PROVE LiveInv' /\ Untouched'
    <3>1. run = "idle" /\ run' # "idle"
      BY <2>2 DEF Begin
    <3> QED BY <2>2, <3>1, BeginInv DEF Untouched
  <2>3. CASE UNCHANGED liveVars
    <3>1. UNCHANGED <<disk, process, bound, artifacts, pending, seen, child, run>>
      BY <2>3 DEF liveVars, installed
    <3> QED BY <3>1, SameEvidence DEF Untouched, LiveInv
  <2> QED BY <2>1, <2>2, <2>3 DEF LiveNext
<1> QED BY <1>1, <1>2, InvIsEnough, PTL DEF LiveSpec

-----------------------------------------------------------------------------
(* The investigation around it.  The invariant follows the graph: it says   *)
(* of each node which lane it is in and how far the evidence has come when *)
(* it runs.                                                                *)


(* The order in which the specialists complete, one by one.                *)
LEMMA PlanOrder ==
  /\ Append(<<>>, 1) = <<1>> /\ Append(<<1>>, 2) = <<1, 2>>
  /\ Append(<<1, 2>>, 3) = <<1, 2, 3>> /\ Append(<<1, 2, 3>>, 4) = <<1, 2, 3, 4>>
<1>1. Append(<<>>, 1) = <<1>>
  OBVIOUS
<1>2. Append(<<1>>, 2) = <<1, 2>>
  <2>1. /\ Append(<<1>>, 2) \in Seq(Nat) /\ Len(Append(<<1>>, 2)) = 2
        /\ <<1, 2>> \in Seq(Nat) /\ Len(<<1, 2>>) = 2
        /\ \A i \in 1 .. 2 : Append(<<1>>, 2)[i] = <<1, 2>>[i]
    OBVIOUS
  <2> QED BY <2>1, SeqEqual
<1>3. Append(<<1, 2>>, 3) = <<1, 2, 3>>
  <2>1. /\ Append(<<1, 2>>, 3) \in Seq(Nat) /\ Len(Append(<<1, 2>>, 3)) = 3
        /\ <<1, 2, 3>> \in Seq(Nat) /\ Len(<<1, 2, 3>>) = 3
        /\ \A i \in 1 .. 3 : Append(<<1, 2>>, 3)[i] = <<1, 2, 3>>[i]
    OBVIOUS
  <2> QED BY <2>1, SeqEqual
<1>4. Append(<<1, 2, 3>>, 4) = <<1, 2, 3, 4>>
  <2>1. /\ Append(<<1, 2, 3>>, 4) \in Seq(Nat) /\ Len(Append(<<1, 2, 3>>, 4)) = 4
        /\ <<1, 2, 3, 4>> \in Seq(Nat) /\ Len(<<1, 2, 3, 4>>) = 4
        /\ \A i \in 1 .. 4 : Append(<<1, 2, 3>>, 4)[i] = <<1, 2, 3, 4>>[i]
    OBVIOUS
  <2> QED BY <2>1, SeqEqual
<1> QED BY <1>1, <1>2, <1>3, <1>4

-----------------------------------------------------------------------------
(* Sets of gathered rows.                                                  *)

HasIn(G, q) == \E g \in G : g[1] = q
RowsIn(G, q) == (CHOOSE g \in G : g[1] = q)[2]
MatchIn(G) == MatchRead(RowsIn(G, RecallRead)[1])
LotsIn(G) == RowsIn(G, MatchIn(G))[1]
FunctionalIn(G) == \A g, h \in G : g[1] = h[1] => g = h
OfRevision(G, r) == \A g \in G : g[2] = RowsOf(g[1], r)

Added(G, q, rows) == G \cup {<<q, rows>>}

MatchedIn(G) ==
    /\ HasIn(G, RecallRead) /\ HasIn(G, MatchIn(G))
    /\ LotsIn(G) \ Uncertain # {}
TracedIn(G) == \A l \in LotsIn(G) : HasIn(G, TraceRead(l))

\* How far the rows are when the specialists of o have completed.
Stage(o, G) ==
    \/ o = <<>> /\ G = {}
    \/ o = <<1>> /\ HasIn(G, RecallRead) /\ (\A g \in G : g[1] = RecallRead)
    \/ o = <<1, 2>> /\ MatchedIn(G)
    \/ o \in {<<1, 2, 3>>, <<1, 2, 3, 4>>} /\ MatchedIn(G) /\ TracedIn(G)

(* What the model calls gathered is what these operators say of it.        *)
LEMMA InModelTerms ==
  /\ \A q : HasGathered(q) <=> HasIn(gathered, q)
  /\ \A q : GatheredRows(q) = RowsIn(gathered, q)
  /\ Matching = MatchIn(gathered) /\ MatchedLots = LotsIn(gathered)
  /\ AllTraced <=> TracedIn(gathered)
BY DEF HasGathered, GatheredRows, Matching, MatchedLots, AllTraced, HasIn, RowsIn, MatchIn, LotsIn,
       TracedIn, Relevant

(* A read that was not gathered before can be added without a change to    *)
(* any other.                                                              *)
LEMMA AddRows ==
  ASSUME NEW G, NEW q, NEW rows, NEW H, H = Added(G, q, rows), FunctionalIn(G), ~HasIn(G, q)
  PROVE  /\ FunctionalIn(H)
         /\ HasIn(H, q) /\ RowsIn(H, q) = rows
         /\ \A p : HasIn(G, p) => HasIn(H, p) /\ RowsIn(H, p) = RowsIn(G, p)
<1>1. FunctionalIn(H)
  BY DEF FunctionalIn, HasIn, Added
<1>2. HasIn(H, q) /\ RowsIn(H, q) = rows
  <2>1. <<q, rows>> \in H /\ <<q, rows>>[1] = q /\ <<q, rows>>[2] = rows
    BY DEF Added
  <2>2. \A h \in H : h[1] = q => h = <<q, rows>>
    BY <1>1, <2>1 DEF FunctionalIn
  <2> QED BY <2>1, <2>2 DEF HasIn, RowsIn
<1>3. ASSUME NEW p, HasIn(G, p) PROVE HasIn(H, p) /\ RowsIn(H, p) = RowsIn(G, p)
  <2>1. PICK g \in G : g[1] = p
    BY <1>3 DEF HasIn
  <2>2. g \in H /\ (\A h \in H : h[1] = p => h = g) /\ (\A h \in G : h[1] = p => h = g)
    BY <1>1, <2>1 DEF FunctionalIn, Added
  <2> QED BY <2>1, <2>2 DEF HasIn, RowsIn
<1> QED BY <1>1, <1>2, <1>3

(* Adding a trace leaves recall, predicate and lots as they are.           *)
LEMMA AddTrace ==
  ASSUME NEW G, FunctionalIn(G), MatchedIn(G), NEW l, ~HasIn(G, TraceRead(l)), NEW rows, NEW H,
         H = Added(G, TraceRead(l), rows)
  PROVE  FunctionalIn(H) /\ MatchedIn(H)
<1> DEFINE q == TraceRead(l)
<1> HIDE DEF q
<1>0. /\ FunctionalIn(H)
      /\ \A p : HasIn(G, p) => HasIn(H, p) /\ RowsIn(H, p) = RowsIn(G, p)
  <2>1. ~HasIn(G, q) /\ H = Added(G, q, rows)
    BY DEF q
  <2> QED BY <2>1, AddRows
<1>1. RowsIn(H, RecallRead) = RowsIn(G, RecallRead) /\ HasIn(H, RecallRead)
  BY <1>0 DEF MatchedIn
<1>2. MatchIn(H) = MatchIn(G)
  BY <1>1 DEF MatchIn
<1>3. HasIn(H, MatchIn(H)) /\ LotsIn(H) = LotsIn(G)
  BY <1>0, <1>2 DEF MatchedIn, LotsIn
<1> QED BY <1>0, <1>1, <1>3 DEF MatchedIn

(* Adding the matches of the predicate that was gathered: the lots are     *)
(* those the read returned.                                                *)
LEMMA AddMatches ==
  ASSUME NEW G, FunctionalIn(G), HasIn(G, RecallRead), \A g \in G : g[1] = RecallRead,
         NEW rows, rows[1] \ Uncertain # {}, NEW H, H = Added(G, MatchIn(G), rows)
  PROVE  FunctionalIn(H) /\ MatchedIn(H)
<1>1. MatchIn(G) # RecallRead
  <2>1. MatchIn(G).tool = "match_lots" /\ RecallRead.tool = "get_recall"
    BY DEF MatchIn, MatchRead, RecallRead
  <2> QED BY <2>1
<1>2. ~HasIn(G, MatchIn(G))
  BY <1>1 DEF HasIn
<1>3. /\ FunctionalIn(H) /\ HasIn(H, RecallRead) /\ RowsIn(H, RecallRead) = RowsIn(G, RecallRead)
      /\ HasIn(H, MatchIn(G)) /\ RowsIn(H, MatchIn(G)) = rows
  <2> DEFINE q == MatchIn(G)
  <2> HIDE DEF q
  <2>1. ~HasIn(G, q) /\ H = Added(G, q, rows)
    BY <1>2 DEF q
  <2>2. /\ FunctionalIn(H) /\ HasIn(H, q) /\ RowsIn(H, q) = rows
        /\ \A p : HasIn(G, p) => HasIn(H, p) /\ RowsIn(H, p) = RowsIn(G, p)
    BY <2>1, AddRows
  <2> QED BY <2>2 DEF q
<1>4. MatchIn(H) = MatchIn(G)
  BY <1>3 DEF MatchIn
<1> QED BY <1>3, <1>4 DEF MatchedIn, LotsIn

(* From rows of one revision the specialists conclude what that revision   *)
(* says, role by role.                                                     *)
LEMMA ConclusionsOf ==
  ASSUME NEW r, OfRevision(gathered, r), MatchedIn(gathered), TracedIn(gathered),
         NEW role \in Roles
  PROVE  Concluded(role) = Conclusion(role, r)
<1>1. ASSUME NEW q, HasIn(gathered, q) PROVE RowsIn(gathered, q) = RowsOf(q, r)
  BY <1>1 DEF HasIn, RowsIn, OfRevision
<1>2. RowsIn(gathered, RecallRead) = <<Recall[r]>>
  <2>1. RowsOf(RecallRead, r) = <<Recall[r]>>
    BY DEF RowsOf, RecallRead
  <2> QED BY <1>1, <2>1 DEF MatchedIn
<1>3. MatchIn(gathered) = MatchRead(Recall[r])
  BY <1>2 DEF MatchIn
<1>4. LotsIn(gathered) = Matched[r][Recall[r]]
  <2>1. RowsOf(MatchRead(Recall[r]), r) = <<Matched[r][Recall[r]]>>
    BY DEF RowsOf, MatchRead
  <2> QED BY <1>1, <1>3, <2>1 DEF MatchedIn, LotsIn
<1>5. \A l \in LotsIn(gathered) : RowsIn(gathered, TraceRead(l))[1] = Trace[r][l]
  <2> SUFFICES ASSUME NEW l \in LotsIn(gathered)
               PROVE  RowsIn(gathered, TraceRead(l))[1] = Trace[r][l]
    OBVIOUS
  <2>1. RowsOf(TraceRead(l), r) = <<Trace[r][l]>>
    BY DEF RowsOf, TraceRead
  <2> QED BY <1>1, <2>1 DEF TracedIn
<1>6. GatheredRows(RecallRead)[1] = Recall[r] /\ MatchedLots = Matched[r][Recall[r]]
  BY <1>2, <1>4, InModelTerms
<1>7. Traces = [l \in Matched[r][Recall[r]] |-> Trace[r][l]]
  BY <1>4, <1>5, InModelTerms DEF Traces, Relevant
<1>8. role = 1 \/ role = 2 \/ role = 3 \/ role = 4
  BY DEF Roles
<1> QED BY <1>6, <1>7, <1>8 DEF Concluded, Conclusion

-----------------------------------------------------------------------------
(* The invariant of the graph.                                             *)

Early == {"intake", "retrieve_context", "prepare_live_investigation", "live_investigate"}
LaneNodes == {"plan", "dispatch_specialist", "regulatory_intake", "product_lot_match",
              "trace_forward_backward", "containment_draft"}
ReviewNodes == {"prepare_action_review", "action_review"}

Who ==
    /\ caller \in {"graph", "benchmark"} /\ mode \in {"openai", "deterministic"}
    /\ caller = "benchmark" => node = "retrieve_context"
    /\ caller = "graph" /\ node \notin {"intake", "raised"} => digest = process
    /\ Reviewed => node = "action_review"

WhichLane ==
    /\ node \in Early => source # "deterministic_fallback"
    /\ node = "retrieve_context" /\ caller = "graph" => source = mode
    /\ node \in {"prepare_live_investigation", "live_investigate", "resolve_trusted_evidence"} =>
          source = "openai"
    /\ node \in LaneNodes => source # "openai"

WhyFallback ==
    /\ source = "deterministic_fallback" =>
          /\ liveRun.failures \cap {"transport read", "budget", "provider"} # {}
          /\ "semantic read" \notin liveRun.failures
          /\ claims = <<>> /\ receipts = {}
    /\ liveRun.status = "semantic_failure" => source = "openai" /\ node \in {"verify", "end"}

ReceiptsInv == \A r \in receipts : r = <<r[1], RowsOf(r[1], process), process>>

\* The rows the deterministic lane has gathered when o has completed.
LaneRows(o) ==
    /\ Stage(o, gathered) /\ FunctionalIn(gathered)
    /\ transport = "direct" => OfRevision(gathered, process)

ReviewedRows ==
    /\ order = <<1, 2, 3, 4>> /\ MatchedIn(gathered) /\ TracedIn(gathered)
    /\ source = "openai" \/ transport = "direct" => OfRevision(gathered, process)
    /\ source = "openai" => \A role \in Roles : claims[role] = Conclusion(role, process)

HowFar ==
    /\ node \in Early => order = <<>> /\ gathered = {}
    /\ node \in LaneNodes => LaneRows(order)
    /\ node \in {"plan", "regulatory_intake"} => order = <<>>
    /\ node = "product_lot_match" => order = <<1>>
    /\ node = "trace_forward_backward" => order = <<1, 2>>
    /\ node = "containment_draft" => order = <<1, 2, 3>>
    /\ node = "verify" /\ source # "openai" => LaneRows(order)
    /\ node \in ReviewNodes => ReviewedRows

GraphInv == Who /\ WhichLane /\ WhyFallback /\ ReceiptsInv /\ HowFar

\* A live run that failed keeps nothing, and its status is that of its failures.
FailedRun ==
    run \in {"execution_failure", "semantic_failure"} =>
        run = Classify(failures) /\ artifacts = <<>> /\ seen = {}

LiveLaneInv == LiveInv /\ Untouched /\ FailedRun

-----------------------------------------------------------------------------
(* The live run inside the investigation.                                  *)

(* Steps of a run keep what holds of runs; only a run that goes on can be  *)
(* ended, and by no other step than one that forgets it.                   *)
LEMMA LiveLaneStep == LiveLaneInv /\ LiveStep => LiveLaneInv'
<1> SUFFICES ASSUME LiveLaneInv, LiveStep PROVE FailedRun'
  BY LiveStepInv, UntouchedStays DEF LiveLaneInv
<1>1. ASSUME NEW f, EndRun(f) PROVE FailedRun'
  BY <1>1 DEF EndRun, FailedRun
<1>2. CASE BreakContract \/ ProviderFails \/ RunOutOfTurns \/ Raise
  BY <1>1, <1>2 DEF BreakContract, ProviderFails, RunOutOfTurns, Raise
<1>3. CASE run' \notin {"execution_failure", "semantic_failure"}
  BY <1>3 DEF FailedRun
<1>4. LiveStep => \/ BreakContract \/ ProviderFails \/ RunOutOfTurns \/ Raise
                  \/ run' \in {"running", "raising", "success"}
  BY DEF LiveStep, WritePlan, Delegate, LookAround, Answer, ChildReads, Fetch, Observe,
         ReadOverBudget, ReadFails, ChildAnswers, ChildIsCorrected, ModelAnswers, InFlight, StartRead
<1> QED BY <1>2, <1>3, <1>4

\* The start of a live run begins with empty hands.
LEMMA LiveLaneBegin == LiveLaneInv /\ Begin(digest) => LiveLaneInv'
<1> SUFFICES ASSUME LiveLaneInv, Begin(digest) PROVE LiveLaneInv'
  OBVIOUS
<1>1. run = "idle" /\ seen = {} /\ artifacts = <<>> /\ pending = {}
  BY DEF Begin, LiveLaneInv, Untouched
<1>2. LiveInv'
  BY <1>1, BeginInv DEF LiveLaneInv
<1>3. /\ seen' = {} /\ artifacts' = <<>> /\ pending' = {}
      /\ run' = "running" \/ (run' = "semantic_failure" /\ failures' = {"contract"})
  BY <1>1 DEF Begin
<1>4. Classify({"contract"}) = "semantic_failure"
  BY DEF Classify
<1> QED BY <1>2, <1>3, <1>4 DEF LiveLaneInv, Untouched, FailedRun

\* A step of the graph outside the live run leaves it as it was.
LEMMA LiveLaneStays ==
  LiveLaneInv /\ (Release \/ ForgetLive \/ UNCHANGED liveVars) => LiveLaneInv'
<1> SUFFICES ASSUME LiveLaneInv, Release \/ ForgetLive \/ UNCHANGED liveVars PROVE LiveLaneInv'
  OBVIOUS
<1>1. CASE Release
  <2>1. UNCHANGED <<run, failures, artifacts, seen, pending>>
    BY <1>1 DEF Release
  <2> QED BY <1>1, <2>1, ReleaseInv DEF LiveLaneInv, Untouched, FailedRun
<1>2. CASE ForgetLive
  <2>1. <<>> \in Seq(Claims) /\ Len(<<>>) = 0 /\ 1 .. 0 = {}
    OBVIOUS
  <2> QED BY <1>2, <2>1 DEF ForgetLive, installed, LiveLaneInv, LiveInv, Untouched, FailedRun
<1>3. CASE UNCHANGED liveVars
  <2>1. UNCHANGED <<disk, process, bound, artifacts, pending, seen>> /\ UNCHANGED <<child, run, failures>>
    BY <1>3 DEF liveVars, installed
  <2>2. LiveInv'
    BY <2>1, SameEvidence DEF LiveLaneInv, LiveInv
  <2> QED BY <2>1, <2>2 DEF LiveLaneInv, Untouched, FailedRun
<1> QED BY <1>1, <1>2, <1>3

-----------------------------------------------------------------------------
(* The steps of the graph.                                                 *)

Installed == UNCHANGED <<process, transport>>

(* Neither the process nor its transport changes during an investigation.  *)
LEMMA InstalledStays ==
  ASSUME LiveStep \/ Begin(digest) \/ Release \/ ForgetLive \/ UNCHANGED liveVars
  PROVE  Installed
<1>1. ASSUME NEW f, EndRun(f) PROVE Installed
  BY <1>1 DEF EndRun, installed, Installed
<1>2. CASE LiveStep
  <2>1. ASSUME NEW reads, ChildReads(reads) PROVE Installed
    BY <2>1 DEF ChildReads, installed, Installed
  <2>2. ASSUME NEW p, Fetch(p) \/ Observe(p) \/ ReadOverBudget(p) PROVE Installed
    BY <2>2 DEF Fetch, Observe, ReadOverBudget, installed, Installed
  <2>3. ASSUME NEW p, NEW kind, ReadFails(p, kind) PROVE Installed
    BY <2>3 DEF ReadFails, installed, Installed
  <2>4. ASSUME NEW claim, ChildAnswers(claim) PROVE Installed
    BY <2>4 DEF ChildAnswers, installed, Installed
  <2>5. CASE WritePlan \/ Delegate \/ LookAround \/ Answer \/ ChildIsCorrected
    BY <2>5 DEF WritePlan, Delegate, LookAround, Answer, ChildIsCorrected, installed, Installed
  <2>6. CASE BreakContract \/ ProviderFails \/ RunOutOfTurns \/ Raise
    BY <1>1, <2>6 DEF BreakContract, ProviderFails, RunOutOfTurns, Raise
  <2> QED BY <1>2, <2>1, <2>2, <2>3, <2>4, <2>5, <2>6 DEF LiveStep
<1>3. CASE Begin(digest) \/ Release \/ ForgetLive \/ UNCHANGED liveVars
  BY <1>3 DEF Begin, Release, ForgetLive, installed, liveVars, Installed
<1> QED BY <1>2, <1>3

(* A step that leaves the graph alone leaves its invariant alone.          *)
LEMMA GraphStays == GraphInv /\ UNCHANGED graphVars /\ Installed => GraphInv'
<1> SUFFICES ASSUME GraphInv, UNCHANGED graphVars, Installed PROVE GraphInv'
  OBVIOUS
<1>1. /\ UNCHANGED <<caller, mode, node, status, source, digest, order, gathered>>
      /\ UNCHANGED <<liveRun, claims, receipts, process, transport>>
  BY DEF graphVars, Installed
<1>2. Who' /\ WhichLane' /\ WhyFallback' /\ ReceiptsInv'
  BY <1>1 DEF GraphInv, Who, WhichLane, WhyFallback, ReceiptsInv, Reviewed
<1>3. HowFar'
  BY <1>1 DEF GraphInv, HowFar, LaneRows, ReviewedRows
<1> QED BY <1>2, <1>3 DEF GraphInv

(* An escalation or an exception ends the graph, whatever has been found.  *)
LEMMA GraphEnds ==
  ASSUME GraphInv, Installed, caller = "graph", node' \in {"end", "raised"},
         status' = "escalated" \/ (node # "action_review" /\ status' = status),
         UNCHANGED <<caller, mode, source, liveRun, claims, receipts>>,
         node \in {"intake", "raised"} => node' = "raised",
         node' = "raised" => liveRun.status # "semantic_failure",
         UNCHANGED digest
  PROVE  GraphInv'
BY DEF GraphInv, Who, WhichLane, WhyFallback, ReceiptsInv, HowFar, Reviewed, Installed, Early,
       LaneNodes, ReviewNodes

(* Before the lanes part: nothing has been gathered or claimed.            *)
LEMMA EarlySteps ==
  ASSUME GraphInv, Installed, Intake \/ Retrieved \/ RetrievalFails \/ PrepareLive
  PROVE  GraphInv'
<1>1. CASE Intake
  BY <1>1 DEF Intake, GoTo, GraphInv, Who, WhichLane, WhyFallback, ReceiptsInv, HowFar, Reviewed,
              Installed, Early, LaneNodes, ReviewNodes
<1>2. CASE Retrieved
  <2>1. CASE Escalate
    BY <1>2, <2>1, GraphEnds DEF Retrieved, Escalate, GoTo
  <2>2. CASE GoTo(IF mode = "openai" THEN "prepare_live_investigation" ELSE "plan", status)
    <3>1. FunctionalIn({}) /\ OfRevision({}, process) /\ Stage(<<>>, {})
      BY DEF FunctionalIn, OfRevision, Stage
    <3> QED BY <1>2, <2>2, <3>1 DEF Retrieved, GoTo, GraphInv, Who, WhichLane, WhyFallback,
              ReceiptsInv, HowFar, LaneRows, Reviewed, Installed, Early, LaneNodes, ReviewNodes
  <2> QED BY <1>2, <2>1, <2>2 DEF Retrieved
<1>3. CASE PrepareLive
  <2>1. CASE Escalate
    BY <1>3, <2>1 DEF PrepareLive, Escalate, GoTo, GraphInv, Who, WhichLane, WhyFallback,
              ReceiptsInv, HowFar, Reviewed, Installed, Early, LaneNodes, ReviewNodes
  <2>2. CASE liveRun' = [status |-> "started", failures |-> {}] /\ GoTo("live_investigate", status)
    BY <1>3, <2>2 DEF PrepareLive, GoTo, GraphInv, Who, WhichLane, WhyFallback,
              ReceiptsInv, HowFar, Reviewed, Installed, Early, LaneNodes, ReviewNodes
  <2> QED BY <1>3, <2>1, <2>2 DEF PrepareLive
<1>4. CASE RetrievalFails
  BY <1>4, GraphEnds DEF RetrievalFails, Escalate, GoTo
<1> QED BY <1>1, <1>2, <1>3, <1>4

(* The live run hands over its result: what failed in execution goes to    *)
(* the deterministic lane with nothing, all else to the verification.      *)
LEMMA LiveInvestigatedInv ==
  ASSUME GraphInv, LiveLaneInv, Installed, LiveInvestigated PROVE GraphInv'
<1>1. /\ node = "live_investigate" /\ source = "openai" /\ order = <<>> /\ gathered = {}
      /\ caller = "graph" /\ digest = process /\ ~Reviewed /\ run \in Ended
  BY DEF LiveInvestigated, GraphInv, Who, WhichLane, HowFar, Early
<1>2. /\ liveRun' = [status |-> run, failures |-> failures] /\ claims' = artifacts
      /\ receipts' = {<<o.read, o.rows, o.source>> : o \in seen}
      /\ UNCHANGED <<caller, mode, digest, order, gathered, status>>
  BY DEF LiveInvestigated, GoTo
<1>3. ReceiptsInv'
  <2> SUFFICES ASSUME NEW o \in seen
               PROVE  <<o.read, o.rows, o.source>> = <<o.read, RowsOf(o.read, process), process>>
    BY <1>2 DEF ReceiptsInv, Installed
  <2>1. o = Receipt(o.role, o.read)
    BY DEF LiveLaneInv, LiveInv
  <2> QED BY <2>1 DEF Receipt
<1>4. CASE run = "execution_failure"
  <2>1. /\ source' = "deterministic_fallback" /\ node' = "plan"
    BY <1>4 DEF LiveInvestigated, GoTo
  <2>2. claims' = <<>> /\ receipts' = {} /\ Classify(failures) = "execution_failure"
    BY <1>2, <1>4 DEF LiveLaneInv, FailedRun
  <2>3. /\ failures \cap {"transport read", "budget", "provider"} # {}
        /\ "semantic read" \notin failures
    <3> DEFINE reads == failures \cap {"semantic read", "transport read"}
    <3>1. CASE reads # {}
      <4>1. reads = {"transport read"}
        BY <2>2, <3>1 DEF Classify
      <4>2. "transport read" \in reads /\ "semantic read" \notin reads
        BY <4>1
      <4> QED BY <4>2
    <3>2. CASE reads = {}
      <4>1. failures \cap {"budget", "provider"} # {}
        BY <2>2, <3>2 DEF Classify
      <4> QED BY <3>2, <4>1
    <3> QED BY <3>1, <3>2
  <2>4. FunctionalIn({}) /\ OfRevision({}, process) /\ Stage(<<>>, {})
    BY DEF FunctionalIn, OfRevision, Stage
  <2>5. WhyFallback'
    BY <1>2, <1>4, <2>1, <2>2, <2>3 DEF WhyFallback
  <2>6. HowFar'
    BY <1>1, <1>2, <2>1, <2>4 DEF HowFar, LaneRows, Early, LaneNodes, ReviewNodes, Installed
  <2> QED BY <1>1, <1>2, <1>3, <2>1, <2>5, <2>6 DEF GraphInv, Who, WhichLane, Early, LaneNodes,
            Reviewed, Installed
<1>5. CASE run # "execution_failure"
  <2>1. source' = "openai" /\ node' = "verify"
    BY <1>1, <1>5 DEF LiveInvestigated, GoTo
  <2>2. WhyFallback'
    BY <2>1 DEF WhyFallback
  <2>3. HowFar'
    BY <2>1 DEF HowFar, Early, LaneNodes, ReviewNodes
  <2> QED BY <1>1, <1>2, <1>3, <2>1, <2>2, <2>3 DEF GraphInv, Who, WhichLane, Early, LaneNodes,
            Reviewed, Installed
<1> QED BY <1>4, <1>5

(* Within the deterministic lane only the order and the rows change, and   *)
(* the node the graph goes on to.                                          *)
LEMMA LaneMoves ==
  ASSUME GraphInv, Installed, node \in LaneNodes, node' \in LaneNodes \cup {"verify"},
         UNCHANGED <<caller, mode, status, source, digest, liveRun, claims, receipts>>,
         LaneRows(order)',
         node' \in {"plan", "regulatory_intake"} => order' = <<>>,
         node' = "product_lot_match" => order' = << 1 >>,
         node' = "trace_forward_backward" => order' = <<1, 2>>,
         node' = "containment_draft" => order' = <<1, 2, 3>>
  PROVE  GraphInv'
<1>1. source # "openai" /\ caller = "graph" /\ digest = process /\ ~Reviewed
  BY DEF GraphInv, Who, WhichLane, LaneNodes
<1>2. HowFar'
  BY <1>1 DEF HowFar, LaneNodes, Early, ReviewNodes
<1> QED BY <1>1, <1>2 DEF GraphInv, Who, WhichLane, WhyFallback, ReceiptsInv, LaneNodes, Early,
          Reviewed, Installed

(* A lane can be left for an escalation or an exception at any node.       *)
LEMMA LaneEnds ==
  ASSUME GraphInv, Installed, node \in LaneNodes \cup {"verify", "resolve_trusted_evidence"},
         Escalate \/ (node \in LaneNodes /\ GoTo("raised", status)),
         UNCHANGED <<source, digest, liveRun, claims, receipts>>
  PROVE  GraphInv'
<1>1. caller = "graph"
  BY DEF GraphInv, Who, LaneNodes
<1>2. node \in LaneNodes => liveRun.status # "semantic_failure"
  BY DEF GraphInv, WhyFallback, LaneNodes
<1> QED BY <1>1, <1>2, GraphEnds DEF Escalate, GoTo, LaneNodes

(* A read of the lane adds the rows its gateway gives: with a gateway of   *)
(* the process, those of the process's revision.                           *)
LEMMA GatherRows ==
  ASSUME Installed, NEW q, Gather(q), transport = "direct" => OfRevision(gathered, process)
  PROVE  /\ gathered' = Added(gathered, q, GatewayRows(q))
         /\ transport' = "direct" => OfRevision(gathered', process')
BY DEF Gather, GatewayRows, Added, OfRevision, Installed

(* The specialists and the nodes between them.                             *)
LEMMA PlanDispatch == GraphInv /\ Installed /\ (Plan \/ Dispatch) => GraphInv'
<1> SUFFICES ASSUME GraphInv, Installed, Plan \/ Dispatch PROVE GraphInv'
  OBVIOUS
<1>1. CASE Plan
  <2>1. node = "plan" /\ order = <<>> /\ LaneRows(order)
    BY <1>1 DEF Plan, GraphInv, HowFar, LaneNodes
  <2>2. LaneRows(order)'
    BY <1>1, <2>1 DEF Plan, LaneRows, Installed
  <2> QED BY <1>1, <2>1, <2>2, LaneMoves DEF Plan, GoTo, LaneNodes
<1>2. CASE Dispatch
  <2>1. node = "dispatch_specialist" /\ LaneRows(order)
    BY <1>2 DEF Dispatch, GraphInv, HowFar, LaneNodes
  <2>2. LaneRows(order)' /\ order' = order
        /\ UNCHANGED <<source, digest, liveRun, claims, receipts>>
    BY <1>2, <2>1 DEF Dispatch, LaneRows, Installed
  <2>3. CASE Escalate
    BY <2>1, <2>2, <2>3, LaneEnds DEF LaneNodes
  <2>4. CASE GoTo("verify", status)
    BY <2>1, <2>2, <2>4, LaneMoves DEF GoTo, LaneNodes
  <2>5. CASE Len(order) # 4 /\ GoTo(SpecialistNode(Len(order) + 1), status)
    <3>1. \/ order = <<>> /\ Len(order) + 1 = 1
          \/ order = <<1>> /\ Len(order) + 1 = 2
          \/ order = <<1, 2>> /\ Len(order) + 1 = 3
          \/ order = <<1, 2, 3>> /\ Len(order) + 1 = 4
      <4>1. order \in {<<>>, <<1>>, <<1, 2>>, <<1, 2, 3>>, <<1, 2, 3, 4>>}
        BY <2>1 DEF LaneRows, Stage
      <4>2. /\ Len(<<>>) + 1 = 1 /\ Len(<<1>>) + 1 = 2 /\ Len(<<1, 2>>) + 1 = 3
            /\ Len(<<1, 2, 3>>) + 1 = 4 /\ Len(<<1, 2, 3, 4>>) = 4
        OBVIOUS
      <4>3. order # <<1, 2, 3, 4>>
        BY <2>5, <4>2
      <4> QED BY <4>1, <4>2, <4>3
    <3>2. \/ order = <<>> /\ node' = "regulatory_intake"
          \/ order = <<1>> /\ node' = "product_lot_match"
          \/ order = <<1, 2>> /\ node' = "trace_forward_backward"
          \/ order = <<1, 2, 3>> /\ node' = "containment_draft"
      <4>1. /\ SpecialistNode(1) = "regulatory_intake" /\ SpecialistNode(2) = "product_lot_match"
            /\ SpecialistNode(3) = "trace_forward_backward"
            /\ SpecialistNode(4) = "containment_draft"
        BY DEF SpecialistNode
      <4>2. node' = SpecialistNode(Len(order) + 1)
        BY <2>5 DEF GoTo
      <4> QED BY <3>1, <4>1, <4>2
    <3> QED BY <2>1, <2>2, <2>5, <3>2, LaneMoves DEF GoTo, LaneNodes
  <2> QED BY <1>2, <2>3, <2>4, <2>5, FourRoles DEF Dispatch
<1> QED BY <1>1, <1>2

\* The regulatory node adds its own rows and moves the cursor by one.
LEMMA RegulatoryIntakeInv == GraphInv /\ Installed /\ RegulatoryIntake => GraphInv'
<1> SUFFICES ASSUME GraphInv, Installed, RegulatoryIntake PROVE GraphInv'
  OBVIOUS
<1>1. /\ node = "regulatory_intake" /\ order = <<>> /\ LaneRows(order)
      /\ UNCHANGED <<source, digest, liveRun, claims, receipts>>
  BY DEF RegulatoryIntake, GraphInv, HowFar, LaneNodes
<1>2. gathered = {} /\ OfRevision({}, process)
  BY <1>1 DEF LaneRows, Stage, OfRevision
<1>3. ASSUME NEW rows, gathered' = {<<RecallRead, rows>>}, Completed(1),
             transport = "direct" => rows = RowsOf(RecallRead, process)
      PROVE  GraphInv'
  <2>1. /\ gathered' = {<<RecallRead, rows>>}
        /\ transport = "direct" => rows = RowsOf(RecallRead, process)
    BY <1>3
  <2>2. order' = <<1>> /\ GoTo("dispatch_specialist", status)
    BY <1>1, <1>3, PlanOrder DEF Completed
  <2>3. Stage(<<1>>, gathered') /\ FunctionalIn(gathered')
    BY <2>1 DEF Stage, FunctionalIn, HasIn
  <2>4. transport' = "direct" => OfRevision(gathered', process')
    BY <2>1 DEF OfRevision, Installed
  <2>5. LaneRows(order)'
    BY <2>2, <2>3, <2>4 DEF LaneRows
  <2> QED BY <1>1, <2>2, <2>5, LaneMoves DEF GoTo, LaneNodes
<1>4. CASE Escalate \/ GoTo("raised", status)
  BY <1>1, <1>4, LaneEnds DEF LaneNodes
<1>5. CASE Gather(RecallRead) /\ Completed(1)
  BY <1>2, <1>3, <1>5 DEF Gather, GatewayRows
<1>6. CASE /\ gathered' = gathered \cup {<<RecallRead, RowsOf(RecallRead, process)>>}
           /\ Completed(1)
  BY <1>2, <1>3, <1>6
<1> QED BY <1>4, <1>5, <1>6 DEF RegulatoryIntake

\* The matching node adds the matches it read and moves the cursor by one.
LEMMA ProductLotMatchInv == GraphInv /\ Installed /\ ProductLotMatch => GraphInv'
<1> SUFFICES ASSUME GraphInv, Installed, ProductLotMatch PROVE GraphInv'
  OBVIOUS
<1>1. /\ node = "product_lot_match" /\ order = <<1>> /\ LaneRows(order)
      /\ UNCHANGED <<source, digest, liveRun, claims, receipts>>
  BY DEF ProductLotMatch, GraphInv, HowFar, LaneNodes
<1>2. CASE Escalate
  BY <1>1, <1>2, LaneEnds DEF LaneNodes
<1>3. CASE /\ Gather(Matching) /\ GatewayRows(Matching)[1] \ Uncertain # {}
           /\ Completed(2)
  <2>1. /\ HasIn(gathered, RecallRead) /\ (\A g \in gathered : g[1] = RecallRead)
        /\ FunctionalIn(gathered)
        /\ transport = "direct" => OfRevision(gathered, process)
    BY <1>1 DEF LaneRows, Stage
  <2>2. /\ gathered' = Added(gathered, MatchIn(gathered), GatewayRows(Matching))
        /\ transport' = "direct" => OfRevision(gathered', process')
    BY <1>3, <2>1, GatherRows, InModelTerms
  <2>3. FunctionalIn(gathered') /\ MatchedIn(gathered')
    BY <1>3, <2>1, <2>2, AddMatches
  <2>4. order' = <<1, 2>> /\ GoTo("dispatch_specialist", status)
    BY <1>1, <1>3, PlanOrder DEF Completed
  <2>5. LaneRows(order)'
    BY <2>2, <2>3, <2>4 DEF LaneRows, Stage
  <2> QED BY <1>1, <2>4, <2>5, LaneMoves DEF GoTo, LaneNodes
<1> QED BY <1>2, <1>3 DEF ProductLotMatch

\* The trace node adds its own rows; the cursor moves once it has reconciled.
LEMMA TraceInv ==
  GraphInv /\ Installed /\ ((\E l \in Lot : TraceOneLot(l)) \/ Reconcile) => GraphInv'
<1> SUFFICES ASSUME GraphInv, Installed, (\E l \in Lot : TraceOneLot(l)) \/ Reconcile
             PROVE  GraphInv'
  OBVIOUS
<1>1. /\ node = "trace_forward_backward" /\ order = <<1, 2>> /\ LaneRows(order)
      /\ UNCHANGED <<source, digest, liveRun, claims, receipts>>
  BY DEF TraceOneLot, Reconcile, GraphInv, HowFar, LaneNodes
<1>2. /\ MatchedIn(gathered) /\ FunctionalIn(gathered)
      /\ transport = "direct" => OfRevision(gathered, process)
  <2>1. <<1, 2>> # <<>> /\ <<1, 2>> # <<1>> /\ <<1, 2>> \notin {<<1, 2, 3>>, <<1, 2, 3, 4>>}
    OBVIOUS
  <2> QED BY <1>1, <2>1 DEF LaneRows, Stage
<1>3. ASSUME NEW l \in Lot, TraceOneLot(l) PROVE GraphInv'
  <2>1. /\ Gather(TraceRead(l)) /\ ~HasIn(gathered, TraceRead(l))
        /\ UNCHANGED <<caller, mode, node, status, order>>
    BY <1>3, InModelTerms DEF TraceOneLot
  <2>2. /\ gathered' = Added(gathered, TraceRead(l), GatewayRows(TraceRead(l)))
        /\ transport' = "direct" => OfRevision(gathered', process')
    BY <1>2, <2>1, GatherRows
  <2>3. FunctionalIn(gathered') /\ MatchedIn(gathered')
    BY <1>2, <2>1, <2>2, AddTrace
  <2>4. LaneRows(order)'
    BY <1>1, <2>1, <2>2, <2>3 DEF LaneRows, Stage
  <2> QED BY <1>1, <2>1, <2>4, LaneMoves DEF LaneNodes
<1>4. CASE Reconcile
  <2>1. CASE Escalate
    BY <1>1, <2>1, LaneEnds DEF LaneNodes
  <2>2. CASE AllTraced /\ Completed(3)
    <3>1. order' = <<1, 2, 3>> /\ GoTo("dispatch_specialist", status) /\ gathered' = gathered
      BY <1>1, <1>4, <2>2, PlanOrder DEF Completed, Reconcile
    <3>2. TracedIn(gathered)
      BY <2>2, InModelTerms
    <3>3. LaneRows(order)'
      BY <1>2, <3>1, <3>2 DEF LaneRows, Stage, Installed
    <3> QED BY <1>1, <3>1, <3>3, LaneMoves DEF GoTo, LaneNodes
  <2> QED BY <1>4, <2>1, <2>2 DEF Reconcile
<1> QED BY <1>3, <1>4

\* The containment node is the last role of the plan.
LEMMA ContainmentInv == GraphInv /\ Installed /\ ContainmentDraft => GraphInv'
<1> SUFFICES ASSUME GraphInv, Installed, ContainmentDraft PROVE GraphInv'
  OBVIOUS
<1>1. /\ node = "containment_draft" /\ order = <<1, 2, 3>> /\ LaneRows(order)
      /\ UNCHANGED <<source, digest, liveRun, claims, receipts, gathered>>
  BY DEF ContainmentDraft, GraphInv, HowFar, LaneNodes
<1>2. order' = <<1, 2, 3, 4>> /\ GoTo("dispatch_specialist", status)
  BY <1>1, PlanOrder DEF ContainmentDraft, Completed
<1>3. <<1, 2, 3>> # <<>> /\ <<1, 2, 3>> # <<1>> /\ <<1, 2, 3>> # <<1, 2>>
  OBVIOUS
<1>4. MatchedIn(gathered) /\ TracedIn(gathered)
  BY <1>1, <1>3 DEF LaneRows, Stage
<1>5. LaneRows(order)'
  BY <1>1, <1>2, <1>4 DEF LaneRows, Stage, Installed
<1> QED BY <1>1, <1>2, <1>5, LaneMoves DEF GoTo, LaneNodes

-----------------------------------------------------------------------------
(* Verification and review.                                                *)

(* A review follows rows that are complete, and of one revision where that *)
(* can be known.                                                           *)
LEMMA ReviewPrepared ==
  ASSUME GraphInv, Installed, node \in {"verify", "resolve_trusted_evidence"},
         GoTo("prepare_action_review", status), ReviewedRows',
         UNCHANGED <<source, digest, liveRun, claims, receipts>>,
         source = "openai" => node = "resolve_trusted_evidence"
  PROVE  GraphInv'
<1>1. caller = "graph" /\ digest = process /\ ~Reviewed
  BY DEF GraphInv, Who
<1>2. HowFar'
  BY DEF GoTo, HowFar, Early, LaneNodes, ReviewNodes
<1>3. WhyFallback'
  BY DEF GoTo, GraphInv, WhyFallback, WhichLane
<1> QED BY <1>1, <1>2, <1>3 DEF GoTo, GraphInv, Who, WhichLane, ReceiptsInv, Early, LaneNodes,
          Reviewed, Installed

\* Verification of the deterministic lane passes only what the four roles read.
LEMMA VerifyPlanInv == GraphInv /\ Installed /\ VerifyPlan => GraphInv'
<1> SUFFICES ASSUME GraphInv, Installed, VerifyPlan PROVE GraphInv'
  OBVIOUS
<1>1. /\ node = "verify" /\ source # "openai" /\ LaneRows(order)
      /\ UNCHANGED <<source, digest, liveRun, claims, receipts, order, gathered>>
  BY DEF VerifyPlan, GraphInv, HowFar
<1>2. CASE Escalate
  BY <1>1, <1>2, LaneEnds
<1>3. CASE Len(order) = 4 /\ GoTo("prepare_action_review", status)
  <2>1. order \in {<<>>, <<1>>, <<1, 2>>, <<1, 2, 3>>, <<1, 2, 3, 4>>}
    BY <1>1 DEF LaneRows, Stage
  <2>2. Len(<<>>) # 4 /\ Len(<<1>>) # 4 /\ Len(<<1, 2>>) # 4 /\ Len(<<1, 2, 3>>) # 4
    OBVIOUS
  <2>3. /\ order # <<>> /\ order # <<1>> /\ order # <<1, 2>> /\ order # <<1, 2, 3>>
        /\ order = <<1, 2, 3, 4>>
    <3>1. order # <<>> /\ order # <<1>> /\ order # <<1, 2>> /\ order # <<1, 2, 3>>
      BY <1>3, <2>2, Zenon
    <3> QED BY <2>1, <3>1
  <2>4. ReviewedRows'
    BY <1>1, <2>3 DEF LaneRows, Stage, ReviewedRows, Installed
  <2> QED BY <1>1, <1>3, <2>4, ReviewPrepared
<1> QED BY <1>2, <1>3, FourRoles DEF VerifyPlan

\* Resolving the claims of a live run adds rows and changes nothing else.
LEMMA ResolvingInv ==
  GraphInv /\ Installed /\ (StartResolving \/ \E read \in Reads : Resolve(read)) => GraphInv'
<1> SUFFICES ASSUME GraphInv, Installed, StartResolving \/ \E read \in Reads : Resolve(read)
             PROVE  GraphInv'
  OBVIOUS
<1>1. CASE StartResolving /\ Escalate
  BY <1>1, LaneEnds DEF StartResolving
<1>2. CASE \/ /\ node = "verify" /\ source = "openai" /\ liveRun.status = "success"
              /\ GoTo("resolve_trusted_evidence", status)
              /\ UNCHANGED <<source, digest, liveRun, claims, receipts>>
           \/ /\ node = "resolve_trusted_evidence"
              /\ UNCHANGED <<caller, mode, node, status, source, digest, liveRun, claims, receipts>>
  BY <1>2 DEF GoTo, GraphInv, Who, WhichLane, WhyFallback, ReceiptsInv, HowFar, Early, LaneNodes,
              ReviewNodes, Reviewed, Installed
<1> QED BY <1>1, <1>2 DEF StartResolving, Resolve

(* What is verified live is backed row by row by the receipts of the run,  *)
(* which are of the process's revision; so are the conclusions, and the    *)
(* claims that equal them.                                                 *)
LEMMA VerifyLiveInv == GraphInv /\ Installed /\ VerifyLive => GraphInv'
<1> SUFFICES ASSUME GraphInv, Installed, VerifyLive PROVE GraphInv'
  OBVIOUS
<1>1. /\ node = "resolve_trusted_evidence" /\ source = "openai" /\ digest = process
      /\ UNCHANGED <<source, digest, liveRun, claims, receipts>>
  BY DEF VerifyLive, GraphInv, WhichLane, Who
<1>2. CASE Escalate
  BY <1>1, <1>2, LaneEnds
<1>3. CASE /\ NextReads = {} /\ Supported /\ GoTo("prepare_action_review", status)
           /\ order' = <<1, 2, 3, 4>> /\ UNCHANGED gathered
  <2>1. OfRevision(gathered, process)
    <3> SUFFICES ASSUME NEW g \in gathered PROVE g[2] = RowsOf(g[1], process)
      BY DEF OfRevision
    <3> DEFINE r == <<g[1], g[2], process>>
    <3>1. r \in receipts /\ r[1] = g[1] /\ r[2] = g[2]
      BY <1>1, <1>3 DEF Supported
    <3>2. r = <<r[1], RowsOf(r[1], process), process>>
      BY <3>1 DEF GraphInv, ReceiptsInv
    <3>3. <<r[1], RowsOf(r[1], process), process>>[2] = RowsOf(r[1], process)
      OBVIOUS
    <3> HIDE DEF r
    <3> QED BY <3>1, <3>2, <3>3
  <2>2. MatchedIn(gathered) /\ TracedIn(gathered)
    <3>1. HasGathered(RecallRead) /\ HasGathered(Matching)
          /\ \A r \in TraceReads(Relevant(MatchedLots)) : HasGathered(r)
      BY <1>3 DEF NextReads
    <3>2. \A l \in MatchedLots : HasGathered(TraceRead(l))
      BY <3>1 DEF TraceReads, Relevant
    <3> QED BY <1>3, <3>1, <3>2, InModelTerms DEF MatchedIn, TracedIn, Supported
  <2>3. \A role \in Roles : claims[role] = Conclusion(role, process)
    BY <1>3, <2>1, <2>2, ConclusionsOf DEF Supported
  <2>4. ReviewedRows'
    BY <1>1, <1>3, <2>1, <2>2, <2>3 DEF ReviewedRows, Installed
  <2> QED BY <1>1, <1>3, <2>4, ReviewPrepared
<1> QED BY <1>2, <1>3 DEF VerifyLive

\* A review is prepared from verified evidence only.
LEMMA ReviewInv == GraphInv /\ Installed /\ PrepareActionReview => GraphInv'
<1> SUFFICES ASSUME GraphInv, Installed, PrepareActionReview PROVE GraphInv'
  OBVIOUS
<1>1. /\ node = "prepare_action_review" /\ GoTo("action_review", "review_required")
      /\ UNCHANGED <<source, digest, liveRun, claims, receipts, order, gathered>>
      /\ ReviewedRows
  BY DEF PrepareActionReview, GraphInv, HowFar, ReviewNodes
<1>2. HowFar'
  BY <1>1 DEF GoTo, HowFar, ReviewedRows, Early, LaneNodes, ReviewNodes, Installed
<1> QED BY <1>1, <1>2 DEF GoTo, GraphInv, Who, WhichLane, WhyFallback, ReceiptsInv, Early,
          LaneNodes, Reviewed, Installed

-----------------------------------------------------------------------------
(* The theorems.                                                           *)

CompositionInv == GraphInv /\ LiveLaneInv

(* An investigation starts with nothing read, claimed or decided.          *)
LEMMA InitComposition == Init => CompositionInv
<1> SUFFICES ASSUME Init PROVE CompositionInv
  OBVIOUS
<1>1. LiveInv
  <2>1. disk \in Nat /\ process = disk
    BY LiveAssumption DEF Init, LiveInit, LiveAssumption
  <2>2. <<>> \in Seq(Claims) /\ Len(<<>>) = 0 /\ 1 .. 0 = {}
    OBVIOUS
  <2> QED BY <2>1, <2>2 DEF Init, LiveInit, LiveInv
<1>2. Untouched /\ FailedRun
  BY DEF Init, LiveInit, Untouched, FailedRun
<1>3. GraphInv
  BY DEF Init, GraphInv, Who, WhichLane, WhyFallback, ReceiptsInv, HowFar, Reviewed, NoRun, Early,
         LaneNodes, ReviewNodes
<1> QED BY <1>1, <1>2, <1>3 DEF CompositionInv, LiveLaneInv

(* Whatever the graph, the models, the retriever or a release does next,   *)
(* each node still finds the rows it relies on.                            *)
LEMMA NextComposition == CompositionInv /\ [Next]_vars => CompositionInv'
<1> SUFFICES ASSUME GraphInv, LiveLaneInv, [Next]_vars PROVE GraphInv' /\ LiveLaneInv'
  BY DEF CompositionInv
<1>1. ASSUME UNCHANGED liveVars PROVE Installed /\ LiveLaneInv'
  BY <1>1, InstalledStays, LiveLaneStays
<1>2. CASE Intake \/ Retrieved \/ RetrievalFails \/ PrepareLive
  <2>1. UNCHANGED liveVars
    BY <1>2 DEF Intake, Retrieved, RetrievalFails, PrepareLive
  <2> QED BY <1>1, <1>2, <2>1, EarlySteps
<1>3. CASE RetrieveInGraph \/ RetrieveAlone \/ UNCHANGED vars
  <2>1. UNCHANGED liveVars /\ UNCHANGED graphVars
    BY <1>3 DEF RetrieveInGraph, RetrieveAlone, vars
  <2> QED BY <1>1, <2>1, GraphStays
<1>4. CASE StartLive \/ StepLive \/ Upgrade
  <2>1. (Begin(digest) \/ LiveStep \/ Release) /\ UNCHANGED graphVars
    BY <1>4 DEF StartLive, StepLive, Upgrade
  <2> QED BY <2>1, InstalledStays, GraphStays, LiveLaneBegin, LiveLaneStep, LiveLaneStays
<1>5. CASE LiveInvestigated
  <2>1. ForgetLive
    BY <1>5 DEF LiveInvestigated
  <2> QED BY <1>5, <2>1, InstalledStays, LiveLaneStays, LiveInvestigatedInv
<1>6. CASE \/ Plan \/ Dispatch \/ RegulatoryIntake \/ ProductLotMatch
           \/ (\E l \in Lot : TraceOneLot(l)) \/ Reconcile \/ ContainmentDraft
  <2>1. UNCHANGED liveVars
    BY <1>6 DEF Plan, Dispatch, RegulatoryIntake, ProductLotMatch, TraceOneLot, Reconcile,
                ContainmentDraft
  <2> QED BY <1>1, <1>6, <2>1, PlanDispatch, RegulatoryIntakeInv, ProductLotMatchInv, TraceInv,
             ContainmentInv
<1>7. CASE VerifyPlan \/ StartResolving \/ (\E read \in Reads : Resolve(read)) \/ VerifyLive
           \/ PrepareActionReview
  <2>1. UNCHANGED liveVars
    BY <1>7 DEF VerifyPlan, StartResolving, Resolve, VerifyLive, PrepareActionReview
  <2> QED BY <1>1, <1>7, <2>1, VerifyPlanInv, ResolvingInv, VerifyLiveInv, ReviewInv
<1> QED BY <1>2, <1>3, <1>4, <1>5, <1>6, <1>7 DEF Next, Advance

\* The inductive invariant holds throughout every investigation.
LEMMA CompositionHolds == InvestigationSpec => []CompositionInv
<1> QED BY InitComposition, NextComposition, PTL DEF InvestigationSpec

(* A live run inside an investigation succeeds only on the reads its       *)
(* answers call for, whatever the rest of the graph does.                  *)
THEOREM InvestigationRestsOnReads == InvestigationSpec => []AnswersRestOnReads
<1>1. CompositionInv => AnswersRestOnReads
  BY InvIsEnough DEF CompositionInv, LiveLaneInv
<1> QED BY <1>1, CompositionHolds, PTL

(* Specialists take over from the models only when the execution failed,   *)
(* and take nothing over; a run that failed for its content is never       *)
(* reviewed.                                                               *)
THEOREM FallbackOnlyForExecution == InvestigationSpec => []FallbackIsForExecution
<1>1. CompositionInv => FallbackIsForExecution
  BY DEF CompositionInv, GraphInv, WhyFallback, Who, FallbackIsForExecution
<1> QED BY <1>1, CompositionHolds, PTL

(* No action is reviewed before all four specialists, in order: a recall   *)
(* was read, a confirmed lot found and every matched lot traced, whichever *)
(* lane they ran in and whatever was released meanwhile.                   *)
THEOREM AllRolesBeforeReview == InvestigationSpec => []ReviewRestsOnAllRoles
<1>1. CompositionInv => ReviewRestsOnAllRoles
  <2> SUFFICES ASSUME CompositionInv, Reviewed
               PROVE  /\ order = <<1, 2, 3, 4>>
                      /\ HasGathered(RecallRead) /\ HasGathered(Matching)
                      /\ MatchedLots \ Uncertain # {}
                      /\ \A l \in MatchedLots : HasGathered(TraceRead(l))
    BY DEF ReviewRestsOnAllRoles
  <2>1. ReviewedRows
    BY DEF CompositionInv, GraphInv, Who, HowFar, ReviewNodes
  <2> QED BY <2>1, InModelTerms DEF ReviewedRows, MatchedIn, TracedIn
<1> QED BY <1>1, CompositionHolds, PTL

(* Whatever is reviewed is what the specialists conclude from the revision *)
(* the case is bound to: the claims of the models and the rows behind them,*)
(* and the deterministic lane's rows if its gateway is of the process.     *)
THEOREM ReviewedIsBound == InvestigationSpec => []ReviewedEvidenceIsBound
<1>1. CompositionInv => ReviewedEvidenceIsBound
  <2> SUFFICES ASSUME CompositionInv, Reviewed PROVE
         /\ source = "openai" \/ transport = "direct" =>
               \A role \in Roles : Concluded(role) = Conclusion(role, digest)
         /\ source = "openai" => \A role \in Roles : claims[role] = Conclusion(role, digest)
    BY DEF ReviewedEvidenceIsBound
  <2>1. ReviewedRows /\ digest = process
    BY DEF CompositionInv, GraphInv, Who, HowFar, ReviewNodes
  <2> QED BY <2>1, ConclusionsOf DEF ReviewedRows
<1> QED BY <1>1, CompositionHolds, PTL
=============================================================================
