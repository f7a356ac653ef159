-------------------------- MODULE AgenticRetrieval --------------------------
(***************************************************************************)
(* The bounded evidence loop of retrieval/agentic.py: route a question to  *)
(* its sources, read each of them once, judge what is missing, rewrite the *)
(* question at most once and read again.  A run may stop at every read     *)
(* boundary (RetrievalInterruption) and its state be saved, loaded by      *)
(* another retriever and resumed; a read that raises loses what the call   *)
(* had done since.  The promise is that none of this shows in the result.  *)
(*                                                                         *)
(* The words of a question are the needs it has; a document is a model     *)
(* value with the source it comes from, the needs it covers, whether the   *)
(* identifiers of the question support citing it, and whether one of its   *)
(* claims contradicts an authoritative fact.                               *)
(***************************************************************************)
EXTENDS Integers, FiniteSets, Sequences

CONSTANTS
    Doc, Source, SourceOf,    \* documents, sources, the source of a document
    Need, Covers,             \* what a question asks for; what a document covers
    Cited, Contradicting,     \* documents that may be cited; that contradict a fact
    Routes,                   \* the routes _plan may choose, sequences of sources
    Budgets,                  \* RetrievalBudgets: [hops, queries, reads]
    Allowances,               \* max_new_reads of a call; 0 stands for None
    NONE

ASSUME RetrievalAssumption ==
    /\ SourceOf \in [Doc -> Source]
    /\ Covers \in [Doc -> SUBSET Need]
    /\ Cited \subseteq Doc /\ Contradicting \subseteq Doc
    /\ Routes \subseteq Seq(Source)
    /\ Budgets \subseteq [hops : 1 .. 2, queries : Nat \ {0}, reads : Nat \ {0}]
    /\ Allowances \subseteq Nat

VARIABLES
    route,      \* the sources the question was routed to; empty for an empty question
    index,      \* what the frozen index answers to each query at each source
    rewritable, \* _rewrite adds something to the question
    retriever,  \* the budgets of the retriever that is in memory
    saved,      \* RetrievalLoopState as the caller holds it
    loop,       \* the state inside the running resume, or NONE
    room,       \* reads this resume may still make; 0 is no limit
    result      \* AgenticRetrievalResult, or NONE

retrievalVars == <<route, index, rewritable, retriever, saved, loop, room, result>>
question == <<route, index, rewritable>>

Query == {"asked", "rewritten"}

\* A response holds only documents of its source: _retrieve_source and _merge
\* raise on any other, which is SourceFails.
Indexes == {f \in [Query \X Source -> SUBSET Doc] :
               \A q \in Query, s \in Source : \A d \in f[<<q, s>>] : SourceOf[d] = s}

SourcesOf(r) == {r[i] : i \in DOMAIN r}

-----------------------------------------------------------------------------
(* What the critic finds missing; only what may be cited counts.           *)

Gaps(r, evidence) ==
    LET cited == evidence \cap Cited
    IN  {<<"source", s>> : s \in {t \in SourcesOf(r) : \A d \in cited : SourceOf[d] # t}}
          \cup {<<"need", n>> : n \in {m \in Need : \A d \in cited : m \notin Covers[d]}}
          \cup {<<"contradiction", d>> : d \in cited \cap Contradicting}

\* _merge keeps the best result of each document over all responses of the run.
Merged(answers, f) == UNION {f[a] : a \in answers}

NewLoop(r, b) ==
    [hop |-> IF r = <<>> THEN 0 ELSE 1, cursor |-> 0, rewritten |-> FALSE, reads |-> 0,
     answers |-> {}, evidence |-> {}, gaps |-> {}, budgets |-> b]

QueryOf(l) == IF l.rewritten THEN "rewritten" ELSE "asked"

\* Every query is one read (validate_cursor_and_counts), so one counter serves.
Fits(n, b) == n <= b.queries /\ n <= b.reads

Outcome(l, coverage, gaps, reason) ==
    [coverage |-> coverage, gaps |-> gaps, reason |-> reason, evidence |-> l.evidence,
     citations |-> l.evidence \cap Cited, hop |-> l.hop, reads |-> l.reads,
     rewritten |-> l.rewritten]

-----------------------------------------------------------------------------
RetrievalInit ==
    /\ route \in Routes
    /\ index \in Indexes
    /\ rewritable \in BOOLEAN
    /\ retriever \in Budgets
    /\ saved = NewLoop(route, retriever)
    /\ loop = NONE
    /\ room = 0
    /\ result = NONE

\* A call on a checkpoint of another manifest or budget raises and changes nothing.
Accepted(l) == l.budgets = retriever

Resume(allowance) ==
    /\ loop = NONE /\ result = NONE
    /\ Accepted(saved)
    /\ IF saved.hop = 0
       THEN /\ result' = Outcome(saved, FALSE, {<<"question">>}, "empty_query")
            /\ UNCHANGED <<loop, room>>
       ELSE /\ loop' = saved
            /\ room' = allowance
            /\ UNCHANGED result
    /\ UNCHANGED <<question, retriever, saved>>

AfterRead(l) ==
    [l EXCEPT !.answers = @ \cup {<<QueryOf(l), route[l.cursor + 1]>>},
              !.cursor = @ + 1,
              !.reads = @ + 1]

\* The state is handed back at the boundary the allowance ends at.
ReadSource ==
    /\ loop # NONE
    /\ loop.cursor < Len(route)
    /\ Fits(loop.reads + 1, loop.budgets)
    /\ IF room = 1
       THEN saved' = AfterRead(loop) /\ loop' = NONE /\ room' = 0
       ELSE loop' = AfterRead(loop) /\ room' = (IF room = 0 THEN 0 ELSE room - 1)
                                    /\ UNCHANGED saved
    /\ UNCHANGED <<question, retriever, result>>

\* The transport fails, the corpus is not the sealed one any more, or the
\* response is off its route: resume raises, and the caller still has `saved`.
SourceFails ==
    /\ loop # NONE
    /\ loop.cursor < Len(route)
    /\ Fits(loop.reads + 1, loop.budgets)
    /\ loop' = NONE /\ room' = 0
    /\ UNCHANGED <<question, retriever, saved, result>>

Finish(l, coverage, gaps, reason) ==
    /\ result' = Outcome(l, coverage, gaps, reason)
    /\ loop' = NONE /\ room' = 0
    /\ UNCHANGED <<question, retriever, saved>>

RunOutOfBudget ==
    /\ loop # NONE
    /\ loop.cursor < Len(route)
    /\ ~Fits(loop.reads + 1, loop.budgets)
    /\ Finish(loop, FALSE, IF loop.gaps = {} THEN {<<"budget">>} ELSE loop.gaps,
              "budget_exhausted")

\* Mutant: the rewritten question is judged before its sources are read.
FaultyRewrite(l) == [l EXCEPT !.hop = @ + 1, !.rewritten = TRUE]

Rewrite(l) == [l EXCEPT !.hop = @ + 1, !.cursor = 0, !.rewritten = TRUE]

\* fuse_rerank, gap_critic and rewrite once every source of the hop has answered.
Judge ==
    /\ loop # NONE
    /\ loop.cursor = Len(route)
    /\ LET evidence == Merged(loop.answers, index)
           gaps == Gaps(route, evidence)
           judged == [loop EXCEPT !.evidence = evidence, !.gaps = gaps]
       IN  \/ /\ gaps = {}
              /\ Finish(judged, TRUE, {}, IF loop.rewritten
                                          THEN "coverage_satisfied_after_rewrite"
                                          ELSE "coverage_satisfied")
           \/ /\ gaps # {}
              /\ loop.rewritten \/ loop.hop >= loop.budgets.hops
              /\ Finish(judged, FALSE, gaps, "evidence_gap_after_rewrite")
           \/ /\ gaps # {} /\ ~loop.rewritten /\ loop.hop < loop.budgets.hops
              /\ ~Fits(loop.reads + Len(route), loop.budgets)
              /\ Finish(judged, FALSE, gaps, "budget_exhausted")
           \/ /\ gaps # {} /\ ~loop.rewritten /\ loop.hop < loop.budgets.hops
              /\ Fits(loop.reads + Len(route), loop.budgets)
              /\ ~rewritable               \* the watchdog sees the same signature twice
              /\ Finish(judged, FALSE, gaps, "progress_stalled")
           \/ /\ gaps # {} /\ ~loop.rewritten /\ loop.hop < loop.budgets.hops
              /\ Fits(loop.reads + Len(route), loop.budgets)
              /\ rewritable
              /\ loop' = Rewrite(judged)
              /\ UNCHANGED <<question, retriever, saved, room, result>>

\* The process dies, or the checkpoint is taken up by another retriever.
Rebuild(b) ==
    /\ retriever' = b
    /\ loop' = NONE /\ room' = 0
    /\ UNCHANGED <<question, saved, result>>

RetrievalNext ==
    \/ \E n \in Allowances : Resume(n)
    \/ ReadSource \/ SourceFails \/ RunOutOfBudget \/ Judge
    \/ \E b \in Budgets : Rebuild(b)

RetrievalSpec == RetrievalInit /\ [][RetrievalNext]_retrievalVars

-----------------------------------------------------------------------------
LoopStates ==
    [hop : 0 .. 2, cursor : Nat, rewritten : BOOLEAN, reads : Nat,
     answers : SUBSET (Query \X Source), evidence : SUBSET Doc,
     gaps : SUBSET ({"source", "need", "contradiction"} \X (Source \cup Need \cup Doc)),
     budgets : Budgets]

RetrievalTypeOK ==
    /\ route \in Routes /\ index \in Indexes /\ rewritable \in BOOLEAN
    /\ retriever \in Budgets
    /\ saved \in LoopStates
    /\ loop \in LoopStates \cup {NONE}
    /\ room \in Nat

(* The result of a run that reads without interruption, failure or restart, *)
(* written down from the contract: no loop, no cursor, no counter.           *)
AnswersTo(q) == {<<q, s>> : s \in SourcesOf(route)}

Uninterrupted(b) ==
    LET n == Len(route)
        first == Merged(AnswersTo("asked"), index)
        both == Merged(AnswersTo("asked") \cup AnswersTo("rewritten"), index)
        Report(coverage, gaps, reason, evidence, hop, reads, rewritten) ==
            [coverage |-> coverage, gaps |-> gaps, reason |-> reason, evidence |-> evidence,
             citations |-> evidence \cap Cited, hop |-> hop, reads |-> reads,
             rewritten |-> rewritten]
        most == IF b.queries <= b.reads THEN b.queries ELSE b.reads
    IN  IF n = 0 THEN Report(FALSE, {<<"question">>}, "empty_query", {}, 0, 0, FALSE)
        ELSE IF most < n THEN Report(FALSE, {<<"budget">>}, "budget_exhausted", {}, 1, most, FALSE)
        ELSE IF Gaps(route, first) = {}
             THEN Report(TRUE, {}, "coverage_satisfied", first, 1, n, FALSE)
        ELSE IF b.hops = 1
             THEN Report(FALSE, Gaps(route, first), "evidence_gap_after_rewrite",
                         first, 1, n, FALSE)
        ELSE IF most < 2 * n
             THEN Report(FALSE, Gaps(route, first), "budget_exhausted", first, 1, n, FALSE)
        ELSE IF ~rewritable
             THEN Report(FALSE, Gaps(route, first), "progress_stalled", first, 1, n, FALSE)
        ELSE IF Gaps(route, both) = {}
             THEN Report(TRUE, {}, "coverage_satisfied_after_rewrite", both, 2, 2 * n, TRUE)
             ELSE Report(FALSE, Gaps(route, both), "evidence_gap_after_rewrite",
                         both, 2, 2 * n, TRUE)

(* A retrieval that was interrupted at read boundaries, lost reads, was    *)
(* restarted and resumed by other retrievers any number of times returns   *)
(* exactly what an undisturbed one returns: evidence, gaps, stop reason,   *)
(* hops and reads.  Nothing is read twice, skipped, or counted beyond the  *)
(* budget the checkpoint was started with.                                 *)
ResultIsUninterrupted ==
    result # NONE => result = Uninterrupted(saved.budgets)
=============================================================================
