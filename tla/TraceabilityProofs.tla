------------------------- MODULE TraceabilityProofs -------------------------
(***************************************************************************)
(* Proofs about the operational data, for any lots, places, times and      *)
(* units, and datasets of any length and order of storage: whatever the    *)
(* loader accepts passes every check of the specialists, and their two     *)
(* orders of a trace are the service's.                                    *)
(*                                                                         *)
(* The module builds on facts about what the model's operators compute.    *)
(* The walk, the depth and the sums are recursive functions; that they are *)
(* well defined, and what they return, follows by induction over a bounded *)
(* rank: the identifier of an event, or the size of a set.                 *)
(***************************************************************************)
EXTENDS Traceability, WellFoundedInduction, FiniteSetTheorems, SequenceTheorems,
        TLAPS

(* Induction over the naturals, on the set of those that are done.          *)
LEMMA Induction ==
  ASSUME NEW T, 0 \in T, \A n \in Nat : n \in T => n + 1 \in T
  PROVE  Nat \subseteq T
<1> DEFINE D == Nat \ T
<1> SUFFICES ASSUME D # {} PROVE FALSE
  OBVIOUS
<1>1. PICK n \in D : \A m \in D : ~(<<m, n>> \in OpToRel(<, Nat))
  <2>1. D \subseteq Nat
    OBVIOUS
  <2> HIDE DEF D
  <2> QED BY <2>1, NatLessThanWellFounded, WFMin
<1>2. n \in Nat /\ n # 0 /\ n - 1 \in Nat
  OBVIOUS
<1>3. n - 1 \in D
  BY <1>2
<1>4. <<n - 1, n>> \in OpToRel(<, Nat)
  BY <1>2 DEF OpToRel
<1> QED BY <1>1, <1>3, <1>4

\* F[<<x, f>>], the value at x of a recursion that has f elsewhere, needs f
\* only at smaller ranks, and ranks are bounded.
Descends(S, T, N, rank, F) ==
  /\ T # {} /\ N \in Nat /\ rank \in [S -> 0 .. N]
  /\ F \in [S \X [S -> T] -> T]
  /\ \A x \in S : \A g, h \in [S -> T] :
       (\A y \in S : rank[y] < rank[x] => g[y] = h[y]) => F[<<x, g>>] = F[<<x, h>>]

Solves(f, S, T, F) == f \in [S -> T] /\ \A x \in S : f[x] = F[<<x, f>>]

(* A recursion is well defined where each value needs only values of a      *)
(* smaller rank, and ranks are bounded.                                     *)
LEMMA Recursion ==
  ASSUME NEW S, NEW T, NEW N, NEW rank, NEW F, Descends(S, T, N, rank, F)
  PROVE  \E f : Solves(f, S, T, F)
<1> USE DEF Descends
<1> DEFINE Upto(n) == \E f \in [S -> T] : \A x \in S : rank[x] < n => f[x] = F[<<x, f>>]
           D == {n \in Nat : Upto(n)}
<1>1. 0 \in D
  <2>1. PICK t \in T : TRUE
    OBVIOUS
  <2>2. [x \in S |-> t] \in [S -> T]
    OBVIOUS
  <2>3. \A x \in S : ~(rank[x] < 0)
    OBVIOUS
  <2> QED BY <2>2, <2>3
<1>2. ASSUME NEW n \in Nat, n \in D PROVE n + 1 \in D
  <2>1. PICK f \in [S -> T] : \A x \in S : rank[x] < n => f[x] = F[<<x, f>>]
    BY <1>2
  <2> DEFINE g == [x \in S |-> F[<<x, f>>]]
  <2>2. g \in [S -> T]
    OBVIOUS
  <2>3. ASSUME NEW x \in S, rank[x] < n + 1 PROVE g[x] = F[<<x, g>>]
    <3>1. \A y \in S : rank[y] < rank[x] => f[y] = g[y]
      BY <2>1, <2>3
    <3> HIDE DEF g
    <3>2. F[<<x, f>>] = F[<<x, g>>]
      BY <2>2, <3>1 DEF Descends
    <3> QED BY <3>2 DEF g
  <2> HIDE DEF g
  <2>4. Upto(n + 1)
    BY <2>2, <2>3
  <2> QED BY <2>4
<1>3. N + 1 \in D
  <2> HIDE DEF D
  <2> QED BY <1>1, <1>2, Induction
<1>4. PICK f \in [S -> T] : \A x \in S : rank[x] < N + 1 => f[x] = F[<<x, f>>]
  BY <1>3
<1> QED BY <1>4 DEF Solves

\* What holds of the smaller ranks holds of x.
Inductive(S, rank, Holds) ==
  \A x \in S : (\A y \in S : rank[y] < rank[x] => y \in Holds) => x \in Holds

(* Induction over what has bounded ranks.                                   *)
LEMMA RankInduction ==
  ASSUME NEW S, NEW N \in Nat, NEW rank \in [S -> 0 .. N], NEW Holds,
         Inductive(S, rank, Holds)
  PROVE  S \subseteq Holds
<1> DEFINE D == {n \in Nat : \A x \in S : rank[x] < n => x \in Holds}
<1>1. 0 \in D
  OBVIOUS
<1>2. ASSUME NEW n \in Nat, n \in D PROVE n + 1 \in D
  <2>1. ASSUME NEW x \in S, rank[x] < n + 1 PROVE x \in Holds
    <3>1. \A y \in S : rank[y] < rank[x] => y \in Holds
      BY <1>2, <2>1
    <3> QED BY <3>1 DEF Inductive
  <2> QED BY <2>1
<1>3. N + 1 \in D
  <2> HIDE DEF D
  <2> QED BY <1>1, <1>2, Induction
<1> QED BY <1>3

-----------------------------------------------------------------------------
(* Flattening.                                                              *)

(* A position inside a part that fits is a position of the whole.            *)
LEMMA WithinFirst ==
  ASSUME NEW a \in Nat, NEW b \in Nat, NEW c \in Nat, a + b <= c, NEW j \in 1 .. b
  PROVE  a + j \in 1 .. c
OBVIOUS

(* A position among a + b ones that is not one of the first a.              *)
LEMMA SecondPart ==
  ASSUME NEW a \in Nat, NEW b \in Nat, NEW k \in 1 .. a + b, k > a
  PROVE  k - a \in 1 .. b /\ k = a + (k - a)
OBVIOUS

(* What a concatenation holds where.                                        *)
LEMMA Concatenation ==
  ASSUME NEW X, NEW s \in Seq(X), NEW t \in Seq(X)
  PROVE  /\ s \o t \in Seq(X)
         /\ Len(s) \in Nat /\ Len(t) \in Nat
         /\ Len(s \o t) = Len(s) + Len(t)
         /\ \A k \in 1 .. Len(s) : (s \o t)[k] = s[k]
         /\ \A k \in 1 .. Len(t) : (s \o t)[Len(s) + k] = t[k]
<1>1. Len(s) \in Nat /\ Len(t) \in Nat
  BY LenProperties
<1>2. /\ s \o t \in Seq(X)
      /\ Len(s \o t) = Len(s) + Len(t)
      /\ \A i \in 1 .. Len(s) + Len(t) :
           (s \o t)[i] = IF i <= Len(s) THEN s[i] ELSE t[i - Len(s)]
  BY ConcatProperties
<1>3. ASSUME NEW k \in 1 .. Len(s) PROVE (s \o t)[k] = s[k]
  <2>1. k \in 1 .. Len(s) + Len(t) /\ k <= Len(s)
    BY <1>1
  <2> QED BY <1>2, <2>1
<1>4. ASSUME NEW k \in 1 .. Len(t) PROVE (s \o t)[Len(s) + k] = t[k]
  <2>1. /\ Len(s) + k \in 1 .. Len(s) + Len(t) /\ ~(Len(s) + k <= Len(s))
        /\ Len(s) + k - Len(s) = k
    BY <1>1
  <2> QED BY <1>2, <2>1
<1> QED BY <1>1, <1>2, <1>3, <1>4

\* s is the flattened ss, the i-th of which begins after off[i] members.
Flattens(s, ss, off) ==
  /\ off \in [DOMAIN ss -> Nat]
  /\ \A i \in DOMAIN ss, j \in DOMAIN ss :
       i < j => off[i] + Len(ss[i]) <= off[j]
  /\ \A i \in DOMAIN ss : \A j \in DOMAIN ss[i] :
       off[i] + j \in DOMAIN s /\ s[off[i] + j] = ss[i][j]
  /\ \A k \in DOMAIN s : \E i \in DOMAIN ss : \E j \in DOMAIN ss[i] : k = off[i] + j

(* Flattening is a recursion along the sequence.                            *)
LEMMA FlattenEquation ==
  ASSUME NEW X, NEW ss \in Seq(Seq(X)), Len(ss) > 0
  PROVE  \E g \in [1 .. Len(ss) -> Seq(X)] :
           /\ \A i \in 1 .. Len(ss) : g[i] = IF i = 1 THEN ss[i] ELSE g[i - 1] \o ss[i]
           /\ FlattenSeq(ss) = g[Len(ss)]
<1> DEFINE D == 1 .. Len(ss)
           step(i, f) == IF i = 1 THEN ss[i] ELSE f[i - 1] \o ss[i]
           flat(f) == [i \in D |-> step(i, f)]
           rank == [i \in D |-> i]
           F == [p \in D \X [D -> Seq(X)] |-> step(p[1], p[2])]
           h == CHOOSE f : f = flat(f)
<1>1. Len(ss) \in Nat /\ <<>> \in Seq(X) /\ \A i \in D : ss[i] \in Seq(X)
  OBVIOUS
<1>2. ASSUME NEW i \in D, NEW f \in [D -> Seq(X)] PROVE step(i, f) \in Seq(X)
  <2>1. CASE i = 1
    BY <1>1, <2>1
  <2>2. CASE i # 1
    <3>1. i - 1 \in D
      BY <1>1, <2>2
    <3>2. f[i - 1] \in Seq(X) /\ ss[i] \in Seq(X)
      BY <1>1, <3>1
    <3>3. f[i - 1] \o ss[i] \in Seq(X)
      BY <3>2, Concatenation
    <3> QED BY <2>2, <3>3
  <2> QED BY <2>1, <2>2
<1>3. rank \in [D -> 0 .. Len(ss)] /\ \A i \in D : rank[i] = i
  BY <1>1
<1>4. ASSUME NEW i \in D, NEW f, NEW g, \A j \in D : rank[j] < rank[i] => f[j] = g[j]
      PROVE  step(i, f) = step(i, g)
  <2>1. i # 1 => i - 1 \in D /\ i - 1 < i
    BY <1>1
  <2> HIDE DEF rank
  <2> QED BY <1>3, <1>4, <2>1
<1>5. PICK g \in [D -> Seq(X)] : \A i \in D : g[i] = step(i, g)
  <2>0. Seq(X) # {}
    BY <1>1
  <2>1. F \in [D \X [D -> Seq(X)] -> Seq(X)]
    <3> HIDE DEF step, D
    <3> QED BY <1>2
  <2>2. \A i \in D : \A f \in [D -> Seq(X)] : F[<<i, f>>] = step(i, f)
    OBVIOUS
  <2> HIDE DEF F, D, step, rank
  <2>3. Descends(D, Seq(X), Len(ss), rank, F)
    <3>0. Len(ss) \in Nat /\ rank \in [D -> 0 .. Len(ss)]
      BY <1>1, <1>3
    <3> SUFFICES ASSUME NEW i \in D, NEW f \in [D -> Seq(X)], NEW e \in [D -> Seq(X)],
                        \A j \in D : rank[j] < rank[i] => f[j] = e[j]
                 PROVE  F[<<i, f>>] = F[<<i, e>>]
      BY <2>0, <2>1, <3>0 DEF Descends
    <3>1. step(i, f) = step(i, e)
      BY <1>4
    <3> QED BY <2>2, <3>1
  <2>4. PICK g \in [D -> Seq(X)] : \A i \in D : g[i] = F[<<i, g>>]
    BY <2>3, Recursion DEF Solves
  <2> QED BY <2>2, <2>4
<1>6. h = flat(h)
  <2>1. g = flat(g)
    <3> HIDE DEF D, step
    <3> QED BY <1>5
  <2> HIDE DEF D, step
  <2> QED BY <2>1
<1>7. \A i \in D : h[i] = g[i]
  <2>1. \A i \in D : h[i] = step(i, h)
    <3> HIDE DEF D, step, h
    <3> QED BY <1>6
  <2> HIDE DEF D, step, h, rank
  <2> DEFINE Same == {i \in D : h[i] = g[i]}
  <2>2. Inductive(D, rank, Same)
    <3> SUFFICES ASSUME NEW i \in D, \A j \in D : rank[j] < rank[i] => j \in Same
                 PROVE  i \in Same
      BY DEF Inductive
    <3>1. step(i, h) = step(i, g)
      BY <1>4
    <3> QED BY <1>5, <2>1, <3>1
  <2>3. Len(ss) \in Nat /\ rank \in [D -> 0 .. Len(ss)]
    BY <1>1, <1>3
  <2>4. D \subseteq Same
    <3> HIDE DEF Same
    <3> QED BY <2>2, <2>3, RankInduction
  <2> QED BY <2>4
<1>8. FlattenSeq(ss) = h[Len(ss)]
  BY <1>1 DEF FlattenSeq
<1>9. Len(ss) \in D
  BY <1>1
<1> QED
  <2> HIDE DEF h
  <2> QED BY <1>5, <1>7, <1>8, <1>9

(* Flattening keeps every member in its order.                              *)
LEMMA FlattenShape ==
  ASSUME NEW X, NEW ss \in Seq(Seq(X))
  PROVE  /\ FlattenSeq(ss) \in Seq(X)
         /\ \E off : Flattens(FlattenSeq(ss), ss, off)
<1>1. CASE Len(ss) = 0
  <2>1. FlattenSeq(ss) = <<>> /\ ss = <<>>
    BY <1>1 DEF FlattenSeq
  <2>2. Flattens(<<>>, <<>>, [i \in {} |-> 0])
    BY DEF Flattens
  <2> QED BY <2>1, <2>2
<1>2. CASE Len(ss) > 0
  <2> DEFINE D == 1 .. Len(ss)
  <2>1. PICK g \in [D -> Seq(X)] :
           /\ \A i \in D : g[i] = IF i = 1 THEN ss[i] ELSE g[i - 1] \o ss[i]
           /\ FlattenSeq(ss) = g[Len(ss)]
    BY <1>2, FlattenEquation
  <2> DEFINE off == [i \in D |-> IF i = 1 THEN 0 ELSE Len(g[i - 1])]
  <2>2. Len(ss) \in Nat /\ DOMAIN ss = D /\ \A i \in D : ss[i] \in Seq(X)
    OBVIOUS
  <2>3. off \in [D -> Nat]
    BY <2>2
  <2>4. ASSUME NEW i \in D, i > 1
        PROVE  i - 1 \in D /\ g[i] = g[i - 1] \o ss[i] /\ off[i] = Len(g[i - 1])
    BY <2>1, <2>2, <2>4
  <2>5. ASSUME NEW i \in D
        PROVE  /\ Len(g[i]) = off[i] + Len(ss[i])
               /\ \A j \in 1 .. Len(ss[i]) : g[i][off[i] + j] = ss[i][j]
    <3>1. CASE i = 1
      BY <2>1, <2>2, <3>1
    <3>2. CASE i # 1
      <4>0. i > 1
        BY <2>2, <3>2
      <4>1. i - 1 \in D /\ g[i] = g[i - 1] \o ss[i] /\ off[i] = Len(g[i - 1])
        BY <2>4, <4>0
      <4>2. g[i - 1] \in Seq(X) /\ ss[i] \in Seq(X)
        BY <2>1, <2>2, <4>1
      <4> HIDE DEF off
      <4> QED BY <4>1, <4>2, Concatenation
    <3> QED BY <3>1, <3>2
  <2> HIDE DEF off
  <2> DEFINE Good(n) ==
        \A i \in 1 .. n :
          /\ off[i] + Len(ss[i]) <= Len(g[n])
          /\ \A j \in 1 .. Len(ss[i]) : g[n][off[i] + j] = ss[i][j]
      All(n) == \A k \in 1 .. Len(g[n]) :
          \E i \in 1 .. n : \E j \in 1 .. Len(ss[i]) : k = off[i] + j
      Done == {n \in Nat : n \in D => Good(n) /\ All(n)}
  <2>6. 0 \in Done
    OBVIOUS
  <2>7. ASSUME NEW n \in Nat, n \in Done PROVE n + 1 \in Done
    <3> SUFFICES ASSUME n + 1 \in D PROVE Good(n + 1) /\ All(n + 1)
      <4> HIDE DEF Good, All
      <4> QED OBVIOUS
    <3>1. CASE n = 0
      <4>1. off[1] = 0 /\ Len(g[1]) = Len(ss[1]) /\ Len(ss[1]) \in Nat
        BY <2>1, <2>2, <2>5, <3>1 DEF off
      <4>2. Good(1)
        <5>1. \A i \in 1 .. 1 : i = 1
          OBVIOUS
        <5>2. 1 \in D
          BY <3>1
        <5>3. \A j \in 1 .. Len(ss[1]) : g[1][off[1] + j] = ss[1][j]
          BY <2>5, <5>2
        <5> QED BY <4>1, <5>1, <5>3
      <4>3. All(1)
        BY <4>1
      <4> QED BY <3>1, <4>2, <4>3
    <3>2. CASE n > 0
      <4>1. n \in D /\ g[n + 1] = g[n] \o ss[n + 1] /\ off[n + 1] = Len(g[n])
        <5>1. n + 1 > 1 /\ (n + 1) - 1 = n
          BY <3>2
        <5> QED BY <2>4, <5>1
      <4>2. Good(n) /\ All(n)
        BY <2>7, <4>1
      <4>3. g[n] \in Seq(X) /\ ss[n + 1] \in Seq(X)
            /\ Len(g[n + 1]) = Len(g[n]) + Len(ss[n + 1])
            /\ \A k \in 1 .. Len(g[n]) : g[n + 1][k] = g[n][k]
        <5>1. g[n] \in Seq(X) /\ ss[n + 1] \in Seq(X)
          BY <2>1, <2>2, <4>1
        <5> QED BY <4>1, <5>1, Concatenation
      <4>4. \A i \in 1 .. n : off[i] \in Nat /\ ss[i] \in Seq(X)
        <5>1. 1 .. n \subseteq D
          BY <2>2, <4>1
        <5> HIDE DEF D
        <5> QED BY <2>2, <2>3, <5>1
      <4>5. Good(n + 1)
        <5>1. ASSUME NEW i \in 1 .. n
              PROVE  /\ off[i] + Len(ss[i]) <= Len(g[n + 1])
                     /\ \A j \in 1 .. Len(ss[i]) : g[n + 1][off[i] + j] = ss[i][j]
          <6>1. off[i] \in Nat /\ Len(ss[i]) \in Nat /\ Len(g[n]) \in Nat /\ Len(ss[n + 1]) \in Nat
            BY <4>3, <4>4, LenProperties
          <6>2. off[i] + Len(ss[i]) <= Len(g[n])
            BY <4>2
          <6>3. ASSUME NEW j \in 1 .. Len(ss[i])
                PROVE  off[i] + j \in 1 .. Len(g[n]) /\ g[n][off[i] + j] = ss[i][j]
            <7>1. off[i] + j \in 1 .. Len(g[n])
              <8> HIDE DEF Good, All, Done, D
              <8> QED BY <6>1, <6>2, WithinFirst, Zenon
            <7> QED BY <4>2, <7>1
          <6>4. off[i] + Len(ss[i]) <= Len(g[n + 1])
            <7>1. Len(g[n + 1]) = Len(g[n]) + Len(ss[n + 1])
              BY <4>3
            <7>2. \A a, b, c \in Nat : a <= b => a <= b + c
              OBVIOUS
            <7>3. off[i] + Len(ss[i]) \in Nat
              BY <6>1
            <7> HIDE DEF Good, All, D
            <7> QED BY <6>1, <6>2, <7>1, <7>2, <7>3
          <6> QED BY <4>3, <6>3, <6>4
        <5>2. /\ off[n + 1] + Len(ss[n + 1]) <= Len(g[n + 1])
              /\ \A j \in 1 .. Len(ss[n + 1]) : g[n + 1][off[n + 1] + j] = ss[n + 1][j]
          <6>1. Len(g[n + 1]) = off[n + 1] + Len(ss[n + 1])
                /\ \A j \in 1 .. Len(ss[n + 1]) : g[n + 1][off[n + 1] + j] = ss[n + 1][j]
            BY <2>5
          <6>2. Len(g[n]) \in Nat /\ Len(ss[n + 1]) \in Nat
            BY <4>3, LenProperties
          <6> QED BY <4>1, <6>1, <6>2
        <5>3. \A i \in 1 .. n + 1 : i \in 1 .. n \/ i = n + 1
          OBVIOUS
        <5> QED BY <5>1, <5>2, <5>3
      <4>6. All(n + 1)
        <5> SUFFICES ASSUME NEW k \in 1 .. Len(g[n + 1])
                     PROVE  \E i \in 1 .. n + 1 : \E j \in 1 .. Len(ss[i]) : k = off[i] + j
          OBVIOUS
        <5>0. Len(g[n]) \in Nat /\ Len(ss[n + 1]) \in Nat
          BY <4>3, LenProperties
        <5>1. CASE k <= Len(g[n])
          <6>1. k \in 1 .. Len(g[n])
            BY <4>3, <5>0, <5>1
          <6>2. PICK i \in 1 .. n : \E j \in 1 .. Len(ss[i]) : k = off[i] + j
            BY <4>2, <6>1
          <6>3. i \in 1 .. n + 1
            OBVIOUS
          <6> QED BY <6>2, <6>3
        <5>2. CASE k > Len(g[n])
          <6>1. k - Len(g[n]) \in 1 .. Len(ss[n + 1])
            <7>1. Len(g[n + 1]) = Len(g[n]) + Len(ss[n + 1])
              BY <4>3
            <7>3. k \in 1 .. Len(g[n]) + Len(ss[n + 1])
              BY <7>1
            <7> HIDE DEF Good, All, D
            <7> QED BY <5>0, <5>2, <7>3, SecondPart, Zenon
          <6>2. k = off[n + 1] + (k - Len(g[n]))
            BY <4>1, <5>0
          <6>3. n + 1 \in 1 .. n + 1
            OBVIOUS
          <6> QED BY <6>1, <6>2, <6>3
        <5> QED BY <5>0, <5>1, <5>2
      <4> QED BY <4>5, <4>6
    <3> HIDE DEF Good, All
    <3> QED BY <3>1, <3>2
  <2>8. Nat \subseteq Done
    <3> HIDE DEF Done
    <3> QED BY <2>6, <2>7, Induction
  <2>9. Good(Len(ss)) /\ All(Len(ss))
    <3>1. Len(ss) \in Nat /\ Len(ss) \in D
      BY <1>2, <2>2
    <3> QED BY <2>8, <3>1
  <2>10. ASSUME NEW i \in D, NEW j \in D, i < j PROVE off[i] + Len(ss[i]) <= off[j]
    <3>1. j - 1 \in Nat /\ j - 1 \in D /\ off[j] = Len(g[j - 1]) /\ i \in 1 .. j - 1
      BY <2>2, <2>4, <2>10
    <3>2. Good(j - 1)
      BY <2>8, <3>1
    <3> QED BY <3>1, <3>2
  <2>11. FlattenSeq(ss) \in Seq(X) /\ DOMAIN FlattenSeq(ss) = 1 .. Len(g[Len(ss)])
    BY <1>2, <2>1, <2>2
  <2>12. ASSUME NEW i \in D, NEW j \in DOMAIN ss[i]
         PROVE  off[i] + j \in 1 .. Len(g[Len(ss)]) /\ g[Len(ss)][off[i] + j] = ss[i][j]
    <3>1. off[i] \in Nat /\ ss[i] \in Seq(X) /\ g[Len(ss)] \in Seq(X)
      BY <2>1, <2>2, <2>3, <2>11
    <3>2. Len(ss[i]) \in Nat /\ j \in 1 .. Len(ss[i]) /\ Len(g[Len(ss)]) \in Nat
      BY <3>1, LenProperties
    <3>3. off[i] + Len(ss[i]) <= Len(g[Len(ss)]) /\ g[Len(ss)][off[i] + j] = ss[i][j]
      BY <2>9, <3>2
    <3> QED BY <3>1, <3>2, <3>3
  <2>13. ASSUME NEW k \in 1 .. Len(g[Len(ss)])
         PROVE  \E i \in D : \E j \in DOMAIN ss[i] : k = off[i] + j
    <3>1. PICK i \in D : \E j \in 1 .. Len(ss[i]) : k = off[i] + j
      BY <2>9
    <3>2. DOMAIN ss[i] = 1 .. Len(ss[i])
      BY <2>2
    <3> QED BY <3>1, <3>2
  <2>14. Flattens(FlattenSeq(ss), ss, off)
    <3> HIDE DEF Good, All, D
    <3> QED BY <2>1, <2>2, <2>3, <2>10, <2>11, <2>12, <2>13 DEF Flattens
  <2> QED BY <2>11, <2>14
<1> QED BY <1>1, <1>2

(* What a flattened sequence holds.                                         *)
LEMMA FlattenedSet ==
  ASSUME NEW X, NEW ss \in Seq(Seq(X))
  PROVE  ToSet(FlattenSeq(ss)) = UNION {ToSet(ss[i]) : i \in DOMAIN ss}
<1>1. PICK off : Flattens(FlattenSeq(ss), ss, off)
  BY FlattenShape
<1>2. ASSUME NEW x \in ToSet(FlattenSeq(ss)) PROVE \E i \in DOMAIN ss : x \in ToSet(ss[i])
  <2>1. PICK k \in DOMAIN FlattenSeq(ss) : x = FlattenSeq(ss)[k]
    BY DEF ToSet
  <2>2. PICK i \in DOMAIN ss : \E j \in DOMAIN ss[i] : k = off[i] + j
    BY <1>1 DEF Flattens
  <2> QED BY <1>1, <2>1, <2>2 DEF Flattens, ToSet
<1>3. ASSUME NEW i \in DOMAIN ss, NEW x \in ToSet(ss[i]) PROVE x \in ToSet(FlattenSeq(ss))
  BY <1>1 DEF Flattens, ToSet
<1> QED BY <1>2, <1>3

\* s is what es has in S, and the k-th of s is the pos[k]-th of es.
Picks(s, es, S, pos) ==
  /\ pos \in [DOMAIN s -> DOMAIN es]
  /\ \A k \in DOMAIN s : s[k] = es[pos[k]] /\ s[k] \in S
  /\ \A k, m \in DOMAIN s : k < m => pos[k] < pos[m]
  /\ \A i \in DOMAIN es : es[i] \in S => \E k \in DOMAIN s : pos[k] = i

(* A sequence of one.                                                       *)
LEMMA Single ==
  /\ DOMAIN <<>> = {}
  /\ \A x : DOMAIN <<x>> = {1} /\ Len(<<x>>) = 1 /\ <<x>>[1] = x
OBVIOUS

(* Among selects, and keeps the order.                                      *)
LEMMA AmongShape ==
  ASSUME NEW X, NEW es \in Seq(X), NEW S
  PROVE  Among(es, S) \in Seq(X) /\ \E pos : Picks(Among(es, S), es, S, pos)
<1> DEFINE D == DOMAIN es
           ss == [i \in D |-> IF es[i] \in S THEN <<es[i]>> ELSE <<>>]
           s == Among(es, S)
<1>1. D = 1 .. Len(es) /\ Len(es) \in Nat /\ \A i \in D : es[i] \in X
  OBVIOUS
<1>2. ss \in Seq(Seq(X)) /\ DOMAIN ss = D
  <2>1. ASSUME NEW x \in X PROVE <<x>> \in Seq(X)
    OBVIOUS
  <2>2. \A i \in D : ss[i] \in Seq(X)
    BY <1>1, <2>1
  <2> HIDE DEF ss
  <2>3. ss \in [1 .. Len(es) -> Seq(X)]
    BY <1>1, <2>2 DEF ss
  <2> QED BY <1>1, <2>3
<1>3. \A i \in D : ss[i] = IF es[i] \in S THEN <<es[i]>> ELSE <<>>
  OBVIOUS
<1>4. s = FlattenSeq(ss)
  BY DEF Among
<1> HIDE DEF ss, s
<1>5. s \in Seq(X)
  BY <1>2, <1>4, FlattenShape
<1>6. PICK off : Flattens(s, ss, off)
  BY <1>2, <1>4, FlattenShape
<1>7. ASSUME NEW k \in DOMAIN s
      PROVE  \E i \in D : es[i] \in S /\ k = off[i] + 1 /\ s[k] = es[i]
  <2>1. PICK i \in D : \E j \in DOMAIN ss[i] : k = off[i] + j
    BY <1>2, <1>6 DEF Flattens
  <2>2. PICK j \in DOMAIN ss[i] : k = off[i] + j
    BY <2>1
  <2>3. es[i] \in S
    <3>1. ss[i] # <<>>
      BY <2>2, Single
    <3> QED BY <1>3, <3>1
  <2>4. ss[i] = <<es[i]>> /\ j = 1
    <3>1. ss[i] = <<es[i]>>
      BY <1>3, <2>3
    <3> QED BY <2>2, <3>1, Single
  <2>5. s[k] = ss[i][j]
    BY <1>2, <1>6, <2>2 DEF Flattens
  <2> QED BY <2>2, <2>3, <2>4, <2>5
<1> DEFINE pos == [k \in DOMAIN s |->
                    CHOOSE i \in D : es[i] \in S /\ k = off[i] + 1 /\ s[k] = es[i]]
<1>8. ASSUME NEW k \in DOMAIN s
      PROVE  pos[k] \in D /\ es[pos[k]] \in S /\ k = off[pos[k]] + 1 /\ s[k] = es[pos[k]]
  BY <1>7
<1>9. DOMAIN pos = DOMAIN s
  OBVIOUS
<1>10. pos \in [DOMAIN s -> D]
  BY <1>8
<1> HIDE DEF pos
<1>11. ASSUME NEW i \in D, es[i] \in S
       PROVE  off[i] \in Nat /\ off[i] + 1 \in DOMAIN s /\ Len(ss[i]) = 1
  <2>1. ss[i] = <<es[i]>> /\ 1 \in DOMAIN ss[i] /\ Len(ss[i]) = 1
    <3>1. ss[i] = <<es[i]>>
      BY <1>3, <1>11
    <3> QED BY <3>1, Single
  <2> QED BY <1>2, <1>6, <2>1 DEF Flattens
<1>12. ASSUME NEW i \in D, NEW m \in D, es[i] \in S, es[m] \in S, i < m PROVE off[i] < off[m]
  <2>1. off[i] + Len(ss[i]) <= off[m]
    BY <1>2, <1>6, <1>12 DEF Flattens
  <2>2. Len(ss[i]) = 1 /\ off[i] \in Nat /\ off[m] \in Nat
    BY <1>11, <1>12
  <2> QED BY <2>1, <2>2
<1>13. ASSUME NEW k \in DOMAIN s, NEW m \in DOMAIN s, k < m PROVE pos[k] < pos[m]
  <2>1. pos[k] \in Nat /\ pos[m] \in Nat
    BY <1>1, <1>8
  <2>2. off[pos[k]] < off[pos[m]]
    BY <1>8, <1>11, <1>13
  <2>3. ~(pos[m] < pos[k])
    BY <1>8, <1>11, <1>12, <2>2
  <2>4. pos[m] # pos[k]
    BY <1>8, <1>11, <2>2
  <2> QED BY <2>1, <2>3, <2>4
<1>14. ASSUME NEW i \in D, es[i] \in S PROVE \E k \in DOMAIN s : pos[k] = i
  <2> DEFINE k == off[i] + 1
  <2>1. k \in DOMAIN s /\ off[i] \in Nat
    BY <1>11, <1>14
  <2>2. off[pos[k]] = off[i]
    BY <1>8, <1>11, <2>1
  <2>3. ~(pos[k] < i) /\ ~(i < pos[k])
    BY <1>8, <1>11, <1>12, <1>14, <2>1, <2>2
  <2>4. pos[k] = i
    BY <1>1, <1>8, <2>1, <2>3
  <2> QED BY <2>1, <2>4
<1>15. Picks(s, es, S, pos)
  BY <1>8, <1>10, <1>13, <1>14 DEF Picks
<1> QED BY <1>5, <1>15 DEF s

\* A sequence of the members of E, each once.
Lists(es, E) == es \in Seq(E) /\ ToSet(es) = E /\ IsInjective(es)

(* What is selected from a listing lists what was selected.                 *)
LEMMA AmongLists ==
  ASSUME NEW E, NEW es, Lists(es, E), NEW S \in SUBSET E
  PROVE  Lists(Among(es, S), S)
<1> DEFINE s == Among(es, S)
<1>1. s \in Seq(E)
  BY AmongShape DEF Lists
<1>2. PICK pos : Picks(s, es, S, pos)
  BY AmongShape DEF Lists
<1>3. DOMAIN s \subseteq Nat /\ DOMAIN es \subseteq Nat
  BY <1>1 DEF Lists
<1> HIDE DEF s
<1>4. s \in Seq(S)
  <2>1. Len(s) \in Nat /\ DOMAIN s = 1 .. Len(s) /\ s \in [1 .. Len(s) -> E]
    BY <1>1, LenProperties
  <2>2. s \in [1 .. Len(s) -> S]
    BY <1>2, <2>1 DEF Picks
  <2> QED BY <2>1, <2>2
<1>5. ToSet(s) = S
  <2>1. ASSUME NEW x \in S PROVE x \in ToSet(s)
    <3>1. PICK i \in DOMAIN es : es[i] = x
      BY DEF Lists, ToSet
    <3>2. PICK k \in DOMAIN s : pos[k] = i
      BY <1>2, <3>1 DEF Picks
    <3> QED BY <1>2, <3>1, <3>2 DEF Picks, ToSet
  <2> QED BY <1>2, <2>1 DEF Picks, ToSet
<1>6. IsInjective(s)
  <2> SUFFICES ASSUME NEW k \in DOMAIN s, NEW m \in DOMAIN s, s[k] = s[m], k # m PROVE FALSE
    BY DEF IsInjective
  <2>1. pos[k] = pos[m]
    BY <1>2 DEF Picks, Lists, IsInjective
  <2>2. pos[k] \in Nat
    BY <1>2, <1>3 DEF Picks
  <2>3. k < m \/ m < k
    BY <1>3
  <2> QED BY <1>2, <2>1, <2>2, <2>3 DEF Picks
<1> QED BY <1>4, <1>5, <1>6 DEF Lists, s

-----------------------------------------------------------------------------
(* The walk.                                                                *)

\* Events with identifiers up to N, each root or after its parent.
Tree(E, N) ==
  /\ N \in Nat
  /\ \A e \in E : e.id \in 1 .. N
  /\ \A d, e \in E : d.id = e.id => d = e
  /\ \A e \in E : e.parent # Root => \E p \in E : p.id = e.parent /\ p.id < e.id

Ids(E) == {Root} \cup {e.id : e \in E}
ChildrenIn(E, id) == {e \in E : e.parent = id}

\* Each child and what w has below it.
Row(es, w, id) ==
  [k \in DOMAIN Children(es, id) |-> <<Children(es, id)[k]>> \o w[Children(es, id)[k].id]]

(* The children of an event are found, each once.                           *)
LEMMA ChildrenAreListed ==
  ASSUME NEW E, NEW es, Lists(es, E), NEW id
  PROVE  Lists(Children(es, id), ChildrenIn(E, id))
<1>1. ChildrenIn(E, id) \in SUBSET E /\ ToSet(es) = E
  BY DEF ChildrenIn, Lists
<1>2. Lists(Among(es, ChildrenIn(E, id)), ChildrenIn(E, id))
  BY <1>1, AmongLists
<1> QED BY <1>1, <1>2 DEF Children, ChildrenIn

(* A child has a larger identifier than its parent.                         *)
LEMMA ChildComesLater ==
  ASSUME NEW E, NEW N, Tree(E, N), NEW id \in Ids(E), NEW e \in ChildrenIn(E, id)
  PROVE  /\ e \in E /\ e.parent = id /\ e.id \in Ids(E)
         /\ id \in 0 .. N /\ e.id \in 1 .. N /\ id < e.id
<1>1. e \in E /\ e.parent = id /\ e.id \in Ids(E) /\ e.id \in 1 .. N
  BY DEF ChildrenIn, Ids, Tree
<1>2. CASE id = Root
  BY <1>1, <1>2 DEF Root, Tree
<1>3. CASE id # Root
  <2>1. PICK p \in E : p.id = id /\ p.id < e.id
    BY <1>1, <1>3 DEF Tree
  <2> QED BY <1>1, <2>1 DEF Tree
<1> QED BY <1>2, <1>3

(* What the rows of the walk are made of.                                   *)
LEMMA RowType ==
  ASSUME NEW E, NEW N, Tree(E, N), NEW es, Lists(es, E), NEW id \in Ids(E),
         NEW w, \A e \in E : w[e.id] \in Seq(E)
  PROVE  /\ Row(es, w, id) \in Seq(Seq(E))
         /\ DOMAIN Row(es, w, id) = DOMAIN Children(es, id)
         /\ \A k \in DOMAIN Children(es, id) :
              LET c == Children(es, id)[k]
              IN  c \in ChildrenIn(E, id) /\ Row(es, w, id)[k] = <<c>> \o w[c.id]
<1> DEFINE cs == Children(es, id)
           row == Row(es, w, id)
<1>1. cs \in Seq(ChildrenIn(E, id))
  BY ChildrenAreListed DEF Lists
<1> HIDE DEF cs
<1>2. Len(cs) \in Nat /\ DOMAIN cs = 1 .. Len(cs) /\ \A k \in DOMAIN cs : cs[k] \in ChildrenIn(E, id)
  BY <1>1, LenProperties
<1>3. DOMAIN row = DOMAIN cs /\ \A k \in DOMAIN cs : row[k] = <<cs[k]>> \o w[cs[k].id]
  BY DEF Row, cs
<1>4. row = [k \in DOMAIN cs |-> <<cs[k]>> \o w[cs[k].id]]
  BY DEF Row, cs
<1> HIDE DEF row
<1>5. ASSUME NEW k \in DOMAIN cs PROVE row[k] \in Seq(E)
  <2>1. cs[k] \in E
    BY <1>2, ChildComesLater
  <2>2. <<cs[k]>> \in Seq(E) /\ w[cs[k].id] \in Seq(E)
    BY <2>1
  <2> QED BY <1>3, <2>2, Concatenation
<1>6. row \in [1 .. Len(cs) -> Seq(E)]
  BY <1>2, <1>4, <1>5
<1>7. row \in Seq(Seq(E))
  BY <1>2, <1>6
<1> QED BY <1>2, <1>3, <1>7 DEF cs, row

(* The walk is well defined, as a child's identifier is larger.             *)
LEMMA WalkEquation ==
  ASSUME NEW E, NEW N, Tree(E, N), NEW es, Lists(es, E)
  PROVE  /\ Walk(es) \in [Ids(E) -> Seq(E)]
         /\ \A id \in Ids(E) : Walk(es)[id] = FlattenSeq(Row(es, Walk(es), id))
<1> DEFINE S == Ids(E)
           rank == [id \in S |-> N - id]
           F == [p \in S \X [S -> Seq(E)] |-> FlattenSeq(Row(es, p[2], p[1]))]
           flat(f) == [id \in S |-> FlattenSeq(Row(es, f, id))]
           h == CHOOSE f : f = flat(f)
<1>1. \A id \in S : id \in 0 .. N
  BY DEF Ids, Tree, Root
<1>2. N \in Nat /\ rank \in [S -> 0 .. N] /\ \A id \in S : rank[id] = N - id
  <2>1. N \in Nat
    BY DEF Tree
  <2>2. \A id \in S : N - id \in 0 .. N
    BY <1>1, <2>1
  <2> HIDE DEF S
  <2> QED BY <2>1, <2>2
<1>3. ASSUME NEW id \in S, NEW f \in [S -> Seq(E)] PROVE FlattenSeq(Row(es, f, id)) \in Seq(E)
  <2>1. \A e \in E : f[e.id] \in Seq(E)
    BY DEF Ids
  <2>2. Row(es, f, id) \in Seq(Seq(E))
    BY <2>1, RowType
  <2> QED BY <2>2, FlattenShape
<1>4. ASSUME NEW id \in S, NEW f, NEW g, \A m \in S : rank[m] < rank[id] => f[m] = g[m]
      PROVE  Row(es, f, id) = Row(es, g, id)
  <2> DEFINE cs == Children(es, id)
  <2>1. ASSUME NEW k \in DOMAIN cs PROVE f[cs[k].id] = g[cs[k].id]
    <3>1. cs \in Seq(ChildrenIn(E, id))
      BY ChildrenAreListed DEF Lists
    <3>2. cs[k] \in ChildrenIn(E, id)
      <4> HIDE DEF cs
      <4> QED BY <3>1
    <3>3. cs[k].id \in S /\ cs[k].id \in 1 .. N /\ id \in 0 .. N /\ id < cs[k].id
      <4> HIDE DEF cs
      <4> QED BY <3>2, ChildComesLater
    <3>4. rank[cs[k].id] < rank[id]
      <4> HIDE DEF rank, cs, S
      <4> QED BY <1>2, <3>3
    <3> QED BY <1>4, <3>3, <3>4
  <2> QED BY <2>1 DEF Row
<1> HIDE DEF S, rank
<1>5. PICK g \in [S -> Seq(E)] : \A id \in S : g[id] = FlattenSeq(Row(es, g, id))
  <2>1. F \in [S \X [S -> Seq(E)] -> Seq(E)]
    BY <1>3
  <2>2. \A id \in S : \A f \in [S -> Seq(E)] : F[<<id, f>>] = FlattenSeq(Row(es, f, id))
    OBVIOUS
  <2>3. Seq(E) # {}
    <3>1. <<>> \in Seq(E)
      OBVIOUS
    <3> QED BY <3>1
  <2> HIDE DEF F
  <2>4. Descends(S, Seq(E), N, rank, F)
    <3> SUFFICES ASSUME NEW id \in S, NEW f \in [S -> Seq(E)], NEW e \in [S -> Seq(E)],
                        \A m \in S : rank[m] < rank[id] => f[m] = e[m]
                 PROVE  F[<<id, f>>] = F[<<id, e>>]
      BY <1>2, <2>1, <2>3 DEF Descends
    <3>1. Row(es, f, id) = Row(es, e, id)
      BY <1>4
    <3> QED BY <2>2, <3>1
  <2>5. PICK f : Solves(f, S, Seq(E), F)
    BY <2>4, Recursion
  <2> QED BY <2>2, <2>5 DEF Solves
<1>6. h = flat(h)
  <2>1. g = flat(g)
    BY <1>5
  <2> QED BY <2>1
<1>7. Walk(es) = h
  <2>1. S = {Root} \cup {e.id : e \in ToSet(es)}
    BY DEF S, Ids, Lists
  <2> QED BY <2>1 DEF Walk, Row
<1> HIDE DEF h
<1>8. \A id \in S : h[id] = g[id]
  <2> DEFINE Same == {id \in S : h[id] = g[id]}
  <2>1. Inductive(S, rank, Same)
    <3> SUFFICES ASSUME NEW id \in S, \A m \in S : rank[m] < rank[id] => m \in Same
                 PROVE  id \in Same
      BY DEF Inductive
    <3>1. Row(es, h, id) = Row(es, g, id)
      BY <1>4
    <3>2. h[id] = FlattenSeq(Row(es, h, id))
      BY <1>6
    <3> QED BY <1>5, <3>1, <3>2
  <2>2. S \subseteq Same
    <3> HIDE DEF Same
    <3> QED BY <1>2, <2>1, RankInduction
  <2> QED BY <2>2
<1>9. h \in [S -> Seq(E)]
  BY <1>5, <1>6, <1>8
<1>10. \A id \in S : h[id] = FlattenSeq(Row(es, h, id))
  BY <1>6
<1> QED BY <1>7, <1>9, <1>10 DEF S

\* What holds of every child of id holds of id; what holds of the events
\* before e holds of e.
FromChildren(E, Holds) ==
  \A id \in Ids(E) : (\A c \in ChildrenIn(E, id) : c.id \in Holds) => id \in Holds
FromEarlier(E, Holds) ==
  \A e \in E : (\A p \in E : p.id < e.id => p \in Holds) => e \in Holds

(* Induction from the leaves up.                                            *)
LEMMA Ascent ==
  ASSUME NEW E, NEW N, Tree(E, N), NEW Holds, FromChildren(E, Holds)
  PROVE  Ids(E) \subseteq Holds
<1> DEFINE S == Ids(E)
           rank == [id \in S |-> N - id]
<1>1. \A id \in S : id \in 0 .. N
  BY DEF Ids, Tree, Root
<1>2. N \in Nat /\ rank \in [S -> 0 .. N] /\ \A id \in S : rank[id] = N - id
  <2>1. N \in Nat
    BY DEF Tree
  <2>2. \A id \in S : N - id \in 0 .. N
    BY <1>1, <2>1
  <2> HIDE DEF S
  <2> QED BY <2>1, <2>2
<1> HIDE DEF rank, S
<1>3. ASSUME NEW id \in S, \A m \in S : rank[m] < rank[id] => m \in Holds PROVE id \in Holds
  <2>1. ASSUME NEW c \in ChildrenIn(E, id) PROVE c.id \in Holds
    <3>1. c.id \in S /\ c.id \in 1 .. N /\ id \in 0 .. N /\ id < c.id
      BY ChildComesLater DEF S
    <3>2. rank[c.id] < rank[id]
      BY <1>2, <3>1
    <3> QED BY <1>3, <3>1, <3>2
  <2> QED BY <2>1 DEF FromChildren, S
<1>4. Inductive(S, rank, Holds)
  BY <1>3 DEF Inductive
<1> QED BY <1>2, <1>4, RankInduction DEF S

(* Induction along the identifiers.                                         *)
LEMMA Descending ==
  ASSUME NEW E, NEW N, Tree(E, N), NEW Holds, FromEarlier(E, Holds)
  PROVE  E \subseteq Holds
<1> DEFINE rank == [e \in E |-> e.id]
<1>1. N \in Nat /\ rank \in [E -> 0 .. N] /\ \A e \in E : rank[e] = e.id
  BY DEF Tree
<1> HIDE DEF rank
<1>2. Inductive(E, rank, Holds)
  BY <1>1 DEF Inductive, FromEarlier
<1> QED BY <1>1, <1>2, RankInduction

\* The events below an event, or below Root.
Below(es, id) == ToSet(Walk(es)[id])

(* The members of a sequence and of one before it.                          *)
LEMMA SetOfConcatenation ==
  ASSUME NEW X, NEW x \in X, NEW s \in Seq(X)
  PROVE  ToSet(<<x>> \o s) = {x} \cup ToSet(s)
<1>1. <<x>> \in Seq(X) /\ Len(<<x>>) = 1 /\ <<x>>[1] = x
  OBVIOUS
<1> DEFINE t == <<x>> \o s
<1>2. /\ t \in Seq(X) /\ Len(s) \in Nat /\ Len(t) = 1 + Len(s) /\ t[1] = x
      /\ \A k \in 1 .. Len(s) : t[1 + k] = s[k]
  <2>1. 1 \in 1 .. 1
    OBVIOUS
  <2> QED BY <1>1, <2>1, Concatenation
<1> HIDE DEF t
<1>3. DOMAIN t = 1 .. 1 + Len(s) /\ DOMAIN s = 1 .. Len(s)
  BY <1>2, LenProperties
<1>4. ASSUME NEW k \in DOMAIN t PROVE t[k] \in {x} \cup ToSet(s)
  <2>1. CASE k = 1
    BY <1>2, <2>1
  <2>2. CASE k # 1
    <3>1. k - 1 \in DOMAIN s /\ k = 1 + (k - 1)
      BY <1>2, <1>3, <2>2
    <3>2. t[k] = s[k - 1]
      BY <1>2, <1>3, <3>1
    <3> QED BY <3>1, <3>2 DEF ToSet
  <2> QED BY <2>1, <2>2
<1>5. x \in ToSet(t)
  BY <1>2, <1>3 DEF ToSet
<1>6. ASSUME NEW k \in DOMAIN s PROVE s[k] \in ToSet(t)
  <2>1. 1 + k \in DOMAIN t /\ t[1 + k] = s[k]
    BY <1>2, <1>3
  <2> QED BY <2>1 DEF ToSet
<1> QED BY <1>4, <1>5, <1>6 DEF ToSet, t

(* Below id are its children and what is below them.                        *)
LEMMA BelowEquation ==
  ASSUME NEW E, NEW N, Tree(E, N), NEW es, Lists(es, E), NEW id \in Ids(E), NEW e
  PROVE  e \in Below(es, id) <=> \E c \in ChildrenIn(E, id) : e = c \/ e \in Below(es, c.id)
<1> DEFINE w == Walk(es)
           cs == Children(es, id)
           row == Row(es, w, id)
<1>1. /\ \A d \in E : w[d.id] \in Seq(E)
      /\ w[id] = FlattenSeq(row)
  <2>1. w \in [Ids(E) -> Seq(E)] /\ w[id] = FlattenSeq(row)
    BY WalkEquation
  <2>2. \A d \in E : d.id \in Ids(E)
    BY DEF Ids
  <2> HIDE DEF w, row
  <2> QED BY <2>1, <2>2
<1>2. /\ row \in Seq(Seq(E)) /\ DOMAIN row = DOMAIN cs
      /\ \A k \in DOMAIN cs : cs[k] \in ChildrenIn(E, id) /\ row[k] = <<cs[k]>> \o w[cs[k].id]
  BY <1>1, RowType
<1>3. ToSet(cs) = ChildrenIn(E, id)
  BY ChildrenAreListed DEF Lists
<1> HIDE DEF row, cs, w
<1>4. ToSet(w[id]) = UNION {ToSet(row[k]) : k \in DOMAIN row}
  BY <1>1, <1>2, FlattenedSet
<1>5. ASSUME NEW k \in DOMAIN cs PROVE ToSet(row[k]) = {cs[k]} \cup ToSet(w[cs[k].id])
  <2>1. cs[k] \in E /\ w[cs[k].id] \in Seq(E)
    BY <1>1, <1>2 DEF ChildrenIn
  <2>2. ToSet(<<cs[k]>> \o w[cs[k].id]) = {cs[k]} \cup ToSet(w[cs[k].id])
    BY <2>1, SetOfConcatenation, Zenon
  <2> QED BY <1>2, <2>2
<1>6. ASSUME e \in ToSet(w[id]) PROVE \E c \in ChildrenIn(E, id) : e = c \/ e \in ToSet(w[c.id])
  <2>1. PICK k \in DOMAIN cs : e \in ToSet(row[k])
    BY <1>2, <1>4, <1>6
  <2> QED BY <1>2, <1>5, <2>1
<1>7. ASSUME NEW c \in ChildrenIn(E, id), e = c \/ e \in ToSet(w[c.id]) PROVE e \in ToSet(w[id])
  <2>1. PICK k \in DOMAIN cs : cs[k] = c
    BY <1>3 DEF ToSet
  <2> QED BY <1>2, <1>4, <1>5, <1>7, <2>1
<1> QED BY <1>6, <1>7 DEF Below, w

(* Only later events are below.                                             *)
LEMMA BelowIsLater ==
  ASSUME NEW E, NEW N, Tree(E, N), NEW es, Lists(es, E)
  PROVE  \A id \in Ids(E) : \A e \in Below(es, id) : e \in E /\ id < e.id
<1> DEFINE Holds == {id \in Ids(E) : \A e \in Below(es, id) : e \in E /\ id < e.id}
<1>1. FromChildren(E, Holds)
  <2> SUFFICES ASSUME NEW id \in Ids(E), \A c \in ChildrenIn(E, id) : c.id \in Holds,
                      NEW e \in Below(es, id)
               PROVE  e \in E /\ id < e.id
    BY DEF FromChildren
  <2>1. PICK c \in ChildrenIn(E, id) : e = c \/ e \in Below(es, c.id)
    BY BelowEquation
  <2>2. c \in E /\ id \in 0 .. N /\ c.id \in 1 .. N /\ id < c.id
    BY ChildComesLater
  <2>3. CASE e = c
    BY <2>2, <2>3
  <2>4. CASE e \in Below(es, c.id)
    <3>1. e \in E /\ c.id < e.id
      BY <2>4
    <3>2. e.id \in 1 .. N
      BY <3>1 DEF Tree
    <3> QED BY <2>2, <3>1, <3>2
  <2> QED BY <2>1, <2>3, <2>4
<1>2. Ids(E) \subseteq Holds
  <2> HIDE DEF Holds
  <2> QED BY <1>1, Ascent
<1> QED BY <1>2

(* An event is below id just if its parent is, or is id.                    *)
LEMMA BelowByParent ==
  ASSUME NEW E, NEW N, Tree(E, N), NEW es, Lists(es, E)
  PROVE  \A id \in Ids(E) : \A e \in E :
           e \in Below(es, id) <=> e.parent = id \/ \E p \in Below(es, id) : e.parent = p.id
<1> DEFINE Holds == {id \in Ids(E) : \A e \in E :
             e \in Below(es, id) <=> e.parent = id \/ \E p \in Below(es, id) : e.parent = p.id}
<1>1. FromChildren(E, Holds)
  <2> SUFFICES ASSUME NEW id \in Ids(E), \A c \in ChildrenIn(E, id) : c.id \in Holds,
                      NEW e \in E
               PROVE  e \in Below(es, id) <=> e.parent = id \/ \E p \in Below(es, id) : e.parent = p.id
    BY DEF FromChildren
  <2>1. \A x : x \in Below(es, id) <=> \E c \in ChildrenIn(E, id) : x = c \/ x \in Below(es, c.id)
    BY BelowEquation
  <2>2. e.parent = id <=> e \in ChildrenIn(E, id)
    BY DEF ChildrenIn
  <2>3. \A c \in ChildrenIn(E, id) :
          e \in Below(es, c.id) <=> e.parent = c.id \/ \E p \in Below(es, c.id) : e.parent = p.id
    OBVIOUS
  <2> HIDE DEF Holds
  <2>4. ASSUME e \in Below(es, id), e.parent # id PROVE \E p \in Below(es, id) : e.parent = p.id
    <3>1. PICK c \in ChildrenIn(E, id) : e = c \/ e \in Below(es, c.id)
      BY <2>1, <2>4
    <3>2. e \in Below(es, c.id)
      BY <2>2, <2>4, <3>1
    <3>3. CASE e.parent = c.id
      BY <2>1, <3>3
    <3>4. CASE \E p \in Below(es, c.id) : e.parent = p.id
      BY <2>1, <3>4
    <3> QED BY <2>3, <3>2, <3>3, <3>4
  <2>5. ASSUME NEW p \in Below(es, id), e.parent = p.id PROVE e \in Below(es, id)
    <3>1. PICK c \in ChildrenIn(E, id) : p = c \/ p \in Below(es, c.id)
      BY <2>1
    <3>2. e \in Below(es, c.id)
      BY <2>3, <2>5, <3>1
    <3> QED BY <2>1, <3>2
  <2>6. e.parent = id => e \in Below(es, id)
    BY <2>1, <2>2
  <2> QED BY <2>4, <2>5, <2>6
<1>2. Ids(E) \subseteq Holds
  <2> HIDE DEF Holds
  <2> QED BY <1>1, Ascent
<1> QED BY <1>2

(* Every event is walked to.                                                *)
LEMMA AllAreBelowRoot ==
  ASSUME NEW E, NEW N, Tree(E, N), NEW es, Lists(es, E)
  PROVE  Below(es, Root) = E
<1>0. Root \in Ids(E)
  BY DEF Ids
<1>1. FromEarlier(E, Below(es, Root))
  <2> SUFFICES ASSUME NEW e \in E, \A p \in E : p.id < e.id => p \in Below(es, Root)
               PROVE  e \in Below(es, Root)
    BY DEF FromEarlier
  <2>1. CASE e.parent = Root
    BY <1>0, <2>1, BelowByParent
  <2>2. CASE e.parent # Root
    <3>1. PICK p \in E : p.id = e.parent /\ p.id < e.id
      BY <2>2 DEF Tree
    <3> QED BY <1>0, <3>1, BelowByParent
  <2> QED BY <2>1, <2>2
<1>2. E \subseteq Below(es, Root)
  BY <1>1, Descending
<1> QED BY <1>0, <1>2, BelowIsLater

(* No event is below two siblings.                                          *)
LEMMA SiblingsApart ==
  ASSUME NEW E, NEW N, Tree(E, N), NEW es, Lists(es, E)
  PROVE  \A e \in E : \A id \in Ids(E) : \A c, d \in ChildrenIn(E, id) :
           (e = c \/ e \in Below(es, c.id)) /\ (e = d \/ e \in Below(es, d.id)) => c = d
<1> DEFINE Under(e, c) == e = c \/ e \in Below(es, c.id)
           Apart(e) == \A id \in Ids(E) : \A c, d \in ChildrenIn(E, id) :
                         Under(e, c) /\ Under(e, d) => c = d
           Holds == {e \in E : Apart(e)}
<1>1. ASSUME NEW id \in Ids(E), NEW c \in ChildrenIn(E, id), NEW d \in ChildrenIn(E, id),
             c \in Below(es, d.id)
      PROVE  FALSE
  <2>1. /\ c \in E /\ c.parent = id /\ id \in 0 .. N
        /\ d \in E /\ d.id \in Ids(E) /\ d.id \in 1 .. N /\ id < d.id
    BY ChildComesLater
  <2>2. id = d.id \/ \E p \in Below(es, d.id) : id = p.id
    BY <1>1, <2>1, BelowByParent
  <2>3. PICK p \in Below(es, d.id) : id = p.id
    BY <2>1, <2>2
  <2>4. d.id < id
    BY <2>1, <2>3, BelowIsLater
  <2> QED BY <2>1, <2>4
<1>2. FromEarlier(E, Holds)
  <2> SUFFICES ASSUME NEW e \in E, \A p \in E : p.id < e.id => p \in Holds,
                      NEW id \in Ids(E), NEW c \in ChildrenIn(E, id), NEW d \in ChildrenIn(E, id),
                      Under(e, c), Under(e, d), c # d
               PROVE  FALSE
    BY DEF FromEarlier
  <2>1. e \in Below(es, c.id) /\ e \in Below(es, d.id)
    BY <1>1
  <2>2. c.id \in Ids(E) /\ d.id \in Ids(E)
    BY ChildComesLater
  <2>3. e.parent = c.id \/ \E p \in Below(es, c.id) : e.parent = p.id
    BY <2>1, <2>2, BelowByParent
  <2>4. e.parent = d.id \/ \E p \in Below(es, d.id) : e.parent = p.id
    BY <2>1, <2>2, BelowByParent
  <2>5. e.parent # Root
    <3>1. \A x \in E : x.id # Root
      BY DEF Tree, Root
    <3> QED BY <2>2, <2>3, <3>1, BelowIsLater, ChildComesLater
  <2>6. PICK p \in E : p.id = e.parent /\ p.id < e.id
    BY <2>5 DEF Tree
  <2>7. c \in E /\ d \in E /\ \A x, y \in E : x.id = y.id => x = y
    BY ChildComesLater DEF Tree
  <2>8. Under(p, c)
    BY <2>2, <2>3, <2>6, <2>7, BelowIsLater
  <2>9. Under(p, d)
    BY <2>2, <2>4, <2>6, <2>7, BelowIsLater
  <2>10. Apart(p)
    BY <2>6
  <2> QED BY <2>8, <2>9, <2>10
<1>3. E \subseteq Holds
  <2> HIDE DEF Holds
  <2> QED BY <1>2, Descending
<1> QED BY <1>3

\* Each position of the walk w[id] is that of a child or in its walk.
Places(E, w, cs, id, off) ==
  /\ off \in [DOMAIN cs -> Nat]
  /\ \A k \in DOMAIN cs :
       /\ cs[k] \in ChildrenIn(E, id)
       /\ off[k] + 1 \in DOMAIN w[id] /\ w[id][off[k] + 1] = cs[k]
       /\ \A j \in DOMAIN w[cs[k].id] :
            /\ off[k] + 1 + j \in DOMAIN w[id]
            /\ w[id][off[k] + 1 + j] = w[cs[k].id][j]
  /\ \A n \in DOMAIN w[id] : \E k \in DOMAIN cs :
       n = off[k] + 1 \/ \E j \in DOMAIN w[cs[k].id] : n = off[k] + 1 + j

(* The walk below id is that of its children, one after the other.          *)
LEMMA WalkPlaces ==
  ASSUME NEW E, NEW N, Tree(E, N), NEW es, Lists(es, E), NEW id \in Ids(E)
  PROVE  \E off : Places(E, Walk(es), Children(es, id), id, off)
<1> DEFINE w == Walk(es)
           cs == Children(es, id)
           row == Row(es, w, id)
<1>1. /\ \A d \in E : w[d.id] \in Seq(E)
      /\ w[id] = FlattenSeq(row)
  <2>1. w \in [Ids(E) -> Seq(E)] /\ w[id] = FlattenSeq(row)
    BY WalkEquation
  <2>2. \A d \in E : d.id \in Ids(E)
    BY DEF Ids
  <2> HIDE DEF w, row
  <2> QED BY <2>1, <2>2
<1>2. /\ row \in Seq(Seq(E)) /\ DOMAIN row = DOMAIN cs
      /\ \A k \in DOMAIN cs : cs[k] \in ChildrenIn(E, id) /\ row[k] = <<cs[k]>> \o w[cs[k].id]
  BY <1>1, RowType
<1> HIDE DEF row, cs, w
<1>3. PICK off : Flattens(w[id], row, off)
  BY <1>1, <1>2, FlattenShape
<1>4. off \in [DOMAIN cs -> Nat]
  BY <1>2, <1>3 DEF Flattens
<1>5. ASSUME NEW k \in DOMAIN cs
      PROVE  /\ DOMAIN row[k] = 1 .. 1 + Len(w[cs[k].id])
             /\ row[k][1] = cs[k]
             /\ w[cs[k].id] \in Seq(E)
             /\ \A j \in DOMAIN w[cs[k].id] : row[k][1 + j] = w[cs[k].id][j]
  <2> DEFINE x == cs[k]
             s == w[cs[k].id]
             t == row[k]
  <2>1. x \in E /\ s \in Seq(E)
    BY <1>1, <1>2 DEF ChildrenIn
  <2>2. t = <<x>> \o s
    BY <1>2
  <2> HIDE DEF x, s, t
  <2>3. <<x>> \in Seq(E) /\ Len(<<x>>) = 1 /\ <<x>>[1] = x /\ 1 \in 1 .. 1
    BY <2>1
  <2>4. /\ <<x>> \o s \in Seq(E) /\ Len(<<x>> \o s) = 1 + Len(s)
        /\ (<<x>> \o s)[1] = x
        /\ \A j \in 1 .. Len(s) : (<<x>> \o s)[1 + j] = s[j]
    BY <2>1, <2>3, Concatenation
  <2>5. DOMAIN t = 1 .. Len(t) /\ DOMAIN s = 1 .. Len(s)
    BY <2>1, <2>2, <2>4, LenProperties
  <2> QED BY <2>1, <2>2, <2>4, <2>5 DEF x, s, t
<1>6. ASSUME NEW k \in DOMAIN cs
      PROVE  /\ off[k] + 1 \in DOMAIN w[id] /\ w[id][off[k] + 1] = cs[k]
             /\ \A j \in DOMAIN w[cs[k].id] :
                  /\ off[k] + 1 + j \in DOMAIN w[id]
                  /\ w[id][off[k] + 1 + j] = w[cs[k].id][j]
  <2>1. Len(w[cs[k].id]) \in Nat /\ DOMAIN w[cs[k].id] = 1 .. Len(w[cs[k].id])
    BY <1>5, LenProperties
  <2>2. \A j \in DOMAIN row[k] : off[k] + j \in DOMAIN w[id] /\ w[id][off[k] + j] = row[k][j]
    BY <1>2, <1>3 DEF Flattens
  <2>3. 1 \in DOMAIN row[k]
    BY <1>5, <2>1
  <2>4. ASSUME NEW j \in DOMAIN w[cs[k].id]
        PROVE  1 + j \in DOMAIN row[k] /\ off[k] + 1 + j = off[k] + (1 + j)
    BY <1>4, <1>5, <2>1
  <2> QED BY <1>5, <2>2, <2>3, <2>4
<1>7. ASSUME NEW n \in DOMAIN w[id]
      PROVE  \E k \in DOMAIN cs : n = off[k] + 1 \/ \E j \in DOMAIN w[cs[k].id] : n = off[k] + 1 + j
  <2>1. PICK k \in DOMAIN cs : \E i \in DOMAIN row[k] : n = off[k] + i
    BY <1>2, <1>3 DEF Flattens
  <2>2. PICK i \in DOMAIN row[k] : n = off[k] + i
    BY <2>1
  <2>3. Len(w[cs[k].id]) \in Nat /\ DOMAIN w[cs[k].id] = 1 .. Len(w[cs[k].id])
    BY <1>5, LenProperties
  <2>4. i \in 1 .. 1 + Len(w[cs[k].id]) /\ off[k] \in Nat
    BY <1>4, <1>5
  <2>5. CASE i = 1
    BY <2>2, <2>5
  <2>6. CASE i # 1
    <3>1. i - 1 \in DOMAIN w[cs[k].id] /\ n = off[k] + 1 + (i - 1)
      BY <2>2, <2>3, <2>4, <2>6
    <3> QED BY <3>1
  <2> QED BY <2>5, <2>6
<1>8. \A k \in DOMAIN cs : cs[k] \in ChildrenIn(E, id)
  BY <1>2
<1>9. Places(E, w, cs, id, off)
  BY <1>4, <1>6, <1>7, <1>8 DEF Places
<1> QED BY <1>9 DEF w, cs

(* The walk comes to every event once.                                      *)
LEMMA WalkOnce ==
  ASSUME NEW E, NEW N, Tree(E, N), NEW es, Lists(es, E)
  PROVE  \A id \in Ids(E) : IsInjective(Walk(es)[id])
<1> DEFINE w == Walk(es)
           Holds == {id \in Ids(E) : IsInjective(w[id])}
<1>1. FromChildren(E, Holds)
  <2> SUFFICES ASSUME NEW id \in Ids(E), \A c \in ChildrenIn(E, id) : c.id \in Holds,
                      NEW n \in DOMAIN w[id], NEW m \in DOMAIN w[id], w[id][n] = w[id][m]
               PROVE  n = m
    BY DEF FromChildren, IsInjective
  <2> DEFINE cs == Children(es, id)
  <2> HIDE DEF w
  <2>1. PICK off : Places(E, w, cs, id, off)
    BY WalkPlaces DEF w
  <2> DEFINE e == w[id][n]
             At(k, i) == i = off[k] + 1 \/ \E j \in DOMAIN w[cs[k].id] : i = off[k] + 1 + j
             Under(c) == e = c \/ e \in Below(es, c.id)
  <2>2. PICK k \in DOMAIN cs : At(k, n)
    BY <2>1 DEF Places
  <2>3. PICK l \in DOMAIN cs : At(l, m)
    BY <2>1 DEF Places
  <2> HIDE DEF cs
  <2>4. cs[k] \in ChildrenIn(E, id) /\ cs[l] \in ChildrenIn(E, id)
    BY <2>1 DEF Places
  <2>5. Under(cs[k]) /\ Under(cs[l])
    <3>1. ASSUME NEW i \in DOMAIN cs, NEW j \in DOMAIN w[cs[i].id]
          PROVE  w[cs[i].id][j] \in Below(es, cs[i].id)
      BY DEF Below, ToSet, w
    <3>2. ASSUME NEW i \in DOMAIN cs, NEW j, At(i, j)
          PROVE  w[id][j] = cs[i] \/ w[id][j] \in Below(es, cs[i].id)
      <4>1. CASE j = off[i] + 1
        BY <2>1, <4>1 DEF Places
      <4>2. CASE \E a \in DOMAIN w[cs[i].id] : j = off[i] + 1 + a
        <5>1. PICK a \in DOMAIN w[cs[i].id] : j = off[i] + 1 + a
          BY <4>2
        <5>2. w[id][off[i] + 1 + a] = w[cs[i].id][a]
          BY <2>1 DEF Places
        <5>3. w[id][j] = w[cs[i].id][a]
          BY <5>1, <5>2
        <5> HIDE DEF Under, e
        <5> QED BY <3>1, <5>3
      <4> QED BY <3>2, <4>1, <4>2
    <3>3. w[id][n] = cs[k] \/ w[id][n] \in Below(es, cs[k].id)
      BY <2>2, <3>2
    <3>4. w[id][m] = cs[l] \/ w[id][m] \in Below(es, cs[l].id)
      BY <2>3, <3>2
    <3> QED BY <3>3, <3>4
  <2>6. e \in E
    <3>1. cs[k] \in E /\ cs[k].id \in Ids(E)
      BY <2>4, ChildComesLater
    <3> QED BY <2>5, <3>1, BelowIsLater
  <2>7. cs[k] = cs[l]
    <3> HIDE DEF e
    <3> QED BY <2>4, <2>5, <2>6, SiblingsApart
  <2>8. k = l
    BY <2>7, ChildrenAreListed DEF Lists, IsInjective, cs
  <2>9. cs[k] \notin Below(es, cs[k].id)
    <3>1. cs[k].id \in Ids(E) /\ cs[k].id \in Nat
      BY <2>4, ChildComesLater
    <3> QED BY <3>1, BelowIsLater
  <2>10. ASSUME NEW i \in DOMAIN w[cs[k].id] PROVE w[cs[k].id][i] # cs[k]
    BY <2>9 DEF Below, ToSet, w
  <2>11. ASSUME NEW i \in DOMAIN w[cs[k].id], NEW j \in DOMAIN w[cs[k].id],
                w[cs[k].id][i] = w[cs[k].id][j]
         PROVE  i = j
    BY <2>4, <2>11 DEF IsInjective
  <2> QED BY <2>1, <2>2, <2>3, <2>8, <2>10, <2>11 DEF Places
<1>2. Ids(E) \subseteq Holds
  <2> HIDE DEF Holds
  <2> QED BY <1>1, Ascent
<1> QED BY <1>2

\* d comes before e in s.
Precedes(s, d, e) == \E i, j \in DOMAIN s : i < j /\ s[i] = d /\ s[j] = e

(* The walk comes to a parent first.                                        *)
LEMMA WalkOrder ==
  ASSUME NEW E, NEW N, Tree(E, N), NEW es, Lists(es, E)
  PROVE  \A id \in Ids(E) : \A e, p \in Below(es, id) :
           e.parent = p.id => Precedes(Walk(es)[id], p, e)
<1> DEFINE w == Walk(es)
           Holds == {id \in Ids(E) : \A e, p \in Below(es, id) :
                       e.parent = p.id => Precedes(w[id], p, e)}
<1>1. FromChildren(E, Holds)
  <2> SUFFICES ASSUME NEW id \in Ids(E), \A c \in ChildrenIn(E, id) : c.id \in Holds,
                      NEW e \in Below(es, id), NEW p \in Below(es, id), e.parent = p.id
               PROVE  Precedes(w[id], p, e)
    BY DEF FromChildren
  <2> DEFINE cs == Children(es, id)
  <2> HIDE DEF w
  <2>1. PICK off : Places(E, w, cs, id, off)
    BY WalkPlaces DEF w
  <2>2. PICK c \in ChildrenIn(E, id) : e = c \/ e \in Below(es, c.id)
    BY BelowEquation
  <2>3. c \in E /\ c.parent = id /\ c.id \in Ids(E) /\ id \in 0 .. N /\ c.id \in 1 .. N /\ id < c.id
    BY ChildComesLater
  <2>4. PICK k \in DOMAIN cs : cs[k] = c
    BY ChildrenAreListed DEF Lists, ToSet
  <2> HIDE DEF cs
  <2>5. e # c
    <3>1. id < p.id /\ p \in E
      BY BelowIsLater
    <3>2. p.id \in Nat
      BY <3>1 DEF Tree
    <3> QED BY <2>3, <3>1, <3>2
  <2>6. e \in Below(es, c.id) /\ e \in E /\ p \in E
    BY <2>2, <2>5, BelowIsLater
  <2>7. \A i \in DOMAIN w[c.id] : i \in Nat
    <3>1. w[c.id] \in Seq(E)
      BY <2>3, WalkEquation DEF w
    <3> QED BY <3>1
  <2>8. off[k] \in Nat
    BY <2>1 DEF Places
  <2>9. CASE e.parent = c.id
    <3>1. p = c
      BY <2>3, <2>6, <2>9 DEF Tree
    <3>2. PICK j \in DOMAIN w[c.id] : w[c.id][j] = e
      BY <2>6 DEF Below, ToSet, w
    <3>3. j >= 1 /\ j \in Nat
      <4>1. w[c.id] \in Seq(E)
        BY <2>3, WalkEquation DEF w
      <4> QED BY <4>1
    <3>4. off[k] + 1 < off[k] + 1 + j
      BY <2>8, <3>3
    <3> QED BY <2>1, <2>4, <3>1, <3>2, <3>4 DEF Precedes, Places
  <2>10. CASE e.parent # c.id
    <3>1. p \in Below(es, c.id)
      <4>1. PICK q \in Below(es, c.id) : e.parent = q.id
        BY <2>3, <2>6, <2>10, BelowByParent
      <4>2. q \in E
        BY <2>3, BelowIsLater
      <4>3. p = q
        BY <2>6, <4>1, <4>2 DEF Tree
      <4> QED BY <4>1, <4>3
    <3>2. Precedes(w[c.id], p, e)
      BY <2>6, <3>1
    <3>3. PICK i \in DOMAIN w[c.id], j \in DOMAIN w[c.id] : i < j /\ w[c.id][i] = p /\ w[c.id][j] = e
      BY <3>2 DEF Precedes
    <3>4. off[k] + 1 + i < off[k] + 1 + j
      BY <2>7, <2>8, <3>3
    <3> QED BY <2>1, <2>4, <3>3, <3>4 DEF Precedes, Places
  <2> QED BY <2>9, <2>10
<1>2. Ids(E) \subseteq Holds
  <2> HIDE DEF Holds
  <2> QED BY <1>1, Ascent
<1> QED BY <1>2

(* The walk from the roots (the service's forward trace, and the            *)
(* specialists') comes to every event of a tree once, after its parent.     *)
THEOREM WalkLists ==
  ASSUME NEW E, NEW N, Tree(E, N), NEW es, Lists(es, E)
  PROVE  /\ Lists(WalkFromRoots(es), E)
         /\ \A e, p \in E : e.parent = p.id => Precedes(WalkFromRoots(es), p, e)
<1>1. Root \in Ids(E)
  BY DEF Ids
<1>2. ToSet(Walk(es)[Root]) = E
  BY AllAreBelowRoot DEF Below
<1>3. Walk(es)[Root] \in Seq(E)
  BY <1>1, WalkEquation
<1>4. IsInjective(Walk(es)[Root])
  BY <1>1, WalkOnce
<1>5. \A e, p \in E : e.parent = p.id => Precedes(Walk(es)[Root], p, e)
  BY <1>1, <1>2, WalkOrder DEF Below
<1> QED BY <1>2, <1>3, <1>4, <1>5 DEF Lists, WalkFromRoots

-----------------------------------------------------------------------------
(* Sorting.                                                                 *)

\* A set of pairs that orders S, strictly and as a whole.
StrictOrder(S, R) ==
  /\ \A x \in S : <<x, x>> \notin R
  /\ \A x, y, z \in S : <<x, y>> \in R /\ <<y, z>> \in R => <<x, z>> \in R
  /\ \A x, y \in S : x = y \/ <<x, y>> \in R \/ <<y, x>> \in R

\* s goes along R.
Sorted(s, R) == \A i, j \in DOMAIN s : i < j => <<s[i], s[j]>> \in R

\* What comes before x.
Lower(S, R, x) == {y \in S : <<y, x>> \in R}

(* The number of lower members rises along the order.                       *)
LEMMA LowerRises ==
  ASSUME NEW S, IsFiniteSet(S), NEW R, StrictOrder(S, R), NEW x \in S
  PROVE  /\ Cardinality(Lower(S, R, x)) \in 0 .. Cardinality(S) - 1
         /\ \A y \in S : <<x, y>> \in R =>
              Cardinality(Lower(S, R, x)) < Cardinality(Lower(S, R, y))
<1>1. ASSUME NEW T, IsFiniteSet(T), NEW U \in SUBSET T, U # T
      PROVE  Cardinality(U) \in Nat /\ Cardinality(T) \in Nat /\ Cardinality(U) < Cardinality(T)
  <2>1. IsFiniteSet(U) /\ Cardinality(U) <= Cardinality(T) /\ Cardinality(U) # Cardinality(T)
    BY <1>1, FS_Subset
  <2>2. Cardinality(U) \in Nat /\ Cardinality(T) \in Nat
    BY <1>1, <2>1, FS_CardinalityType
  <2> QED BY <2>1, <2>2
<1>2. Cardinality(Lower(S, R, x)) \in 0 .. Cardinality(S) - 1
  <2>1. Lower(S, R, x) \in SUBSET S /\ x \notin Lower(S, R, x)
    BY DEF Lower, StrictOrder
  <2>2. Lower(S, R, x) # S
    BY <2>1
  <2> QED BY <1>1, <2>1, <2>2
<1>3. ASSUME NEW y \in S, <<x, y>> \in R
      PROVE  Cardinality(Lower(S, R, x)) < Cardinality(Lower(S, R, y))
  <2>1. Lower(S, R, x) \in SUBSET Lower(S, R, y)
    BY <1>3 DEF Lower, StrictOrder
  <2>2. x \in Lower(S, R, y) /\ x \notin Lower(S, R, x)
    BY <1>3 DEF Lower, StrictOrder
  <2>3. IsFiniteSet(Lower(S, R, y))
    <3>1. Lower(S, R, y) \in SUBSET S
      BY DEF Lower
    <3> QED BY <3>1, FS_Subset
  <2> QED BY <1>1, <2>1, <2>2, <2>3
<1> QED BY <1>2, <1>3

(* So it is another for each member.                                        *)
LEMMA LowerDiffers ==
  ASSUME NEW S, IsFiniteSet(S), NEW R, StrictOrder(S, R), NEW x \in S, NEW y \in S,
         Cardinality(Lower(S, R, x)) = Cardinality(Lower(S, R, y))
  PROVE  x = y
<1>1. Cardinality(Lower(S, R, x)) \in Int
  BY LowerRises
<1>2. <<x, y>> \notin R /\ <<y, x>> \notin R
  BY <1>1, LowerRises
<1> QED BY <1>2 DEF StrictOrder

(* Sorting lists a set along the order.                                     *)
LEMMA InOrderSorts ==
  ASSUME NEW S, IsFiniteSet(S), NEW R, StrictOrder(S, R)
  PROVE  Lists(InOrder(S, R), S) /\ Sorted(InOrder(S, R), R)
<1> DEFINE N == Cardinality(S)
           rank == [x \in S |-> Cardinality(Lower(S, R, x)) + 1]
           s == InOrder(S, R)
<1>1. N \in Nat /\ IsFiniteSet(1 .. N) /\ Cardinality(1 .. N) = N
  <2>1. N \in Nat
    BY FS_CardinalityType
  <2>2. IsFiniteSet(1 .. N) /\ Cardinality(1 .. N) = IF 1 > N THEN 0 ELSE N - 1 + 1
    BY <2>1, FS_Interval
  <2> HIDE DEF N
  <2> QED BY <2>1, <2>2
<1>2. \A x \in S : rank[x] \in 1 .. N
  <2>1. \A x \in S : Cardinality(Lower(S, R, x)) \in 0 .. N - 1
    BY LowerRises
  <2> HIDE DEF N
  <2> QED BY <1>1, <2>1
<1>3. \A x, y \in S : rank[x] = rank[y] => x = y
  <2> SUFFICES ASSUME NEW x \in S, NEW y \in S, rank[x] = rank[y] PROVE x = y
    OBVIOUS
  <2>1. Cardinality(Lower(S, R, x)) \in Int /\ Cardinality(Lower(S, R, y)) \in Int
    BY LowerRises
  <2> QED BY <2>1, LowerDiffers
<1>4. rank \in [S -> 1 .. N]
  <2>1. rank = [x \in S |-> rank[x]]
    OBVIOUS
  <2> HIDE DEF rank, N
  <2> QED BY <1>2, <2>1
<1>5. rank \in Surjection(S, 1 .. N)
  <2>1. rank \in Injection(S, 1 .. N)
    <3> HIDE DEF rank, N
    <3> QED BY <1>3, <1>4 DEF Injection, IsInjective
  <2>2. Cardinality(S) = Cardinality(1 .. N)
    BY <1>1
  <2> HIDE DEF rank, N
  <2> QED BY <1>1, <2>1, <2>2, FS_Injection
<1>6. \A n \in 1 .. N : \E x \in S : rank[x] = n
  <2> HIDE DEF rank, N
  <2> QED BY <1>5 DEF Surjection
<1>7. DOMAIN s = 1 .. N /\ \A n \in 1 .. N : s[n] \in S /\ rank[s[n]] = n
  <2>1. s = [n \in 1 .. N |-> CHOOSE x \in S : Cardinality(Lower(S, R, x)) = n - 1]
    BY DEF InOrder, Lower
  <2>2. ASSUME NEW n \in 1 .. N PROVE \E x \in S : Cardinality(Lower(S, R, x)) = n - 1
    <3>1. PICK x \in S : rank[x] = n
      BY <1>6
    <3>2. Cardinality(Lower(S, R, x)) \in Int
      BY LowerRises
    <3>3. Cardinality(Lower(S, R, x)) = n - 1
      BY <3>1, <3>2
    <3> QED BY <3>3
  <2>3. ASSUME NEW n \in 1 .. N PROVE s[n] \in S /\ Cardinality(Lower(S, R, s[n])) = n - 1
    <3> HIDE DEF N, s
    <3> QED BY <2>1, <2>2
  <2>4. ASSUME NEW n \in 1 .. N PROVE rank[s[n]] = n
    <3> DEFINE x == s[n]
    <3>1. x \in S /\ Cardinality(Lower(S, R, x)) = n - 1
      BY <2>3
    <3> HIDE DEF x
    <3>2. rank[x] = n
      BY <3>1
    <3> QED BY <3>2 DEF x
  <2> HIDE DEF rank
  <2> QED BY <2>1, <2>3, <2>4
<1> HIDE DEF rank, s, N
<1>8. s \in Seq(S)
  <2> DEFINE At(n) == CHOOSE x \in S : Cardinality(Lower(S, R, x)) = n - 1
  <2>1. s = [n \in 1 .. N |-> At(n)]
    BY DEF s, InOrder, Lower, N
  <2> HIDE DEF At
  <2>2. s \in [1 .. N -> S]
    BY <1>7, <2>1
  <2> QED BY <1>1, <2>2
<1>9. ToSet(s) = S
  <2>1. ASSUME NEW x \in S PROVE s[rank[x]] = x /\ rank[x] \in DOMAIN s
    BY <1>2, <1>3, <1>7
  <2> QED BY <1>7, <2>1 DEF ToSet
<1>10. IsInjective(s)
  BY <1>7 DEF IsInjective
<1>11. Sorted(s, R)
  <2> SUFFICES ASSUME NEW i \in 1 .. N, NEW j \in 1 .. N, i < j PROVE <<s[i], s[j]>> \in R
    BY <1>7 DEF Sorted
  <2>1. s[i] \in S /\ s[j] \in S /\ s[i] # s[j]
    BY <1>7
  <2>2. <<s[j], s[i]>> \notin R
    <3> SUFFICES ASSUME <<s[j], s[i]>> \in R PROVE FALSE
      OBVIOUS
    <3> DEFINE a == Cardinality(Lower(S, R, s[i]))
               b == Cardinality(Lower(S, R, s[j]))
    <3>1. b < a /\ a \in Int /\ b \in Int
      BY <2>1, LowerRises
    <3>2. i = a + 1 /\ j = b + 1
      BY <1>7, <2>1 DEF rank
    <3> HIDE DEF a, b
    <3> QED BY <3>1, <3>2
  <2> QED BY <2>1, <2>2 DEF StrictOrder
<1> QED BY <1>8, <1>9, <1>10, <1>11 DEF Lists, s

(* There is one way to list a set along an order: the sort's.               *)
LEMMA InOrderIsUnique ==
  ASSUME NEW S, IsFiniteSet(S), NEW R, StrictOrder(S, R), NEW s, Lists(s, S), Sorted(s, R)
  PROVE  s = InOrder(S, R)
<1>1. Len(s) \in Nat /\ DOMAIN s = 1 .. Len(s) /\ s \in [1 .. Len(s) -> S]
  BY LenProperties DEF Lists
<1>2. ASSUME NEW n \in 1 .. Len(s)
      PROVE  n - 1 \in Nat /\ Cardinality(Lower(S, R, s[n])) = n - 1
  <2> DEFINE f == [i \in 1 .. n - 1 |-> s[i]]
             T == Lower(S, R, s[n])
  <2>1. n - 1 \in Nat /\ 1 .. n - 1 \subseteq 1 .. Len(s)
    BY <1>1
  <2>2. \A i \in 1 .. n - 1 : i \in 1 .. Len(s) /\ i < n
    BY <1>1
  <2>3. \A i \in 1 .. n - 1 : s[i] \in T
    BY <1>1, <2>2 DEF Sorted, Lower
  <2>4. f \in [1 .. n - 1 -> T]
    <3> HIDE DEF T
    <3> QED BY <2>3
  <2>5. \A i, j \in 1 .. n - 1 : f[i] = f[j] => i = j
    BY <1>1, <2>2 DEF Lists, IsInjective
  <2>6. \A y \in T : \E i \in 1 .. n - 1 : f[i] = y
    <3> SUFFICES ASSUME NEW y \in T PROVE \E i \in 1 .. n - 1 : f[i] = y
      OBVIOUS
    <3>1. y \in S /\ <<y, s[n]>> \in R
      BY DEF Lower
    <3>2. PICK i \in 1 .. Len(s) : s[i] = y
      BY <1>1, <3>1 DEF Lists, ToSet
    <3>3. s[n] \in S
      BY <1>1
    <3>4. ~(n < i) /\ n # i
      BY <1>1, <3>1, <3>2, <3>3 DEF Sorted, StrictOrder
    <3>5. i \in 1 .. n - 1
      BY <1>1, <3>4
    <3>6. f[i] = s[i]
      BY <3>5
    <3> QED BY <3>2, <3>5, <3>6
  <2> HIDE DEF f, T
  <2>7. f \in Bijection(1 .. n - 1, T)
    BY <2>4, <2>5, <2>6 DEF Bijection, Injection, Surjection, IsInjective
  <2>8. IsFiniteSet(1 .. n - 1) /\ Cardinality(1 .. n - 1) = n - 1
    <3>1. 1 \in Int /\ n - 1 \in Int
      BY <2>1
    <3>2. IsFiniteSet(1 .. n - 1) /\ Cardinality(1 .. n - 1) = IF 1 > n - 1 THEN 0 ELSE n - 1 - 1 + 1
      BY <3>1, FS_Interval
    <3> QED BY <2>1, <3>2
  <2>9. Cardinality(T) = Cardinality(1 .. n - 1)
    BY <2>7, <2>8, FS_Bijection DEF ExistsBijection
  <2> QED BY <2>1, <2>8, <2>9 DEF T
<1>3. Len(s) = Cardinality(S)
  <2>1. s \in Bijection(1 .. Len(s), S)
    BY <1>1 DEF Lists, ToSet, Bijection, Injection, Surjection, IsInjective
  <2>2. 1 \in Int /\ Len(s) \in Int
    BY <1>1
  <2>3. IsFiniteSet(1 .. Len(s)) /\ Cardinality(1 .. Len(s)) = IF 1 > Len(s) THEN 0 ELSE Len(s) - 1 + 1
    BY <2>2, FS_Interval
  <2>4. Cardinality(1 .. Len(s)) = Len(s)
    BY <1>1, <2>3
  <2>5. Cardinality(S) = Cardinality(1 .. Len(s))
    BY <2>1, <2>3, FS_Bijection DEF ExistsBijection
  <2> QED BY <2>4, <2>5
<1>4. ASSUME NEW n \in 1 .. Len(s) PROVE s[n] = InOrder(S, R)[n]
  <2>1. InOrder(S, R)[n] = CHOOSE x \in S : Cardinality(Lower(S, R, x)) = n - 1
    BY <1>3 DEF InOrder, Lower
  <2>2. s[n] \in S /\ Cardinality(Lower(S, R, s[n])) = n - 1
    BY <1>1, <1>2
  <2>3. \A x \in S : Cardinality(Lower(S, R, x)) = n - 1 => x = s[n]
    BY <2>2, LowerDiffers
  <2> QED BY <2>1, <2>2, <2>3
<1>5. InOrder(S, R) = [n \in 1 .. Len(s) |-> InOrder(S, R)[n]]
  <2> DEFINE At(n) == CHOOSE x \in S : Cardinality(Lower(S, R, x)) = n - 1
  <2>1. InOrder(S, R) = [n \in 1 .. Len(s) |-> At(n)]
    BY <1>3 DEF InOrder, Lower
  <2> HIDE DEF At
  <2> QED BY <2>1
<1> QED BY <1>1, <1>4, <1>5

-----------------------------------------------------------------------------
(* Depth.                                                                   *)

\* The depth of e, where f is that of the events before it.
OneDeeper(E, f, e) == IF e.parent = Root THEN 0 ELSE f[CHOOSE p \in E : p.id = e.parent] + 1

(* A parent in a tree is the event that the model chooses, and earlier.     *)
LEMMA ParentIsChosen ==
  ASSUME NEW E, NEW N, Tree(E, N), NEW e \in E, e.parent # Root
  PROVE  LET p == CHOOSE p \in E : p.id = e.parent
         IN  /\ p \in E /\ p.id = e.parent /\ p.id \in 0 .. N /\ e.id \in 0 .. N /\ p.id < e.id
             /\ \A q \in E : q.id = e.parent => q = p
<1>1. PICK p \in E : p.id = e.parent /\ p.id < e.id
  BY DEF Tree
<1>2. \A q \in E : q.id = e.parent => q = p
  BY <1>1 DEF Tree
<1>3. p.id \in 0 .. N /\ e.id \in 0 .. N
  BY <1>1 DEF Tree
<1>4. (CHOOSE q \in E : q.id = e.parent) = p
  BY <1>1, <1>2
<1> QED BY <1>1, <1>2, <1>3, <1>4

(* A root has depth 0, and an event one more than its parent.               *)
LEMMA DepthEquation ==
  ASSUME NEW E, NEW N, Tree(E, N), NEW es, ToSet(es) = E
  PROVE  /\ Depth(es) \in [E -> Nat]
         /\ \A e, p \in E : e.parent = p.id => Depth(es)[e] = Depth(es)[p] + 1
<1> DEFINE rank == [e \in E |-> e.id]
           F == [p \in E \X [E -> Nat] |-> OneDeeper(E, p[2], p[1])]
           flat(f) == [e \in E |-> OneDeeper(E, f, e)]
           h == CHOOSE f : f = flat(f)
<1>1. N \in Nat /\ rank \in [E -> 0 .. N] /\ \A e \in E : rank[e] = e.id
  BY DEF Tree
<1> HIDE DEF rank
<1>2. ASSUME NEW e \in E, NEW f \in [E -> Nat] PROVE OneDeeper(E, f, e) \in Nat
  BY ParentIsChosen DEF OneDeeper
<1>3. ASSUME NEW e \in E, NEW f, NEW g, \A d \in E : rank[d] < rank[e] => f[d] = g[d]
      PROVE  OneDeeper(E, f, e) = OneDeeper(E, g, e)
  <2>1. CASE e.parent = Root
    BY <2>1 DEF OneDeeper
  <2>2. CASE e.parent # Root
    <3> DEFINE p == CHOOSE p \in E : p.id = e.parent
    <3>1. p \in E /\ p.id < e.id
      BY <2>2, ParentIsChosen
    <3> HIDE DEF p
    <3>2. f[p] = g[p]
      BY <1>1, <1>3, <3>1
    <3> QED BY <2>2, <3>2 DEF OneDeeper, p
  <2> QED BY <2>1, <2>2
<1>4. PICK g \in [E -> Nat] : \A e \in E : g[e] = OneDeeper(E, g, e)
  <2>1. F \in [E \X [E -> Nat] -> Nat]
    BY <1>2
  <2>2. \A e \in E : \A f \in [E -> Nat] : F[<<e, f>>] = OneDeeper(E, f, e)
    OBVIOUS
  <2>3. Nat # {}
    OBVIOUS
  <2> HIDE DEF F
  <2>4. Descends(E, Nat, N, rank, F)
    <3> SUFFICES ASSUME NEW e \in E, NEW f \in [E -> Nat], NEW k \in [E -> Nat],
                        \A d \in E : rank[d] < rank[e] => f[d] = k[d]
                 PROVE  F[<<e, f>>] = F[<<e, k>>]
      BY <1>1, <2>1, <2>3 DEF Descends
    <3>1. OneDeeper(E, f, e) = OneDeeper(E, k, e)
      BY <1>3
    <3> QED BY <2>2, <3>1
  <2>5. PICK f : Solves(f, E, Nat, F)
    BY <2>4, Recursion
  <2> QED BY <2>2, <2>5 DEF Solves
<1>5. h = flat(h)
  <2>1. g = flat(g)
    BY <1>4
  <2> QED BY <2>1
<1>6. Depth(es) = h
  BY DEF Depth, OneDeeper
<1> HIDE DEF h
<1>7. \A e \in E : h[e] = g[e]
  <2> DEFINE Same == {e \in E : h[e] = g[e]}
  <2>1. Inductive(E, rank, Same)
    <3> SUFFICES ASSUME NEW e \in E, \A d \in E : rank[d] < rank[e] => d \in Same
                 PROVE  e \in Same
      BY DEF Inductive
    <3>1. OneDeeper(E, h, e) = OneDeeper(E, g, e)
      BY <1>3
    <3>2. h[e] = OneDeeper(E, h, e)
      BY <1>5
    <3> QED BY <1>4, <3>1, <3>2
  <2>2. E \subseteq Same
    <3> HIDE DEF Same
    <3> QED BY <1>1, <2>1, RankInduction
  <2> QED BY <2>2
<1>8. h \in [E -> Nat]
  BY <1>4, <1>5, <1>7
<1>9. \A e \in E : h[e] = OneDeeper(E, h, e)
  BY <1>5
<1>10. ASSUME NEW e \in E, NEW p \in E, e.parent = p.id PROVE h[e] = h[p] + 1
  <2>1. e.parent # Root
    BY <1>10 DEF Tree, Root
  <2>2. p = CHOOSE q \in E : q.id = e.parent
    BY <1>10, <2>1, ParentIsChosen
  <2> QED BY <1>9, <2>1, <2>2 DEF OneDeeper
<1> QED BY <1>6, <1>8, <1>10

-----------------------------------------------------------------------------
(* Sums.                                                                    *)

\* g is the sum of f over each part of D.
Sums(g, f, D) ==
  /\ g \in [SUBSET D -> Nat]
  /\ g[{}] = 0
  /\ \A s \in SUBSET D : \A x \in s : g[s] = f[x] + g[s \ {x}]

\* What holds of s without any of its members holds of s.
PartInductive(D, Holds) ==
  \A s \in SUBSET D : (\A x \in s : s \ {x} \in Holds) => s \in Holds

(* Induction over the parts of a finite set.                                *)
LEMMA PartInduction ==
  ASSUME NEW D, IsFiniteSet(D), NEW Holds, PartInductive(D, Holds)
  PROVE  SUBSET D \subseteq Holds
<1> DEFINE rank == [s \in SUBSET D |-> Cardinality(s)]
<1>1. Cardinality(D) \in Nat
  BY FS_CardinalityType
<1>2. \A s \in SUBSET D : IsFiniteSet(s) /\ Cardinality(s) \in Nat /\ Cardinality(s) <= Cardinality(D)
  BY FS_Subset, FS_CardinalityType
<1>3. rank \in [SUBSET D -> 0 .. Cardinality(D)] /\ \A s \in SUBSET D : rank[s] = Cardinality(s)
  BY <1>1, <1>2
<1> HIDE DEF rank
<1>4. Inductive(SUBSET D, rank, Holds)
  <2> SUFFICES ASSUME NEW s \in SUBSET D, \A t \in SUBSET D : rank[t] < rank[s] => t \in Holds
               PROVE  s \in Holds
    BY DEF Inductive
  <2> SUFFICES \A x \in s : s \ {x} \in Holds
    BY DEF PartInductive
  <2>1. ASSUME NEW x \in s PROVE s \ {x} \in Holds
    <3>1. Cardinality(s \ {x}) = Cardinality(s) - 1
      BY <1>2, FS_RemoveElement
    <3>2. s \ {x} \in SUBSET D
      OBVIOUS
    <3>3. rank[s \ {x}] < rank[s]
      BY <1>2, <1>3, <3>1, <3>2
    <3> QED BY <3>2, <3>3
  <2> QED BY <2>1
<1> QED BY <1>1, <1>3, <1>4, RankInduction

\* The sum over s, where h is the sum over smaller parts.
OneMore(f, h, s) ==
  IF s = {} THEN 0 ELSE LET x == CHOOSE x \in s : TRUE IN f[x] + h[s \ {x}]

(* The library's sum is a sum, whatever is added first.                     *)
LEMMA SumSums ==
  ASSUME NEW D, IsFiniteSet(D), NEW f \in [D -> Nat]
  PROVE  \E g : Sums(g, f, D) /\ SumFunction(f) = g[D]
<1> DEFINE S == SUBSET D
           N == Cardinality(D)
           rank == [s \in S |-> Cardinality(s)]
           F == [p \in S \X [S -> Nat] |-> OneMore(f, p[2], p[1])]
           flat(h) == [s \in S |-> OneMore(f, h, s)]
           h == CHOOSE h : h = flat(h)
<1>1. N \in Nat
  BY FS_CardinalityType
<1>2. \A s \in S : IsFiniteSet(s) /\ Cardinality(s) \in Nat /\ Cardinality(s) <= N
  BY FS_Subset, FS_CardinalityType
<1>3. rank \in [S -> 0 .. N] /\ \A s \in S : rank[s] = Cardinality(s)
  <2> HIDE DEF N, S
  <2> QED BY <1>1, <1>2
<1>4. ASSUME NEW s \in S, s # {}
      PROVE  LET x == CHOOSE x \in s : TRUE
             IN  /\ x \in s /\ x \in D
                 /\ s \ {x} \in S /\ rank[s \ {x}] < rank[s]
  <2> DEFINE x == CHOOSE x \in s : TRUE
  <2>1. x \in s
    BY <1>4
  <2> HIDE DEF x, rank, N
  <2>2. s \ {x} \in S /\ x \in D
    BY <2>1
  <2>3. Cardinality(s \ {x}) = Cardinality(s) - 1
    BY <1>2, <2>1, FS_RemoveElement
  <2>4. rank[s \ {x}] < rank[s]
    <3> HIDE DEF S
    <3> QED BY <1>2, <1>3, <2>2, <2>3
  <2> QED BY <2>1, <2>2, <2>4 DEF x
<1> HIDE DEF rank, N
<1>5. ASSUME NEW s \in S, NEW k \in [S -> Nat] PROVE OneMore(f, k, s) \in Nat
  <2>1. CASE s = {}
    BY <2>1 DEF OneMore
  <2>2. CASE s # {}
    <3> DEFINE x == CHOOSE x \in s : TRUE
    <3>1. x \in D /\ s \ {x} \in S
      BY <1>4, <2>2
    <3> HIDE DEF x, S
    <3>2. f[x] + k[s \ {x}] \in Nat
      BY <3>1
    <3> QED BY <2>2, <3>2 DEF OneMore, x
  <2> QED BY <2>1, <2>2
<1>6. ASSUME NEW s \in S, NEW k, NEW m, \A t \in S : rank[t] < rank[s] => k[t] = m[t]
      PROVE  OneMore(f, k, s) = OneMore(f, m, s)
  <2>1. CASE s = {}
    BY <2>1 DEF OneMore
  <2>2. CASE s # {}
    <3> DEFINE x == CHOOSE x \in s : TRUE
    <3>1. s \ {x} \in S /\ rank[s \ {x}] < rank[s]
      BY <1>4, <2>2
    <3> HIDE DEF x, S
    <3>2. k[s \ {x}] = m[s \ {x}]
      BY <1>6, <3>1
    <3> QED BY <2>2, <3>2 DEF OneMore, x
  <2> QED BY <2>1, <2>2
<1> HIDE DEF S
<1>7. PICK g \in [S -> Nat] : \A s \in S : g[s] = OneMore(f, g, s)
  <2>1. F \in [S \X [S -> Nat] -> Nat]
    BY <1>5
  <2>2. \A s \in S : \A k \in [S -> Nat] : F[<<s, k>>] = OneMore(f, k, s)
    OBVIOUS
  <2>3. Nat # {}
    OBVIOUS
  <2> HIDE DEF F
  <2>4. Descends(S, Nat, N, rank, F)
    <3> SUFFICES ASSUME NEW s \in S, NEW k \in [S -> Nat], NEW m \in [S -> Nat],
                        \A t \in S : rank[t] < rank[s] => k[t] = m[t]
                 PROVE  F[<<s, k>>] = F[<<s, m>>]
      BY <1>1, <1>3, <2>1, <2>3 DEF Descends
    <3>1. OneMore(f, k, s) = OneMore(f, m, s)
      BY <1>6
    <3> QED BY <2>2, <3>1
  <2>5. PICK k : Solves(k, S, Nat, F)
    BY <2>4, Recursion
  <2> QED BY <2>2, <2>5 DEF Solves
<1>8. h = flat(h)
  <2>1. g = flat(g)
    BY <1>7
  <2> QED BY <2>1
<1>9. SumFunction(f) = h[D]
  <2>1. DOMAIN f = D
    OBVIOUS
  <2> QED BY <2>1 DEF SumFunction, SumFunctionOnSet, FoldFunctionOnSet, MapThenFoldSet, OneMore, S
<1> HIDE DEF h
<1>10. \A s \in S : h[s] = g[s]
  <2> DEFINE Same == {s \in S : h[s] = g[s]}
  <2>1. Inductive(S, rank, Same)
    <3> SUFFICES ASSUME NEW s \in S, \A t \in S : rank[t] < rank[s] => t \in Same
                 PROVE  s \in Same
      BY DEF Inductive
    <3>1. OneMore(f, h, s) = OneMore(f, g, s)
      BY <1>6
    <3>2. h[s] = OneMore(f, h, s)
      BY <1>8
    <3> QED BY <1>7, <3>1, <3>2
  <2>2. S \subseteq Same
    <3> HIDE DEF Same
    <3> QED BY <1>1, <1>3, <2>1, RankInduction
  <2> QED BY <2>2
<1>11. g[{}] = 0
  BY <1>7 DEF OneMore, S
<1> DEFINE Holds == {s \in S : \A x \in s : g[s] = f[x] + g[s \ {x}]}
<1>12. ASSUME NEW s \in S, \A x \in s : s \ {x} \in Holds PROVE s \in Holds
  <2> SUFFICES ASSUME NEW y \in s PROVE g[s] = f[y] + g[s \ {y}]
    OBVIOUS
  <2> DEFINE x == CHOOSE x \in s : TRUE
  <2>1. x \in s /\ g[s] = f[x] + g[s \ {x}]
    BY <1>7 DEF OneMore
  <2> HIDE DEF x
  <2>2. CASE x = y
    BY <2>1, <2>2
  <2>3. CASE x # y
    <3> DEFINE a == s \ {x}
               b == s \ {y}
               c == s \ {x, y}
    <3>1. y \in a /\ x \in b /\ a \ {y} = c /\ b \ {x} = c
      BY <2>1, <2>3
    <3>2. a \in Holds /\ b \in Holds
      BY <1>12, <2>1
    <3>3. g[a] = f[y] + g[c] /\ g[b] = f[x] + g[c]
      <4> HIDE DEF a, b, c
      <4> QED BY <3>1, <3>2
    <3>4. f[x] \in Nat /\ f[y] \in Nat /\ g[c] \in Nat
      <4>1. c \in S /\ x \in D /\ y \in D
        BY <2>1 DEF S
      <4> HIDE DEF c
      <4> QED BY <4>1
    <3>5. g[s] = f[x] + g[a]
      BY <2>1
    <3> HIDE DEF a, c, Holds
    <3>6. g[s] = f[y] + g[b]
      <4> HIDE DEF b
      <4> QED BY <3>3, <3>4, <3>5
    <3> QED BY <3>6
  <2> QED BY <2>2, <2>3
<1>13. S \subseteq Holds
  <2> HIDE DEF Holds
  <2>1. PartInductive(D, Holds)
    BY <1>12 DEF PartInductive, S
  <2> QED BY <2>1, PartInduction DEF S
<1>14. Sums(g, f, D)
  BY <1>11, <1>13 DEF Sums, S
<1>15. SumFunction(f) = g[D]
  BY <1>9, <1>10 DEF S
<1> QED BY <1>14, <1>15

(* A sum that is not 0 has a term that is not.                              *)
LEMMA SumOfSome ==
  ASSUME NEW D, IsFiniteSet(D), NEW f \in [D -> Nat]
  PROVE  /\ SumFunction(f) \in Nat
         /\ SumFunction(f) > 0 => \E x \in D : f[x] > 0
<1>1. PICK g : Sums(g, f, D) /\ SumFunction(f) = g[D]
  BY SumSums
<1>2. SumFunction(f) \in Nat
  BY <1>1 DEF Sums
<1>3. ASSUME \A x \in D : ~(f[x] > 0) PROVE g[D] = 0
  <2> DEFINE Holds == {s \in SUBSET D : g[s] = 0}
  <2>1. PartInductive(D, Holds)
    <3> SUFFICES ASSUME NEW s \in SUBSET D, \A x \in s : s \ {x} \in Holds PROVE g[s] = 0
      BY DEF PartInductive
    <3>1. CASE s = {}
      BY <1>1, <3>1 DEF Sums
    <3>2. CASE s # {}
      <4>1. PICK x \in s : TRUE
        BY <3>2
      <4>2. g[s] = f[x] + g[s \ {x}] /\ g[s \ {x}] = 0
        BY <1>1, <4>1 DEF Sums
      <4>3. f[x] = 0
        BY <1>3
      <4> QED BY <4>2, <4>3
    <3> QED BY <3>1, <3>2
  <2>2. D \in Holds
    <3> HIDE DEF Holds
    <3> QED BY <2>1, PartInduction
  <2> QED BY <2>2
<1> QED BY <1>1, <1>2, <1>3

\* b pairs D with C, and f with h.
Renames(b, D, C, f, h) ==
  /\ b \in [D -> C]
  /\ \A x, y \in D : b[x] = b[y] => x = y
  /\ \A y \in C : \E x \in D : b[x] = y
  /\ \A x \in D : f[x] = h[b[x]]

(* A sum does not depend on what its terms are called.                      *)
LEMMA SumRenamed ==
  ASSUME NEW D, IsFiniteSet(D), NEW C, IsFiniteSet(C),
         NEW f \in [D -> Nat], NEW h \in [C -> Nat], NEW b, Renames(b, D, C, f, h)
  PROVE  SumFunction(f) = SumFunction(h)
<1>1. PICK g : Sums(g, f, D) /\ SumFunction(f) = g[D]
  BY SumSums
<1>2. PICK k : Sums(k, h, C) /\ SumFunction(h) = k[C]
  BY SumSums
<1> DEFINE Image(s) == {b[x] : x \in s}
           Holds == {s \in SUBSET D : g[s] = k[Image(s)]}
<1>3. PartInductive(D, Holds)
  <2> SUFFICES ASSUME NEW s \in SUBSET D, \A x \in s : s \ {x} \in Holds
               PROVE  g[s] = k[Image(s)]
    BY DEF PartInductive
  <2>1. CASE s = {}
    <3>1. Image(s) = {}
      BY <2>1
    <3> QED BY <1>1, <1>2, <2>1, <3>1 DEF Sums
  <2>2. CASE s # {}
    <3>1. PICK x \in s : TRUE
      BY <2>2
    <3>2. Image(s) \in SUBSET C /\ b[x] \in Image(s)
      BY <3>1 DEF Renames
    <3>3. Image(s \ {x}) = Image(s) \ {b[x]}
      BY <3>1 DEF Renames
    <3>4. g[s \ {x}] = k[Image(s \ {x})]
      BY <3>1
    <3> HIDE DEF Image
    <3>5. g[s] = f[x] + g[s \ {x}]
      BY <1>1, <3>1 DEF Sums
    <3>6. k[Image(s)] = h[b[x]] + k[Image(s) \ {b[x]}]
      BY <1>2, <3>2 DEF Sums
    <3>7. f[x] = h[b[x]]
      BY <3>1 DEF Renames
    <3> QED BY <3>3, <3>4, <3>5, <3>6, <3>7
  <2> QED BY <2>1, <2>2
<1>4. D \in Holds
  <2> HIDE DEF Holds
  <2> QED BY <1>3, PartInduction
<1>5. Image(D) = C
  BY DEF Renames
<1> QED BY <1>1, <1>2, <1>4, <1>5

\* The units of the events of E that are of a type.
UnitsOf(E, type) == [e \in E |-> IF e.type = type THEN e.quantity ELSE 0]

(* A total is over the set of the events, whatever their order.             *)
LEMMA TotalOfSet ==
  ASSUME NEW E, \A e \in E : e.quantity \in Nat, NEW es, Lists(es, E), NEW type
  PROVE  /\ Total(es, type) = SumFunction(UnitsOf(E, type))
         /\ Total(es, type) \in Nat
         /\ Total(es, type) > 0 => \E e \in E : e.type = type
<1> DEFINE D == DOMAIN es
           f == [i \in D |-> IF es[i].type = type THEN es[i].quantity ELSE 0]
           h == UnitsOf(E, type)
<1>1. D = 1 .. Len(es) /\ Len(es) \in Nat /\ es \in [D -> E]
  BY LenProperties DEF Lists
<1>2. IsFiniteSet(D)
  <2>1. 1 \in Int /\ Len(es) \in Int
    BY <1>1
  <2> QED BY <1>1, <2>1, FS_Interval
<1>3. es \in Surjection(D, E)
  BY <1>1 DEF Lists, ToSet, Surjection
<1>4. IsFiniteSet(E)
  BY <1>2, <1>3, FS_Surjection
<1> HIDE DEF D
<1>5. f \in [D -> Nat] /\ h \in [E -> Nat]
  BY <1>1 DEF UnitsOf
<1>6. \A i \in D : f[i] = h[es[i]]
  BY <1>1 DEF UnitsOf
<1>7. Total(es, type) = SumFunction(f)
  BY DEF Total, D
<1>8. \A e \in E : h[e] > 0 => e.type = type
  BY DEF UnitsOf
<1> HIDE DEF f, h
<1>9. Renames(es, D, E, f, h)
  BY <1>1, <1>3, <1>6 DEF Renames, Lists, IsInjective, Surjection, D
<1>10. SumFunction(f) = SumFunction(h)
  BY <1>2, <1>4, <1>5, <1>9, SumRenamed
<1>11. SumFunction(h) \in Nat /\ (SumFunction(h) > 0 => \E e \in E : h[e] > 0)
  BY <1>4, <1>5, SumOfSome
<1> QED BY <1>7, <1>8, <1>10, <1>11 DEF h

-----------------------------------------------------------------------------
(* The dataset.                                                             *)

\* An event as it is written, at any time and of any quantity.
Event ==
  [id: Nat \ {0}, lot: Lot, type: EventTypes, parent: Nat, at: 1 .. MaxTime,
   from: Place \cup {Nobody}, to: Place \cup {Nobody}, quantity: Nat]

Events == ToSet(data.events)
LotEvents(l) == {e \in Events : e.lot = l}

DataTypeOK ==
  data \in [events : Seq(Event), on_hand : [Lot -> [Place -> Nat]], filed : [Lot -> [Place -> Int]]]

\* Each event is stored once, under an identifier of its own.
StoredOnce ==
  /\ IsInjective(data.events)
  /\ \A e \in Events : e.id <= Len(data.events)
  /\ \A d, e \in Events : d.id = e.id => d = e

\* A root receives; any other event follows one that was written before it.
Rooted ==
  \A e \in Events :
    /\ e.parent = Root => e.type = "receiving" /\ e.to # Nobody
    /\ e.parent # Root => \E p \in Events : p.id = e.parent /\ p.id < e.id /\ Follows(e, p)

\* Positions are where the lot has been, and hold all its stock.
StockedOnRoute ==
  \A l \in Lot, p \in Place :
    /\ p \in Positions(l) => p \in PlacesOf(EventsOf(l))
    /\ data.on_hand[l][p] > 0 => p \in Positions(l)

\* No two positions bear one identifier.
NamedOnce ==
  \A l, m \in Lot : \A p \in Positions(l), o \in Positions(m) :
    data.filed[l][p] = data.filed[m][o] => data.filed[l][p] = Own \/ (l = m /\ p = o)

\* The inductive invariant.
DataInv == DataTypeOK /\ StoredOnce /\ Rooted /\ StockedOnRoute /\ NamedOnce

(* What an insertion holds where.                                           *)
LEMMA InsertAtShape ==
  ASSUME NEW X, NEW s \in Seq(X), NEW x \in X, NEW n \in 1 .. Len(s) + 1
  PROVE  /\ InsertAt(s, n, x) \in Seq(X)
         /\ Len(InsertAt(s, n, x)) = Len(s) + 1
         /\ InsertAt(s, n, x)[n] = x
         /\ \A k \in 1 .. n - 1 : InsertAt(s, n, x)[k] = s[k]
         /\ \A k \in n .. Len(s) : InsertAt(s, n, x)[k + 1] = s[k]
<1> DEFINE a == SubSeq(s, 1, n - 1)
           b == SubSeq(s, n, Len(s))
           t == InsertAt(s, n, x)
<1>1. Len(s) \in Nat /\ n \in Nat
  BY LenProperties
<1>2. /\ a \in Seq(X) /\ Len(a) = n - 1 /\ \A k \in 1 .. n - 1 : a[k] = s[k]
      /\ b \in Seq(X) /\ Len(b) = Len(s) - n + 1
      /\ \A k \in 1 .. Len(s) - n + 1 : b[k] = s[n + k - 1]
  BY <1>1
<1>3. <<x>> \in Seq(X) /\ Len(<<x>>) = 1 /\ <<x>>[1] = x /\ 1 \in 1 .. 1
  OBVIOUS
<1>4. t = (a \o <<x>>) \o b
  BY DEF InsertAt
<1> HIDE DEF a, b, t
<1> DEFINE c == a \o <<x>>
<1>5. /\ c \in Seq(X) /\ Len(c) = Len(a) + 1
      /\ \A k \in 1 .. Len(a) : c[k] = a[k]
      /\ c[Len(a) + 1] = x
  BY <1>2, <1>3, Concatenation
<1> HIDE DEF c
<1>6. /\ c \o b \in Seq(X) /\ Len(c \o b) = Len(c) + Len(b)
      /\ \A k \in 1 .. Len(c) : (c \o b)[k] = c[k]
      /\ \A k \in 1 .. Len(b) : (c \o b)[Len(c) + k] = b[k]
  <2>1. b \in Seq(X) /\ c \in Seq(X)
    BY <1>2, <1>5
  <2>2. c \o b \in Seq(X) /\ Len(c \o b) = Len(c) + Len(b)
    BY <2>1, Concatenation
  <2>3. \A k \in 1 .. Len(c) : (c \o b)[k] = c[k]
    BY <2>1, Concatenation
  <2>4. \A k \in 1 .. Len(b) : (c \o b)[Len(c) + k] = b[k]
    BY <2>1, Concatenation
  <2> QED BY <2>2, <2>3, <2>4
<1>7. t = c \o b
  BY <1>4 DEF c
<1>8. Len(c) = n /\ Len(t) = Len(s) + 1 /\ t \in Seq(X)
  BY <1>1, <1>2, <1>5, <1>6, <1>7
<1>9. t[n] = x
  BY <1>1, <1>2, <1>5, <1>6, <1>7, <1>8
<1>10. ASSUME NEW k \in 1 .. n - 1 PROVE t[k] = s[k]
  BY <1>1, <1>2, <1>5, <1>6, <1>7, <1>8
<1>11. ASSUME NEW k \in n .. Len(s) PROVE t[k + 1] = s[k]
  <2>1. k - n + 1 \in 1 .. Len(b) /\ k + 1 = Len(c) + (k - n + 1) /\ n + (k - n + 1) - 1 = k
    BY <1>1, <1>2, <1>8
  <2>2. t[k + 1] = b[k - n + 1]
    BY <1>6, <1>7, <2>1
  <2>3. b[k - n + 1] = s[k]
    BY <1>2, <2>1
  <2> QED BY <2>2, <2>3
<1> QED BY <1>8, <1>9, <1>10, <1>11 DEF t

(* A new member, inserted anywhere, is listed with the others.              *)
LEMMA InsertAtLists ==
  ASSUME NEW E, NEW s, Lists(s, E), NEW x, x \notin E, NEW n \in 1 .. Len(s) + 1
  PROVE  Lists(InsertAt(s, n, x), E \cup {x})
<1> DEFINE t == InsertAt(s, n, x)
           X == E \cup {x}
<1>1. s \in Seq(X) /\ s \in Seq(E) /\ Len(s) \in Nat /\ DOMAIN s = 1 .. Len(s)
  <2>1. Len(s) \in Nat /\ s \in [1 .. Len(s) -> E]
    BY LenProperties DEF Lists
  <2> QED BY <2>1 DEF Lists
<1>2. /\ t \in Seq(X) /\ Len(t) = Len(s) + 1 /\ t[n] = x
      /\ \A k \in 1 .. n - 1 : t[k] = s[k]
      /\ \A k \in n .. Len(s) : t[k + 1] = s[k]
  <2>1. x \in X
    OBVIOUS
  <2> HIDE DEF X
  <2>2. s \in Seq(X)
    BY <1>1
  <2>3. t \in Seq(X) /\ Len(t) = Len(s) + 1 /\ t[n] = x
    BY <2>1, <2>2, InsertAtShape
  <2>4. \A k \in 1 .. n - 1 : t[k] = s[k]
    BY <2>1, <2>2, InsertAtShape
  <2>5. \A k \in n .. Len(s) : t[k + 1] = s[k]
    BY <2>1, <2>2, InsertAtShape
  <2> QED BY <2>3, <2>4, <2>5
<1> HIDE DEF t
<1>3. DOMAIN t = 1 .. Len(s) + 1
  BY <1>2, LenProperties
<1> DEFINE at(k) == IF k < n THEN k ELSE k - 1
<1>4. ASSUME NEW k \in DOMAIN t, k # n PROVE at(k) \in DOMAIN s /\ t[k] = s[at(k)]
  <2>1. CASE k < n
    BY <1>1, <1>2, <1>3, <2>1
  <2>2. CASE ~(k < n)
    <3>1. k - 1 \in n .. Len(s) /\ k - 1 \in 1 .. Len(s) /\ k = (k - 1) + 1
      BY <1>1, <1>3, <1>4, <2>2
    <3> QED BY <1>1, <1>2, <2>2, <3>1
  <2> QED BY <2>1, <2>2
<1>5. \A k \in DOMAIN t : k # n => t[k] \in E
  BY <1>4 DEF Lists, ToSet
<1>6. IsInjective(t)
  <2> SUFFICES ASSUME NEW i \in DOMAIN t, NEW j \in DOMAIN t, t[i] = t[j] PROVE i = j
    BY DEF IsInjective
  <2>1. CASE i = n \/ j = n
    BY <1>2, <1>5, <2>1
  <2>2. CASE i # n /\ j # n
    <3>1. at(i) = at(j)
      <4>1. s[at(i)] = s[at(j)] /\ at(i) \in DOMAIN s /\ at(j) \in DOMAIN s
        BY <1>4, <2>2
      <4> HIDE DEF at
      <4> QED BY <4>1 DEF Lists, IsInjective
    <3> QED BY <1>1, <1>3, <2>2, <3>1
  <2> QED BY <2>1, <2>2
<1>7. ToSet(t) = X
  <2>1. ASSUME NEW k \in DOMAIN t PROVE t[k] \in X
    BY <1>2, <1>5
  <2>2. ASSUME NEW e \in E PROVE \E k \in DOMAIN t : t[k] = e
    <3>1. PICK i \in 1 .. Len(s) : s[i] = e
      BY <1>1 DEF Lists, ToSet
    <3>2. CASE i < n
      <4>1. i \in 1 .. n - 1 /\ i \in DOMAIN t
        BY <1>1, <1>3, <3>2
      <4> QED BY <1>2, <3>1, <4>1
    <3>3. CASE ~(i < n)
      <4>1. i \in n .. Len(s) /\ i + 1 \in DOMAIN t
        BY <1>1, <1>3, <3>3
      <4> QED BY <1>2, <3>1, <4>1
    <3> QED BY <3>2, <3>3
  <2>3. n \in DOMAIN t
    BY <1>1, <1>3
  <2> QED BY <1>2, <2>1, <2>2, <2>3 DEF ToSet
<1> QED BY <1>2, <1>6, <1>7 DEF Lists, t

(* The events of a lot, in a dataset of which each event is stored once.    *)
LEMMA EventsOfLists ==
  ASSUME DataTypeOK, StoredOnce
  PROVE  /\ Lists(data.events, Events)
         /\ \A l \in Lot : Lists(EventsOf(l), LotEvents(l)) /\ LotEvents(l) \subseteq Event
<1>1. data.events \in Seq(Event) /\ Len(data.events) \in Nat
      /\ data.events \in [1 .. Len(data.events) -> Event]
  BY LenProperties DEF DataTypeOK
<1>2. Events \subseteq Event /\ data.events \in [1 .. Len(data.events) -> Events]
  BY <1>1 DEF Events, ToSet
<1>3. Lists(data.events, Events)
  BY <1>1, <1>2 DEF Lists, StoredOnce, Events
<1>4. ASSUME NEW l \in Lot PROVE Lists(EventsOf(l), LotEvents(l)) /\ LotEvents(l) \subseteq Event
  <2>1. LotEvents(l) \in SUBSET Events
    BY DEF LotEvents
  <2>2. Lists(Among(data.events, LotEvents(l)), LotEvents(l))
    BY <1>3, <2>1, AmongLists
  <2> QED BY <1>2, <2>1, <2>2 DEF EventsOf, LotEvents, Events
<1> QED BY <1>3, <1>4

(* The empty dataset has the invariant.                                     *)
LEMMA DataInit_Inv == DataInit => DataInv
<1> SUFFICES ASSUME DataInit PROVE DataInv
  OBVIOUS
<1>1. /\ data.events = <<>> /\ data.on_hand = [l \in Lot |-> [p \in Place |-> 0]]
      /\ \A l \in Lot : Positions(l) = {}
  BY DEF DataInit, Positions
<1>2. Events = {} /\ DOMAIN data.events = {}
  BY <1>1 DEF Events, ToSet
<1>3. DataTypeOK
  BY DEF DataInit, DataTypeOK, Unfiled
<1>4. StoredOnce /\ Rooted
  BY <1>2 DEF StoredOnce, Rooted, IsInjective
<1>5. StockedOnRoute /\ NamedOnce
  BY <1>1 DEF StockedOnRoute, NamedOnce
<1> QED BY <1>3, <1>4, <1>5 DEF DataInv

(* An accepted event keeps it, wherever it is stored.                       *)
LEMMA AddEvent_Inv ==
  ASSUME DataInv, NEW e \in NextEvents, NEW n \in 1 .. Len(data.events) + 1, AddEvent(e, n)
  PROVE  DataInv'
<1>1. /\ data.events \in Seq(Event) /\ Len(data.events) \in Nat
      /\ data.on_hand \in [Lot -> [Place -> Nat]] /\ data.filed \in [Lot -> [Place -> Int]]
  BY LenProperties DEF DataInv, DataTypeOK
<1>2. /\ e \in Event /\ e.id = Len(data.events) + 1
  BY <1>1, DataAssumption DEF NextEvents, Event
<1>3. Lists(data.events, Events)
  BY EventsOfLists DEF DataInv
<1>4. e \notin Events /\ \A d \in Events : d \in Event /\ d.id \in Nat /\ d.id < e.id
  <2>1. \A d \in Events : d \in Event /\ d.id \in Nat
    <3> SUFFICES ASSUME NEW i \in DOMAIN data.events
                 PROVE  data.events[i] \in Event /\ data.events[i].id \in Nat
      BY DEF Events, ToSet
    <3>1. data.events[i] \in Event
      BY <1>1
    <3> QED BY <3>1 DEF Event
  <2> QED BY <1>1, <1>2, <2>1 DEF DataInv, StoredOnce
<1>5. /\ data' = [data EXCEPT !.events = InsertAt(data.events, n, e)]
      /\ data'.events = InsertAt(data.events, n, e) /\ data'.on_hand = data.on_hand
      /\ data'.filed = data.filed
  BY DEF AddEvent, DataInv, DataTypeOK
<1>6. Lists(data'.events, Events \cup {e})
  BY <1>3, <1>4, <1>5, InsertAtLists
<1>7. Events' = Events \cup {e}
  BY <1>6 DEF Events, Lists
<1>8. data'.events \in Seq(Event) /\ Len(data'.events) = Len(data.events) + 1
  BY <1>1, <1>2, <1>5, InsertAtShape
<1>9. DataTypeOK'
  BY <1>1, <1>5, <1>8 DEF DataTypeOK, DataInv
<1>10. StoredOnce'
  <2>1. IsInjective(data'.events)
    BY <1>6 DEF Lists
  <2>2. \A d \in Events' : d.id <= Len(data'.events)
    BY <1>1, <1>2, <1>4, <1>7, <1>8
  <2>3. \A c, d \in Events' : c.id = d.id => c = d
    BY <1>2, <1>4, <1>7 DEF DataInv, StoredOnce
  <2> QED BY <2>1, <2>2, <2>3 DEF StoredOnce
<1>11. Rooted'
  <2> SUFFICES ASSUME NEW d \in Events'
               PROVE  /\ d.parent = Root => d.type = "receiving" /\ d.to # Nobody
                      /\ d.parent # Root => \E p \in Events' :
                           p.id = d.parent /\ p.id < d.id /\ Follows(d, p)
    BY DEF Rooted, Follows, Either
  <2>1. CASE d \in Events
    BY <1>7, <2>1 DEF DataInv, Rooted
  <2>2. CASE d = e
    <3>1. CASE e.parent = Root
      BY <2>2, <3>1 DEF AddEvent, AcceptsEvent
    <3>2. CASE e.parent # Root
      <4>1. PICK p \in Events : p.id = e.parent
        BY <3>2 DEF AddEvent, AcceptsEvent, Events
      <4>2. ById(e.parent) = p
        BY <4>1 DEF ById, Events, DataInv, StoredOnce
      <4>3. Follows(e, p)
        BY <3>2, <4>2 DEF AddEvent, AcceptsEvent
      <4> QED BY <1>4, <1>7, <2>2, <3>2, <4>1, <4>3
    <3> QED BY <3>1, <3>2
  <2> QED BY <1>7, <2>1, <2>2
\* There is no position yet.
<1>12. StockedOnRoute' /\ NamedOnce'
  <2>1. \A l \in Lot : Positions(l) = {} /\ Positions(l)' = {}
    BY <1>5 DEF AddEvent, Positions
  <2> QED BY <1>5, <2>1 DEF DataInv, StockedOnRoute, NamedOnce
<1> QED BY <1>9, <1>10, <1>11, <1>12 DEF DataInv

(* A position keeps it, with units or without.                              *)
LEMMA AddPosition_Inv ==
  ASSUME DataInv, NEW l \in Lot, NEW p \in Place, NEW name \in {Own} \cup Borrowed,
         NEW units \in 0 .. MaxUnits, AddPosition(l, p, name, units)
  PROVE  DataInv'
<1>1. /\ data.events \in Seq(Event) /\ data.on_hand \in [Lot -> [Place -> Nat]]
      /\ data.filed \in [Lot -> [Place -> Int]]
      /\ units \in Nat /\ name \in Int /\ name # Unfiled
  BY DataAssumption DEF DataInv, DataTypeOK, DataAssumption, Own, Unfiled
<1>2. /\ data' = [data EXCEPT !.on_hand = [data.on_hand EXCEPT ![l][p] = units],
                              !.filed = [data.filed EXCEPT ![l][p] = name]]
      /\ data'.events = data.events
      /\ data'.on_hand = [data.on_hand EXCEPT ![l][p] = units]
      /\ data'.filed = [data.filed EXCEPT ![l][p] = name]
  BY DEF AddPosition, DataInv, DataTypeOK
<1>3. data'.on_hand \in [Lot -> [Place -> Nat]] /\ data'.filed \in [Lot -> [Place -> Int]]
  BY <1>1, <1>2
<1>4. DataTypeOK'
  BY <1>1, <1>2, <1>3 DEF DataTypeOK, DataInv
<1>5. Events' = Events /\ \A m \in Lot : EventsOf(m)' = EventsOf(m)
  BY <1>2 DEF Events, EventsOf, Among
<1>6. StoredOnce' /\ Rooted'
  BY <1>2, <1>5 DEF DataInv, StoredOnce, Rooted, Follows, Either
<1>7. /\ p \notin Positions(l) /\ p \in PlacesOf(EventsOf(l))
      /\ name = Own \/ \A m \in Lot, o \in Place : data.filed[m][o] # name
  BY DEF AddPosition, AcceptsPosition, Positions
<1>8. ASSUME NEW m \in Lot, NEW o \in Place
      PROVE  /\ m = l /\ o = p => /\ o \in Positions(m)' /\ data'.filed[m][o] = name
             /\ m # l \/ o # p => /\ o \in Positions(m)' <=> o \in Positions(m)
                                 /\ data'.filed[m][o] = data.filed[m][o]
                                 /\ data'.on_hand[m][o] = data.on_hand[m][o]
  BY <1>1, <1>2 DEF Positions
<1>9. StockedOnRoute'
  <2> SUFFICES ASSUME NEW m \in Lot, NEW o \in Place
               PROVE  /\ o \in Positions(m)' => o \in PlacesOf(EventsOf(m))
                      /\ data'.on_hand[m][o] > 0 => o \in Positions(m)'
    BY <1>5 DEF StockedOnRoute, PlacesOf
  <2> QED BY <1>7, <1>8 DEF DataInv, StockedOnRoute
<1>10. NamedOnce'
  <2> SUFFICES ASSUME NEW k \in Lot, NEW m \in Lot,
                      NEW n \in Positions(k)', NEW o \in Positions(m)',
                      data'.filed[k][n] = data'.filed[m][o]
               PROVE  data'.filed[k][n] = Own \/ (k = m /\ n = o)
    BY DEF NamedOnce
  <2>1. n \in Place /\ o \in Place
    BY DEF Positions
  <2>2. CASE (k # l \/ n # p) /\ (m # l \/ o # p)
    BY <1>8, <2>1, <2>2 DEF DataInv, NamedOnce
  <2>3. CASE k = l /\ n = p
    BY <1>7, <1>8, <2>1, <2>3
  <2>4. CASE m = l /\ o = p
    BY <1>7, <1>8, <2>1, <2>4
  <2> QED BY <2>2, <2>3, <2>4
<1> QED BY <1>4, <1>6, <1>9, <1>10 DEF DataInv

(* Every dataset the loader accepts is well formed: its events are typed,   *)
(* stored once, under identifiers no other event has, each a root that      *)
(* received units or the continuation of an earlier event, and its          *)
(* inventory is where the lot has been, under identifiers no other position *)
(* has.                                                                     *)
THEOREM DataAlwaysInv == DataSpec => []DataInv
<1>1. DataInit => DataInv
  BY DataInit_Inv
<1>2. DataInv /\ [DataNext]_data => DataInv'
  <2> SUFFICES ASSUME DataInv, [DataNext]_data PROVE DataInv'
    OBVIOUS
  <2>1. CASE UNCHANGED data
    <3>1. Events' = Events /\ \A l \in Lot : EventsOf(l)' = EventsOf(l)
      BY <2>1 DEF Events, EventsOf, Among
    <3>2. DataTypeOK' /\ StoredOnce' /\ Rooted'
      BY <2>1, <3>1 DEF DataInv, DataTypeOK, StoredOnce, Rooted, Follows, Either
    <3>3. StockedOnRoute' /\ NamedOnce'
      BY <2>1, <3>1 DEF DataInv, StockedOnRoute, NamedOnce, Positions, PlacesOf
    <3> QED BY <3>2, <3>3 DEF DataInv
  <2>2. ASSUME NEW e \in NextEvents, NEW n \in 1 .. Len(data.events) + 1, AddEvent(e, n)
        PROVE  DataInv'
    BY <2>2, AddEvent_Inv
  <2>3. ASSUME NEW l \in Lot, NEW p \in Place, NEW name \in {Own} \cup Borrowed,
               NEW units \in 0 .. MaxUnits, AddPosition(l, p, name, units)
        PROVE  DataInv'
    BY <2>3, AddPosition_Inv
  <2> QED BY <2>1, <2>2, <2>3 DEF DataNext
<1> QED BY <1>1, <1>2, PTL DEF DataSpec

(* The events of a lot are a tree.                                          *)
LEMMA LotTree ==
  ASSUME DataInv, NEW l \in Lot
  PROVE  Tree(LotEvents(l), Len(data.events))
<1> DEFINE E == LotEvents(l)
           N == Len(data.events)
<1>1. N \in Nat
  BY LenProperties DEF DataInv, DataTypeOK
<1>2. \A e \in E : e \in Events /\ e \in Event /\ e.lot = l
  BY EventsOfLists DEF DataInv, LotEvents
<1>3. \A e \in E : e.id \in 1 .. N
  <2> SUFFICES ASSUME NEW e \in E PROVE e.id \in 1 .. N
    OBVIOUS
  <2>1. e.id \in Nat \ {0} /\ e.id <= N
    BY <1>2 DEF Event, DataInv, StoredOnce
  <2> HIDE DEF N, E
  <2> QED BY <1>1, <2>1
<1>4. \A d, e \in E : d.id = e.id => d = e
  BY <1>2 DEF DataInv, StoredOnce
<1>5. ASSUME NEW e \in E, e.parent # Root PROVE \E p \in E : p.id = e.parent /\ p.id < e.id
  <2>1. PICK p \in Events : p.id = e.parent /\ p.id < e.id /\ Follows(e, p)
    BY <1>2, <1>5 DEF DataInv, Rooted
  <2>2. p \in E
    BY <1>2, <2>1 DEF Follows, LotEvents
  <2> QED BY <2>1, <2>2
<1> QED BY <1>1, <1>3, <1>4, <1>5 DEF Tree

(* The service's forward trace of a lot is a listing of its events.         *)
LEMMA ForwardLists ==
  ASSUME DataInv, NEW l \in Lot
  PROVE  /\ Lists(EventsOf(l), LotEvents(l)) /\ Lists(trace_forward(l), LotEvents(l))
         /\ \A e, p \in LotEvents(l) : e.parent = p.id => Precedes(trace_forward(l), p, e)
<1>1. Lists(EventsOf(l), LotEvents(l))
  BY EventsOfLists DEF DataInv
<1>2. Tree(LotEvents(l), Len(data.events))
  BY LotTree
<1> QED BY <1>1, <1>2, WalkLists DEF trace_forward

(* A listing is as long as its set is large, and as its identifiers are.    *)
LEMMA ListingLength ==
  ASSUME NEW E, NEW s, Lists(s, E), \A d, e \in E : d.id = e.id => d = e
  PROVE  /\ IsFiniteSet(E) /\ Cardinality(E) = Len(s)
         /\ Cardinality({e.id : e \in E}) = Len(s)
<1> DEFINE D == 1 .. Len(s)
           I == {e.id : e \in E}
           f == [k \in D |-> s[k].id]
<1>1. Len(s) \in Nat /\ DOMAIN s = D /\ s \in [D -> E]
  BY LenProperties DEF Lists
<1>2. IsFiniteSet(D) /\ Cardinality(D) = Len(s)
  <2>1. 1 \in Int /\ Len(s) \in Int
    BY <1>1
  <2>2. IsFiniteSet(D) /\ Cardinality(D) = IF 1 > Len(s) THEN 0 ELSE Len(s) - 1 + 1
    BY <2>1, FS_Interval
  <2> HIDE DEF D
  <2> QED BY <1>1, <2>2
<1> HIDE DEF D
<1>3. s \in Bijection(D, E)
  BY <1>1 DEF Lists, ToSet, Bijection, Injection, Surjection, IsInjective
<1>4. f \in [D -> I]
  BY <1>1
<1>5. \A i, j \in D : f[i] = f[j] => i = j
  BY <1>1 DEF Lists, IsInjective
<1>6. \A x \in I : \E i \in D : f[i] = x
  BY <1>1 DEF Lists, ToSet
<1> HIDE DEF f, I
<1>7. f \in Bijection(D, I)
  BY <1>4, <1>5, <1>6 DEF Bijection, Injection, Surjection, IsInjective
<1>8. IsFiniteSet(E) /\ Cardinality(E) = Cardinality(D)
  BY <1>2, <1>3, FS_Bijection DEF ExistsBijection
<1>9. Cardinality(I) = Cardinality(D)
  BY <1>2, <1>7, FS_Bijection DEF ExistsBijection
<1> QED BY <1>2, <1>8, <1>9 DEF I

(* The forward trace passes the specialists' lineage checks.                *)
LEMMA ForwardIsSound ==
  ASSUME DataInv, NEW l \in Lot
  PROVE  SoundLineage(trace_forward(l), l)
<1> DEFINE E == LotEvents(l)
           es == trace_forward(l)
<1>1. Lists(es, E) /\ ToSet(es) = E
  BY ForwardLists DEF Lists
<1>2. Tree(E, Len(data.events))
  BY LotTree
<1>3. Cardinality(E) = Len(es) /\ Cardinality({e.id : e \in E}) = Len(es)
  BY <1>1, <1>2, ListingLength DEF Tree
<1>4. ASSUME NEW e \in E
      PROVE  e \in Events /\ e.lot = l
    BY DEF LotEvents
<1> DEFINE parent(e) == CHOOSE p \in E : p.id = e.parent
<1>5. ASSUME NEW e \in E, e.parent # Root
      PROVE  /\ e.parent \in {p.id : p \in E}
             /\ parent(e).lot = e.lot
             /\ Either(parent(e).to, parent(e).from) = Either(e.from, e.to)
  <2>1. PICK p \in Events : p.id = e.parent /\ Follows(e, p)
    BY <1>4, <1>5 DEF DataInv, Rooted
  <2>2. p \in E
    BY <1>4, <2>1 DEF Follows, LotEvents
  <2>3. parent(e) = p
    BY <1>2, <1>5, <2>1, <2>2, ParentIsChosen
  <2> HIDE DEF parent
  <2> QED BY <2>1, <2>2, <2>3 DEF Follows
<1>6. ASSUME NEW e \in E, e.parent = Root
      PROVE  e.type = "receiving" /\ e.to # Nobody
  BY <1>4, <1>6 DEF DataInv, Rooted
<1> HIDE DEF E, es
<1>7. SoundLineage(es, l)
  BY <1>1, <1>3, <1>4, <1>5, <1>6 DEF SoundLineage
<1> QED BY <1>7 DEF es

(* The service's totals are those of the loader.                            *)
LEMMA TotalsAgree ==
  ASSUME DataInv, NEW l \in Lot, NEW type
  PROVE  /\ Total(trace_forward(l), type) = Total(EventsOf(l), type)
         /\ Total(trace_forward(l), type) \in Nat
         /\ Total(trace_forward(l), type) > 0 => \E e \in LotEvents(l) : e.type = type
<1>1. Lists(EventsOf(l), LotEvents(l)) /\ Lists(trace_forward(l), LotEvents(l))
  BY ForwardLists
<1>2. \A e \in LotEvents(l) : e.quantity \in Nat
  BY EventsOfLists DEF Event, DataInv
<1> QED BY <1>1, <1>2, TotalOfSet

(* Stock is counted in units, and some position has it.                     *)
LEMMA StockIsSomewhere ==
  ASSUME DataInv, NEW l \in Lot
  PROVE  Stock(l) \in Nat /\ (Stock(l) > 0 => Positions(l) # {})
<1>1. data.on_hand[l] \in [Place -> Nat]
  BY DEF DataInv, DataTypeOK
<1>2. Stock(l) \in Nat /\ (Stock(l) > 0 => \E p \in Place : data.on_hand[l][p] > 0)
  BY <1>1, DataAssumption, SumOfSome DEF Stock, DataAssumption
<1> QED BY <1>2 DEF DataInv, StockedOnRoute

(* A lot with events has a root, which received it.                         *)
LEMMA SomethingWasReceived ==
  ASSUME DataInv, NEW l \in Lot, HasEvents(l)
  PROVE  \E e \in LotEvents(l) : e.type = "receiving"
<1> DEFINE E == LotEvents(l)
<1> SUFFICES ASSUME \A e \in E : e.type # "receiving" PROVE FALSE
  OBVIOUS
<1>1. Tree(E, Len(data.events))
  BY LotTree
<1>2. \A e \in E : e.parent # Root
  BY DEF LotEvents, DataInv, Rooted
<1>3. FromEarlier(E, {})
  BY <1>1, <1>2 DEF FromEarlier, Tree
<1>4. E = {}
  <2> HIDE DEF E
  <2> QED BY <1>1, <1>3, Descending
<1>5. Lists(EventsOf(l), E)
  BY ForwardLists
<1>6. EventsOf(l) = <<>>
  <2> HIDE DEF E
  <2>1. EventsOf(l) \in Seq({})
    BY <1>4, <1>5 DEF Lists
  <2> QED BY <2>1
<1> QED BY <1>6 DEF HasEvents

(* The labels of the service and of the specialists are the same.           *)
LEMMA MatchingIsAssessed == AssessesMatching
<1> SUFFICES ASSUME NEW distance \in 0 .. 2, NEW plant \in {"listed", "uncertain", "other"},
                    NEW inside \in BOOLEAN
             PROVE  match_lot(distance, plant, inside)
                      = derive_lot_classification(distance, plant, inside)
  BY DEF AssessesMatching
<1>1. distance = 0 \/ distance = 1 \/ distance = 2
  OBVIOUS
<1>2. Score(0) = 10 /\ Score(1) = 8 /\ Score(2) = 0
  BY DEF Score
<1> QED BY <1>1, <1>2 DEF match_lot, derive_lot_classification

(* What a loaded dataset's reconciliation of a lot with events says.        *)
LEMMA ReconciliationHolds ==
  ASSUME DataInv, Loads, NEW l \in Lot, HasEvents(l)
  PROVE  LET r == reconcile_units(l)
         IN  /\ Balanced(r) /\ SameReconciliation(trace_forward(l), l, r)
             /\ r.unaccounted = UnaccountedFor(l)
             /\ HasEvidence(r)
<1> DEFINE es == trace_forward(l)
           r == reconcile_units(l)
           q == Quantities(es, l)
           v == Evidence(es, l)
<1>1. ToSet(es) = LotEvents(l)
  BY ForwardLists DEF Lists
<1>2. ASSUME NEW type
      PROVE  /\ Total(es, type) = Total(EventsOf(l), type)
             /\ Total(es, type) \in Nat
             /\ Total(es, type) > 0 => \E e \in ToSet(es) : e.type = type
  BY <1>1, TotalsAgree
<1>3. Stock(l) \in Nat /\ (Stock(l) > 0 => Positions(l) # {})
  BY StockIsSomewhere
<1>4. \E e \in ToSet(es) : e.type = "receiving"
  BY <1>1, SomethingWasReceived
<1> HIDE DEF es
<1>5. /\ q.received = Total(es, "receiving") /\ q.on_hand = Stock(l)
      /\ q.sold = Total(es, "sale") /\ q.returned = Total(es, "return")
  BY DEF Quantities
<1>6. /\ v.received = {e.id : e \in {e \in ToSet(es) : e.type = "receiving"}}
      /\ v.sold = {e.id : e \in {e \in ToSet(es) : e.type = "sale"}}
      /\ v.returned = {e.id : e \in {e \in ToSet(es) : e.type = "return"}}
      /\ v.on_hand = Positions(l)
  BY DEF Evidence
<1>7. /\ r.quantities = q /\ r.evidence = v
      /\ r.unaccounted = q.received - q.on_hand - q.sold - q.returned
  BY DEF reconcile_units, es
<1> HIDE DEF r, q, v
<1>8. SameReconciliation(es, l, r)
  BY <1>7 DEF SameReconciliation, q, v
<1>9. r.unaccounted = UnaccountedFor(l)
  BY <1>2, <1>5, <1>7 DEF UnaccountedFor
<1>10. Balanced(r)
  <2>1. r.unaccounted >= 0
    BY <1>9 DEF Loads
  <2>2. q.received > 0 => v.received # {}
    BY <1>2, <1>5, <1>6
  <2>3. q.sold > 0 => v.sold # {}
    BY <1>2, <1>5, <1>6
  <2>4. q.returned > 0 => v.returned # {}
    BY <1>2, <1>5, <1>6
  <2>5. q.on_hand > 0 => v.on_hand # {}
    BY <1>3, <1>5, <1>6
  <2>6. ASSUME NEW c \in Components, r.quantities[c] > 0 PROVE r.evidence[c] # {}
    <3>1. \/ c = "received" \/ c = "on_hand" \/ c = "sold" \/ c = "returned"
      BY DEF Components
    <3> QED BY <1>7, <2>2, <2>3, <2>4, <2>5, <2>6, <3>1
  <2> QED BY <2>1, <2>6 DEF Balanced
<1>11. HasEvidence(r)
  <2>1. v.received # {}
    BY <1>4, <1>6
  <2>2. "received" \in Components
    BY DEF Components
  <2> QED BY <1>7, <2>1, <2>2 DEF HasEvidence
<1> QED BY <1>8, <1>9, <1>10, <1>11 DEF r, es

(* Identifiers can clash in one way only, between a position and an event.  *)
LEMMA IdentifiersClash ==
  ASSUME DataInv, NEW lots \in SUBSET Lot
  PROVE  DistinctIdentifiers(lots) <=> PositionsApart(lots)
<1> DEFINE events == UNION {ToSet(trace_forward(l)) : l \in lots}
           positions == {x \in lots \X Place : x[2] \in Positions(x[1])}
           name(x) == data.filed[x[1]][x[2]]
<1>1. \A l \in lots : /\ ToSet(trace_forward(l)) = LotEvents(l)
                     /\ ToSet(EventsOf(l)) = LotEvents(l)
  BY ForwardLists DEF Lists
<1>2. \A d, e \in events : d.id = e.id => d = e
  BY <1>1 DEF LotEvents, DataInv, StoredOnce
<1>3. \A x, y \in positions : name(x) = name(y) => name(x) = Own \/ x = y
  <2> SUFFICES ASSUME NEW x \in positions, NEW y \in positions, name(x) = name(y)
               PROVE  name(x) = Own \/ x = y
    OBVIOUS
  <2>1. /\ x = <<x[1], x[2]>> /\ x[1] \in Lot /\ x[2] \in Positions(x[1])
        /\ y = <<y[1], y[2]>> /\ y[1] \in Lot /\ y[2] \in Positions(y[1])
    OBVIOUS
  <2> QED BY <2>1 DEF DataInv, NamedOnce
<1>4. (\A x \in positions, e \in events : name(x) # e.id) <=> PositionsApart(lots)
  <2>1. ASSUME PositionsApart(lots), NEW x \in positions, NEW e \in events
        PROVE  name(x) # e.id
    <3>1. x[1] \in lots /\ x[2] \in Positions(x[1])
      OBVIOUS
    <3>2. PICK l \in lots : e \in ToSet(EventsOf(l))
      BY <1>1
    <3> QED BY <2>1, <3>1, <3>2 DEF PositionsApart
  <2>2. ASSUME \A x \in positions, e \in events : name(x) # e.id,
               NEW k \in lots, NEW l \in lots, NEW p \in Positions(k), NEW e \in ToSet(EventsOf(l))
        PROVE  data.filed[k][p] # e.id
    <3>1. <<k, p>> \in positions /\ e \in events
      BY <1>1 DEF Positions
    <3> QED BY <2>2, <3>1
  <2> QED BY <2>1, <2>2 DEF PositionsApart
<1> QED BY <1>2, <1>3, <1>4 DEF DistinctIdentifiers

(* Of what the specialists check again, only an identifier shared by a      *)
(* position and an event can fail an investigation of a dataset the loader  *)
(* accepts: but for that, the answers of the service about any lots with    *)
(* events pass every check, lead to the facilities of the lineage, and      *)
(* account for the missing units the loader computed.                       *)
THEOREM LoadedDataIsAssessableAlways == DataSpec => []LoadedDataIsAssessable
<1>1. DataInv => LoadedDataIsAssessable
  <2> SUFFICES ASSUME DataInv, Loads PROVE LoadedDataIsAssessable
    BY DEF LoadedDataIsAssessable
  <2>1. ASSUME NEW l \in Lot, HasEvents(l)
        PROVE  /\ ToSet(trace_forward(l)) = ToSet(EventsOf(l))
               /\ SoundLineage(trace_forward(l), l)
    BY <2>1, ForwardLists, ForwardIsSound DEF Lists
  <2>2. ASSUME NEW lots \in SUBSET {l \in Lot : HasEvents(l)}
        PROVE  /\ assess_traceability(lots) <=> PositionsApart(lots)
               /\ MayDraft(lots)
               /\ FacilitiesToAsk(lots) = UNION {PlacesOf(EventsOf(l)) : l \in lots}
    <3>1. \A l \in lots : l \in Lot /\ HasEvents(l)
      OBVIOUS
    <3>2. assess_traceability(lots) <=> PositionsApart(lots)
      <4>1. DistinctIdentifiers(lots) <=> PositionsApart(lots)
        BY <3>1, IdentifiersClash
      <4> QED BY <2>1, <3>1, <4>1, ReconciliationHolds DEF assess_traceability
    <3>3. MayDraft(lots)
      BY <3>1, ReconciliationHolds DEF MayDraft
    <3>4. ASSUME NEW l \in lots
          PROVE  PlacesOf(trace_forward(l)) \cup Positions(l) = PlacesOf(EventsOf(l))
      <4>1. PlacesOf(trace_forward(l)) = PlacesOf(EventsOf(l))
        BY <2>1, <3>1 DEF PlacesOf
      <4>2. Positions(l) \subseteq PlacesOf(EventsOf(l))
        BY <3>1 DEF DataInv, StockedOnRoute, Positions
      <4> QED BY <4>1, <4>2
    <3>5. FacilitiesToAsk(lots) = UNION {PlacesOf(EventsOf(l)) : l \in lots}
      BY <3>4 DEF FacilitiesToAsk
    <3> QED BY <3>2, <3>3, <3>5
  <2>3. ASSUME NEW l \in Lot, HasEvents(l)
        PROVE  LET r == reconcile_units(l)
               IN  /\ ToSet(trace_forward(l)) = ToSet(EventsOf(l))
                   /\ Balanced(r) /\ r.unaccounted = UnaccountedFor(l)
    BY <2>1, <2>3, ReconciliationHolds
  <2> QED BY <2>2, <2>3, MatchingIsAssessed DEF LoadedDataIsAssessable
<1> QED BY <1>1, DataAlwaysInv, PTL

\* Of a lot's events, by time and identifier.
ChronicleOrder(E) == {p \in E \X E : Earlier(p[1], p[2])}

(* Time and identifier order a lot's events strictly.                       *)
LEMMA ChronicleIsStrict ==
  ASSUME NEW E \in SUBSET Event, \A d, e \in E : d.id = e.id => d = e
  PROVE  StrictOrder(E, ChronicleOrder(E))
<1>1. \A e \in E : Moment[e.at] \in Nat /\ e.id \in Nat
  BY DataAssumption DEF Event, DataAssumption
<1>2. \A d, e \in E : <<d, e>> \in ChronicleOrder(E) <=> Earlier(d, e)
  BY DEF ChronicleOrder
<1>3. \A e \in E : ~Earlier(e, e)
  BY <1>1 DEF Earlier
<1>4. \A c, d, e \in E : Earlier(c, d) /\ Earlier(d, e) => Earlier(c, e)
  BY <1>1 DEF Earlier
<1>5. \A d, e \in E : d = e \/ Earlier(d, e) \/ Earlier(e, d)
  BY <1>1 DEF Earlier
<1> QED BY <1>2, <1>3, <1>4, <1>5 DEF StrictOrder

(* Events stored in order are their own chronicle.                          *)
LEMMA StoredIsChronicle ==
  ASSUME DataInv, NEW l \in Lot, StoredInOrder(l)
  PROVE  EventsOf(l) = Chronicle(ToSet(EventsOf(l)))
<1> DEFINE E == LotEvents(l)
           s == EventsOf(l)
<1>1. Lists(s, E) /\ ToSet(s) = E /\ E \subseteq Event /\ s \in [DOMAIN s -> E]
  BY EventsOfLists DEF DataInv, Lists
<1>2. \A d, e \in E : d.id = e.id => d = e
  BY LotTree DEF Tree
<1>3. IsFiniteSet(E)
  BY <1>1, <1>2, ListingLength
<1>4. StrictOrder(E, ChronicleOrder(E))
  BY <1>1, <1>2, ChronicleIsStrict
<1>5. \A i, j \in DOMAIN s : i < j => Earlier(s[i], s[j])
  BY DEF StoredInOrder
<1> HIDE DEF s, E
<1>6. Sorted(s, ChronicleOrder(E))
  BY <1>1, <1>5 DEF Sorted, ChronicleOrder
<1>7. s = InOrder(E, ChronicleOrder(E))
  BY <1>1, <1>3, <1>4, <1>6, InOrderIsUnique
<1>8. s = Chronicle(ToSet(s))
  BY <1>1, <1>7 DEF Chronicle, ChronicleOrder
<1> QED BY <1>8 DEF s

\* The i-th of es goes before the j-th, backward.
DeeperAt(es, i, j) ==
  \/ Depth(es)[es[i]] > Depth(es)[es[j]]
  \/ Depth(es)[es[i]] = Depth(es)[es[j]] /\ es[i].at < es[j].at
  \/ Depth(es)[es[i]] = Depth(es)[es[j]] /\ es[i].at = es[j].at /\ i < j

BackwardOrder(es) == {p \in (DOMAIN es) \X (DOMAIN es) : DeeperAt(es, p[1], p[2])}

\* order holds the positions of es backward, and t the events there.
Backward(t, order, es) ==
  /\ Lists(order, DOMAIN es)
  /\ DOMAIN t = DOMAIN order /\ \A n \in DOMAIN order : t[n] = es[order[n]]
  /\ \A m, n \in DOMAIN order : m < n => DeeperAt(es, order[m], order[n])

(* The service's backward trace.                                            *)
LEMMA BackwardShape ==
  ASSUME DataInv, NEW l \in Lot
  PROVE  /\ \E order : Backward(trace_backward(l), order, EventsOf(l))
         /\ Lists(trace_backward(l), LotEvents(l))
<1> DEFINE E == LotEvents(l)
           es == EventsOf(l)
           D == DOMAIN es
           order == InOrder(D, BackwardOrder(es))
           t == trace_backward(l)
<1>1. Lists(es, E) /\ ToSet(es) = E /\ E \subseteq Event
  BY EventsOfLists DEF DataInv, Lists
<1>2. Depth(es) \in [E -> Nat]
  BY <1>1, LotTree, DepthEquation
<1>3. t = [n \in DOMAIN order |-> es[order[n]]]
  BY DEF trace_backward, BackwardOrder, DeeperAt
<1> HIDE DEF es, t, E
<1>4. D = 1 .. Len(es) /\ Len(es) \in Nat /\ es \in [D -> E]
  BY <1>1, LenProperties DEF Lists
<1>5. IsFiniteSet(D)
  <2>1. 1 \in Int /\ Len(es) \in Int
    BY <1>4
  <2> QED BY <1>4, <2>1, FS_Interval
<1>6. \A i \in D : es[i] \in E /\ Depth(es)[es[i]] \in Nat /\ es[i].at \in Nat /\ i \in Nat
  <2> SUFFICES ASSUME NEW i \in D
               PROVE  es[i] \in E /\ Depth(es)[es[i]] \in Nat /\ es[i].at \in Nat /\ i \in Nat
    OBVIOUS
  <2>1. es[i] \in E /\ i \in Nat
    BY <1>4
  <2>2. Depth(es)[es[i]] \in Nat
    BY <1>2, <2>1
  <2>3. es[i].at \in Nat
    BY <1>1, <2>1 DEF Event
  <2> QED BY <2>1, <2>2, <2>3
<1> HIDE DEF D
<1>7. StrictOrder(D, BackwardOrder(es))
  <2>1. \A i, j \in D : <<i, j>> \in BackwardOrder(es) <=> DeeperAt(es, i, j)
    BY DEF BackwardOrder, D
  <2>2. \A i \in D : ~DeeperAt(es, i, i)
    BY <1>6 DEF DeeperAt
  <2>3. \A i, j, k \in D : DeeperAt(es, i, j) /\ DeeperAt(es, j, k) => DeeperAt(es, i, k)
    BY <1>6 DEF DeeperAt
  <2>4. \A i, j \in D : i = j \/ DeeperAt(es, i, j) \/ DeeperAt(es, j, i)
    BY <1>6 DEF DeeperAt
  <2> QED BY <2>1, <2>2, <2>3, <2>4 DEF StrictOrder
<1>8. Lists(order, D) /\ Sorted(order, BackwardOrder(es))
  BY <1>5, <1>7, InOrderSorts
<1> HIDE DEF order
<1>9. \A m, n \in DOMAIN order : m < n => DeeperAt(es, order[m], order[n])
  BY <1>8 DEF Sorted, BackwardOrder
<1>10. Backward(t, order, es)
  BY <1>3, <1>8, <1>9 DEF Backward, D
<1>11. Lists(t, E)
  <2>1. Len(order) \in Nat /\ DOMAIN order = 1 .. Len(order) /\ order \in [1 .. Len(order) -> D]
    BY <1>8, LenProperties DEF Lists
  <2>2. t \in [1 .. Len(order) -> E]
    BY <1>3, <1>4, <2>1
  <2>3. t \in Seq(E)
    BY <2>1, <2>2
  <2>4. \A e \in E : \E n \in DOMAIN t : t[n] = e
    <3> SUFFICES ASSUME NEW e \in E PROVE \E n \in DOMAIN t : t[n] = e
      OBVIOUS
    <3>1. PICK i \in D : es[i] = e
      BY <1>1 DEF Lists, ToSet, D
    <3>2. PICK n \in DOMAIN order : order[n] = i
      BY <1>8 DEF Lists, ToSet
    <3> QED BY <1>3, <3>1, <3>2
  <2>5. IsInjective(t)
    <3> SUFFICES ASSUME NEW m \in DOMAIN order, NEW n \in DOMAIN order, t[m] = t[n] PROVE m = n
      BY <1>3 DEF IsInjective
    <3>1. order[m] \in D /\ order[n] \in D /\ es[order[m]] = es[order[n]]
      BY <1>3, <2>1
    <3>2. order[m] = order[n]
      BY <1>1, <3>1 DEF Lists, IsInjective, D
    <3> QED BY <1>8, <3>2 DEF Lists, IsInjective
  <2>6. ToSet(t) = E
    BY <2>1, <2>2, <2>4 DEF ToSet
  <2> QED BY <2>3, <2>5, <2>6 DEF Lists
<1> QED BY <1>10, <1>11 DEF es, t, E

(* Backward, an event comes before its parent.                              *)
LEMMA BackwardOrderIsDeep ==
  ASSUME DataInv, NEW l \in Lot, NEW e \in LotEvents(l), NEW p \in LotEvents(l), e.parent = p.id
  PROVE  Precedes(trace_backward(l), e, p)
<1> DEFINE E == LotEvents(l)
           es == EventsOf(l)
           t == trace_backward(l)
<1>1. Lists(es, E) /\ ToSet(es) = E
  BY EventsOfLists DEF DataInv, Lists
<1>2. Depth(es) \in [E -> Nat] /\ Depth(es)[e] = Depth(es)[p] + 1
  BY <1>1, LotTree, DepthEquation
<1>3. PICK order : Backward(t, order, es)
  BY BackwardShape
<1> HIDE DEF es, t
<1>4. PICK a \in DOMAIN es : es[a] = e
  BY <1>1 DEF ToSet
<1>5. PICK b \in DOMAIN es : es[b] = p
  BY <1>1 DEF ToSet
<1>6. PICK i \in DOMAIN order : order[i] = a
  BY <1>3 DEF Backward, Lists, ToSet
<1>7. PICK j \in DOMAIN order : order[j] = b
  BY <1>3 DEF Backward, Lists, ToSet
<1>8. Depth(es)[e] \in Nat /\ Depth(es)[p] \in Nat
  BY <1>2
<1>9. ~DeeperAt(es, b, a) /\ a # b
  BY <1>2, <1>4, <1>5, <1>8 DEF DeeperAt
<1>10. i \in Nat /\ j \in Nat
  <2>1. order \in Seq(DOMAIN es)
    BY <1>3 DEF Backward, Lists
  <2> QED BY <2>1
<1>11. i < j
  <2>1. ~(j < i)
    BY <1>3, <1>6, <1>7, <1>9 DEF Backward
  <2>2. i # j
    BY <1>6, <1>7, <1>9
  <2> QED BY <1>10, <2>1, <2>2
<1>12. Precedes(t, e, p)
  BY <1>3, <1>4, <1>5, <1>6, <1>7, <1>11 DEF Precedes, Backward
<1> QED BY <1>12 DEF t

(* The specialists' backward order is strict too.                           *)
LEMMA AssessedIsStrict ==
  ASSUME NEW E \in SUBSET Event, \A d, e \in E : d.id = e.id => d = e, NEW depth \in [E -> Nat],
         NEW R, \A d, e \in E : <<d, e>> \in R <=>
                  depth[d] > depth[e] \/ (depth[d] = depth[e] /\ Earlier(d, e))
  PROVE  StrictOrder(E, R)
<1>1. \A e \in E : Moment[e.at] \in Nat /\ e.id \in Nat /\ depth[e] \in Nat
  BY DataAssumption DEF Event, DataAssumption
<1> DEFINE deeper(d, e) == depth[d] > depth[e] \/ (depth[d] = depth[e] /\ Earlier(d, e))
<1>2. \A e \in E : ~deeper(e, e)
  BY <1>1 DEF Earlier
<1>3. \A c, d, e \in E : deeper(c, d) /\ deeper(d, e) => deeper(c, e)
  BY <1>1 DEF Earlier
<1>4. \A d, e \in E : d = e \/ deeper(d, e) \/ deeper(e, d)
  BY <1>1 DEF Earlier
<1> HIDE DEF deeper
<1>5. \A d, e \in E : <<d, e>> \in R <=> deeper(d, e)
  BY DEF deeper
<1> QED BY <1>2, <1>3, <1>4, <1>5 DEF StrictOrder

(* Of a set along a strict order, a sorting puts the lower one first.       *)
LEMMA SortedPrecedes ==
  ASSUME NEW S, IsFiniteSet(S), NEW R, StrictOrder(S, R), NEW x \in S, NEW y \in S, <<x, y>> \in R
  PROVE  Precedes(InOrder(S, R), x, y)
<1> DEFINE s == InOrder(S, R)
<1>1. Lists(s, S) /\ Sorted(s, R)
  BY InOrderSorts
<1> HIDE DEF s
<1>2. DOMAIN s = 1 .. Len(s) /\ Len(s) \in Nat
  BY <1>1, LenProperties DEF Lists
<1>3. PICK i \in DOMAIN s : s[i] = x
  BY <1>1 DEF Lists, ToSet
<1>4. PICK j \in DOMAIN s : s[j] = y
  BY <1>1 DEF Lists, ToSet
<1>5. x # y /\ <<y, x>> \notin R
  BY DEF StrictOrder
<1>6. i < j
  <2>1. ~(j < i) /\ i # j
    BY <1>1, <1>3, <1>4, <1>5 DEF Sorted
  <2> QED BY <1>2, <2>1
<1>7. Precedes(s, x, y)
  BY <1>3, <1>4, <1>6 DEF Precedes
<1> QED BY <1>7 DEF s

(* Both sort backward alike what is stored in order exactly where the texts *)
(* of the times of events of one depth have the order of the times.         *)
LEMMA BackwardAgrees ==
  ASSUME DataInv, NEW l \in Lot, StoredInOrder(l)
  PROVE  trace_backward(l) = assessed_backward(EventsOf(l)) <=> WrittenInOrder(l)
<1> DEFINE E == LotEvents(l)
           es == EventsOf(l)
           t == trace_backward(l)
           R == {p \in E \X E : \/ Depth(es)[p[1]] > Depth(es)[p[2]]
                                \/ Depth(es)[p[1]] = Depth(es)[p[2]] /\ Earlier(p[1], p[2])}
<1>1. Lists(es, E) /\ ToSet(es) = E /\ E \subseteq Event /\ \A i \in DOMAIN es : es[i] \in E
  BY EventsOfLists DEF DataInv, Lists, ToSet
<1>2. \A d, e \in E : d.id = e.id => d = e
  BY LotTree DEF Tree
<1>3. IsFiniteSet(E)
  BY <1>1, <1>2, ListingLength
<1>4. Depth(es) \in [E -> Nat]
  BY <1>1, LotTree, DepthEquation
<1>5. \A i, j \in DOMAIN es : i < j => Earlier(es[i], es[j])
  BY DEF StoredInOrder
<1>6. assessed_backward(es) = InOrder(E, R)
  BY <1>1 DEF assessed_backward
<1>7. PICK order : Backward(t, order, es)
  BY BackwardShape
<1>8. Lists(t, E)
  BY BackwardShape
<1>9. WrittenInOrder(l) <=>
        \A d, e \in E : Depth(es)[d] = Depth(es)[e] /\ Earlier(d, e) => d.at <= e.at
  BY <1>1 DEF WrittenInOrder
<1> HIDE DEF es, t, E
<1>10. \A d, e \in E : <<d, e>> \in R <=>
        Depth(es)[d] > Depth(es)[e] \/ (Depth(es)[d] = Depth(es)[e] /\ Earlier(d, e))
  OBVIOUS
<1> HIDE DEF R
<1>11. StrictOrder(E, R)
  BY <1>1, <1>2, <1>4, <1>10, AssessedIsStrict
<1>12. \A e \in E : e.at \in Nat
  BY <1>1 DEF Event
<1>13. ASSUME NEW d \in E, NEW e \in E PROVE d = e \/ Earlier(d, e) \/ Earlier(e, d)
  <2>1. /\ Moment[d.at] \in Nat /\ Moment[e.at] \in Nat /\ d.id \in Nat /\ e.id \in Nat
    BY <1>1, DataAssumption DEF Event, DataAssumption
  <2> QED BY <1>2, <2>1 DEF Earlier
<1>14. ASSUME WrittenInOrder(l) PROVE t = InOrder(E, R)
  <2>1. Sorted(t, R)
    <3> SUFFICES ASSUME NEW m \in DOMAIN order, NEW n \in DOMAIN order, m < n
                 PROVE  <<t[m], t[n]>> \in R
      BY <1>7 DEF Backward, Sorted
    <3>1. order[m] \in DOMAIN es /\ order[n] \in DOMAIN es /\ t[m] = es[order[m]] /\ t[n] = es[order[n]]
      BY <1>7 DEF Backward, Lists, ToSet
    <3>2. DeeperAt(es, order[m], order[n])
      BY <1>7 DEF Backward
    <3>3. t[m] \in E /\ t[n] \in E
      BY <1>1, <3>1
    <3>4. CASE Depth(es)[t[m]] > Depth(es)[t[n]]
      BY <1>10, <3>3, <3>4
    <3>5. CASE Depth(es)[t[m]] = Depth(es)[t[n]] /\ t[m].at < t[n].at
      <4>1. ~(t[n].at <= t[m].at) /\ t[m] # t[n]
        BY <1>12, <3>3, <3>5
      <4>2. ~Earlier(t[n], t[m])
        BY <1>14, <1>9, <3>3, <3>5, <4>1
      <4> QED BY <1>10, <1>13, <3>3, <3>5, <4>1, <4>2
    <3>6. CASE Depth(es)[t[m]] = Depth(es)[t[n]] /\ order[m] < order[n]
      BY <1>5, <1>10, <3>1, <3>3, <3>6
    <3> QED BY <3>1, <3>2, <3>4, <3>5, <3>6 DEF DeeperAt
  <2> QED BY <1>3, <1>8, <1>11, <2>1, InOrderIsUnique
<1>15. ASSUME t = InOrder(E, R),
              NEW d \in E, NEW e \in E, Depth(es)[d] = Depth(es)[e], Earlier(d, e), ~(d.at <= e.at)
       PROVE  FALSE
  <2>1. <<d, e>> \in R
    BY <1>10, <1>15
  <2>2. Precedes(t, d, e)
    BY <1>3, <1>11, <1>15, <2>1, SortedPrecedes
  <2>3. PICK m, n \in DOMAIN t : m < n /\ t[m] = d /\ t[n] = e
    BY <2>2 DEF Precedes
  <2>4. /\ DeeperAt(es, order[m], order[n]) /\ d = es[order[m]] /\ e = es[order[n]]
    BY <1>7, <2>3 DEF Backward
  <2>5. d.at \in Nat /\ e.at \in Nat /\ Depth(es)[d] \in Nat
    BY <1>4, <1>12
  <2> QED BY <1>15, <2>4, <2>5 DEF DeeperAt
<1>16. t = InOrder(E, R) <=> WrittenInOrder(l)
  BY <1>14, <1>15, <1>9
<1> QED BY <1>6, <1>16 DEF es, t

(* The forward order a live run is verified against is the service's own on *)
(* a dataset stored in order, and the backward one exactly where the texts  *)
(* of the times of events of one depth have the order of the times; and, in *)
(* whatever order it is stored and its times are written, a parent comes    *)
(* before its children forward and after them backward.                     *)
THEOREM TracesAlwaysAgree == DataSpec => []TracesAgree
<1>1. DataInv => TracesAgree
  <2> SUFFICES ASSUME DataInv, NEW l \in Lot
               PROVE  /\ StoredInOrder(l) =>
                           /\ trace_forward(l) = assessed_forward(EventsOf(l))
                           /\ trace_backward(l) = assessed_backward(EventsOf(l))
                                <=> WrittenInOrder(l)
                      /\ \A e \in ToSet(EventsOf(l)) : e.parent # Root =>
                           /\ Precedes(trace_forward(l), ById(e.parent), e)
                           /\ Precedes(trace_backward(l), e, ById(e.parent))
    BY DEF TracesAgree, Precedes
  <2>1. ASSUME StoredInOrder(l) PROVE trace_forward(l) = assessed_forward(EventsOf(l))
    BY <2>1, StoredIsChronicle DEF trace_forward, assessed_forward
  <2>2. ASSUME StoredInOrder(l)
        PROVE  trace_backward(l) = assessed_backward(EventsOf(l)) <=> WrittenInOrder(l)
    BY <2>2, BackwardAgrees
  <2>3. ASSUME NEW e \in ToSet(EventsOf(l)), e.parent # Root
        PROVE  /\ Precedes(trace_forward(l), ById(e.parent), e)
               /\ Precedes(trace_backward(l), e, ById(e.parent))
    <3>1. e \in LotEvents(l)
      BY ForwardLists DEF Lists
    <3>2. PICK p \in LotEvents(l) : p.id = e.parent
      BY <2>3, <3>1, LotTree DEF Tree
    <3>3. ById(e.parent) = p
      BY <3>2 DEF ById, LotEvents, Events, DataInv, StoredOnce
    <3> QED BY <3>1, <3>2, <3>3, ForwardLists, BackwardOrderIsDeep
  <2> QED BY <2>1, <2>2, <2>3
<1> QED BY <1>1, DataAlwaysInv, PTL
=============================================================================
