--------------------------- MODULE SequenceLemmas ---------------------------
(***************************************************************************)
(* Facts about the two loops over sequences that the models use: Selected  *)
(* and FlattenSeq.  Both are recursive functions, that is, a CHOOSE; the   *)
(* function is first shown to exist.  Induction is an appeal to the least  *)
(* counterexample, because no prover takes a predicate as a parameter.     *)
(***************************************************************************)
EXTENDS Selection, WellFoundedInduction, TLAPS

(* Sequences *)

LEMMA SeqMonotonic ==
  ASSUME NEW V, NEW W, NEW s \in Seq(V), V \subseteq W
  PROVE  s \in Seq(W)
OBVIOUS

LEMMA LenProperties ==
  ASSUME NEW V, NEW s \in Seq(V)
  PROVE  Len(s) \in Nat /\ s \in [1..Len(s) -> V] /\ DOMAIN s = 1..Len(s)
OBVIOUS

LEMMA SeqEqual ==
  ASSUME NEW V, NEW s \in Seq(V), NEW t \in Seq(V), Len(s) = Len(t), \A k \in 1..Len(s) : s[k] = t[k]
  PROVE  s = t
OBVIOUS

LEMMA ConcatProperties ==
  ASSUME NEW V, NEW s \in Seq(V), NEW t \in Seq(V)
  PROVE  /\ s \o t \in Seq(V)
         /\ Len(s \o t) = Len(s) + Len(t)
         /\ \A k \in 1..(Len(s) + Len(t)) : (s \o t)[k] = IF k <= Len(s) THEN s[k] ELSE t[k - Len(s)]
OBVIOUS

LEMMA ConcatEmptySeq ==
  ASSUME NEW V, NEW s \in Seq(V)
  PROVE  s \o <<>> = s /\ <<>> \o s = s
OBVIOUS

LEMMA ConcatAssociative ==
  ASSUME NEW V, NEW p \in Seq(V), NEW q \in Seq(V), NEW r \in Seq(V)
  PROVE  (p \o q) \o r = p \o (q \o r)
OBVIOUS

LEMMA SubSeqProperties ==
  ASSUME NEW V, NEW s, NEW m \in Int, NEW n \in Int, \A k \in m..n : s[k] \in V
  PROVE  /\ SubSeq(s, m, n) \in Seq(V)
         /\ Len(SubSeq(s, m, n)) = IF m <= n THEN (n - m) + 1 ELSE 0
         /\ \A k \in 1..((n - m) + 1) : SubSeq(s, m, n)[k] = s[(m + k) - 1]
OBVIOUS

LEMMA AppendProperties ==
  ASSUME NEW V, NEW s \in Seq(V), NEW e \in V
  PROVE  /\ Append(s, e) \in Seq(V) /\ Len(Append(s, e)) = Len(s) + 1 /\ Append(s, e) = s \o <<e>>
         /\ \A k \in 1..Len(s) : Append(s, e)[k] = s[k]
         /\ Append(s, e)[Len(s) + 1] = e
OBVIOUS

LEMMA SequenceEmptyOrAppend ==
  ASSUME NEW V, NEW s \in Seq(V), s # <<>>
  PROVE  \E t \in Seq(V), e \in V : s = Append(t, e)
<1> DEFINE t == [k \in 1..(Len(s) - 1) |-> s[k]]
           e == s[Len(s)]
<1>1. t \in Seq(V) /\ e \in V /\ s = Append(t, e)
  OBVIOUS
<1> QED
  BY <1>1, Zenon

-----------------------------------------------------------------------------
(* Numbers *)

\* A set of numbers with a member has a least one.
LEMMA LeastNumber ==
  ASSUME NEW T, T \subseteq Nat, T # {}
  PROVE  \E x \in T : \A y \in T : x <= y
<1> DEFINE R == OpToRel(<, Nat)
<1>1. IsWellFoundedOn(R, Nat)
  BY NatLessThanWellFounded
<1>2. \A x, y \in Nat : x < y => <<x, y>> \in R
  BY DEF OpToRel
<1> HIDE DEF R
<1>3. PICK x \in T : \A y \in T : ~(<<y, x>> \in R)
  BY <1>1, WFMin
<1>4. ASSUME NEW y \in T PROVE x <= y
  <2>1. x \in Nat /\ y \in Nat
    OBVIOUS
  <2>2. ~(y < x)
    BY <1>2, <1>3, <2>1, Zenon
  <2> QED
    BY <2>1, <2>2
<1> QED
  BY <1>4

\* Induction: a set of numbers with 0 that is closed under successor.
LEMMA Induction ==
  ASSUME NEW T, 0 \in T, \A n \in Nat : n \in T => n + 1 \in T
  PROVE  Nat \subseteq T
<1> DEFINE Bad == Nat \ T
<1> SUFFICES ASSUME Bad # {} PROVE FALSE
  OBVIOUS
<1>1. PICK m \in Bad : \A y \in Bad : m <= y
  BY LeastNumber
<1>2. m - 1 \in Nat /\ m - 1 \notin Bad
  BY <1>1
<1> QED
  BY <1>1, <1>2

\* Recursion over 0..n with values in a set.
Recursion(f, n, V, v0, step) == f \in [0..n -> V] /\ f[0] = v0 /\ \A k \in 1..n : f[k] = step[k][f[k - 1]]

LEMMA RecursionExists ==
  ASSUME NEW V, NEW v0 \in V, NEW n \in Nat, NEW step \in [1..n -> [V -> V]]
  PROVE  \E f : Recursion(f, n, V, v0, step)
<1> DEFINE Good(f, m) == f \in [0..m -> V] /\ f[0] = v0 /\ \A k \in 1..m : f[k] = step[k][f[k - 1]]
           T == {m \in Nat : m <= n => \E f : Good(f, m)}
<1>1. 0 \in T
  <2> DEFINE f == [k \in 0..0 |-> v0]
  <2>1. Good(f, 0)
    OBVIOUS
  <2> QED
    BY <2>1
<1>2. ASSUME NEW m \in Nat, m \in T PROVE m + 1 \in T
  <2> SUFFICES ASSUME m + 1 <= n PROVE \E f : Good(f, m + 1)
    OBVIOUS
  <2>1. PICK f : Good(f, m)
    BY <1>2
  <2> DEFINE g == [k \in 0..(m + 1) |-> IF k = m + 1 THEN step[m + 1][f[m]] ELSE f[k]]
  <2>2. step[m + 1][f[m]] \in V
    <3>1. m + 1 \in 1..n /\ m \in 0..m
      OBVIOUS
    <3>2. step[m + 1] \in [V -> V] /\ f[m] \in V
      BY <2>1, <3>1
    <3> QED
      BY <3>2
  <2>3. g \in [0..(m + 1) -> V] /\ g[0] = v0
    BY <2>1, <2>2
  <2>4. ASSUME NEW k \in 1..(m + 1) PROVE g[k] = step[k][g[k - 1]]
    <3>1. k - 1 \in 0..m /\ k - 1 \in 0..(m + 1) /\ k - 1 # m + 1 /\ k \in 0..(m + 1)
      OBVIOUS
    <3>2. g[k - 1] = f[k - 1]
      BY <3>1, Zenon
    <3>3. CASE k = m + 1
      <4>1. k - 1 = m /\ g[k] = step[m + 1][f[m]]
        BY <3>1, <3>3
      <4> QED
        BY <3>2, <3>3, <4>1, Zenon
    <3>4. CASE k # m + 1
      <4>1. k \in 1..m /\ g[k] = f[k]
        BY <3>1, <3>4
      <4> QED
        BY <2>1, <3>2, <4>1, Zenon
    <3> QED
      BY <3>3, <3>4
  <2> HIDE DEF g
  <2>5. Good(g, m + 1)
    BY <2>3, <2>4
  <2> QED
    BY <2>5
<1> HIDE DEF T
<1>3. n \in T
  BY <1>1, <1>2, Induction
<1> QED
  BY <1>3 DEF T, Recursion

-----------------------------------------------------------------------------
(* FlattenSeq *)

IsFlatten(f, seqs, n) == f = [i \in 1..n |-> IF i = 1 THEN seqs[i] ELSE f[i - 1] \o seqs[i]]

LEMMA FlattenExists ==
  ASSUME NEW seqs, NEW n \in Nat
  PROVE  \E f : IsFlatten(f, seqs, n)
<1> DEFINE T == {m \in Nat : \E f : IsFlatten(f, seqs, m)}
<1>1. 0 \in T
  <2> DEFINE f == [i \in 1..0 |-> seqs[i]]
  <2>1. IsFlatten(f, seqs, 0)
    BY DEF IsFlatten
  <2> QED
    BY <2>1
<1>2. ASSUME NEW m \in Nat, m \in T PROVE m + 1 \in T
  <2>1. PICK f : IsFlatten(f, seqs, m)
    BY <1>2
  <2> DEFINE g == [i \in 1..(m + 1) |-> IF i = 1 THEN seqs[i] ELSE f[i - 1] \o seqs[i]]
  <2>2. \A i \in 1..m : f[i] = IF i = 1 THEN seqs[i] ELSE f[i - 1] \o seqs[i]
    BY <2>1, Zenon DEF IsFlatten
  <2>3. \A i \in 1..m : g[i] = f[i]
    BY <2>2
  <2>4. \A i \in 1..(m + 1) : i # 1 => i - 1 \in 1..m
    OBVIOUS
  <2>5. g = [i \in 1..(m + 1) |-> IF i = 1 THEN seqs[i] ELSE g[i - 1] \o seqs[i]]
    BY <2>3, <2>4, Zenon
  <2>6. IsFlatten(g, seqs, m + 1)
    BY <2>5, Zenon DEF IsFlatten
  <2> QED
    BY <2>6
<1> HIDE DEF T
<1>3. n \in T
  BY <1>1, <1>2, Induction
<1> QED
  BY <1>3 DEF T

\* What is used of FlattenSeq.
LEMMA FlattenDef ==
  ASSUME NEW seqs, NEW n \in Nat, n # 0, Len(seqs) = n
  PROVE  \E f : /\ FlattenSeq(seqs) = f[n]
                /\ f[1] = seqs[1]
                /\ \A i \in 2..n : f[i] = f[i - 1] \o seqs[i]
<1> DEFINE f == CHOOSE g : IsFlatten(g, seqs, n)
<1>1. FlattenSeq(seqs) = f[n]
  BY DEF FlattenSeq, IsFlatten
<1>2. IsFlatten(f, seqs, n)
  BY FlattenExists, Zenon
<1> HIDE DEF f
<1>3. \A i \in 1..n : f[i] = IF i = 1 THEN seqs[i] ELSE f[i - 1] \o seqs[i]
  BY <1>2, Zenon DEF IsFlatten
<1>4. 1 \in 1..n /\ \A i \in 2..n : i \in 1..n /\ i # 1
  OBVIOUS
<1>5. f[1] = seqs[1] /\ \A i \in 2..n : f[i] = f[i - 1] \o seqs[i]
  BY <1>3, <1>4, Zenon
<1> QED
  BY <1>1, <1>5, Zenon

LEMMA FlattenType ==
  ASSUME NEW V, NEW seqs \in Seq(Seq(V))
  PROVE  FlattenSeq(seqs) \in Seq(V)
<1>1. CASE Len(seqs) = 0
  BY <1>1 DEF FlattenSeq
<1>2. CASE Len(seqs) # 0
  <2>1. Len(seqs) \in Nat /\ \A i \in 1..Len(seqs) : seqs[i] \in Seq(V)
    BY <1>2
  <2>2. PICK f : /\ FlattenSeq(seqs) = f[Len(seqs)]
                 /\ f[1] = seqs[1]
                 /\ \A i \in 2..Len(seqs) : f[i] = f[i - 1] \o seqs[i]
    BY <1>2, <2>1, FlattenDef, Zenon
  <2> DEFINE T == {n \in Nat : n < Len(seqs) => f[n + 1] \in Seq(V)}
  <2>3. 0 \in T
    BY <1>2, <2>1, <2>2
  <2>4. ASSUME NEW n \in Nat, n \in T PROVE n + 1 \in T
    <3> SUFFICES ASSUME n + 1 < Len(seqs) PROVE f[n + 2] \in Seq(V)
      BY <2>1
    <3>1. n + 2 \in 2..Len(seqs) /\ n + 2 \in 1..Len(seqs) /\ (n + 2) - 1 = n + 1 /\ f[n + 1] \in Seq(V)
      BY <2>1, <2>4
    <3>2. f[n + 2] = f[n + 1] \o seqs[n + 2] /\ seqs[n + 2] \in Seq(V)
      BY <2>1, <2>2, <3>1
    <3> QED
      BY <3>1, <3>2
  <2> HIDE DEF T
  <2>5. Nat \subseteq T
    BY <2>3, <2>4, Induction
  <2>6. f[Len(seqs)] \in Seq(V)
    <3>1. Len(seqs) - 1 \in Nat /\ Len(seqs) - 1 < Len(seqs) /\ (Len(seqs) - 1) + 1 = Len(seqs)
      BY <1>2, <2>1
    <3>2. Len(seqs) - 1 \in T
      BY <2>5, <3>1
    <3> QED
      BY <3>1, <3>2 DEF T
  <2> QED
    BY <2>2, <2>6
<1> QED
  BY <1>1, <1>2

LEMMA FlattenAppend ==
  ASSUME NEW V, NEW seqs \in Seq(Seq(V)), NEW s \in Seq(V)
  PROVE  FlattenSeq(Append(seqs, s)) = FlattenSeq(seqs) \o s
<1> DEFINE longer == Append(seqs, s)
           n == Len(seqs)
<1>0. /\ n \in Nat /\ Len(longer) = n + 1 /\ longer[n + 1] = s
      /\ \A i \in 1..n : longer[i] = seqs[i] /\ seqs[i] \in Seq(V)
  OBVIOUS
<1> HIDE DEF longer
<1>1. PICK g : /\ FlattenSeq(longer) = g[n + 1]
               /\ g[1] = longer[1]
               /\ \A i \in 2..(n + 1) : g[i] = g[i - 1] \o longer[i]
  <2>1. n + 1 \in Nat /\ n + 1 # 0
    BY <1>0
  <2> QED
    BY <1>0, <2>1, FlattenDef, Zenon
<1>2. CASE n = 0
  <2>1. FlattenSeq(seqs) = <<>>
    BY <1>2 DEF FlattenSeq
  <2>2. FlattenSeq(longer) = s
    BY <1>0, <1>1, <1>2
  <2> QED
    BY <2>1, <2>2 DEF longer
<1>3. CASE n # 0
  <2>1. PICK f : /\ FlattenSeq(seqs) = f[n]
                 /\ f[1] = seqs[1]
                 /\ \A i \in 2..n : f[i] = f[i - 1] \o seqs[i]
    BY <1>0, <1>3, FlattenDef
  <2> DEFINE T == {k \in Nat : k < n => g[k + 1] = f[k + 1]}
  <2>2. 0 \in T
    <3>1. 1 \in 1..n
      BY <1>0, <1>3
    <3> QED
      BY <1>0, <1>1, <2>1, <3>1
  <2>3. ASSUME NEW k \in Nat, k \in T PROVE k + 1 \in T
    <3> SUFFICES ASSUME k + 1 < n PROVE g[k + 2] = f[k + 2]
      BY <1>0, SMTT(30)
    <3> HIDE DEF n
    <3>1. k + 2 \in 2..n /\ k + 2 \in 1..n /\ k + 2 \in 2..(n + 1) /\ (k + 2) - 1 = k + 1 /\ g[k + 1] = f[k + 1]
      BY <1>0, <2>3
    <3>2. g[k + 2] = g[k + 1] \o longer[k + 2] /\ longer[k + 2] = seqs[k + 2] /\ f[k + 2] = f[k + 1] \o seqs[k + 2]
      BY <1>0, <1>1, <2>1, <3>1
    <3> QED
      BY <3>1, <3>2
  <2> HIDE DEF T
  <2>4. Nat \subseteq T
    BY <2>2, <2>3, Induction
  <2>5. g[n] = f[n]
    <3>1. n - 1 \in Nat /\ n - 1 < n /\ (n - 1) + 1 = n
      BY <1>0, <1>3
    <3>2. n - 1 \in T
      BY <2>4, <3>1
    <3> QED
      BY <3>1, <3>2 DEF T
  <2>6. n + 1 \in 2..(n + 1) /\ (n + 1) - 1 = n
    BY <1>0, <1>3
  <2>7. g[n + 1] = g[n] \o s
    BY <1>0, <1>1, <2>6
  <2> QED
    BY <1>1, <2>1, <2>5, <2>7 DEF longer
<1> QED
  BY <1>2, <1>3

LEMMA Associates == \A V : \A p, q, r \in Seq(V) : (p \o q) \o r = p \o (q \o r)
BY ConcatAssociative, SMTT(30)

LEMMA FlattenConcat ==
  ASSUME NEW V, NEW s \in Seq(Seq(V)), NEW t \in Seq(Seq(V))
  PROVE  FlattenSeq(s \o t) = FlattenSeq(s) \o FlattenSeq(t)
<1>0. \A p, q, r \in Seq(V) : (p \o q) \o r = p \o (q \o r)
  BY Associates, SMTT(60)
<1> DEFINE Splits(u) == FlattenSeq(s \o u) = FlattenSeq(s) \o FlattenSeq(u)
           T == {n \in Nat : \A u \in Seq(Seq(V)) : Len(u) = n => Splits(u)}
<1>1. 0 \in T
  <2>1. FlattenSeq(<<>>) = <<>> /\ s \o <<>> = s
    BY DEF FlattenSeq
  <2>2. FlattenSeq(s) \o <<>> = FlattenSeq(s)
    BY FlattenType, ConcatEmptySeq
  <2>3. \A u \in Seq(Seq(V)) : Len(u) = 0 => u = <<>>
    OBVIOUS
  <2> QED
    BY <2>1, <2>2, <2>3, Zenon
<1>2. ASSUME NEW n \in Nat, n \in T PROVE n + 1 \in T
  <2> SUFFICES ASSUME NEW u \in Seq(Seq(V)), Len(u) = n + 1 PROVE Splits(u)
    BY <1>2
  <2>1. PICK v \in Seq(Seq(V)), e \in Seq(V) : u = Append(v, e)
    <3>1. u # <<>>
      OBVIOUS
    <3> QED
      BY <3>1, SequenceEmptyOrAppend, Zenon
  <2>2. Len(v) = n
    BY <2>1
  <2>3. FlattenSeq(s \o v) = FlattenSeq(s) \o FlattenSeq(v)
    BY <1>2, <2>2
  <2>4. s \o u = Append(s \o v, e) /\ s \o v \in Seq(Seq(V))
    BY <2>1, SMTT(30)
  <2>5. FlattenSeq(s \o u) = FlattenSeq(s \o v) \o e /\ FlattenSeq(u) = FlattenSeq(v) \o e
    BY <2>1, <2>4, FlattenAppend
  <2>6. FlattenSeq(s) \in Seq(V) /\ FlattenSeq(v) \in Seq(V)
    BY FlattenType
  <2>7. (FlattenSeq(s) \o FlattenSeq(v)) \o e = FlattenSeq(s) \o (FlattenSeq(v) \o e)
    BY <1>0, <2>6, Zenon
  <2> QED
    BY <2>3, <2>5, <2>7
<1> HIDE DEF T
<1>3. Nat \subseteq T
  BY <1>1, <1>2, Induction
<1> QED
  BY <1>3 DEF T

LEMMA SuffixOfConcat ==
  ASSUME NEW V, NEW u \in Seq(V), NEW s \in Seq(V)
  PROVE  IsSuffix(s, u \o s)
<1> DEFINE t == u \o s
           m == Len(s)
           n == Len(t)
           c == SubSeq(t, (n - m) + 1, n)
<1>1. m \in Nat /\ n \in Nat /\ n = Len(u) + m /\ Len(u) \in Nat /\ s \in Seq(V) /\ t \in Seq(V)
  OBVIOUS
<1>2. \A j \in 1..m : t[Len(u) + j] = s[j]
  OBVIOUS
<1> HIDE DEF t
<1>3. c \in Seq(V) /\ Len(c) = m /\ \A j \in 1..m : c[j] = t[Len(u) + j]
  BY <1>1
<1>4. s = c
  BY <1>1, <1>2, <1>3, SeqEqual
<1> QED
  BY <1>1, <1>4 DEF IsSuffix, t

-----------------------------------------------------------------------------
(* Selected *)

IsSelected(f, s, keep, n) ==
  f = [k \in 0..n |-> IF k = 0 THEN <<>> ELSE IF k \in keep THEN Append(f[k - 1], s[k]) ELSE f[k - 1]]

LEMMA SelectedExists ==
  ASSUME NEW s, NEW keep, NEW n \in Nat
  PROVE  \E f : IsSelected(f, s, keep, n)
<1> DEFINE Body(f, k) == IF k = 0 THEN <<>> ELSE IF k \in keep THEN Append(f[k - 1], s[k]) ELSE f[k - 1]
           T == {m \in Nat : \E f : IsSelected(f, s, keep, m)}
<1>1. 0 \in T
  <2> DEFINE f == [k \in 0..0 |-> <<>>]
  <2>1. \A k \in 0..0 : k = 0
    OBVIOUS
  <2>2. f = [k \in 0..0 |-> Body(f, k)]
    BY <2>1, Zenon
  <2>3. IsSelected(f, s, keep, 0)
    BY <2>2, Zenon DEF IsSelected
  <2> QED
    BY <2>3
<1>2. ASSUME NEW m \in Nat, m \in T PROVE m + 1 \in T
  <2>1. PICK f : IsSelected(f, s, keep, m)
    BY <1>2
  <2> DEFINE g == [k \in 0..(m + 1) |-> Body(f, k)]
  <2>2. \A k \in 0..m : f[k] = Body(f, k)
    BY <2>1, Zenon DEF IsSelected
  <2>3. \A k \in 0..m : k \in 0..(m + 1)
    OBVIOUS
  <2>4. \A k \in 0..m : g[k] = f[k]
    BY <2>2, <2>3, Zenon
  <2>5. \A k \in 0..(m + 1) : k # 0 => k - 1 \in 0..m
    OBVIOUS
  <2>6. g = [k \in 0..(m + 1) |-> Body(g, k)]
    BY <2>4, <2>5, Zenon
  <2>7. IsSelected(g, s, keep, m + 1)
    BY <2>6, Zenon DEF IsSelected
  <2> QED
    BY <2>7
<1> HIDE DEF T
<1>3. n \in T
  BY <1>1, <1>2, Induction
<1> QED
  BY <1>3 DEF T

SelectionLoop(f, s, keep, n) ==
  /\ f[0] = <<>>
  /\ \A k \in 1..n : k \in keep => f[k] = Append(f[k - 1], s[k])
  /\ \A k \in 1..n : k \notin keep => f[k] = f[k - 1]

LEMMA SelectedDef ==
  ASSUME NEW s, NEW keep, NEW n \in Nat, Len(s) = n
  PROVE  \E f : Selected(s, keep) = f[n] /\ SelectionLoop(f, s, keep, n)
<1> DEFINE f == CHOOSE g : IsSelected(g, s, keep, n)
<1>1. Selected(s, keep) = f[n]
  BY DEF Selected, IsSelected
<1>2. IsSelected(f, s, keep, n)
  BY SelectedExists, Zenon
<1> HIDE DEF f
<1>3. \A k \in 0..n : f[k] = IF k = 0 THEN <<>> ELSE IF k \in keep THEN Append(f[k - 1], s[k]) ELSE f[k - 1]
  BY <1>2, Zenon DEF IsSelected
<1>4. 0 \in 0..n /\ \A k \in 1..n : k \in 0..n /\ k # 0
  OBVIOUS
<1>5. SelectionLoop(f, s, keep, n)
  BY <1>3, <1>4, Zenon DEF SelectionLoop
<1> QED
  BY <1>1, <1>5, Zenon

\* The result lists the entries to keep: h gives the place of each in s.
Enumerates(h, ret, s, keep, n) ==
  /\ h \in [1..Len(ret) -> 1..n]
  /\ \A i \in 1..Len(ret) : h[i] \in keep /\ ret[i] = s[h[i]]
  /\ \A i, j \in 1..Len(ret) : i < j => h[i] < h[j]
  /\ \A k \in 1..n : k \in keep => \E i \in 1..Len(ret) : h[i] = k

LEMMA SelectedEnumerates ==
  ASSUME NEW S, NEW s \in Seq(S), NEW keep
  PROVE  /\ Selected(s, keep) \in Seq(S)
         /\ \E h : Enumerates(h, Selected(s, keep), s, keep, Len(s))
<1> DEFINE n == Len(s)
<1>0. Len(s) = n /\ n \in Nat /\ \A k \in 1..n : s[k] \in S
  OBVIOUS
<1> HIDE DEF n
<1>1. PICK f : Selected(s, keep) = f[n] /\ SelectionLoop(f, s, keep, n)
  BY <1>0, SelectedDef, Zenon
<1> DEFINE T == {m \in Nat : m <= n => f[m] \in Seq(S) /\ \E h : Enumerates(h, f[m], s, keep, m)}
<1>2. 0 \in T
  <2> DEFINE h == [i \in 1..0 |-> 0]
  <2>1. Enumerates(h, <<>>, s, keep, 0)
    BY DEF Enumerates
  <2>2. <<>> \in Seq(S)
    OBVIOUS
  <2> QED
    BY <1>1, <2>1, <2>2, Zenon DEF SelectionLoop
<1>3. ASSUME NEW m \in Nat, m \in T PROVE m + 1 \in T
  <2> SUFFICES ASSUME m + 1 <= n PROVE f[m + 1] \in Seq(S) /\ \E h : Enumerates(h, f[m + 1], s, keep, m + 1)
    OBVIOUS
  <2>0. m + 1 \in 1..n /\ (m + 1) - 1 = m /\ s[m + 1] \in S
    BY <1>0
  <2>1. f[m] \in Seq(S)
    BY <1>0, <1>3
  <2>2. PICK h : Enumerates(h, f[m], s, keep, m)
    BY <1>0, <1>3
  <2>3. CASE m + 1 \notin keep
    <3>1. f[m + 1] = f[m]
      BY <1>1, <2>0, <2>3 DEF SelectionLoop
    <3>2. Enumerates(h, f[m], s, keep, m + 1)
      BY <2>1, <2>2, <2>3 DEF Enumerates
    <3> QED
      BY <2>1, <3>1, <3>2
  <2>4. CASE m + 1 \in keep
    <3> DEFINE l == Len(f[m])
               r == Append(f[m], s[m + 1])
               g == [i \in 1..(l + 1) |-> IF i = l + 1 THEN m + 1 ELSE h[i]]
    <3>1. f[m + 1] = r
      BY <1>1, <2>0, <2>4, SMTT(30) DEF SelectionLoop
    <3>2. r \in Seq(S) /\ Len(r) = l + 1 /\ l \in Nat /\ r[l + 1] = s[m + 1] /\ \A i \in 1..l : r[i] = f[m][i]
      BY <2>0, <2>1
    <3>3. /\ h \in [1..l -> 1..m]
          /\ \A i \in 1..l : h[i] \in keep /\ f[m][i] = s[h[i]]
          /\ \A i, j \in 1..l : i < j => h[i] < h[j]
          /\ \A k \in 1..m : k \in keep => \E i \in 1..l : h[i] = k
      BY <2>2 DEF Enumerates
    <3> HIDE DEF l, r
    <3>4. g \in [1..(l + 1) -> 1..(m + 1)] /\ g[l + 1] = m + 1 /\ \A i \in 1..l : g[i] = h[i] /\ h[i] \in 1..m
      BY <3>2, <3>3
    <3> HIDE DEF g
    <3>5. ASSUME NEW i \in 1..(l + 1) PROVE g[i] \in keep /\ r[i] = s[g[i]]
      <4>1. CASE i = l + 1
        BY <2>4, <3>2, <3>4, <4>1
      <4>2. CASE i \in 1..l
        BY <3>2, <3>3, <3>4, <4>2, Zenon
      <4> QED
        BY <3>2, <4>1, <4>2
    <3>6. ASSUME NEW i \in 1..(l + 1), NEW j \in 1..(l + 1), i < j PROVE g[i] < g[j]
      <4>1. i \in 1..l /\ g[i] = h[i] /\ h[i] \in 1..m
        BY <3>2, <3>4, <3>6
      <4>2. CASE j = l + 1
        BY <3>4, <4>1, <4>2
      <4>3. CASE j \in 1..l
        BY <3>3, <3>4, <3>6, <4>1, <4>3, Zenon
      <4> QED
        BY <3>2, <4>2, <4>3
    <3>7. ASSUME NEW k \in 1..(m + 1), k \in keep PROVE \E i \in 1..(l + 1) : g[i] = k
      <4>1. CASE k = m + 1
        BY <3>2, <3>4, <4>1
      <4>2. CASE k \in 1..m
        BY <3>2, <3>3, <3>4, <3>7, <4>2, SMTT(30)
      <4> QED
        BY <4>1, <4>2
    <3>8. Enumerates(g, r, s, keep, m + 1)
      BY <3>2, <3>4, <3>5, <3>6, <3>7, SMTT(30) DEF Enumerates
    <3> QED
      BY <3>1, <3>2, <3>8
  <2> QED
    BY <2>3, <2>4
<1> HIDE DEF T
<1>4. n \in T
  BY <1>0, <1>2, <1>3, Induction, SMTT(30)
<1>5. f[n] \in Seq(S) /\ \E h : Enumerates(h, f[n], s, keep, n)
  BY <1>0, <1>4 DEF T
<1> QED
  BY <1>1, <1>5 DEF n

-----------------------------------------------------------------------------
(* Concatenation.  The equations have names, which keeps the solver from     *)
(* taking the sequences apart.                                               *)

Reassociated(p, q, r) == (p \o q) \o r = p \o (q \o r)

LEMMA Reassociate ==
  ASSUME NEW V, NEW p \in Seq(V), NEW q \in Seq(V), NEW r \in Seq(V)
  PROVE  Reassociated(p, q, r) /\ p \o q \in Seq(V) /\ q \o r \in Seq(V)
BY ConcatAssociative, ConcatProperties, SMTT(30) DEF Reassociated

Regrouped(p, q, r, s) ==
  /\ (p \o (q \o r)) \o s = p \o (q \o (r \o s))
  /\ (p \o q) \o (r \o s) = p \o (q \o (r \o s))

LEMMA Regroup ==
  ASSUME NEW V, NEW p \in Seq(V), NEW q \in Seq(V), NEW r \in Seq(V), NEW s \in Seq(V)
  PROVE  Regrouped(p, q, r, s)
<1> DEFINE qr == q \o r
           rs == r \o s
<1>1. qr \in Seq(V) /\ rs \in Seq(V)
  BY Reassociate
<1>2. Reassociated(q, r, s)
  BY Reassociate
<1> HIDE DEF qr, rs
<1>3. Reassociated(p, qr, s) /\ Reassociated(p, q, rs)
  BY <1>1, Reassociate
<1> QED
  BY <1>2, <1>3, Zenon DEF Reassociated, Regrouped, qr, rs

\* A function on an initial interval is a sequence.
LEMMA IntervalIsSequence ==
  ASSUME NEW V, NEW f, NEW n \in Nat, f = [i \in 1..n |-> f[i]], \A i \in 1..n : f[i] \in V
  PROVE  f \in Seq(V) /\ Len(f) = n
<1>1. f \in [1..n -> V]
  OBVIOUS
<1> QED
  BY <1>1

\* A sequence is its first element before what follows it.
LEMMA FirstAndRest ==
  ASSUME NEW V, NEW all \in Seq(V), NEW rest \in Seq(V), NEW e \in V,
         Len(all) = Len(rest) + 1, all[1] = e,
         \A i \in 1..Len(rest) : all[i + 1] = rest[i]
  PROVE  all = <<e>> \o rest
<1>1. /\ <<e>> \o rest \in Seq(V)
      /\ Len(<<e>> \o rest) = Len(all)
      /\ (<<e>> \o rest)[1] = e
  OBVIOUS
<1>2. ASSUME NEW i \in 1..Len(all) PROVE all[i] = (<<e>> \o rest)[i]
  <2>1. CASE i = 1
    BY <1>1, <2>1
  <2>2. CASE i # 1
    <3>1. i - 1 \in 1..Len(rest) /\ i = (i - 1) + 1
      BY <2>2
    <3>2. \A k \in 1..Len(rest) : (<<e>> \o rest)[k + 1] = rest[k]
      OBVIOUS
    <3> QED
      BY <3>1, <3>2
  <2> QED
    BY <2>1, <2>2
<1> QED
  BY <1>1, <1>2, SeqEqual, SMTT(30)

-----------------------------------------------------------------------------
(* A sequence within another, after the first off elements of it. *)

HoldsAt(d, off, s) ==
  /\ off + Len(s) <= Len(d)
  /\ \A i \in 1..Len(s) : d[off + i] = s[i]

LEMMA ConcatRight ==
  ASSUME NEW V, NEW h \in Seq(V), NEW d \in Seq(V)
  PROVE  /\ h \o d \in Seq(V) /\ Len(h \o d) = Len(h) + Len(d)
         /\ HoldsAt(h \o d, Len(h), d)
<1>1. Len(h) \in Nat /\ Len(d) \in Nat
  OBVIOUS
<1>2. \A i \in 1..Len(d) : (h \o d)[Len(h) + i] = d[i]
  BY <1>1, ConcatProperties
<1>3. h \o d \in Seq(V) /\ Len(h \o d) = Len(h) + Len(d)
  BY ConcatProperties
<1> QED
  BY <1>1, <1>2, <1>3 DEF HoldsAt

LEMMA HoldsWithin ==
  ASSUME NEW V, NEW d \in Seq(V), NEW s \in Seq(V), NEW u \in Seq(V), NEW off \in Nat, NEW at \in Nat,
         HoldsAt(d, off, s), HoldsAt(s, at, u)
  PROVE  HoldsAt(d, off + at, u)
<1>1. Len(d) \in Nat /\ Len(s) \in Nat /\ Len(u) \in Nat
  OBVIOUS
<1>2. ASSUME NEW i \in 1..Len(u) PROVE d[(off + at) + i] = u[i]
  <2>1. at + i \in 1..Len(s) /\ s[at + i] = u[i]
    BY <1>1, SMTT(30) DEF HoldsAt
  <2>2. d[off + (at + i)] = s[at + i]
    BY <2>1, Zenon DEF HoldsAt
  <2>3. (off + at) + i = off + (at + i)
    OBVIOUS
  <2> QED
    BY <2>1, <2>2, <2>3
<1>3. (off + at) + Len(u) <= Len(d)
  BY <1>1 DEF HoldsAt
<1> QED
  BY <1>2, <1>3, Zenon DEF HoldsAt

LEMMA HoldsInConcat ==
  ASSUME NEW V, NEW p \in Seq(V), NEW q \in Seq(V), NEW r \in Seq(V)
  PROVE  HoldsAt(p \o (q \o r), Len(p), q)
<1> DEFINE qr == q \o r
           pqr == p \o qr
<1>1. qr \in Seq(V) /\ Len(p) \in Nat
  BY ConcatRight
<1>2. HoldsAt(qr, 0, q)
  <2>1. Len(qr) = Len(q) + Len(r) /\ \A i \in 1..Len(q) : qr[i] = q[i]
    BY ConcatProperties
  <2> HIDE DEF qr
  <2> QED
    BY <2>1 DEF HoldsAt
<1> HIDE DEF qr
<1>3. pqr \in Seq(V) /\ HoldsAt(pqr, Len(p), qr)
  BY <1>1, ConcatRight
<1> HIDE DEF pqr
<1>4. HoldsAt(pqr, Len(p) + 0, q) /\ Len(p) + 0 = Len(p)
  BY <1>1, <1>2, <1>3, HoldsWithin
<1> QED
  BY <1>4, Zenon DEF qr, pqr

LEMMA HoldsAfter ==
  ASSUME NEW V, NEW h \in Seq(V), NEW d \in Seq(V), NEW s \in Seq(V), NEW off \in Nat, HoldsAt(d, off, s)
  PROVE  HoldsAt(h \o d, Len(h) + off, s)
<1> DEFINE hd == h \o d
<1>1. hd \in Seq(V) /\ HoldsAt(hd, Len(h), d) /\ Len(h) \in Nat
  BY ConcatRight
<1> HIDE DEF hd
<1>2. HoldsAt(hd, Len(h) + off, s)
  BY <1>1, HoldsWithin
<1> QED
  BY <1>2 DEF hd

LEMMA HoldsSubSeq ==
  ASSUME NEW V, NEW d \in Seq(V), NEW s \in Seq(V), NEW off \in Nat, HoldsAt(d, off, s)
  PROVE  SubSeq(d, off + 1, off + Len(s)) = s
<1> DEFINE sub == SubSeq(d, off + 1, off + Len(s))
<1>1. Len(d) \in Nat /\ Len(s) \in Nat /\ off + Len(s) <= Len(d)
  BY DEF HoldsAt
<1>2. \A i \in (off + 1)..(off + Len(s)) : d[i] \in V
  BY <1>1
<1>3. /\ sub \in Seq(V)
      /\ Len(sub) = IF off + 1 <= off + Len(s) THEN (off + Len(s)) - (off + 1) + 1 ELSE 0
      /\ \A i \in 1..((off + Len(s)) - (off + 1) + 1) : sub[i] = d[(off + 1) + i - 1]
  BY <1>1, <1>2, SubSeqProperties
<1> HIDE DEF sub
<1>4. Len(sub) = Len(s)
  BY <1>1, <1>3
<1>5. ASSUME NEW i \in 1..Len(s) PROVE sub[i] = s[i]
  <2>1. i \in 1..((off + Len(s)) - (off + 1) + 1) /\ (off + 1) + i - 1 = off + i
    BY <1>1
  <2>2. sub[i] = d[off + i]
    BY <1>3, <2>1
  <2> QED
    BY <2>2 DEF HoldsAt
<1>6. sub = s
  BY <1>3, <1>4, <1>5, SeqEqual
<1> QED
  BY <1>6 DEF sub

LEMMA PrefixType ==
  ASSUME NEW V, NEW s \in Seq(V), NEW n \in 0..Len(s)
  PROVE  /\ SubSeq(s, 1, n) \in Seq(V) /\ Len(SubSeq(s, 1, n)) = n
         /\ \A i \in 1..n : SubSeq(s, 1, n)[i] = s[i]
<1>1. Len(s) \in Nat /\ n \in Int /\ \A i \in 1..n : s[i] \in V
  OBVIOUS
<1>2. /\ SubSeq(s, 1, n) \in Seq(V)
      /\ Len(SubSeq(s, 1, n)) = IF 1 <= n THEN n - 1 + 1 ELSE 0
      /\ \A i \in 1..(n - 1 + 1) : SubSeq(s, 1, n)[i] = s[1 + i - 1]
  BY <1>1, SubSeqProperties
<1>3. n - 1 + 1 = n /\ \A i \in 1..n : 1 + i - 1 = i
  OBVIOUS
<1> DEFINE sub == SubSeq(s, 1, n)
<1> HIDE DEF sub
<1>4. Len(sub) = n
  BY <1>2 DEF sub
<1> QED
  BY <1>2, <1>3, <1>4 DEF sub

LEMMA PrefixAppend ==
  ASSUME NEW V, NEW s \in Seq(V), NEW n \in Nat, n + 1 <= Len(s)
  PROVE  SubSeq(s, 1, n + 1) = Append(SubSeq(s, 1, n), s[n + 1])
<1> DEFINE p == SubSeq(s, 1, n)
           q == SubSeq(s, 1, n + 1)
<1>1. n \in 0..Len(s) /\ n + 1 \in 0..Len(s) /\ s[n + 1] \in V
  OBVIOUS
<1>2. /\ p \in Seq(V) /\ Len(p) = n /\ \A i \in 1..n : p[i] = s[i]
      /\ q \in Seq(V) /\ Len(q) = n + 1 /\ \A i \in 1..(n + 1) : q[i] = s[i]
  BY <1>1, PrefixType
<1> HIDE DEF p, q
<1>3. /\ Append(p, s[n + 1]) \in Seq(V) /\ Len(Append(p, s[n + 1])) = n + 1
      /\ \A i \in 1..(n + 1) : Append(p, s[n + 1])[i] = s[i]
  BY <1>1, <1>2
<1>4. q = Append(p, s[n + 1])
  BY <1>2, <1>3, SeqEqual
<1> QED
  BY <1>4 DEF p, q

\* Where FlattenSeq puts the parts, and how long the result is.
LEMMA FlattenPart ==
  ASSUME NEW V, NEW seqs \in Seq(Seq(V)), NEW k \in 1..Len(seqs)
  PROVE  HoldsAt(FlattenSeq(seqs), Len(FlattenSeq(SubSeq(seqs, 1, k - 1))), seqs[k])
<1> DEFINE n == Len(seqs)
           p == SubSeq(seqs, 1, k - 1)
           q == SubSeq(seqs, k + 1, n)
           one == Append(p, seqs[k])
<1>1. n \in Nat /\ k \in Nat /\ k - 1 \in 0..n /\ seqs[k] \in Seq(V) /\ (k - 1) + 1 = k
  OBVIOUS
<1>2. p \in Seq(Seq(V)) /\ Len(p) = k - 1 /\ \A i \in 1..(k - 1) : p[i] = seqs[i]
  BY <1>1, PrefixType
<1>3. /\ q \in Seq(Seq(V)) /\ Len(q) = n - k
      /\ \A i \in 1..(n - k) : q[i] = seqs[k + i]
  <2>1. \A i \in (k + 1)..n : seqs[i] \in Seq(V)
    BY <1>1
  <2>2. /\ q \in Seq(Seq(V))
        /\ Len(q) = IF k + 1 <= n THEN n - (k + 1) + 1 ELSE 0
        /\ \A i \in 1..(n - (k + 1) + 1) : q[i] = seqs[(k + 1) + i - 1]
    BY <1>1, <2>1, SubSeqProperties
  <2> HIDE DEF q
  <2>3. n - (k + 1) + 1 = n - k /\ \A i \in 1..(n - k) : (k + 1) + i - 1 = k + i
    BY <1>1
  <2>4. Len(q) = n - k
    BY <1>1, <2>2
  <2>5. \A i \in 1..(n - k) : q[i] = seqs[k + i]
    BY <2>2, <2>3, Zenon
  <2> QED
    BY <2>2, <2>4, <2>5
<1> HIDE DEF p, q
<1>4. one \in Seq(Seq(V)) /\ Len(one) = k /\ \A i \in 1..k : one[i] = seqs[i]
  BY <1>1, <1>2
<1> HIDE DEF one
<1>5. seqs = one \o q
  <2>1. /\ one \o q \in Seq(Seq(V)) /\ Len(one \o q) = n
        /\ \A i \in 1..n : (one \o q)[i] = IF i <= k THEN one[i] ELSE q[i - k]
    <3>1. one \in Seq(Seq(V)) /\ q \in Seq(Seq(V))
      BY <1>3, <1>4
    <3>2. /\ one \o q \in Seq(Seq(V)) /\ Len(one \o q) = Len(one) + Len(q)
          /\ \A i \in 1..(Len(one) + Len(q)) : (one \o q)[i] = IF i <= Len(one) THEN one[i] ELSE q[i - Len(one)]
      BY <3>1, ConcatProperties
    <3>3. Len(one) = k /\ Len(q) = n - k /\ k + (n - k) = n
      BY <1>1, <1>3, <1>4
    <3> QED
      BY <3>2, <3>3, Zenon
  <2> DEFINE c == one \o q
  <2> HIDE DEF c
  <2>2. ASSUME NEW i \in 1..n PROVE c[i] = seqs[i]
    <3>1. CASE i <= k
      BY <1>1, <1>4, <2>1, <3>1, SMTT(30) DEF c
    <3>2. CASE ~(i <= k)
      <4>1. i - k \in 1..(n - k) /\ k + (i - k) = i
        BY <1>1, <3>2
      <4>2. c[i] = q[i - k]
        BY <2>1, <3>2, Zenon DEF c
      <4> QED
        BY <1>3, <4>1, <4>2
    <3> QED
      BY <3>1, <3>2
  <2> QED
    BY <2>1, <2>2, SeqEqual DEF c
<1>6. FlattenSeq(seqs) = FlattenSeq(one) \o FlattenSeq(q)
  BY <1>3, <1>4, <1>5, FlattenConcat, SMTT(30)
<1>7. FlattenSeq(one) = FlattenSeq(p) \o seqs[k]
  BY <1>1, <1>2, FlattenAppend DEF one
<1> DEFINE fp == FlattenSeq(p)
           fq == FlattenSeq(q)
           e == seqs[k]
<1>8. fp \in Seq(V) /\ fq \in Seq(V) /\ e \in Seq(V)
  BY <1>1, <1>2, <1>3, FlattenType
<1>9. FlattenSeq(seqs) = (fp \o e) \o fq
  BY <1>6, <1>7, Zenon
<1> HIDE DEF fp, fq, e
<1>10. Reassociated(fp, e, fq)
  BY <1>8, Reassociate
<1>11. FlattenSeq(seqs) = fp \o (e \o fq)
  BY <1>9, <1>10, Zenon DEF Reassociated
<1>12. HoldsAt(fp \o (e \o fq), Len(fp), e)
  BY <1>8, HoldsInConcat
<1>13. HoldsAt(FlattenSeq(seqs), Len(fp), e)
  BY <1>11, <1>12, Zenon
<1> QED
  BY <1>13, Zenon DEF fp, e, p

LEMMA FlattenUniform ==
  ASSUME NEW V, NEW seqs \in Seq(Seq(V)), NEW w \in Nat, \A i \in 1..Len(seqs) : Len(seqs[i]) = w,
         NEW n \in 0..Len(seqs)
  PROVE  Len(FlattenSeq(SubSeq(seqs, 1, n))) = w * n
<1> DEFINE T == {m \in Nat : m <= Len(seqs) => Len(FlattenSeq(SubSeq(seqs, 1, m))) = w * m}
<1>1. 0 \in T
  <2>1. SubSeq(seqs, 1, 0) = <<>> /\ w * 0 = 0
    OBVIOUS
  <2>2. FlattenSeq(<<>>) = <<>> /\ Len(<<>>) = 0
    BY DEF FlattenSeq
  <2> QED
    BY <2>1, <2>2
<1>2. ASSUME NEW m \in Nat, m \in T PROVE m + 1 \in T
  <2> SUFFICES ASSUME m + 1 <= Len(seqs) PROVE Len(FlattenSeq(SubSeq(seqs, 1, m + 1))) = w * (m + 1)
    OBVIOUS
  <2> DEFINE p == SubSeq(seqs, 1, m)
             e == seqs[m + 1]
  <2>1. Len(seqs) \in Nat /\ m \in 0..Len(seqs) /\ e \in Seq(V) /\ Len(e) = w
    OBVIOUS
  <2>2. p \in Seq(Seq(V)) /\ Len(FlattenSeq(p)) = w * m
    BY <1>2, <2>1, PrefixType
  <2>3. SubSeq(seqs, 1, m + 1) = Append(p, e)
    BY PrefixAppend
  <2> HIDE DEF p, e
  <2>4. FlattenSeq(Append(p, e)) = FlattenSeq(p) \o e /\ FlattenSeq(p) \in Seq(V)
    BY <2>1, <2>2, FlattenAppend, FlattenType
  <2>5. Len(FlattenSeq(p) \o e) = Len(FlattenSeq(p)) + Len(e)
    BY <2>1, <2>4, ConcatProperties, ZenonT(30)
  <2>6. w * (m + 1) = (w * m) + w
    OBVIOUS
  <2> QED
    BY <2>1, <2>2, <2>3, <2>4, <2>5, <2>6, Zenon
<1> HIDE DEF T
<1>3. n \in Nat /\ n <= Len(seqs)
  OBVIOUS
<1>4. n \in T
  BY <1>1, <1>2, <1>3, Induction
<1> QED
  BY <1>3, <1>4 DEF T

-----------------------------------------------------------------------------
(* Suffixes, and what Selected keeps of one. *)

LEMMA SuffixType ==
  ASSUME NEW V, NEW s \in Seq(V), NEW m \in Nat
  PROVE  /\ SubSeq(s, m + 1, Len(s)) \in Seq(V)
         /\ Len(SubSeq(s, m + 1, Len(s))) = IF m < Len(s) THEN Len(s) - m ELSE 0
         /\ \A i \in 1..(Len(s) - m) : SubSeq(s, m + 1, Len(s))[i] = s[m + i]
<1> DEFINE n == Len(s)
           sub == SubSeq(s, m + 1, n)
<1>1. n \in Nat
  OBVIOUS
<1>2. \A i \in (m + 1)..n : s[i] \in V
  BY <1>1
<1>3. /\ sub \in Seq(V)
      /\ Len(sub) = IF m + 1 <= n THEN n - (m + 1) + 1 ELSE 0
      /\ \A i \in 1..(n - (m + 1) + 1) : sub[i] = s[(m + 1) + i - 1]
  BY <1>1, <1>2, SubSeqProperties
<1> HIDE DEF sub
<1>4. Len(sub) = IF m < n THEN n - m ELSE 0
  BY <1>1, <1>3
<1>5. ASSUME NEW i \in 1..(n - m) PROVE sub[i] = s[m + i]
  <2>1. i \in 1..(n - (m + 1) + 1) /\ (m + 1) + i - 1 = m + i
    BY <1>1
  <2> QED
    BY <1>3, <2>1
<1> QED
  BY <1>3, <1>4, <1>5 DEF sub

LEMMA SelectedAll ==
  ASSUME NEW S, NEW s \in Seq(S), NEW keep, \A k \in 1..Len(s) : k \in keep
  PROVE  Selected(s, keep) = s
<1> DEFINE n == Len(s)
<1>1. n \in Nat
  OBVIOUS
<1>2. PICK f : Selected(s, keep) = f[n] /\ SelectionLoop(f, s, keep, n)
  BY <1>1, SelectedDef
<1> DEFINE T == {m \in Nat : m <= n => f[m] = SubSeq(s, 1, m)}
<1>3. 0 \in T
  <2>1. SubSeq(s, 1, 0) = <<>>
    OBVIOUS
  <2> QED
    BY <1>2, <2>1, Zenon DEF SelectionLoop
<1>4. ASSUME NEW m \in Nat, m \in T PROVE m + 1 \in T
  <2> SUFFICES ASSUME m + 1 <= n PROVE f[m + 1] = SubSeq(s, 1, m + 1)
    OBVIOUS
  <2>1. m + 1 \in 1..n /\ m + 1 \in keep /\ (m + 1) - 1 = m /\ f[m] = SubSeq(s, 1, m)
    BY <1>1, <1>4, SMTT(30)
  <2>2. f[m + 1] = Append(f[m], s[m + 1])
    BY <1>2, <2>1, Zenon DEF SelectionLoop
  <2>3. SubSeq(s, 1, m + 1) = Append(SubSeq(s, 1, m), s[m + 1])
    BY PrefixAppend
  <2> QED
    BY <2>1, <2>2, <2>3
<1> HIDE DEF T
<1>5. n \in T
  BY <1>1, <1>3, <1>4, Induction
<1>6. f[n] = SubSeq(s, 1, n)
  BY <1>1, <1>5 DEF T
<1>7. SubSeq(s, 1, n) = s
  OBVIOUS
<1> QED
  BY <1>2, <1>6, <1>7

LEMMA FirstSelected ==
  ASSUME NEW S, NEW s \in Seq(S), NEW keep, NEW k \in 1..Len(s), k \in keep, \A j \in 1..(k - 1) : j \notin keep
  PROVE  Len(Selected(s, keep)) \in Nat \ {0} /\ Selected(s, keep)[1] = s[k]
<1> DEFINE sel == Selected(s, keep)
           n == Len(s)
<1>1. sel \in Seq(S) /\ \E h : Enumerates(h, sel, s, keep, n)
  BY SelectedEnumerates
<1> HIDE DEF sel
<1>2. PICK h : Enumerates(h, sel, s, keep, n)
  BY <1>1
<1>3. Len(sel) \in Nat /\ n \in Nat
  BY <1>1
<1>4. PICK i \in 1..Len(sel) : h[i] = k
  BY <1>2 DEF Enumerates
<1>5. 1 \in 1..Len(sel) /\ (i = 1 \/ 1 < i)
  BY <1>3
<1>6. h[1] \in 1..n /\ h[1] \in keep /\ sel[1] = s[h[1]]
  BY <1>2, <1>5, Zenon DEF Enumerates
<1>7. h[1] = k \/ h[1] < k
  BY <1>2, <1>4, <1>5 DEF Enumerates
<1>8. h[1] = k
  BY <1>3, <1>6, <1>7
<1> QED
  BY <1>3, <1>5, <1>6, <1>8 DEF sel

AppendsRight(p, q, e) == Append(p \o q, e) = p \o Append(q, e)

LEMMA AppendToConcat ==
  ASSUME NEW S, NEW p \in Seq(S), NEW q \in Seq(S), NEW e \in S
  PROVE  AppendsRight(p, q, e)
<1> DEFINE one == <<e>>
<1>1. one \in Seq(S)
  OBVIOUS
<1>2. Append(q, e) = q \o one
  BY AppendProperties
<1>3. p \o q \in Seq(S)
  BY ConcatRight
<1>4. Append(p \o q, e) = (p \o q) \o one
  BY <1>3, AppendProperties, SMTT(30)
<1> HIDE DEF one
<1>5. (p \o q) \o one = p \o (q \o one)
  BY <1>1, Associates, SMTT(30)
<1> QED
  BY <1>2, <1>4, <1>5, Zenon DEF AppendsRight

\* The first entry is kept and the second is not.
FromThird(s, keep, rest, kept) ==
  /\ s # <<>> /\ rest = SubSeq(s, 3, Len(s))
  /\ 1 \in keep /\ 2 \notin keep
  /\ \A i \in 1..Len(rest) : i \in kept <=> 2 + i \in keep

LEMMA SelectedFromThird ==
  ASSUME NEW S, NEW s \in Seq(S), NEW rest, NEW keep, NEW kept, FromThird(s, keep, rest, kept)
  PROVE  Selected(s, keep) = <<s[1]>> \o Selected(rest, kept)
<1> DEFINE n == Len(s)
           m == Len(rest)
           one == <<s[1]>>
<1>0. /\ s # <<>> /\ rest = SubSeq(s, 3, Len(s)) /\ 1 \in keep /\ 2 \notin keep
      /\ \A i \in 1..Len(rest) : i \in kept <=> 2 + i \in keep
  BY Zenon DEF FromThird
<1>1. n \in Nat /\ n >= 1 /\ s[1] \in S
  BY <1>0
<1>2. /\ rest \in Seq(S) /\ m = (IF 2 < n THEN n - 2 ELSE 0)
      /\ \A i \in 1..(n - 2) : rest[i] = s[2 + i]
  <2> DEFINE two == 2
  <2>1. two \in Nat
    OBVIOUS
  <2> HIDE DEF two
  <2>2. /\ SubSeq(s, two + 1, n) \in Seq(S)
        /\ Len(SubSeq(s, two + 1, n)) = IF two < n THEN n - two ELSE 0
        /\ \A i \in 1..(n - two) : SubSeq(s, two + 1, n)[i] = s[two + i]
    BY <2>1, SuffixType, SMTT(30)
  <2>3. two + 1 = 3 /\ two = 2
    BY DEF two
  <2> QED
    BY <1>0, <2>2, <2>3, Zenon
<1>3. one \in Seq(S) /\ Len(one) = 1
  BY <1>1
<1>4. PICK f : Selected(s, keep) = f[n] /\ SelectionLoop(f, s, keep, n)
  BY <1>1, SelectedDef, SMTT(30)
<1>5. m \in Nat
  BY <1>2
<1>6. PICK g : Selected(rest, kept) = g[m] /\ SelectionLoop(g, rest, kept, m)
  BY <1>5, SelectedDef, SMTT(30)
<1> HIDE DEF n, m, one
<1>7. f[1] = one /\ (n > 1 => f[2] = one)
  <2>1. 1 \in 1..n /\ 1 - 1 = 0 /\ 2 - 1 = 1 /\ (n > 1 => 2 \in 1..n)
    BY <1>1, SMTT(30)
  <2>2. f[0] = <<>> /\ f[1] = Append(f[0], s[1]) /\ (n > 1 => f[2] = f[1])
    BY <1>0, <1>4, <2>1 DEF SelectionLoop
  <2> QED
    BY <1>1, <2>2, SMTT(30) DEF one
<1>8. CASE n = 1
  <2>1. m = 0 /\ g[0] = <<>>
    BY <1>2, <1>6, <1>8 DEF SelectionLoop
  <2>2. one \o <<>> = one
    BY <1>3, ConcatEmptySeq, SMTT(30)
  <2> QED
    BY <1>4, <1>6, <1>7, <1>8, <2>1, <2>2, Zenon DEF one
<1>9. CASE n > 1
  <2> DEFINE T == {i \in Nat : i <= m => g[i] \in Seq(S) /\ f[2 + i] = one \o g[i]}
  <2>1. m = n - 2 /\ 2 + m = n
    BY <1>1, <1>2, <1>9
  <2>2. 0 \in T
    <3>1. g[0] = <<>> /\ <<>> \in Seq(S) /\ one \o <<>> = one /\ 2 + 0 = 2
      BY <1>3, <1>6, ConcatEmptySeq DEF SelectionLoop
    <3> QED
      BY <1>7, <1>9, <3>1, Zenon
  <2>3. ASSUME NEW i \in Nat, i \in T PROVE i + 1 \in T
    <3> SUFFICES ASSUME i + 1 <= m PROVE g[i + 1] \in Seq(S) /\ f[2 + (i + 1)] = one \o g[i + 1]
      OBVIOUS
    <3>1. g[i] \in Seq(S) /\ f[2 + i] = one \o g[i]
      BY <1>5, <2>3, SMTT(30)
    <3>2. /\ i + 1 \in 1..m /\ i + 1 \in 1..(n - 2) /\ 2 + (i + 1) \in 1..n
          /\ (2 + (i + 1)) - 1 = 2 + i /\ (i + 1) - 1 = i
      BY <1>1, <1>5, <2>1
    <3>3. rest[i + 1] = s[2 + (i + 1)] /\ rest[i + 1] \in S
      <4>1. rest[i + 1] \in S
        BY <1>2, <3>2 DEF m
      <4> QED
        BY <1>2, <3>2, <4>1
    <3>4. i + 1 \in kept <=> 2 + (i + 1) \in keep
      BY <1>0, <3>2, Zenon DEF m
    <3>5. CASE i + 1 \in kept
      <4>1. f[2 + (i + 1)] = Append(f[(2 + (i + 1)) - 1], s[2 + (i + 1)]) /\ g[i + 1] = Append(g[(i + 1) - 1], rest[i + 1])
        BY <1>4, <1>6, <3>2, <3>4, <3>5, Zenon DEF SelectionLoop
      <4>2. f[2 + (i + 1)] = Append(one \o g[i], rest[i + 1]) /\ g[i + 1] = Append(g[i], rest[i + 1])
        <5>1. (2 + (i + 1)) - 1 = 2 + i /\ (i + 1) - 1 = i
          BY <3>2
        <5> QED
          BY <3>1, <3>3, <4>1, <5>1, Zenon
      <4>3. Append(one \o g[i], rest[i + 1]) = one \o Append(g[i], rest[i + 1])
        <5>1. one \in Seq(S) /\ g[i] \in Seq(S) /\ rest[i + 1] \in S
          BY <1>3, <3>1, <3>3, SMTT(30)
        <5> DEFINE u == g[i]
                   e == rest[i + 1]
        <5>2. one \in Seq(S) /\ u \in Seq(S) /\ e \in S
          BY <5>1
        <5> HIDE DEF u, e
        <5>3. AppendsRight(one, u, e)
          BY <5>2, AppendToConcat, SMTT(30)
        <5> QED
          BY <5>3, Zenon DEF u, e, AppendsRight
      <4>4. Append(g[i], rest[i + 1]) \in Seq(S)
        BY <3>1, <3>3, AppendProperties, SMTT(30)
      <4> QED
        BY <4>2, <4>3, <4>4, Zenon
    <3>6. CASE i + 1 \notin kept
      <4>1. f[2 + (i + 1)] = f[(2 + (i + 1)) - 1] /\ g[i + 1] = g[(i + 1) - 1]
        BY <1>4, <1>6, <3>2, <3>4, <3>6, Zenon DEF SelectionLoop
      <4> QED
        BY <3>1, <3>2, <4>1, SMTT(30)
    <3> QED
      BY <3>5, <3>6
  <2> HIDE DEF T
  <2>4. Nat \subseteq T
    BY <2>2, <2>3, Induction
  <2>5. f[2 + m] = one \o g[m]
    BY <1>5, <2>4 DEF T
  <2> QED
    BY <1>4, <1>6, <2>1, <2>5, Zenon DEF one
<1> QED
  BY <1>1, <1>8, <1>9

LEMMA FlattenOne ==
  ASSUME NEW V, NEW s \in Seq(V)
  PROVE  FlattenSeq(<<s>>) = s
<1>1. <<>> \in Seq(Seq(V)) /\ Append(<<>>, s) = <<s>>
  OBVIOUS
<1>2. FlattenSeq(<<>>) = <<>>
  BY DEF FlattenSeq
<1>3. FlattenSeq(Append(<<>>, s)) = FlattenSeq(<<>>) \o s
  BY <1>1, FlattenAppend, Zenon
<1>4. <<>> \o s = s
  BY ConcatEmptySeq
<1> QED
  BY <1>1, <1>2, <1>3, <1>4, Zenon

=============================================================================
