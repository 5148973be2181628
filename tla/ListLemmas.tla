------------------------------ MODULE ListLemmas ------------------------------
(***************************************************************************)
(* Facts about least and greatest numbers, folds, flattened sequences and  *)
(* sequences that are computed by recursion over sets, for the proofs of   *)
(* the modules that use them.                                              *)
(***************************************************************************)
EXTENDS SequencesExt, TLAPS, FiniteSetTheorems, SequenceTheorems

-----------------------------------------------------------------------------
(* Induction, over sets in place of predicates *)

\* A nonempty set of naturals has a least element.
LEMMA Least ==
  ASSUME NEW T, T \subseteq Nat, T # {}
  PROVE  \E n \in T : \A m \in T : n =< m
<1>. DEFINE B == {0 .. n : n \in T}
            R == StrictSubsetOrdering(Nat)
<1>1. B # {} /\ \A s \in B : s \in SUBSET Nat /\ IsFiniteSet(s)
  <2>1. \A n \in T : IsFiniteSet(0 .. n) /\ 0 .. n \in SUBSET Nat
    BY FS_Interval
  <2>. QED  BY <2>1
<1>2. B \subseteq FiniteSubsetsOf(Nat) /\ IsWellFoundedOn(R, FiniteSubsetsOf(Nat))
  BY <1>1, FS_StrictSubsetOrderingWellFounded DEF FiniteSubsetsOf
<1>3. \A s, t \in B : s \subseteq t /\ s # t => <<s, t>> \in R
  BY <1>1 DEF StrictSubsetOrdering
<1>. HIDE DEF B, R
<1>4. PICK s \in B : \A t \in B : ~(<<t, s>> \in R)
  BY <1>1, <1>2, WFMin
<1>5. \A t \in B : t \subseteq s => t = s
  BY <1>3, <1>4
<1>6. PICK n \in T : s = 0 .. n
  BY DEF B
<1>7. ASSUME NEW m \in T, m < n
      PROVE  FALSE
  <2>1. 0 .. m \in B /\ 0 .. m \subseteq s
    BY <1>6, <1>7 DEF B
  <2>2. n \notin 0 .. m /\ n \in s
    BY <1>6, <1>7
  <2>. QED  BY <1>5, <2>1, <2>2
<1>. QED  BY <1>7

\* A nonempty set of naturals up to n has a greatest element, and Max is it.
LEMMA Greatest ==
  ASSUME NEW n \in Nat, NEW T, T \subseteq 0 .. n, T # {}
  PROVE  Max(T) \in T /\ \A m \in T : m =< Max(T)
<1>. DEFINE D == {n - x : x \in T}
<1>1. D \subseteq Nat /\ D # {}
  <2>1. PICK x \in T : TRUE
    OBVIOUS
  <2>2. n - x \in D
    BY <2>1
  <2>. QED  BY <2>2
<1>. HIDE DEF D
<1>2. PICK d \in D : \A m \in D : d =< m
  BY <1>1, Least
<1>3. PICK x \in T : d = n - x
  BY <1>2 DEF D
<1>4. ASSUME NEW m \in T
      PROVE  x >= m
  <2>1. n - m \in D
    BY DEF D
  <2>2. d =< n - m
    BY <1>2, <2>1
  <2>. QED  BY <2>2, <1>3
<1>. QED  BY <1>4 DEF Max

LEMMA Induction ==
  ASSUME NEW n \in Nat, NEW S, 0 \in S, \A i \in 1 .. n : i - 1 \in S => i \in S
  PROVE  0 .. n \subseteq S
<1>. DEFINE T == 0 .. n \ S
<1>. SUFFICES ASSUME T # {}
              PROVE  FALSE
  OBVIOUS
<1>1. T \subseteq Nat
  OBVIOUS
<1>. HIDE DEF T
<1>2. PICK m \in T : \A k \in T : m =< k
  BY <1>1, Least
<1>3. m \in 0 .. n /\ m \notin S /\ m # 0
  BY DEF T
<1>4. m - 1 \in S
  BY <1>2, <1>3 DEF T
<1>. QED  BY <1>3, <1>4

\* g is what FoldLeft computes by recursion over sets of positions.
FoldOf(g, F, base, seq) ==
  \A s \in SUBSET (1 .. Len(seq)) :
    g[s] = IF s = {} THEN base ELSE F[<<g[s \ {Max(s)}], seq[Max(s)]>>]

LEMMA FoldExists ==
  ASSUME NEW X, NEW U, NEW F \in [X \X U -> X], NEW base \in X, NEW seq \in Seq(U)
  PROVE  \E g \in [SUBSET (1 .. Len(seq)) -> X] : FoldOf(g, F, base, seq)
<1>. DEFINE Folds(g, k) == \A s \in SUBSET (1 .. k) :
                             g[s] = IF s = {} THEN base
                                    ELSE F[<<g[s \ {Max(s)}], seq[Max(s)]>>]
            n == Len(seq)
            S == {k \in 0 .. n : \E g \in [SUBSET (1 .. k) -> X] : Folds(g, k)}
<1>1. n \in Nat /\ \A i \in 1 .. n : seq[i] \in U
  BY LenProperties, ElementOfSeq
<1>2. 0 \in S
  <2>. DEFINE g == [s \in SUBSET (1 .. 0) |-> base]
  <2>1. \A s \in SUBSET (1 .. 0) : s = {}
    OBVIOUS
  <2>2. g \in [SUBSET (1 .. 0) -> X] /\ \A s \in SUBSET (1 .. 0) : s = {} /\ g[s] = base
    BY <2>1
  <2>. HIDE DEF g
  <2>3. Folds(g, 0)
    BY <2>2
  <2>. HIDE DEF Folds
  <2>. QED  BY <1>1, <2>2, <2>3
<1>3. ASSUME NEW k \in 1 .. n, k - 1 \in S
      PROVE  k \in S
  <2>1. PICK f \in [SUBSET (1 .. (k - 1)) -> X] : Folds(f, k - 1)
    BY <1>3
  <2>. DEFINE g == [s \in SUBSET (1 .. k) |->
                      IF k \in s THEN F[<<f[s \ {k}], seq[k]>>] ELSE f[s]]
  <2>2. \A s \in SUBSET (1 .. k) :
          /\ k \in s => s \ {k} \in SUBSET (1 .. (k - 1))
          /\ k \notin s => s \in SUBSET (1 .. (k - 1))
    BY <1>1
  <2>3. g \in [SUBSET (1 .. k) -> X]
    <3>. SUFFICES ASSUME NEW s \in SUBSET (1 .. k)
                  PROVE  (IF k \in s THEN F[<<f[s \ {k}], seq[k]>>] ELSE f[s]) \in X
      OBVIOUS
    <3>1. CASE k \in s
      BY <1>1, <2>2, <3>1
    <3>2. CASE k \notin s
      BY <2>2, <3>2
    <3>. QED  BY <3>1, <3>2
  <2>4. ASSUME NEW s \in SUBSET (1 .. k), s # {}
        PROVE  g[s] = F[<<g[s \ {Max(s)}], seq[Max(s)]>>]
    <3>0. s \subseteq 0 .. n
      BY <1>1
    <3>1. Max(s) \in s /\ \A m \in s : m =< Max(s)
      BY <1>1, <2>4, <3>0, Greatest
    <3>2. CASE k \in s
      <4>0. Max(s) \in 1 .. k /\ k =< Max(s)
        BY <3>1, <3>2
      <4>1. Max(s) = k
        BY <1>1, <4>0
      <4>. QED  BY <2>2, <3>2, <4>1
    <3>3. CASE k \notin s
      <4>1. s \in SUBSET (1 .. (k - 1)) /\ s \ {Max(s)} \in SUBSET (1 .. (k - 1))
        BY <2>2, <3>3
      <4>2. f[s] = F[<<f[s \ {Max(s)}], seq[Max(s)]>>]
        BY <2>1, <2>4, <4>1
      <4>3. g[s] = f[s] /\ g[s \ {Max(s)}] = f[s \ {Max(s)}]
        BY <3>3, <4>1, <2>2
      <4>. QED  BY <4>2, <4>3
    <3>. QED  BY <3>2, <3>3
  <2>5. g[{}] = base
    <3>1. {} \in SUBSET (1 .. (k - 1)) /\ {} \in SUBSET (1 .. k)
      OBVIOUS
    <3>2. f[{}] = base
      BY <2>1, <3>1
    <3>. QED  BY <3>1, <3>2
  <2>. HIDE DEF g
  <2>6. Folds(g, k)
    BY <2>4, <2>5
  <2>. HIDE DEF Folds
  <2>. QED  BY <1>1, <2>3, <2>6
<1>. HIDE DEF S
<1>4. 0 .. n \subseteq S
  BY <1>1, <1>2, <1>3, Induction
<1>5. n \in S
  BY <1>1, <1>4
<1>. HIDE DEF Folds
<1>6. PICK g \in [SUBSET (1 .. n) -> X] : Folds(g, n)
  BY <1>5 DEF S
<1>. QED  BY <1>6 DEF Folds, FoldOf

Foldable(X, U, F, base, seq) ==
  F \in [X \X U -> X] /\ base \in X /\ seq \in Seq(U)

\* The states h a fold goes through, from the base on.
FoldCourse(h, X, F, base, seq) ==
  /\ h \in [0 .. Len(seq) -> X]
  /\ h[0] = base
  /\ \A i \in 1 .. Len(seq) : h[i] = F[<<h[i - 1], seq[i]>>]

LEMMA FoldUnfolds ==
  ASSUME NEW X, NEW U, NEW F, NEW base, NEW seq, NEW g,
         Foldable(X, U, F, base, seq), FoldOf(g, F, base, seq)
  PROVE  \E h : FoldCourse(h, X, F, base, seq) /\ g[1 .. Len(seq)] = h[Len(seq)]
<1>. DEFINE n == Len(seq)
            h == [i \in 0 .. n |-> g[1 .. i]]
            S == {i \in 0 .. n : h[i] \in X}
<1>1. n \in Nat /\ \A i \in 1 .. n : seq[i] \in U
  BY LenProperties, ElementOfSeq DEF Foldable
<1>2. h[0] = base
  <2>1. 1 .. 0 = {} /\ 1 .. 0 \in SUBSET (1 .. n) /\ 0 \in 0 .. n
    BY <1>1
  <2>. QED  BY <2>1 DEF FoldOf
<1>3. ASSUME NEW i \in 1 .. n
      PROVE  h[i] = F[<<h[i - 1], seq[i]>>]
  <2>1. i \in 1 .. i /\ 1 .. i \in SUBSET (1 .. n) /\ 1 .. i \subseteq 0 .. n
    BY <1>1
  <2>2. Max(1 .. i) \in 1 .. i /\ i =< Max(1 .. i)
    BY <1>1, <2>1, Greatest
  <2>3. Max(1 .. i) = i /\ (1 .. i) \ {i} = 1 .. (i - 1)
    BY <1>1, <2>2
  <2>4. i \in 0 .. n /\ i - 1 \in 0 .. n
    BY <1>1
  <2>. QED  BY <2>1, <2>3, <2>4 DEF FoldOf
<1>6. h[n] = g[1 .. n]
  BY <1>1
<1>7. h = [i \in 0 .. n |-> h[i]]
  OBVIOUS
<1>. HIDE DEF h
<1>4. 0 \in S
  BY <1>1, <1>2 DEF Foldable
<1>5. ASSUME NEW i \in 1 .. n, i - 1 \in S
      PROVE  i \in S
  <2>1. h[i - 1] \in X /\ seq[i] \in U /\ F \in [X \X U -> X]
    BY <1>1, <1>5 DEF Foldable
  <2>2. <<h[i - 1], seq[i]>> \in X \X U
    BY <2>1
  <2>3. h[i] \in X
    BY <1>3, <2>1, <2>2
  <2>. QED  BY <1>1, <2>3
<1>. HIDE DEF S
<1>8. 0 .. n \subseteq S
  BY <1>1, <1>4, <1>5, Induction
<1>9. h \in [0 .. n -> X]
  BY <1>7, <1>8 DEF S
<1>. QED  BY <1>2, <1>3, <1>6, <1>9 DEF FoldCourse

LEMMA FoldRuns ==
  ASSUME NEW X, NEW U, NEW F, NEW base, NEW seq, Foldable(X, U, F, base, seq)
  PROVE  \E h : FoldCourse(h, X, F, base, seq)
<1>1. F \in [X \X U -> X] /\ base \in X /\ seq \in Seq(U)
  BY DEF Foldable
<1>2. PICK g \in [SUBSET (1 .. Len(seq)) -> X] : FoldOf(g, F, base, seq)
  BY <1>1, FoldExists
<1>. QED  BY <1>2, FoldUnfolds

-----------------------------------------------------------------------------
(* Flattened sequences *)

LEMMA FlattenUnfolds ==
  ASSUME NEW U, NEW seqs \in Seq(Seq(U))
  PROVE  \E h \in [0 .. Len(seqs) -> Seq(U)] :
           /\ h[0] = <<>>
           /\ \A i \in 1 .. Len(seqs) : h[i] = h[i - 1] \o seqs[i]
           /\ FlattenSeq(seqs) = h[Len(seqs)]
<1>. DEFINE n == Len(seqs)
            Rec(f) == f = [i \in 1 .. n |-> IF i = 1 THEN seqs[i] ELSE f[i - 1] \o seqs[i]]
<1>1. n \in Nat /\ \A i \in 1 .. n : seqs[i] \in Seq(U)
  BY LenProperties, ElementOfSeq
<1>2. FlattenSeq(seqs) = IF n = 0 THEN seqs ELSE LET f == CHOOSE f : Rec(f) IN f[n]
  BY DEF FlattenSeq
<1>3. CASE n = 0
  <2>1. seqs = <<>>
    BY <1>3, EmptySeq
  <2>. DEFINE h == [i \in 0 .. 0 |-> <<>>]
  <2>2. h \in [0 .. n -> Seq(U)] /\ h[0] = <<>> /\ h[n] = <<>> /\ 1 .. n = {}
    BY <1>3
  <2>. HIDE DEF h
  <2>. QED  BY <1>2, <1>3, <2>1, <2>2
<1>4. CASE n # 0
  <2>. DEFINE F == [p \in Seq(U) \X Seq(U) |-> p[1] \o p[2]]
  <2>0. \A p \in Seq(U) \X Seq(U) : p[1] \o p[2] \in Seq(U)
    BY ConcatProperties
  <2>1. F \in [Seq(U) \X Seq(U) -> Seq(U)] /\ \A s, t \in Seq(U) : F[<<s, t>>] = s \o t
    <3>1. F \in [Seq(U) \X Seq(U) -> Seq(U)]
      BY <2>0
    <3>2. ASSUME NEW s \in Seq(U), NEW t \in Seq(U)
          PROVE  F[<<s, t>>] = s \o t
      <4>1. <<s, t>> \in Seq(U) \X Seq(U)
        OBVIOUS
      <4>. QED  BY <4>1
    <3>. QED  BY <3>1, <3>2
  <2>2. <<>> \in Seq(U)
    OBVIOUS
  <2>. HIDE DEF F
  <2>3. \E h : FoldCourse(h, Seq(U), F, <<>>, seqs)
    <3>1. Foldable(Seq(U), Seq(U), F, <<>>, seqs)
      BY <2>1, <2>2 DEF Foldable
    <3>. HIDE DEF n, Rec
    <3>. QED  BY <3>1, FoldRuns
  <2>4. PICK k \in [0 .. n -> Seq(U)] :
          /\ k[0] = <<>>
          /\ \A i \in 1 .. n : k[i] = F[<<k[i - 1], seqs[i]>>]
    BY <2>3 DEF FoldCourse
  <2>. DEFINE f == [i \in 1 .. n |-> k[i]]
  <2>5. ASSUME NEW i \in 1 .. n
        PROVE  f[i] = IF i = 1 THEN seqs[i] ELSE f[i - 1] \o seqs[i]
    <3>1. i - 1 \in 0 .. n /\ (i # 1 => i - 1 \in 1 .. n)
      BY <1>1
    <3>2. k[i - 1] \in Seq(U) /\ seqs[i] \in Seq(U)
      BY <1>1, <3>1
    <3>3. k[i] = k[i - 1] \o seqs[i]
      BY <2>1, <2>4, <3>2
    <3>4. f[i] = k[i] /\ (i # 1 => f[i - 1] = k[i - 1])
      BY <3>1
    <3>5. i = 1 => k[i - 1] \o seqs[i] = seqs[i]
      <4>1. <<>> \o seqs[i] = seqs[i]
        BY <3>2, ConcatEmptySeq
      <4>2. i = 1 => i - 1 = 0
        OBVIOUS
      <4>. QED  BY <2>4, <4>1, <4>2
    <3>. QED  BY <3>3, <3>4, <3>5
  <2>6. Rec(f)
    BY <2>5
  <2>. DEFINE c == CHOOSE c : Rec(c)
  <2>7. Rec(c)
    BY <2>6
  <2>. HIDE DEF c
  <2>8. \A i \in 1 .. n : c[i] = IF i = 1 THEN seqs[i] ELSE c[i - 1] \o seqs[i]
    BY <2>7
  <2>9. FlattenSeq(seqs) = c[n]
    BY <1>2, <1>4 DEF c
  <2>. HIDE DEF Rec
  <2>. DEFINE h == [i \in 0 .. n |-> IF i = 0 THEN <<>> ELSE c[i]]
              S == {i \in 0 .. n : h[i] \in Seq(U)}
  <2>10. h[0] = <<>> /\ h[n] = c[n]
    BY <1>1, <1>4
  <2>19. h = [i \in 0 .. n |-> h[i]]
    OBVIOUS
  <2>11. ASSUME NEW i \in 1 .. n
         PROVE  /\ i \in 0 .. n /\ i - 1 \in 0 .. n
                /\ h[i] = IF i = 1 THEN seqs[i] ELSE h[i - 1] \o seqs[i]
    <3>1. i \in 0 .. n /\ i - 1 \in 0 .. n /\ i # 0 /\ (i # 1 => i - 1 # 0)
      BY <1>1
    <3>2. h[i] = c[i] /\ (i # 1 => h[i - 1] = c[i - 1])
      BY <3>1
    <3>. QED  BY <2>8, <3>1, <3>2
  <2>. HIDE DEF h
  <2>12. ASSUME NEW i \in 1 .. n, h[i - 1] \in Seq(U)
         PROVE  h[i] \in Seq(U) /\ h[i] = h[i - 1] \o seqs[i]
    <3>1. seqs[i] \in Seq(U)
      BY <1>1
    <3>2. CASE i = 1
      <4>0. i - 1 = 0
        BY <3>2
      <4>1. h[i - 1] = <<>> /\ h[i] = seqs[i]
        BY <2>10, <2>11, <3>2, <4>0
      <4>2. <<>> \o seqs[i] = seqs[i]
        BY <3>1, ConcatEmptySeq
      <4>. QED  BY <3>1, <4>1, <4>2
    <3>3. CASE i # 1
      <4>1. h[i] = h[i - 1] \o seqs[i]
        BY <2>11, <3>3
      <4>2. h[i - 1] \o seqs[i] \in Seq(U)
        BY <2>12, <3>1, ConcatProperties
      <4>. QED  BY <4>1, <4>2
    <3>. QED  BY <3>2, <3>3
  <2>13. 0 \in S
    <3>1. 0 \in 0 .. n
      BY <1>1
    <3>. QED  BY <2>2, <2>10, <3>1
  <2>14. ASSUME NEW i \in 1 .. n, i - 1 \in S
         PROVE  i \in S
    <3>1. h[i] \in Seq(U) /\ i \in 0 .. n
      BY <2>11, <2>12, <2>14
    <3>. QED  BY <3>1
  <2>. HIDE DEF S
  <2>15. 0 .. n \subseteq S
    BY <1>1, <2>13, <2>14, Induction
  <2>16. \A i \in 0 .. n : h[i] \in Seq(U)
    BY <2>15 DEF S
  <2>17. h \in [0 .. n -> Seq(U)]
    BY <2>16, <2>19
  <2>18. ASSUME NEW i \in 1 .. n
         PROVE  h[i] = h[i - 1] \o seqs[i]
    <3>1. h[i - 1] \in Seq(U)
      BY <2>11, <2>16
    <3>. QED  BY <2>12, <3>1
  <2>. QED  BY <2>9, <2>10, <2>17, <2>18
<1>. QED  BY <1>3, <1>4

\* Where the sequences begin in the flattened one.
Offsets(off, seqs) ==
  /\ off \in [0 .. Len(seqs) -> Nat]
  /\ off[0] = 0
  /\ \A i \in 1 .. Len(seqs) : off[i] = off[i - 1] + Len(seqs[i])

LEMMA OffsetsGrow ==
  ASSUME NEW U, NEW seqs \in Seq(Seq(U)), NEW off, Offsets(off, seqs),
         NEW i \in 0 .. Len(seqs), NEW j \in 0 .. Len(seqs), i =< j
  PROVE  off[i] =< off[j]
<1>. DEFINE n == Len(seqs)
            S == {k \in 0 .. n : i =< k => off[i] =< off[k]}
<1>1. /\ n \in Nat
      /\ \A k \in 1 .. n : seqs[k] \in Seq(U) /\ Len(seqs[k]) \in Nat
      /\ \A k \in 0 .. n : off[k] \in Nat
      /\ \A k \in 1 .. n : off[k] = off[k - 1] + Len(seqs[k])
  BY LenProperties, ElementOfSeq DEF Offsets
<1>2. 0 \in S
  BY <1>1
<1>3. ASSUME NEW k \in 1 .. n, k - 1 \in S
      PROVE  k \in S
  <2>1. off[k] = off[k - 1] + Len(seqs[k]) /\ Len(seqs[k]) \in Nat
    BY <1>1
  <2>2. k - 1 \in 0 .. n /\ off[k - 1] \in Nat /\ off[k] \in Nat /\ off[i] \in Nat
    BY <1>1
  <2>3. off[k - 1] =< off[k]
    BY <2>1, <2>2
  <2>4. CASE i = k
    BY <2>2, <2>4
  <2>5. CASE i =< k - 1
    BY <1>3, <2>2, <2>3, <2>5
  <2>6. i =< k => i = k \/ i =< k - 1
    BY <1>1
  <2>. QED  BY <2>4, <2>5, <2>6, <1>1
<1>. HIDE DEF S
<1>4. 0 .. n \subseteq S
  BY <1>1, <1>2, <1>3, Induction
<1>. QED  BY <1>4 DEF S

\* Every element of the sequences is in the flattened one, and no other.
Flattened(flat, off, seqs) ==
  /\ Offsets(off, seqs)
  /\ Len(flat) = off[Len(seqs)]
  /\ \A i \in 1 .. Len(seqs) : \A j \in 1 .. Len(seqs[i]) :
       off[i - 1] + j \in 1 .. Len(flat) /\ flat[off[i - 1] + j] = seqs[i][j]
  /\ \A k \in 1 .. Len(flat) : \E i \in 1 .. Len(seqs) : \E j \in 1 .. Len(seqs[i]) :
       k = off[i - 1] + j

LEMMA FlattenIs ==
  ASSUME NEW U, NEW seqs \in Seq(Seq(U))
  PROVE  FlattenSeq(seqs) \in Seq(U) /\ \E off : Flattened(FlattenSeq(seqs), off, seqs)
<1>. DEFINE n == Len(seqs)
<1>1. n \in Nat /\ \A i \in 1 .. n : seqs[i] \in Seq(U) /\ Len(seqs[i]) \in Nat
  BY LenProperties, ElementOfSeq
<1>2. PICK h \in [0 .. n -> Seq(U)] :
        /\ h[0] = <<>>
        /\ \A i \in 1 .. n : h[i] = h[i - 1] \o seqs[i]
        /\ FlattenSeq(seqs) = h[n]
  BY FlattenUnfolds
<1>. DEFINE off == [i \in 0 .. n |-> Len(h[i])]
            Has(i) == \A k \in 1 .. i : \A j \in 1 .. Len(seqs[k]) :
                        off[k - 1] + j \in 1 .. off[i] /\ h[i][off[k - 1] + j] = seqs[k][j]
            Only(i) == \A m \in 1 .. off[i] :
                         \E k \in 1 .. i : \E j \in 1 .. Len(seqs[k]) : m = off[k - 1] + j
            S == {i \in 0 .. n : Has(i) /\ Only(i)}
<1>3. \A i \in 0 .. n : h[i] \in Seq(U) /\ Len(h[i]) \in Nat
  BY <1>1, LenProperties
<1>4. off \in [0 .. n -> Nat] /\ \A i \in 0 .. n : off[i] = Len(h[i]) /\ off[i] \in Nat
  BY <1>3
<1>. HIDE DEF off
<1>5. off[0] = 0
  <2>1. Len(<<>>) = 0 /\ 0 \in 0 .. n
    BY <1>1
  <2>. QED  BY <1>2, <1>4, <2>1
<1>6. ASSUME NEW i \in 1 .. n
      PROVE  /\ i - 1 \in 0 .. n /\ i \in 0 .. n
             /\ off[i] = off[i - 1] + Len(seqs[i])
             /\ \A m \in 1 .. off[i - 1] : h[i][m] = h[i - 1][m]
             /\ \A j \in 1 .. Len(seqs[i]) : h[i][off[i - 1] + j] = seqs[i][j]
  <2>1. i - 1 \in 0 .. n /\ i \in 0 .. n
    BY <1>1
  <2>2. PICK s : s = h[i - 1]
    OBVIOUS
  <2>3. PICK t : t = seqs[i]
    OBVIOUS
  <2>4. s \in Seq(U) /\ t \in Seq(U) /\ h[i] = s \o t
    BY <1>1, <1>2, <1>3, <2>1, <2>2, <2>3
  <2>5. Len(s \o t) = Len(s) + Len(t) /\ Len(s) \in Nat /\ Len(t) \in Nat
    BY <2>4, ConcatProperties, LenProperties
  <2>6. \A m \in 1 .. Len(s) + Len(t) :
          (s \o t)[m] = IF m =< Len(s) THEN s[m] ELSE t[m - Len(s)]
    BY <2>4, ConcatProperties
  <2>7. off[i] = Len(s) + Len(t) /\ off[i - 1] = Len(s)
    BY <1>4, <2>1, <2>2, <2>4, <2>5
  <2>8. \A m \in 1 .. Len(s) : h[i][m] = s[m]
    BY <2>4, <2>5, <2>6
  <2>9. ASSUME NEW j \in 1 .. Len(t)
        PROVE  h[i][Len(s) + j] = t[j]
    <3>1. Len(s) + j \in 1 .. Len(s) + Len(t) /\ ~(Len(s) + j =< Len(s)) /\ Len(s) + j - Len(s) = j
      BY <2>5
    <3>. QED  BY <2>4, <2>6, <3>1
  <2>. QED  BY <2>1, <2>2, <2>3, <2>7, <2>8, <2>9
<1>7. 0 \in S
  BY <1>1, <1>5
<1>8. ASSUME NEW i \in 1 .. n, i - 1 \in S
      PROVE  i \in S
  <2>1. i - 1 \in 0 .. n /\ i \in 0 .. n /\ off[i] \in Nat /\ off[i - 1] \in Nat
    BY <1>4, <1>6
  <2>2. Has(i - 1)
    BY <1>8
  <2>3. Only(i - 1)
    BY <1>8
  <2>4. Has(i)
    <3>. SUFFICES ASSUME NEW k \in 1 .. i, NEW j \in 1 .. Len(seqs[k])
                  PROVE  off[k - 1] + j \in 1 .. off[i] /\ h[i][off[k - 1] + j] = seqs[k][j]
      OBVIOUS
    <3>1. CASE k = i
      <4>1. off[i - 1] + j \in 1 .. off[i]
        BY <1>1, <1>6, <2>1, <3>1
      <4>. QED  BY <1>6, <3>1, <4>1
    <3>2. CASE k # i
      <4>1. k \in 1 .. (i - 1)
        BY <2>1, <3>2
      <4>2. off[k - 1] + j \in 1 .. off[i - 1] /\ h[i - 1][off[k - 1] + j] = seqs[k][j]
        BY <2>2, <4>1
      <4>3. off[i - 1] =< off[i]
        <5>1. off[i] = off[i - 1] + Len(seqs[i]) /\ Len(seqs[i]) \in Nat
          BY <1>1, <1>6
        <5>. QED  BY <2>1, <5>1
      <4>4. off[k - 1] + j \in 1 .. off[i]
        BY <2>1, <4>2, <4>3
      <4>. QED  BY <1>6, <4>2, <4>4
    <3>. QED  BY <3>1, <3>2
  <2>5. Only(i)
    <3>. SUFFICES ASSUME NEW m \in 1 .. off[i]
                  PROVE  \E k \in 1 .. i : \E j \in 1 .. Len(seqs[k]) : m = off[k - 1] + j
      OBVIOUS
    <3>1. CASE m =< off[i - 1]
      <4>1. m \in 1 .. off[i - 1]
        BY <2>1, <3>1
      <4>2. PICK k \in 1 .. (i - 1) : \E j \in 1 .. Len(seqs[k]) : m = off[k - 1] + j
        BY <2>3, <4>1
      <4>3. k \in 1 .. i
        BY <2>1
      <4>. QED  BY <4>2, <4>3
    <3>2. CASE ~(m =< off[i - 1])
      <4>1. i \in 1 .. i /\ Len(seqs[i]) \in Nat
        BY <1>1
      <4>2. m - off[i - 1] \in 1 .. Len(seqs[i]) /\ m = off[i - 1] + (m - off[i - 1])
        BY <1>6, <2>1, <3>2, <4>1
      <4>. QED  BY <4>1, <4>2
    <3>. QED  BY <3>1, <3>2
  <2>. QED  BY <2>1, <2>4, <2>5
<1>. HIDE DEF S
<1>9. 0 .. n \subseteq S
  BY <1>1, <1>7, <1>8, Induction
<1>10. Has(n) /\ Only(n) /\ n \in 0 .. n
  <2>1. n \in 0 .. n
    BY <1>1
  <2>2. n \in S
    BY <1>9, <2>1
  <2>. HIDE DEF Has, Only
  <2>. QED  BY <2>1, <2>2 DEF S
<1>11. Offsets(off, seqs)
  BY <1>4, <1>5, <1>6 DEF Offsets
<1>12. Len(FlattenSeq(seqs)) = off[n] /\ FlattenSeq(seqs) \in Seq(U)
  BY <1>2, <1>3, <1>4, <1>10
<1>13. Flattened(FlattenSeq(seqs), off, seqs)
  BY <1>2, <1>10, <1>11, <1>12 DEF Flattened
<1>. QED  BY <1>12, <1>13

-----------------------------------------------------------------------------
(* Sequences computed by recursion over the subsets of a finite set: of the *)
(* set left, item[left] comes first and the rest is that of rest[left].     *)

Shrinks(S, stop, rest) ==
  /\ IsFiniteSet(S)
  /\ rest \in [SUBSET S -> SUBSET S]
  /\ \A left \in SUBSET S : left \notin stop => rest[left] \subseteq left /\ rest[left] # left

Unrolls(g, S, stop, item, rest) ==
  \A left \in SUBSET S :
    g[left] = IF left \in stop THEN <<>> ELSE <<item[left]>> \o g[rest[left]]

UnrollingOf(g, S, stop, item, rest) ==
  g = [left \in SUBSET S |-> IF left \in stop THEN <<>> ELSE <<item[left]>> \o g[rest[left]]]

LEMMA SmallerRest ==
  ASSUME NEW S, NEW stop, NEW rest, Shrinks(S, stop, rest), NEW left \in SUBSET S,
         left \notin stop
  PROVE  /\ Cardinality(left) \in Nat /\ Cardinality(rest[left]) \in Nat
         /\ Cardinality(rest[left]) < Cardinality(left)
         /\ rest[left] \in SUBSET S
<1>1. rest[left] \in SUBSET S /\ rest[left] \subseteq left /\ rest[left] # left
  BY DEF Shrinks
<1>2. IsFiniteSet(left) /\ IsFiniteSet(rest[left])
  <2>1. IsFiniteSet(S)
    BY DEF Shrinks
  <2>. QED  BY <1>1, <2>1, FS_Subset
<1>3. Cardinality(left) \in Nat /\ Cardinality(rest[left]) \in Nat
  BY <1>2, FS_CardinalityType
<1>4. Cardinality(rest[left]) =< Cardinality(left)
  BY <1>1, <1>2, FS_Subset
<1>5. Cardinality(rest[left]) # Cardinality(left)
  BY <1>1, <1>2, FS_Subset
<1>. QED  BY <1>1, <1>3, <1>4, <1>5

LEMMA UnrollExists ==
  ASSUME NEW S, NEW stop, NEW item, NEW rest, Shrinks(S, stop, rest)
  PROVE  \E g : UnrollingOf(g, S, stop, item, rest)
<1>. DEFINE Eq(g, left) ==
              g[left] = IF left \in stop THEN <<>> ELSE <<item[left]>> \o g[rest[left]]
            Upto(g, k) == /\ DOMAIN g = SUBSET S /\ g = [left \in SUBSET S |-> g[left]]
                          /\ \A left \in SUBSET S : Cardinality(left) =< k => Eq(g, left)
            n == Cardinality(S)
            T == {k \in 0 .. n : \E g : Upto(g, k)}
<1>1. n \in Nat /\ \A left \in SUBSET S : Cardinality(left) \in Nat /\ Cardinality(left) =< n
  <2>1. IsFiniteSet(S)
    BY DEF Shrinks
  <2>2. \A left \in SUBSET S : IsFiniteSet(left) /\ Cardinality(left) =< n
    BY <2>1, FS_Subset
  <2>. QED  BY <2>1, <2>2, FS_CardinalityType
<1>. HIDE DEF n
<1>2. 0 \in T
  <2>. DEFINE g == [left \in SUBSET S |-> <<>>]
  <2>1. ASSUME NEW left \in SUBSET S, Cardinality(left) =< 0
        PROVE  left \in stop
    <3>1. Cardinality(left) = 0
      BY <1>1, <2>1
    <3>. QED  BY <1>1, <3>1, SmallerRest
  <2>2. \A left \in SUBSET S : Cardinality(left) =< 0 => Eq(g, left)
    BY <2>1
  <2>3. DOMAIN g = SUBSET S /\ g = [left \in SUBSET S |-> g[left]]
    OBVIOUS
  <2>. HIDE DEF g, Eq
  <2>4. Upto(g, 0)
    BY <2>2, <2>3
  <2>. HIDE DEF Upto
  <2>. QED  BY <1>1, <2>4
<1>3. ASSUME NEW k \in 1 .. n, k - 1 \in T
      PROVE  k \in T
  <2>1. PICK f : Upto(f, k - 1)
    BY <1>3
  <2>. DEFINE g == [left \in SUBSET S |->
                      IF left \in stop THEN <<>> ELSE <<item[left]>> \o f[rest[left]]]
  <2>2. ASSUME NEW left \in SUBSET S, Cardinality(left) =< k, left \notin stop
        PROVE  g[rest[left]] = f[rest[left]]
    <3>1. rest[left] \in SUBSET S /\ Cardinality(rest[left]) < Cardinality(left)
      BY <2>2, SmallerRest
    <3>2. Cardinality(rest[left]) =< k - 1
      BY <1>1, <2>2, <3>1
    <3>3. Eq(f, rest[left])
      BY <2>1, <3>1, <3>2
    <3>. QED  BY <3>1, <3>3
  <2>3. ASSUME NEW left \in SUBSET S, Cardinality(left) =< k
        PROVE  Eq(g, left)
    <3>1. g[left] = IF left \in stop THEN <<>> ELSE <<item[left]>> \o f[rest[left]]
      OBVIOUS
    <3>. HIDE DEF g
    <3>. QED  BY <2>2, <2>3, <3>1
  <2>4. DOMAIN g = SUBSET S /\ g = [left \in SUBSET S |-> g[left]]
    OBVIOUS
  <2>. HIDE DEF g, Eq
  <2>5. Upto(g, k)
    BY <2>3, <2>4
  <2>. HIDE DEF Upto
  <2>. QED  BY <1>1, <2>5
<1>. HIDE DEF T
<1>4. 0 .. n \subseteq T
  BY <1>1, <1>2, <1>3, Induction
<1>5. n \in T
  BY <1>1, <1>4
<1>6. PICK g : Upto(g, n)
  <2>. HIDE DEF Upto
  <2>. QED  BY <1>5 DEF T
<1>7. \A left \in SUBSET S : Eq(g, left)
  BY <1>1, <1>6
<1>8. g = [left \in SUBSET S |-> g[left]]
  BY <1>6
<1>. QED  BY <1>7, <1>8 DEF UnrollingOf

\* The sets L the recursion goes through, of which the sequence seq comes.
Descent(L, seq, left, stop, item, rest) ==
  /\ L[0] = left
  /\ L[Len(seq)] \in stop
  /\ \A i \in 1 .. Len(seq) : /\ L[i - 1] \notin stop
                              /\ seq[i] = item[L[i - 1]]
                              /\ L[i] = rest[L[i - 1]]

LEMMA Unrolled ==
  ASSUME NEW S, NEW stop, NEW item, NEW rest, NEW g, NEW U,
         Shrinks(S, stop, rest), Unrolls(g, S, stop, item, rest),
         \A left \in SUBSET S : item[left] \in U,
         NEW all \in SUBSET S
  PROVE  /\ g[all] \in Seq(U)
         /\ \E L \in [0 .. Len(g[all]) -> SUBSET S] : Descent(L, g[all], all, stop, item, rest)
<1>. DEFINE Good(left) ==
              /\ g[left] \in Seq(U)
              /\ \E L \in [0 .. Len(g[left]) -> SUBSET S] :
                   Descent(L, g[left], left, stop, item, rest)
            n == Cardinality(S)
            T == {k \in 0 .. n : \A left \in SUBSET S : Cardinality(left) =< k => Good(left)}
<1>1. n \in Nat /\ \A left \in SUBSET S : Cardinality(left) \in Nat /\ Cardinality(left) =< n
  <2>1. IsFiniteSet(S)
    BY DEF Shrinks
  <2>2. \A left \in SUBSET S : IsFiniteSet(left) /\ Cardinality(left) =< n
    BY <2>1, FS_Subset
  <2>. QED  BY <2>1, <2>2, FS_CardinalityType
<1>. HIDE DEF n
<1>2. ASSUME NEW left \in SUBSET S, left \in stop
      PROVE  Good(left)
  <2>1. g[left] = <<>>
    BY <1>2 DEF Unrolls
  <2>2. <<>> \in Seq(U) /\ Len(<<>>) = 0
    BY EmptySeq
  <2>. DEFINE L == [i \in 0 .. 0 |-> left]
  <2>3. L \in [0 .. 0 -> SUBSET S] /\ L[0] = left /\ 1 .. 0 = {}
    OBVIOUS
  <2>. HIDE DEF L
  <2>4. Descent(L, g[left], left, stop, item, rest)
    BY <1>2, <2>1, <2>2, <2>3 DEF Descent
  <2>. QED  BY <2>1, <2>2, <2>3, <2>4
<1>3. ASSUME NEW left \in SUBSET S, left \notin stop, Good(rest[left])
      PROVE  Good(left)
  <2>1. PICK s : s = g[rest[left]]
    OBVIOUS
  <2>2. PICK x : x = item[left]
    OBVIOUS
  <2>3. PICK t : t = g[left]
    OBVIOUS
  <2>4. s \in Seq(U) /\ x \in U /\ t = <<x>> \o s
    BY <1>3, <2>1, <2>2, <2>3 DEF Unrolls
  <2>5. PICK M \in [0 .. Len(s) -> SUBSET S] : Descent(M, s, rest[left], stop, item, rest)
    BY <1>3, <2>1
  <2>6. /\ <<x>> \in Seq(U) /\ Len(<<x>>) = 1 /\ <<x>>[1] = x /\ Len(s) \in Nat
    BY <2>4, LenProperties
  <2>7. /\ t \in Seq(U) /\ Len(t) = Len(s) + 1
        /\ \A i \in 1 .. Len(s) + 1 : t[i] = IF i = 1 THEN x ELSE s[i - 1]
    <3>1. /\ t \in Seq(U) /\ Len(t) = 1 + Len(s)
          /\ \A i \in 1 .. 1 + Len(s) : t[i] = IF i =< 1 THEN <<x>>[i] ELSE s[i - 1]
      BY <2>4, <2>6, ConcatProperties
    <3>. QED  BY <2>6, <3>1
  <2>. DEFINE L == [i \in 0 .. Len(s) + 1 |-> IF i = 0 THEN left ELSE M[i - 1]]
  <2>8. /\ L \in [0 .. Len(s) + 1 -> SUBSET S] /\ L[0] = left
        /\ \A i \in 1 .. Len(s) + 1 : L[i] = M[i - 1]
    BY <2>6
  <2>. HIDE DEF L
  <2>9. L[Len(s) + 1] \in stop
    <3>1. Len(s) + 1 \in 1 .. Len(s) + 1 /\ Len(s) + 1 - 1 = Len(s)
      BY <2>6
    <3>. QED  BY <2>5, <2>8, <3>1 DEF Descent
  <2>10. ASSUME NEW i \in 1 .. Len(s) + 1
         PROVE  L[i - 1] \notin stop /\ t[i] = item[L[i - 1]] /\ L[i] = rest[L[i - 1]]
    <3>1. CASE i = 1
      <4>1. i - 1 = 0 /\ L[i] = M[0]
        BY <2>8, <3>1
      <4>2. M[0] = rest[left] /\ t[i] = x
        BY <2>5, <2>7, <3>1 DEF Descent
      <4>. QED  BY <1>3, <2>2, <2>8, <4>1, <4>2
    <3>2. CASE i # 1
      <4>1. i - 1 \in 1 .. Len(s)
        BY <2>6, <3>2
      <4>2. L[i] = M[i - 1] /\ L[i - 1] = M[i - 1 - 1] /\ t[i] = s[i - 1]
        BY <2>7, <2>8, <3>2, <4>1
      <4>3. /\ M[i - 1 - 1] \notin stop /\ s[i - 1] = item[M[i - 1 - 1]]
            /\ M[i - 1] = rest[M[i - 1 - 1]]
        BY <2>5, <4>1 DEF Descent
      <4>. QED  BY <4>2, <4>3
    <3>. QED  BY <3>1, <3>2
  <2>11. Descent(L, t, left, stop, item, rest)
    BY <2>7, <2>8, <2>9, <2>10 DEF Descent
  <2>. QED  BY <2>3, <2>7, <2>8, <2>11
<1>4. 0 \in T
  <2>1. ASSUME NEW left \in SUBSET S, Cardinality(left) =< 0
        PROVE  left \in stop
    <3>1. Cardinality(left) = 0
      BY <1>1, <2>1
    <3>. QED  BY <1>1, <3>1, SmallerRest
  <2>. HIDE DEF Good
  <2>. QED  BY <1>1, <1>2, <2>1
<1>. HIDE DEF Good
<1>5. ASSUME NEW k \in 1 .. n, k - 1 \in T
      PROVE  k \in T
  <2>1. ASSUME NEW left \in SUBSET S, Cardinality(left) =< k
        PROVE  Good(left)
    <3>1. CASE left \in stop
      BY <1>2, <3>1
    <3>2. CASE left \notin stop
      <4>1. rest[left] \in SUBSET S /\ Cardinality(rest[left]) < Cardinality(left)
        BY <3>2, SmallerRest
      <4>2. Cardinality(rest[left]) =< k - 1
        BY <1>1, <2>1, <4>1
      <4>3. Good(rest[left])
        BY <1>5, <4>1, <4>2
      <4>. QED  BY <1>3, <3>2, <4>3
    <3>. QED  BY <3>1, <3>2
  <2>. QED  BY <1>1, <2>1
<1>. HIDE DEF T
<1>6. 0 .. n \subseteq T
  BY <1>1, <1>4, <1>5, Induction
<1>7. n \in T
  BY <1>1, <1>6
<1>8. Good(all)
  BY <1>1, <1>7 DEF T
<1>. QED  BY <1>8 DEF Good

\* The first n of the sets the recursion goes through.
Descends(L, n, S, stop, rest) ==
  /\ L \in [0 .. n -> SUBSET S]
  /\ \A i \in 1 .. n : L[i - 1] \notin stop /\ L[i] = rest[L[i - 1]]

\* What is left becomes less; what was left at first and is not any more was
\* taken at some step.
LEMMA DescentShrinks ==
  ASSUME NEW S, NEW stop, NEW rest, Shrinks(S, stop, rest), NEW n \in Nat,
         NEW L, Descends(L, n, S, stop, rest),
         NEW i \in 0 .. n, NEW j \in 0 .. n, i =< j
  PROVE  L[j] \subseteq L[i]
<1>. DEFINE T == {k \in 0 .. n : i =< k => L[k] \subseteq L[i]}
<1>1. 0 \in T
  OBVIOUS
<1>2. ASSUME NEW k \in 1 .. n, k - 1 \in T
      PROVE  k \in T
  <2>1. k - 1 \in 0 .. n /\ (i =< k => i = k \/ i =< k - 1)
    OBVIOUS
  <2>2. L[k - 1] \in SUBSET S /\ L[k - 1] \notin stop /\ L[k] = rest[L[k - 1]]
    BY <2>1 DEF Descends
  <2>3. L[k] \subseteq L[k - 1]
    BY <2>2 DEF Shrinks
  <2>. QED  BY <1>2, <2>1, <2>3
<1>. HIDE DEF T
<1>3. 0 .. n \subseteq T
  BY <1>1, <1>2, Induction
<1>. QED  BY <1>3 DEF T

LEMMA TakenAtAStep ==
  ASSUME NEW n \in Nat, NEW L, NEW i \in 0 .. n, NEW x, x \in L[0], x \notin L[i]
  PROVE  \E j \in 1 .. i : x \in L[j - 1] /\ x \notin L[j]
<1>. DEFINE T == {j \in 0 .. i : x \notin L[j]}
<1>1. T \subseteq Nat /\ i \in T
  OBVIOUS
<1>. HIDE DEF T
<1>2. PICK j \in T : \A k \in T : j =< k
  BY <1>1, Least
<1>3. j \in 0 .. i /\ x \notin L[j] /\ j # 0
  BY <1>2 DEF T
<1>4. j - 1 \in 0 .. i /\ ~(j =< j - 1)
  BY <1>3
<1>5. j - 1 \notin T
  BY <1>2, <1>4
<1>6. x \in L[j - 1]
  BY <1>4, <1>5 DEF T
<1>. QED  BY <1>3, <1>6
=============================================================================
