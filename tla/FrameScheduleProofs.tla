------------------------- MODULE FrameScheduleProofs -------------------------
(***************************************************************************)
(* Proofs about FrameSchedule for any phases, systems, archetypes, frames  *)
(* and commands: what the plan the compiler makes guarantees, and that the *)
(* executor, which follows it, keeps goroutines apart, runs each system    *)
(* once and in order, and shows it settled rows only.                      *)
(***************************************************************************)
EXTENDS FrameSchedule, EcsWorldProofs, ListLemmas

-----------------------------------------------------------------------------
(* What is registered *)

BuildOK ==
  /\ phases \in Seq([id : Phases, after : Afters])
  /\ \A i, j \in 1 .. Len(phases) : phases[i].id = phases[j].id => i = j
  /\ systems \in Seq([phase : Phases, def : Definitions])
  /\ \A s \in 1 .. Len(systems) : \E i \in 1 .. Len(phases) : phases[i].id = systems[s].phase

LEMMA SystemFacts ==
  ASSUME BuildOK
  PROVE  /\ Len(systems) \in Nat /\ Len(phases) \in Nat
         /\ \A i \in 1 .. Len(phases) : phases[i].id \in Phases /\ phases[i].after \in Afters
         /\ \A s \in 1 .. Len(systems) : /\ systems[s].phase \in Phases
                                         /\ Access(s) \in Definitions
                                         /\ Access(s).structural \subseteq Masks
<1>1. Len(systems) \in Nat /\ Len(phases) \in Nat
  BY LenProperties DEF BuildOK
<1>2. \A i \in 1 .. Len(phases) : phases[i] \in [id : Phases, after : Afters]
  BY ElementOfSeq DEF BuildOK
<1>3. \A s \in 1 .. Len(systems) : systems[s] \in [phase : Phases, def : Definitions]
  BY ElementOfSeq DEF BuildOK
<1>4. \A s \in 1 .. Len(systems) : systems[s].phase \in Phases /\ Access(s) \in Definitions
  BY <1>3 DEF Access
<1>5. \A s \in 1 .. Len(systems) : Access(s).structural \subseteq Masks
  BY <1>4, FrameAssumption DEF Definition
<1>. QED  BY <1>1, <1>2, <1>4, <1>5

LEMMA ConflictSymmetric ==
  ASSUME NEW s, NEW t, SystemsConflict(s, t)
  PROVE  SystemsConflict(t, s)
<1>1. WritesMeet(s, t) => WritesMeet(t, s)
  <2>1. ASSUME Access(s).writes \cap (Access(t).reads \cup Access(t).writes) # {}
        PROVE  WritesMeet(t, s)
    BY <2>1 DEF WritesMeet
  <2>2. ASSUME Access(t).writes \cap Access(s).reads # {}
        PROVE  WritesMeet(t, s)
    BY <2>2 DEF WritesMeet
  <2>. QED  BY <2>1, <2>2 DEF WritesMeet
<1>2. StructuralMeet(s, t) => StructuralMeet(t, s)
  BY DEF StructuralMeet
<1>. QED  BY <1>1, <1>2 DEF SystemsConflict

-----------------------------------------------------------------------------
(* Waves *)

\* Systems of one wave are different and do not conflict.
IsWave(w, of) ==
  /\ w \in Seq(of)
  /\ \A i, j \in 1 .. Len(w) : i # j => w[i] # w[j] /\ ~SystemsConflict(w[i], w[j])

Conflicts(s, wave) == \E k \in 1 .. Len(wave) : SystemsConflict(s, wave[k])

LEMMA GreedyUnfolds ==
  ASSUME Len(systems) \in Nat, NEW ready
  PROVE  \E h : /\ h[0] = <<>>
                /\ \A i \in 1 .. Len(systems) :
                     h[i] = IF i \notin ready \/ Conflicts(i, h[i - 1])
                            THEN h[i - 1] ELSE Append(h[i - 1], i)
                /\ Greedy(ready) = h[Len(systems)]
<1>. DEFINE n == Len(systems)
            seq == [s \in 1 .. n |-> s]
            Op(wave, s) == IF s \notin ready \/ Conflicts(s, wave) THEN wave ELSE Append(wave, s)
            X == Seq(Nat)
            F == [p \in X \X Nat |-> Op(p[1], p[2])]
            Rec(g) == g = [s \in SUBSET (1 .. n) |->
                             IF s = {} THEN <<>> ELSE Op(g[s \ {Max(s)}], seq[Max(s)])]
<1>1. n \in Nat /\ DOMAIN seq = 1 .. n /\ \A i \in 1 .. n : seq[i] = i
  OBVIOUS
<1>2. Greedy(ready) = LET g == CHOOSE g : Rec(g) IN g[1 .. n]
  BY <1>1 DEF Greedy, FoldLeft, MapThenFoldSet, Conflicts
<1>3. seq \in Seq(Nat) /\ Len(seq) = n
  BY <1>1
<1>. HIDE DEF seq
<1>4. \A w \in X, s \in Nat : Op(w, s) \in X
  BY AppendProperties
<1>5. F \in [X \X Nat -> X] /\ \A w \in X, s \in Nat : F[<<w, s>>] = Op(w, s)
  <2>. HIDE DEF Op, X
  <2>1. \A p \in X \X Nat : p[1] \in X /\ p[2] \in Nat
    OBVIOUS
  <2>2. \A w \in X, s \in Nat : <<w, s>> \in X \X Nat
    OBVIOUS
  <2>. QED  BY <1>4, <2>1, <2>2
<1>6. <<>> \in X
  OBVIOUS
<1>. HIDE DEF F, X, Op
<1>7. PICK f \in [SUBSET (1 .. Len(seq)) -> X] : FoldOf(f, F, <<>>, seq)
  <2>. HIDE DEF n, Rec
  <2>. QED  BY <1>3, <1>5, <1>6, FoldExists
<1>8. \A s \in SUBSET (1 .. n) : s # {} => Max(s) \in s
  <2>1. \A s \in SUBSET (1 .. n) : s \subseteq 0 .. n
    BY <1>1
  <2>. QED  BY <1>1, <2>1, Greatest
<1>9. Rec(f)
  <2>1. ASSUME NEW s \in SUBSET (1 .. n), s # {}
        PROVE  f[s] = Op(f[s \ {Max(s)}], seq[Max(s)])
    <3>1. Max(s) \in 1 .. n /\ s \ {Max(s)} \in SUBSET (1 .. n)
      BY <1>8, <2>1
    <3>2. f[s \ {Max(s)}] \in X /\ seq[Max(s)] \in Nat
      BY <1>1, <1>3, <3>1
    <3>3. f[s] = F[<<f[s \ {Max(s)}], seq[Max(s)]>>]
      BY <1>3, <1>7, <2>1 DEF FoldOf
    <3>. QED  BY <1>5, <3>2, <3>3
  <2>2. f[{}] = <<>>
    BY <1>7 DEF FoldOf
  <2>3. f = [s \in SUBSET (1 .. n) |-> f[s]]
    BY <1>3
  <2>. QED  BY <2>1, <2>2, <2>3
<1>. DEFINE g == CHOOSE g : Rec(g)
<1>10. Rec(g)
  BY <1>9
<1>. HIDE DEF g
<1>11. \A s \in SUBSET (1 .. n) :
         g[s] = IF s = {} THEN <<>> ELSE Op(g[s \ {Max(s)}], seq[Max(s)])
  BY <1>10
<1>. HIDE DEF Rec
<1>. DEFINE h == [i \in 0 .. n |-> g[1 .. i]]
<1>12. h[0] = <<>>
  <2>1. 1 .. 0 = {} /\ 1 .. 0 \in SUBSET (1 .. n) /\ 0 \in 0 .. n
    BY <1>1
  <2>. QED  BY <1>11, <2>1
<1>13. ASSUME NEW i \in 1 .. n
       PROVE  h[i] = Op(h[i - 1], i)
  <2>1. i \in 1 .. i /\ 1 .. i \in SUBSET (1 .. n) /\ 1 .. i \subseteq 0 .. n
    BY <1>1
  <2>2. Max(1 .. i) \in 1 .. i /\ i =< Max(1 .. i)
    BY <1>1, <2>1, Greatest
  <2>3. Max(1 .. i) = i /\ (1 .. i) \ {i} = 1 .. (i - 1) /\ seq[i] = i
    BY <1>1, <2>2
  <2>4. i \in 0 .. n /\ i - 1 \in 0 .. n
    BY <1>1
  <2>. QED  BY <1>11, <2>1, <2>3, <2>4
<1>14. Greedy(ready) = h[n]
  BY <1>1, <1>2 DEF g
<1>. HIDE DEF h
<1>. QED  BY <1>12, <1>13, <1>14 DEF Op

LEMMA GreedyWave ==
  ASSUME Len(systems) \in Nat, NEW ready, ready \subseteq 1 .. Len(systems)
  PROVE  /\ IsWave(Greedy(ready), ready)
         /\ ready # {} => Len(Greedy(ready)) > 0
<1>. DEFINE n == Len(systems)
<1>1. PICK h : /\ h[0] = <<>>
               /\ \A i \in 1 .. n : h[i] = IF i \notin ready \/ Conflicts(i, h[i - 1])
                                           THEN h[i - 1] ELSE Append(h[i - 1], i)
               /\ Greedy(ready) = h[n]
  BY GreedyUnfolds
<1>. DEFINE Upto(w, i) == \A k \in 1 .. Len(w) : w[k] =< i
            Some(w, i) == (\E r \in ready : r =< i) => Len(w) > 0
            P(i) == IsWave(h[i], ready) /\ Upto(h[i], i) /\ Some(h[i], i)
            S == {i \in 0 .. n : P(i)}
<1>2. 0 \in S
  <2>1. <<>> \in Seq(ready) /\ Len(<<>>) = 0
    BY EmptySeq
  <2>2. IsWave(<<>>, ready) /\ Upto(<<>>, 0)
    BY <2>1 DEF IsWave
  <2>3. Some(<<>>, 0)
    OBVIOUS
  <2>4. P(0)
    BY <1>1, <2>2, <2>3
  <2>. HIDE DEF P
  <2>. QED  BY <2>4
<1>3. ASSUME NEW i \in 1 .. n, i - 1 \in S
      PROVE  i \in S
  <2>1. PICK w : w = h[i - 1]
    OBVIOUS
  <2>2. IsWave(w, ready) /\ Upto(w, i - 1) /\ Some(w, i - 1)
    BY <1>3, <2>1
  <2>3. w \in Seq(ready) /\ Len(w) \in Nat /\ \A k \in 1 .. Len(w) : w[k] \in ready
    BY <2>2, LenProperties, ElementOfSeq DEF IsWave
  <2>0. \A k \in 1 .. Len(w) : w[k] =< i
    <3>0. \A r \in ready : r \in Nat
      OBVIOUS
    <3>1. \A k \in 1 .. Len(w) : w[k] \in Nat
      BY <2>3, <3>0
    <3>2. \A k \in 1 .. Len(w) : w[k] =< i - 1
      BY <2>2
    <3>. QED  BY <3>1, <3>2
  <2>4. CASE i \notin ready \/ Conflicts(i, w)
    <3>1. h[i] = w
      BY <1>1, <2>1, <2>4
    <3>2. Upto(w, i)
      BY <2>0
    <3>3. Some(w, i)
      <4>1. CASE i \notin ready
        <5>1. \A r \in ready : r =< i => r =< i - 1
          BY <4>1
        <5>. QED  BY <2>2, <5>1
      <4>2. CASE Conflicts(i, w)
        <5>1. PICK k \in 1 .. Len(w) : TRUE
          BY <4>2 DEF Conflicts
        <5>. QED  BY <2>3, <5>1
      <4>. QED  BY <2>4, <4>1, <4>2
    <3>4. P(i)
      BY <2>2, <3>1, <3>2, <3>3
    <3>. HIDE DEF P
    <3>. QED  BY <3>4
  <2>5. CASE i \in ready /\ ~Conflicts(i, w)
    <3>1. PICK v : v = Append(w, i)
      OBVIOUS
    <3>2. h[i] = v
      BY <1>1, <2>1, <2>5, <3>1
    <3>3. /\ v \in Seq(ready) /\ Len(v) = Len(w) + 1
          /\ \A k \in 1 .. Len(w) : v[k] = w[k]
          /\ v[Len(w) + 1] = i
      BY <2>3, <2>5, <3>1, AppendProperties
    <3>4. Upto(v, i)
      <4>1. \A k \in 1 .. Len(v) : k = Len(w) + 1 \/ k \in 1 .. Len(w)
        BY <2>3, <3>3
      <4>. QED  BY <2>0, <3>3, <4>1
    <3>5. Some(v, i)
      BY <2>3, <3>3
    <3>6. IsWave(v, ready)
      <4>. SUFFICES ASSUME NEW k \in 1 .. Len(v), NEW l \in 1 .. Len(v), k # l
                    PROVE  v[k] # v[l] /\ ~SystemsConflict(v[k], v[l])
        BY <3>3 DEF IsWave
      <4>1. \A m \in 1 .. Len(w) : w[m] # i
        BY <2>2, <2>3
      <4>2. \A m \in 1 .. Len(w) : ~SystemsConflict(i, w[m]) /\ ~SystemsConflict(w[m], i)
        BY <2>5, ConflictSymmetric DEF Conflicts
      <4>3. CASE k \in 1 .. Len(w) /\ l \in 1 .. Len(w)
        BY <2>2, <3>3, <4>3 DEF IsWave
      <4>4. CASE k \in 1 .. Len(w) /\ l = Len(w) + 1
        BY <3>3, <4>1, <4>2, <4>4
      <4>5. CASE k = Len(w) + 1 /\ l \in 1 .. Len(w)
        BY <3>3, <4>1, <4>2, <4>5
      <4>6. \A m \in 1 .. Len(v) : m = Len(w) + 1 \/ m \in 1 .. Len(w)
        BY <2>3, <3>3
      <4>. QED  BY <4>3, <4>4, <4>5, <4>6
    <3>7. P(i)
      BY <3>2, <3>4, <3>5, <3>6
    <3>. HIDE DEF P
    <3>. QED  BY <3>7
  <2>. QED  BY <2>4, <2>5
<1>. HIDE DEF S
<1>4. 0 .. n \subseteq S
  BY <1>2, <1>3, Induction
<1>5. n \in S
  BY <1>4
<1>6. P(n)
  <2>. HIDE DEF P
  <2>. QED  BY <1>5 DEF S
<1>7. \A r \in ready : r =< n
  OBVIOUS
<1>. QED  BY <1>1, <1>6, <1>7

-----------------------------------------------------------------------------
(* The waves of a phase.  What compilePhase keeps, for the systems left:    *)

Local(p, id) == Max({s \in Members(p) : Access(s).id = id})

ReadyOf(p, left) == {Local(p, id) : id \in Ready(left, Edges(p))}

WaveOf(p, left) == Greedy(ReadyOf(p, left))

WaveIds(w) == {Access(w[i]).id : i \in 1 .. Len(w)}

Stop(p) == {left \in SUBSET Ids(p) : ReadyOf(p, left) = {}}

Item(p) == [left \in SUBSET Ids(p) |-> WaveOf(p, left)]

Rest(p) == [left \in SUBSET Ids(p) |-> left \ WaveIds(WaveOf(p, left))]

LEMMA MembersFinite ==
  ASSUME Len(systems) \in Nat, NEW p
  PROVE  /\ Members(p) \subseteq 1 .. Len(systems)
         /\ IsFiniteSet(Members(p)) /\ IsFiniteSet(Ids(p))
<1>1. Members(p) \subseteq 1 .. Len(systems)
  BY DEF Members
<1>2. IsFiniteSet(1 .. Len(systems))
  BY FS_Interval
<1>3. IsFiniteSet(Members(p))
  BY <1>1, <1>2, FS_Subset
<1>4. IsFiniteSet(Ids(p))
  <2>. DEFINE f == [s \in Members(p) |-> Access(s).id]
  <2>1. Ids(p) = {f[s] : s \in Members(p)}
    BY DEF Ids
  <2>2. f \in Surjection(Members(p), Ids(p))
    BY <2>1 DEF Surjection
  <2>. QED  BY <1>3, <2>2, FS_Surjection
<1>. QED  BY <1>1, <1>3, <1>4

LEMMA LocalIs ==
  ASSUME Len(systems) \in Nat, NEW p, NEW id \in Ids(p)
  PROVE  Local(p, id) \in Members(p) /\ Access(Local(p, id)).id = id
<1>. DEFINE T == {s \in Members(p) : Access(s).id = id}
<1>1. T \subseteq 0 .. Len(systems) /\ T # {}
  <2>1. PICK s \in Members(p) : id = Access(s).id
    BY DEF Ids
  <2>2. Members(p) \subseteq 1 .. Len(systems)
    BY MembersFinite
  <2>. QED  BY <2>1, <2>2
<1>2. Max(T) \in T
  BY <1>1, Greatest
<1>. QED  BY <1>2 DEF Local

\* The systems of a wave: each is ready, and the one of its id.
LEMMA WaveOfIs ==
  ASSUME Len(systems) \in Nat, NEW p, NEW left \in SUBSET Ids(p)
  PROVE  /\ IsWave(WaveOf(p, left), Members(p))
         /\ ReadyOf(p, left) # {} => Len(WaveOf(p, left)) > 0
         /\ \A i \in 1 .. Len(WaveOf(p, left)) :
              /\ Access(WaveOf(p, left)[i]).id \in Ready(left, Edges(p))
              /\ WaveOf(p, left)[i] = Local(p, Access(WaveOf(p, left)[i]).id)
<1>. DEFINE r == ReadyOf(p, left)
            w == WaveOf(p, left)
<1>1. ASSUME NEW s \in r
      PROVE  /\ s \in Members(p)
             /\ Access(s).id \in Ready(left, Edges(p))
             /\ s = Local(p, Access(s).id)
  <2>1. PICK id \in Ready(left, Edges(p)) : s = Local(p, id)
    BY DEF ReadyOf
  <2>2. id \in Ids(p)
    BY DEF Ready
  <2>. QED  BY <2>1, <2>2, LocalIs
<1>2. r \subseteq 1 .. Len(systems)
  BY <1>1, MembersFinite
<1>. HIDE DEF r
<1>3. IsWave(w, r) /\ (r # {} => Len(w) > 0)
  BY <1>2, GreedyWave DEF WaveOf, r
<1>. HIDE DEF w
<1>4. w \in Seq(r) /\ \A i \in 1 .. Len(w) : w[i] \in r
  BY <1>3, ElementOfSeq DEF IsWave
<1>5. w \in Seq(Members(p))
  <2>1. Len(w) \in Nat /\ w \in [1 .. Len(w) -> r]
    BY <1>4, LenProperties
  <2>2. w \in [1 .. Len(w) -> Members(p)]
    BY <1>1, <1>4, <2>1
  <2>. QED  BY <2>1, <2>2
<1>6. IsWave(w, Members(p))
  BY <1>3, <1>5 DEF IsWave
<1>. QED  BY <1>1, <1>3, <1>4, <1>6 DEF w, r

LEMMA WavesShrink ==
  ASSUME Len(systems) \in Nat, NEW p
  PROVE  Shrinks(Ids(p), Stop(p), Rest(p))
<1>1. Rest(p) \in [SUBSET Ids(p) -> SUBSET Ids(p)]
  BY DEF Rest
<1>2. ASSUME NEW left \in SUBSET Ids(p), left \notin Stop(p)
      PROVE  Rest(p)[left] \subseteq left /\ Rest(p)[left] # left
  <2>. DEFINE w == WaveOf(p, left)
  <2>1. Rest(p)[left] = left \ WaveIds(w)
    BY DEF Rest
  <2>2. ReadyOf(p, left) # {}
    BY <1>2 DEF Stop
  <2>3. Len(w) > 0 /\ \A i \in 1 .. Len(w) : Access(w[i]).id \in Ready(left, Edges(p))
    BY <2>2, WaveOfIs
  <2>4. Len(w) \in Nat
    BY WaveOfIs, LenProperties DEF IsWave
  <2>. HIDE DEF w
  <2>5. 1 \in 1 .. Len(w)
    BY <2>3, <2>4
  <2>6. Access(w[1]).id \in WaveIds(w) /\ Access(w[1]).id \in left
    BY <2>3, <2>5 DEF WaveIds, Ready
  <2>. QED  BY <2>1, <2>6
<1>. QED  BY <1>1, <1>2, MembersFinite DEF Shrinks

LEMMA WavesUnfold ==
  ASSUME Len(systems) \in Nat, NEW p
  PROVE  /\ Waves(p) \in Seq(Seq(Members(p)))
         /\ \E L \in [0 .. Len(Waves(p)) -> SUBSET Ids(p)] :
              Descent(L, Waves(p), Ids(p), Stop(p), Item(p), Rest(p))
<1>. DEFINE Rec(g) == g = [left \in SUBSET Ids(p) |->
                             IF left \in Stop(p) THEN <<>>
                             ELSE <<Item(p)[left]>> \o g[Rest(p)[left]]]
            g == CHOOSE g : Rec(g)
<1>1. \A left \in SUBSET Ids(p) :
        /\ left \in Stop(p) <=> ReadyOf(p, left) = {}
        /\ Item(p)[left] = WaveOf(p, left)
        /\ Rest(p)[left] = left \ WaveIds(WaveOf(p, left))
  BY DEF Stop, Item, Rest
<1>2. Waves(p) = g[Ids(p)]
  <2>. DEFINE Old(h) == h = [left \in SUBSET Ids(p) |->
                               IF ReadyOf(p, left) = {} THEN <<>>
                               ELSE <<WaveOf(p, left)>> \o h[left \ WaveIds(WaveOf(p, left))]]
  <2>1. Waves(p) = LET h == CHOOSE h : Old(h) IN h[Ids(p)]
    BY DEF Waves, ReadyOf, WaveOf, Local, WaveIds
  <2>2. \A h : Old(h) <=> Rec(h)
    BY <1>1
  <2>. HIDE DEF Old, Rec
  <2>3. (CHOOSE h : Old(h)) = (CHOOSE h : Rec(h))
    BY <2>2
  <2>. QED  BY <2>1, <2>3
<1>3. \E h : Rec(h)
  <2>1. PICK S, stop, item, rest : /\ S = Ids(p) /\ stop = Stop(p)
                                   /\ item = Item(p) /\ rest = Rest(p)
    OBVIOUS
  <2>2. Shrinks(S, stop, rest)
    BY <2>1, WavesShrink
  <2>3. PICK h : UnrollingOf(h, S, stop, item, rest)
    BY <2>2, UnrollExists
  <2>4. UnrollingOf(h, Ids(p), Stop(p), Item(p), Rest(p))
    BY <2>1, <2>3
  <2>5. Rec(h)
    BY <2>4 DEF UnrollingOf
  <2>. HIDE DEF Rec
  <2>. QED  BY <2>5
<1>4. Rec(g)
  BY <1>3
<1>. HIDE DEF g
<1>5. Unrolls(g, Ids(p), Stop(p), Item(p), Rest(p))
  BY <1>4 DEF Unrolls
<1>6. \A left \in SUBSET Ids(p) : Item(p)[left] \in Seq(Members(p))
  BY <1>1, WaveOfIs DEF IsWave
<1>. HIDE DEF Rec
<1>7. /\ g[Ids(p)] \in Seq(Seq(Members(p)))
      /\ \E L \in [0 .. Len(g[Ids(p)]) -> SUBSET Ids(p)] :
           Descent(L, g[Ids(p)], Ids(p), Stop(p), Item(p), Rest(p))
  <2>1. Ids(p) \in SUBSET Ids(p)
    OBVIOUS
  <2>. QED  BY <1>5, <1>6, <2>1, WavesShrink, Unrolled
<1>. QED  BY <1>2, <1>7

LEMMA ToSetIs ==
  ASSUME NEW U, NEW w \in Seq(U)
  PROVE  /\ ToSet(w) \subseteq U
         /\ \A x : x \in ToSet(w) <=> \E i \in 1 .. Len(w) : x = w[i]
<1>1. DOMAIN w = 1 .. Len(w) /\ \A i \in 1 .. Len(w) : w[i] \in U
  BY LenProperties, ElementOfSeq
<1>. QED  BY <1>1 DEF ToSet

\* What the waves W of phase p guarantee: each system of the phase is in one
\* wave, and those it comes after are in waves before.
PhaseInWaves(p, W) ==
  /\ W \in Seq(Seq(Members(p)))
  /\ \A i \in 1 .. Len(W) : IsWave(W[i], Members(p))
  /\ \A s \in Members(p) : \E i \in 1 .. Len(W) : s \in ToSet(W[i])
  /\ \A i, j \in 1 .. Len(W) : \A s \in ToSet(W[i]) : s \in ToSet(W[j]) => i = j
  /\ \A i \in 1 .. Len(W) : \A s \in ToSet(W[i]) : \A t \in Members(p) :
       <<Access(t).id, Access(s).id>> \in Edges(p) =>
         \E j \in 1 .. Len(W) : j < i /\ t \in ToSet(W[j])

LEMMA PhaseWaves ==
  ASSUME Len(systems) \in Nat, NEW p, PhaseCompiles(p)
  PROVE  PhaseInWaves(p, Waves(p))
<1>1. PICK W : W = Waves(p)
  OBVIOUS
<1>. DEFINE n == Len(W)
<1>2. W \in Seq(Seq(Members(p))) /\ n \in Nat /\ \A i \in 1 .. n : W[i] \in Seq(Members(p))
  BY <1>1, WavesUnfold, LenProperties, ElementOfSeq
<1>3. PICK L \in [0 .. n -> SUBSET Ids(p)] :
        Descent(L, W, Ids(p), Stop(p), Item(p), Rest(p))
  BY <1>1, WavesUnfold
<1>4. ASSUME NEW i \in 1 .. n
      PROVE  /\ i - 1 \in 0 .. n /\ i \in 0 .. n /\ L[i - 1] \in SUBSET Ids(p)
             /\ W[i] = WaveOf(p, L[i - 1])
             /\ L[i] = L[i - 1] \ WaveIds(W[i])
  <2>1. i - 1 \in 0 .. n /\ i \in 0 .. n
    BY <1>2
  <2>2. L[i - 1] \in SUBSET Ids(p)
    BY <2>1
  <2>3. W[i] = Item(p)[L[i - 1]] /\ L[i] = Rest(p)[L[i - 1]]
    BY <1>3 DEF Descent
  <2>. QED  BY <2>1, <2>2, <2>3 DEF Item, Rest
<1>5. ASSUME NEW i \in 1 .. n, NEW s \in ToSet(W[i])
      PROVE  /\ s \in Members(p) /\ s = Local(p, Access(s).id)
             /\ Access(s).id \in L[i - 1] /\ Access(s).id \notin L[i]
             /\ Access(s).id \in Ready(L[i - 1], Edges(p))
  <2>1. PICK k \in 1 .. Len(W[i]) : s = W[i][k]
    BY <1>2, ToSetIs
  <2>2. s \in Members(p)
    BY <1>2, ToSetIs
  <2>3. Access(s).id \in Ready(L[i - 1], Edges(p)) /\ s = Local(p, Access(s).id)
    BY <1>4, <2>1, WaveOfIs
  <2>4. Access(s).id \in WaveIds(W[i])
    BY <2>1 DEF WaveIds
  <2>. QED  BY <1>4, <2>2, <2>3, <2>4 DEF Ready
<1>6. ASSUME NEW i \in 0 .. n, NEW j \in 0 .. n, i =< j
      PROVE  L[j] \subseteq L[i]
  <2>1. Descends(L, n, Ids(p), Stop(p), Rest(p))
    BY <1>3 DEF Descent, Descends
  <2>2. Shrinks(Ids(p), Stop(p), Rest(p))
    BY WavesShrink
  <2>. QED  BY <1>2, <1>6, <2>1, <2>2, DescentShrinks
<1>7. \A i \in 1 .. n : IsWave(W[i], Members(p))
  BY <1>4, WaveOfIs
<1>8. \A s \in Members(p) : \E i \in 1 .. n : s \in ToSet(W[i])
  <2>1. PICK flat : flat = FlattenSeq(W)
    OBVIOUS
  <2>2. flat \in Seq(Members(p)) /\ \E off : Flattened(flat, off, W)
    BY <1>2, <2>1, FlattenIs
  <2>3. PICK off : Flattened(flat, off, W)
    BY <2>2
  <2>4. ToSet(flat) \subseteq Members(p) /\ IsFiniteSet(Members(p))
    BY <2>2, ToSetIs, MembersFinite
  <2>5. Cardinality(ToSet(flat)) = Cardinality(Members(p))
    BY <1>1, <2>1 DEF PhaseCompiles
  <2>6. ToSet(flat) = Members(p)
    BY <2>4, <2>5, FS_Subset
  <2>7. ASSUME NEW s \in Members(p)
        PROVE  \E i \in 1 .. n : s \in ToSet(W[i])
    <3>1. PICK k \in 1 .. Len(flat) : s = flat[k]
      BY <2>2, <2>6, ToSetIs
    <3>2. PICK i \in 1 .. n : \E j \in 1 .. Len(W[i]) : k = off[i - 1] + j
      BY <2>3 DEF Flattened
    <3>3. PICK j \in 1 .. Len(W[i]) : k = off[i - 1] + j
      BY <3>2
    <3>4. s = W[i][j]
      BY <2>3, <3>1, <3>3 DEF Flattened
    <3>. QED  BY <1>2, <3>4, ToSetIs
  <2>. QED  BY <2>7
<1>9. ASSUME NEW i \in 1 .. n, NEW j \in 1 .. n, NEW s \in ToSet(W[i]), s \in ToSet(W[j]), i < j
      PROVE  FALSE
  <2>1. i \in 0 .. n /\ j - 1 \in 0 .. n /\ i =< j - 1
    BY <1>2, <1>9
  <2>2. L[j - 1] \subseteq L[i]
    BY <1>6, <2>1
  <2>3. Access(s).id \notin L[i]
    BY <1>5
  <2>4. Access(s).id \in L[j - 1]
    BY <1>5, <1>9
  <2>. QED  BY <2>2, <2>3, <2>4
<1>10. ASSUME NEW i \in 1 .. n, NEW j \in 1 .. n, NEW s \in ToSet(W[i]), s \in ToSet(W[j])
       PROVE  i = j
  <2>1. ~(i < j)
    BY <1>9, <1>10
  <2>2. ~(j < i)
    BY <1>9, <1>10
  <2>. QED  BY <1>2, <2>1, <2>2
<1>11. ASSUME NEW i \in 1 .. n, NEW s \in ToSet(W[i]), NEW t \in Members(p),
              <<Access(t).id, Access(s).id>> \in Edges(p)
       PROVE  \E j \in 1 .. n : j < i /\ t \in ToSet(W[j])
  <2>1. Access(s).id \in Ready(L[i - 1], Edges(p))
    BY <1>5
  <2>2. Access(t).id \notin L[i - 1]
    BY <1>11, <2>1 DEF Ready
  <2>3. PICK j \in 1 .. n : t \in ToSet(W[j])
    BY <1>8
  <2>4. Access(t).id \in L[j - 1]
    BY <1>5, <2>3
  <2>5. j < i
    <3>1. ASSUME i =< j
          PROVE  FALSE
      <4>1. i - 1 \in 0 .. n /\ j - 1 \in 0 .. n /\ i - 1 =< j - 1
        BY <1>2, <3>1
      <4>2. L[j - 1] \subseteq L[i - 1]
        BY <1>6, <4>1
      <4>. QED  BY <2>2, <2>4, <4>2
    <3>. QED  BY <3>1
  <2>. QED  BY <2>3, <2>5
<1>12. PhaseInWaves(p, W)
  BY <1>2, <1>7, <1>8, <1>10, <1>11 DEF PhaseInWaves
<1>. QED  BY <1>1, <1>12

-----------------------------------------------------------------------------
(* The order of the phases *)

PhasesLeft == SUBSET (1 .. Len(phases))

ReadyPhases(left) == {i \in left : \A j \in left : phases[j].id \notin phases[i].after}

PhaseStop == {left \in PhasesLeft : ReadyPhases(left) = {}}

PhaseItem == [left \in PhasesLeft |-> phases[Min(ReadyPhases(left))].id]

PhaseRest == [left \in PhasesLeft |-> left \ {Min(ReadyPhases(left))}]

LEMMA FirstReady ==
  ASSUME Len(phases) \in Nat, NEW left \in PhasesLeft, left \notin PhaseStop
  PROVE  Min(ReadyPhases(left)) \in ReadyPhases(left)
<1>. DEFINE r == ReadyPhases(left)
<1>1. r # {} /\ r \subseteq Nat
  <2>1. r # {}
    BY DEF PhaseStop
  <2>2. left \subseteq Nat
    <3>1. left \subseteq 1 .. Len(phases)
      BY DEF PhasesLeft
    <3>. QED  BY <3>1
  <2>3. r \subseteq left
    BY DEF ReadyPhases
  <2>. HIDE DEF r
  <2>. QED  BY <2>1, <2>2, <2>3
<1>. HIDE DEF r
<1>2. PICK m \in r : \A k \in r : m =< k
  BY <1>1, Least
<1>3. Min(r) \in r
  BY <1>2 DEF Min
<1>. QED  BY <1>3 DEF r

LEMMA PhasesShrink ==
  ASSUME Len(phases) \in Nat
  PROVE  Shrinks(1 .. Len(phases), PhaseStop, PhaseRest)
<1>1. PhaseRest \in [PhasesLeft -> PhasesLeft]
  BY DEF PhaseRest, PhasesLeft
<1>2. \A left \in PhasesLeft : left \notin PhaseStop =>
        PhaseRest[left] \subseteq left /\ PhaseRest[left] # left
  BY FirstReady DEF PhaseRest, ReadyPhases
<1>3. IsFiniteSet(1 .. Len(phases))
  BY FS_Interval
<1>. QED  BY <1>1, <1>2, <1>3 DEF Shrinks, PhasesLeft

\* The phases sorted, m gives their places in the registration: each is there,
\* after all those it is declared to follow.
PhasesOrdered(m, sorted) ==
  /\ m \in [1 .. Len(phases) -> 1 .. Len(phases)]
  /\ Len(sorted) = Len(phases)
  /\ \A i \in 1 .. Len(phases) : sorted[i] = phases[m[i]].id
  /\ \A k \in 1 .. Len(phases) : \E i \in 1 .. Len(phases) : m[i] = k
  /\ \A i, j \in 1 .. Len(phases) : m[i] = m[j] => i = j
  /\ \A i \in 1 .. Len(phases) : \A q \in phases[m[i]].after :
       \E j \in 1 .. Len(phases) : j < i /\ phases[m[j]].id = q

LEMMA SortedUnfolds ==
  ASSUME BuildOK
  PROVE  /\ SortedPhases \in Seq(Phases)
         /\ \E L \in [0 .. Len(SortedPhases) -> PhasesLeft] :
              Descent(L, SortedPhases, 1 .. Len(phases), PhaseStop, PhaseItem, PhaseRest)
<1>. DEFINE all == 1 .. Len(phases)
            Rec(g) == g = [left \in SUBSET all |->
                             IF left \in PhaseStop THEN <<>>
                             ELSE <<PhaseItem[left]>> \o g[PhaseRest[left]]]
            g == CHOOSE g : Rec(g)
<1>1. Len(phases) \in Nat
  BY SystemFacts
<1>2. \A left \in SUBSET all :
        /\ left \in PhaseStop <=> ReadyPhases(left) = {}
        /\ PhaseItem[left] = phases[Min(ReadyPhases(left))].id
        /\ PhaseRest[left] = left \ {Min(ReadyPhases(left))}
  BY DEF PhaseStop, PhaseItem, PhaseRest, PhasesLeft
<1>3. SortedPhases = g[all]
  <2>. DEFINE Old(h) == h = [left \in SUBSET all |->
                               IF ReadyPhases(left) = {} THEN <<>>
                               ELSE <<phases[Min(ReadyPhases(left))].id>>
                                    \o h[left \ {Min(ReadyPhases(left))}]]
  <2>1. SortedPhases = LET h == CHOOSE h : Old(h) IN h[all]
    BY DEF SortedPhases, ReadyPhases
  <2>2. \A h : Old(h) <=> Rec(h)
    BY <1>2
  <2>. HIDE DEF Old, Rec
  <2>3. (CHOOSE h : Old(h)) = (CHOOSE h : Rec(h))
    BY <2>2
  <2>. QED  BY <2>1, <2>3
<1>4. Shrinks(all, PhaseStop, PhaseRest)
  BY <1>1, PhasesShrink
<1>5. \E h : Rec(h)
  <2>1. PICK S, stop, item, rest : /\ S = all /\ stop = PhaseStop
                                   /\ item = PhaseItem /\ rest = PhaseRest
    OBVIOUS
  <2>2. Shrinks(S, stop, rest)
    BY <2>1, <1>4
  <2>3. PICK h : UnrollingOf(h, S, stop, item, rest)
    BY <2>2, UnrollExists
  <2>4. Rec(h)
    BY <2>1, <2>3 DEF UnrollingOf
  <2>. QED  BY <2>4
<1>6. Rec(g)
  BY <1>5
<1>. HIDE DEF g
<1>7. Unrolls(g, all, PhaseStop, PhaseItem, PhaseRest)
  BY <1>6 DEF Unrolls
<1>8. PICK U : U = Phases \cup {PhaseItem[left] : left \in PhaseStop}
  OBVIOUS
<1>9. \A left \in SUBSET all : PhaseItem[left] \in U
  <2>1. ASSUME NEW left \in SUBSET all, left \notin PhaseStop
        PROVE  PhaseItem[left] \in Phases
    <3>1. left \in PhasesLeft
      BY DEF PhasesLeft
    <3>2. Min(ReadyPhases(left)) \in ReadyPhases(left)
      BY <1>1, <2>1, <3>1, FirstReady
    <3>3. Min(ReadyPhases(left)) \in all
      BY <3>2 DEF ReadyPhases
    <3>. QED  BY <1>2, <3>3, SystemFacts
  <2>. QED  BY <1>8, <2>1
<1>. HIDE DEF Rec
<1>10. PICK sorted : sorted = g[all]
  OBVIOUS
<1>11. /\ sorted \in Seq(U)
       /\ \E L \in [0 .. Len(sorted) -> SUBSET all] :
            Descent(L, sorted, all, PhaseStop, PhaseItem, PhaseRest)
  <2>1. all \in SUBSET all
    OBVIOUS
  <2>. HIDE DEF all
  <2>. QED  BY <1>4, <1>7, <1>9, <1>10, <2>1, Unrolled
<1>12. PICK L \in [0 .. Len(sorted) -> SUBSET all] :
         Descent(L, sorted, all, PhaseStop, PhaseItem, PhaseRest)
  BY <1>11
<1>13. sorted \in Seq(Phases)
  <2>1. Len(sorted) \in Nat /\ sorted \in [1 .. Len(sorted) -> U]
    BY <1>11, LenProperties
  <2>2. ASSUME NEW i \in 1 .. Len(sorted)
        PROVE  sorted[i] \in Phases
    <3>1. i - 1 \in 0 .. Len(sorted)
      BY <2>1
    <3>2. L[i - 1] \in SUBSET all /\ L[i - 1] \in PhasesLeft
      BY <3>1 DEF PhasesLeft
    <3>3. L[i - 1] \notin PhaseStop /\ sorted[i] = PhaseItem[L[i - 1]]
      BY <1>12 DEF Descent
    <3>4. Min(ReadyPhases(L[i - 1])) \in ReadyPhases(L[i - 1])
      BY <1>1, <3>2, <3>3, FirstReady
    <3>5. Min(ReadyPhases(L[i - 1])) \in all
      BY <3>2, <3>4 DEF ReadyPhases
    <3>. QED  BY <1>2, <3>2, <3>3, <3>5, SystemFacts
  <2>3. sorted \in [1 .. Len(sorted) -> Phases]
    BY <2>1, <2>2
  <2>. QED  BY <2>1, <2>3
<1>. QED  BY <1>3, <1>10, <1>12, <1>13 DEF PhasesLeft

LEMMA PhasesSorted ==
  ASSUME BuildOK, PhasesKnown, Len(SortedPhases) = Len(phases)
  PROVE  \E m : PhasesOrdered(m, SortedPhases)
<1>. DEFINE n == Len(phases)
<1>1. PICK sorted : sorted = SortedPhases
  OBVIOUS
<1>2. n \in Nat /\ Len(sorted) = n
  BY <1>1, SystemFacts
<1>3. PICK L \in [0 .. n -> PhasesLeft] :
        Descent(L, sorted, 1 .. n, PhaseStop, PhaseItem, PhaseRest)
  BY <1>1, <1>2, SortedUnfolds
<1>. DEFINE m == [i \in 1 .. n |-> Min(ReadyPhases(L[i - 1]))]
<1>4. ASSUME NEW i \in 1 .. n
      PROVE  /\ i - 1 \in 0 .. n /\ i \in 0 .. n
             /\ L[i - 1] \subseteq 1 .. n /\ L[i - 1] \notin PhaseStop
             /\ m[i] \in ReadyPhases(L[i - 1]) /\ m[i] \in L[i - 1]
             /\ L[i] = L[i - 1] \ {m[i]}
             /\ L[i] = PhaseRest[L[i - 1]]
             /\ sorted[i] = phases[m[i]].id
  <2>1. i - 1 \in 0 .. n /\ i \in 0 .. n
    BY <1>2
  <2>2. L[i - 1] \in PhasesLeft
    BY <2>1
  <2>3. /\ L[i - 1] \notin PhaseStop /\ sorted[i] = PhaseItem[L[i - 1]]
        /\ L[i] = PhaseRest[L[i - 1]]
    BY <1>2, <1>3 DEF Descent
  <2>4. m[i] = Min(ReadyPhases(L[i - 1]))
    OBVIOUS
  <2>. HIDE DEF m
  <2>5. m[i] \in ReadyPhases(L[i - 1])
    BY <1>2, <2>2, <2>3, <2>4, FirstReady
  <2>6. m[i] \in L[i - 1] /\ L[i - 1] \subseteq 1 .. n
    BY <2>2, <2>5 DEF ReadyPhases, PhasesLeft
  <2>7. sorted[i] = phases[m[i]].id /\ L[i] = L[i - 1] \ {m[i]}
    BY <2>2, <2>3, <2>4 DEF PhaseItem, PhaseRest
  <2>. QED  BY <2>1, <2>3, <2>5, <2>6, <2>7
<1>5. m \in [1 .. n -> 1 .. n]
  BY <1>4
<1>. HIDE DEF m
<1>6. L[0] = 1 .. n
  BY <1>3 DEF Descent
<1>7. ASSUME NEW i \in 0 .. n, NEW j \in 0 .. n, i =< j
      PROVE  L[j] \subseteq L[i]
  <2>1. Descends(L, n, 1 .. n, PhaseStop, PhaseRest)
    BY <1>4 DEF Descends, PhasesLeft
  <2>2. Shrinks(1 .. n, PhaseStop, PhaseRest)
    BY <1>2, PhasesShrink
  <2>. QED  BY <1>2, <1>7, <2>1, <2>2, DescentShrinks
<1>8. ASSUME NEW i \in 0 .. n
      PROVE  IsFiniteSet(L[i]) /\ Cardinality(L[i]) \in Nat
  <2>1. L[i] \subseteq 1 .. n
    BY DEF PhasesLeft
  <2>2. IsFiniteSet(1 .. n)
    BY FS_Interval
  <2>. QED  BY <2>1, <2>2, FS_Subset, FS_CardinalityType
<1>9. \A k \in 1 .. n : k \notin L[n]
  <2>. DEFINE S == {i \in 0 .. n : Cardinality(L[i]) = n - i}
  <2>1. 0 \in S
    <3>1. Cardinality(1 .. n) = n
      <4>. HIDE DEF n
      <4>1. Cardinality(1 .. n) = IF 1 > n THEN 0 ELSE n - 1 + 1
        BY <1>2, FS_Interval
      <4>. QED  BY <1>2, <4>1
    <3>. QED  BY <1>2, <1>6, <3>1
  <2>2. ASSUME NEW i \in 1 .. n, i - 1 \in S
        PROVE  i \in S
    <3>1. i - 1 \in 0 .. n /\ i \in 0 .. n /\ L[i] = L[i - 1] \ {m[i]} /\ m[i] \in L[i - 1]
      BY <1>4
    <3>2. Cardinality(L[i]) = Cardinality(L[i - 1]) - 1
      <4>1. PICK T : T = L[i - 1]
        OBVIOUS
      <4>2. IsFiniteSet(T)
        BY <1>8, <3>1, <4>1
      <4>3. Cardinality(T \ {m[i]}) = IF m[i] \in T THEN Cardinality(T) - 1 ELSE Cardinality(T)
        BY <4>2, FS_RemoveElement
      <4>. QED  BY <3>1, <4>1, <4>3
    <3>3. Cardinality(L[i - 1]) = n - (i - 1)
      BY <2>2
    <3>. QED  BY <1>2, <3>1, <3>2, <3>3
  <2>. HIDE DEF S
  <2>3. 0 .. n \subseteq S
    BY <1>2, <2>1, <2>2, Induction
  <2>4. n \in 0 .. n /\ n - n = 0
    BY <1>2
  <2>5. Cardinality(L[n]) = 0
    BY <2>3, <2>4 DEF S
  <2>6. L[n] = {}
    BY <1>8, <2>4, <2>5, FS_EmptySet
  <2>. QED  BY <2>6
<1>10. ASSUME NEW i \in 0 .. n, NEW k \in 1 .. n, k \notin L[i]
       PROVE  \E j \in 1 .. i : m[j] = k
  <2>1. PICK j \in 1 .. i : k \in L[j - 1] /\ k \notin L[j]
    BY <1>2, <1>6, <1>10, TakenAtAStep
  <2>2. j \in 1 .. n
    BY <1>2
  <2>. QED  BY <1>4, <2>1, <2>2
<1>11. ASSUME NEW k \in 1 .. n
       PROVE  \E i \in 1 .. n : m[i] = k
  <2>1. n \in 0 .. n /\ k \notin L[n]
    BY <1>2, <1>9
  <2>. QED  BY <1>10, <2>1
<1>12. ASSUME NEW i \in 1 .. n, NEW j \in 1 .. n, i < j
       PROVE  m[i] # m[j]
  <2>1. i \in 0 .. n /\ j - 1 \in 0 .. n /\ i =< j - 1
    BY <1>2, <1>12
  <2>2. L[j - 1] \subseteq L[i]
    BY <1>7, <2>1
  <2>. QED  BY <1>4, <2>2
<1>13. ASSUME NEW i \in 1 .. n, NEW j \in 1 .. n, m[i] = m[j]
       PROVE  i = j
  <2>1. ~(i < j)
    BY <1>12, <1>13
  <2>2. ~(j < i)
    BY <1>12, <1>13
  <2>. QED  BY <1>2, <2>1, <2>2
<1>14. ASSUME NEW i \in 1 .. n, NEW q \in phases[m[i]].after
       PROVE  \E j \in 1 .. n : j < i /\ phases[m[j]].id = q
  <2>1. m[i] \in 1 .. n
    BY <1>5
  <2>2. PICK k \in 1 .. n : phases[k].id = q
    BY <2>1 DEF PhasesKnown
  <2>3. k \notin L[i - 1] /\ i - 1 \in 0 .. n
    BY <1>4, <2>2 DEF ReadyPhases
  <2>4. PICK j \in 1 .. (i - 1) : m[j] = k
    BY <1>10, <2>3
  <2>5. j \in 1 .. n /\ j < i
    BY <1>2
  <2>. QED  BY <2>2, <2>4, <2>5
<1>15. PhasesOrdered(m, sorted)
  BY <1>2, <1>4, <1>5, <1>11, <1>13, <1>14 DEF PhasesOrdered
<1>. QED  BY <1>1, <1>15

-----------------------------------------------------------------------------
(* The waves of all phases *)

All == 1 .. Len(systems)

WavesOrdered(A) ==
  /\ A \in Seq(Seq(All))
  /\ \A k \in 1 .. Len(A) : IsWave(A[k], All)
  /\ \A s \in All : \E k \in 1 .. Len(A) : s \in ToSet(A[k])
  /\ \A k, l \in 1 .. Len(A) : \A s \in ToSet(A[k]) : s \in ToSet(A[l]) => k = l
  /\ \A k \in 1 .. Len(A) : \A s \in ToSet(A[k]) : \A t \in WaitsFor(s) :
       \E l \in 1 .. Len(A) : l < k /\ t \in ToSet(A[l])

Blocks == [i \in 1 .. Len(SortedPhases) |-> Waves(SortedPhases[i])]

LEMMA AllWaves ==
  ASSUME BuildOK, Compiles
  PROVE  WavesOrdered(FlattenSeq(Blocks))
<1>. DEFINE n == Len(phases)
            B == Blocks
            name(a) == SortedPhases[a]
<1>1. PICK m : PhasesOrdered(m, SortedPhases)
  BY PhasesSorted DEF Compiles
<1>2. /\ n \in Nat /\ Len(systems) \in Nat /\ Len(SortedPhases) = n
      /\ m \in [1 .. n -> 1 .. n]
      /\ \A a \in 1 .. n : name(a) = phases[m[a]].id
  BY <1>1, SystemFacts DEF PhasesOrdered
<1>3. ASSUME NEW a \in 1 .. n, NEW b \in 1 .. n, name(a) = name(b)
      PROVE  a = b
  <2>1. m[a] = m[b]
    <3>1. m[a] \in 1 .. n /\ m[b] \in 1 .. n
      BY <1>2
    <3>2. phases[m[a]].id = phases[m[b]].id
      BY <1>2, <1>3
    <3>3. \A x, y \in 1 .. n : phases[x].id = phases[y].id => x = y
      BY DEF BuildOK
    <3>. HIDE DEF n
    <3>. QED  BY <3>1, <3>2, <3>3
  <2>. QED  BY <1>1, <2>1 DEF PhasesOrdered
<1>4. Len(B) = n /\ \A a \in 1 .. n : B[a] = Waves(name(a))
  BY <1>2 DEF Blocks
<1>5. ASSUME NEW a \in 1 .. n
      PROVE  PhaseInWaves(name(a), B[a])
  <2>1. PhaseCompiles(name(a))
    BY <1>2 DEF Compiles
  <2>. QED  BY <1>2, <1>4, <2>1, PhaseWaves
<1>6. ASSUME NEW a \in 1 .. n
      PROVE  B[a] \in Seq(Seq(All)) /\ \A i \in 1 .. Len(B[a]) : IsWave(B[a][i], All)
  <2>1. Seq(Members(name(a))) \subseteq Seq(All)
    <3>1. Members(name(a)) \subseteq All
      BY <1>2, MembersFinite DEF All
    <3>. QED  BY <3>1
  <2>2. B[a] \in Seq(Seq(Members(name(a)))) /\ \A i \in 1 .. Len(B[a]) : IsWave(B[a][i], Members(name(a)))
    BY <1>5 DEF PhaseInWaves
  <2>. HIDE DEF name, B
  <2>3. B[a] \in Seq(Seq(All))
    BY <2>1, <2>2
  <2>4. \A i \in 1 .. Len(B[a]) : IsWave(B[a][i], All)
    BY <2>1, <2>2 DEF IsWave
  <2>. QED  BY <2>3, <2>4
<1>7. B \in Seq(Seq(Seq(All)))
  <2>1. B = [a \in 1 .. n |-> B[a]]
    BY <1>2 DEF Blocks
  <2>. HIDE DEF B
  <2>2. B \in [1 .. n -> Seq(Seq(All))]
    BY <1>6, <2>1
  <2>. QED  BY <1>2, <2>2
<1>. HIDE DEF B
<1>8. PICK A : A = FlattenSeq(B)
  OBVIOUS
<1>9. A \in Seq(Seq(All)) /\ Len(A) \in Nat /\ \E off : Flattened(A, off, B)
  <2>. DEFINE U == Seq(All)
  <2>1. B \in Seq(Seq(U))
    BY <1>7
  <2>. HIDE DEF U
  <2>2. A \in Seq(U) /\ \E off : Flattened(A, off, B)
    BY <1>8, <2>1, FlattenIs
  <2>. QED  BY <2>2, LenProperties DEF U
<1>10. PICK off : Flattened(A, off, B)
  BY <1>9
<1>11. ASSUME NEW k \in 1 .. Len(A)
       PROVE  \E a \in 1 .. n : \E i \in 1 .. Len(B[a]) : k = off[a - 1] + i /\ A[k] = B[a][i]
  <2>1. PICK a \in 1 .. n : \E i \in 1 .. Len(B[a]) : k = off[a - 1] + i
    BY <1>4, <1>10 DEF Flattened
  <2>2. PICK i \in 1 .. Len(B[a]) : k = off[a - 1] + i
    BY <2>1
  <2>. QED  BY <1>4, <1>10, <2>2 DEF Flattened
<1>12. ASSUME NEW a \in 1 .. n, NEW i \in 1 .. Len(B[a])
       PROVE  off[a - 1] + i \in 1 .. Len(A) /\ A[off[a - 1] + i] = B[a][i]
  BY <1>4, <1>10 DEF Flattened
<1>13. ASSUME NEW a \in 1 .. n, NEW i \in 1 .. Len(B[a]), NEW s \in ToSet(B[a][i])
       PROVE  s \in Members(name(a)) /\ systems[s].phase = name(a) /\ s \in All
  <2>1. B[a] \in Seq(Seq(Members(name(a))))
    BY <1>5 DEF PhaseInWaves
  <2>. HIDE DEF name
  <2>2. B[a][i] \in Seq(Members(name(a)))
    BY <2>1, ElementOfSeq
  <2>3. s \in Members(name(a))
    BY <2>2, ToSetIs
  <2>. QED  BY <2>3 DEF Members, All
<1>14. ASSUME NEW s \in All
       PROVE  \E a \in 1 .. n : s \in Members(name(a))
  <2>1. PICK k \in 1 .. n : phases[k].id = systems[s].phase
    BY DEF BuildOK, All
  <2>2. PICK a \in 1 .. n : m[a] = k
    BY <1>1 DEF PhasesOrdered
  <2>3. name(a) = systems[s].phase
    BY <1>2, <2>1, <2>2
  <2>. QED  BY <2>3 DEF Members, All
<1>15. ASSUME NEW a \in 1 .. n, NEW s \in Members(name(a))
       PROVE  \E i \in 1 .. Len(B[a]) : s \in ToSet(B[a][i])
  BY <1>5 DEF PhaseInWaves
<1>16. \A k \in 1 .. Len(A) : IsWave(A[k], All)
  BY <1>6, <1>11
<1>17. \A s \in All : \E k \in 1 .. Len(A) : s \in ToSet(A[k])
  <2>1. ASSUME NEW s \in All
        PROVE  \E k \in 1 .. Len(A) : s \in ToSet(A[k])
    <3>1. PICK a \in 1 .. n : s \in Members(name(a))
      BY <1>14
    <3>2. PICK i \in 1 .. Len(B[a]) : s \in ToSet(B[a][i])
      BY <1>15, <3>1
    <3>. QED  BY <1>12, <3>2
  <2>. QED  BY <2>1
<1>18. ASSUME NEW k \in 1 .. Len(A), NEW l \in 1 .. Len(A), NEW s \in ToSet(A[k]), s \in ToSet(A[l])
       PROVE  k = l
  <2>1a. PICK a \in 1 .. n :
          \E i \in 1 .. Len(B[a]) : k = off[a - 1] + i /\ A[k] = B[a][i]
    BY <1>11
  <2>1. PICK i \in 1 .. Len(B[a]) : k = off[a - 1] + i /\ A[k] = B[a][i]
    BY <2>1a
  <2>2a. PICK b \in 1 .. n :
          \E j \in 1 .. Len(B[b]) : l = off[b - 1] + j /\ A[l] = B[b][j]
    BY <1>11
  <2>2. PICK j \in 1 .. Len(B[b]) : l = off[b - 1] + j /\ A[l] = B[b][j]
    BY <2>2a
  <2>3. a = b
    <3>1. systems[s].phase = name(a) /\ systems[s].phase = name(b)
      BY <1>13, <1>18, <2>1, <2>2
    <3>. QED  BY <1>3, <3>1
  <2>4. i = j
    <3>1. s \in ToSet(B[a][i]) /\ s \in ToSet(B[a][j]) /\ j \in 1 .. Len(B[a])
      BY <1>18, <2>1, <2>2, <2>3
    <3>2. \A x, y \in 1 .. Len(B[a]) : \A r \in ToSet(B[a][x]) : r \in ToSet(B[a][y]) => x = y
      BY <1>5 DEF PhaseInWaves
    <3>. QED  BY <3>1, <3>2
  <2>. QED  BY <2>1, <2>2, <2>3, <2>4
<1>19. ASSUME NEW k \in 1 .. Len(A), NEW s \in ToSet(A[k]), NEW t \in WaitsFor(s)
       PROVE  \E l \in 1 .. Len(A) : l < k /\ t \in ToSet(A[l])
  <2>1a. PICK a \in 1 .. n :
          \E i \in 1 .. Len(B[a]) : k = off[a - 1] + i /\ A[k] = B[a][i]
    BY <1>11
  <2>1. PICK i \in 1 .. Len(B[a]) : k = off[a - 1] + i /\ A[k] = B[a][i]
    BY <2>1a
  <2>2. s \in Members(name(a)) /\ systems[s].phase = name(a)
    BY <1>13, <2>1
  <2>3. t \in All
    BY DEF WaitsFor, All
  <2>4. \A c \in 0 .. n : off[c] \in Nat
    BY <1>4, <1>10 DEF Flattened, Offsets
  <2>5. CASE \E x \in 1 .. n : phases[x].id = systems[s].phase /\ systems[t].phase \in phases[x].after
    <3>1. PICK x \in 1 .. n : phases[x].id = systems[s].phase /\ systems[t].phase \in phases[x].after
      BY <2>5
    <3>2. x = m[a]
      <4>1. m[a] \in 1 .. n /\ phases[m[a]].id = phases[x].id
        BY <1>2, <2>2, <3>1
      <4>2. \A y, z \in 1 .. n : phases[y].id = phases[z].id => y = z
        BY DEF BuildOK
      <4>. HIDE DEF n
      <4>. QED  BY <4>1, <4>2
    <3>3. PICK b \in 1 .. n : b < a /\ phases[m[b]].id = systems[t].phase
      <4>1. systems[t].phase \in phases[m[a]].after
        BY <3>1, <3>2
      <4>2. \A q \in phases[m[a]].after : \E j \in 1 .. n : j < a /\ phases[m[j]].id = q
        BY <1>1 DEF PhasesOrdered
      <4>. QED  BY <4>1, <4>2
    <3>4. t \in Members(name(b))
      BY <1>2, <2>3, <3>3 DEF Members, All
    <3>5. PICK j \in 1 .. Len(B[b]) : t \in ToSet(B[b][j])
      BY <1>15, <3>4
    <3>6. off[b - 1] + j \in 1 .. Len(A) /\ t \in ToSet(A[off[b - 1] + j])
      BY <1>12, <3>5
    <3>7. off[b - 1] + j < k
      <4>1. /\ b \in 0 .. n /\ a - 1 \in 0 .. n /\ b - 1 \in 0 .. n /\ b =< a - 1
        BY <1>2, <3>3
      <4>2. off[b] =< off[a - 1]
        <5>1. B \in Seq(Seq(Seq(All))) /\ Offsets(off, B)
          BY <1>7, <1>10 DEF Flattened
        <5>. QED  BY <1>4, <4>1, <5>1, OffsetsGrow
      <4>3. off[b] = off[b - 1] + Len(B[b])
        BY <1>4, <1>10 DEF Flattened, Offsets
      <4>4. Len(B[b]) \in Nat
        BY <1>6, LenProperties
      <4>5. off[b] \in Nat /\ off[a - 1] \in Nat /\ off[b - 1] \in Nat
        BY <2>4, <4>1
      <4>6. k = off[a - 1] + i /\ i \in Nat /\ i >= 1 /\ j \in Nat /\ j =< Len(B[b])
        BY <2>1, <3>5, <4>4
      <4>7. PICK u \in Nat : u = off[b - 1]
        BY <4>5
      <4>8. PICK v \in Nat : v = off[a - 1]
        BY <4>5
      <4>9. PICK l \in Nat : l = Len(B[b])
        BY <4>4
      <4>10. u + l =< v /\ j =< l /\ k = v + i /\ i >= 1 /\ i \in Nat /\ j \in Nat
        BY <4>2, <4>3, <4>6, <4>7, <4>8, <4>9
      <4>. HIDE DEF n, name
      <4>11. u + j < v + i
        BY <4>10
      <4>. QED  BY <4>7, <4>10, <4>11
    <3>. QED  BY <3>6, <3>7
  <2>6. CASE /\ systems[s].phase = systems[t].phase
             /\ Access(t).id \in Access(s).after \/ Access(s).id \in Access(t).before
    <3>1. t \in Members(name(a))
      BY <2>2, <2>3, <2>6 DEF Members, All
    <3>2. <<Access(t).id, Access(s).id>> \in Edges(name(a))
      BY <2>2, <2>6, <3>1 DEF Edges
    <3>3. PICK j \in 1 .. Len(B[a]) : j < i /\ t \in ToSet(B[a][j])
      BY <1>5, <2>1, <3>1, <3>2 DEF PhaseInWaves
    <3>4. off[a - 1] + j \in 1 .. Len(A) /\ t \in ToSet(A[off[a - 1] + j])
      BY <1>12, <3>3
    <3>5. off[a - 1] \in Nat
      BY <1>2, <2>4
    <3>6. off[a - 1] + j < k
      BY <2>1, <3>3, <3>5
    <3>. QED  BY <3>4, <3>6
  <2>. QED  BY <2>5, <2>6 DEF WaitsFor
<1>20. WavesOrdered(A)
  BY <1>9, <1>16, <1>17, <1>18, <1>19 DEF WavesOrdered
<1>. QED  BY <1>8, <1>20 DEF B

-----------------------------------------------------------------------------
(* The plan *)

PlanNode == [kind : {"sync", "wave"}, systems : Seq(All)]

\* The systems of the nodes before node n of plan P.
Earlier(P, n) == UNION {ToSet(P[k].systems) : k \in 1 .. n - 1}

\* The archetypes a wave since the last Sync before node n may change.
SinceSync(P, n) == {k \in 1 .. n - 1 : \A i \in k .. n - 1 : P[i].kind = "wave"}

DirtyAt(P, n) == UNION {DirtyAfter(P[k].systems) : k \in SinceSync(P, n)}

\* Node x may follow systems that have run and archetypes that are dirty.
MayFollow(x, done, unsynced) ==
  /\ x.kind = "sync" => x.systems = <<>>
  /\ IsWave(x.systems, All)
  /\ \A s \in ToSet(x.systems) :
       /\ s \notin done
       /\ WaitsFor(s) \subseteq done
       /\ \A m \in unsynced : ~Queries(s, m)

GoodPlan(P) ==
  /\ P \in Seq(PlanNode)
  /\ \A n \in 1 .. Len(P) : MayFollow(P[n], Earlier(P, n), DirtyAt(P, n))

LEMMA NextNode ==
  ASSUME NEW P, NEW n \in Nat \ {0}
  PROVE  /\ Earlier(P, n + 1) = Earlier(P, n) \cup ToSet(P[n].systems)
         /\ P[n].kind = "wave" => DirtyAt(P, n + 1) = DirtyAt(P, n) \cup DirtyAfter(P[n].systems)
         /\ P[n].kind # "wave" => DirtyAt(P, n + 1) = {}
<1>1. 1 .. (n + 1) - 1 = (1 .. n - 1) \cup {n}
  OBVIOUS
<1>2. Earlier(P, n + 1) = Earlier(P, n) \cup ToSet(P[n].systems)
  BY <1>1 DEF Earlier
<1>3. \A k \in 1 .. n : k .. (n + 1) - 1 = (k .. n - 1) \cup {n}
  OBVIOUS
<1>4. ASSUME P[n].kind = "wave"
      PROVE  DirtyAt(P, n + 1) = DirtyAt(P, n) \cup DirtyAfter(P[n].systems)
  <2>1. n .. n - 1 = {}
    OBVIOUS
  <2>2. SinceSync(P, n + 1) = SinceSync(P, n) \cup {n}
    BY <1>1, <1>3, <1>4, <2>1 DEF SinceSync
  <2>. QED  BY <2>2 DEF DirtyAt
<1>5. ASSUME P[n].kind # "wave"
      PROVE  DirtyAt(P, n + 1) = {}
  <2>1. \A k \in 1 .. n : n \in k .. (n + 1) - 1
    OBVIOUS
  <2>2. SinceSync(P, n + 1) = {}
    BY <1>1, <1>5, <2>1 DEF SinceSync
  <2>. QED  BY <2>2 DEF DirtyAt
<1>. QED  BY <1>2, <1>4, <1>5

LEMMA SamePrefix ==
  ASSUME NEW P, NEW Q, NEW n \in Nat, \A k \in 1 .. n - 1 : P[k] = Q[k]
  PROVE  Earlier(P, n) = Earlier(Q, n) /\ DirtyAt(P, n) = DirtyAt(Q, n)
<1>1. Earlier(P, n) = Earlier(Q, n)
  BY DEF Earlier
<1>2. \A k \in 1 .. n - 1 : \A i \in k .. n - 1 : i \in 1 .. n - 1
  OBVIOUS
<1>3. SinceSync(P, n) = SinceSync(Q, n)
  BY <1>2 DEF SinceSync
<1>4. \A k \in SinceSync(P, n) : P[k] = Q[k]
  BY DEF SinceSync
<1>5. DirtyAt(P, n) = DirtyAt(Q, n)
  BY <1>3, <1>4 DEF DirtyAt
<1>. QED  BY <1>1, <1>5

LEMMA FirstNode ==
  ASSUME NEW P
  PROVE  Earlier(P, 1) = {} /\ DirtyAt(P, 1) = {}
<1>1. 1 .. 1 - 1 = {}
  OBVIOUS
<1>2. SinceSync(P, 1) = {}
  BY <1>1 DEF SinceSync
<1>. QED  BY <1>1, <1>2 DEF Earlier, DirtyAt

\* P is a good plan after which the systems of done have run and the
\* archetypes of unsynced are dirty.
PlanWith(P, done, unsynced) ==
  /\ GoodPlan(P)
  /\ Earlier(P, Len(P) + 1) = done
  /\ DirtyAt(P, Len(P) + 1) = unsynced

LEMMA PlanGrows ==
  ASSUME NEW P, NEW done, NEW unsynced, PlanWith(P, done, unsynced),
         NEW x \in PlanNode, MayFollow(x, done, unsynced)
  PROVE  PlanWith(P \o <<x>>, done \cup ToSet(x.systems),
                  IF x.kind = "wave" THEN unsynced \cup DirtyAfter(x.systems) ELSE {})
<1>1. P \in Seq(PlanNode) /\ Len(P) \in Nat
  BY LenProperties DEF PlanWith, GoodPlan
<1>2. PICK Q : Q = P \o <<x>>
  OBVIOUS
<1>3. Q = Append(P, x)
  BY <1>1, <1>2, AppendIsConcat
<1>4. /\ Q \in Seq(PlanNode) /\ Len(Q) = Len(P) + 1
      /\ \A k \in 1 .. Len(P) : Q[k] = P[k]
      /\ Q[Len(P) + 1] = x
  BY <1>1, <1>3, AppendProperties
<1>5. PICK n : n = Len(P) + 1
  OBVIOUS
<1>6. n \in Nat /\ n \in Nat \ {0} /\ Len(Q) = n /\ Q[n] = x /\ n - 1 = Len(P)
  BY <1>1, <1>4, <1>5
<1>7. ASSUME NEW k \in 1 .. n
      PROVE  Earlier(Q, k) = Earlier(P, k) /\ DirtyAt(Q, k) = DirtyAt(P, k)
  <2>1. k \in Nat /\ \A j \in 1 .. k - 1 : Q[j] = P[j]
    BY <1>4, <1>6
  <2>. QED  BY <2>1, SamePrefix
<1>8. n \in 1 .. n
  BY <1>6
<1>9. Earlier(Q, n) = done /\ DirtyAt(Q, n) = unsynced
  BY <1>5, <1>7, <1>8 DEF PlanWith
<1>10. ASSUME NEW k \in 1 .. n
       PROVE  MayFollow(Q[k], Earlier(Q, k), DirtyAt(Q, k))
  <2>1. CASE k = n
    BY <1>6, <1>9, <2>1
  <2>2. CASE k # n
    <3>1. k \in 1 .. Len(P)
      BY <1>6, <2>2
    <3>2. MayFollow(P[k], Earlier(P, k), DirtyAt(P, k))
      BY <3>1 DEF PlanWith, GoodPlan
    <3>. QED  BY <1>4, <1>7, <3>1, <3>2
  <2>. QED  BY <2>1, <2>2
<1>11. GoodPlan(Q)
  BY <1>4, <1>6, <1>10 DEF GoodPlan
<1>12. /\ Earlier(Q, n + 1) = Earlier(Q, n) \cup ToSet(Q[n].systems)
       /\ Q[n].kind = "wave" => DirtyAt(Q, n + 1) = DirtyAt(Q, n) \cup DirtyAfter(Q[n].systems)
       /\ Q[n].kind # "wave" => DirtyAt(Q, n + 1) = {}
  BY <1>6, NextNode
<1>13. /\ Earlier(Q, Len(Q) + 1) = done \cup ToSet(x.systems)
       /\ DirtyAt(Q, Len(Q) + 1) = IF x.kind = "wave" THEN unsynced \cup DirtyAfter(x.systems) ELSE {}
  BY <1>6, <1>9, <1>12
<1>. QED  BY <1>2, <1>11, <1>13 DEF PlanWith

LEMMA NoNodes == PlanWith(<<>>, {}, {})
<1>1. <<>> \in Seq(PlanNode) /\ Len(<<>>) = 0 /\ 1 .. 0 = {} /\ 0 + 1 = 1
  OBVIOUS
<1>2. GoodPlan(<<>>)
  BY <1>1 DEF GoodPlan
<1>. QED  BY <1>1, <1>2, FirstNode DEF PlanWith

LEMMA SyncFollows ==
  ASSUME NEW done, NEW unsynced
  PROVE  SyncNode \in PlanNode /\ MayFollow(SyncNode, done, unsynced) /\ ToSet(SyncNode.systems) = {}
<1>1. /\ SyncNode.kind = "sync" /\ SyncNode.systems = <<>> /\ <<>> \in Seq(All)
      /\ SyncNode \in PlanNode
  BY DEF SyncNode, PlanNode
<1>2. ToSet(<<>>) = {}
  BY DEF ToSet
<1>3. IsWave(<<>>, All)
  BY <1>1 DEF IsWave
<1>. QED  BY <1>1, <1>2, <1>3 DEF MayFollow

LEMMA DirtyAfterMasks ==
  ASSUME BuildOK, NEW w \in Seq(All)
  PROVE  DirtyAfter(w) \subseteq Masks
<1>1. \A i \in 1 .. Len(w) : w[i] \in 1 .. Len(systems)
  BY ElementOfSeq DEF All
<1>2. \A i \in 1 .. Len(w) : Access(w[i]).structural \subseteq Masks
  BY <1>1, SystemFacts
<1>. QED  BY <1>2 DEF DirtyAfter

\* What the loop over the waves keeps: the nodes so far and what is dirty.
Touched(acc, wave) == \E i \in 1 .. Len(wave), m \in acc.dirty : Queries(wave[i], m)

Added(acc, wave) ==
  [nodes |-> acc.nodes \o (IF Touched(acc, wave) THEN <<SyncNode>> ELSE <<>>)
                       \o <<[kind |-> "wave", systems |-> wave]>>,
   dirty |-> (IF Touched(acc, wave) THEN {} ELSE acc.dirty) \cup DirtyAfter(wave)]

NoneAdded == [nodes |-> <<>>, dirty |-> {}]

\* h[i] is what the loop keeps after i waves of A.
Adding(h, A) ==
  /\ h[0] = NoneAdded
  /\ \A i \in 1 .. Len(A) : h[i] = Added(h[i - 1], A[i])

LEMMA NodesUnfold ==
  ASSUME BuildOK, FlattenSeq(Blocks) \in Seq(Seq(All))
  PROVE  \E h : /\ Adding(h, FlattenSeq(Blocks))
                /\ Nodes = h[Len(FlattenSeq(Blocks))].nodes
                           \o (IF h[Len(FlattenSeq(Blocks))].dirty # {} THEN <<SyncNode>> ELSE <<>>)
<1>. DEFINE A == FlattenSeq(Blocks)
            n == Len(A)
            U == Seq(All)
            X == [nodes : Seq(PlanNode), dirty : SUBSET Masks]
            F == [p \in X \X U |-> Added(p[1], p[2])]
            Rec(g) == g = [s \in SUBSET (DOMAIN A) |->
                             IF s = {} THEN NoneAdded ELSE Added(g[s \ {Max(s)}], A[Max(s)])]
            last == LET g == CHOOSE g : Rec(g) IN g[DOMAIN A]
<1>1. n \in Nat /\ DOMAIN A = 1 .. n /\ \A i \in 1 .. n : A[i] \in U
  BY LenProperties, ElementOfSeq
<1>2. Nodes = last.nodes \o (IF last.dirty # {} THEN <<SyncNode>> ELSE <<>>)
  BY DEF Nodes, FoldLeft, MapThenFoldSet, Added, Touched, NoneAdded, Blocks
<1>. HIDE DEF A
<1>3. \A a \in X, w \in U : Added(a, w) \in X
  <2>. SUFFICES ASSUME NEW a \in X, NEW w \in U
                PROVE  Added(a, w) \in X
    OBVIOUS
  <2>1. a.nodes \in Seq(PlanNode) /\ a.dirty \subseteq Masks
    OBVIOUS
  <2>2. SyncNode \in PlanNode /\ [kind |-> "wave", systems |-> w] \in PlanNode
    BY SyncFollows DEF PlanNode
  <2>3. DirtyAfter(w) \subseteq Masks
    BY DirtyAfterMasks
  <2>4. PICK sync : sync = IF Touched(a, w) THEN <<SyncNode>> ELSE <<>>
    OBVIOUS
  <2>5. sync \in Seq(PlanNode) /\ <<[kind |-> "wave", systems |-> w]>> \in Seq(PlanNode)
    BY <2>2, <2>4
  <2>6. a.nodes \o sync \in Seq(PlanNode)
    BY <2>1, <2>5, ConcatProperties
  <2>7. a.nodes \o sync \o <<[kind |-> "wave", systems |-> w]>> \in Seq(PlanNode)
    BY <2>5, <2>6, ConcatProperties
  <2>8. (IF Touched(a, w) THEN {} ELSE a.dirty) \cup DirtyAfter(w) \in SUBSET Masks
    BY <2>1, <2>3
  <2>. QED  BY <2>4, <2>7, <2>8 DEF Added
<1>4. NoneAdded \in X
  BY DEF NoneAdded
<1>5. F \in [X \X U -> X] /\ \A a \in X, w \in U : F[<<a, w>>] = Added(a, w)
  <2>. HIDE DEF X, U
  <2>1. \A p \in X \X U : p[1] \in X /\ p[2] \in U
    OBVIOUS
  <2>2. \A a \in X, w \in U : <<a, w>> \in X \X U
    OBVIOUS
  <2>. QED  BY <1>3, <2>1, <2>2
<1>. HIDE DEF F, X
<1>6. PICK f \in [SUBSET (1 .. Len(A)) -> X] : FoldOf(f, F, NoneAdded, A)
  <2>. HIDE DEF n, Rec, last, U
  <2>1. A \in Seq(U)
    BY DEF U, A
  <2>. QED  BY <1>4, <1>5, <2>1, FoldExists
<1>7. \A s \in SUBSET (1 .. n) : s # {} => Max(s) \in s
  <2>1. \A s \in SUBSET (1 .. n) : s \subseteq 0 .. n
    BY <1>1
  <2>. QED  BY <1>1, <2>1, Greatest
<1>8. Rec(f)
  <2>1. ASSUME NEW s \in SUBSET (1 .. n), s # {}
        PROVE  f[s] = Added(f[s \ {Max(s)}], A[Max(s)])
    <3>1. Max(s) \in 1 .. n /\ s \ {Max(s)} \in SUBSET (1 .. n)
      BY <1>7, <2>1
    <3>2. f[s \ {Max(s)}] \in X /\ A[Max(s)] \in U
      BY <1>1, <1>6, <3>1
    <3>. HIDE DEF U
    <3>3. f[s] = F[<<f[s \ {Max(s)}], A[Max(s)]>>]
      BY <1>6, <2>1 DEF FoldOf
    <3>. QED  BY <1>5, <3>2, <3>3
  <2>2. f[{}] = NoneAdded
    BY <1>6 DEF FoldOf
  <2>3. f = [s \in SUBSET (1 .. n) |-> f[s]]
    BY <1>6
  <2>. QED  BY <1>1, <2>1, <2>2, <2>3
<1>. DEFINE g == CHOOSE g : Rec(g)
<1>9. Rec(g)
  BY <1>8
<1>10. last = g[1 .. n]
  BY <1>1
<1>. HIDE DEF g, last
<1>11. \A s \in SUBSET (1 .. n) :
         g[s] = IF s = {} THEN NoneAdded ELSE Added(g[s \ {Max(s)}], A[Max(s)])
  BY <1>1, <1>9
<1>. HIDE DEF Rec
<1>. DEFINE h == [i \in 0 .. n |-> g[1 .. i]]
<1>12. h[0] = NoneAdded
  <2>1. 1 .. 0 = {} /\ 1 .. 0 \in SUBSET (1 .. n) /\ 0 \in 0 .. n
    BY <1>1
  <2>. QED  BY <1>11, <2>1
<1>13. ASSUME NEW i \in 1 .. n
       PROVE  h[i] = Added(h[i - 1], A[i])
  <2>1. i \in 1 .. i /\ 1 .. i \in SUBSET (1 .. n) /\ 1 .. i \subseteq 0 .. n
    BY <1>1
  <2>2. Max(1 .. i) \in 1 .. i /\ i =< Max(1 .. i)
    BY <1>1, <2>1, Greatest
  <2>3. Max(1 .. i) = i /\ (1 .. i) \ {i} = 1 .. (i - 1)
    BY <1>1, <2>2
  <2>4. i \in 0 .. n /\ i - 1 \in 0 .. n
    BY <1>1
  <2>. QED  BY <1>11, <2>1, <2>3, <2>4
<1>14. last = h[n]
  BY <1>1, <1>10
<1>. HIDE DEF h
<1>15. Adding(h, A)
  BY <1>12, <1>13 DEF Adding
<1>. QED  BY <1>2, <1>14, <1>15 DEF A

LEMMA WaveAdded ==
  ASSUME NEW a, NEW done, NEW w, PlanWith(a.nodes, done, a.dirty), IsWave(w, All),
         \A s \in ToSet(w) : s \notin done /\ WaitsFor(s) \subseteq done
  PROVE  PlanWith(Added(a, w).nodes, done \cup ToSet(w), Added(a, w).dirty)
<1>. DEFINE x == [kind |-> "wave", systems |-> w]
<1>1. PICK P : P = a.nodes
  OBVIOUS
<1>2. PICK D : D = a.dirty
  OBVIOUS
<1>3. P \in Seq(PlanNode) /\ w \in Seq(All)
  BY <1>1 DEF PlanWith, GoodPlan, IsWave
<1>4. \A s \in ToSet(w) : \E i \in 1 .. Len(w) : s = w[i]
  BY <1>3, ToSetIs
<1>5. x \in PlanNode /\ x.kind = "wave" /\ x.systems = w
  BY <1>3 DEF PlanNode
<1>. HIDE DEF x
<1>6. CASE Touched(a, w)
  <2>1. PlanWith(P \o <<SyncNode>>, done, {})
    <3>1. SyncNode.kind # "wave" /\ done \cup ToSet(SyncNode.systems) = done
      BY SyncFollows DEF SyncNode
    <3>2. SyncNode \in PlanNode /\ MayFollow(SyncNode, done, D) /\ PlanWith(P, done, D)
      BY <1>1, <1>2, SyncFollows
    <3>3. PlanWith(P \o <<SyncNode>>, done \cup ToSet(SyncNode.systems),
                   IF SyncNode.kind = "wave" THEN D \cup DirtyAfter(SyncNode.systems) ELSE {})
      BY <3>2, PlanGrows
    <3>. QED  BY <3>1, <3>3
  <2>2. MayFollow(x, done, {})
    BY <1>5 DEF MayFollow
  <2>3. PICK Q : Q = P \o <<SyncNode>>
    OBVIOUS
  <2>4. PlanWith(Q \o <<x>>, done \cup ToSet(x.systems),
                 IF x.kind = "wave" THEN {} \cup DirtyAfter(x.systems) ELSE {})
    BY <1>5, <2>1, <2>2, <2>3, PlanGrows
  <2>5. Added(a, w).nodes = Q \o <<x>> /\ Added(a, w).dirty = {} \cup DirtyAfter(w)
    BY <1>1, <1>6, <2>3 DEF Added, x
  <2>. QED  BY <1>5, <2>4, <2>5
<1>7. CASE ~Touched(a, w)
  <2>1. \A s \in ToSet(w) : \A m \in D : ~Queries(s, m)
    BY <1>2, <1>4, <1>7 DEF Touched
  <2>2. MayFollow(x, done, D)
    BY <1>5, <2>1 DEF MayFollow
  <2>3. PlanWith(P \o <<x>>, done \cup ToSet(x.systems),
                 IF x.kind = "wave" THEN D \cup DirtyAfter(x.systems) ELSE {})
    BY <1>1, <1>2, <1>5, <2>2, PlanGrows
  <2>4. P \o <<>> = P
    BY <1>3, ConcatEmptySeq
  <2>5. Added(a, w).nodes = P \o <<x>> /\ Added(a, w).dirty = D \cup DirtyAfter(w)
    BY <1>1, <1>2, <1>7, <2>4 DEF Added, x
  <2>. QED  BY <1>5, <2>3, <2>5
<1>. QED  BY <1>6, <1>7

\* The plan the compiler makes: every system is in one wave, after all it
\* waits for, with no other of its wave in conflict; a wave queries nothing that
\* is dirty when it comes, and nothing is dirty at the end.
LEMMA PlanOfNodes ==
  ASSUME BuildOK, Compiles
  PROVE  PlanWith(Nodes, All, {})
<1>1. PICK A : A = FlattenSeq(Blocks)
  OBVIOUS
<1>2. WavesOrdered(A)
  BY <1>1, AllWaves
<1>. DEFINE n == Len(A)
            Sofar(i) == UNION {ToSet(A[k]) : k \in 1 .. i}
<1>3. A \in Seq(Seq(All)) /\ n \in Nat /\ \A i \in 1 .. n : A[i] \in Seq(All)
  BY <1>2, LenProperties, ElementOfSeq DEF WavesOrdered
<1>4. PICK h : /\ Adding(h, A)
               /\ Nodes = h[n].nodes \o (IF h[n].dirty # {} THEN <<SyncNode>> ELSE <<>>)
  BY <1>1, <1>3, NodesUnfold
<1>. DEFINE S == {i \in 0 .. n : PlanWith(h[i].nodes, Sofar(i), h[i].dirty)}
<1>5. 0 \in S
  <2>1. Sofar(0) = {} /\ 0 \in 0 .. n
    BY <1>3
  <2>2. h[0].nodes = <<>> /\ h[0].dirty = {}
    BY <1>4 DEF Adding, NoneAdded
  <2>. HIDE DEF Sofar
  <2>. QED  BY <2>1, <2>2, NoNodes
<1>6. ASSUME NEW i \in 1 .. n, i - 1 \in S
      PROVE  i \in S
  <2>1. i \in 0 .. n /\ 1 .. i = (1 .. i - 1) \cup {i}
    BY <1>3
  <2>2. Sofar(i) = Sofar(i - 1) \cup ToSet(A[i])
    BY <2>1
  <2>3. PICK w : w = A[i]
    OBVIOUS
  <2>4. PICK a : a = h[i - 1]
    OBVIOUS
  <2>5. PlanWith(a.nodes, Sofar(i - 1), a.dirty)
    BY <1>6, <2>4
  <2>6. ASSUME NEW s \in ToSet(w)
        PROVE  s \notin Sofar(i - 1) /\ WaitsFor(s) \subseteq Sofar(i - 1)
    <3>1. \A k \in 1 .. i - 1 : k \in 1 .. n /\ k # i
      BY <1>3
    <3>2. \A k \in 1 .. i - 1 : s \notin ToSet(A[k])
      BY <1>2, <2>3, <3>1 DEF WavesOrdered
    <3>3. \A t \in WaitsFor(s) : \E l \in 1 .. n : l < i /\ t \in ToSet(A[l])
      BY <1>2, <2>3 DEF WavesOrdered
    <3>4. \A l \in 1 .. n : l < i => l \in 1 .. i - 1
      BY <1>3
    <3>. QED  BY <3>2, <3>3, <3>4
  <2>7. IsWave(w, All)
    BY <1>2, <2>3 DEF WavesOrdered
  <2>. HIDE DEF Sofar
  <2>8. PICK done : done = Sofar(i - 1)
    OBVIOUS
  <2>9. PlanWith(Added(a, w).nodes, done \cup ToSet(w), Added(a, w).dirty)
    BY <2>5, <2>6, <2>7, <2>8, WaveAdded
  <2>10. h[i] = Added(a, w)
    BY <1>4, <2>3, <2>4 DEF Adding
  <2>. QED  BY <2>1, <2>2, <2>3, <2>8, <2>9, <2>10
<1>. HIDE DEF S
<1>7. 0 .. n \subseteq S
  BY <1>3, <1>5, <1>6, Induction
<1>8. n \in S
  BY <1>3, <1>7
<1>9. PlanWith(h[n].nodes, Sofar(n), h[n].dirty)
  BY <1>8 DEF S
<1>10. Sofar(n) = All
  <2>1. \A k \in 1 .. n : ToSet(A[k]) \subseteq All
    BY <1>3, ToSetIs
  <2>2. \A s \in All : \E k \in 1 .. n : s \in ToSet(A[k])
    BY <1>2 DEF WavesOrdered
  <2>. QED  BY <2>1, <2>2
<1>. HIDE DEF Sofar
<1>11. PICK P : P = h[n].nodes
  OBVIOUS
<1>12. PICK D : D = h[n].dirty
  OBVIOUS
<1>13. PlanWith(P, All, D)
  BY <1>9, <1>10, <1>11, <1>12
<1>14. CASE D # {}
  <2>1. Nodes = P \o <<SyncNode>>
    BY <1>4, <1>11, <1>12, <1>14
  <2>2. SyncNode \in PlanNode /\ MayFollow(SyncNode, All, D)
    BY SyncFollows
  <2>3. PlanWith(P \o <<SyncNode>>, All \cup ToSet(SyncNode.systems),
                 IF SyncNode.kind = "wave" THEN D \cup DirtyAfter(SyncNode.systems) ELSE {})
    BY <1>13, <2>2, PlanGrows
  <2>4. SyncNode.kind # "wave" /\ All \cup ToSet(SyncNode.systems) = All
    BY SyncFollows DEF SyncNode
  <2>. QED  BY <2>1, <2>3, <2>4
<1>15. CASE D = {}
  <2>1. P \in Seq(PlanNode)
    BY <1>13 DEF PlanWith, GoodPlan
  <2>2. P \o <<>> = P
    BY <2>1, ConcatEmptySeq
  <2>3. Nodes = P
    BY <1>4, <1>11, <1>12, <1>15, <2>2
  <2>. QED  BY <1>13, <1>15, <2>3
<1>. QED  BY <1>14, <1>15

-----------------------------------------------------------------------------
(* What does not depend on the step: the rules over the registered systems *)

LEMMA SameRules ==
  ASSUME UNCHANGED <<phases, systems>>
  PROVE  /\ All' = All
         /\ \A s : Access(s)' = Access(s) /\ WaitsFor(s)' = WaitsFor(s)
         /\ \A s, m : Queries(s, m)' <=> Queries(s, m)
         /\ \A s, t : SystemsConflict(s, t)' <=> SystemsConflict(s, t)
         /\ \A w : DirtyAfter(w)' = DirtyAfter(w)
<1>1. All' = All
  BY DEF All
<1>2. \A s : Access(s)' = Access(s)
  BY DEF Access
<1>3. \A s, m : Queries(s, m)' <=> Queries(s, m)
  BY <1>2 DEF Queries
<1>4. \A s : WaitsFor(s)' = WaitsFor(s)
  BY <1>2 DEF WaitsFor
<1>5. \A s, t : WritesMeet(s, t)' <=> WritesMeet(s, t)
  BY <1>2 DEF WritesMeet
<1>6. \A s, t : StructuralMeet(s, t)' <=> StructuralMeet(s, t)
  BY <1>2, <1>3 DEF StructuralMeet
<1>7. \A s, t : SystemsConflict(s, t)' <=> SystemsConflict(s, t)
  BY <1>5, <1>6 DEF SystemsConflict
<1>8. \A w : DirtyAfter(w)' = DirtyAfter(w)
  BY <1>2 DEF DirtyAfter
<1>. QED  BY <1>1, <1>2, <1>3, <1>4, <1>7, <1>8

LEMMA SamePlan ==
  ASSUME UNCHANGED <<phases, systems>>
  PROVE  /\ \A P, n : Earlier(P, n)' = Earlier(P, n) /\ DirtyAt(P, n)' = DirtyAt(P, n)
         /\ \A P, done, unsynced : PlanWith(P, done, unsynced)' <=> PlanWith(P, done, unsynced)
<1>1. /\ All' = All
      /\ \A s : WaitsFor(s)' = WaitsFor(s)
      /\ \A s, m : Queries(s, m)' <=> Queries(s, m)
      /\ \A s, t : SystemsConflict(s, t)' <=> SystemsConflict(s, t)
      /\ \A w : DirtyAfter(w)' = DirtyAfter(w)
  BY SameRules
<1>2. \A P, n : Earlier(P, n)' = Earlier(P, n)
  BY DEF Earlier
<1>3. \A P, n : SinceSync(P, n)' = SinceSync(P, n)
  BY DEF SinceSync
<1>4. \A P, n : DirtyAt(P, n)' = DirtyAt(P, n)
  BY <1>1, <1>3 DEF DirtyAt
<1>5. \A w, of : IsWave(w, of)' <=> IsWave(w, of)
  BY <1>1 DEF IsWave
<1>6. PlanNode' = PlanNode
  BY <1>1 DEF PlanNode
<1>7. \A x, done, unsynced : MayFollow(x, done, unsynced)' <=> MayFollow(x, done, unsynced)
  <2>. SUFFICES ASSUME NEW x, NEW done, NEW unsynced
                PROVE  MayFollow(x, done, unsynced)' <=> MayFollow(x, done, unsynced)
    OBVIOUS
  <2>1. IsWave(x.systems, All)' <=> IsWave(x.systems, All)
    <3>1. \A A, w : A = All => (IsWave(w, A)' <=> IsWave(w, All))
      BY <1>5
    <3>. QED  BY <1>1, <3>1 DEF IsWave
  <2>. QED  BY <1>1, <2>1 DEF MayFollow
<1>8. \A P : GoodPlan(P)' <=> GoodPlan(P)
  BY <1>2, <1>4, <1>6, <1>7 DEF GoodPlan
<1>9. \A P, done, unsynced : PlanWith(P, done, unsynced)' <=> PlanWith(P, done, unsynced)
  BY <1>2, <1>4, <1>8 DEF PlanWith
<1>. QED  BY <1>2, <1>4, <1>9

-----------------------------------------------------------------------------
(* The executor *)

\* A plan was made, and the executor is at one of its nodes.
Planned == PlanWith(plan, All, {})

\* What is staged is of an archetype that is dirty.
Staged == \A k \in 1 .. Len(queue) : queue[k].bundle.mask \in dirty

Settled == queue = <<>> /\ dirty = {}

Nowhere == at \in {"building", "refused"} /\ plan = <<>> /\ node = 0 /\ Settled

Waiting == at = "ready" /\ Planned /\ node = 0 /\ Settled

AtNode ==
  /\ at = "node" /\ Planned /\ node \in 1 .. Len(plan) + 1
  /\ ToSet(ran) = Earlier(plan, node)
  /\ Staged /\ dirty \subseteq DirtyAt(plan, node)

InSync ==
  /\ at = "sync" /\ Planned /\ node \in 1 .. Len(plan)
  /\ plan[node].kind = "sync"
  /\ ToSet(ran) = Earlier(plan, node)
  /\ syncing = 0 /\ syncError = "none" => Settled

InWave ==
  /\ at = "wave" /\ Planned /\ node \in 1 .. Len(plan)
  /\ plan[node].kind = "wave"
  /\ active \subseteq ToSet(plan[node].systems)
  /\ ToSet(ran) = Earlier(plan, node) \cup (ToSet(plan[node].systems) \ active)
  /\ buffers \in [ToSet(plan[node].systems) -> Seq(Bundle \cup {EmptyBundle})]
  /\ Staged /\ dirty \subseteq DirtyAt(plan, node)

Stopped == at \in {"system", "invalid"} /\ node \in 0 .. Len(plan) + 1

FrameInv ==
  /\ BuildOK
  /\ WorldInv /\ syncError # "commit"
  /\ active \cup failed \subseteq All
  /\ active # {} => at = "wave"
  /\ syncing # 0 => at = "sync"
  /\ ran \in Seq(All) /\ IsInjective(ran)
  /\ Nowhere \/ Waiting \/ AtNode \/ InSync \/ InWave \/ Stopped

LEMMA SameFrame ==
  ASSUME UNCHANGED <<phases, systems, plan>>
  PROVE  /\ BuildOK' <=> BuildOK
         /\ Planned' <=> Planned
         /\ All' = All
         /\ Earlier(plan, node)' = Earlier(plan, node')
         /\ DirtyAt(plan, node)' = DirtyAt(plan, node')
<1>1. BuildOK' <=> BuildOK
  BY DEF BuildOK
<1>2. All' = All
  BY DEF All
<1>3. Earlier(plan, node)' = Earlier(plan, node')
  BY DEF Earlier
<1>4. DirtyAt(plan, node)' = DirtyAt(plan, node')
  BY DEF DirtyAt, SinceSync, DirtyAfter, Access
<1>5. Planned' <=> Planned
  <2>1. PICK P : P = plan
    OBVIOUS
  <2>2. PICK A : A = All
    OBVIOUS
  <2>3. PlanWith(P, A, {})' <=> PlanWith(P, A, {})
    BY SamePlan
  <2>4. Planned <=> PlanWith(P, A, {})
    BY <2>1, <2>2 DEF Planned
  <2>5. Planned' <=> PlanWith(P, A, {})'
    BY <1>2, <2>1, <2>2 DEF Planned
  <2>. QED  BY <2>3, <2>4, <2>5
<1>. QED  BY <1>1, <1>2, <1>3, <1>4, <1>5

LEMMA QueueFacts ==
  ASSUME WorldInv
  PROVE  /\ queue \in Seq(Envelop) /\ Len(queue) \in Nat
         /\ dirty \subseteq Masks
         /\ syncing \in 0 .. Len(queue) + 1
         /\ syncError \in {"none", "invalid", "commit"}
BY DEF WorldInv, WorldTypeOK

LEMMA WorldRests ==
  ASSUME WorldInv, UNCHANGED worldVars
  PROVE  WorldInv'
BY WorldInvInductive

LEMMA NothingStaged == Settled => Staged
<1>. SUFFICES ASSUME Settled PROVE Staged
  OBVIOUS
<1>1. Len(queue) = 0
  BY DEF Settled
<1>. QED  BY <1>1 DEF Staged

LEMMA PlanFacts ==
  ASSUME Planned
  PROVE  /\ plan \in Seq(PlanNode) /\ Len(plan) \in Nat
         /\ \A n \in 1 .. Len(plan) :
              /\ plan[n].kind \in {"sync", "wave"} /\ plan[n].systems \in Seq(All)
              /\ MayFollow(plan[n], Earlier(plan, n), DirtyAt(plan, n))
         /\ Earlier(plan, Len(plan) + 1) = All
         /\ DirtyAt(plan, Len(plan) + 1) = {}
<1>1. /\ plan \in Seq(PlanNode) /\ Len(plan) \in Nat
      /\ \A n \in 1 .. Len(plan) : MayFollow(plan[n], Earlier(plan, n), DirtyAt(plan, n))
      /\ Earlier(plan, Len(plan) + 1) = All
      /\ DirtyAt(plan, Len(plan) + 1) = {}
  BY LenProperties DEF Planned, PlanWith, GoodPlan
<1>2. \A n \in 1 .. Len(plan) : plan[n] \in PlanNode
  BY <1>1, ElementOfSeq
<1>. QED  BY <1>1, <1>2 DEF PlanNode

LEMMA FrameInvInit == Init => FrameInv
<1>. SUFFICES ASSUME Init PROVE FrameInv
  OBVIOUS
<1>1. WorldInv
  BY WorldInvInit DEF Init
<1>2. /\ phases = <<>> /\ systems = <<>> /\ plan = <<>> /\ at = "building" /\ node = 0
      /\ active = {} /\ failed = {} /\ ran = <<>>
      /\ queue = <<>> /\ dirty = {} /\ syncing = 0 /\ syncError = "none"
  BY DEF Init, WorldInit
<1>3. BuildOK
  BY <1>2 DEF BuildOK
<1>4. ran \in Seq(All) /\ IsInjective(ran)
  BY <1>2 DEF IsInjective
<1>5. Nowhere
  BY <1>2 DEF Nowhere, Settled
<1>. QED  BY <1>1, <1>2, <1>3, <1>4, <1>5 DEF FrameInv

LEMMA AddPhaseKeeps ==
  ASSUME FrameInv, NEW p \in Phases, NEW after \in Afters, AddPhase(p, after)
  PROVE  FrameInv'
<1>1. /\ at = "building" /\ Nowhere /\ active = {} /\ syncing = 0
  BY DEF AddPhase, FrameInv, Nowhere, Waiting, AtNode, InSync, InWave, Stopped
<1>. DEFINE x == [id |-> p, after |-> after]
<1>2. /\ phases \in Seq([id : Phases, after : Afters]) /\ Len(phases) \in Nat
      /\ x \in [id : Phases, after : Afters]
  BY SystemFacts DEF FrameInv, BuildOK
<1>3. phases' = Append(phases, x) /\ UNCHANGED <<systems, plan, at, node, active, failed, ran>>
      /\ UNCHANGED worldVars
  BY DEF AddPhase
<1>4. \A i \in 1 .. Len(phases) : phases[i].id # p
  BY DEF AddPhase
<1>5. /\ phases' \in Seq([id : Phases, after : Afters]) /\ Len(phases') = Len(phases) + 1
      /\ \A i \in 1 .. Len(phases) : phases'[i] = phases[i]
      /\ phases'[Len(phases) + 1].id = p
  BY <1>2, <1>3, AppendProperties
<1>6. \A i \in 1 .. Len(phases') : i \in 1 .. Len(phases) \/ i = Len(phases) + 1
  BY <1>2, <1>5
<1>7. BuildOK'
  <2>1. ASSUME NEW i \in 1 .. Len(phases'), NEW j \in 1 .. Len(phases'),
               phases'[i].id = phases'[j].id
        PROVE  i = j
    BY <1>4, <1>5, <1>6, <2>1 DEF FrameInv, BuildOK
  <2>2. \A s \in 1 .. Len(systems) : \E i \in 1 .. Len(phases) : phases[i].id = systems[s].phase
    BY DEF FrameInv, BuildOK
  <2>3. \A s \in 1 .. Len(systems) : \E i \in 1 .. Len(phases') : phases'[i].id = systems[s].phase
    BY <1>2, <1>5, <2>2
  <2>4. systems \in Seq([phase : Phases, def : Definitions])
    BY DEF FrameInv, BuildOK
  <2>. QED  BY <1>3, <1>5, <2>1, <2>3, <2>4 DEF BuildOK
<1>8. WorldInv' /\ syncError' = syncError /\ syncing' = syncing /\ Settled' = Settled
  BY <1>3, WorldRests DEF FrameInv, worldVars, Settled
<1>9. Nowhere'
  BY <1>1, <1>3, <1>8 DEF Nowhere
<1>. QED  BY <1>1, <1>3, <1>7, <1>8, <1>9 DEF FrameInv, All

LEMMA AddSystemKeeps ==
  ASSUME FrameInv, NEW p \in Phases, NEW d \in Definitions, AddSystem(p, d)
  PROVE  FrameInv'
<1>1. /\ at = "building" /\ Nowhere /\ active = {} /\ syncing = 0
  BY DEF AddSystem, FrameInv, Nowhere, Waiting, AtNode, InSync, InWave, Stopped
<1>. DEFINE x == [phase |-> p, def |-> d]
<1>2. /\ systems \in Seq([phase : Phases, def : Definitions]) /\ Len(systems) \in Nat
      /\ x \in [phase : Phases, def : Definitions]
  BY SystemFacts DEF FrameInv, BuildOK
<1>3. systems' = Append(systems, x) /\ UNCHANGED <<phases, plan, at, node, active, failed, ran>>
      /\ UNCHANGED worldVars
  BY DEF AddSystem
<1>4. \E i \in 1 .. Len(phases) : phases[i].id = p
  BY DEF AddSystem
<1>5. /\ systems' \in Seq([phase : Phases, def : Definitions]) /\ Len(systems') = Len(systems) + 1
      /\ \A s \in 1 .. Len(systems) : systems'[s] = systems[s]
      /\ systems'[Len(systems) + 1].phase = p
  BY <1>2, <1>3, AppendProperties
<1>6. \A s \in 1 .. Len(systems') : s \in 1 .. Len(systems) \/ s = Len(systems) + 1
  BY <1>2, <1>5
<1>7. BuildOK'
  <2>1. \A s \in 1 .. Len(systems) : \E i \in 1 .. Len(phases) : phases[i].id = systems[s].phase
    BY DEF FrameInv, BuildOK
  <2>2. \A s \in 1 .. Len(systems') : \E i \in 1 .. Len(phases) : phases[i].id = systems'[s].phase
    BY <1>4, <1>5, <1>6, <2>1
  <2>3. /\ phases \in Seq([id : Phases, after : Afters])
        /\ \A i, j \in 1 .. Len(phases) : phases[i].id = phases[j].id => i = j
    BY DEF FrameInv, BuildOK
  <2>. QED  BY <1>3, <1>5, <2>2, <2>3 DEF BuildOK
<1>8. WorldInv' /\ syncError' = syncError /\ syncing' = syncing /\ Settled' = Settled
  BY <1>3, WorldRests DEF FrameInv, worldVars, Settled
<1>9. Nowhere'
  BY <1>1, <1>3, <1>8 DEF Nowhere
<1>10. All \subseteq All' /\ Seq(All) \subseteq Seq(All')
  <2>1. All \subseteq All'
    BY <1>2, <1>5 DEF All
  <2>. QED  BY <2>1
<1>11. active' \cup failed' \subseteq All' /\ ran' \in Seq(All') /\ IsInjective(ran')
  BY <1>3, <1>10 DEF FrameInv
<1>. QED  BY <1>1, <1>3, <1>7, <1>8, <1>9, <1>11 DEF FrameInv, IsInjective

LEMMA CompileKeeps ==
  ASSUME FrameInv, Compile
  PROVE  FrameInv'
<1>1. /\ at = "building" /\ Nowhere /\ active = {} /\ syncing = 0
  BY DEF Compile, FrameInv, Nowhere, Waiting, AtNode, InSync, InWave, Stopped
<1>2. UNCHANGED <<phases, systems, node, active, failed, ran>> /\ UNCHANGED worldVars
  BY DEF Compile
<1>3. BuildOK' /\ All' = All
  BY <1>2 DEF FrameInv, BuildOK, All
<1>4. WorldInv' /\ syncError' = syncError /\ syncing' = syncing /\ Settled' = Settled
  BY <1>2, WorldRests DEF FrameInv, worldVars, Settled
<1>5. CASE Compiles /\ plan' = Nodes /\ at' = "ready"
  <2>1. PICK P : P = Nodes
    OBVIOUS
  <2>2. PICK A : A = All
    OBVIOUS
  <2>3. PlanWith(P, A, {})
    BY <1>5, <2>1, <2>2, PlanOfNodes DEF FrameInv
  <2>4. PlanWith(P, A, {})'
    BY <1>2, <2>3, SamePlan
  <2>5. Planned'
    BY <1>3, <1>5, <2>1, <2>2, <2>4 DEF Planned
  <2>6. Waiting'
    BY <1>1, <1>2, <1>4, <1>5, <2>5 DEF Nowhere, Waiting
  <2>. QED  BY <1>1, <1>2, <1>3, <1>4, <2>6 DEF FrameInv, IsInjective
<1>6. CASE at' = "refused" /\ plan' = plan
  <2>1. Nowhere'
    BY <1>1, <1>2, <1>4, <1>6 DEF Nowhere
  <2>. QED  BY <1>1, <1>2, <1>3, <1>4, <2>1 DEF FrameInv, IsInjective
<1>. QED  BY <1>5, <1>6 DEF Compile

LEMMA BeginFrameKeeps ==
  ASSUME FrameInv, BeginFrame
  PROVE  FrameInv'
<1>1. Waiting /\ active = {} /\ syncing = 0
  BY DEF BeginFrame, FrameInv, Nowhere, Waiting, AtNode, InSync, InWave, Stopped
<1>2. /\ UNCHANGED <<phases, systems, plan, active, failed>> /\ UNCHANGED worldVars
      /\ at' = "node" /\ node' = 1 /\ ran' = <<>>
  BY DEF BeginFrame
<1>3. /\ BuildOK' /\ Planned' /\ All' = All /\ Earlier(plan, node)' = Earlier(plan, node')
  BY <1>1, <1>2, SameFrame DEF FrameInv, Waiting
<1>4. WorldInv' /\ UNCHANGED <<queue, dirty, syncing, syncError>>
  BY <1>2, WorldRests DEF FrameInv, worldVars
<1>5. 1 \in 1 .. Len(plan) + 1
  BY <1>1, PlanFacts DEF Waiting
<1>6. ToSet(ran') = {} /\ Earlier(plan, 1) = {}
  BY <1>2, FirstNode DEF ToSet
<1>7. Staged' /\ dirty' = {}
  <2>1. Settled'
    BY <1>1, <1>4 DEF Waiting, Settled
  <2>2. (Settled => Staged)'
    BY NothingStaged, PTL
  <2>. QED  BY <2>1, <2>2 DEF Settled
<1>8. AtNode'
  BY <1>2, <1>3, <1>5, <1>6, <1>7 DEF AtNode
<1>9. ran' \in Seq(All') /\ IsInjective(ran')
  BY <1>2 DEF IsInjective
<1>. QED  BY <1>1, <1>2, <1>3, <1>4, <1>8, <1>9 DEF FrameInv

LEMMA EnterSyncKeeps ==
  ASSUME FrameInv, EnterSync
  PROVE  FrameInv'
<1>1. AtNode /\ active = {} /\ syncing = 0
  BY DEF EnterSync, FrameInv, Nowhere, Waiting, AtNode, InSync, InWave, Stopped
<1>2. /\ UNCHANGED <<phases, systems, plan, node, active, failed, ran>>
      /\ at' = "sync" /\ node \in 1 .. Len(plan) /\ plan[node].kind = "sync"
      /\ BeginSync
  BY DEF EnterSync
<1>3. /\ BuildOK' /\ Planned' /\ All' = All /\ Earlier(plan, node)' = Earlier(plan, node)
  BY <1>1, <1>2, SameFrame DEF FrameInv, AtNode
<1>4. WorldInv' /\ syncError' # "commit"
  <2>1. [WorldNext]_worldVars
    BY <1>2 DEF WorldNext
  <2>. QED  BY <2>1, WorldInvInductive DEF FrameInv
<1>5. syncing' = 0 /\ syncError' = "none" => Settled'
  BY <1>2 DEF BeginSync, Settled
<1>6. InSync'
  BY <1>1, <1>2, <1>3, <1>5 DEF AtNode, InSync
<1>. QED  BY <1>1, <1>2, <1>3, <1>4, <1>6 DEF FrameInv, IsInjective

LEMMA SyncGoesOnKeeps ==
  ASSUME FrameInv, SyncGoesOn
  PROVE  FrameInv'
<1>1. InSync /\ active = {}
  BY DEF SyncGoesOn, FrameInv, Nowhere, Waiting, AtNode, InSync, InWave, Stopped
<1>2. /\ UNCHANGED <<phases, systems, plan, at, node, active, failed, ran>>
      /\ ApplyCommand \/ FinishSync
  BY DEF SyncGoesOn, frameVars
<1>3. /\ BuildOK' /\ Planned' /\ All' = All /\ Earlier(plan, node)' = Earlier(plan, node)
  BY <1>1, <1>2, SameFrame DEF FrameInv, InSync
<1>4. WorldInv' /\ syncError' # "commit"
  <2>1. [WorldNext]_worldVars
    BY <1>2 DEF WorldNext
  <2>. QED  BY <2>1, WorldInvInductive DEF FrameInv
<1>5. syncing' = 0 /\ syncError' = "none" => Settled'
  <2>1. ASSUME ApplyCommand, syncing' = 0
        PROVE  syncError' = "commit"
    <3>1. syncing + 1 # 0
      BY QueueFacts DEF FrameInv
    <3>. QED  BY <2>1, <3>1 DEF ApplyCommand
  <2>2. FinishSync => Settled'
    BY DEF FinishSync, Settled
  <2>. QED  BY <1>2, <2>1, <2>2
<1>6. InSync'
  BY <1>1, <1>2, <1>3, <1>5 DEF InSync
<1>. QED  BY <1>1, <1>2, <1>3, <1>4, <1>6 DEF FrameInv, InSync, IsInjective

LEMMA LeaveSyncKeeps ==
  ASSUME FrameInv, LeaveSync
  PROVE  FrameInv'
<1>1. InSync /\ active = {} /\ syncing = 0
  BY DEF LeaveSync, FrameInv, Nowhere, Waiting, AtNode, InSync, InWave, Stopped
<1>2. UNCHANGED <<phases, systems, plan, active, failed, ran>> /\ UNCHANGED worldVars
  BY DEF LeaveSync
<1>3. /\ BuildOK' /\ Planned' /\ All' = All
      /\ Earlier(plan, node)' = Earlier(plan, node')
      /\ DirtyAt(plan, node)' = DirtyAt(plan, node')
  BY <1>1, <1>2, SameFrame DEF FrameInv, InSync
<1>4. WorldInv' /\ UNCHANGED <<queue, dirty, syncing, syncError>>
  BY <1>2, WorldRests DEF FrameInv, worldVars
<1>5. Len(plan) \in Nat /\ node \in Nat \ {0} /\ node \in 1 .. Len(plan)
  BY <1>1, PlanFacts DEF InSync
<1>6. CASE syncError = "none" /\ at' = "node" /\ node' = node + 1
  <2>1. plan[node].systems = <<>>
    BY <1>1, <1>5, PlanFacts DEF InSync, MayFollow
  <2>2. Earlier(plan, node + 1) = Earlier(plan, node)
    <3>1. Earlier(plan, node + 1) = Earlier(plan, node) \cup ToSet(plan[node].systems)
      BY <1>5, NextNode
    <3>2. ToSet(<<>>) = {}
      BY DEF ToSet
    <3>. QED  BY <2>1, <3>1, <3>2
  <2>3. node' \in 1 .. Len(plan) + 1
    BY <1>5, <1>6
  <2>4. Staged' /\ dirty' = {}
    <3>1. Settled'
      BY <1>1, <1>4, <1>6 DEF InSync, Settled
    <3>2. (Settled => Staged)'
      BY NothingStaged, PTL
    <3>. QED  BY <3>1, <3>2 DEF Settled
  <2>5. AtNode'
    BY <1>1, <1>2, <1>3, <1>6, <2>2, <2>3, <2>4 DEF InSync, AtNode
  <2>. QED  BY <1>1, <1>2, <1>3, <1>4, <2>5 DEF FrameInv, IsInjective
<1>7. CASE syncError # "none" /\ at' = syncError /\ node' = node
  <2>1. syncError = "invalid"
    BY <1>7, QueueFacts DEF FrameInv
  <2>2. node' \in 0 .. Len(plan) + 1
    BY <1>5, <1>7
  <2>3. Stopped'
    BY <1>2, <1>7, <2>1, <2>2 DEF Stopped
  <2>. QED  BY <1>1, <1>2, <1>3, <1>4, <2>3 DEF FrameInv, IsInjective
<1>. QED  BY <1>6, <1>7 DEF LeaveSync

LEMMA EnterWaveKeeps ==
  ASSUME FrameInv, EnterWave
  PROVE  FrameInv'
<1>1. AtNode /\ active = {} /\ syncing = 0
  BY DEF EnterWave, FrameInv, Nowhere, Waiting, AtNode, InSync, InWave, Stopped
<1>. DEFINE wave == ToSet(plan[node].systems)
<1>2. /\ UNCHANGED <<phases, systems, plan, node, ran>> /\ UNCHANGED worldVars
      /\ node \in 1 .. Len(plan) /\ plan[node].kind = "wave"
  BY DEF EnterWave
<1>3. /\ BuildOK' /\ Planned' /\ All' = All
      /\ Earlier(plan, node)' = Earlier(plan, node)
      /\ DirtyAt(plan, node)' = DirtyAt(plan, node)
  BY <1>1, <1>2, SameFrame DEF FrameInv, AtNode
<1>4. WorldInv' /\ UNCHANGED <<queue, dirty, syncing, syncError>>
  BY <1>2, WorldRests DEF FrameInv, worldVars
<1>5. \A s \in wave : \A m \in dirty : ~Queries(s, m)
  BY <1>1, <1>2, PlanFacts DEF AtNode, MayFollow
<1>6. /\ at' = "wave" /\ active' = wave /\ failed' = {}
      /\ buffers' = [s \in wave |-> <<>>]
  BY <1>5 DEF EnterWave
<1>7. wave \subseteq All
  <2>1. plan[node].systems \in Seq(All)
    BY <1>1, <1>2, PlanFacts DEF AtNode
  <2>. QED  BY <2>1, ToSetIs
<1>8. buffers' \in [wave -> Seq(Bundle \cup {EmptyBundle})]
  <2>1. <<>> \in Seq(Bundle \cup {EmptyBundle})
    OBVIOUS
  <2>. HIDE DEF wave
  <2>. QED  BY <1>6, <2>1
<1>9. InWave'
  <2>1. Staged'
    BY <1>1, <1>4 DEF AtNode, Staged
  <2>2. ToSet(ran') = Earlier(plan, node) \cup (wave \ active')
    BY <1>1, <1>2, <1>6 DEF AtNode
  <2>3. (Bundle \cup {EmptyBundle})' = Bundle \cup {EmptyBundle}
    BY DEF Bundle, EmptyBundle
  <2>. QED  BY <1>1, <1>2, <1>3, <1>4, <1>6, <1>8, <2>1, <2>2, <2>3 DEF AtNode, InWave
<1>. QED  BY <1>1, <1>2, <1>3, <1>4, <1>6, <1>7, <1>9 DEF FrameInv, IsInjective

LEMMA StageCommandKeeps ==
  ASSUME FrameInv, NEW s \in active, NEW b \in Bundle \cup {EmptyBundle}, StageCommand(s, b)
  PROVE  FrameInv'
<1>1. InWave /\ syncing = 0
  BY DEF FrameInv, Nowhere, Waiting, AtNode, InSync, InWave, Stopped
<1>2. /\ UNCHANGED <<phases, systems, plan, at, node, active, failed, ran>> /\ UNCHANGED worldVars
      /\ buffers' = [buffers EXCEPT ![s] = Append(@, b)]
  BY DEF StageCommand
<1>3. /\ BuildOK' /\ Planned' /\ All' = All
      /\ Earlier(plan, node)' = Earlier(plan, node)
      /\ DirtyAt(plan, node)' = DirtyAt(plan, node)
  BY <1>1, <1>2, SameFrame DEF FrameInv, InWave
<1>4. WorldInv' /\ UNCHANGED <<queue, dirty, syncing, syncError>>
  BY <1>2, WorldRests DEF FrameInv, worldVars
<1>5. buffers' \in [ToSet(plan[node].systems) -> Seq(Bundle \cup {EmptyBundle})]
  <2>1. /\ buffers \in [ToSet(plan[node].systems) -> Seq(Bundle \cup {EmptyBundle})]
        /\ s \in ToSet(plan[node].systems)
    BY <1>1 DEF InWave
  <2>2. Append(buffers[s], b) \in Seq(Bundle \cup {EmptyBundle})
    BY <2>1, AppendProperties
  <2>. QED  BY <1>2, <2>1, <2>2
<1>6. InWave'
  <2>1. Staged'
    BY <1>1, <1>4 DEF InWave, Staged
  <2>2. (Bundle \cup {EmptyBundle})' = Bundle \cup {EmptyBundle}
    BY DEF Bundle, EmptyBundle
  <2>. QED  BY <1>1, <1>2, <1>3, <1>4, <1>5, <2>1, <2>2 DEF InWave
<1>. QED  BY <1>1, <1>2, <1>3, <1>4, <1>6 DEF FrameInv, InWave, IsInjective

LEMMA EndRunKeeps ==
  ASSUME FrameInv, NEW s \in active, EndRun(s)
  PROVE  FrameInv'
<1>1. InWave /\ syncing = 0
  BY DEF FrameInv, Nowhere, Waiting, AtNode, InSync, InWave, Stopped
<1>. DEFINE wave == ToSet(plan[node].systems)
<1>2. /\ UNCHANGED <<phases, systems, plan, at, node, buffers>> /\ UNCHANGED worldVars
      /\ active' = active \ {s} /\ ran' = Append(ran, s)
      /\ failed' = failed \/ failed' = failed \cup {s}
  BY DEF EndRun
<1>3. /\ BuildOK' /\ Planned' /\ All' = All
      /\ Earlier(plan, node)' = Earlier(plan, node)
      /\ DirtyAt(plan, node)' = DirtyAt(plan, node)
  BY <1>1, <1>2, SameFrame DEF FrameInv, InWave
<1>4. WorldInv' /\ UNCHANGED <<queue, dirty, syncing, syncError>>
  BY <1>2, WorldRests DEF FrameInv, worldVars
<1>5. ran \in Seq(All) /\ Len(ran) \in Nat /\ s \in All /\ s \in wave
  BY <1>1, LenProperties DEF FrameInv, InWave
<1>6. s \notin ToSet(ran)
  <2>1. s \notin Earlier(plan, node)
    BY <1>1, <1>5, PlanFacts DEF InWave, MayFollow
  <2>. QED  BY <1>1, <2>1 DEF InWave
<1>7. /\ ran' \in Seq(All) /\ Len(ran') = Len(ran) + 1
      /\ \A i \in 1 .. Len(ran) : ran'[i] = ran[i]
      /\ ran'[Len(ran) + 1] = s
  BY <1>2, <1>5, AppendProperties
<1>8. \A i \in 1 .. Len(ran') : i \in 1 .. Len(ran) \/ i = Len(ran) + 1
  BY <1>5, <1>7
<1>9. /\ \A x : x \in ToSet(ran) <=> \E i \in 1 .. Len(ran) : x = ran[i]
      /\ \A x : x \in ToSet(ran') <=> \E i \in 1 .. Len(ran') : x = ran'[i]
  <2>1. ASSUME NEW r \in Seq(All)
        PROVE  \A x : x \in ToSet(r) <=> \E i \in 1 .. Len(r) : x = r[i]
    BY ToSetIs
  <2>. QED  BY <1>5, <1>7, <2>1
<1>10. IsInjective(ran')
  <2>1. DOMAIN ran = 1 .. Len(ran) /\ DOMAIN ran' = 1 .. Len(ran')
    BY <1>5, <1>7, LenProperties
  <2>2. \A i, j \in 1 .. Len(ran) : ran[i] = ran[j] => i = j
    BY <2>1 DEF FrameInv, IsInjective
  <2>3. \A i \in 1 .. Len(ran) : ran[i] # s
    BY <1>6, <1>9
  <2>4. \A i, j \in 1 .. Len(ran') : ran'[i] = ran'[j] => i = j
    BY <1>7, <1>8, <2>2, <2>3
  <2>. QED  BY <2>1, <2>4 DEF IsInjective
<1>11. ToSet(ran') = ToSet(ran) \cup {s}
  <2>1. \A x \in ToSet(ran') : x \in ToSet(ran) \/ x = s
    BY <1>7, <1>8, <1>9
  <2>2. Len(ran) + 1 \in 1 .. Len(ran') /\ \A i \in 1 .. Len(ran) : i \in 1 .. Len(ran')
    BY <1>5, <1>7
  <2>3. s \in ToSet(ran')
    BY <1>7, <1>9, <2>2
  <2>4. \A x \in ToSet(ran) : x \in ToSet(ran')
    BY <1>7, <1>9, <2>2
  <2>. QED  BY <2>1, <2>3, <2>4
<1>12. ToSet(ran') = Earlier(plan, node) \cup (wave \ active')
  BY <1>1, <1>2, <1>5, <1>11 DEF InWave
<1>13. InWave'
  <2>1. Staged' /\ dirty' \subseteq DirtyAt(plan, node)
    BY <1>1, <1>4 DEF InWave, Staged
  <2>2. (Bundle \cup {EmptyBundle})' = Bundle \cup {EmptyBundle}
    BY DEF Bundle, EmptyBundle
  <2>. QED  BY <1>1, <1>2, <1>3, <1>4, <1>12, <2>1, <2>2 DEF InWave
<1>14. active' \cup failed' \subseteq All
  BY <1>2, <1>5 DEF FrameInv
<1>15. active' # {} => at' = "wave"
  BY <1>1, <1>2 DEF InWave
<1>. QED  BY <1>1, <1>2, <1>3, <1>4, <1>7, <1>10, <1>13, <1>14, <1>15 DEF FrameInv

Place(s) == SelectInSeq(PlanOrder, LAMBDA r : r = s) - 1

\* Every system of a wave has its place in the order of the plan.
LEMMA PlaceInOrder ==
  ASSUME Planned, NEW n \in 1 .. Len(plan), NEW i \in 1 .. Len(plan[n].systems)
  PROVE  Place(plan[n].systems[i]) \in Nat
<1>. DEFINE B == [k \in 1 .. Len(plan) |-> plan[k].systems]
            x == plan[n].systems[i]
<1>1. Len(plan) \in Nat /\ \A k \in 1 .. Len(plan) : plan[k].systems \in Seq(All)
  BY PlanFacts
<1>2. /\ B \in Seq(Seq(All)) /\ Len(B) = Len(plan) /\ B[n] = plan[n].systems
      /\ PlanOrder = FlattenSeq(B)
  <2>1. B \in [1 .. Len(plan) -> Seq(All)]
    BY <1>1
  <2>. QED  BY <1>1, <2>1 DEF PlanOrder
<1>. HIDE DEF B
<1>3. PICK O : O = PlanOrder
  OBVIOUS
<1>4. O \in Seq(All) /\ \E off : Flattened(O, off, B)
  BY <1>2, <1>3, FlattenIs
<1>5. PICK off : Flattened(O, off, B)
  BY <1>4
<1>6. off[n - 1] + i \in 1 .. Len(O) /\ O[off[n - 1] + i] = x
  BY <1>2, <1>5 DEF Flattened
<1>. DEFINE I == {k \in 1 .. Len(O) : O[k] = x}
<1>7. I # {} /\ I \subseteq Nat \ {0}
  BY <1>6
<1>8. Place(x) = Min(I) - 1
  BY <1>3, <1>7 DEF Place, SelectInSeq
<1>9. Min(I) \in I
  <2>. HIDE DEF I
  <2>1. I \subseteq Nat
    BY <1>7
  <2>2. \E k \in I : \A l \in I : k =< l
    BY <1>7, <2>1, Least
  <2>. QED  BY <2>2 DEF Min
<1>10. Min(I) \in Nat \ {0}
  BY <1>7, <1>9
<1>. HIDE DEF I
<1>11. Min(I) - 1 \in Nat
  BY <1>10
<1>. QED  BY <1>8, <1>11

\* The commands of a wave are those in the buffers of its systems.
LEMMA EnvelopesAre ==
  ASSUME InWave
  PROVE  LET w == plan[node].systems
             E == Envelopes(w)
         IN  /\ E \in Seq(Envelop)
             /\ \A k \in 1 .. Len(E) : \E i \in 1 .. Len(w) : \E j \in 1 .. Len(buffers[w[i]]) :
                  E[k].bundle = buffers[w[i]][j]
<1>. DEFINE w == plan[node].systems
            one(i) == [k \in 1 .. Len(buffers[w[i]]) |->
                         [order |-> Place(w[i]), sequence |-> k - 1, bundle |-> buffers[w[i]][k]]]
            B == [i \in 1 .. Len(w) |-> one(i)]
<1>1. /\ node \in 1 .. Len(plan) /\ w \in Seq(All) /\ Len(w) \in Nat
      /\ buffers \in [ToSet(w) -> Seq(Bundle \cup {EmptyBundle})]
  BY PlanFacts, LenProperties DEF InWave
<1>2. \A i \in 1 .. Len(w) : w[i] \in ToSet(w)
  BY <1>1, ToSetIs
<1>3. ASSUME NEW i \in 1 .. Len(w)
      PROVE  /\ one(i) \in Seq(Envelop) /\ Len(one(i)) = Len(buffers[w[i]])
             /\ \A k \in 1 .. Len(buffers[w[i]]) : one(i)[k].bundle = buffers[w[i]][k]
  <2>1. Place(w[i]) \in Nat
    BY <1>1, PlaceInOrder DEF InWave
  <2>2. PICK b : b = buffers[w[i]]
    OBVIOUS
  <2>3. b \in Seq(Bundle \cup {EmptyBundle}) /\ Len(b) \in Nat
    BY <1>1, <1>2, <2>2, LenProperties
  <2>4. \A k \in 1 .. Len(b) : b[k] \in Bundle \cup {EmptyBundle} /\ k - 1 \in Nat
    BY <2>3, ElementOfSeq
  <2>5. \A k \in 1 .. Len(b) : [order |-> Place(w[i]), sequence |-> k - 1, bundle |-> b[k]] \in Envelop
    BY <2>1, <2>4 DEF Envelop
  <2>6. one(i) = [k \in 1 .. Len(b) |-> [order |-> Place(w[i]), sequence |-> k - 1, bundle |-> b[k]]]
    BY <2>2
  <2>7. one(i) \in [1 .. Len(b) -> Envelop]
    BY <2>5, <2>6
  <2>8. one(i) \in Seq(Envelop) /\ Len(one(i)) = Len(b)
    <3>. HIDE DEF one
    <3>. QED  BY <2>3, <2>7
  <2>9. \A k \in 1 .. Len(b) : one(i)[k].bundle = b[k]
    BY <2>6
  <2>. HIDE DEF one
  <2>. QED  BY <2>2, <2>8, <2>9
<1>4. B \in Seq(Seq(Envelop)) /\ Len(B) = Len(w) /\ \A i \in 1 .. Len(w) : B[i] = one(i)
  <2>. HIDE DEF one
  <2>1. B \in [1 .. Len(w) -> Seq(Envelop)]
    BY <1>3
  <2>. QED  BY <1>1, <2>1
<1>5. Envelopes(w) = FlattenSeq(B)
  BY DEF Envelopes, Place
<1>. HIDE DEF B, one, w
<1>6. PICK E : E = Envelopes(w)
  OBVIOUS
<1>7. E \in Seq(Envelop) /\ \E off : Flattened(E, off, B)
  BY <1>4, <1>5, <1>6, FlattenIs
<1>8. PICK off : Flattened(E, off, B)
  BY <1>7
<1>9. ASSUME NEW k \in 1 .. Len(E)
      PROVE  \E i \in 1 .. Len(w) : \E j \in 1 .. Len(buffers[w[i]]) :
               E[k].bundle = buffers[w[i]][j]
  <2>1. PICK i \in 1 .. Len(w) : \E j \in 1 .. Len(B[i]) : k = off[i - 1] + j
    BY <1>4, <1>8 DEF Flattened
  <2>2. PICK j \in 1 .. Len(B[i]) : k = off[i - 1] + j
    BY <2>1
  <2>3. E[k] = B[i][j]
    BY <1>4, <1>8, <2>2 DEF Flattened
  <2>4. j \in 1 .. Len(buffers[w[i]]) /\ B[i][j].bundle = buffers[w[i]][j]
    BY <1>3, <1>4, <2>2
  <2>. QED  BY <2>3, <2>4
<1>. QED  BY <1>6, <1>7, <1>9 DEF w

LEMMA StageKeepsWorld ==
  ASSUME WorldInv, NEW envelops \in Seq(Envelop), NEW masks \in SUBSET Masks,
         Stage(envelops, masks)
  PROVE  WorldInv'
<1>1. StorageOK /\ StagingOK
  BY WorldInvParts
<1>2. StorageOK'
  BY <1>1, StorageUnchanged DEF Stage
<1>3. queue' \in Seq(Envelop)
  BY <1>1, ConcatProperties DEF Stage, StagingOK
<1>4. StagingOK' /\ BatchFits'
  BY <1>1, <1>3, LenProperties DEF Stage, StagingOK, BatchFits
<1>5. (WorldInv <=> StorageOK /\ StagingOK /\ BatchFits)'
  BY WorldInvParts, PTL
<1>. QED  BY <1>2, <1>4, <1>5

LEMMA LeaveWaveKeeps ==
  ASSUME FrameInv, LeaveWave
  PROVE  FrameInv' /\ UNCHANGED storage
<1>1. InWave /\ syncing = 0 /\ active = {}
  BY DEF LeaveWave, AllEnded, FrameInv, Nowhere, Waiting, AtNode, InSync, InWave, Stopped
<1>. DEFINE w == plan[node].systems
<1>2. UNCHANGED <<phases, systems, plan, active, ran>>
  BY DEF LeaveWave
<1>3. /\ BuildOK' /\ Planned' /\ All' = All
      /\ Earlier(plan, node)' = Earlier(plan, node')
      /\ DirtyAt(plan, node)' = DirtyAt(plan, node')
  BY <1>1, <1>2, SameFrame DEF FrameInv, InWave
<1>4. Len(plan) \in Nat /\ node \in Nat \ {0} /\ node \in 1 .. Len(plan) /\ w \in Seq(All)
  BY <1>1, PlanFacts DEF InWave
<1>5. CASE at' = "system" /\ UNCHANGED <<node, buffers, failed, worldVars>>
  <2>1. WorldInv' /\ UNCHANGED <<queue, dirty, syncing, syncError>> /\ UNCHANGED storage
    BY <1>5, WorldRests DEF FrameInv, worldVars, storage
  <2>2. node' \in 0 .. Len(plan) + 1
    BY <1>4, <1>5
  <2>3. Stopped'
    BY <1>2, <1>5, <2>2 DEF Stopped
  <2>. QED  BY <1>1, <1>2, <1>3, <1>5, <2>1, <2>3 DEF FrameInv, IsInjective
<1>6. CASE /\ \A s \in ToSet(w) : EffectsDeclared(s)
           /\ Stage(Envelopes(w), DirtyAfter(w))
           /\ at' = "node" /\ node' = node + 1 /\ UNCHANGED failed
  <2>1. PICK E : E = Envelopes(w)
    OBVIOUS
  <2>2. PICK D : D = DirtyAfter(w)
    OBVIOUS
  <2>3. /\ E \in Seq(Envelop) /\ Len(E) \in Nat
        /\ \A k \in 1 .. Len(E) : \E i \in 1 .. Len(w) : \E j \in 1 .. Len(buffers[w[i]]) :
             E[k].bundle = buffers[w[i]][j]
    BY <1>1, <2>1, EnvelopesAre, LenProperties
  <2>4. D \in SUBSET Masks
    BY <1>4, <2>2, DirtyAfterMasks DEF FrameInv
  <2>5. Stage(E, D)
    BY <1>6, <2>1, <2>2
  <2>6. WorldInv' /\ UNCHANGED storage
    BY <2>3, <2>4, <2>5, StageKeepsWorld DEF FrameInv, Stage
  <2>7. queue' = queue \o E /\ dirty' = dirty \cup D /\ UNCHANGED <<syncing, syncError>>
    BY <2>5 DEF Stage
  <2>8. ASSUME NEW k \in 1 .. Len(E)
        PROVE  E[k].bundle.mask \in D
    <3>1. PICK i \in 1 .. Len(w) : \E j \in 1 .. Len(buffers[w[i]]) :
            E[k].bundle = buffers[w[i]][j]
      BY <2>3
    <3>2. PICK j \in 1 .. Len(buffers[w[i]]) : E[k].bundle = buffers[w[i]][j]
      BY <3>1
    <3>3. w[i] \in ToSet(w)
      BY <1>4, ToSetIs
    <3>4. buffers[w[i]][j].mask \in Access(w[i]).structural
      BY <1>6, <3>3 DEF EffectsDeclared
    <3>. QED  BY <2>2, <3>2, <3>4 DEF DirtyAfter
  <2>9. Staged'
    <3>1. /\ queue \in Seq(Envelop) /\ Len(queue) \in Nat
          /\ \A k \in 1 .. Len(queue) : queue[k].bundle.mask \in dirty
      BY <1>1, QueueFacts DEF FrameInv, InWave, Staged
    <3>2. /\ Len(queue') = Len(queue) + Len(E)
          /\ \A k \in 1 .. Len(queue) + Len(E) :
               queue'[k] = IF k =< Len(queue) THEN queue[k] ELSE E[k - Len(queue)]
      BY <2>3, <2>7, <3>1, ConcatProperties
    <3>3. ASSUME NEW k \in 1 .. Len(queue')
          PROVE  queue'[k].bundle.mask \in dirty'
      <4>1. CASE k =< Len(queue)
        <5>1. k \in 1 .. Len(queue) /\ queue'[k] = queue[k]
          BY <2>3, <3>1, <3>2, <4>1
        <5>. QED  BY <2>7, <3>1, <5>1
      <4>2. CASE ~(k =< Len(queue))
        <5>1. k - Len(queue) \in 1 .. Len(E) /\ queue'[k] = E[k - Len(queue)]
          BY <2>3, <3>1, <3>2, <4>2
        <5>. QED  BY <2>7, <2>8, <5>1
      <4>. QED  BY <4>1, <4>2
    <3>. QED  BY <3>3 DEF Staged
  <2>10. /\ Earlier(plan, node + 1) = Earlier(plan, node) \cup ToSet(w)
         /\ DirtyAt(plan, node + 1) = DirtyAt(plan, node) \cup D
    BY <1>1, <1>4, <2>2, NextNode DEF InWave
  <2>11. ToSet(ran) = Earlier(plan, node) \cup ToSet(w)
    BY <1>1 DEF InWave
  <2>12. dirty' \subseteq DirtyAt(plan, node + 1)
    BY <1>1, <2>7, <2>10 DEF InWave
  <2>13. node + 1 \in 1 .. Len(plan) + 1
    BY <1>4
  <2>14. AtNode'
    BY <1>2, <1>3, <1>6, <2>9, <2>10, <2>11, <2>12, <2>13 DEF AtNode
  <2>. QED  BY <1>1, <1>2, <1>3, <1>6, <2>6, <2>7, <2>14 DEF FrameInv, IsInjective
<1>. QED  BY <1>5, <1>6 DEF LeaveWave

LEMMA EndFrameKeeps ==
  ASSUME FrameInv, EndFrame
  PROVE  FrameInv'
<1>1. AtNode /\ active = {} /\ syncing = 0
  BY DEF EndFrame, FrameInv, Nowhere, Waiting, AtNode, InSync, InWave, Stopped
<1>2. UNCHANGED <<phases, systems, plan, active, failed, ran>> /\ UNCHANGED worldVars
  BY DEF EndFrame
<1>3. BuildOK' /\ Planned' /\ All' = All
  BY <1>1, <1>2, SameFrame DEF FrameInv, AtNode
<1>4. WorldInv' /\ UNCHANGED <<queue, dirty, syncing, syncError>>
  BY <1>2, WorldRests DEF FrameInv, worldVars
<1>5. dirty = {}
  <2>1. node = Len(plan) + 1
    BY DEF EndFrame
  <2>. QED  BY <1>1, <2>1, PlanFacts DEF AtNode
<1>6. queue = <<>>
  <2>1. queue \in Seq(Envelop) /\ Len(queue) \in Nat
    BY QueueFacts DEF FrameInv
  <2>2. \A k \in 1 .. Len(queue) : FALSE
    BY <1>1, <1>5 DEF AtNode, Staged
  <2>3. Len(queue) = 0
    BY <2>1, <2>2
  <2>. QED  BY <2>1, <2>3, EmptySeq
<1>7. at' = "ready" /\ node' = 0
  BY <1>6 DEF EndFrame
<1>8. Waiting'
  BY <1>3, <1>4, <1>5, <1>6, <1>7 DEF Waiting, Settled
<1>. QED  BY <1>1, <1>2, <1>3, <1>4, <1>8 DEF FrameInv, IsInjective

LEMMA BetweenKeeps ==
  ASSUME FrameInv, Between
  PROVE  FrameInv'
<1>1. Waiting /\ active = {} /\ syncing = 0
  BY DEF Between, FrameInv, Nowhere, Waiting, AtNode, InSync, InWave, Stopped
<1>2. /\ UNCHANGED <<phases, systems, plan, at, node, active, failed, ran>>
      /\ UNCHANGED <<queue, dirty, syncing, syncError>>
  BY DEF Between, frameVars, CreateNow, DestroyNow, MigrateNow, staging
<1>3. BuildOK' /\ Planned' /\ All' = All
  BY <1>1, <1>2, SameFrame DEF FrameInv, Waiting
<1>4. WorldInv'
  <2>1. [WorldNext]_worldVars
    BY DEF Between, WorldNext
  <2>. QED  BY <2>1, WorldInvInductive DEF FrameInv
<1>5. Waiting'
  BY <1>1, <1>2, <1>3 DEF Waiting, Settled
<1>. QED  BY <1>1, <1>2, <1>3, <1>4, <1>5 DEF FrameInv, IsInjective

LEMMA StutterKeeps ==
  ASSUME FrameInv, UNCHANGED vars
  PROVE  FrameInv'
<1>1. /\ UNCHANGED <<phases, systems, plan, at, node, active, buffers, failed, ran>>
      /\ UNCHANGED worldVars
  BY DEF vars, frameVars
<1>2. WorldInv' /\ UNCHANGED <<queue, dirty, syncing, syncError>>
  BY <1>1, WorldRests DEF FrameInv, worldVars
<1>3. /\ (BuildOK' <=> BuildOK) /\ (Planned' <=> Planned) /\ All' = All
      /\ Earlier(plan, node)' = Earlier(plan, node)
      /\ DirtyAt(plan, node)' = DirtyAt(plan, node)
  BY <1>1, SameFrame
<1>4. (Bundle \cup {EmptyBundle})' = Bundle \cup {EmptyBundle}
  BY DEF Bundle, EmptyBundle
<1>5. (Settled' <=> Settled) /\ (Staged' <=> Staged)
  BY <1>2 DEF Settled, Staged
<1>6. Nowhere => Nowhere'
  BY <1>1, <1>5 DEF Nowhere
<1>7. Waiting => Waiting'
  BY <1>1, <1>3, <1>5 DEF Waiting
<1>8. AtNode => AtNode'
  BY <1>1, <1>2, <1>3, <1>5 DEF AtNode
<1>9. InSync => InSync'
  BY <1>1, <1>2, <1>3, <1>5 DEF InSync
<1>10. InWave => InWave'
  BY <1>1, <1>2, <1>3, <1>4, <1>5 DEF InWave
<1>11. Stopped => Stopped'
  BY <1>1 DEF Stopped
<1>. QED  BY <1>1, <1>2, <1>3, <1>6, <1>7, <1>8, <1>9, <1>10, <1>11 DEF FrameInv, IsInjective

LEMMA FrameInvInductive == FrameInv /\ [Next]_vars => FrameInv'
<1>. SUFFICES ASSUME FrameInv, [Next]_vars PROVE FrameInv'
  OBVIOUS
<1>1. ASSUME NEW p \in Phases, NEW after \in Afters, AddPhase(p, after)
      PROVE  FrameInv'
  BY <1>1, AddPhaseKeeps
<1>2. ASSUME NEW p \in Phases, NEW d \in Definitions, AddSystem(p, d)
      PROVE  FrameInv'
  BY <1>2, AddSystemKeeps
<1>3. Compile => FrameInv'
  BY CompileKeeps
<1>4. BeginFrame => FrameInv'
  BY BeginFrameKeeps
<1>5. EnterSync => FrameInv'
  BY EnterSyncKeeps
<1>6. SyncGoesOn => FrameInv'
  BY SyncGoesOnKeeps
<1>7. LeaveSync => FrameInv'
  BY LeaveSyncKeeps
<1>8. EnterWave => FrameInv'
  BY EnterWaveKeeps
<1>9. ASSUME NEW s \in active, EndRun(s)
      PROVE  FrameInv'
  BY <1>9, EndRunKeeps
<1>10. ASSUME NEW s \in active, NEW b \in Bundle \cup {EmptyBundle}, StageCommand(s, b)
       PROVE  FrameInv'
  BY <1>10, StageCommandKeeps
<1>11. LeaveWave => FrameInv'
  BY LeaveWaveKeeps
<1>12. EndFrame => FrameInv'
  BY EndFrameKeeps
<1>13. Between => FrameInv'
  BY BetweenKeeps
<1>14. UNCHANGED vars => FrameInv'
  BY StutterKeeps
<1>. QED  BY <1>1, <1>2, <1>3, <1>4, <1>5, <1>6, <1>7, <1>8, <1>9, <1>10, <1>11, <1>12,
             <1>13, <1>14 DEF Next

LEMMA FrameInvHolds == Spec => []FrameInv
BY FrameInvInit, FrameInvInductive, PTL DEF Spec

-----------------------------------------------------------------------------
(* Theorems *)

LEMMA FrameInvImplies ==
  ASSUME FrameInv
  PROVE  FrameTypeOK /\ NoRaces /\ QueriesSettled /\ RunsInOrder /\ PlanHolds
<1>1. BuildOK /\ active \cup failed \subseteq All /\ (active # {} => at = "wave")
      /\ (syncing # 0 => at = "sync") /\ IsInjective(ran)
  BY DEF FrameInv
<1>2. Nowhere \/ Waiting \/ AtNode \/ InSync \/ InWave \/ Stopped
  BY DEF FrameInv
<1>3. FrameTypeOK
  <2>1. /\ phases \in Seq([id : Phases, after : Afters])
        /\ \A s \in 1 .. Len(systems) : systems[s].phase \in Phases /\ Access(s) \in Definitions
    BY <1>1, SystemFacts DEF BuildOK
  <2>2. at \in {"building", "refused", "ready", "node", "sync", "wave",
                "mismatch", "system", "invalid", "commit", "pending"}
    BY <1>2 DEF Nowhere, Waiting, AtNode, InSync, InWave, Stopped
  <2>3. node \in 0 .. Len(plan) + 1
    <3>1. CASE Nowhere
      <4>1. Len(plan) = 0 /\ node = 0
        BY <3>1 DEF Nowhere
      <4>. QED  BY <4>1
    <3>2. CASE Waiting \/ AtNode \/ InSync \/ InWave
      <4>1. Len(plan) \in Nat
        BY <3>2, PlanFacts DEF Waiting, AtNode, InSync, InWave
      <4>2. node \in {0} \cup 1 .. Len(plan) + 1
        BY <3>2, <4>1 DEF Waiting, AtNode, InSync, InWave
      <4>. QED  BY <4>1, <4>2
    <3>3. CASE Stopped
      BY <3>3 DEF Stopped
    <3>. QED  BY <1>2, <3>1, <3>2, <3>3
  <2>4. syncing > 0 => at = "sync"
    <3>1. syncing \in Nat
      BY QueueFacts DEF FrameInv
    <3>2. syncing > 0 => syncing # 0
      BY <3>1
    <3>. QED  BY <1>1, <3>2
  <2>. QED  BY <1>1, <2>1, <2>2, <2>3, <2>4 DEF FrameTypeOK, All
<1>4. ASSUME NEW s \in active
      PROVE  /\ InWave /\ s \in ToSet(plan[node].systems)
             /\ MayFollow(plan[node], Earlier(plan, node), DirtyAt(plan, node))
  <2>1. InWave
    BY <1>1, <1>2, <1>4 DEF Nowhere, Waiting, AtNode, InSync, Stopped
  <2>. QED  BY <1>4, <2>1, PlanFacts DEF InWave
<1>5. ASSUME NEW s \in active, NEW t \in ToSet(plan[node].systems), s # t
      PROVE  ~SystemsConflict(s, t)
  <2>1. PICK w : w = plan[node].systems
    OBVIOUS
  <2>2. IsWave(w, All) /\ w \in Seq(All) /\ s \in ToSet(w) /\ t \in ToSet(w)
    BY <1>4, <2>1 DEF MayFollow, IsWave
  <2>3. PICK i \in 1 .. Len(w) : s = w[i]
    BY <2>2, ToSetIs
  <2>4. PICK j \in 1 .. Len(w) : t = w[j]
    BY <2>2, ToSetIs
  <2>. QED  BY <1>5, <2>2, <2>3, <2>4 DEF IsWave
<1>6. NoRaces
  <2>1. ASSUME NEW s \in active, NEW t \in active, s # t
        PROVE  Access(s).writes \cap (Access(t).reads \cup Access(t).writes) = {}
    <3>1. ~SystemsConflict(s, t)
      BY <1>4, <1>5, <2>1
    <3>. QED  BY <3>1 DEF SystemsConflict, WritesMeet
  <2>. QED  BY <2>1 DEF NoRaces
<1>7. QueriesSettled
  <2>1. ASSUME NEW s \in active
        PROVE  \A k \in 1 .. Len(queue) : ~Queries(s, queue[k].bundle.mask)
    <3>1. \A k \in 1 .. Len(queue) : queue[k].bundle.mask \in DirtyAt(plan, node)
      BY <1>4 DEF InWave, Staged
    <3>. QED  BY <1>4, <3>1 DEF MayFollow
  <2>2. ASSUME NEW s \in active, NEW t \in DOMAIN buffers \ {s}, NEW m \in Access(t).structural
        PROVE  ~Queries(s, m)
    <3>1. t \in ToSet(plan[node].systems)
      BY <1>4 DEF InWave
    <3>2. ~SystemsConflict(s, t)
      BY <1>5, <3>1
    <3>. QED  BY <3>2 DEF SystemsConflict, StructuralMeet
  <2>. QED  BY <2>1, <2>2 DEF QueriesSettled
<1>8. RunsInOrder
  <2>1. ASSUME NEW s \in active
        PROVE  WaitsFor(s) \subseteq ToSet(ran) /\ s \notin ToSet(ran)
    BY <1>4 DEF MayFollow, InWave
  <2>2. at = "node" /\ node = Len(plan) + 1 => ToSet(ran) = 1 .. Len(systems)
    <3>. SUFFICES ASSUME at = "node", node = Len(plan) + 1
                  PROVE  ToSet(ran) = 1 .. Len(systems)
      OBVIOUS
    <3>1. AtNode
      BY <1>2 DEF Nowhere, Waiting, InSync, InWave, Stopped
    <3>. QED  BY <3>1, PlanFacts DEF AtNode, All
  <2>. QED  BY <1>1, <2>1, <2>2 DEF RunsInOrder
<1>9. PlanHolds
  BY <1>2 DEF PlanHolds, Nowhere, Waiting, AtNode, InSync, InWave, Stopped, Settled
<1>. QED  BY <1>3, <1>6, <1>7, <1>8, <1>9

\* The scheduler's state keeps its types; goroutines run within a wave only and
\* commands are applied within a Sync only (runtime/scheduler, executor.go).
THEOREM FrameTypes == Spec => []FrameTypeOK
BY FrameInvHolds, FrameInvImplies, PTL

\* Whatever is registered, the compiler never packs two systems into one wave of
\* which one writes what the other reads or writes, and the executor runs no
\* others at the same time (compiler.go, executor.go).
THEOREM GoroutinesApart == Spec => []NoRaces
BY FrameInvHolds, FrameInvImplies, PTL

\* No running system queries an archetype that a command staged before, or one a
\* system beside it stages, is about to change (compiler.go's Sync nodes).
THEOREM RowsSettled == Spec => []QueriesSettled
BY FrameInvHolds, FrameInvImplies, PTL

\* Every system runs exactly once in a frame, and after all it has to wait for
\* (compiler.go's sort of phases and systems).
THEOREM EachOnceInOrder == Spec => []RunsInOrder
BY FrameInvHolds, FrameInvImplies, PTL

\* The executor never meets a plan it refuses, and no frame ends with commands
\* that were not applied (executor.go's "plan/runtime mismatch").
THEOREM PlanIsFollowed == Spec => []PlanHolds
BY FrameInvHolds, FrameInvImplies, PTL

\* Under the scheduler, too, the world stays sound, and a validated batch is
\* applied as a whole (executor.go, core/sync.go).
THEOREM SchedulerKeepsWorld == Spec => [](WorldInv /\ CommitNeverFails)
<1>1. FrameInv => WorldInv /\ CommitNeverFails
  BY DEF FrameInv, CommitNeverFails
<1>. QED  BY <1>1, FrameInvHolds, PTL

LEMMA FrameStoreStep ==
  ASSUME FrameInv, Bounded, [Next]_vars
  PROVE  [Store!Next]_(Store!vars) /\ Bounded'
<1>1. CASE LeaveWave
  <2>1. UNCHANGED storage
    BY <1>1, LeaveWaveKeeps
  <2>. QED  BY <2>1, StorageStutters
<1>2. CASE [WorldNext]_worldVars
  BY <1>2, StoreStep DEF FrameInv
<1>3. LeaveWave \/ [WorldNext]_worldVars
  <2>1. Compile \/ BeginFrame \/ LeaveSync \/ EnterWave \/ EndFrame => UNCHANGED worldVars
    BY DEF Compile, BeginFrame, LeaveSync, EnterWave, EndFrame
  <2>2. EnterSync \/ SyncGoesOn \/ Between => [WorldNext]_worldVars
    BY DEF EnterSync, SyncGoesOn, Between, WorldNext
  <2>3. \A p, after : AddPhase(p, after) => UNCHANGED worldVars
    BY DEF AddPhase
  <2>4. \A p, d : AddSystem(p, d) => UNCHANGED worldVars
    BY DEF AddSystem
  <2>5. \A s : EndRun(s) => UNCHANGED worldVars
    BY DEF EndRun
  <2>6. \A s, b : StageCommand(s, b) => UNCHANGED worldVars
    BY DEF StageCommand
  <2>7. UNCHANGED vars => UNCHANGED worldVars
    BY DEF vars
  <2>. QED  BY <2>1, <2>2, <2>3, <2>4, <2>5, <2>6, <2>7 DEF Next
<1>. QED  BY <1>1, <1>2, <1>3

\* Under the scheduler the world still implements the map from handles to
\* bundles: phases, waves and Syncs add no step that is not one of EntityStore.
THEOREM SchedulerImplementsStore == Spec => ImplementsStore
<1>1. Init => Store!Init /\ Bounded
  BY StoreInit DEF Init
<1>2. FrameInv /\ Bounded /\ [Next]_vars => [Store!Next]_(Store!vars) /\ Bounded'
  BY FrameStoreStep
<1>. QED  BY <1>1, <1>2, FrameInvHolds, PTL DEF Spec, ImplementsStore, Store!Spec
=============================================================================
