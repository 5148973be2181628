-------------------------- MODULE WorldMirrorProofs --------------------------
(***************************************************************************)
(* Proofs about WorldMirror: what the engine believes of a bot's columns,  *)
(* entities and inventory once all observations on their way are applied.  *)
(*                                                                         *)
(* Observations are applied one at a time and some of them list changes    *)
(* that are applied one at a time as well.  Those lists are dealt with     *)
(* first.                                                                  *)
(***************************************************************************)
EXTENDS WorldMirror, ListLemmas

-----------------------------------------------------------------------------
(* Lists of changes *)

Update == [slot : Slots, item : Items \cup {None}]

Bag == [Slots -> Items \cup {None}]

\* Each update is written over the ones before it.
LEMMA WrittenUnfolds ==
  ASSUME NEW slots \in Bag, NEW updates \in Seq(Update)
  PROVE  \E h : /\ h[0] = slots
                /\ \A i \in 1 .. Len(updates) :
                     h[i] = [h[i - 1] EXCEPT ![updates[i].slot] = updates[i].item]
                /\ Written(slots, updates) = h[Len(updates)]
<1>. DEFINE n == Len(updates)
            Op(all, u) == [all EXCEPT ![u.slot] = u.item]
            F == [p \in Bag \X Update |-> Op(p[1], p[2])]
            Rec(g) == g = [s \in SUBSET (1 .. n) |->
                             IF s = {} THEN slots ELSE Op(g[s \ {Max(s)}], updates[Max(s)])]
<1>1. n \in Nat /\ DOMAIN updates = 1 .. n /\ \A i \in 1 .. n : updates[i] \in Update
  BY LenProperties, ElementOfSeq
<1>2. Written(slots, updates) = LET g == CHOOSE g : Rec(g) IN g[1 .. n]
  BY <1>1 DEF Written, FoldLeft, MapThenFoldSet
<1>3. F \in [Bag \X Update -> Bag]
  BY DEF Bag, Update
<1>4. \A all \in Bag, u \in Update : F[<<all, u>>] = Op(all, u)
  OBVIOUS
<1>. HIDE DEF F, Op
<1>5. PICK f \in [SUBSET (1 .. n) -> Bag] : FoldOf(f, F, slots, updates)
  BY <1>3, FoldExists
<1>6. \A s \in SUBSET (1 .. n) : s # {} => Max(s) \in s
  <2>1. \A s \in SUBSET (1 .. n) : s \subseteq 0 .. n
    BY <1>1
  <2>. QED  BY <1>1, <2>1, Greatest
<1>7. Rec(f)
  <2>1. ASSUME NEW s \in SUBSET (1 .. n), s # {}
        PROVE  f[s] = Op(f[s \ {Max(s)}], updates[Max(s)])
    <3>1. Max(s) \in 1 .. n /\ s \ {Max(s)} \in SUBSET (1 .. n)
      BY <1>6, <2>1
    <3>2. f[s \ {Max(s)}] \in Bag /\ updates[Max(s)] \in Update
      BY <1>1, <3>1
    <3>. QED  BY <1>4, <1>5, <2>1, <3>2 DEF FoldOf
  <2>. QED  BY <1>5, <2>1 DEF FoldOf
<1>. DEFINE g == CHOOSE g : Rec(g)
<1>8. Rec(g)
  BY <1>7
<1>. HIDE DEF g
<1>9. \A s \in SUBSET (1 .. n) :
        g[s] = IF s = {} THEN slots ELSE Op(g[s \ {Max(s)}], updates[Max(s)])
  BY <1>8
<1>. HIDE DEF Rec
<1>. DEFINE h == [i \in 0 .. n |-> g[1 .. i]]
<1>10. h[0] = slots
  <2>1. 1 .. 0 = {} /\ 1 .. 0 \in SUBSET (1 .. n) /\ 0 \in 0 .. n
    BY <1>1
  <2>. QED  BY <1>9, <2>1
<1>11. ASSUME NEW i \in 1 .. n
       PROVE  h[i] = Op(h[i - 1], updates[i])
  <2>1. i \in 1 .. i /\ 1 .. i \in SUBSET (1 .. n) /\ 1 .. i \subseteq 0 .. n
    BY <1>1
  <2>2. Max(1 .. i) \in 1 .. i /\ i =< Max(1 .. i)
    BY <1>1, <2>1, Greatest
  <2>3. Max(1 .. i) = i /\ (1 .. i) \ {i} = 1 .. (i - 1)
    BY <1>1, <2>2
  <2>4. i \in 0 .. n /\ i - 1 \in 0 .. n
    BY <1>1
  <2>. QED  BY <1>9, <2>1, <2>3, <2>4
<1>12. Written(slots, updates) = h[n]
  BY <1>1, <1>2 DEF g
<1>. HIDE DEF h
<1>. QED  BY <1>10, <1>11, <1>12 DEF Op

\* Of each slot the last update counts: what is told of it is what the task has
\* left in it (coalesceInventoryUpdates).
THEOREM CoalescedIsWritten ==
  ASSUME NEW slots \in Bag, NEW updates \in Seq(Update)
  PROVE  /\ Written(slots, updates) \in Bag
         /\ DOMAIN Coalesce(updates) \subseteq Slots
         /\ \A s \in DOMAIN Coalesce(updates) :
              Coalesce(updates)[s] = Written(slots, updates)[s]
<1>. DEFINE n == Len(updates)
<1>1. n \in Nat /\ DOMAIN updates = 1 .. n /\ \A i \in 1 .. n : updates[i] \in Update
  BY LenProperties, ElementOfSeq
<1>2. PICK h : /\ h[0] = slots
               /\ \A i \in 1 .. n :
                    h[i] = [h[i - 1] EXCEPT ![updates[i].slot] = updates[i].item]
               /\ Written(slots, updates) = h[n]
  BY WrittenUnfolds
<1>. DEFINE LastOf(i, j, s) == /\ updates[j].slot = s
                             /\ \A k \in 1 .. i : updates[k].slot = s => k =< j
            P(i) == /\ h[i] \in Bag
                    /\ \A s \in Slots, j \in 1 .. i : LastOf(i, j, s) => h[i][s] = updates[j].item
            S == {i \in 0 .. n : P(i)}
<1>3. 0 \in S
  BY <1>1, <1>2
<1>4. ASSUME NEW i \in 1 .. n, i - 1 \in S
      PROVE  i \in S
  <2>. DEFINE b == h[i - 1]
              u == updates[i]
  <2>0. P(i - 1) /\ i - 1 \in Nat
    BY <1>1, <1>4
  <2>1. b \in Bag /\ u \in Update /\ h[i] = [b EXCEPT ![u.slot] = u.item] /\ i - 1 \in Nat
    BY <1>1, <1>2, <2>0
  <2>2. \A s \in Slots, j \in 1 .. (i - 1) : LastOf(i - 1, j, s) => b[s] = updates[j].item
    BY <1>4
  <2>. HIDE DEF b, u
  <2>3. h[i] \in Bag
    BY <2>1 DEF Bag, Update
  <2>4. ASSUME NEW s \in Slots, NEW j \in 1 .. i, LastOf(i, j, s)
        PROVE  h[i][s] = updates[j].item
    <3>1. CASE u.slot = s
      <4>1. j = i
        BY <2>4, <3>1, <1>1 DEF u
      <4>. QED  BY <2>1, <3>1, <4>1 DEF Bag, u
    <3>2. CASE u.slot # s
      <4>1. j # i
        BY <2>4, <3>2 DEF u
      <4>2. j \in 1 .. (i - 1) /\ LastOf(i - 1, j, s)
        BY <1>1, <2>1, <2>4, <4>1
      <4>. QED  BY <2>1, <2>2, <3>2, <4>2 DEF Bag
    <3>. QED  BY <3>1, <3>2
  <2>. QED  BY <1>1, <2>3, <2>4
<1>. HIDE DEF S
<1>5. 0 .. n \subseteq S
  BY <1>1, <1>3, <1>4, Induction
<1>6. P(n)
  BY <1>1, <1>5 DEF S
<1>7. ASSUME NEW s \in DOMAIN Coalesce(updates)
      PROVE  s \in Slots /\ Coalesce(updates)[s] = Written(slots, updates)[s]
  <2>. DEFINE T == {i \in 1 .. n : updates[i].slot = s}
              Is(j) == updates[j].slot = s /\ \A k \in DOMAIN updates :
                                                updates[k].slot = s => k =< j
              last == CHOOSE i \in DOMAIN updates : Is(i)
  <2>1. T # {} /\ T \subseteq 0 .. n /\ s \in Slots
    BY <1>1, <1>7 DEF Coalesce, Update
  <2>2. PICK m \in T : \A k \in T : k =< m
    BY <1>1, <2>1, Greatest
  <2>3. m \in DOMAIN updates /\ Is(m)
    BY <1>1, <2>2
  <2>4. last \in DOMAIN updates /\ Is(last)
    BY <2>3
  <2>5. Coalesce(updates)[s] = updates[last].item
    BY <1>7 DEF Coalesce
  <2>. HIDE DEF last
  <2>6. last \in 1 .. n /\ LastOf(n, last, s)
    BY <1>1, <2>4
  <2>. QED  BY <1>2, <1>6, <2>1, <2>5, <2>6
<1>. QED  BY <1>2, <1>6, <1>7

BlockRecord == [chunk : Chunks, block : Blocks, state : States]

\* The columns a view of geometry g may have.
Columns(g) == [Chunks -> {None} \cup (IF g = None THEN {} ELSE Column(g))]

LEMMA ColumnsOf ==
  ASSUME NEW g \in Geometries \cup {None}, NEW columns \in Columns(g), NEW c \in Chunks,
         columns[c] # None
  PROVE  g \in Geometries /\ columns[c] \in [Within[g] -> States]
BY DEF Columns, Column

\* One record changes one block of a column that is there.
LEMMA SetBlockSets ==
  ASSUME world.geometry \in Geometries \cup {None}, NEW columns \in Columns(world.geometry),
         NEW r \in BlockRecord
  PROVE  /\ SetBlock(columns, r) \in Columns(world.geometry)
         /\ \A c \in Chunks :
              SetBlock(columns, r)[c] =
                IF columns[c] = None THEN None
                ELSE [b \in Within[world.geometry] |->
                        IF c = r.chunk /\ b = r.block THEN r.state ELSE columns[c][b]]
<1>. DEFINE g == world.geometry
            set == [columns[r.chunk] EXCEPT ![r.block] = r.state]
<1>1. r.chunk \in Chunks /\ r.state \in States
  BY DEF BlockRecord
<1>2. \A c \in Chunks : columns[c] # None =>
        columns[c] = [b \in Within[g] |-> columns[c][b]]
  BY ColumnsOf
<1>3. CASE columns[r.chunk] = None \/ r.block \notin Within[g]
  <2>1. SetBlock(columns, r) = columns
    BY <1>3 DEF SetBlock
  <2>2. ASSUME NEW c \in Chunks, columns[c] # None
        PROVE  columns[c] = [b \in Within[g] |->
                               IF c = r.chunk /\ b = r.block THEN r.state ELSE columns[c][b]]
    <3>1. \A b \in Within[g] : ~(c = r.chunk /\ b = r.block)
      BY <1>3, <2>2
    <3>. QED  BY <1>2, <2>2, <3>1
  <2>. QED  BY <2>1, <2>2
<1>4. CASE columns[r.chunk] # None /\ r.block \in Within[g]
  <2>1. SetBlock(columns, r) = [columns EXCEPT ![r.chunk] = set]
    BY <1>4 DEF SetBlock
  <2>2. g \in Geometries /\ columns[r.chunk] \in [Within[g] -> States]
    BY <1>1, <1>4, ColumnsOf
  <2>3. set \in Column(g) /\ g # None
    BY <1>1, <2>2, TelemetryAssumption DEF Column
  <2>. HIDE DEF set
  <2>4. SetBlock(columns, r) \in Columns(g)
    BY <1>1, <2>1, <2>3 DEF Columns
  <2>5. set = [b \in Within[g] |-> IF b = r.block THEN r.state ELSE columns[r.chunk][b]]
    BY <2>2 DEF set
  <2>6. ASSUME NEW c \in Chunks
        PROVE  SetBlock(columns, r)[c] =
                 IF columns[c] = None THEN None
                 ELSE [b \in Within[g] |->
                         IF c = r.chunk /\ b = r.block THEN r.state ELSE columns[c][b]]
    <3>1. CASE c = r.chunk
      <4>1. SetBlock(columns, r)[c] = set
        BY <1>1, <2>1, <3>1 DEF Columns
      <4>. QED  BY <1>4, <2>5, <3>1, <4>1
    <3>2. CASE c # r.chunk
      <4>1. SetBlock(columns, r)[c] = columns[c]
        BY <2>1, <3>2 DEF Columns
      <4>. QED  BY <1>2, <3>2, <4>1
    <3>. QED  BY <3>1, <3>2
  <2>. QED  BY <2>4, <2>6
<1>. QED  BY <1>3, <1>4

LEMMA RecordsUnfold ==
  ASSUME world.geometry \in Geometries \cup {None}, NEW columns \in Columns(world.geometry),
         NEW records \in Seq(BlockRecord)
  PROVE  \E h : /\ h[0] = columns
                /\ \A i \in 1 .. Len(records) : h[i] = SetBlock(h[i - 1], records[i])
                /\ FoldLeft(SetBlock, columns, records) = h[Len(records)]
<1>. DEFINE n == Len(records)
            X == Columns(world.geometry)
            F == [p \in X \X BlockRecord |-> SetBlock(p[1], p[2])]
            Rec(g) == g = [s \in SUBSET (1 .. n) |->
                             IF s = {} THEN columns
                             ELSE SetBlock(g[s \ {Max(s)}], records[Max(s)])]
<1>1. n \in Nat /\ DOMAIN records = 1 .. n /\ \A i \in 1 .. n : records[i] \in BlockRecord
  BY LenProperties, ElementOfSeq
<1>2. FoldLeft(SetBlock, columns, records) = LET g == CHOOSE g : Rec(g) IN g[1 .. n]
  BY <1>1 DEF FoldLeft, MapThenFoldSet
<1>. HIDE DEF X
<1>3. F \in [X \X BlockRecord -> X]
  BY SetBlockSets DEF X
<1>4. \A b \in X, r \in BlockRecord : F[<<b, r>>] = SetBlock(b, r)
  OBVIOUS
<1>5. columns \in X
  BY DEF X
<1>. HIDE DEF F
<1>6. PICK f \in [SUBSET (1 .. n) -> X] : FoldOf(f, F, columns, records)
  BY <1>3, <1>5, FoldExists
<1>7. \A s \in SUBSET (1 .. n) : s # {} => Max(s) \in s
  <2>1. \A s \in SUBSET (1 .. n) : s \subseteq 0 .. n
    BY <1>1
  <2>. QED  BY <1>1, <2>1, Greatest
<1>8. Rec(f)
  <2>1. ASSUME NEW s \in SUBSET (1 .. n), s # {}
        PROVE  f[s] = SetBlock(f[s \ {Max(s)}], records[Max(s)])
    <3>1. Max(s) \in 1 .. n /\ s \ {Max(s)} \in SUBSET (1 .. n)
      BY <1>7, <2>1
    <3>2. f[s \ {Max(s)}] \in X /\ records[Max(s)] \in BlockRecord
      BY <1>1, <3>1
    <3>. QED  BY <1>4, <1>6, <2>1, <3>2 DEF FoldOf
  <2>. QED  BY <1>6, <2>1 DEF FoldOf
<1>. DEFINE g == CHOOSE g : Rec(g)
<1>9. Rec(g)
  BY <1>8
<1>. HIDE DEF g
<1>10. \A s \in SUBSET (1 .. n) :
        g[s] = IF s = {} THEN columns ELSE SetBlock(g[s \ {Max(s)}], records[Max(s)])
  BY <1>9
<1>. HIDE DEF Rec
<1>. DEFINE h == [i \in 0 .. n |-> g[1 .. i]]
<1>11. h[0] = columns
  <2>1. 1 .. 0 = {} /\ 1 .. 0 \in SUBSET (1 .. n) /\ 0 \in 0 .. n
    BY <1>1
  <2>. QED  BY <1>10, <2>1
<1>12. ASSUME NEW i \in 1 .. n
       PROVE  h[i] = SetBlock(h[i - 1], records[i])
  <2>1. i \in 1 .. i /\ 1 .. i \in SUBSET (1 .. n) /\ 1 .. i \subseteq 0 .. n
    BY <1>1
  <2>2. Max(1 .. i) \in 1 .. i /\ i =< Max(1 .. i)
    BY <1>1, <2>1, Greatest
  <2>3. Max(1 .. i) = i /\ (1 .. i) \ {i} = 1 .. (i - 1)
    BY <1>1, <2>2
  <2>4. i \in 0 .. n /\ i - 1 \in 0 .. n
    BY <1>1
  <2>. QED  BY <1>10, <2>1, <2>3, <2>4
<1>13. FoldLeft(SetBlock, columns, records) = h[n]
  BY <1>1, <1>2 DEF g
<1>. HIDE DEF h
<1>. QED  BY <1>11, <1>12, <1>13

\* The records of a multi_block_change, applied one after the other, leave each
\* block as its last one says and the others alone (SetBlockStates).
THEOREM RecordsInOrder ==
  ASSUME world.geometry \in Geometries \cup {None}, NEW columns \in Columns(world.geometry),
         NEW records \in Seq(BlockRecord)
  PROVE  /\ FoldLeft(SetBlock, columns, records) = AfterRecords(columns, records)
         /\ AfterRecords(columns, records) \in Columns(world.geometry)
<1>. DEFINE n == Len(records)
            g == world.geometry
<1>1. n \in Nat /\ DOMAIN records = 1 .. n /\ \A i \in 1 .. n : records[i] \in BlockRecord
  BY LenProperties, ElementOfSeq
<1>2. PICK h : /\ h[0] = columns
               /\ \A i \in 1 .. n : h[i] = SetBlock(h[i - 1], records[i])
               /\ FoldLeft(SetBlock, columns, records) = h[n]
  BY RecordsUnfold
<1>. DEFINE Hit(j, c, b) == records[j].chunk = c /\ records[j].block = b
            LastOf(i, j, c, b) == Hit(j, c, b) /\ \A k \in 1 .. i : Hit(k, c, b) => k =< j
            None_(i, c, b) == \A k \in 1 .. i : ~Hit(k, c, b)
            P(i) == /\ h[i] \in Columns(g)
                    /\ \A c \in Chunks : columns[c] = None <=> h[i][c] = None
                    /\ \A c \in Chunks : columns[c] # None =>
                         \A b \in Within[g] :
                           /\ None_(i, c, b) => h[i][c][b] = columns[c][b]
                           /\ \A j \in 1 .. i : LastOf(i, j, c, b) =>
                                h[i][c][b] = records[j].state
            S == {i \in 0 .. n : P(i)}
<1>3. 0 \in S
  BY <1>1, <1>2
<1>4. ASSUME NEW i \in 1 .. n, i - 1 \in S
      PROVE  i \in S
  <2>. DEFINE a == h[i - 1]
              r == records[i]
  <2>1. P(i - 1) /\ i - 1 \in Nat /\ i \in Nat
    BY <1>1, <1>4
  <2>2. h[i] = SetBlock(a, r) /\ a \in Columns(g) /\ r \in BlockRecord
    BY <1>1, <1>2, <2>1
  <2>. HIDE DEF a, r
  <2>3. /\ h[i] \in Columns(g)
        /\ \A c \in Chunks :
             h[i][c] = IF a[c] = None THEN None
                       ELSE [b \in Within[g] |->
                               IF c = r.chunk /\ b = r.block THEN r.state ELSE a[c][b]]
    BY <2>2, SetBlockSets
  <2>4. ASSUME NEW c \in Chunks
        PROVE  columns[c] = None <=> h[i][c] = None
    <3>1. columns[c] = None <=> a[c] = None
      BY <2>1 DEF a
    <3>2. a[c] # None => g \in Geometries /\ h[i][c] \in [Within[g] -> States]
      <4>1. a[c] # None => a[c] \in [Within[g] -> States] /\ g \in Geometries
        BY <2>2, ColumnsOf
      <4>2. r.state \in States
        BY <2>2 DEF BlockRecord
      <4>3. a[c] # None => \A b \in Within[g] :
              (IF c = r.chunk /\ b = r.block THEN r.state ELSE a[c][b]) \in States
        BY <4>1, <4>2
      <4>4. a[c] # None =>
              h[i][c] = [b \in Within[g] |->
                           IF c = r.chunk /\ b = r.block THEN r.state ELSE a[c][b]]
        BY <2>3
      <4>. QED  BY <4>1, <4>3, <4>4
    <3>. QED  BY <2>3, <3>1, <3>2, TelemetryAssumption DEF Column
  <2>5. ASSUME NEW c \in Chunks, columns[c] # None, NEW b \in Within[g]
        PROVE  /\ None_(i, c, b) => h[i][c][b] = columns[c][b]
               /\ \A j \in 1 .. i : LastOf(i, j, c, b) => h[i][c][b] = records[j].state
    <3>0. a[c] # None
      BY <2>1, <2>5 DEF a
    <3>1. h[i][c][b] = IF c = r.chunk /\ b = r.block THEN r.state ELSE a[c][b]
      <4>1. h[i][c] = [d \in Within[g] |->
                         IF c = r.chunk /\ d = r.block THEN r.state ELSE a[c][d]]
        BY <2>3, <2>5, <3>0
      <4>. QED  BY <2>5, <4>1
    <3>2. CASE Hit(i, c, b)
      <4>1. h[i][c][b] = r.state
        BY <3>1, <3>2 DEF r
      <4>2. \A j \in 1 .. i : LastOf(i, j, c, b) => j = i
        BY <3>2, <2>1
      <4>. QED  BY <3>2, <4>1, <4>2, <2>1 DEF r
    <3>3. CASE ~Hit(i, c, b)
      <4>1. h[i][c][b] = a[c][b]
        BY <3>1, <3>3 DEF r
      <4>2. None_(i, c, b) => None_(i - 1, c, b)
        BY <2>1
      <4>3. \A j \in 1 .. i : LastOf(i, j, c, b) => j \in 1 .. (i - 1) /\ LastOf(i - 1, j, c, b)
        BY <2>1, <3>3
      <4>. QED  BY <2>1, <2>5, <4>1, <4>2, <4>3 DEF a
    <3>. QED  BY <3>2, <3>3
  <2>6. P(i)
    BY <2>3, <2>4, <2>5
  <2>. QED  BY <1>1, <2>6
<1>. HIDE DEF S
<1>5. 0 .. n \subseteq S
  BY <1>1, <1>3, <1>4, Induction
<1>6. P(n)
  BY <1>1, <1>5 DEF S
<1>. DEFINE all == AfterRecords(columns, records)
<1>7. ASSUME NEW c \in Chunks
      PROVE  h[n][c] = all[c]
  <2>1. CASE columns[c] = None
    BY <1>6, <2>1 DEF AfterRecords
  <2>2. CASE columns[c] # None
    <3>1. g \in Geometries /\ columns[c] \in [Within[g] -> States]
      BY <2>2, ColumnsOf
    <3>2. h[n][c] \in [Within[g] -> States]
      BY <1>6, <2>2, ColumnsOf
    <3>3. columns[c] # Unreadable /\ DOMAIN columns[c] = Within[g]
      BY <3>1, TelemetryAssumption DEF Column
    <3>4. all[c] = [b \in Within[g] |->
                      LET hits == {i \in DOMAIN records :
                                     records[i].chunk = c /\ records[i].block = b}
                      IN  IF hits = {} THEN columns[c][b]
                          ELSE records[CHOOSE i \in hits : \A j \in hits : j =< i].state]
      BY <2>2, <3>3 DEF AfterRecords
    <3>5. ASSUME NEW b \in Within[g]
          PROVE  h[n][c][b] = all[c][b]
      <4>. DEFINE hits == {i \in DOMAIN records :
                             records[i].chunk = c /\ records[i].block = b}
                  last == CHOOSE i \in hits : \A j \in hits : j =< i
      <4>1. all[c][b] = IF hits = {} THEN columns[c][b] ELSE records[last].state
        BY <3>4
      <4>2. CASE hits = {}
        <5>1. None_(n, c, b)
          BY <1>1, <4>2
        <5>. QED  BY <1>6, <2>2, <4>1, <4>2, <5>1
      <4>3. CASE hits # {}
        <5>1. hits \subseteq 0 .. n
          BY <1>1
        <5>2. \E m \in hits : \A j \in hits : j =< m
          BY <1>1, <4>3, <5>1, Greatest
        <5>3. last \in hits /\ \A j \in hits : j =< last
          BY <5>2
        <5>. HIDE DEF last
        <5>4. last \in 1 .. n /\ LastOf(n, last, c, b)
          BY <1>1, <5>3
        <5>. QED  BY <1>6, <2>2, <4>1, <4>3, <5>4
      <4>. QED  BY <4>2, <4>3
    <3>6. all[c] = [b \in Within[g] |-> all[c][b]]
      BY <3>4
    <3>. HIDE DEF all
    <3>7. h[n][c] = [b \in Within[g] |-> h[n][c][b]]
      BY <3>2
    <3>8. [b \in Within[g] |-> h[n][c][b]] = [b \in Within[g] |-> all[c][b]]
      BY <3>5
    <3>. QED  BY <3>6, <3>7, <3>8
  <2>. QED  BY <2>1, <2>2
<1>8. h[n] = all
  BY <1>6, <1>7 DEF Columns, AfterRecords
<1>. QED  BY <1>2, <1>6, <1>8

-----------------------------------------------------------------------------
(* Types *)

Changes == [added : [Ids -> Places \cup {None}], removed : SUBSET Ids,
            moved : [Ids -> Places \cup {None}]]

Listings == UNION {[S -> Items \cup {None}] : S \in SUBSET Slots}

ChunkLoads ==
  UNION {[kind : {"chunkLoaded"}, chunk : Chunks, geometry : {g},
          column : Column(g) \cup {Unreadable}] : g \in Geometries}

Event ==
  ChunkLoads
  \cup [kind : {"chunkUnloaded"}, chunk : Chunks]
  \cup [kind : {"blockUpdated"}, record : BlockRecord]
  \cup [kind : {"multiBlocksUpdated"}, records : Seq(BlockRecord)]
  \cup [kind : {"entitiesChanged"}, changes : Changes]
  \cup [kind : {"snapshot"}, place : Places \cup {Origin}, slots : Listings, held : Hotbar]
  \cup [kind : {"positionChanged"}, place : Places]
  \cup [kind : {"inventoryChanged"}, slots : Listings, held : Hotbar]

LEMMA EventKinds ==
  ASSUME NEW e \in Event
  PROVE  /\ e.kind = "chunkLoaded" =>
              /\ e.chunk \in Chunks /\ e.geometry \in Geometries
              /\ e.column \in Column(e.geometry) \cup {Unreadable}
         /\ e.kind = "chunkUnloaded" => e.chunk \in Chunks
         /\ e.kind = "blockUpdated" => e.record \in BlockRecord
         /\ e.kind = "multiBlocksUpdated" => e.records \in Seq(BlockRecord)
         /\ e.kind = "entitiesChanged" => e.changes \in Changes
         /\ e.kind \in {"snapshot", "inventoryChanged"} =>
              DOMAIN e.slots \subseteq Slots /\ e.held \in Hotbar
         /\ e.kind = "snapshot" => e.place \in Places \cup {Origin}
         /\ e.kind = "positionChanged" => e.place \in Places
BY DEF Event, ChunkLoads, Listings

\* What is known of the host beyond HostTypeOK.
HostInv ==
  /\ HostTypeOK
  /\ events \in Seq(Event)
  /\ pending # NothingPending => flushing
  /\ online # "no" => game \in Geometries /\ sessions > 0
  /\ sessions = 0 => fading = FALSE /\ events = <<>> /\ pending = NothingPending
  /\ online = "no" => area = NoArea /\ entities = NoEntities
  /\ online = "spawned" => place \in Places

\* The entity batch does not say of an entity in sight that it is gone; it says
\* where it came into sight, unless that is known, and then no move of it but
\* one that its arrival has overtaken.
BatchInv ==
  online # "no" =>
    \A id \in Ids : entities[id] # None =>
      /\ spawnedAt[id] # None
      /\ id \notin pending.removed
      /\ pending.added[id] # None =>
           /\ pending.added[id] = spawnedAt[id]
           /\ id \notin overtaken => pending.moved[id] = None

ViewsInv ==
  /\ ViewsTypeOK
  /\ world = [geometry |-> world.geometry, columns |-> world.columns]
  /\ pockets = [slots |-> pockets.slots, held |-> pockets.held]

LEMMA EmitsOne ==
  ASSUME HostInv, NEW e \in Event, Emit(<<e>>)
  PROVE  events' = Append(events, e) /\ events' \in Seq(Event) /\ Len(events') =< MaxEvents
<1>1. events \o <<e>> = Append(events, e) /\ Len(events \o <<e>>) = Len(events) + 1
  BY DEF HostInv
<1>2. Len(<<e>>) = 1
  OBVIOUS
<1>. QED  BY <1>1, <1>2 DEF HostInv, Emit

LEMMA AreaTyped ==
  ASSUME HostInv
  PROVE  area \in [Chunks -> Column(game) \cup {None, Unreadable}]
BY DEF HostInv, HostTypeOK, NoArea

\* A batch of records leaves a column a column.
LEMMA RecordsKeepTypes ==
  ASSUME HostInv, online # "no", NEW records \in Seq(BlockRecord)
  PROVE  /\ AfterRecords(area, records) \in [Chunks -> Column(game) \cup {None, Unreadable}]
         /\ \A c \in Chunks : area[c] \notin {None, Unreadable} =>
              AfterRecords(area, records)[c] \in Column(game)
<1>1. DOMAIN records = 1 .. Len(records) /\ Len(records) \in Nat
      /\ \A i \in 1 .. Len(records) : records[i].state \in States
  <2>1. \A i \in 1 .. Len(records) : records[i] \in BlockRecord
    BY ElementOfSeq
  <2>. QED  BY <2>1, LenProperties DEF BlockRecord
<1>2. ASSUME NEW c \in Chunks, area[c] \notin {None, Unreadable}
      PROVE  AfterRecords(area, records)[c] \in Column(game)
  <2>1. area[c] \in [Within[game] -> States]
    BY <1>2, AreaTyped DEF Column
  <2>. DEFINE hits(b) == {i \in DOMAIN records : records[i].chunk = c /\ records[i].block = b}
              last(b) == CHOOSE i \in hits(b) : \A j \in hits(b) : j =< i
  <2>2. AfterRecords(area, records)[c] =
          [b \in Within[game] |-> IF hits(b) = {} THEN area[c][b] ELSE records[last(b)].state]
    BY <1>2, <2>1 DEF AfterRecords
  <2>3. ASSUME NEW b \in Within[game], hits(b) # {}
        PROVE  records[last(b)].state \in States
    <3>1. hits(b) \subseteq 0 .. Len(records) /\ hits(b) \subseteq 1 .. Len(records)
      BY <1>1
    <3>2. \E i \in hits(b) : \A j \in hits(b) : j =< i
      BY <1>1, <2>3, <3>1, Greatest
    <3>3. last(b) \in hits(b)
      BY <3>2
    <3>. QED  BY <1>1, <3>1, <3>3
  <2>4. \A b \in Within[game] :
          (IF hits(b) = {} THEN area[c][b] ELSE records[last(b)].state) \in States
    BY <2>1, <2>3
  <2>. HIDE DEF hits, last
  <2>. QED  BY <2>2, <2>4 DEF Column
<1>3. \A c \in Chunks : AfterRecords(area, records)[c] \in Column(game) \cup {None, Unreadable}
  <2>1. \A c \in Chunks : area[c] \in {None, Unreadable} =>
          AfterRecords(area, records)[c] \in {None, Unreadable}
    BY DEF AfterRecords
  <2>. QED  BY <1>2, <2>1
<1>4. AfterRecords(area, records) = [c \in Chunks |-> AfterRecords(area, records)[c]]
  BY DEF AfterRecords
<1>. QED  BY <1>2, <1>3, <1>4

LEMMA EventsMade ==
  /\ \A c \in Chunks, g \in Geometries : \A column \in Column(g) \cup {Unreadable} :
       [kind |-> "chunkLoaded", chunk |-> c, geometry |-> g, column |-> column] \in Event
  /\ \A c \in Chunks : [kind |-> "chunkUnloaded", chunk |-> c] \in Event
  /\ \A r \in BlockRecord : [kind |-> "blockUpdated", record |-> r] \in Event
  /\ \A rs \in Seq(BlockRecord) : [kind |-> "multiBlocksUpdated", records |-> rs] \in Event
  /\ \A x \in Changes : [kind |-> "entitiesChanged", changes |-> x] \in Event
  /\ \A p \in Places \cup {Origin}, f \in Listings, h \in Hotbar :
       SnapshotOf(p, f, h) \in Event
  /\ \A p \in Places : [kind |-> "positionChanged", place |-> p] \in Event
  /\ \A f \in Listings, h \in Hotbar :
       [kind |-> "inventoryChanged", slots |-> f, held |-> h] \in Event
BY DEF Event, ChunkLoads, SnapshotOf

LEMMA ListingsMade ==
  /\ <<>> \in Listings
  /\ \A f \in Bag : f \in Listings
  /\ \A updates \in Seq(Update) : Coalesce(updates) \in Listings
<1>1. \A S \in SUBSET Slots : \A f \in [S -> Items \cup {None}] : f \in Listings
  BY DEF Listings
<1>2. <<>> \in [{} -> Items \cup {None}]
  OBVIOUS
<1>3. ASSUME NEW updates \in Seq(Update)
      PROVE  Coalesce(updates) \in Listings
  <2>. DEFINE S == {updates[i].slot : i \in DOMAIN updates}
              Is(s, j) == updates[j].slot = s /\ \A k \in DOMAIN updates :
                                                   updates[k].slot = s => k =< j
              last(s) == CHOOSE i \in DOMAIN updates : Is(s, i)
  <2>1. /\ DOMAIN updates = 1 .. Len(updates) /\ Len(updates) \in Nat
        /\ \A i \in DOMAIN updates : updates[i] \in Update
    BY LenProperties, ElementOfSeq
  <2>2. S \in SUBSET Slots
    BY <2>1 DEF Update
  <2>3. ASSUME NEW s \in S
        PROVE  updates[last(s)].item \in Items \cup {None}
    <3>. DEFINE T == {i \in 1 .. Len(updates) : updates[i].slot = s}
    <3>1. T # {} /\ T \subseteq 0 .. Len(updates)
      BY <2>1
    <3>2. PICK m \in T : \A k \in T : k =< m
      BY <2>1, <3>1, Greatest
    <3>3. m \in DOMAIN updates /\ Is(s, m)
      BY <2>1, <3>2
    <3>4. last(s) \in DOMAIN updates
      BY <3>3
    <3>. QED  BY <2>1, <3>4 DEF Update
  <2>4. Coalesce(updates) = [s \in S |-> updates[last(s)].item]
    BY DEF Coalesce
  <2>. HIDE DEF S, last
  <2>. QED  BY <1>1, <2>2, <2>3, <2>4
<1>. QED  BY <1>1, <1>2, <1>3 DEF Bag

\* Sessions begin and end.
LEMMA HostSessions ==
  ASSUME HostInv, Join \/ Spawn \/ Lost \/ OldBotEnds \/ HostDies
  PROVE  HostInv'
<1>. USE DEF HostInv, HostTypeOK
<1>1. CASE Join
  <2>1. /\ online = "no" /\ online' = "joining" /\ game' \in Geometries
        /\ sessions' = sessions + 1 /\ sessions < MaxSessions
        /\ visited' = (visited \cup {game}) \ {None}
        /\ UNCHANGED <<fading, area, left, events, entities, spawnedAt, pending, flushing,
                       overtaken, place, lastMotion, rested, inventory, held, strayed>>
    BY <1>1 DEF Join, creatures, motion, bag
  <2>2. /\ visited' \subseteq Geometries /\ sessions' \in 0 .. MaxSessions /\ sessions' > 0
    BY <2>1, TelemetryAssumption
  <2>3. area' = NoArea
    BY <2>1
  <2>. QED  BY <2>1, <2>2, <2>3
<1>2. CASE Spawn
  <2>. DEFINE b == SnapshotOf(place', inventory, held)
  <2>1. /\ online = "joining" /\ online' = "spawned" /\ place' \in Places
        /\ lastMotion' = None /\ rested' = TRUE /\ strayed' = FALSE
        /\ Emit(<<Spawned, b>>)
        /\ UNCHANGED <<fading, sessions, left, game, area, visited, entities, spawnedAt, pending,
                       flushing, overtaken, inventory, held>>
    BY <1>2 DEF Spawn, terrain, creatures, bag
  <2>2. Spawned \in Event /\ b \in Event
    BY <2>1, EventsMade, ListingsMade, TelemetryAssumption DEF Spawned, Bag
  <2>3. events' \in Seq(Event) /\ Len(events') =< MaxEvents
    <3>. HIDE DEF b
    <3>1. <<Spawned, b>> \in Seq(Event) /\ events' = events \o <<Spawned, b>>
          /\ Len(events) + Len(<<Spawned, b>>) =< MaxEvents
      BY <2>1, <2>2 DEF Emit
    <3>. QED  BY <3>1, ConcatProperties
  <2>. HIDE DEF b
  <2>4. sessions > 0 /\ game \in Geometries /\ sessions # 0
    BY <2>1
  <2>5. HostTypeOK'
    BY <2>1, <2>3
  <2>. QED  BY <2>1, <2>3, <2>4, <2>5 DEF HostInv
<1>3. CASE Lost
  <2>1. /\ Leave /\ fading' \in BOOLEAN /\ sessions > 0
        /\ UNCHANGED <<pending, flushing, lastMotion, rested, strayed, events>>
    BY <1>3 DEF Lost
  <2>. QED  BY <2>1, TelemetryAssumption DEF Leave, NoArea, NoEntities, EmptyInventory
<1>5. CASE OldBotEnds
  BY <1>5, TelemetryAssumption DEF OldBotEnds, terrain, creatures, motion, bag
<1>4. CASE HostDies
  <2>1. PICK n \in 0 .. Len(events) : events' = SubSeq(events, 1, n)
    BY <1>4 DEF HostDies
  <2>2. events' \in Seq(Event) /\ Len(events') =< MaxEvents
    <3>1. Len(events) \in Nat /\ \A i \in 1 .. n : events[i] \in Event
      BY ElementOfSeq
    <3>2. events' \in Seq(Event) /\ Len(events') = IF 1 =< n THEN n - 1 + 1 ELSE 0
      BY <2>1, <3>1, SubSeqProperties
    <3>. QED  BY <2>1, <3>1, <3>2, TelemetryAssumption
  <2>3. /\ Leave /\ pending' = NothingPending /\ flushing' = FALSE
        /\ lastMotion' = None /\ rested' = TRUE /\ fading' = FALSE /\ strayed' = strayed
    BY <1>4 DEF HostDies
  <2>4. sessions' = 0 => events' = <<>>
    <3>1. sessions' = 0 => Len(events) = 0
      BY <2>3 DEF Leave
    <3>. QED  BY <2>1, <3>1
  <2>. QED  BY <2>2, <2>3, <2>4, TelemetryAssumption
            DEF Leave, NoArea, NoEntities, EmptyInventory, NothingPending
<1>. QED  BY <1>1, <1>2, <1>3, <1>4, <1>5

LEMMA ServerStep ==
  ASSUME HostInv, NEW stream \in Streams, ServerActs(stream)
  PROVE  /\ online # "no" /\ game \in Geometries /\ sessions > 0
         /\ left' \in [Streams -> Nat] /\ UNCHANGED <<online, fading, sessions>>
BY DEF HostInv, HostTypeOK, ServerActs, Happens

LEMMA OldBotStep ==
  ASSUME HostInv, NEW stream \in Streams, OldBotActs(stream)
  PROVE  /\ sessions > 0 /\ left' \in [Streams -> Nat] /\ UNCHANGED <<online, fading, sessions>>
<1>1. sessions # 0 /\ sessions \in Nat
  BY TelemetryAssumption DEF HostInv, HostTypeOK, OldBotActs
<1>. QED  BY <1>1 DEF HostInv, HostTypeOK, OldBotActs, Happens

LEMMA HostTerrain ==
  ASSUME HostInv, ChunkLoad \/ ChunkUnload \/ BlockUpdate \/ MultiBlockUpdate \/ ChangeDimension
  PROVE  HostInv'
<1>1. /\ online # "no" /\ game \in Geometries /\ sessions > 0 /\ left' \in [Streams -> Nat]
      /\ UNCHANGED <<online, fading, sessions, entities, spawnedAt, pending, flushing, overtaken,
                     place, lastMotion, rested, inventory, held, strayed>>
  BY ServerStep DEF ChunkLoad, ChunkUnload, BlockUpdate, MultiBlockUpdate, ChangeDimension,
                    creatures, motion, bag, Streams
<1>2. SUFFICES /\ game' \in Geometries /\ visited' \subseteq Geometries
               /\ area' = NoArea \/ area' \in [Chunks -> Column(game') \cup {None, Unreadable}]
               /\ events' \in Seq(Event) /\ Len(events') =< MaxEvents
  BY <1>1 DEF HostInv, HostTypeOK
<1>3. ASSUME UNCHANGED <<game, visited>>,
             area' \in [Chunks -> Column(game) \cup {None, Unreadable}],
             NEW e \in Event, Emit(<<e>>)
      PROVE  /\ game' \in Geometries /\ visited' \subseteq Geometries
             /\ area' = NoArea \/ area' \in [Chunks -> Column(game') \cup {None, Unreadable}]
             /\ events' \in Seq(Event) /\ Len(events') =< MaxEvents
  BY <1>1, <1>3, EmitsOne DEF HostInv, HostTypeOK
<1>4. CASE ChunkLoad
  <2>1. PICK c \in Chunks, column \in Column(game) \cup {Unreadable} :
          area' = [area EXCEPT ![c] = column] /\ Emit(<<ChunkLoaded(c, column)>>)
    BY <1>4 DEF ChunkLoad
  <2>2. ChunkLoaded(c, column) \in Event
    BY <1>1, EventsMade DEF ChunkLoaded
  <2>3. area' \in [Chunks -> Column(game) \cup {None, Unreadable}]
    BY <2>1, AreaTyped
  <2>. QED  BY <1>3, <1>4, <2>1, <2>2, <2>3 DEF ChunkLoad
<1>5. CASE ChunkUnload
  <2>1. PICK c \in Chunks :
          area' = [area EXCEPT ![c] = None] /\ Emit(<<[kind |-> "chunkUnloaded", chunk |-> c]>>)
    BY <1>5 DEF ChunkUnload
  <2>2. area' \in [Chunks -> Column(game) \cup {None, Unreadable}]
    BY <2>1, AreaTyped
  <2>. QED  BY <1>3, <1>5, <2>1, <2>2, EventsMade DEF ChunkUnload
<1>6. CASE BlockUpdate
  <2>1. PICK c \in Chunks, b \in Within[game], s \in States :
          LET record == [chunk |-> c, block |-> b, state |-> s]
          IN  area' = AfterRecords(area, <<record>>)
              /\ Emit(<<[kind |-> "blockUpdated", record |-> record]>>)
    BY <1>6 DEF BlockUpdate
  <2>. DEFINE record == [chunk |-> c, block |-> b, state |-> s]
  <2>2. record \in BlockRecord /\ <<record>> \in Seq(BlockRecord)
    BY <1>1, TelemetryAssumption DEF BlockRecord
  <2>. HIDE DEF record
  <2>3. area' \in [Chunks -> Column(game) \cup {None, Unreadable}]
    BY <1>1, <2>1, <2>2, RecordsKeepTypes DEF record
  <2>. QED  BY <1>3, <1>6, <2>1, <2>2, <2>3, EventsMade DEF BlockUpdate, record
<1>7. CASE MultiBlockUpdate
  <2>1. PICK records \in BlockBatches :
          /\ area' = AfterRecords(area, records)
          /\ Emit(<<[kind |-> "multiBlocksUpdated", records |-> records]>>)
    BY <1>7 DEF MultiBlockUpdate
  <2>2. records \in Seq(BlockRecord)
    BY TelemetryAssumption DEF BlockRecord
  <2>3. area' \in [Chunks -> Column(game) \cup {None, Unreadable}]
    BY <1>1, <2>1, <2>2, RecordsKeepTypes
  <2>. QED  BY <1>3, <1>7, <2>1, <2>2, <2>3, EventsMade DEF MultiBlockUpdate
<1>8. CASE ChangeDimension
  BY <1>1, <1>8 DEF ChangeDimension, HostInv, HostTypeOK
<1>. QED  BY <1>4, <1>5, <1>6, <1>7, <1>8

LEMMA HostCreatures ==
  ASSUME HostInv, BatchInv, EntitySpawn \/ EntityGone \/ EntityMoved
  PROVE  HostInv' /\ BatchInv'
<1>1. /\ online # "no" /\ sessions > 0 /\ left' \in [Streams -> Nat] /\ flushing' = TRUE
      /\ UNCHANGED <<online, fading, sessions, events, game, area, visited, place, lastMotion,
                     rested, inventory, held, strayed>>
  BY ServerStep DEF EntitySpawn, EntityGone, EntityMoved, Schedule, terrain, motion, bag, Streams
<1>2. /\ entities \in [Ids -> Places \cup {None}] /\ spawnedAt \in [Ids -> Places \cup {None}]
      /\ pending \in Changes
  BY DEF HostInv, HostTypeOK, Changes
<1>3. SUFFICES /\ entities' \in [Ids -> Places \cup {None}]
               /\ spawnedAt' \in [Ids -> Places \cup {None}]
               /\ pending' \in Changes
               /\ overtaken' \subseteq Ids
               /\ BatchInv'
  BY <1>1 DEF HostInv, HostTypeOK, Changes
<1>0. overtaken \subseteq Ids
  BY DEF HostInv, HostTypeOK
<1>4. CASE EntitySpawn
  <2>1. PICK id \in Ids, p \in Places :
          /\ entities' = [entities EXCEPT ![id] = p]
          /\ spawnedAt' = [spawnedAt EXCEPT ![id] = p]
          /\ pending' = [pending EXCEPT !.added[id] = p, !.removed = @ \ {id}]
          /\ overtaken' = IF pending.moved[id] # None THEN overtaken \cup {id}
                          ELSE overtaken \ {id}
    BY <1>4 DEF EntitySpawn, Noted
  <2>2. /\ pending'.added = [pending.added EXCEPT ![id] = p]
        /\ pending'.removed = pending.removed \ {id} /\ pending'.moved = pending.moved
        /\ pending' \in Changes
    BY <1>2, <2>1 DEF Changes
  <2>3. p # None
    BY TelemetryAssumption
  <2>. QED  BY <1>0, <1>1, <1>2, <2>1, <2>2, <2>3 DEF BatchInv, Changes
<1>5. CASE EntityGone
  <2>1. PICK id \in Ids :
          /\ entities[id] # None
          /\ entities' = [entities EXCEPT ![id] = None]
          /\ spawnedAt' = [spawnedAt EXCEPT ![id] = None]
          /\ pending' = [pending EXCEPT !.added[id] = None, !.moved[id] = None,
                                        !.removed = @ \cup {id}]
          /\ overtaken' = overtaken \ {id}
    BY <1>5 DEF EntityGone
  <2>2. /\ pending'.added = [pending.added EXCEPT ![id] = None]
        /\ pending'.removed = pending.removed \cup {id}
        /\ pending'.moved = [pending.moved EXCEPT ![id] = None]
        /\ pending' \in Changes
    BY <1>2, <2>1 DEF Changes
  <2>. QED  BY <1>0, <1>1, <1>2, <2>1, <2>2 DEF BatchInv, Changes
<1>6. CASE EntityMoved
  <2>1. PICK id \in Ids, p \in Places :
          /\ entities[id] \notin {None, p}
          /\ entities' = [entities EXCEPT ![id] = p]
          /\ IF pending.added[id] # None THEN UNCHANGED <<pending, overtaken>>
             ELSE /\ pending' = [pending EXCEPT !.moved[id] = p]
                  /\ overtaken' = overtaken \ {id}
    BY <1>6 DEF EntityMoved
  <2>2. spawnedAt' = spawnedAt /\ p # None
    BY <1>6, TelemetryAssumption DEF EntityMoved
  <2>3. /\ pending'.added = pending.added /\ pending'.removed = pending.removed
        /\ pending'.moved = IF pending.added[id] # None THEN pending.moved
                            ELSE [pending.moved EXCEPT ![id] = p]
        /\ pending' \in Changes
    BY <1>2, <2>1 DEF Changes
  <2>. QED  BY <1>0, <1>1, <1>2, <2>1, <2>2, <2>3 DEF BatchInv, Changes
<1>. QED  BY <1>4, <1>5, <1>6

LEMMA HostFlush ==
  ASSUME HostInv, BatchInv, Flush
  PROVE  HostInv' /\ BatchInv'
<1>1. /\ flushing' = FALSE /\ pending' = NothingPending
      /\ UNCHANGED <<online, fading, sessions, left, entities, spawnedAt, overtaken, game, area,
                     visited, place, lastMotion, rested, inventory, held, strayed>>
  BY DEF Flush, terrain, motion, bag
<1>2. /\ events' \in Seq(Event) /\ Len(events') =< MaxEvents
      /\ sessions = 0 => events' = events
  <2>1. CASE pending = NothingPending
    BY <2>1 DEF Flush, HostInv, HostTypeOK
  <2>2. CASE pending # NothingPending
    <3>1. [kind |-> "entitiesChanged", changes |-> pending] \in Event
      BY EventsMade DEF HostInv, HostTypeOK, Changes
    <3>. QED  BY <2>2, <3>1, EmitsOne DEF Flush, HostInv
  <2>. QED  BY <2>1, <2>2
<1>3. NothingPending \in Changes /\ \A id \in Ids :
        /\ NothingPending.added[id] = None /\ NothingPending.moved[id] = None
        /\ id \notin NothingPending.removed
  BY DEF NothingPending, NoEntities, Changes
<1>4. HostInv'
  BY <1>1, <1>2, <1>3 DEF HostInv, HostTypeOK, Changes
<1>5. BatchInv'
  BY <1>1, <1>3 DEF BatchInv
<1>. QED  BY <1>4, <1>5

LEMMA HostBag ==
  ASSUME HostInv, InventoryChange \/ StrayInventory
  PROVE  HostInv'
<1>1. /\ sessions > 0 /\ left' \in [Streams -> Nat] /\ strayed' \in BOOLEAN
      /\ UNCHANGED <<online, fading, sessions, game, area, visited, entities, spawnedAt, pending,
                     flushing, overtaken, place, lastMotion, rested>>
  BY ServerStep, OldBotStep
     DEF InventoryChange, StrayInventory, terrain, creatures, motion, Streams
<1>2. PICK updates \in SlotBatches, h \in Hotbar :
        /\ \/ inventory' = Written(inventory, updates) /\ held' = h
           \/ UNCHANGED <<inventory, held>>
        /\ EmitInventory(updates, h)
  BY DEF InventoryChange, StrayInventory
<1>3. updates \in Seq(Update) /\ inventory \in Bag /\ held \in Hotbar
  BY TelemetryAssumption DEF Update, Bag, HostInv, HostTypeOK
<1>4. inventory' \in Bag /\ held' \in Hotbar
  BY <1>2, <1>3, CoalescedIsWritten
<1>5. events' \in Seq(Event) /\ Len(events') =< MaxEvents
  BY <1>2, <1>3, EventsMade, ListingsMade, EmitsOne DEF EmitInventory
<1>. QED  BY <1>1, <1>4, <1>5 DEF HostInv, HostTypeOK, Bag

LEMMA HostMotion ==
  ASSUME HostInv, Move \/ PhysicsTick \/ StrayMotion \/ Rest
  PROVE  HostInv'
<1>1. UNCHANGED <<online, fading, sessions, game, area, visited, entities, spawnedAt, pending,
                  flushing, overtaken, inventory, held, strayed>>
  BY DEF Move, PhysicsTick, StrayMotion, Rest, ServerActs, OldBotActs, Happens, terrain,
         creatures, bag
<1>2. ASSUME NEW g \in Geometries, NEW p \in Places, NEW force \in BOOLEAN,
             EmitMotionIfChanged(g, p, force)
      PROVE  /\ lastMotion' \in Motion \cup {None} /\ rested' \in BOOLEAN
             /\ events' \in Seq(Event) /\ Len(events') =< MaxEvents
  <2>. DEFINE current == [dimension |-> g, place |-> p]
              e == [kind |-> "positionChanged", place |-> p]
  <2>1. current \in Motion /\ e \in Event
    BY EventsMade DEF Motion
  <2>2. \/ lastMotion' = current /\ rested' = FALSE /\ Emit(<<e>>)
        \/ UNCHANGED <<lastMotion, rested, events>>
    BY <1>2 DEF EmitMotionIfChanged
  <2>. HIDE DEF current, e
  <2>. QED  BY <2>1, <2>2, EmitsOne DEF HostInv, HostTypeOK
<1>3. CASE Move
  <2>1. left' \in [Streams -> Nat] /\ online # "no" /\ game \in Geometries /\ sessions > 0
    BY <1>3, ServerStep DEF Move, Streams
  <2>2. PICK p \in Places, force \in BOOLEAN : place' = p /\ EmitMotionIfChanged(game, p, force)
    BY <1>3 DEF Move
  <2>. QED  BY <1>1, <1>2, <2>1, <2>2 DEF HostInv, HostTypeOK
<1>4. CASE PhysicsTick
  <2>1. /\ place \in Places /\ game \in Geometries /\ sessions > 0
        /\ EmitMotionIfChanged(game, place, FALSE) /\ UNCHANGED <<left, place>>
    BY <1>4 DEF PhysicsTick, HostInv, HostTypeOK
  <2>2. FALSE \in BOOLEAN
    OBVIOUS
  <2>3. /\ lastMotion' \in Motion \cup {None} /\ rested' \in BOOLEAN
        /\ events' \in Seq(Event) /\ Len(events') =< MaxEvents
    BY <1>2, <2>1, <2>2
  <2>. QED  BY <1>1, <2>1, <2>3 DEF HostInv, HostTypeOK
<1>5. CASE StrayMotion
  <2>1. left' \in [Streams -> Nat] /\ sessions > 0 /\ place' = place
    BY <1>5, OldBotStep DEF StrayMotion, Streams
  <2>2. PICK g \in Geometries, p \in Places, force \in BOOLEAN : EmitMotionIfChanged(g, p, force)
    BY <1>5 DEF StrayMotion
  <2>. QED  BY <1>1, <1>2, <2>1, <2>2 DEF HostInv, HostTypeOK
<1>6. CASE Rest
  BY <1>1, <1>6 DEF Rest, HostInv, HostTypeOK
<1>. QED  BY <1>3, <1>4, <1>5, <1>6

LEMMA HostKeeps ==
  ASSUME HostInv, BatchInv, HostNext
  PROVE  HostInv' /\ BatchInv'
<1>1. CASE Join
  <2>1. entities = NoEntities /\ UNCHANGED creatures
    BY <1>1 DEF HostInv, Join
  <2>2. BatchInv'
    BY <2>1 DEF BatchInv, creatures, NoEntities
  <2>. QED  BY <1>1, <2>2, HostSessions
<1>2. CASE Spawn
  <2>1. online = "joining" /\ UNCHANGED creatures
    BY <1>2 DEF Spawn
  <2>2. BatchInv'
    BY <2>1 DEF BatchInv, creatures
  <2>. QED  BY <1>2, <2>2, HostSessions
<1>3. CASE Lost \/ OldBotEnds \/ HostDies
  <2>1. online' = "no"
    BY <1>3 DEF Lost, OldBotEnds, HostDies, Leave
  <2>2. BatchInv'
    BY <2>1 DEF BatchInv
  <2>. QED  BY <1>3, <2>2, HostSessions
<1>4. CASE ChunkLoad \/ ChunkUnload \/ BlockUpdate \/ MultiBlockUpdate \/ ChangeDimension
  <2>1. UNCHANGED creatures /\ UNCHANGED online
    BY <1>4 DEF ChunkLoad, ChunkUnload, BlockUpdate, MultiBlockUpdate, ChangeDimension,
                ServerActs, Happens
  <2>2. BatchInv'
    BY <2>1 DEF BatchInv, creatures
  <2>. QED  BY <1>4, <2>2, HostTerrain
<1>5. CASE InventoryChange \/ StrayInventory \/ Move \/ PhysicsTick \/ StrayMotion \/ Rest
  <2>1. UNCHANGED creatures /\ UNCHANGED online
    BY <1>5 DEF InventoryChange, StrayInventory, Move, PhysicsTick, StrayMotion, Rest, ServerActs,
                OldBotActs, Happens
  <2>2. BatchInv'
    BY <2>1 DEF BatchInv, creatures
  <2>. QED  BY <1>5, <2>2, HostBag, HostMotion
<1>. QED  BY <1>1, <1>2, <1>3, <1>4, <1>5, HostCreatures, HostFlush DEF HostNext

-----------------------------------------------------------------------------
(* Applying an observation *)

\* The parts of the view after an observation, as values.
WithColumn(columns, c, column) == [d \in Chunks |-> IF d = c THEN column ELSE columns[d]]

LoadedInto(view, e) ==
  IF e.column = Unreadable THEN view
  ELSE [geometry |-> view.geometry, columns |-> WithColumn(view.columns, e.chunk, e.column)]

WorldAfter(view, e) ==
  CASE e.kind = "chunkLoaded" ->
         LoadedInto(IF view.geometry = e.geometry THEN view ELSE Begin(e.geometry), e)
    [] e.kind = "chunkUnloaded" ->
         [geometry |-> view.geometry, columns |-> WithColumn(view.columns, e.chunk, None)]
    [] e.kind = "blockUpdated" ->
         [geometry |-> view.geometry, columns |-> AfterRecords(view.columns, <<e.record>>)]
    [] e.kind = "multiBlocksUpdated" ->
         [geometry |-> view.geometry, columns |-> AfterRecords(view.columns, e.records)]
    [] OTHER -> view

SeenAfter(known, e) ==
  IF e.kind = "entitiesChanged" THEN AfterChanges(known, e.changes) ELSE known

PocketsAfter(bag_, e) ==
  IF e.kind \in {"snapshot", "inventoryChanged"} THEN [slots |-> e.slots, held |-> e.held]
  ELSE bag_

TerrainKinds == {"chunkLoaded", "chunkUnloaded", "blockUpdated", "multiBlocksUpdated"}

LEMMA ViewTyped ==
  ASSUME ViewsInv
  PROVE  world.geometry \in Geometries \cup {None} /\ world.columns \in Columns(world.geometry)
BY DEF ViewsInv, ViewsTypeOK, Columns

\* A single record is a batch of one.
LEMMA OneRecord ==
  ASSUME ViewsInv, NEW r \in BlockRecord
  PROVE  /\ SetBlock(world.columns, r) = AfterRecords(world.columns, <<r>>)
         /\ AfterRecords(world.columns, <<r>>) \in Columns(world.geometry)
<1>1. PICK h : /\ h[0] = world.columns
               /\ \A i \in 1 .. Len(<<r>>) : h[i] = SetBlock(h[i - 1], <<r>>[i])
               /\ FoldLeft(SetBlock, world.columns, <<r>>) = h[Len(<<r>>)]
  <2>1. <<r>> \in Seq(BlockRecord)
    OBVIOUS
  <2>. QED  BY <2>1, ViewTyped, RecordsUnfold
<1>2. h[1] = SetBlock(h[0], r) /\ FoldLeft(SetBlock, world.columns, <<r>>) = h[1]
  <2>1. Len(<<r>>) = 1 /\ <<r>>[1] = r /\ 1 \in 1 .. 1 /\ 1 - 1 = 0
    OBVIOUS
  <2>. QED  BY <1>1, <2>1
<1>3. /\ FoldLeft(SetBlock, world.columns, <<r>>) = AfterRecords(world.columns, <<r>>)
      /\ AfterRecords(world.columns, <<r>>) \in Columns(world.geometry)
  <2>1. <<r>> \in Seq(BlockRecord)
    OBVIOUS
  <2>. QED  BY <2>1, ViewTyped, RecordsInOrder
<1>. QED  BY <1>1, <1>2, <1>3

LEMMA AppliedToWorld ==
  ASSUME ViewsInv, NEW e \in Event, Apply(e)
  PROVE  /\ world' = WorldAfter(world, e)
         /\ world' = [geometry |-> world'.geometry, columns |-> world'.columns]
         /\ world'.geometry \in Geometries \cup {None}
         /\ world'.columns \in Columns(world'.geometry)
<1>. DEFINE Made(view) == /\ view = [geometry |-> view.geometry, columns |-> view.columns]
                          /\ view.geometry \in Geometries \cup {None}
                          /\ view.columns \in Columns(view.geometry)
<1>1. Made(world)
  BY ViewTyped DEF ViewsInv
<1>2. \A g, columns : g \in Geometries \cup {None} /\ columns \in Columns(g) =>
        Made([geometry |-> g, columns |-> columns])
  OBVIOUS
<1>3. CASE e.kind = "chunkLoaded"
  <2>. DEFINE view == IF world.geometry = e.geometry THEN world ELSE Begin(e.geometry)
  <2>1. /\ e.chunk \in Chunks /\ e.geometry \in Geometries
        /\ e.column \in Column(e.geometry) \cup {Unreadable}
    BY <1>3, EventKinds
  <2>2. Made(view) /\ view.geometry = e.geometry /\ view.geometry # None
    <3>1. Made(Begin(e.geometry)) /\ Begin(e.geometry).geometry = e.geometry
      BY <2>1 DEF Begin, NoArea, Columns
    <3>. HIDE DEF Made
    <3>. QED  BY <1>1, <2>1, <3>1, TelemetryAssumption
  <2>3. world' = IF e.column = Unreadable THEN view
                 ELSE [view EXCEPT !.columns[e.chunk] = e.column]
    BY <1>3 DEF Apply, ApplyChunkLoad, ViewFor
  <2>4. WorldAfter(world, e) = LoadedInto(view, e)
    BY <1>3 DEF WorldAfter
  <2>. HIDE DEF view
  <2>5. CASE e.column = Unreadable
    <3>1. world' = view /\ WorldAfter(world, e) = view
      BY <2>3, <2>4, <2>5 DEF LoadedInto
    <3>. HIDE DEF Made
    <3>. QED  BY <2>2, <3>1 DEF Made
  <2>6. CASE e.column # Unreadable
    <3>. DEFINE columns == WithColumn(view.columns, e.chunk, e.column)
    <3>1. columns \in Columns(e.geometry)
      BY <2>1, <2>2, <2>6 DEF Columns, WithColumn
    <3>2. columns = [view.columns EXCEPT ![e.chunk] = e.column]
      BY <2>1, <2>2 DEF Columns, WithColumn
    <3>3. world' = [geometry |-> e.geometry, columns |-> columns]
      <4>1. world' = [view EXCEPT !.columns = [@ EXCEPT ![e.chunk] = e.column]]
        BY <2>3, <2>6
      <4>. QED  BY <2>2, <3>2, <4>1
    <3>4. WorldAfter(world, e) = [geometry |-> e.geometry, columns |-> columns]
      BY <2>2, <2>4, <2>6 DEF LoadedInto
    <3>. QED  BY <2>1, <3>1, <3>3, <3>4
  <2>. QED  BY <2>5, <2>6
<1>4. CASE e.kind = "chunkUnloaded"
  <2>. DEFINE columns == WithColumn(world.columns, e.chunk, None)
  <2>1. e.chunk \in Chunks
    BY <1>4, EventKinds
  <2>2. columns = [world.columns EXCEPT ![e.chunk] = None] /\ columns \in Columns(world.geometry)
    BY <1>1, <2>1 DEF Columns, WithColumn
  <2>3. world' = [world EXCEPT !.columns = [@ EXCEPT ![e.chunk] = None]]
    BY <1>4 DEF Apply, ApplyChunkUnload
  <2>4. world' = [geometry |-> world.geometry, columns |-> columns]
    BY <1>1, <2>2, <2>3
  <2>5. WorldAfter(world, e) = [geometry |-> world.geometry, columns |-> columns]
    BY <1>4 DEF WorldAfter
  <2>. QED  BY <1>1, <2>2, <2>4, <2>5
<1>5. CASE e.kind = "blockUpdated"
  <2>. DEFINE columns == AfterRecords(world.columns, <<e.record>>)
  <2>1. SetBlock(world.columns, e.record) = columns /\ columns \in Columns(world.geometry)
    BY <1>5, EventKinds, OneRecord
  <2>2. world' = [world EXCEPT !.columns = SetBlock(world.columns, e.record)]
    BY <1>1, <1>5 DEF Apply, SetBlockState
  <2>3. world' = [geometry |-> world.geometry, columns |-> columns]
    BY <1>1, <2>1, <2>2
  <2>4. WorldAfter(world, e) = [geometry |-> world.geometry, columns |-> columns]
    BY <1>5 DEF WorldAfter
  <2>. QED  BY <1>1, <2>1, <2>3, <2>4
<1>6. CASE e.kind = "multiBlocksUpdated"
  <2>. DEFINE columns == AfterRecords(world.columns, e.records)
  <2>1. FoldLeft(SetBlock, world.columns, e.records) = columns
        /\ columns \in Columns(world.geometry)
    BY <1>6, EventKinds, ViewTyped, RecordsInOrder
  <2>2. world' = [world EXCEPT !.columns = FoldLeft(SetBlock, world.columns, e.records)]
    BY <1>1, <1>6 DEF Apply, SetBlockStates
  <2>3. world' = [geometry |-> world.geometry, columns |-> columns]
    BY <1>1, <2>1, <2>2
  <2>4. WorldAfter(world, e) = [geometry |-> world.geometry, columns |-> columns]
    BY <1>6 DEF WorldAfter
  <2>. QED  BY <1>1, <2>1, <2>3, <2>4
<1>7. CASE e.kind \notin TerrainKinds
  <2>1. world' = world /\ WorldAfter(world, e) = world
    BY <1>7 DEF Apply, WorldAfter, TerrainKinds
  <2>. QED  BY <1>1, <2>1
<1>. QED  BY <1>3, <1>4, <1>5, <1>6, <1>7 DEF TerrainKinds

LEMMA Applied ==
  ASSUME ViewsInv, NEW e \in Event, Apply(e)
  PROVE  /\ seen' = SeenAfter(seen, e) /\ pockets' = PocketsAfter(pockets, e)
         /\ ViewsInv'
<1>1. /\ seen \in [Ids -> Places \cup {None}] /\ body \in Places \cup {Origin}
      /\ DOMAIN pockets.slots \subseteq Slots /\ pockets.held \in Hotbar
      /\ pockets = [slots |-> pockets.slots, held |-> pockets.held]
  BY DEF ViewsInv, ViewsTypeOK
<1>2. /\ seen' = SeenAfter(seen, e) /\ pockets' = PocketsAfter(pockets, e)
      /\ body' = IF e.kind \in {"snapshot", "positionChanged"} THEN e.place ELSE body
  BY DEF Apply, SeenAfter, PocketsAfter, ApplyEntities, ApplySnapshot, ApplyPosition,
         ApplyInventory
<1>3. body' \in Places \cup {Origin}
  BY <1>1, <1>2, EventKinds
<1>4. seen' \in [Ids -> Places \cup {None}]
  BY <1>1, <1>2, EventKinds DEF SeenAfter, AfterChanges, Changes
<1>5. /\ DOMAIN pockets'.slots \subseteq Slots /\ pockets'.held \in Hotbar
      /\ pockets' = [slots |-> pockets'.slots, held |-> pockets'.held]
  BY <1>1, <1>2, EventKinds DEF PocketsAfter
<1>. QED  BY <1>2, <1>3, <1>4, <1>5, AppliedToWorld DEF ViewsInv, ViewsTypeOK, Columns

LEMMA Delivered ==
  ASSUME HostInv, ViewsInv, Deliver
  PROVE  /\ events # <<>> /\ Head(events) = events[1] /\ Head(events) \in Event
         /\ world' = WorldAfter(world, Head(events))
         /\ seen' = SeenAfter(seen, Head(events))
         /\ pockets' = PocketsAfter(pockets, Head(events))
         /\ ViewsInv' /\ events' \in Seq(Event) /\ Len(events') = Len(events) - 1
         /\ \A i \in 1 .. Len(events') : events'[i] = events[i + 1]
<1>1. events \in Seq(Event) /\ events # <<>> /\ Apply(Head(events)) /\ events' = Tail(events)
  BY DEF Deliver, HostInv
<1>2. Head(events) \in Event /\ Head(events) = events[1]
  BY <1>1
<1>. QED  BY <1>1, <1>2, Applied, AppliedToWorld, HeadTailProperties

TypeInv == HostInv /\ BatchInv /\ ViewsInv

LEMMA TypeInvariant == Spec => []TypeInv
<1>1. Init => TypeInv
  <2>. SUFFICES ASSUME Init
                PROVE  TypeInv
    OBVIOUS
  <2>. USE TelemetryAssumption
  <2>1. HostInv
    <3>1. left \in [Streams -> Nat] /\ 0 \in Hotbar /\ sessions \in 0 .. MaxSessions
      BY DEF Init, HostInit
    <3>2. events = <<>> /\ events \in Seq(Event) /\ Len(events) =< MaxEvents
      BY DEF Init, HostInit
    <3>. QED
      BY <3>1, <3>2 DEF Init, HostInit, HostInv, HostTypeOK, NoArea, NoEntities, NothingPending,
           EmptyInventory
  <2>2. BatchInv
    BY DEF Init, HostInit, BatchInv
  <2>3. ViewsInv
    BY DEF Init, ViewsInit, NoView, NoArea, NoEntities, ViewsInv, ViewsTypeOK
  <2>. QED  BY <2>1, <2>2, <2>3 DEF TypeInv
<1>2. TypeInv /\ [Next]_vars => TypeInv'
  <2>. SUFFICES ASSUME TypeInv, [Next]_vars
                PROVE  TypeInv'
    OBVIOUS
  <2>1. CASE Report
    <3>1. HostInv' /\ BatchInv'
      BY <2>1, HostKeeps DEF Report, TypeInv
    <3>2. ViewsInv'
      BY <2>1 DEF Report, views, TypeInv, ViewsInv, ViewsTypeOK
    <3>. QED  BY <3>1, <3>2 DEF TypeInv
  <2>2. CASE Deliver
    <3>1. ViewsInv' /\ events' \in Seq(Event) /\ Len(events') = Len(events) - 1
      BY <2>2, Delivered DEF TypeInv
    <3>2. /\ UNCHANGED <<online, fading, game, area, visited, entities, spawnedAt, pending,
                         flushing, overtaken, place, lastMotion, rested, inventory, held,
                         strayed, sessions, left>>
          /\ sessions # 0
      BY <2>2 DEF Deliver, TypeInv, HostInv, terrain, creatures, motion, bag
    <3>3. HostInv' /\ BatchInv'
      BY <3>1, <3>2, TelemetryAssumption DEF TypeInv, HostInv, HostTypeOK, BatchInv
    <3>. QED  BY <3>1, <3>3 DEF TypeInv
  <2>3. CASE UNCHANGED vars
    BY <2>3 DEF vars, host, views, TypeInv, HostInv, HostTypeOK, BatchInv, ViewsInv, ViewsTypeOK
  <2>. QED  BY <2>1, <2>2, <2>3 DEF Next
<1>. QED  BY <1>1, <1>2, PTL DEF Spec

\* Every reachable state is well typed, and what waits to be flushed has a timer
\* behind it (#scheduleEntityFlush), for any server, chunks, entities and slots.
THEOREM TypeCorrect == Spec => []MirrorTypeOK
<1>1. TypeInv => MirrorTypeOK
  BY DEF TypeInv, HostInv, ViewsInv, MirrorTypeOK
<1>. QED  BY <1>1, TypeInvariant, PTL

-----------------------------------------------------------------------------
(* What is on its way *)

Now == [world |-> world, seen |-> seen, pockets |-> pockets]

After(v, e) == [world   |-> WorldAfter(v.world, e),
                seen    |-> SeenAfter(v.seen, e),
                pockets |-> PocketsAfter(v.pockets, e)]

\* h is what the engine will believe as it applies the observations one by one.
Course(h, observations) ==
  /\ h[1] = Now
  /\ \A i \in 1 .. Len(observations) : h[i + 1] = After(h[i], observations[i])

\* The bot has been in the dimension the view is of.
Known(view) == view.geometry \in visited \cup {game, None}

ChunksAgree(view) ==
  \A c \in Chunks : area[c] # Unreadable =>
    /\ area[c] # None => view.geometry = game /\ view.columns[c] = area[c]
    /\ (view.geometry = game /\ game \notin visited) => view.columns[c] = area[c]

\* It counts what the batch that waits will change.
EntitiesAgree(known) ==
  \A id \in Ids :
    /\ entities[id] # None => AfterChanges(known, pending)[id] # None
    /\ (entities[id] # None /\ id \notin overtaken) =>
         AfterChanges(known, pending)[id] \in {entities[id], spawnedAt[id]}
    /\ (entities[id] = None /\ sessions = 1) => AfterChanges(known, pending)[id] = None

\* Before the first session there are no entities.
NoneKnown(known) == sessions = 0 => \A id \in Ids : AfterChanges(known, pending)[id] = None

BagAgrees(listed) ==
  /\ \A s \in DOMAIN listed.slots : listed.slots[s] = inventory[s]
  /\ listed.held = held

\* v is true of the bot's surroundings.
Ends(v) ==
  /\ Known(v.world)
  /\ online # "no" => ChunksAgree(v.world) /\ EntitiesAgree(v.seen)
  /\ (online = "spawned" /\ ~strayed) => BagAgrees(v.pockets)
  /\ NoneKnown(v.seen)

\* Whatever waits, the engine will end with a view that is true.
CourseInv ==
  \E h : /\ Course(h, events)
         /\ \A i \in 1 .. Len(events) + 1 : Known(h[i].world)
         /\ Ends(h[Len(events) + 1])

LEMMA CourseExtends ==
  ASSUME NEW es \in Seq(Event), NEW h, Course(h, es), NEW e \in Event
  PROVE  \E k : /\ Course(k, Append(es, e))
                /\ \A i \in 1 .. Len(es) + 1 : k[i] = h[i]
                /\ k[Len(es) + 2] = After(h[Len(es) + 1], e)
<1>. DEFINE n == Len(es)
            k == [i \in 1 .. n + 2 |-> IF i = n + 2 THEN After(h[n + 1], e) ELSE h[i]]
<1>1. n \in Nat /\ Len(Append(es, e)) = n + 1
      /\ \A i \in 1 .. n + 1 : Append(es, e)[i] = IF i = n + 1 THEN e ELSE es[i]
  OBVIOUS
<1>2. /\ \A i \in 1 .. n + 1 : k[i] = h[i]
      /\ k[n + 2] = After(h[n + 1], e)
  BY <1>1
<1>. HIDE DEF k
<1>3. ASSUME NEW i \in 1 .. Len(Append(es, e))
      PROVE  k[i + 1] = After(k[i], Append(es, e)[i])
  <2>1. CASE i = n + 1
    <3>1. i \in 1 .. n + 1 /\ i + 1 = n + 2
      BY <1>1, <2>1
    <3>. QED  BY <1>1, <1>2, <2>1, <3>1
  <2>2. CASE i # n + 1
    <3>1. i \in 1 .. n /\ i \in 1 .. n + 1 /\ i + 1 \in 1 .. n + 1
      BY <1>1, <2>2
    <3>2. h[i + 1] = After(h[i], es[i])
      BY <3>1 DEF Course
    <3>. QED  BY <1>1, <1>2, <2>2, <3>1, <3>2
  <2>. QED  BY <2>1, <2>2
<1>4. k[1] = Now
  <2>1. 1 \in 1 .. n + 1
    BY <1>1
  <2>. QED  BY <1>2, <2>1 DEF Course
<1>5. Course(k, Append(es, e))
  BY <1>3, <1>4 DEF Course
<1>. QED  BY <1>2, <1>5

LEMMA KnownKept ==
  ASSUME HostInv, HostNext, NEW view, Known(view)
  PROVE  Known(view)'
<1>. USE DEF Known
<1>1. CASE Join
  BY <1>1 DEF Join
<1>2. CASE ChangeDimension
  BY <1>2 DEF ChangeDimension
<1>3. CASE ~Join /\ ~ChangeDimension
  <2>1. UNCHANGED <<game, visited>>
    BY <1>3 DEF HostNext, Spawn, Lost, OldBotEnds, HostDies, Leave, ChunkLoad, ChunkUnload, BlockUpdate,
       MultiBlockUpdate, EntitySpawn, EntityGone, EntityMoved, Flush, InventoryChange,
       StrayInventory, Move, PhysicsTick, StrayMotion, Rest, terrain
  <2>. QED  BY <2>1
<1>. QED  BY <1>1, <1>2, <1>3

\* The three ways in which a task of the host leads on.
Silent(v) == events' = events /\ Ends(v)'

Says(v) == \E e \in Event : events' = Append(events, e) /\ Ends(After(v, e))'

SaysTwice(v) == \E e, f \in Event : /\ events' = Append(Append(events, e), f)
                                    /\ Known(After(v, e).world)'
                                    /\ Ends(After(After(v, e), f))'

-----------------------------------------------------------------------------
(* Columns *)

\* A batch changes equal columns equally.
LEMMA RecordsAgree ==
  ASSUME HostInv, online # "no", NEW records \in Seq(BlockRecord), NEW view, ChunksAgree(view),
         UNCHANGED <<game, visited>>, area' = AfterRecords(area, records)
  PROVE  ChunksAgree([geometry |-> view.geometry,
                      columns  |-> AfterRecords(view.columns, records)])'
<1>. DEFINE w == [geometry |-> view.geometry, columns |-> AfterRecords(view.columns, records)]
<1>. SUFFICES ASSUME NEW c \in Chunks, area'[c] # Unreadable
              PROVE  /\ area'[c] # None => w.geometry = game /\ w.columns[c] = area'[c]
                     /\ (w.geometry = game /\ game \notin visited) => w.columns[c] = area'[c]
  BY DEF ChunksAgree
<1>. DEFINE hits(b) == {i \in DOMAIN records : records[i].chunk = c /\ records[i].block = b}
            G(column) == [b \in DOMAIN column |->
                            IF hits(b) = {} THEN column[b]
                            ELSE records[CHOOSE i \in hits(b) : \A j \in hits(b) : j =< i].state]
<1>1. /\ area'[c] = IF area[c] \in {None, Unreadable} THEN area[c] ELSE G(area[c])
      /\ w.columns[c] = IF view.columns[c] \in {None, Unreadable} THEN view.columns[c]
                        ELSE G(view.columns[c])
  BY DEF AfterRecords
<1>2. area[c] \notin {None, Unreadable} => area'[c] \notin {None, Unreadable}
  <2>1. area[c] \notin {None, Unreadable} => area'[c] \in Column(game)
    BY RecordsKeepTypes
  <2>2. game \in Geometries
    BY DEF HostInv
  <2>. QED  BY <2>1, <2>2, TelemetryAssumption
<1>. HIDE DEF G
<1>3. area[c] # Unreadable
  BY <1>1
<1>4. /\ area[c] # None => view.geometry = game /\ view.columns[c] = area[c]
      /\ (view.geometry = game /\ game \notin visited) => view.columns[c] = area[c]
  BY <1>3 DEF ChunksAgree
<1>. QED  BY <1>1, <1>2, <1>3, <1>4

\* A column is loaded, put into the view of its geometry.
LEMMA LoadAgrees ==
  ASSUME HostInv, online # "no", NEW c \in Chunks, NEW column \in Column(game) \cup {Unreadable},
         NEW view, ChunksAgree(view), NEW e, e = ChunkLoaded(c, column),
         UNCHANGED <<game, visited>>, area' = [area EXCEPT ![c] = column]
  PROVE  ChunksAgree(WorldAfter(view, e))'
<1>. DEFINE base == IF view.geometry = game THEN view ELSE Begin(game)
<1>0. PICK w : w = LoadedInto(base, e)
  OBVIOUS
<1>1. WorldAfter(view, e) = w
  BY <1>0 DEF WorldAfter, ChunkLoaded
<1>2. base.geometry = game
  BY DEF Begin
<1>3. ChunksAgree(base)
  <2>1. CASE view.geometry = game
    BY <2>1
  <2>2. CASE view.geometry # game
    <3>1. \A d \in Chunks : base.columns[d] = None
      BY <2>2 DEF Begin, NoArea
    <3>2. \A d \in Chunks : area[d] # Unreadable => area[d] = None
      BY <2>2 DEF ChunksAgree
    <3>. QED  BY <3>1, <3>2 DEF ChunksAgree
  <2>. QED  BY <2>1, <2>2
<1>. HIDE DEF base
<1>4. w.geometry = game
  BY <1>0, <1>2 DEF LoadedInto
<1>5. \A d \in Chunks : w.columns[d] = IF d = c /\ column # Unreadable THEN column
                                        ELSE base.columns[d]
  BY <1>0 DEF LoadedInto, WithColumn, ChunkLoaded
<1>6. \A d \in Chunks : area'[d] = IF d = c THEN column ELSE area[d]
  BY AreaTyped
<1>7. ASSUME NEW d \in Chunks, area'[d] # Unreadable
      PROVE  /\ area'[d] # None => w.geometry = game /\ w.columns[d] = area'[d]
             /\ (w.geometry = game /\ game \notin visited) => w.columns[d] = area'[d]
  BY <1>2, <1>3, <1>4, <1>5, <1>6, <1>7 DEF ChunksAgree
<1>8. ChunksAgree(w)'
  BY <1>7 DEF ChunksAgree
<1>. QED  BY <1>1, <1>8

\* Terrain leaves the rest as it is.
LEMMA TerrainTells ==
  ASSUME HostInv, online # "no", NEW v, Ends(v), NEW e \in Event, e.kind \in TerrainKinds,
         events' = Append(events, e),
         UNCHANGED <<online, sessions, entities, spawnedAt, pending, overtaken, inventory, held,
                     strayed>>,
         Known(WorldAfter(v.world, e))', ChunksAgree(WorldAfter(v.world, e))'
  PROVE  Says(v)
<1>. DEFINE u == After(v, e)
<1>1. u.world = WorldAfter(v.world, e) /\ u.seen = v.seen /\ u.pockets = v.pockets
  BY DEF After, SeenAfter, PocketsAfter, TerrainKinds
<1>2. EntitiesAgree(v.seen)' /\ (online = "spawned" /\ ~strayed => BagAgrees(v.pockets)')
      /\ NoneKnown(v.seen)'
  BY DEF Ends, EntitiesAgree, BagAgrees, NoneKnown
<1>3. Known(u.world)' /\ ChunksAgree(u.world)'
  BY <1>1
<1>. HIDE DEF u
<1>4. Ends(u)'
  BY <1>1, <1>2, <1>3 DEF Ends
<1>. QED  BY <1>4 DEF Says, u

LEMMA TerrainStep ==
  ASSUME HostInv, ChunkLoad \/ ChunkUnload \/ BlockUpdate \/ MultiBlockUpdate,
         NEW v, Ends(v)
  PROVE  Says(v)
<1>1. /\ online # "no" /\ game \in Geometries
      /\ UNCHANGED <<online, sessions, entities, spawnedAt, pending, overtaken, inventory, held,
                     strayed, game, visited>>
  BY ServerStep DEF ChunkLoad, ChunkUnload, BlockUpdate, MultiBlockUpdate, creatures, bag, Streams
<1>2. ChunksAgree(v.world) /\ Known(v.world)
  BY <1>1 DEF Ends
<1>3. CASE ChunkLoad
  <2>1. PICK c \in Chunks, column \in Column(game) \cup {Unreadable} :
          area' = [area EXCEPT ![c] = column] /\ Emit(<<ChunkLoaded(c, column)>>)
    BY <1>3 DEF ChunkLoad
  <2>0. PICK e : e = ChunkLoaded(c, column)
    OBVIOUS
  <2>2. e \in Event /\ e.kind \in TerrainKinds
    BY <1>1, <2>0, EventsMade DEF ChunkLoaded, TerrainKinds
  <2>3. events' = Append(events, e)
    BY <2>0, <2>1, <2>2, EmitsOne
  <2>4. ChunksAgree(WorldAfter(v.world, e))'
    BY <1>1, <1>2, <2>0, <2>1, LoadAgrees
  <2>5. WorldAfter(v.world, e).geometry = game
    BY <2>0 DEF WorldAfter, LoadedInto, ChunkLoaded, Begin
  <2>6. Known(WorldAfter(v.world, e))'
    BY <1>1, <2>5 DEF Known
  <2>. QED  BY <1>1, <2>2, <2>3, <2>4, <2>6, TerrainTells
<1>4. CASE ChunkUnload
  <2>1. PICK c \in Chunks :
          area' = [area EXCEPT ![c] = None] /\ Emit(<<[kind |-> "chunkUnloaded", chunk |-> c]>>)
    BY <1>4 DEF ChunkUnload
  <2>. DEFINE e == [kind |-> "chunkUnloaded", chunk |-> c]
              w == WorldAfter(v.world, e)
  <2>2. e \in Event /\ e.kind \in TerrainKinds
    BY EventsMade DEF TerrainKinds
  <2>3. events' = Append(events, e)
    BY <2>1, <2>2, EmitsOne
  <2>4. w.geometry = v.world.geometry
        /\ \A d \in Chunks : w.columns[d] = IF d = c THEN None ELSE v.world.columns[d]
    BY DEF WorldAfter, WithColumn
  <2>. HIDE DEF w, e
  <2>5. \A d \in Chunks : area'[d] = IF d = c THEN None ELSE area[d]
    BY <2>1, AreaTyped
  <2>6. ChunksAgree(w)' /\ Known(w)'
    BY <1>1, <1>2, <2>4, <2>5 DEF ChunksAgree, Known
  <2>. QED  BY <1>1, <2>2, <2>3, <2>6, TerrainTells DEF w
<1>5. CASE BlockUpdate
  <2>1. PICK c \in Chunks, b \in Within[game], s \in States :
          LET record == [chunk |-> c, block |-> b, state |-> s]
          IN  area' = AfterRecords(area, <<record>>)
              /\ Emit(<<[kind |-> "blockUpdated", record |-> record]>>)
    BY <1>5 DEF BlockUpdate
  <2>. DEFINE record == [chunk |-> c, block |-> b, state |-> s]
              e == [kind |-> "blockUpdated", record |-> record]
              w == [geometry |-> v.world.geometry,
                    columns  |-> AfterRecords(v.world.columns, <<record>>)]
  <2>2. record \in BlockRecord /\ <<record>> \in Seq(BlockRecord)
    BY <1>1, TelemetryAssumption DEF BlockRecord
  <2>3. area' = AfterRecords(area, <<record>>) /\ Emit(<<e>>)
    BY <2>1
  <2>. HIDE DEF record
  <2>4. e \in Event /\ e.kind \in TerrainKinds
    BY <2>2, EventsMade DEF TerrainKinds
  <2>5. WorldAfter(v.world, e) = w /\ w.geometry = v.world.geometry
    BY DEF WorldAfter
  <2>6. ChunksAgree(w)'
    BY <1>1, <1>2, <2>2, <2>3, RecordsAgree
  <2>. HIDE DEF e, w
  <2>7. events' = Append(events, e)
    BY <2>3, <2>4, EmitsOne
  <2>8. Known(w)'
    BY <1>1, <1>2, <2>5 DEF Known
  <2>. QED  BY <1>1, <2>4, <2>5, <2>6, <2>7, <2>8, TerrainTells
<1>6. CASE MultiBlockUpdate
  <2>1. PICK records \in BlockBatches :
          /\ area' = AfterRecords(area, records)
          /\ Emit(<<[kind |-> "multiBlocksUpdated", records |-> records]>>)
    BY <1>6 DEF MultiBlockUpdate
  <2>. DEFINE e == [kind |-> "multiBlocksUpdated", records |-> records]
              w == [geometry |-> v.world.geometry,
                    columns  |-> AfterRecords(v.world.columns, records)]
  <2>2. records \in Seq(BlockRecord)
    BY TelemetryAssumption DEF BlockRecord
  <2>3. e \in Event /\ e.kind \in TerrainKinds
    BY <2>2, EventsMade DEF TerrainKinds
  <2>4. WorldAfter(v.world, e) = w /\ w.geometry = v.world.geometry
    BY DEF WorldAfter
  <2>5. ChunksAgree(w)'
    BY <1>1, <1>2, <2>1, <2>2, RecordsAgree
  <2>. HIDE DEF w
  <2>6. events' = Append(events, e)
    BY <2>1, <2>3, EmitsOne
  <2>7. Known(w)'
    BY <1>1, <1>2, <2>4 DEF Known
  <2>. HIDE DEF e
  <2>. QED  BY <1>1, <2>3, <2>4, <2>5, <2>6, <2>7, TerrainTells
<1>. QED  BY <1>3, <1>4, <1>5, <1>6

\* The engine hears nothing of a change of dimension, and knows no column of a
\* geometry the bot has not been in.
LEMMA DimensionStep ==
  ASSUME HostInv, ChangeDimension, NEW v, Ends(v)
  PROVE  Silent(v)
<1>1. /\ online # "no" /\ game' \in Geometries /\ area' = NoArea
      /\ visited' = visited \cup {game}
      /\ UNCHANGED <<online, sessions, events, entities, spawnedAt, pending, overtaken,
                     inventory, held, strayed>>
  BY ServerStep DEF ChangeDimension, creatures, bag, Streams
<1>2. Known(v.world) /\ ChunksAgree(v.world) /\ EntitiesAgree(v.seen)
      /\ (online = "spawned" /\ ~strayed => BagAgrees(v.pockets))
      /\ NoneKnown(v.seen)
  BY <1>1 DEF Ends
<1>3. Known(v.world)'
  BY <1>1, <1>2 DEF Known
<1>4. ChunksAgree(v.world)'
  <2>1. v.world.geometry = game' => game' \in visited'
    BY <1>1, <1>2, TelemetryAssumption DEF Known
  <2>. QED  BY <1>1, <2>1 DEF ChunksAgree, NoArea
<1>5. EntitiesAgree(v.seen)' /\ (online = "spawned" /\ ~strayed => BagAgrees(v.pockets)')
      /\ NoneKnown(v.seen)'
  BY <1>1, <1>2 DEF EntitiesAgree, BagAgrees, NoneKnown
<1>. QED  BY <1>1, <1>2, <1>3, <1>4, <1>5 DEF Ends, Silent


-----------------------------------------------------------------------------
(* Entities and sessions *)

LEMMA ChangedAt ==
  ASSUME NEW known, NEW x, NEW id \in Ids
  PROVE  AfterChanges(known, x)[id] =
           IF id \in x.removed THEN None
           ELSE IF x.added[id] # None
                THEN IF x.moved[id] # None THEN x.moved[id] ELSE x.added[id]
                ELSE IF known[id] # None /\ x.moved[id] # None THEN x.moved[id] ELSE known[id]
BY DEF AfterChanges

LEMMA NothingChanges ==
  \A known : \A id \in Ids : AfterChanges(known, NothingPending)[id] = known[id]
BY ChangedAt DEF NothingPending, NoEntities

\* What an entity does goes into the batch, so what the engine will know of it
\* once it has the batch follows it.
LEMMA CreatureStep ==
  ASSUME HostInv, BatchInv, EntitySpawn \/ EntityGone \/ EntityMoved, NEW v, Ends(v)
  PROVE  Silent(v)
<1>1. /\ online # "no" /\ sessions > 0
      /\ UNCHANGED <<online, sessions, events, game, area, visited, inventory, held, strayed>>
  BY ServerStep DEF EntitySpawn, EntityGone, EntityMoved, terrain, motion, bag, Streams, HostInv
<1>2. /\ entities \in [Ids -> Places \cup {None}] /\ spawnedAt \in [Ids -> Places \cup {None}]
      /\ pending \in Changes /\ overtaken \subseteq Ids
  BY DEF HostInv, HostTypeOK, Changes
<1>3. Known(v.world) /\ ChunksAgree(v.world) /\ EntitiesAgree(v.seen)
      /\ (online = "spawned" /\ ~strayed => BagAgrees(v.pockets))
  BY <1>1 DEF Ends
<1>4. Known(v.world)' /\ ChunksAgree(v.world)' /\ NoneKnown(v.seen)'
      /\ (online = "spawned" /\ ~strayed => BagAgrees(v.pockets)')
  BY <1>1, <1>3 DEF Known, ChunksAgree, BagAgrees, NoneKnown
<1>. DEFINE will(i) == AfterChanges(v.seen, pending')[i]
            Follows(i) == /\ entities'[i] # None => will(i) # None
                          /\ entities'[i] # None /\ i \notin overtaken' =>
                               will(i) \in {entities'[i], spawnedAt'[i]}
                          /\ entities'[i] = None /\ sessions' = 1 => will(i) = None
<1>. SUFFICES \A i \in Ids : Follows(i)
  <2>1. ASSUME \A i \in Ids : Follows(i)
        PROVE  EntitiesAgree(v.seen)'
    BY <2>1 DEF EntitiesAgree
  <2>. HIDE DEF Follows
  <2>. QED  BY <1>1, <1>4, <2>1 DEF Ends, Silent
<1>5. ASSUME NEW i \in Ids, entities'[i] = entities[i], spawnedAt'[i] = spawnedAt[i],
             pending'.added[i] = pending.added[i], pending'.moved[i] = pending.moved[i],
             i \in pending'.removed <=> i \in pending.removed,
             i \in overtaken' <=> i \in overtaken
      PROVE  Follows(i)
  <2>1. AfterChanges(v.seen, pending')[i] = AfterChanges(v.seen, pending)[i]
    BY <1>5, ChangedAt
  <2>. QED  BY <1>1, <1>3, <1>5, <2>1 DEF EntitiesAgree
<1>6. CASE EntitySpawn
  <2>1. PICK id \in Ids, p \in Places :
          /\ entities' = [entities EXCEPT ![id] = p]
          /\ spawnedAt' = [spawnedAt EXCEPT ![id] = p]
          /\ pending' = [pending EXCEPT !.added[id] = p, !.removed = @ \ {id}]
          /\ overtaken' = IF pending.moved[id] # None THEN overtaken \cup {id}
                          ELSE overtaken \ {id}
    BY <1>6 DEF EntitySpawn, Noted
  <2>2. /\ pending'.added = [pending.added EXCEPT ![id] = p]
        /\ pending'.removed = pending.removed \ {id} /\ pending'.moved = pending.moved
    BY <1>2, <2>1 DEF Changes
  <2>3. p # None
    BY TelemetryAssumption
  <2>4. /\ pending'.added[id] = p /\ id \notin pending'.removed
        /\ entities'[id] = p /\ spawnedAt'[id] = p
        /\ id \notin overtaken' => pending'.moved[id] = None
    BY <1>2, <2>1, <2>2 DEF Changes
  <2>5. Follows(id)
    BY <2>3, <2>4, ChangedAt
  <2>6. \A i \in Ids \ {id} : Follows(i)
    BY <1>2, <1>5, <2>1, <2>2 DEF Changes
  <2>. HIDE DEF Follows
  <2>. QED  BY <2>5, <2>6
<1>7. CASE EntityGone
  <2>1. PICK id \in Ids :
          /\ entities[id] # None
          /\ entities' = [entities EXCEPT ![id] = None]
          /\ spawnedAt' = [spawnedAt EXCEPT ![id] = None]
          /\ pending' = [pending EXCEPT !.added[id] = None, !.moved[id] = None,
                                        !.removed = @ \cup {id}]
          /\ overtaken' = overtaken \ {id}
    BY <1>7 DEF EntityGone
  <2>2. /\ pending'.added = [pending.added EXCEPT ![id] = None]
        /\ pending'.removed = pending.removed \cup {id}
        /\ pending'.moved = [pending.moved EXCEPT ![id] = None]
    BY <1>2, <2>1 DEF Changes
  <2>3. id \in pending'.removed /\ entities'[id] = None
    BY <1>2, <2>1, <2>2
  <2>4. Follows(id)
    BY <2>3, ChangedAt
  <2>5. \A i \in Ids \ {id} : Follows(i)
    BY <1>2, <1>5, <2>1, <2>2 DEF Changes
  <2>. HIDE DEF Follows
  <2>. QED  BY <2>4, <2>5
<1>8. CASE EntityMoved
  <2>1. PICK id \in Ids, p \in Places :
          /\ entities[id] \notin {None, p}
          /\ entities' = [entities EXCEPT ![id] = p]
          /\ IF pending.added[id] # None THEN UNCHANGED <<pending, overtaken>>
             ELSE /\ pending' = [pending EXCEPT !.moved[id] = p]
                  /\ overtaken' = overtaken \ {id}
    BY <1>8 DEF EntityMoved
  <2>2. spawnedAt' = spawnedAt /\ p # None
    BY <1>8, TelemetryAssumption DEF EntityMoved
  <2>3. /\ pending'.added = pending.added /\ pending'.removed = pending.removed
        /\ pending'.moved = IF pending.added[id] # None THEN pending.moved
                            ELSE [pending.moved EXCEPT ![id] = p]
    BY <1>2, <2>1 DEF Changes
  <2>4. /\ spawnedAt[id] # None /\ id \notin pending.removed
        /\ pending.added[id] # None =>
             /\ pending.added[id] = spawnedAt[id]
             /\ id \notin overtaken => pending.moved[id] = None
    BY <1>1, <2>1 DEF BatchInv
  <2>5. entities'[id] = p
    BY <1>2, <2>1
  <2>6. Follows(id)
    <3>1. CASE pending.added[id] # None
      <4>1. overtaken' = overtaken
        BY <2>1, <3>1
      <4>. QED  BY <2>2, <2>3, <2>4, <2>5, <3>1, <4>1, ChangedAt
    <3>2. CASE pending.added[id] = None
      <4>1. pending'.moved[id] = p
        BY <1>2, <2>3, <3>2 DEF Changes
      <4>2. AfterChanges(v.seen, pending)[id] # None
        BY <1>3, <2>1 DEF EntitiesAgree
      <4>3. v.seen[id] # None
        BY <2>1, <2>4, <3>2, <4>2, ChangedAt
      <4>4. pending'.added[id] = None /\ id \notin pending'.removed
        BY <2>3, <2>4, <3>2
      <4>5. AfterChanges(v.seen, pending')[id] = p
        BY <2>2, <4>1, <4>3, <4>4, ChangedAt
      <4>. QED  BY <2>2, <2>5, <4>5
    <3>. QED  BY <3>1, <3>2
  <2>7. \A i \in Ids \ {id} : Follows(i)
    BY <1>2, <1>5, <2>1, <2>2, <2>3 DEF Changes
  <2>. HIDE DEF Follows
  <2>. QED  BY <2>6, <2>7
<1>. QED  BY <1>6, <1>7, <1>8

\* The batch goes out as one observation, and what it will change becomes what
\* that observation changes.
LEMMA FlushStep ==
  ASSUME HostInv, Flush, NEW v, Ends(v)
  PROVE  Silent(v) \/ Says(v)
<1>1. /\ pending' = NothingPending
      /\ UNCHANGED <<online, sessions, entities, spawnedAt, overtaken, game, area, visited,
                     inventory, held, strayed>>
  BY DEF Flush, terrain, motion, bag
<1>. DEFINE Same(u) == /\ u.world = v.world /\ u.pockets = v.pockets
                       /\ \A id \in Ids : u.seen[id] = AfterChanges(v.seen, pending)[id]
<1>2. ASSUME NEW u, Same(u)
      PROVE  Ends(u)'
  <2>1. \A id \in Ids : AfterChanges(u.seen, pending')[id] = AfterChanges(v.seen, pending)[id]
    BY <1>1, <1>2, NothingChanges
  <2>2. Known(u.world)' /\ NoneKnown(u.seen)'
    BY <1>1, <1>2, <2>1 DEF Ends, Known, NoneKnown
  <2>3. online # "no" => ChunksAgree(u.world)' /\ EntitiesAgree(u.seen)'
    BY <1>1, <1>2, <2>1 DEF Ends, ChunksAgree, EntitiesAgree
  <2>4. online = "spawned" /\ ~strayed => BagAgrees(u.pockets)'
    BY <1>1, <1>2 DEF Ends, BagAgrees
  <2>. QED  BY <1>1, <2>2, <2>3, <2>4 DEF Ends
<1>3. CASE pending = NothingPending
  <2>1. Same(v)
    BY <1>3, NothingChanges
  <2>2. events' = events
    BY <1>3 DEF Flush
  <2>. QED  BY <1>2, <2>1, <2>2 DEF Silent
<1>4. CASE pending # NothingPending
  <2>1. PICK e : e = [kind |-> "entitiesChanged", changes |-> pending]
    OBVIOUS
  <2>2. e \in Event
    BY <2>1, EventsMade DEF HostInv, HostTypeOK, Changes
  <2>3. events' = Append(events, e)
    BY <1>4, <2>1, <2>2, EmitsOne DEF Flush
  <2>4. Same(After(v, e))
    BY <2>1 DEF After, WorldAfter, SeenAfter, PocketsAfter
  <2>5. Ends(After(v, e))'
    BY <1>2, <2>4
  <2>. QED  BY <2>2, <2>3, <2>5 DEF Says
<1>. QED  BY <1>3, <1>4

\* Of each slot a task has written the engine is told what it holds, be it the
\* bot's or a dropped bot's.
LEMMA BagStep ==
  ASSUME HostInv, InventoryChange \/ StrayInventory, NEW v, Ends(v)
  PROVE  Says(v)
<1>1. UNCHANGED <<online, sessions, game, area, visited, entities, spawnedAt, pending, overtaken>>
  BY ServerStep, OldBotStep
     DEF InventoryChange, StrayInventory, terrain, creatures, motion, Streams
<1>2. PICK updates \in SlotBatches, h \in Hotbar :
        /\ \/ inventory' = Written(inventory, updates) /\ held' = h
           \/ strayed' = TRUE
        /\ EmitInventory(updates, h)
  BY DEF InventoryChange, StrayInventory
<1>3. updates \in Seq(Update) /\ inventory \in Bag
  BY TelemetryAssumption DEF Update, Bag, HostInv, HostTypeOK
<1>4. PICK e : e = [kind |-> "inventoryChanged", slots |-> Coalesce(updates), held |-> h]
  OBVIOUS
<1>5. e \in Event /\ events' = Append(events, e)
  <2>1. e \in Event
    BY <1>3, <1>4, EventsMade, ListingsMade
  <2>. QED  BY <1>2, <1>4, <2>1, EmitsOne DEF EmitInventory
<1>. DEFINE u == After(v, e)
<1>6. u.world = v.world /\ u.seen = v.seen
      /\ u.pockets = [slots |-> Coalesce(updates), held |-> h]
  BY <1>4 DEF After, WorldAfter, SeenAfter, PocketsAfter
<1>. HIDE DEF u
<1>7. ASSUME ~strayed'
      PROVE  BagAgrees(u.pockets)'
  <2>1. inventory' = Written(inventory, updates) /\ held' = h
    BY <1>2, <1>7
  <2>2. \A s \in DOMAIN Coalesce(updates) : Coalesce(updates)[s] = inventory'[s]
    BY <1>3, <2>1, CoalescedIsWritten
  <2>. QED  BY <1>6, <2>1, <2>2 DEF BagAgrees
<1>8. /\ Known(u.world)' /\ NoneKnown(u.seen)'
      /\ online' # "no" => ChunksAgree(u.world)' /\ EntitiesAgree(u.seen)'
  BY <1>1, <1>6 DEF Ends, Known, ChunksAgree, EntitiesAgree, NoneKnown
<1>9. Ends(u)'
  BY <1>7, <1>8 DEF Ends
<1>. QED  BY <1>5, <1>9 DEF Says, u

\* Motion concerns nothing but where the bot is.
LEMMA MotionStep ==
  ASSUME HostInv, Move \/ PhysicsTick \/ StrayMotion \/ Rest, NEW v, Ends(v)
  PROVE  Silent(v) \/ Says(v)
<1>1. UNCHANGED <<online, sessions, game, area, visited, entities, spawnedAt, pending, overtaken,
                  inventory, held, strayed>>
  BY DEF Move, PhysicsTick, StrayMotion, Rest, ServerActs, OldBotActs, Happens, terrain,
         creatures, bag
<1>2. ASSUME NEW u, u.world = v.world, u.seen = v.seen, u.pockets = v.pockets
      PROVE  Ends(u)'
  BY <1>1, <1>2 DEF Ends, Known, ChunksAgree, EntitiesAgree, BagAgrees, NoneKnown
<1>3. events' = events \/ \E p \in Places : Emit(<<[kind |-> "positionChanged", place |-> p]>>)
  BY DEF Move, PhysicsTick, StrayMotion, Rest, EmitMotionIfChanged, HostInv, HostTypeOK
<1>4. CASE events' = events
  BY <1>2, <1>4 DEF Silent
<1>5. CASE \E p \in Places : Emit(<<[kind |-> "positionChanged", place |-> p]>>)
  <2>1. PICK p \in Places : Emit(<<[kind |-> "positionChanged", place |-> p]>>)
    BY <1>5
  <2>2. PICK e : e = [kind |-> "positionChanged", place |-> p]
    OBVIOUS
  <2>3. e \in Event
    BY <2>2, EventsMade
  <2>4. events' = Append(events, e)
    BY <2>1, <2>2, <2>3, EmitsOne
  <2>5. Ends(After(v, e))'
    BY <1>2, <2>2 DEF After, WorldAfter, SeenAfter, PocketsAfter
  <2>. QED  BY <2>3, <2>4, <2>5 DEF Says
<1>. QED  BY <1>3, <1>4, <1>5

\* A new session starts with nothing in sight, in a dimension the bot has been
\* in before or of whose geometry the engine knows nothing.
LEMMA JoinStep ==
  ASSUME HostInv, Join, NEW v, Ends(v)
  PROVE  Silent(v)
<1>1. /\ online = "no" /\ game' \in Geometries
      /\ sessions' = sessions + 1 /\ online' = "joining"
      /\ visited' = (visited \cup {game}) \ {None}
      /\ UNCHANGED <<area, events, entities, spawnedAt, pending>>
  BY DEF Join, creatures, HostInv
<1>2. area = NoArea /\ entities = NoEntities /\ sessions \in Nat
  BY <1>1, TelemetryAssumption DEF HostInv, HostTypeOK
<1>3. Known(v.world)' /\ (v.world.geometry = game' => game' \in visited')
  BY <1>1, TelemetryAssumption DEF Ends, Known
<1>4. ChunksAgree(v.world)'
  BY <1>1, <1>2, <1>3 DEF ChunksAgree, NoArea
<1>5. EntitiesAgree(v.seen)'
  BY <1>1, <1>2 DEF Ends, NoneKnown, EntitiesAgree, NoEntities
<1>6. NoneKnown(v.seen)'
  BY <1>1, <1>2 DEF NoneKnown
<1>. QED  BY <1>1, <1>3, <1>4, <1>5, <1>6 DEF Ends, Silent

\* The second of the observations of a spawn lists the inventory.
LEMMA SpawnStep ==
  ASSUME HostInv, Spawn, NEW v, Ends(v)
  PROVE  SaysTwice(v)
<1>1. PICK f : f = SnapshotOf(place', inventory, held)
  OBVIOUS
<1>2. /\ online = "joining" /\ online' = "spawned" /\ place' \in Places
      /\ Emit(<<Spawned, f>>)
      /\ UNCHANGED <<sessions, game, area, visited, entities, spawnedAt, pending, overtaken,
                     inventory, held>>
  BY <1>1 DEF Spawn, terrain, creatures, bag, HostInv, HostTypeOK
<1>3. Spawned \in Event /\ f \in Event
  BY <1>1, <1>2, EventsMade, ListingsMade, TelemetryAssumption DEF Spawned, Bag, HostInv, HostTypeOK
<1>4. events' = Append(Append(events, Spawned), f)
  <2>1. events \in Seq(Event) /\ events' = events \o <<Spawned, f>>
    BY <1>2 DEF Emit, HostInv
  <2>. HIDE DEF Spawned
  <2>. QED  BY <1>3, <2>1
<1>. DEFINE u == After(v, Spawned)
            w == After(u, f)
<1>5. u.world = v.world /\ w.world = v.world /\ w.seen = v.seen
      /\ w.pockets = [slots |-> inventory, held |-> held]
  BY <1>1 DEF After, WorldAfter, SeenAfter, PocketsAfter, Spawned, SnapshotOf
<1>. HIDE DEF u, w
<1>6. Known(u.world)' /\ Known(w.world)' /\ ChunksAgree(w.world)' /\ EntitiesAgree(w.seen)'
      /\ NoneKnown(w.seen)'
  BY <1>2, <1>5 DEF Ends, Known, ChunksAgree, EntitiesAgree, NoneKnown
<1>7. BagAgrees(w.pockets)'
  BY <1>2, <1>5 DEF BagAgrees
<1>8. Ends(w)'
  BY <1>6, <1>7 DEF Ends
<1>. QED  BY <1>3, <1>4, <1>6, <1>8 DEF SaysTwice, u, w

LEMMA LostStep ==
  ASSUME HostInv, Lost \/ OldBotEnds, NEW v, Ends(v)
  PROVE  Silent(v)
<1>1. sessions # 0
  <2>1. CASE Lost
    BY <2>1 DEF Lost, HostInv
  <2>2. CASE OldBotEnds
    BY <2>2, Zenon DEF OldBotEnds, HostInv
  <2>. QED  BY <2>1, <2>2
<1>2. online' = "no" /\ UNCHANGED <<game, visited, sessions, events>>
  BY DEF Lost, OldBotEnds, Leave, terrain
<1>. QED  BY <1>1, <1>2 DEF Ends, Known, NoneKnown, Silent

LEMMA TaskStep ==
  ASSUME HostInv, BatchInv, HostNext, ~HostDies, NEW v, Ends(v)
  PROVE  Silent(v) \/ Says(v) \/ SaysTwice(v)
<1>1. CASE Join \/ Spawn \/ Lost \/ OldBotEnds
  BY <1>1, JoinStep, SpawnStep, LostStep
<1>2. CASE ChunkLoad \/ ChunkUnload \/ BlockUpdate \/ MultiBlockUpdate \/ ChangeDimension
  BY <1>2, TerrainStep, DimensionStep
<1>3. CASE EntitySpawn \/ EntityGone \/ EntityMoved \/ Flush
  BY <1>3, CreatureStep, FlushStep
<1>4. CASE InventoryChange \/ StrayInventory \/ Move \/ PhysicsTick \/ StrayMotion \/ Rest
  BY <1>4, BagStep, MotionStep
<1>. QED  BY <1>1, <1>2, <1>3, <1>4 DEF HostNext

-----------------------------------------------------------------------------
(* The course *)

LEMMA CourseReport ==
  ASSUME HostInv, BatchInv, HostNext, ~HostDies, UNCHANGED views, CourseInv
  PROVE  CourseInv'
<1>0. PICK n : n = Len(events)
  OBVIOUS
<1>1. PICK h : /\ Course(h, events)
               /\ \A i \in 1 .. n + 1 : Known(h[i].world)
               /\ Ends(h[n + 1])
  BY <1>0 DEF CourseInv
<1>2. events \in Seq(Event) /\ n \in Nat
  BY <1>0 DEF HostInv
<1>3. \A view : Known(view) => Known(view)'
  BY KnownKept
<1>4. Now' = Now
  BY DEF views, Now
<1>5. PICK v : v = h[n + 1]
  OBVIOUS
<1>6. Silent(v) \/ Says(v) \/ SaysTwice(v)
  BY <1>1, <1>5, TaskStep
<1>7. ASSUME NEW k, NEW m, m = Len(events'), Course(k, events'),
             \A i \in 1 .. m + 1 : Known(k[i].world)', Ends(k[m + 1])'
      PROVE  CourseInv'
  <2>1. Course(k, events)'
    BY <1>4, <1>7 DEF Course
  <2>. QED  BY <1>7, <2>1 DEF CourseInv
<1>8. CASE Silent(v)
  <2>1. events' = events /\ Ends(v)'
    BY <1>8 DEF Silent
  <2>2. \A i \in 1 .. n + 1 : Known(h[i].world)'
    BY <1>1, <1>3
  <2>. QED  BY <1>0, <1>1, <1>5, <1>7, <2>1, <2>2
<1>9. CASE Says(v)
  <2>1. PICK e \in Event : events' = Append(events, e) /\ Ends(After(v, e))'
    BY <1>9 DEF Says
  <2>2. PICK k : /\ Course(k, Append(events, e))
                 /\ \A i \in 1 .. n + 1 : k[i] = h[i]
                 /\ k[n + 2] = After(h[n + 1], e)
    BY <1>0, <1>1, <1>2, CourseExtends
  <2>3. Len(events') = n + 1 /\ k[n + 2] = After(v, e)
    BY <1>0, <1>2, <1>5, <2>1, <2>2
  <2>4. \A i \in 1 .. n + 1 : Known(k[i].world)'
    BY <1>1, <1>3, <2>2
  <2>5. Known(k[n + 2].world)'
    BY <1>2, <2>1, <2>3 DEF Ends
  <2>6. PICK m : m = Len(events')
    OBVIOUS
  <2>7. m + 1 = n + 2
    BY <1>2, <2>3, <2>6
  <2>8. Ends(k[m + 1])' /\ \A i \in 1 .. m + 1 : Known(k[i].world)'
    BY <1>2, <2>1, <2>3, <2>4, <2>5, <2>7
  <2>9. Course(k, events')
    BY <2>1, <2>2
  <2>. QED  BY <1>7, <2>6, <2>8, <2>9
<1>10. CASE SaysTwice(v)
  <2>1. PICK e \in Event, f \in Event :
          /\ events' = Append(Append(events, e), f)
          /\ Known(After(v, e).world)'
          /\ Ends(After(After(v, e), f))'
    BY <1>10 DEF SaysTwice
  <2>2. PICK k : /\ Course(k, Append(events, e))
                 /\ \A i \in 1 .. n + 1 : k[i] = h[i]
                 /\ k[n + 2] = After(h[n + 1], e)
    BY <1>0, <1>1, <1>2, CourseExtends
  <2>3. Append(events, e) \in Seq(Event) /\ Len(Append(events, e)) = n + 1
    BY <1>0, <1>2
  <2>4. PICK l : /\ Course(l, Append(Append(events, e), f))
                 /\ \A i \in 1 .. n + 2 : l[i] = k[i]
                 /\ l[n + 3] = After(k[n + 2], f)
    <3>1. PICK es : es = Append(events, e)
      OBVIOUS
    <3>. es \in Seq(Event) /\ Course(k, es)
      BY <2>2, <2>3, <3>1
    <3>2. PICK l : /\ Course(l, Append(es, f))
                   /\ \A i \in 1 .. Len(es) + 1 : l[i] = k[i]
                   /\ l[Len(es) + 2] = After(k[Len(es) + 1], f)
      BY CourseExtends
    <3>3. Len(es) + 1 = n + 2 /\ Len(es) + 2 = n + 3
      BY <1>2, <2>3, <3>1
    <3>. QED  BY <3>1, <3>2, <3>3
  <2>5. Len(events') = n + 2 /\ n + 2 \in 1 .. n + 2
    BY <1>2, <2>1, <2>3
  <2>6. l[n + 3] = After(After(v, e), f) /\ l[n + 2] = After(v, e)
    BY <1>5, <2>2, <2>4, <2>5
  <2>7. \A i \in 1 .. n + 1 : Known(l[i].world)'
    BY <1>1, <1>2, <1>3, <2>2, <2>4
  <2>8. Known(l[n + 2].world)' /\ Known(l[n + 3].world)'
    BY <2>1, <2>6 DEF Ends
  <2>9. \A i \in 1 .. n + 3 : Known(l[i].world)'
    BY <1>2, <2>7, <2>8
  <2>10. PICK m : m = Len(events')
    OBVIOUS
  <2>11. m + 1 = n + 3
    BY <1>2, <2>5, <2>10
  <2>12. Ends(l[m + 1])' /\ \A i \in 1 .. m + 1 : Known(l[i].world)'
    BY <2>1, <2>6, <2>9, <2>11
  <2>13. Course(l, events')
    BY <2>1, <2>4
  <2>. QED  BY <1>7, <2>10, <2>12, <2>13
<1>. QED  BY <1>6, <1>8, <1>9, <1>10

\* A crash leaves a prefix of what was on its way, which ends at a view that is
\* at least of a dimension the bot has been in.
LEMMA CourseCrash ==
  ASSUME HostInv, HostDies, UNCHANGED views, CourseInv
  PROVE  CourseInv'
<1>1. PICK h : /\ Course(h, events)
               /\ \A i \in 1 .. Len(events) + 1 : Known(h[i].world)
               /\ Ends(h[Len(events) + 1])
  BY DEF CourseInv
<1>2. PICK n \in 0 .. Len(events) : events' = SubSeq(events, 1, n)
  BY DEF HostDies
<1>3. /\ online' = "no" /\ pending' = NothingPending /\ UNCHANGED <<game, visited, sessions>>
      /\ Now' = Now
  BY DEF HostDies, Leave, HostInv, views, Now
<1>4. /\ Len(events) \in Nat /\ Len(events') = n
      /\ \A i \in 1 .. n : events'[i] = events[i]
  BY <1>2, SubSeqProperties DEF HostInv
<1>5. Course(h, events')
  BY <1>1, <1>4 DEF Course
<1>6. \A i \in 1 .. n + 1 : Known(h[i].world)'
  BY <1>1, <1>3, <1>4 DEF Known
<1>7. Ends(h[n + 1])'
  <2>1. Known(h[n + 1].world)'
    BY <1>4, <1>6
  <2>2. NoneKnown(h[n + 1].seen)'
    <3>1. CASE sessions # 0
      BY <1>3, <3>1 DEF NoneKnown
    <3>2. CASE sessions = 0
      <4>1. pending = NothingPending /\ Len(events) = 0
        BY <3>2 DEF HostInv
      <4>2. n = Len(events)
        BY <4>1
      <4>. QED  BY <1>1, <1>3, <4>1, <4>2 DEF Ends, NoneKnown
    <3>. QED  BY <3>1, <3>2
  <2>. QED  BY <1>3, <2>1, <2>2 DEF Ends
<1>. QED  BY <1>3, <1>4, <1>5, <1>6, <1>7 DEF CourseInv, Course

\* The engine takes one step along the course.
LEMMA CourseDeliver ==
  ASSUME HostInv, ViewsInv, Deliver, CourseInv
  PROVE  CourseInv'
<1>1. PICK h : /\ Course(h, events)
               /\ \A i \in 1 .. Len(events) + 1 : Known(h[i].world)
               /\ Ends(h[Len(events) + 1])
  BY DEF CourseInv
<1>2. /\ events[1] = Head(events)
      /\ world' = WorldAfter(world, Head(events))
      /\ seen' = SeenAfter(seen, Head(events))
      /\ pockets' = PocketsAfter(pockets, Head(events))
      /\ Len(events') = Len(events) - 1
      /\ \A i \in 1 .. Len(events') : events'[i] = events[i + 1]
  BY Delivered
<1>3. PICK n \in Nat : n = Len(events')
  BY Delivered
<1>4. Len(events) = n + 1
  <2>1. Len(events) \in Nat
    BY DEF HostInv
  <2>. QED  BY <1>2, <1>3, <2>1
<1>5. UNCHANGED <<online, game, area, visited, entities, spawnedAt, pending, overtaken,
                  inventory, held, strayed, sessions>>
  BY DEF Deliver, terrain, creatures, bag
<1>. DEFINE k == [i \in 1 .. n + 1 |-> h[i + 1]]
<1>6. \A i \in 1 .. n + 1 : k[i] = h[i + 1]
  OBVIOUS
<1>. HIDE DEF k
<1>7. Course(k, events)'
  <2>1. k[1] = Now'
    <3>1. h[1] = Now /\ h[2] = After(h[1], events[1])
      BY <1>1, <1>4 DEF Course
    <3>. QED  BY <1>2, <1>6, <3>1 DEF Now, After
  <2>2. ASSUME NEW i \in 1 .. n
        PROVE  k[i + 1] = After(k[i], events'[i])
    <3>1. h[i + 2] = After(h[i + 1], events[i + 1])
      BY <1>1, <1>4 DEF Course
    <3>. QED  BY <1>2, <1>3, <1>6, <3>1
  <2>. QED  BY <1>3, <2>1, <2>2 DEF Course
<1>8. \A i \in 1 .. n + 1 : Known(k[i].world)'
  BY <1>1, <1>4, <1>5, <1>6 DEF Known
<1>9. Ends(k[n + 1])'
  <2>1. k[n + 1] = h[n + 2]
    BY <1>6
  <2>2. Ends(h[n + 2])
    BY <1>1, <1>4
  <2>3. PICK v : v = h[n + 2]
    OBVIOUS
  <2>4. Ends(v)'
    BY <1>5, <2>2, <2>3 DEF Ends, Known, ChunksAgree, EntitiesAgree, BagAgrees, NoneKnown
  <2>. QED  BY <2>1, <2>3, <2>4
<1>. QED  BY <1>3, <1>7, <1>8, <1>9 DEF CourseInv

LEMMA CourseInvariant == Spec => [](TypeInv /\ CourseInv)
<1>1. Init => CourseInv
  <2>. SUFFICES ASSUME Init
                PROVE  CourseInv
    OBVIOUS
  <2>1. /\ events = <<>> /\ online = "no" /\ pending = NothingPending
        /\ world.geometry = None /\ seen = NoEntities
    BY DEF Init, HostInit, ViewsInit, NoView
  <2>2. PICK h : h = [i \in 1 .. 1 |-> Now]
    OBVIOUS
  <2>3. Len(events) = 0 /\ h[1] = Now
    BY <2>1, <2>2
  <2>4. Course(h, events)
    BY <2>3 DEF Course
  <2>5. Known(Now.world) /\ Ends(Now)
    BY <2>1, NothingChanges DEF Ends, Known, NoneKnown, Now, NoEntities
  <2>. QED  BY <2>3, <2>4, <2>5 DEF CourseInv
<1>2. TypeInv /\ CourseInv /\ [Next]_vars => CourseInv'
  <2>. SUFFICES ASSUME TypeInv, CourseInv, [Next]_vars
                PROVE  CourseInv'
    OBVIOUS
  <2>. USE DEF TypeInv
  <2>1. CASE Report
    BY <2>1, CourseReport, CourseCrash DEF Report
  <2>2. CASE Deliver
    BY <2>2, CourseDeliver
  <2>3. CASE UNCHANGED vars
    BY <2>3 DEF vars, host, views, CourseInv, Course, Now, Known, Ends, ChunksAgree, EntitiesAgree,
                BagAgrees, NoneKnown
  <2>. QED  BY <2>1, <2>2, <2>3 DEF Next
<1>. QED  BY <1>1, <1>2, TypeInvariant, PTL DEF Spec

\* With nothing on its way the engine has come to the end of the course.
LEMMA AtTheEnd ==
  ASSUME CourseInv, Drained
  PROVE  Ends(Now) /\ \A id \in Ids : AfterChanges(seen, pending)[id] = seen[id]
<1>1. Len(events) = 0 /\ pending = NothingPending
  BY DEF Drained
<1>2. Ends(Now)
  BY <1>1 DEF CourseInv, Course
<1>. QED  BY <1>1, <1>2, NothingChanges

\* Once all observations are applied the engine's columns are the server's,
\* through batches, unreadable payloads, changes of dimension, lost sessions
\* and crashes of the host, however many there are of each (applyChunkEvent).
THEOREM ColumnsTrue == Spec => []ChunksMirrored
<1>1. CourseInv => ChunksMirrored
  BY AtTheEnd DEF ChunksMirrored, Ends, ChunksAgree, Now, Drained
<1>. QED  BY <1>1, CourseInvariant, PTL

\* Once all observations are applied the engine knows every entity in sight, in
\* the first session no other, and each that no older move has overtaken where it
\* is or came into sight; in whatever order they come, move and go between two
\* flushes, and although a batch may hold the changes of several sessions
\* (entitySpawn, entityGone, entityMoved and applyEntityEvent).
THEOREM EntitiesTrue == Spec => []EntitiesMirrored
<1>1. CourseInv => EntitiesMirrored
  BY AtTheEnd DEF EntitiesMirrored, Ends, EntitiesAgree, Now
<1>. QED  BY <1>1, CourseInvariant, PTL

\* Once all observations are applied no slot the engine lists differs from the
\* bot's, whatever a task wrote to it, unless a dropped bot had the last word
\* (coalesceInventoryUpdates).
THEOREM SlotsTrue == Spec => []InventoryTrue
<1>1. CourseInv => InventoryTrue
  BY AtTheEnd DEF InventoryTrue, Ends, BagAgrees, Now
<1>. QED  BY <1>1, CourseInvariant, PTL
=============================================================================
