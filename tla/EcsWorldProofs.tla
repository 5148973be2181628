---------------------------- MODULE EcsWorldProofs ----------------------------
(***************************************************************************)
(* Theorems about EcsWorld, for any archetypes, profiles and commands, and *)
(* any bounds.                                                             *)
(*                                                                         *)
(* The operations on tables and locations are taken apart into a removal   *)
(* and a placement: between the two, one index x is of no row.             *)
(***************************************************************************)
EXTENDS EcsWorld, TLAPS

-----------------------------------------------------------------------------
(* Sequences *)

LEMMA RemoveSwapSeq ==
  ASSUME NEW S, NEW t \in Seq(S), NEW row \in 1 .. Len(t)
  PROVE  /\ RemoveSwap(t, row) \in Seq(S)
         /\ Len(RemoveSwap(t, row)) = Len(t) - 1
         /\ \A i \in 1 .. Len(t) - 1 : RemoveSwap(t, row)[i] = IF i = row THEN t[Len(t)] ELSE t[i]
<1>1. Len(t) - 1 \in Nat
  OBVIOUS
<1>2. RemoveSwap(t, row) \in [1 .. Len(t) - 1 -> S]
  BY DEF RemoveSwap
<1>. QED  BY <1>1, <1>2 DEF RemoveSwap

LEMMA FrontSeq ==
  ASSUME NEW S, NEW t \in Seq(S), t # <<>>
  PROVE  LET f == [i \in 1 .. Len(t) - 1 |-> t[i]]
         IN  f \in Seq(S) /\ Len(f) = Len(t) - 1 /\ \A i \in 1 .. Len(t) - 1 : f[i] = t[i]
<1>1. Len(t) - 1 \in Nat
  OBVIOUS
<1>2. [i \in 1 .. Len(t) - 1 |-> t[i]] \in [1 .. Len(t) - 1 -> S]
  OBVIOUS
<1>. QED  BY <1>1, <1>2

-----------------------------------------------------------------------------
(* Tables and locations while the entity of index x is of no row *)

Tables == [Masks -> Seq(Row)]

SoundBut(T, L, x) ==
  /\ \A m \in Masks : \A r \in 1 .. Len(T[m]) :
       /\ T[m][r].entity.index \in 1 .. Len(L)
       /\ T[m][r].entity.index # x
       /\ L[T[m][r].entity.index] = Located(m, r, T[m][r].entity.generation)
       /\ T[m][r].profile = NoProfile <=> Bot \notin m
  /\ \A i \in 1 .. Len(L) : i # x /\ L[i].alive =>
       /\ L[i].mask \in Masks
       /\ L[i].row \in 1 .. Len(T[L[i].mask])
       /\ T[L[i].mask][L[i].row].entity = [index |-> i, generation |-> L[i].generation]

RowsOf(T) == UNION {{T[m][r] : r \in 1 .. Len(T[m])} : m \in Masks}

\* The profiles are mapped to the bots among the rows R.
BotsOf(B, R) ==
  \A p \in Profiles :
    /\ B[p] # Nobody => \E x \in R : x.entity = B[p] /\ x.profile = p
    /\ \A x \in R : x.profile = p => B[p] = x.entity

LEMMA SoundIsRowsAndLocations ==
  ASSUME WorldTypeOK
  PROVE  RowsLocated /\ LocationsFilled <=> SoundBut(tables, locations, 0)
BY DEF WorldTypeOK, RowsLocated, LocationsFilled, SoundBut

\* One index is of one row.
LEMMA OneRowEach ==
  ASSUME NEW T \in Tables, NEW L \in Seq(Location), NEW x, SoundBut(T, L, x),
         NEW y \in RowsOf(T), NEW z \in RowsOf(T), y.entity.index = z.entity.index
  PROVE  y = z
<1>1. PICK m \in Masks, r \in Nat : r \in 1 .. Len(T[m]) /\ y = T[m][r]
  BY DEF RowsOf
<1>2. PICK n \in Masks, s \in Nat : s \in 1 .. Len(T[n]) /\ z = T[n][s]
  BY DEF RowsOf
<1>3. Located(m, r, y.entity.generation) = Located(n, s, z.entity.generation)
  BY <1>1, <1>2 DEF SoundBut
<1>4. m = n /\ r = s
  BY <1>3 DEF Located
<1>. QED  BY <1>1, <1>2, <1>4

LEMMA LocatedFields ==
  \A m, r, g : /\ Located(m, r, g).alive = TRUE
               /\ Located(m, r, g).mask = m
               /\ Located(m, r, g).row = r
               /\ Located(m, r, g).generation = g
BY DEF Located

\* Tables U are T without the given row of table m, which its last row fills.
Removed(T, U, m, row) ==
  /\ U \in Tables
  /\ \A k \in Masks \ {m} : U[k] = T[k]
  /\ Len(U[m]) = Len(T[m]) - 1
  /\ \A i \in 1 .. Len(T[m]) - 1 : U[m][i] = IF i = row THEN T[m][Len(T[m])] ELSE T[m][i]

\* Locations M are L, with the entity of the last row of table m moved.
Swapped(T, L, M, m, row) ==
  LET last == T[m][Len(T[m])].entity
  IN  /\ M \in Seq(Location)
      /\ Len(M) = Len(L)
      /\ \A i \in 1 .. Len(L) : i # last.index \/ row = Len(T[m]) => M[i] = L[i]
      /\ row # Len(T[m]) => M[last.index] = Located(m, row, last.generation)

\* A row of table m is removed, that of index x: the entity that takes its
\* place is found again.
LEMMA RemovalSound ==
  ASSUME NEW T \in Tables, NEW L \in Seq(Location), SoundBut(T, L, 0),
         NEW m \in Masks, NEW row \in 1 .. Len(T[m]),
         NEW U, Removed(T, U, m, row), NEW M, Swapped(T, L, M, m, row)
  PROVE  SoundBut(U, M, T[m][row].entity.index)
<1>. DEFINE n == Len(T[m])
            last == T[m][n].entity.index
            x == T[m][row].entity.index
<1>0. /\ n \in Nat /\ Len(T[m]) = n /\ row \in 1 .. n
      /\ T[m][n].entity.index = last /\ T[m][row].entity.index = x
      /\ U \in Tables /\ \A k \in Masks \ {m} : U[k] = T[k]
      /\ Len(U[m]) = n - 1
      /\ \A i \in 1 .. n - 1 : U[m][i] = IF i = row THEN T[m][n] ELSE T[m][i]
      /\ M \in Seq(Location) /\ Len(M) = Len(L)
      /\ \A i \in 1 .. Len(L) : i # last \/ row = n => M[i] = L[i]
      /\ row # n => M[last] = Located(m, row, T[m][n].entity.generation)
  <2>1. /\ n \in Nat /\ Len(T[m]) = n /\ row \in 1 .. n
        /\ T[m][n].entity.index = last /\ T[m][row].entity.index = x
    BY DEF Tables
  <2>2. /\ U \in Tables /\ \A k \in Masks \ {m} : U[k] = T[k]
        /\ Len(U[m]) = n - 1
        /\ \A i \in 1 .. n - 1 : U[m][i] = IF i = row THEN T[m][n] ELSE T[m][i]
    BY DEF Removed
  <2>3. /\ M \in Seq(Location) /\ Len(M) = Len(L)
        /\ \A i \in 1 .. Len(L) : i # last \/ row = n => M[i] = L[i]
        /\ row # n => M[last] = Located(m, row, T[m][n].entity.generation)
    BY DEF Swapped
  <2>. HIDE DEF n, last, x
  <2>. QED  BY <2>1, <2>2, <2>3
<1>. HIDE DEF n, last, x
<1>. USE <1>0
<1>1. /\ x \in 1 .. Len(L) /\ L[x] = Located(m, row, T[m][row].entity.generation)
      /\ last \in 1 .. Len(L) /\ L[last] = Located(m, n, T[m][n].entity.generation)
      /\ T[m][n].profile = NoProfile <=> Bot \notin m
  BY DEF SoundBut
<1>2. row # n => last # x
  BY <1>1, LocatedFields
<1>8. L[x].mask = m /\ L[x].row = row /\ L[last].mask = m /\ L[last].row = n
  BY <1>1, LocatedFields
<1>3. ASSUME NEW k \in Masks, NEW r \in 1 .. Len(U[k])
      PROVE  /\ U[k][r].entity.index \in 1 .. Len(M)
             /\ U[k][r].entity.index # x
             /\ M[U[k][r].entity.index] = Located(k, r, U[k][r].entity.generation)
             /\ U[k][r].profile = NoProfile <=> Bot \notin k
  <2>1. CASE k # m
    <3>1. /\ U[k] = T[k] /\ r \in 1 .. Len(T[k])
          /\ T[k][r].entity.index \in 1 .. Len(L)
          /\ L[T[k][r].entity.index] = Located(k, r, T[k][r].entity.generation)
          /\ T[k][r].profile = NoProfile <=> Bot \notin k
      BY <2>1 DEF SoundBut
    <3>2. L[T[k][r].entity.index].mask = k
      BY <3>1, LocatedFields
    <3>3. T[k][r].entity.index # x /\ T[k][r].entity.index # last
      BY <2>1, <3>2, <1>8
    <3>. QED  BY <3>1, <3>3
  <2>2. CASE k = m /\ r = row
    <3>1. row # n /\ U[k][r] = T[m][n]
      BY <2>2
    <3>. QED  BY <2>2, <3>1, <1>1, <1>2
  <2>3. CASE k = m /\ r # row
    <3>1. r \in 1 .. n /\ r # n /\ U[k][r] = T[m][r]
      BY <2>3
    <3>2. /\ T[m][r].entity.index \in 1 .. Len(L)
          /\ L[T[m][r].entity.index] = Located(m, r, T[m][r].entity.generation)
          /\ T[m][r].profile = NoProfile <=> Bot \notin m
      BY <3>1 DEF SoundBut
    <3>3. L[T[m][r].entity.index].row = r
      BY <3>2, LocatedFields
    <3>4. T[m][r].entity.index # last /\ T[m][r].entity.index # x
      BY <2>3, <3>1, <3>3, <1>8
    <3>. QED  BY <2>3, <3>1, <3>2, <3>4
  <2>. QED  BY <2>1, <2>2, <2>3
<1>4. ASSUME NEW i \in 1 .. Len(M), i # x, M[i].alive
      PROVE  /\ M[i].mask \in Masks
             /\ M[i].row \in 1 .. Len(U[M[i].mask])
             /\ U[M[i].mask][M[i].row].entity = [index |-> i, generation |-> M[i].generation]
  <2>1. CASE i = last /\ row # n
    <3>1. /\ M[i].mask = m /\ M[i].row = row
          /\ M[i].generation = T[m][n].entity.generation
      BY <2>1, LocatedFields
    <3>2. row \in 1 .. n - 1 /\ U[m][row] = T[m][n]
      BY <2>1
    <3>3. T[m][n] \in Row
      BY DEF Tables
    <3>4. T[m][n].entity = [index |-> i, generation |-> T[m][n].entity.generation]
      BY <2>1, <3>3 DEF Row, Entity
    <3>. QED  BY <3>1, <3>2, <3>4
  <2>2. CASE i # last \/ row = n
    <3>1. M[i] = L[i] /\ i \in 1 .. Len(L)
      BY <2>2
    <3>2. /\ L[i].mask \in Masks
          /\ L[i].row \in 1 .. Len(T[L[i].mask])
          /\ T[L[i].mask][L[i].row].entity = [index |-> i, generation |-> L[i].generation]
      BY <3>1, <1>4 DEF SoundBut
    <3>3. CASE L[i].mask # m
      BY <3>1, <3>2, <3>3
    <3>4. CASE L[i].mask = m
      <4>1. L[i].row # row /\ L[i].row # n
        BY <3>2, <3>4, <2>2, <1>4
      <4>2. L[i].row \in 1 .. n - 1 /\ U[m][L[i].row] = T[m][L[i].row]
        BY <3>2, <3>4, <4>1
      <4>. QED  BY <3>1, <3>2, <3>4, <4>2
    <3>. QED  BY <3>3, <3>4
  <2>. QED  BY <2>1, <2>2
<1>5. SoundBut(U, M, x)
  BY <1>3, <1>4 DEF SoundBut
<1>. QED  BY <1>5 DEF x

LEMMA RemovalRows ==
  ASSUME NEW T \in Tables, NEW L \in Seq(Location), SoundBut(T, L, 0),
         NEW m \in Masks, NEW row \in 1 .. Len(T[m]),
         NEW U, Removed(T, U, m, row)
  PROVE  /\ T[m][row] \in RowsOf(T)
         /\ RowsOf(U) = RowsOf(T) \ {T[m][row]}
<1>. DEFINE n == Len(T[m])
<1>0. /\ n \in Nat /\ Len(T[m]) = n /\ row \in 1 .. n
      /\ U \in Tables /\ \A k \in Masks \ {m} : U[k] = T[k]
      /\ Len(U[m]) = n - 1
      /\ \A i \in 1 .. n - 1 : U[m][i] = IF i = row THEN T[m][n] ELSE T[m][i]
  BY DEF Tables, Removed
<1>. HIDE DEF n
<1>. USE <1>0
<1>3. T[m][row] \in RowsOf(T)
  BY DEF RowsOf
<1>4. ASSUME NEW i \in 1 .. n, T[m][i] = T[m][row]
      PROVE  i = row
  <2>1. /\ L[T[m][i].entity.index] = Located(m, i, T[m][i].entity.generation)
        /\ L[T[m][row].entity.index] = Located(m, row, T[m][row].entity.generation)
    BY DEF SoundBut
  <2>2. /\ L[T[m][i].entity.index].row = i /\ L[T[m][row].entity.index].row = row
    BY <2>1, LocatedFields
  <2>. QED  BY <2>2, <1>4
<1>5. ASSUME NEW k \in Masks, k # m, NEW r \in 1 .. Len(T[k])
      PROVE  T[k][r] # T[m][row]
  <2>1. /\ L[T[k][r].entity.index] = Located(k, r, T[k][r].entity.generation)
        /\ L[T[m][row].entity.index] = Located(m, row, T[m][row].entity.generation)
    BY DEF SoundBut
  <2>2. /\ L[T[k][r].entity.index].mask = k /\ L[T[m][row].entity.index].mask = m
    BY <2>1, LocatedFields
  <2>. QED  BY <2>2, <1>5
<1>1. ASSUME NEW y \in RowsOf(U)
      PROVE  y \in RowsOf(T) \ {T[m][row]}
  <2>1. PICK k \in Masks, r \in Nat : r \in 1 .. Len(U[k]) /\ y = U[k][r]
    BY DEF RowsOf, Tables
  <2>3. CASE k # m
    BY <2>1, <2>3, <1>5 DEF RowsOf
  <2>4. CASE k = m
    <3>1. CASE r # row
      <4>1. r \in 1 .. n /\ y = T[m][r]
        BY <2>1, <2>4, <3>1
      <4>. QED  BY <3>1, <4>1, <1>4 DEF RowsOf
    <3>2. CASE r = row
      <4>1. n \in 1 .. n /\ row # n /\ y = T[m][n]
        BY <2>1, <2>4, <3>2
      <4>. QED  BY <4>1, <1>4 DEF RowsOf
    <3>. QED  BY <3>1, <3>2
  <2>. QED  BY <2>3, <2>4
<1>2. ASSUME NEW y \in RowsOf(T) \ {T[m][row]}
      PROVE  y \in RowsOf(U)
  <2>1. PICK k \in Masks, r \in Nat : r \in 1 .. Len(T[k]) /\ y = T[k][r]
    BY DEF RowsOf, Tables
  <2>2. CASE k # m
    BY <2>1, <2>2 DEF RowsOf
  <2>3. CASE k = m /\ r = n
    <3>1. row \in 1 .. Len(U[m]) /\ U[m][row] = y
      BY <2>1, <2>3
    <3>. QED  BY <3>1 DEF RowsOf
  <2>4. CASE k = m /\ r # n
    <3>1. r \in 1 .. Len(U[m]) /\ U[m][r] = y
      BY <2>1, <2>4
    <3>. QED  BY <3>1 DEF RowsOf
  <2>. QED  BY <2>2, <2>3, <2>4
<1>. QED  BY <1>1, <1>2, <1>3

\* Tables U are T with the row y appended to table m.
Placed(T, U, m, y) ==
  /\ U \in Tables
  /\ \A k \in Masks \ {m} : U[k] = T[k]
  /\ Len(U[m]) = Len(T[m]) + 1
  /\ \A i \in 1 .. Len(T[m]) : U[m][i] = T[m][i]
  /\ U[m][Len(T[m]) + 1] = y

\* Locations M are L, with index x at l.
Relocated(L, M, x, l) ==
  /\ M \in Seq(Location)
  /\ x \in 1 .. Len(M) /\ M[x] = l
  /\ \A i \in 1 .. Len(M) : i # x => i \in 1 .. Len(L) /\ M[i] = L[i]
  /\ Len(L) <= Len(M)

\* A row for index x is appended to table m.
LEMMA PlacementSound ==
  ASSUME NEW T \in Tables, NEW L \in Seq(Location), NEW x \in Nat \ {0}, SoundBut(T, L, x),
         NEW m \in Masks, NEW y, NEW U, Placed(T, U, m, y),
         NEW g, y.entity = [index |-> x, generation |-> g],
         y.profile = NoProfile <=> Bot \notin m,
         NEW M, Relocated(L, M, x, Located(m, Len(T[m]) + 1, g))
  PROVE  SoundBut(U, M, 0)
<1>. DEFINE n == Len(T[m]) + 1
<1>0. /\ U \in Tables /\ \A k \in Masks \ {m} : U[k] = T[k]
      /\ n \in Nat \ {0} /\ Len(T[m]) = n - 1
      /\ Len(U[m]) = n /\ \A i \in 1 .. n - 1 : U[m][i] = T[m][i]
      /\ U[m][n].entity = [index |-> x, generation |-> g]
      /\ U[m][n].profile = NoProfile <=> Bot \notin m
      /\ U[m][n] = y
      /\ M \in Seq(Location) /\ x \in 1 .. Len(M) /\ M[x] = Located(m, n, g)
      /\ \A i \in 1 .. Len(M) : i # x => i \in 1 .. Len(L) /\ M[i] = L[i]
      /\ Len(L) <= Len(M)
  BY DEF Tables, Placed, Relocated
<1>. HIDE DEF n
<1>. USE <1>0
<1>1. ASSUME NEW k \in Masks, NEW r \in 1 .. Len(U[k])
      PROVE  /\ U[k][r].entity.index \in 1 .. Len(M)
             /\ U[k][r].entity.index # 0
             /\ M[U[k][r].entity.index] = Located(k, r, U[k][r].entity.generation)
             /\ U[k][r].profile = NoProfile <=> Bot \notin k
  <2>1. CASE k = m /\ r = n
    BY <2>1
  <2>2. CASE k # m \/ r # n
    <3>1. r \in 1 .. Len(T[k]) /\ U[k][r] = T[k][r]
      BY <2>2
    <3>2. /\ T[k][r].entity.index \in 1 .. Len(L) /\ T[k][r].entity.index # x
          /\ L[T[k][r].entity.index] = Located(k, r, T[k][r].entity.generation)
          /\ T[k][r].profile = NoProfile <=> Bot \notin k
      BY <3>1 DEF SoundBut
    <3>3. PICK i : i = T[k][r].entity.index
      OBVIOUS
    <3>4. i \in 1 .. Len(L) /\ i # x
      BY <3>2, <3>3
    <3>5. i \in 1 .. Len(M) /\ M[i] = L[i] /\ i # 0
      <4>1. Len(L) \in Nat /\ Len(M) \in Nat /\ Len(L) <= Len(M)
        OBVIOUS
      <4>2. i \in 1 .. Len(M)
        BY <3>4, <4>1
      <4>. QED  BY <3>4, <4>2
    <3>. QED  BY <3>1, <3>2, <3>3, <3>5
  <2>. QED  BY <2>1, <2>2
<1>2. ASSUME NEW i \in 1 .. Len(M), M[i].alive
      PROVE  /\ M[i].mask \in Masks
             /\ M[i].row \in 1 .. Len(U[M[i].mask])
             /\ U[M[i].mask][M[i].row].entity = [index |-> i, generation |-> M[i].generation]
  <2>1. CASE i = x
    <3>1. M[x].mask = m /\ M[x].row = n /\ M[x].generation = g
      BY LocatedFields
    <3>. QED  BY <2>1, <3>1
  <2>2. CASE i # x
    <3>1. /\ M[i].mask \in Masks
          /\ M[i].row \in 1 .. Len(T[M[i].mask])
          /\ T[M[i].mask][M[i].row].entity = [index |-> i, generation |-> M[i].generation]
      BY <1>2, <2>2 DEF SoundBut
    <3>2. CASE M[i].mask = m
      BY <3>1, <3>2, SMTT(30)
    <3>3. CASE M[i].mask # m
      BY <3>1, <3>3
    <3>. QED  BY <3>2, <3>3
  <2>. QED  BY <2>1, <2>2
<1>. QED
  BY <1>1, <1>2 DEF SoundBut
LEMMA PlacementRows ==
  ASSUME NEW T \in Tables, NEW m \in Masks, NEW y, NEW U, Placed(T, U, m, y)
  PROVE  RowsOf(U) = RowsOf(T) \cup {y}
<1>. DEFINE n == Len(T[m]) + 1
<1>0. /\ U \in Tables /\ \A k \in Masks \ {m} : U[k] = T[k]
      /\ n \in Nat \ {0} /\ Len(T[m]) = n - 1
      /\ Len(U[m]) = n /\ \A i \in 1 .. n - 1 : U[m][i] = T[m][i]
      /\ U[m][n] = y
  BY DEF Tables, Placed
<1>. HIDE DEF n
<1>. USE <1>0
<1>1. ASSUME NEW z \in RowsOf(U)
      PROVE  z \in RowsOf(T) \cup {y}
  <2>1. PICK k \in Masks, r \in Nat : r \in 1 .. Len(U[k]) /\ z = U[k][r]
    BY DEF RowsOf, Tables
  <2>2. CASE k # m
    BY <2>1, <2>2 DEF RowsOf
  <2>3. CASE k = m /\ r # n
    <3>1. r \in 1 .. Len(T[m]) /\ T[m][r] = z
      BY <2>1, <2>3
    <3>. QED  BY <3>1 DEF RowsOf
  <2>. QED  BY <2>1, <2>2, <2>3
<1>2. ASSUME NEW z \in RowsOf(T)
      PROVE  z \in RowsOf(U)
  <2>1. PICK k \in Masks, r \in Nat : r \in 1 .. Len(T[k]) /\ z = T[k][r]
    BY DEF RowsOf, Tables
  <2>2. r \in 1 .. Len(U[k]) /\ U[k][r] = z
    BY <2>1
  <2>. QED  BY <2>2 DEF RowsOf
<1>3. y \in RowsOf(U)
  BY DEF RowsOf
<1>. QED  BY <1>1, <1>2, <1>3

\* The entity of index x, of no row, is dead.
LEMMA DeathSound ==
  ASSUME NEW T \in Tables, NEW L \in Seq(Location), NEW x \in 1 .. Len(L), SoundBut(T, L, x),
         NEW M \in Seq(Location), Len(M) = Len(L), ~M[x].alive,
         \A i \in 1 .. Len(L) : i # x => M[i] = L[i]
  PROVE  SoundBut(T, M, 0)
<1>1. ASSUME NEW k \in Masks, NEW r \in 1 .. Len(T[k])
      PROVE  /\ T[k][r].entity.index \in 1 .. Len(M)
             /\ T[k][r].entity.index # 0
             /\ M[T[k][r].entity.index] = Located(k, r, T[k][r].entity.generation)
             /\ T[k][r].profile = NoProfile <=> Bot \notin k
  BY DEF SoundBut
<1>2. ASSUME NEW i \in 1 .. Len(M), M[i].alive
      PROVE  i # x /\ M[i] = L[i]
  BY <1>2
<1>3. ASSUME NEW i \in 1 .. Len(M), M[i].alive
      PROVE  /\ M[i].mask \in Masks
             /\ M[i].row \in 1 .. Len(T[M[i].mask])
             /\ T[M[i].mask][M[i].row].entity = [index |-> i, generation |-> M[i].generation]
  BY <1>2, <1>3 DEF SoundBut
<1>. QED  BY <1>1, <1>3 DEF SoundBut

\* An index of no live entity is of no row.
LEMMA VacantSound ==
  ASSUME NEW T \in Tables, NEW L \in Seq(Location), SoundBut(T, L, 0),
         NEW x, x \in 1 .. Len(L) => ~L[x].alive
  PROVE  SoundBut(T, L, x)
<1>1. ASSUME NEW k \in Masks, NEW r \in 1 .. Len(T[k])
      PROVE  T[k][r].entity.index # x
  <2>1. /\ T[k][r].entity.index \in 1 .. Len(L)
        /\ L[T[k][r].entity.index] = Located(k, r, T[k][r].entity.generation)
    BY DEF SoundBut
  <2>2. L[T[k][r].entity.index].alive = TRUE
    BY <2>1, LocatedFields
  <2>. QED  BY <2>1, <2>2
<1>. QED  BY <1>1 DEF SoundBut

-----------------------------------------------------------------------------
(* The bot index *)

LEMMA BotsIndexedIsBotsOf ==
  ASSUME WorldTypeOK, SoundBut(tables, locations, 0)
  PROVE  BotsIndexed <=> BotsOf(botIndex, RowsOf(tables))
<1>1. ASSUME NEW p \in Profiles, botIndex[p] # Nobody, Resolves(botIndex[p])
      PROVE  LET l == locations[botIndex[p].index]
             IN  /\ tables[l.mask][l.row] \in RowsOf(tables)
                 /\ tables[l.mask][l.row].entity = botIndex[p]
  <2>. DEFINE l == locations[botIndex[p].index]
  <2>1. /\ botIndex[p].index \in 1 .. Len(locations) /\ l.alive
        /\ l.generation = botIndex[p].generation
        /\ botIndex[p] \in Entity
    BY <1>1 DEF Resolves, WorldTypeOK
  <2>2. /\ l.mask \in Masks /\ l.row \in 1 .. Len(tables[l.mask])
        /\ tables[l.mask][l.row].entity = [index |-> botIndex[p].index, generation |-> l.generation]
    BY <2>1 DEF SoundBut
  <2>3. botIndex[p] = [index |-> botIndex[p].index, generation |-> botIndex[p].generation]
    BY <2>1 DEF Entity
  <2>4. tables[l.mask][l.row] \in RowsOf(tables)
    <3>1. \A k \in Masks : \A r \in 1 .. Len(tables[k]) : tables[k][r] \in RowsOf(tables)
      BY DEF RowsOf
    <3>. HIDE DEF l
    <3>. QED  BY <2>2, <3>1
  <2>5. tables[l.mask][l.row].entity = botIndex[p]
    BY <2>1, <2>2, <2>3
  <2>. QED  BY <2>4, <2>5, Zenon
<1>2. ASSUME NEW x \in RowsOf(tables)
      PROVE  /\ Resolves(x.entity)
             /\ LET l == locations[x.entity.index] IN tables[l.mask][l.row] = x
  <2>1. PICK k \in Masks, r \in Nat : r \in 1 .. Len(tables[k]) /\ x = tables[k][r]
    BY DEF RowsOf, WorldTypeOK
  <2>2. /\ x.entity.index \in 1 .. Len(locations)
        /\ locations[x.entity.index] = Located(k, r, x.entity.generation)
    BY <2>1 DEF SoundBut
  <2>. QED  BY <2>1, <2>2, LocatedFields DEF Resolves
<1>3. ASSUME BotsIndexed PROVE BotsOf(botIndex, RowsOf(tables))
  <2>1. ASSUME NEW p \in Profiles, botIndex[p] # Nobody
        PROVE  \E x \in RowsOf(tables) : x.entity = botIndex[p] /\ x.profile = p
    BY <1>1, <1>3, <2>1 DEF BotsIndexed
  <2>2. ASSUME NEW p \in Profiles, NEW x \in RowsOf(tables), x.profile = p
        PROVE  botIndex[p] = x.entity
    BY <1>3, <2>2 DEF BotsIndexed, RowsOf
  <2>. QED  BY <2>1, <2>2 DEF BotsOf
<1>4. ASSUME BotsOf(botIndex, RowsOf(tables)) PROVE BotsIndexed
  <2>1. ASSUME NEW p \in Profiles, botIndex[p] # Nobody
        PROVE  /\ Resolves(botIndex[p])
               /\ LET l == locations[botIndex[p].index] IN tables[l.mask][l.row].profile = p
    <3>1. PICK x \in RowsOf(tables) : x.entity = botIndex[p] /\ x.profile = p
      BY <1>4, <2>1 DEF BotsOf
    <3>. QED  BY <3>1, <1>2
  <2>2. ASSUME NEW p \in Profiles, NEW m \in Masks, NEW r \in 1 .. Len(tables[m]),
               tables[m][r].profile = p
        PROVE  botIndex[p] = tables[m][r].entity
    BY <1>4, <2>2 DEF BotsOf, RowsOf
  <2>. QED  BY <2>1, <2>2 DEF BotsIndexed
<1>. QED  BY <1>3, <1>4

\* A bot's row is removed, and its profile with it.
LEMMA BotsRemoved ==
  ASSUME NEW B \in [Profiles -> Entity], NEW R, BotsOf(B, R), NEW y \in R,
         \A z \in R : z.entity = y.entity => z = y,
         NEW C \in [Profiles -> Entity],
         \A p \in Profiles : C[p] = IF p = y.profile THEN Nobody ELSE B[p]
  PROVE  BotsOf(C, R \ {y})
<1>1. ASSUME NEW p \in Profiles, C[p] # Nobody
      PROVE  \E x \in R \ {y} : x.entity = C[p] /\ x.profile = p
  BY <1>1 DEF BotsOf
<1>2. ASSUME NEW p \in Profiles, NEW x \in R \ {y}, x.profile = p
      PROVE  C[p] = x.entity
  BY <1>2 DEF BotsOf
<1>. QED  BY <1>1, <1>2 DEF BotsOf

\* A row is added of a profile that is nobody's.
LEMMA BotsAdded ==
  ASSUME NEW B \in [Profiles -> Entity], NEW R, BotsOf(B, R), NEW y,
         y.profile \in Profiles => B[y.profile] = Nobody,
         \A x \in R : x.entity # Nobody,
         NEW C \in [Profiles -> Entity],
         \A p \in Profiles : C[p] = IF p = y.profile THEN y.entity ELSE B[p]
  PROVE  BotsOf(C, R \cup {y})
<1>1. ASSUME NEW p \in Profiles, C[p] # Nobody
      PROVE  \E x \in R \cup {y} : x.entity = C[p] /\ x.profile = p
  BY <1>1 DEF BotsOf
<1>2. ASSUME NEW p \in Profiles, NEW x \in R \cup {y}, x.profile = p
      PROVE  C[p] = x.entity
  BY <1>2 DEF BotsOf
<1>. QED  BY <1>1, <1>2 DEF BotsOf

-----------------------------------------------------------------------------
(* The storage *)

StorageOK ==
  /\ tables \in Tables
  /\ locations \in Seq(Location)
  /\ generations \in Seq(Nat)
  /\ free \in Seq(Nat)
  /\ botIndex \in [Profiles -> Entity]
  /\ SoundBut(tables, locations, 0)
  /\ IndicesFree
  /\ BotsOf(botIndex, RowsOf(tables))

StagingOK ==
  /\ queue \in Seq(Envelop)
  /\ dirty \subseteq Masks
  /\ syncing \in 0 .. Len(queue) + 1
  /\ syncError \in {"none", "invalid", "commit"}

LEMMA WorldInvParts == WorldInv <=> StorageOK /\ StagingOK /\ BatchFits
<1>1. ASSUME WorldTypeOK
      PROVE  WorldInv <=> StorageOK /\ StagingOK /\ BatchFits
  BY <1>1, SoundIsRowsAndLocations, BotsIndexedIsBotsOf
     DEF WorldInv, WorldTypeOK, StorageOK, StagingOK, Tables
<1>2. StorageOK /\ StagingOK => WorldTypeOK
  BY DEF WorldTypeOK, StorageOK, StagingOK, Tables
<1>. QED  BY <1>1, <1>2 DEF WorldInv

LEMMA RowsAreSomebody ==
  ASSUME StorageOK, NEW x \in RowsOf(tables)
  PROVE  x \in Row /\ x.entity # Nobody /\ x.entity.index \in 1 .. Len(locations)
<1>1. PICK k \in Masks, r \in Nat : r \in 1 .. Len(tables[k]) /\ x = tables[k][r]
  BY DEF RowsOf, StorageOK, Tables
<1>2. x \in Row
  BY <1>1 DEF StorageOK, Tables
<1>3. x.entity.index \in 1 .. Len(locations)
  BY <1>1 DEF StorageOK, SoundBut
<1>. QED  BY <1>2, <1>3 DEF Nobody, StorageOK

LEMMA BundleProfile ==
  ASSUME NEW b \in Bundle
  PROVE  /\ b.mask \in Masks /\ b.profile \in Profiles \cup {NoProfile}
         /\ b.profile = NoProfile <=> Bot \notin b.mask
         /\ b.profile \in Profiles => Bot \in b.mask
BY WorldAssumption DEF Bundle

LEMMA LocatedType ==
  ASSUME NEW m \in Masks, NEW r \in Nat, NEW g \in Nat
  PROVE  Located(m, r, g) \in Location
BY DEF Located, Location

\* An entity is created: its index was free, or is new, and its row is the last.
LEMMA InsertShape ==
  ASSUME StorageOK, NEW b \in Bundle, Accepts(b), Insert(b)
  PROVE  LET e   == NextEntity
             n   == Len(tables[b.mask]) + 1
             y   == [entity |-> e, profile |-> b.profile]
             loc == Located(b.mask, n, e.generation)
         IN  /\ /\ e.index \in Nat \ {0} /\ e.generation \in Nat /\ e \in Entity
                /\ e = [index |-> e.index, generation |-> e.generation]
                /\ free # <<>> => e.index = free[Len(free)] /\ e.generation = generations[e.index]
                                  /\ e.index \in 1 .. Len(locations) /\ ~locations[e.index].alive
                /\ free = <<>> => e.index = Len(locations) + 1 /\ e.generation = 1
             /\ y \in Row /\ loc \in Location
             /\ Placed(tables, tables', b.mask, y)
             /\ Relocated(locations, locations', e.index, loc)
             /\ /\ generations' \in Seq(Nat) /\ Len(generations') = Len(locations')
                /\ \A i \in 1 .. Len(locations') : locations'[i].generation = generations'[i]
             /\ /\ free' \in Seq(Nat)
                /\ \A i \in 1 .. Len(free') : /\ free'[i] # e.index
                                              /\ i \in 1 .. Len(free) /\ free'[i] = free[i]
             /\ /\ botIndex' \in [Profiles -> Entity]
                /\ \A p \in Profiles : botIndex'[p] = IF p = b.profile THEN e ELSE botIndex[p]
<1>. DEFINE e == NextEntity
            n == Len(tables[b.mask]) + 1
            y == [entity |-> e, profile |-> b.profile]
            loc == Located(b.mask, n, e.generation)
<1>1. /\ b.mask \in Masks /\ b.profile \in Profiles \cup {NoProfile}
      /\ b.profile = NoProfile <=> Bot \notin b.mask
      /\ b.profile \in Profiles => Bot \in b.mask
  BY BundleProfile
<1>2. /\ tables \in Tables /\ locations \in Seq(Location) /\ generations \in Seq(Nat)
      /\ free \in Seq(Nat) /\ botIndex \in [Profiles -> Entity]
      /\ SoundBut(tables, locations, 0)
      /\ Len(generations) = Len(locations)
      /\ \A i \in 1 .. Len(locations) : locations[i].generation = generations[i]
      /\ \A i \in 1 .. Len(free) : free[i] \in 1 .. Len(locations) /\ ~locations[free[i]].alive
      /\ \A i, j \in 1 .. Len(free) : free[i] = free[j] => i = j
  BY DEF StorageOK, IndicesFree
<1>3. tables[b.mask] \in Seq(Row) /\ n \in Nat \ {0}
  BY <1>1, <1>2 DEF Tables
<1>4. /\ e.index \in Nat \ {0} /\ e.generation \in Nat /\ e \in Entity
      /\ e = [index |-> e.index, generation |-> e.generation]
      /\ free # <<>> => e.index = free[Len(free)] /\ e.generation = generations[e.index]
                        /\ e.index \in 1 .. Len(locations) /\ ~locations[e.index].alive
      /\ free = <<>> => e.index = Len(locations) + 1 /\ e.generation = 1
  <2>1. CASE free = <<>>
    BY <2>1, <1>2 DEF NextEntity, Entity
  <2>2. CASE free # <<>>
    <3>1. Len(free) \in 1 .. Len(free)
      BY <2>2, <1>2
    <3>2. free[Len(free)] \in 1 .. Len(generations) /\ ~locations[free[Len(free)]].alive
      BY <3>1, <1>2
    <3>. QED  BY <2>2, <3>2, <1>2 DEF NextEntity, Entity
  <2>. QED  BY <2>1, <2>2
<1>5. y \in Row /\ y.entity = e /\ y.profile = b.profile
  BY <1>1, <1>4 DEF Row
<1>6. loc \in Location
  BY <1>1, <1>3, <1>4, LocatedType
<1>7. SoundBut(tables, locations, e.index)
  BY <1>2, <1>4, VacantSound
<1>8. /\ tables' \in Tables
      /\ \A k \in Masks \ {b.mask} : tables'[k] = tables[k]
      /\ Len(tables'[b.mask]) = n
      /\ \A i \in 1 .. n - 1 : tables'[b.mask][i] = tables[b.mask][i]
      /\ tables'[b.mask][n] = y
  <2>1. tables' = [tables EXCEPT ![b.mask] = Append(tables[b.mask], y)]
    BY DEF Insert
  <2>2. /\ Append(tables[b.mask], y) \in Seq(Row) /\ Len(Append(tables[b.mask], y)) = n
        /\ \A i \in 1 .. n - 1 : Append(tables[b.mask], y)[i] = tables[b.mask][i]
        /\ Append(tables[b.mask], y)[n] = y
    BY <1>3, <1>5
  <2>. HIDE DEF n, y
  <2>. QED  BY <2>1, <2>2, <1>1, <1>2 DEF Tables
<1>9. /\ botIndex' \in [Profiles -> Entity]
      /\ \A p \in Profiles : botIndex'[p] = IF p = b.profile THEN e ELSE botIndex[p]
  <2>1. botIndex' = [q \in Profiles |-> IF q = b.profile THEN e ELSE botIndex[q]]
    BY DEF Insert
  <2>. HIDE DEF e
  <2>. QED  BY <2>1, <1>2, <1>4
<1>10. /\ locations' \in Seq(Location)
       /\ e.index \in 1 .. Len(locations') /\ locations'[e.index] = loc
       /\ \A i \in 1 .. Len(locations') : i # e.index => i \in 1 .. Len(locations)
                                                         /\ locations'[i] = locations[i]
       /\ Len(locations) <= Len(locations')
       /\ generations' \in Seq(Nat) /\ Len(generations') = Len(locations')
       /\ \A i \in 1 .. Len(locations') : locations'[i].generation = generations'[i]
       /\ free' \in Seq(Nat)
       /\ \A i \in 1 .. Len(free') : free'[i] # e.index /\ i \in 1 .. Len(free) /\ free'[i] = free[i]
  <2>1. CASE free # <<>>
    <3>1. /\ free' = [i \in 1 .. Len(free) - 1 |-> free[i]]
          /\ locations' = [locations EXCEPT ![e.index] = loc]
          /\ generations' = generations
      BY <2>1 DEF Insert
    <3>2. /\ free' \in Seq(Nat) /\ Len(free') = Len(free) - 1
          /\ \A i \in 1 .. Len(free) - 1 : free'[i] = free[i]
      BY <3>1, <2>1, <1>2, FrontSeq
    <3>3. loc.generation = e.generation
      BY LocatedFields
    <3>. HIDE DEF e, loc
    <3>4. \A i \in 1 .. Len(free') : free'[i] # e.index /\ i \in 1 .. Len(free) /\ free'[i] = free[i]
      <4>1. Len(free) \in 1 .. Len(free) /\ e.index = free[Len(free)]
        BY <2>1, <1>2, <1>4
      <4>2. ASSUME NEW i \in 1 .. Len(free')
            PROVE  i \in 1 .. Len(free) /\ i # Len(free) /\ free'[i] = free[i]
        <5>1. Len(free) \in Nat
          BY <1>2
        <5>2. i \in 1 .. Len(free) - 1
          BY <3>2
        <5>. QED  BY <3>2, <5>1, <5>2
      <4>3. ASSUME NEW i \in 1 .. Len(free')
            PROVE  free[i] # free[Len(free)]
        BY <4>1, <4>2, <1>2
      <4>. QED  BY <4>1, <4>2, <4>3
    <3>5. e.index \in 1 .. Len(locations) /\ loc.generation = generations[e.index]
      BY <2>1, <3>3, <1>4
    <3>6. /\ locations' \in Seq(Location) /\ Len(locations') = Len(locations)
          /\ locations'[e.index] = loc
          /\ \A i \in 1 .. Len(locations) : i # e.index => locations'[i] = locations[i]
      BY <3>1, <3>5, <1>2, <1>6
    <3>7. \A i \in 1 .. Len(locations') : locations'[i].generation = generations'[i]
      BY <3>1, <3>5, <3>6, <1>2
    <3>8. \A i \in 1 .. Len(locations') : i # e.index => i \in 1 .. Len(locations)
                                                         /\ locations'[i] = locations[i]
      BY <3>6
    <3>9. Len(generations') = Len(locations') /\ Len(locations) <= Len(locations')
          /\ e.index \in 1 .. Len(locations') /\ generations' \in Seq(Nat)
      BY <3>1, <3>5, <3>6, <1>2
    <3>. QED  BY <3>2, <3>4, <3>6, <3>7, <3>8, <3>9
  <2>2. CASE free = <<>>
    <3>1. /\ free' = free
          /\ locations' = Append(locations, loc)
          /\ generations' = Append(generations, 1)
      BY <2>2 DEF Insert
    <3>2. loc.generation = e.generation
      BY LocatedFields
    <3>. HIDE DEF e, loc
    <3>. QED  BY <3>1, <3>2, <2>2, <1>2, <1>4, <1>6
  <2>. QED  BY <2>1, <2>2
<1>11. Placed(tables, tables', b.mask, y)
  BY <1>3, <1>8 DEF Placed
<1>12. Relocated(locations, locations', e.index, loc)
  BY <1>10 DEF Relocated
<1>. HIDE DEF e, n, y, loc
<1>13. QED
  BY <1>4, <1>5, <1>6, <1>9, <1>10, <1>11, <1>12 DEF e, n, y, loc

LEMMA InsertKeepsStorage ==
  ASSUME StorageOK, NEW b \in Bundle, Accepts(b), Insert(b)
  PROVE  /\ StorageOK'
         /\ \A p \in Profiles : p # b.profile => botIndex'[p] = botIndex[p]
<1>. DEFINE e == NextEntity
            n == Len(tables[b.mask]) + 1
            y == [entity |-> e, profile |-> b.profile]
            loc == Located(b.mask, n, e.generation)
<1>1. /\ b.mask \in Masks /\ b.profile \in Profiles \cup {NoProfile}
      /\ b.profile = NoProfile <=> Bot \notin b.mask
      /\ b.profile \in Profiles => Bot \in b.mask
  BY BundleProfile
<1>2. /\ tables \in Tables /\ locations \in Seq(Location) /\ generations \in Seq(Nat)
      /\ free \in Seq(Nat) /\ botIndex \in [Profiles -> Entity]
      /\ SoundBut(tables, locations, 0)
      /\ Len(generations) = Len(locations)
      /\ \A i \in 1 .. Len(locations) : locations[i].generation = generations[i]
      /\ \A i \in 1 .. Len(free) : free[i] \in 1 .. Len(locations) /\ ~locations[free[i]].alive
      /\ \A i, j \in 1 .. Len(free) : free[i] = free[j] => i = j
  BY DEF StorageOK, IndicesFree
<1>4. /\ e.index \in Nat \ {0}
      /\ e = [index |-> e.index, generation |-> e.generation]
      /\ free # <<>> => ~locations[e.index].alive
      /\ free = <<>> => e.index = Len(locations) + 1
  BY InsertShape
<1>5. y \in Row /\ y.entity = e /\ y.profile = b.profile
  BY InsertShape
<1>7. SoundBut(tables, locations, e.index)
  BY <1>2, <1>4, VacantSound
<1>8. Placed(tables, tables', b.mask, y)
  BY InsertShape
<1>9. /\ botIndex' \in [Profiles -> Entity]
      /\ \A p \in Profiles : botIndex'[p] = IF p = b.profile THEN e ELSE botIndex[p]
  BY InsertShape
<1>6. Relocated(locations, locations', e.index, loc)
  BY InsertShape
<1>3. /\ generations' \in Seq(Nat) /\ Len(generations') = Len(locations')
      /\ \A i \in 1 .. Len(locations') : locations'[i].generation = generations'[i]
      /\ free' \in Seq(Nat)
      /\ \A i \in 1 .. Len(free') : /\ free'[i] # e.index
                                    /\ i \in 1 .. Len(free) /\ free'[i] = free[i]
  BY InsertShape
<1>10. /\ locations' \in Seq(Location)
       /\ \A i \in 1 .. Len(locations') : i # e.index => locations'[i] = locations[i]
       /\ Len(locations) <= Len(locations')
       /\ tables' \in Tables
  BY <1>6, <1>8 DEF Relocated, Placed
<1>11. /\ SoundBut(tables', locations', 0)
       /\ RowsOf(tables') = RowsOf(tables) \cup {y}
  <2>3. /\ y.entity = [index |-> e.index, generation |-> e.generation]
        /\ y.profile = NoProfile <=> Bot \notin b.mask
    BY <1>1, <1>4, <1>5
  <2>2. Relocated(locations, locations', e.index, Located(b.mask, Len(tables[b.mask]) + 1, e.generation))
    BY <1>6
  <2>. HIDE DEF e, n, y, loc
  <2>4. /\ tables \in Tables /\ locations \in Seq(Location) /\ b.mask \in Masks
        /\ e.index \in Nat \ {0}
    BY <1>1, <1>2, <1>4
  <2>5. SoundBut(tables', locations', 0)
    BY <1>7, <1>8, <2>2, <2>3, <2>4, PlacementSound
  <2>. QED  BY <1>8, <2>4, <2>5, PlacementRows
<1>12. IndicesFree'
  <2>1. \A i \in 1 .. Len(free') : free'[i] \in 1 .. Len(locations') /\ ~locations'[free'[i]].alive
    <3>. SUFFICES ASSUME NEW i \in 1 .. Len(free')
                  PROVE  free'[i] \in 1 .. Len(locations') /\ ~locations'[free'[i]].alive
      OBVIOUS
    <3>. HIDE DEF e, loc
    <3>1. /\ free'[i] \in 1 .. Len(locations) /\ ~locations[free'[i]].alive
          /\ free'[i] # e.index
      BY <1>2, <1>3
    <3>2. free'[i] \in 1 .. Len(locations')
      BY <3>1, <1>2, <1>10
    <3>. QED  BY <3>1, <3>2, <1>10
  <2>2. \A i, j \in 1 .. Len(free') : free'[i] = free'[j] => i = j
    BY <1>2, <1>3
  <2>. QED  BY <2>1, <2>2, <1>3 DEF IndicesFree
<1>13. BotsOf(botIndex', RowsOf(tables) \cup {y})
  <2>1. b.profile \in Profiles => botIndex[b.profile] = Nobody
    BY <1>1 DEF Accepts
  <2>2. \A x \in RowsOf(tables) : x.entity # Nobody
    BY RowsAreSomebody
  <2>3. BotsOf(botIndex, RowsOf(tables))
    BY DEF StorageOK
  <2>. HIDE DEF e, y
  <2>. QED  BY <2>1, <2>2, <2>3, <1>2, <1>5, <1>9, BotsAdded
<1>. HIDE DEF e, n, y, loc
<1>. QED  BY <1>3, <1>9, <1>10, <1>11, <1>12, <1>13 DEF StorageOK

-----------------------------------------------------------------------------
(* Destruction and migration *)

LEMMA RemoveSwapRemoves ==
  ASSUME NEW T \in Tables, NEW m \in Masks, NEW row \in 1 .. Len(T[m])
  PROVE  Removed(T, [T EXCEPT ![m] = RemoveSwap(T[m], row)], m, row)
<1>. DEFINE U == [T EXCEPT ![m] = RemoveSwap(T[m], row)]
<1>1. T[m] \in Seq(Row)
  BY DEF Tables
<1>2. /\ RemoveSwap(T[m], row) \in Seq(Row)
      /\ Len(RemoveSwap(T[m], row)) = Len(T[m]) - 1
      /\ \A i \in 1 .. Len(T[m]) - 1 :
           RemoveSwap(T[m], row)[i] = IF i = row THEN T[m][Len(T[m])] ELSE T[m][i]
  BY <1>1, RemoveSwapSeq
<1>3. U \in Tables /\ U[m] = RemoveSwap(T[m], row) /\ \A k \in Masks \ {m} : U[k] = T[k]
  BY <1>2 DEF Tables
<1>. QED  BY <1>2, <1>3 DEF Removed

LEMMA AppendPlaces ==
  ASSUME NEW T \in Tables, NEW m \in Masks, NEW y \in Row
  PROVE  Placed(T, [T EXCEPT ![m] = Append(T[m], y)], m, y)
<1>. DEFINE U == [T EXCEPT ![m] = Append(T[m], y)]
<1>1. T[m] \in Seq(Row)
  BY DEF Tables
<1>2. /\ Append(T[m], y) \in Seq(Row)
      /\ Len(Append(T[m], y)) = Len(T[m]) + 1
      /\ \A i \in 1 .. Len(T[m]) : Append(T[m], y)[i] = T[m][i]
      /\ Append(T[m], y)[Len(T[m]) + 1] = y
  BY <1>1
<1>3. U \in Tables /\ U[m] = Append(T[m], y) /\ \A k \in Masks \ {m} : U[k] = T[k]
  BY <1>2 DEF Tables
<1>. QED  BY <1>2, <1>3 DEF Placed

LEMMA LocationsEqual ==
  ASSUME NEW l \in Location, NEW k \in Location,
         k.alive = l.alive, k.mask = l.mask, k.row = l.row, k.generation = l.generation
  PROVE  k = l
BY DEF Location

LEMMA RowChanged ==
  ASSUME NEW l \in Location, NEW row \in Nat, NEW k, k = [l EXCEPT !.row = row]
  PROVE  /\ k \in Location /\ k.row = row
         /\ k.alive = l.alive /\ k.mask = l.mask /\ k.generation = l.generation
BY DEF Location

LEMMA LocatedElsewhere ==
  ASSUME NEW m \in Masks, NEW r \in Nat, NEW g \in Nat, NEW row \in Nat
  PROVE  [Located(m, r, g) EXCEPT !.row = row] = Located(m, row, g)
<1>1. Located(m, r, g) \in Location /\ Located(m, row, g) \in Location
  BY LocatedType
<1>2. PICK k : k = [Located(m, r, g) EXCEPT !.row = row]
  OBVIOUS
<1>3. /\ k \in Location /\ k.row = row
      /\ k.alive = TRUE /\ k.mask = m /\ k.generation = g
  BY <1>1, <1>2, RowChanged, LocatedFields
<1>4. PICK l \in Location : l = Located(m, row, g)
  BY <1>1
<1>5. l.alive = TRUE /\ l.mask = m /\ l.row = row /\ l.generation = g
  BY <1>4, LocatedFields
<1>6. k = l
  BY <1>3, <1>5, LocationsEqual
<1>. QED  BY <1>2, <1>4, <1>6

LEMMA RelocateSwaps ==
  ASSUME StorageOK, NEW m \in Masks, NEW row \in 1 .. Len(tables[m])
  PROVE  /\ Swapped(tables, locations, Relocate(tables[m], row), m, row)
         /\ \A i \in 1 .. Len(locations) :
              /\ Relocate(tables[m], row)[i].alive = locations[i].alive
              /\ Relocate(tables[m], row)[i].generation = locations[i].generation
<1>. DEFINE n == Len(tables[m])
            last == tables[m][n].entity
            M == Relocate(tables[m], row)
<1>1. /\ locations \in Seq(Location) /\ n \in 1 .. n /\ row \in Nat
      /\ last.index \in 1 .. Len(locations)
      /\ locations[last.index] = Located(m, n, last.generation)
  BY DEF StorageOK, SoundBut, Tables
<1>2. CASE row = n
  BY <1>1, <1>2 DEF Relocate, Swapped
<1>3. CASE row # n
  <2>1. M = [locations EXCEPT ![last.index] = [locations[last.index] EXCEPT !.row = row]]
    BY <1>3 DEF Relocate
  <2>3. locations[last.index].generation = last.generation
    BY <1>1, LocatedFields
  <2>4. locations[last.index] \in Location
    BY <1>1
  <2>5. last.generation \in Nat
    BY <2>3, <2>4 DEF Location
  <2>2. [locations[last.index] EXCEPT !.row = row] = Located(m, row, last.generation)
    BY <1>1, <2>5, LocatedElsewhere
  <2>6. Located(m, row, last.generation) \in Location
    BY <1>1, <2>5, LocatedType
  <2>. HIDE DEF n, last, M
  <2>7. /\ M \in Seq(Location) /\ Len(M) = Len(locations)
        /\ \A i \in 1 .. Len(locations) : i # last.index => M[i] = locations[i]
        /\ M[last.index] = Located(m, row, last.generation)
    BY <1>1, <2>1, <2>2, <2>6
  <2>8. M[last.index].alive = TRUE /\ locations[last.index].alive = TRUE
        /\ M[last.index].generation = locations[last.index].generation
    BY <1>1, <2>7, LocatedFields
  <2>. QED  BY <1>3, <2>7, <2>8 DEF Swapped, n, last, M
<1>. QED  BY <1>2, <1>3

\* The row of a handle that resolves.
LEMMA ResolvedRow ==
  ASSUME StorageOK, NEW e \in Entity, Resolves(e)
  PROVE  LET l == locations[e.index]
         IN  /\ l.mask \in Masks /\ l.row \in 1 .. Len(tables[l.mask])
             /\ tables[l.mask][l.row].entity = e
             /\ tables[l.mask][l.row] \in RowsOf(tables)
             /\ e.index \in 1 .. Len(locations) /\ e # Nobody
             /\ \A z \in RowsOf(tables) : z.entity = e => z = tables[l.mask][l.row]
<1>. DEFINE l == locations[e.index]
            y == tables[l.mask][l.row]
<1>1. /\ e.index \in 1 .. Len(locations) /\ l.alive /\ l.generation = e.generation
      /\ locations \in Seq(Location)
  BY DEF Resolves, StorageOK
<1>2. /\ l.mask \in Masks /\ l.row \in 1 .. Len(tables[l.mask])
      /\ y.entity = [index |-> e.index, generation |-> l.generation]
  BY <1>1, SMTT(30) DEF StorageOK, SoundBut
<1>3. y.entity = e /\ e # Nobody
  BY <1>1, <1>2 DEF Entity, Nobody
<1>4. y \in RowsOf(tables)
  BY <1>2 DEF RowsOf
<1>5. ASSUME NEW z \in RowsOf(tables), z.entity = e
      PROVE  z = y
  BY <1>3, <1>4, <1>5, OneRowEach DEF StorageOK
<1>. QED  BY <1>1, <1>2, <1>3, <1>4, <1>5

\* An entity is destroyed: its row is removed and its location is dead.
LEMMA DestroyShape ==
  ASSUME StorageOK, NEW e \in Entity, DestroyNow(e)
  PROVE  LET l == locations[e.index]
             y == tables[l.mask][l.row]
             M == Relocate(tables[l.mask], l.row)
             g == NextGeneration(l.generation)
         IN  /\ /\ l.mask \in Masks /\ l.row \in 1 .. Len(tables[l.mask])
                /\ y.entity = e
                /\ y \in RowsOf(tables)
                /\ e.index \in 1 .. Len(locations)
                /\ \A z \in RowsOf(tables) : z.entity = e => z = y
             /\ l.alive /\ l.generation \in Nat /\ g \in Nat
             /\ Removed(tables, tables', l.mask, l.row)
             /\ Swapped(tables, locations, M, l.mask, l.row)
             /\ \A i \in 1 .. Len(locations) : /\ M[i].alive = locations[i].alive
                                               /\ M[i].generation = locations[i].generation
             /\ Dead(g) \in Location /\ Dead(g).alive = FALSE /\ Dead(g).generation = g
             /\ /\ locations' \in Seq(Location) /\ Len(locations') = Len(locations)
                /\ locations'[e.index] = Dead(g)
                /\ \A i \in 1 .. Len(locations) : i # e.index => locations'[i] = M[i]
             /\ /\ generations' \in Seq(Nat) /\ Len(generations') = Len(generations)
                /\ generations'[e.index] = g
                /\ \A i \in 1 .. Len(generations) : i # e.index => generations'[i] = generations[i]
<1>. DEFINE l == locations[e.index]
            y == tables[l.mask][l.row]
            M == Relocate(tables[l.mask], l.row)
            g == NextGeneration(l.generation)
<1>1. /\ l.mask \in Masks /\ l.row \in 1 .. Len(tables[l.mask])
      /\ y.entity = e
      /\ y \in RowsOf(tables)
      /\ e.index \in 1 .. Len(locations)
      /\ \A z \in RowsOf(tables) : z.entity = e => z = y
  BY ResolvedRow DEF DestroyNow
<1>2. /\ tables \in Tables /\ locations \in Seq(Location) /\ generations \in Seq(Nat)
      /\ free \in Seq(Nat) /\ botIndex \in [Profiles -> Entity]
      /\ SoundBut(tables, locations, 0)
      /\ Len(generations) = Len(locations)
      /\ \A i \in 1 .. Len(locations) : locations[i].generation = generations[i]
      /\ \A i \in 1 .. Len(free) : free[i] \in 1 .. Len(locations) /\ ~locations[free[i]].alive
      /\ \A i, j \in 1 .. Len(free) : free[i] = free[j] => i = j
  BY DEF StorageOK, IndicesFree
<1>3. /\ l.alive /\ l.generation \in Nat /\ g \in Nat
  <2>1. l \in Location
    BY <1>1, <1>2
  <2>2. l.generation \in Nat
    BY <2>1 DEF Location
  <2>3. Resolves(e)
    BY DEF DestroyNow
  <2>4. l.alive
    BY <2>3 DEF Resolves
  <2>5. g \in Nat
    BY <2>2 DEF NextGeneration
  <2>. QED  BY <2>2, <2>4, <2>5
<1>4. /\ tables' = [tables EXCEPT ![l.mask] = RemoveSwap(tables[l.mask], l.row)]
      /\ botIndex' = Unmapped(y.profile)
      /\ generations' = [generations EXCEPT ![e.index] = g]
      /\ locations' = [M EXCEPT ![e.index] = Dead(g)]
      /\ free' = Append(free, e.index)
  BY DEF DestroyNow
<1>5. Removed(tables, tables', l.mask, l.row)
  BY <1>1, <1>2, <1>4, RemoveSwapRemoves
<1>6. /\ Swapped(tables, locations, M, l.mask, l.row)
      /\ \A i \in 1 .. Len(locations) : M[i].alive = locations[i].alive
                                        /\ M[i].generation = locations[i].generation
  BY <1>1, RelocateSwaps
<1>. HIDE DEF l, y, M, g
<1>9. tables' \in Tables /\ M \in Seq(Location) /\ Len(M) = Len(locations)
  BY <1>5, <1>6 DEF Removed, Swapped
<1>10. Dead(g) \in Location /\ Dead(g).alive = FALSE /\ Dead(g).generation = g
  BY <1>3 DEF Dead, Location
<1>11. /\ locations' \in Seq(Location) /\ Len(locations') = Len(locations)
       /\ locations'[e.index] = Dead(g)
       /\ \A i \in 1 .. Len(locations) : i # e.index => locations'[i] = M[i]
  BY <1>1, <1>4, <1>9, <1>10
<1>13. /\ generations' \in Seq(Nat) /\ Len(generations') = Len(generations)
       /\ generations'[e.index] = g
       /\ \A i \in 1 .. Len(generations) : i # e.index => generations'[i] = generations[i]
  BY <1>1, <1>2, <1>3, <1>4
<1>. QED
  BY <1>1, <1>3, <1>5, <1>6, <1>10, <1>11, <1>13 DEF l, y, M, g

LEMMA DestroyKeepsStorage ==
  ASSUME StorageOK, NEW e \in Entity, DestroyNow(e)
  PROVE  StorageOK'
<1>. DEFINE l == locations[e.index]
            y == tables[l.mask][l.row]
            M == Relocate(tables[l.mask], l.row)
            g == NextGeneration(l.generation)
<1>1. /\ l.mask \in Masks /\ l.row \in 1 .. Len(tables[l.mask])
      /\ y.entity = e
      /\ y \in RowsOf(tables)
      /\ e.index \in 1 .. Len(locations)
      /\ \A z \in RowsOf(tables) : z.entity = e => z = y
  BY DestroyShape
<1>2. /\ tables \in Tables /\ locations \in Seq(Location) /\ generations \in Seq(Nat)
      /\ free \in Seq(Nat) /\ botIndex \in [Profiles -> Entity]
      /\ SoundBut(tables, locations, 0)
      /\ Len(generations) = Len(locations)
      /\ \A i \in 1 .. Len(locations) : locations[i].generation = generations[i]
      /\ \A i \in 1 .. Len(free) : free[i] \in 1 .. Len(locations) /\ ~locations[free[i]].alive
      /\ \A i, j \in 1 .. Len(free) : free[i] = free[j] => i = j
  BY DEF StorageOK, IndicesFree
<1>3. /\ l.alive /\ l.generation \in Nat /\ g \in Nat
  BY DestroyShape
<1>4. botIndex' = Unmapped(y.profile) /\ free' = Append(free, e.index)
  BY DEF DestroyNow
<1>5. Removed(tables, tables', l.mask, l.row)
  BY DestroyShape
<1>6. /\ Swapped(tables, locations, M, l.mask, l.row)
      /\ \A i \in 1 .. Len(locations) : M[i].alive = locations[i].alive
                                        /\ M[i].generation = locations[i].generation
  BY DestroyShape
<1>10. Dead(g) \in Location /\ Dead(g).alive = FALSE /\ Dead(g).generation = g
  BY DestroyShape
<1>11. /\ locations' \in Seq(Location) /\ Len(locations') = Len(locations)
       /\ locations'[e.index] = Dead(g)
       /\ \A i \in 1 .. Len(locations) : i # e.index => locations'[i] = M[i]
  BY DestroyShape
<1>13. /\ generations' \in Seq(Nat) /\ Len(generations') = Len(generations)
       /\ generations'[e.index] = g
       /\ \A i \in 1 .. Len(generations) : i # e.index => generations'[i] = generations[i]
  BY DestroyShape
<1>. HIDE DEF l, y, M, g
<1>7. SoundBut(tables', M, e.index)
  <2>1. SoundBut(tables', M, tables[l.mask][l.row].entity.index)
    BY <1>1, <1>2, <1>5, <1>6, RemovalSound
  <2>. QED  BY <2>1, <1>1 DEF y
<1>8. RowsOf(tables') = RowsOf(tables) \ {y}
  BY <1>1, <1>2, <1>5, RemovalRows DEF y
<1>9. tables' \in Tables /\ M \in Seq(Location) /\ Len(M) = Len(locations)
  BY <1>5, <1>6 DEF Removed, Swapped
<1>12. SoundBut(tables', locations', 0)
  BY <1>1, <1>7, <1>9, <1>10, <1>11, DeathSound
<1>14. /\ free' \in Seq(Nat) /\ Len(free') = Len(free) + 1
       /\ \A i \in 1 .. Len(free) : free'[i] = free[i]
       /\ free'[Len(free) + 1] = e.index
  BY <1>1, <1>2, <1>4
<1>15. IndicesFree'
  <2>1. ASSUME NEW i \in 1 .. Len(locations')
        PROVE  locations'[i].generation = generations'[i]
    BY <1>2, <1>6, <1>10, <1>11, <1>13, ZenonT(60)
  <2>2. ASSUME NEW i \in 1 .. Len(free')
        PROVE  free'[i] \in 1 .. Len(locations') /\ ~locations'[free'[i]].alive
    <3>1. CASE i = Len(free) + 1
      BY <3>1, <1>1, <1>10, <1>11, <1>14
    <3>2. CASE i # Len(free) + 1
      <4>1. i \in 1 .. Len(free) /\ free'[i] = free[i]
        BY <3>2, <1>2, <1>14
      <4>2. free[i] \in 1 .. Len(locations) /\ ~locations[free[i]].alive /\ free[i] # e.index
        BY <4>1, <1>2, <1>3 DEF l
      <4>. QED  BY <4>1, <4>2, <1>6, <1>11
    <3>. QED  BY <3>1, <3>2
  <2>3. ASSUME NEW i \in 1 .. Len(free'), NEW j \in 1 .. Len(free'), free'[i] = free'[j]
        PROVE  i = j
    <3>1. \A k \in 1 .. Len(free) : free'[k] # e.index
      BY <1>2, <1>3, <1>14 DEF l
    <3>2. i = Len(free) + 1 <=> j = Len(free) + 1
      BY <2>3, <3>1, <1>14
    <3>3. CASE i # Len(free) + 1
      <4>1. i \in 1 .. Len(free) /\ j \in 1 .. Len(free)
        BY <3>2, <3>3, <1>2, <1>14
      <4>. QED  BY <2>3, <4>1, <1>2, <1>14
    <3>. QED  BY <3>2, <3>3
  <2>. QED  BY <2>1, <2>2, <2>3, <1>2, <1>11, <1>13 DEF IndicesFree
<1>16. /\ botIndex' \in [Profiles -> Entity]
       /\ \A p \in Profiles : botIndex'[p] = IF p = y.profile THEN Nobody ELSE botIndex[p]
  BY <1>2, <1>4 DEF Unmapped, Entity, Nobody
<1>17. BotsOf(botIndex', RowsOf(tables'))
  <2>1. BotsOf(botIndex, RowsOf(tables))
    BY DEF StorageOK
  <2>2. \A z \in RowsOf(tables) : z.entity = y.entity => z = y
    BY <1>1
  <2>3. BotsOf(botIndex', RowsOf(tables) \ {y})
    BY <2>1, <2>2, <1>1, <1>2, <1>16, BotsRemoved
  <2>. QED  BY <2>3, <1>8
<1>. QED  BY <1>9, <1>11, <1>12, <1>13, <1>14, <1>15, <1>16, <1>17 DEF StorageOK

\* An entity changes: its row is removed from one table and another appended.
LEMMA MigrateShape ==
  ASSUME StorageOK, NEW e \in Entity, NEW b \in Bundle, MigrateNow(e, b)
  PROVE  LET l == locations[e.index]
             y == tables[l.mask][l.row]
             M == Relocate(tables[l.mask], l.row)
             U == [tables EXCEPT ![l.mask] = RemoveSwap(tables[l.mask], l.row)]
             z == [entity |-> e, profile |-> b.profile]
             loc == Located(b.mask, Len(U[b.mask]) + 1, e.generation)
         IN  /\ /\ l.mask \in Masks /\ l.row \in 1 .. Len(tables[l.mask])
                /\ y.entity = e
                /\ y \in RowsOf(tables)
                /\ e.index \in 1 .. Len(locations) /\ e # Nobody
                /\ \A x \in RowsOf(tables) : x.entity = e => x = y
             /\ /\ l.alive /\ l.generation = e.generation
                /\ e.index \in Nat \ {0} /\ e.generation \in Nat
                /\ e = [index |-> e.index, generation |-> e.generation]
             /\ z \in Row /\ z.entity = e /\ z.profile = b.profile
             /\ Removed(tables, U, l.mask, l.row)
             /\ Swapped(tables, locations, M, l.mask, l.row)
             /\ \A i \in 1 .. Len(locations) : /\ M[i].alive = locations[i].alive
                                               /\ M[i].generation = locations[i].generation
             /\ U \in Tables /\ M \in Seq(Location) /\ Len(M) = Len(locations)
             /\ Placed(U, tables', b.mask, z)
             /\ loc \in Location /\ loc.alive = TRUE /\ loc.generation = e.generation
             /\ /\ locations' \in Seq(Location) /\ Len(locations') = Len(locations)
                /\ locations'[e.index] = loc
                /\ \A i \in 1 .. Len(locations) : i # e.index => locations'[i] = M[i]
             /\ generations' = generations /\ free' = free
<1>. DEFINE l == locations[e.index]
            y == tables[l.mask][l.row]
            M == Relocate(tables[l.mask], l.row)
            U == [tables EXCEPT ![l.mask] = RemoveSwap(tables[l.mask], l.row)]
            z == [entity |-> e, profile |-> b.profile]
            loc == Located(b.mask, Len(U[b.mask]) + 1, e.generation)
<1>1. /\ l.mask \in Masks /\ l.row \in 1 .. Len(tables[l.mask])
      /\ y.entity = e
      /\ y \in RowsOf(tables)
      /\ e.index \in 1 .. Len(locations) /\ e # Nobody
      /\ \A x \in RowsOf(tables) : x.entity = e => x = y
  BY ResolvedRow DEF MigrateNow, MayMigrate
<1>2. /\ tables \in Tables /\ locations \in Seq(Location) /\ generations \in Seq(Nat)
      /\ free \in Seq(Nat) /\ botIndex \in [Profiles -> Entity]
      /\ SoundBut(tables, locations, 0)
      /\ Len(generations) = Len(locations)
      /\ \A i \in 1 .. Len(locations) : locations[i].generation = generations[i]
      /\ \A i \in 1 .. Len(free) : free[i] \in 1 .. Len(locations) /\ ~locations[free[i]].alive
      /\ \A i, j \in 1 .. Len(free) : free[i] = free[j] => i = j
      /\ BotsOf(botIndex, RowsOf(tables))
  BY DEF StorageOK, IndicesFree
<1>3. /\ b.mask \in Masks /\ b.profile \in Profiles \cup {NoProfile}
      /\ b.profile = NoProfile <=> Bot \notin b.mask
  BY BundleProfile
<1>4. /\ l.alive /\ l.generation = e.generation
      /\ e.index \in Nat \ {0} /\ e.generation \in Nat
      /\ e = [index |-> e.index, generation |-> e.generation]
  <2>1. Resolves(e)
    BY DEF MigrateNow, MayMigrate
  <2>2. l.alive /\ l.generation = e.generation
    BY <2>1 DEF Resolves
  <2>3. e.generation \in Nat /\ e = [index |-> e.index, generation |-> e.generation]
    BY DEF Entity
  <2>4. e.index \in Nat \ {0}
    <3>1. Len(locations) \in Nat
      BY <1>2
    <3>. HIDE DEF l, y
    <3>. QED  BY <1>1, <3>1
  <2>. QED  BY <2>2, <2>3, <2>4
<1>5. /\ z \in Row /\ z.entity = e /\ z.profile = b.profile
  BY <1>3 DEF Row
<1>6. /\ tables' = [U EXCEPT ![b.mask] = Append(U[b.mask], z)]
      /\ locations' = [M EXCEPT ![e.index] = loc]
      /\ generations' = generations /\ free' = free
  BY DEF MigrateNow
<1>7. Removed(tables, U, l.mask, l.row)
  BY <1>1, <1>2, RemoveSwapRemoves
<1>8. /\ Swapped(tables, locations, M, l.mask, l.row)
      /\ \A i \in 1 .. Len(locations) : M[i].alive = locations[i].alive
                                        /\ M[i].generation = locations[i].generation
  BY <1>1, RelocateSwaps
<1>. HIDE DEF l, y, M, U, z
<1>13. U \in Tables /\ M \in Seq(Location) /\ Len(M) = Len(locations)
  BY <1>7, <1>8 DEF Removed, Swapped
<1>14. Placed(U, tables', b.mask, z)
  BY <1>3, <1>5, <1>6, <1>13, AppendPlaces
<1>15. loc \in Location /\ loc.alive = TRUE /\ loc.generation = e.generation
  <2>1. Len(U[b.mask]) + 1 \in Nat
    BY <1>3, <1>13 DEF Tables
  <2>. QED  BY <2>1, <1>3, <1>4, LocatedType, LocatedFields
<1>16. /\ locations' \in Seq(Location) /\ Len(locations') = Len(locations)
       /\ locations'[e.index] = loc
       /\ \A i \in 1 .. Len(locations) : i # e.index => locations'[i] = M[i]
  <2>. HIDE DEF loc
  <2>. QED  BY <1>1, <1>6, <1>13, <1>15
<1>. QED
  BY <1>1, <1>4, <1>5, <1>6, <1>7, <1>8, <1>13, <1>14, <1>15, <1>16 DEF l, y, M, U, z

LEMMA MigrateKeepsStorage ==
  ASSUME StorageOK, NEW e \in Entity, NEW b \in Bundle, MigrateNow(e, b)
  PROVE  StorageOK'
<1>. DEFINE l == locations[e.index]
            y == tables[l.mask][l.row]
            M == Relocate(tables[l.mask], l.row)
            U == [tables EXCEPT ![l.mask] = RemoveSwap(tables[l.mask], l.row)]
            z == [entity |-> e, profile |-> b.profile]
            loc == Located(b.mask, Len(U[b.mask]) + 1, e.generation)
            B == Unmapped(y.profile)
<1>1. /\ l.mask \in Masks /\ l.row \in 1 .. Len(tables[l.mask])
      /\ y.entity = e
      /\ y \in RowsOf(tables)
      /\ e.index \in 1 .. Len(locations) /\ e # Nobody
      /\ \A x \in RowsOf(tables) : x.entity = e => x = y
  BY MigrateShape
<1>2. /\ tables \in Tables /\ locations \in Seq(Location) /\ generations \in Seq(Nat)
      /\ free \in Seq(Nat) /\ botIndex \in [Profiles -> Entity]
      /\ SoundBut(tables, locations, 0)
      /\ Len(generations) = Len(locations)
      /\ \A i \in 1 .. Len(locations) : locations[i].generation = generations[i]
      /\ \A i \in 1 .. Len(free) : free[i] \in 1 .. Len(locations) /\ ~locations[free[i]].alive
      /\ \A i, j \in 1 .. Len(free) : free[i] = free[j] => i = j
      /\ BotsOf(botIndex, RowsOf(tables))
  BY DEF StorageOK, IndicesFree
<1>3. /\ b.mask \in Masks /\ b.profile \in Profiles \cup {NoProfile}
      /\ b.profile = NoProfile <=> Bot \notin b.mask
  BY BundleProfile
<1>4. /\ l.alive /\ l.generation = e.generation
      /\ e.index \in Nat \ {0} /\ e.generation \in Nat
      /\ e = [index |-> e.index, generation |-> e.generation]
  BY MigrateShape
<1>5. /\ z \in Row /\ z.entity = e /\ z.profile = b.profile
  BY MigrateShape
<1>6. /\ botIndex' = [q \in Profiles |-> IF q = b.profile THEN e ELSE B[q]]
      /\ generations' = generations /\ free' = free
  BY DEF MigrateNow
<1>7. Removed(tables, U, l.mask, l.row)
  BY MigrateShape
<1>8. /\ Swapped(tables, locations, M, l.mask, l.row)
      /\ \A i \in 1 .. Len(locations) : M[i].alive = locations[i].alive
                                        /\ M[i].generation = locations[i].generation
  BY MigrateShape, Zenon
<1>14. Placed(U, tables', b.mask, z)
  BY MigrateShape
<1>15. loc \in Location /\ loc.alive = TRUE /\ loc.generation = e.generation
  BY MigrateShape
<1>16. /\ locations' \in Seq(Location) /\ Len(locations') = Len(locations)
       /\ locations'[e.index] = loc
       /\ \A i \in 1 .. Len(locations) : i # e.index => locations'[i] = M[i]
  BY MigrateShape, Zenon
<1>9. /\ B \in [Profiles -> Entity]
      /\ \A p \in Profiles : B[p] = IF p = y.profile THEN Nobody ELSE botIndex[p]
  BY <1>2 DEF Unmapped, Entity, Nobody
<1>10. b.profile # NoProfile => botIndex[b.profile] \in {Nobody, e}
  BY DEF MigrateNow, MayMigrate
<1>. HIDE DEF l, y, M, U, z, B
<1>11. SoundBut(U, M, e.index)
  <2>1. SoundBut(U, M, tables[l.mask][l.row].entity.index)
    BY <1>1, <1>2, <1>7, <1>8, RemovalSound
  <2>. QED  BY <2>1, <1>1 DEF y
<1>12. RowsOf(U) = RowsOf(tables) \ {y}
  BY <1>1, <1>2, <1>7, RemovalRows DEF y
<1>13. U \in Tables /\ M \in Seq(Location) /\ Len(M) = Len(locations)
  BY <1>7, <1>8 DEF Removed, Swapped
<1>17. Relocated(M, locations', e.index, Located(b.mask, Len(U[b.mask]) + 1, e.generation))
  BY <1>1, <1>13, <1>16 DEF Relocated
<1>18. SoundBut(tables', locations', 0)
  <2>1. /\ z.entity = [index |-> e.index, generation |-> e.generation]
        /\ z.profile = NoProfile <=> Bot \notin b.mask
    BY <1>3, <1>4, <1>5
  <2>. QED  BY <2>1, <1>3, <1>4, <1>11, <1>13, <1>14, <1>17, PlacementSound
<1>19. RowsOf(tables') = (RowsOf(tables) \ {y}) \cup {z}
  BY <1>3, <1>12, <1>13, <1>14, PlacementRows
<1>20. IndicesFree'
  <2>. HIDE DEF loc
  <2>1. ASSUME NEW i \in 1 .. Len(locations')
        PROVE  locations'[i].generation = generations'[i]
    BY <1>2, <1>4, <1>6, <1>8, <1>15, <1>16 DEF l
  <2>2. ASSUME NEW i \in 1 .. Len(free')
        PROVE  free'[i] \in 1 .. Len(locations') /\ ~locations'[free'[i]].alive
    <3>1. free[i] \in 1 .. Len(locations) /\ ~locations[free[i]].alive /\ free[i] # e.index
      BY <1>2, <1>4, <1>6 DEF l
    <3>. QED  BY <3>1, <1>6, <1>8, <1>16
  <2>. QED  BY <2>1, <2>2, <1>2, <1>6, <1>16 DEF IndicesFree
<1>21. BotsOf(B, RowsOf(tables) \ {y})
  BY <1>1, <1>2, <1>9, BotsRemoved
<1>22. b.profile \in Profiles => B[b.profile] = Nobody
  <2>1. SUFFICES ASSUME b.profile \in Profiles, botIndex[b.profile] = e
                 PROVE  B[b.profile] = Nobody
    BY <1>9, <1>10, WorldAssumption
  <2>2. PICK x \in RowsOf(tables) : x.entity = e /\ x.profile = b.profile
    BY <1>1, <1>2, <2>1, SMTT(30) DEF BotsOf
  <2>. QED  BY <2>1, <2>2, <1>1, <1>9
<1>23. /\ botIndex' \in [Profiles -> Entity]
       /\ \A p \in Profiles : botIndex'[p] = IF p = z.profile THEN z.entity ELSE B[p]
  BY <1>5, <1>6, <1>9
<1>24. BotsOf(botIndex', RowsOf(tables'))
  <2>1. \A x \in RowsOf(tables) \ {y} : x.entity # Nobody
    BY RowsAreSomebody
  <2>2. z.profile \in Profiles => B[z.profile] = Nobody
    BY <1>5, <1>22
  <2>3. BotsOf(botIndex', (RowsOf(tables) \ {y}) \cup {z})
    BY <2>1, <2>2, <1>9, <1>21, <1>23, BotsAdded
  <2>. QED  BY <2>3, <1>19
<1>25. tables' \in Tables
  BY <1>14 DEF Placed
<1>. QED  BY <1>2, <1>6, <1>16, <1>18, <1>20, <1>23, <1>24, <1>25 DEF StorageOK

-----------------------------------------------------------------------------
(* The queue *)

LEMMA StorageUnchanged ==
  ASSUME StorageOK, UNCHANGED storage
  PROVE  StorageOK'
BY DEF StorageOK, storage, IndicesFree

\* Sorting keeps the commands.
LEMMA SortedQueue ==
  ASSUME NEW q \in Seq(Envelop), NEW p \in StableOrders(q)
  PROVE  LET s == [i \in 1 .. Len(q) |-> q[p[i]]]
         IN  s \in Seq(Envelop) /\ Len(s) = Len(q)
<1>1. Len(q) \in Nat /\ \A i \in 1 .. Len(q) : p[i] \in 1 .. Len(q)
  BY DEF StableOrders
<1>2. [i \in 1 .. Len(q) |-> q[p[i]]] \in [1 .. Len(q) -> Envelop]
  BY <1>1
<1>. QED  BY <1>1, <1>2

\* A command that is accepted has a bundle with components.
LEMMA AcceptedIsBundle ==
  ASSUME NEW x \in Envelop, Accepts(x.bundle)
  PROVE  x.bundle \in Bundle
BY DEF Envelop, Accepts, Valid

LEMMA BeginSyncKeepsInv ==
  ASSUME StorageOK, StagingOK, BatchFits, BeginSync
  PROVE  StorageOK' /\ StagingOK' /\ BatchFits'
<1>1. StorageOK'
  BY StorageUnchanged DEF BeginSync
<1>2. CASE queue = <<>>
  BY <1>2, <1>1 DEF BeginSync, StagingOK, BatchFits
<1>3. CASE queue # <<>>
  <2>1. PICK p \in StableOrders(queue) : queue' = [i \in 1 .. Len(queue) |-> queue[p[i]]]
    BY <1>3 DEF BeginSync
  <2>2. queue' \in Seq(Envelop) /\ dirty' = dirty
    BY <1>3, <2>1, SortedQueue DEF StagingOK, BeginSync
  <2>3. CASE ValidBatch(queue') /\ syncing' = 1 /\ syncError' = "none"
    <3>1. \A k \in 1 .. Len(queue') :
            /\ Accepts(queue[k].bundle)'
            /\ (Bot \in queue[k].bundle.mask)' =>
                 \A j \in 1 .. k - 1 : (queue[j].bundle.profile # queue[k].bundle.profile)'
      BY <2>3 DEF ValidBatch, Accepts, BeginSync, storage
    <3>2. BatchFits'
      BY <2>3, <3>1 DEF BatchFits
    <3>3. StagingOK'
      BY <2>2, <2>3 DEF StagingOK
    <3>. QED  BY <1>1, <3>2, <3>3
  <2>4. CASE syncing' = 0 /\ syncError' = "invalid"
    BY <1>1, <2>2, <2>4 DEF StagingOK, BatchFits
  <2>. QED  BY <1>3, <2>3, <2>4 DEF BeginSync
<1>. QED  BY <1>2, <1>3

\* What is left of the batch still fits: the profiles in it are distinct.
LEMMA ApplyKeepsInv ==
  ASSUME StorageOK, StagingOK, BatchFits, ApplyCommand
  PROVE  StorageOK' /\ StagingOK' /\ BatchFits' /\ syncError' = syncError
<1>. DEFINE b == queue[syncing].bundle
<1>1. /\ queue \in Seq(Envelop) /\ syncing \in 1 .. Len(queue) /\ Len(queue) \in Nat
      /\ queue' = queue /\ dirty' = dirty
  BY DEF StagingOK, ApplyCommand
<1>2. /\ \A k \in syncing .. Len(queue) :
           /\ Accepts(queue[k].bundle)
           /\ Bot \in queue[k].bundle.mask =>
                \A j \in syncing .. k - 1 : queue[j].bundle.profile # queue[k].bundle.profile
  BY <1>1 DEF BatchFits
<1>3. Accepts(b) /\ Insert(b) /\ syncing' = syncing + 1 /\ syncError' = syncError
  BY <1>1, <1>2 DEF ApplyCommand
<1>4. b \in Bundle
  BY <1>1, <1>3, AcceptedIsBundle
<1>5. StorageOK' /\ \A p \in Profiles : p # b.profile => botIndex'[p] = botIndex[p]
  BY <1>3, <1>4, InsertKeepsStorage
<1>6. ASSUME NEW k \in syncing + 1 .. Len(queue)
      PROVE  /\ Accepts(queue[k].bundle)'
             /\ Bot \in queue[k].bundle.mask =>
                  \A j \in syncing + 1 .. k - 1 : queue[j].bundle.profile # queue[k].bundle.profile
  <2>. DEFINE c == queue[k].bundle
  <2>1. /\ k \in syncing .. Len(queue) /\ syncing \in syncing .. k - 1
        /\ syncing + 1 .. k - 1 \subseteq syncing .. k - 1
    BY <1>1
  <2>2. Accepts(c)
    BY <1>2, <2>1
  <2>3. c \in Bundle
    BY <1>1, <2>2, AcceptedIsBundle
  <2>4. Bot \in c.mask =>
          /\ b.profile # c.profile
          /\ \A j \in syncing + 1 .. k - 1 : queue[j].bundle.profile # c.profile
    BY <1>2, <2>1
  <2>5. Bot \in c.mask => c.profile \in Profiles
    BY <2>3, BundleProfile
  <2>6. Bot \in c.mask => botIndex'[c.profile] = Nobody
    BY <1>5, <2>2, <2>4, <2>5 DEF Accepts
  <2>. QED  BY <1>1, <2>2, <2>4, <2>6 DEF Accepts
<1>7. BatchFits'
  BY <1>1, <1>3, <1>6 DEF BatchFits
<1>8. StagingOK'
  BY <1>1, <1>3 DEF StagingOK
<1>. QED  BY <1>3, <1>5, <1>7, <1>8

LEMMA LiveAreEntities ==
  ASSUME StorageOK, NEW e \in LiveEntities
  PROVE  e \in Entity
<1>1. PICK i \in 1 .. Len(locations) : e = [index |-> i, generation |-> locations[i].generation]
  BY DEF LiveEntities
<1>2. i \in Nat /\ locations[i] \in Location
  BY DEF StorageOK
<1>3. locations[i].generation \in Nat
  BY <1>2 DEF Location
<1>. QED  BY <1>1, <1>2, <1>3 DEF Entity

LEMMA WorldInvInit == WorldInit => WorldInv
<1>. SUFFICES ASSUME WorldInit PROVE WorldInv
  OBVIOUS
<1>1. WorldTypeOK
  BY DEF WorldInit, WorldTypeOK, Entity, Nobody
<1>2. \A m \in Masks : Len(tables[m]) = 0
  BY DEF WorldInit
<1>3. Len(locations) = 0 /\ Len(generations) = 0 /\ Len(free) = 0
  BY DEF WorldInit
<1>4. \A p \in Profiles : botIndex[p] = Nobody
  BY DEF WorldInit
<1>5. BatchFits
  BY DEF WorldInit, BatchFits
<1>. QED  BY <1>1, <1>2, <1>3, <1>4, <1>5
     DEF WorldInv, RowsLocated, LocationsFilled, IndicesFree, BotsIndexed

\* The invariant is inductive, and no step of Sync fails once it has validated.
LEMMA WorldInvInductive ==
  ASSUME WorldInv, [WorldNext]_worldVars
  PROVE  WorldInv' /\ (syncError' = "commit" => syncError = "commit")
<1>1. StorageOK /\ StagingOK /\ BatchFits
  BY WorldInvParts
<1>. SUFFICES /\ StorageOK' /\ StagingOK' /\ BatchFits'
              /\ syncError' = "commit" => syncError = "commit"
  <2>1. (WorldInv <=> StorageOK /\ StagingOK /\ BatchFits)'
    BY WorldInvParts, PTL
  <2>. QED  BY <2>1
<1>2. ASSUME NEW b \in Bundle, CreateNow(b)
      PROVE  StorageOK' /\ StagingOK' /\ BatchFits' /\ syncError' = syncError
  <2>1. StorageOK'
    BY <1>1, <1>2, InsertKeepsStorage DEF CreateNow
  <2>. QED  BY <2>1, <1>1, <1>2 DEF CreateNow, staging, StagingOK, BatchFits
<1>3. ASSUME NEW e \in LiveEntities, DestroyNow(e)
      PROVE  StorageOK' /\ StagingOK' /\ BatchFits' /\ syncError' = syncError
  <2>1. e \in Entity
    BY <1>1, LiveAreEntities
  <2>2. StorageOK'
    BY <1>1, <1>3, <2>1, DestroyKeepsStorage
  <2>3. syncing = 0 /\ UNCHANGED <<queue, dirty, syncing, syncError>>
    BY <1>3 DEF DestroyNow, staging
  <2>4. StagingOK'
    BY <1>1, <2>3 DEF StagingOK
  <2>5. BatchFits'
    BY <2>3 DEF BatchFits
  <2>. QED  BY <2>2, <2>3, <2>4, <2>5
<1>4. ASSUME NEW e \in LiveEntities, NEW b \in Bundle, MigrateNow(e, b)
      PROVE  StorageOK' /\ StagingOK' /\ BatchFits' /\ syncError' = syncError
  <2>1. e \in Entity
    BY <1>1, LiveAreEntities
  <2>2. StorageOK'
    BY <1>1, <1>4, <2>1, MigrateKeepsStorage
  <2>3. syncing = 0 /\ UNCHANGED <<queue, dirty, syncing, syncError>>
    BY <1>4 DEF MigrateNow, staging
  <2>4. StagingOK'
    BY <1>1, <2>3 DEF StagingOK
  <2>5. BatchFits'
    BY <2>3 DEF BatchFits
  <2>. QED  BY <2>2, <2>3, <2>4, <2>5
<1>5. ASSUME NEW envelops \in Batches, NEW masks \in SUBSET Masks, Stage(envelops, masks)
      PROVE  StorageOK' /\ StagingOK' /\ BatchFits' /\ syncError' = syncError
  <2>1. StorageOK'
    BY <1>1, <1>5, StorageUnchanged DEF Stage
  <2>2. queue' \in Seq(Envelop)
    BY <1>1, <1>5, BatchesAssumption DEF Stage, StagingOK
  <2>. QED  BY <2>1, <2>2, <1>1, <1>5 DEF Stage, StagingOK, BatchFits
<1>6. ASSUME BeginSync
      PROVE  /\ StorageOK' /\ StagingOK' /\ BatchFits'
             /\ syncError' = "commit" => syncError = "commit"
  BY <1>1, <1>6, BeginSyncKeepsInv DEF BeginSync
<1>7. ASSUME ApplyCommand
      PROVE  StorageOK' /\ StagingOK' /\ BatchFits' /\ syncError' = syncError
  BY <1>1, <1>7, ApplyKeepsInv
<1>8. ASSUME FinishSync
      PROVE  StorageOK' /\ StagingOK' /\ BatchFits' /\ syncError' = syncError
  <2>1. StorageOK'
    BY <1>1, <1>8, StorageUnchanged DEF FinishSync
  <2>. QED  BY <2>1, <1>1, <1>8 DEF FinishSync, StagingOK, BatchFits
<1>9. ASSUME UNCHANGED worldVars
      PROVE  StorageOK' /\ StagingOK' /\ BatchFits' /\ syncError' = syncError
  <2>1. StorageOK'
    BY <1>1, <1>9, StorageUnchanged DEF worldVars, storage
  <2>. QED  BY <2>1, <1>1, <1>9 DEF worldVars, StagingOK, BatchFits, Accepts
<1>. QED  BY <1>2, <1>3, <1>4, <1>5, <1>6, <1>7, <1>8, <1>9 DEF WorldNext

\* Rows, locations, free indices and the bot index agree in every reachable
\* state of the world (core/world.go): a handle never names another entity.
THEOREM WorldSound == WorldSpec => []WorldInv
BY WorldInvInit, WorldInvInductive, PTL DEF WorldSpec

\* A batch Sync has validated is applied as a whole (core/sync.go).
THEOREM CommitHolds == WorldSpec => []CommitNeverFails
<1>1. WorldInit => CommitNeverFails
  BY DEF WorldInit, CommitNeverFails
<1>2. WorldInv /\ CommitNeverFails /\ [WorldNext]_worldVars => CommitNeverFails'
  BY WorldInvInductive DEF CommitNeverFails
<1>. QED  BY <1>1, <1>2, WorldSound, PTL DEF WorldSpec

-----------------------------------------------------------------------------
(* The world implements a map from handles to bundles.  Its state functions, *)
(* as functions of the tables T, the locations L and the generations G:      *)

LiveOf(L) == {[index |-> i, generation |-> L[i].generation] : i \in {j \in 1 .. Len(L) : L[j].alive}}

RowOf(T, L, i) == T[L[i].mask][L[i].row]

EntsOf(T, L) ==
  [e \in LiveOf(L) |-> [mask |-> L[e.index].mask, profile |-> RowOf(T, L, e.index).profile]]

Used(L, G, i) == 1 .. IF L[i].alive THEN G[i] ELSE G[i] - 1

IssuedOf(L, G) == UNION {{[index |-> i, generation |-> g] : g \in Used(L, G, i)} : i \in 1 .. Len(L)}

\* The handles in use are within the bounds.
Bounded ==
  /\ Len(generations) =< MaxIndex
  /\ \A i \in 1 .. Len(generations) : generations[i] \in 1 .. MaxGeneration

LEMMA AbstractState ==
  /\ [e \in LiveEntities |-> BundleOf(e)] = EntsOf(tables, locations)
  /\ LiveEntities = LiveOf(locations)
  /\ Issued = IssuedOf(locations, generations)
<1>1. LiveEntities = LiveOf(locations)
  BY DEF LiveEntities, LiveOf, Resolves
<1>2. \A e : BundleOf(e) = [mask    |-> locations[e.index].mask,
                            profile |-> RowOf(tables, locations, e.index).profile]
  BY DEF BundleOf, RowOf
<1>3. [e \in LiveEntities |-> BundleOf(e)] = EntsOf(tables, locations)
  BY <1>1, <1>2, Zenon DEF EntsOf
<1>4. Issued = IssuedOf(locations, generations)
  BY DEF Issued, IssuedOf, Used
<1>. QED  BY <1>1, <1>3, <1>4

LEMMA LiveIs ==
  ASSUME NEW L, NEW e
  PROVE  e \in LiveOf(L) <=> /\ e = [index |-> e.index, generation |-> L[e.index].generation]
                             /\ e.index \in 1 .. Len(L) /\ L[e.index].alive
BY DEF LiveOf

LEMMA IssuedIs ==
  ASSUME NEW L, NEW G, NEW h
  PROVE  h \in IssuedOf(L, G) <=> /\ h = [index |-> h.index, generation |-> h.generation]
                                  /\ h.index \in 1 .. Len(L)
                                  /\ h.generation \in Used(L, G, h.index)
BY DEF IssuedOf

\* A removal leaves the data of every other entity what it was.
LEMMA RemovalKeepsRows ==
  ASSUME NEW T \in Tables, NEW L \in Seq(Location), SoundBut(T, L, 0),
         NEW m \in Masks, NEW row \in 1 .. Len(T[m]),
         NEW U, Removed(T, U, m, row), NEW M, Swapped(T, L, M, m, row),
         NEW i \in 1 .. Len(L), L[i].alive, i # T[m][row].entity.index
  PROVE  /\ M[i].mask = L[i].mask /\ L[i].mask \in Masks
         /\ M[i].row \in 1 .. Len(U[M[i].mask])
         /\ RowOf(U, M, i) = RowOf(T, L, i)
<1>. DEFINE n == Len(T[m])
            last == T[m][n].entity
            k == L[i].mask
<1>1. /\ n \in Nat /\ row \in 1 .. n /\ n \in 1 .. n
      /\ \A j \in Masks \ {m} : U[j] = T[j]
      /\ Len(U[m]) = n - 1
      /\ \A j \in 1 .. n - 1 : U[m][j] = IF j = row THEN T[m][n] ELSE T[m][j]
  BY DEF Tables, Removed
<1>2. /\ i # last.index \/ row = n => M[i] = L[i]
      /\ row # n => M[last.index] = Located(m, row, last.generation)
  BY DEF Swapped
<1>3. /\ k \in Masks /\ L[i].row \in 1 .. Len(T[k])
      /\ T[k][L[i].row].entity.index = i
  <2>1. i # 0
    OBVIOUS
  <2>2. T[L[i].mask][L[i].row].entity = [index |-> i, generation |-> L[i].generation]
        /\ L[i].mask \in Masks /\ L[i].row \in 1 .. Len(T[L[i].mask])
    BY <2>1 DEF SoundBut
  <2>. QED  BY <2>2
<1>4. last.index \in 1 .. Len(L) /\ L[last.index] = Located(m, n, last.generation)
  BY <1>1 DEF SoundBut
<1>5. L[last.index].mask = m /\ L[last.index].row = n
  BY <1>4, LocatedFields
<1>6. RowOf(T, L, i) = T[k][L[i].row] /\ RowOf(U, M, i) = U[M[i].mask][M[i].row]
  BY DEF RowOf
<1>. HIDE DEF n, last, k
<1>7. CASE i = last.index /\ row # n
  <2>1. M[i].mask = m /\ M[i].row = row
    BY <1>2, <1>7, LocatedFields
  <2>2. k = m /\ L[i].row = n
    BY <1>5, <1>7 DEF k
  <2>3. row \in 1 .. n - 1
    BY <1>1, <1>7
  <2>. QED  BY <2>1, <2>2, <2>3, <1>1, <1>3, <1>6 DEF k
<1>8. CASE i # last.index \/ row = n
  <2>1. M[i] = L[i]
    BY <1>2, <1>8
  <2>2. CASE k # m
    BY <2>1, <2>2, <1>1, <1>3, <1>6 DEF k
  <2>3. CASE k = m
    <3>1. L[i].row # row
      BY <2>3, <1>3
    <3>2. L[i].row # n
      BY <2>3, <1>3, <1>8, <3>1 DEF last
    <3>3. L[i].row \in 1 .. n - 1
      BY <2>3, <1>1, <1>3, <3>2 DEF n
    <3>. QED  BY <2>1, <2>3, <3>1, <3>3, <1>1, <1>3, <1>6 DEF k
  <2>. QED  BY <2>2, <2>3
<1>. QED  BY <1>7, <1>8

\* So does a placement.
LEMMA PlacementKeepsRows ==
  ASSUME NEW T \in Tables, NEW U, NEW m \in Masks, NEW y, Placed(T, U, m, y),
         NEW k \in Masks, NEW r \in 1 .. Len(T[k])
  PROVE  U[k][r] = T[k][r]
<1>1. CASE k = m
  BY <1>1 DEF Placed
<1>2. CASE k # m
  BY <1>2 DEF Placed
<1>. QED  BY <1>1, <1>2

\* A profile that is nobody's, or that of e, is of no other entity.
LEMMA ProfileOfNoOther ==
  ASSUME StorageOK, NEW p \in Profiles, NEW e, botIndex[p] \in {Nobody, e},
         NEW h \in LiveOf(locations), h # e
  PROVE  EntsOf(tables, locations)[h].profile # p
<1>1. h \in LiveEntities /\ h \in Entity /\ Resolves(h)
  BY AbstractState, LiveAreEntities DEF LiveEntities
<1>2. /\ RowOf(tables, locations, h.index) \in RowsOf(tables)
      /\ RowOf(tables, locations, h.index).entity = h /\ h # Nobody
  BY <1>1, ResolvedRow DEF RowOf
<1>3. EntsOf(tables, locations)[h].profile = RowOf(tables, locations, h.index).profile
  BY DEF EntsOf
<1>. QED  BY <1>2, <1>3 DEF StorageOK, BotsOf

LEMMA LiveRow ==
  ASSUME NEW T \in Tables, NEW L \in Seq(Location), SoundBut(T, L, 0),
         NEW i \in 1 .. Len(L), L[i].alive
  PROVE  /\ L[i].mask \in Masks /\ L[i].row \in 1 .. Len(T[L[i].mask])
         /\ T[L[i].mask][L[i].row].entity = [index |-> i, generation |-> L[i].generation]
<1>1. i # 0
  OBVIOUS
<1>. QED  BY <1>1 DEF SoundBut

LEMMA AbstractStateNext ==
  /\ [e \in LiveEntities |-> BundleOf(e)]' = EntsOf(tables', locations')
  /\ Issued' = IssuedOf(locations', generations')
<1>1. ([e \in LiveEntities |-> BundleOf(e)] = EntsOf(tables, locations))'
  BY AbstractState, PTL
<1>2. (Issued = IssuedOf(locations, generations))'
  BY AbstractState, PTL
<1>. QED  BY <1>1, <1>2

\* A creation in the world is one in the store, of a handle never issued.
LEMMA InsertCreates ==
  ASSUME StorageOK, Bounded, MayAllocate, NEW b \in Bundle, Accepts(b), Insert(b)
  PROVE  /\ Store!Create(NextEntity, b) /\ Bounded'
         /\ NextEntity \in [index : 1 .. MaxIndex, generation : 1 .. MaxGeneration]
<1>. DEFINE e == NextEntity
            n == Len(tables[b.mask]) + 1
            y == [entity |-> e, profile |-> b.profile]
            loc == Located(b.mask, n, e.generation)
            E == EntsOf(tables, locations)
            S == IssuedOf(locations, generations)
<1>1. /\ e.index \in Nat \ {0} /\ e.generation \in Nat
      /\ e = [index |-> e.index, generation |-> e.generation]
      /\ free # <<>> => e.generation = generations[e.index]
                        /\ e.index \in 1 .. Len(locations) /\ ~locations[e.index].alive
      /\ free = <<>> => e.index = Len(locations) + 1 /\ e.generation = 1
  BY InsertShape
<1>2. Placed(tables, tables', b.mask, y)
  BY InsertShape, Zenon
<1>3. Relocated(locations, locations', e.index, loc)
  BY InsertShape, Zenon
<1>4. /\ generations' \in Seq(Nat) /\ Len(generations') = Len(locations')
      /\ \A i \in 1 .. Len(locations') : locations'[i].generation = generations'[i]
  BY InsertShape
<1>5. /\ tables \in Tables /\ locations \in Seq(Location) /\ generations \in Seq(Nat)
      /\ SoundBut(tables, locations, 0)
      /\ Len(generations) = Len(locations)
      /\ \A i \in 1 .. Len(locations) : locations[i].generation = generations[i]
  BY DEF StorageOK, IndicesFree
<1>6. /\ b.mask \in Masks /\ b = [mask |-> b.mask, profile |-> b.profile]
      /\ b.profile = NoProfile \/ (b.profile \in Profiles /\ Bot \in b.mask)
  BY BundleProfile DEF Bundle
<1>7. /\ locations' \in Seq(Location)
      /\ e.index \in 1 .. Len(locations') /\ locations'[e.index] = loc
      /\ \A i \in 1 .. Len(locations') : i # e.index => i \in 1 .. Len(locations)
                                                        /\ locations'[i] = locations[i]
      /\ Len(locations) <= Len(locations')
  BY <1>3 DEF Relocated
<1>8. loc.alive = TRUE /\ loc.mask = b.mask /\ loc.row = n /\ loc.generation = e.generation
  BY LocatedFields
<1>9. /\ Len(tables'[b.mask]) = n /\ tables'[b.mask][n].profile = b.profile
  BY <1>2 DEF Placed
<1>10. e \in LiveOf(locations') /\ e \notin LiveOf(locations)
  <2>. HIDE DEF e, n, y, loc
  <2>1. /\ e.index \in 1 .. Len(locations')
        /\ locations'[e.index].alive /\ locations'[e.index].generation = e.generation
    BY <1>7, <1>8
  <2>2. e \in LiveOf(locations')
    BY <1>1, <2>1, LiveIs
  <2>3. ~(e.index \in 1 .. Len(locations) /\ locations[e.index].alive)
    BY <1>1, <1>5
  <2>4. e \notin LiveOf(locations)
    BY <2>3, LiveIs
  <2>. QED  BY <2>2, <2>4
<1>. HIDE DEF e, n, y, loc
<1>11. LiveOf(locations') = LiveOf(locations) \cup {e}
  <2>1. ASSUME NEW h \in LiveOf(locations'), h # e
        PROVE  h \in LiveOf(locations)
    BY <2>1, <1>1, <1>7, <1>8, LiveIs
  <2>2. ASSUME NEW h \in LiveOf(locations)
        PROVE  h \in LiveOf(locations') /\ h.index # e.index
    <3>1. /\ h.index \in 1 .. Len(locations) /\ locations[h.index].alive
          /\ h = [index |-> h.index, generation |-> locations[h.index].generation]
      BY LiveIs
    <3>2. h.index # e.index
      BY <3>1, <1>1, <1>5
    <3>3. h.index \in 1 .. Len(locations')
      BY <3>1, <1>5, <1>7
    <3>. QED  BY <3>1, <3>2, <3>3, <1>7, LiveIs
  <2>. QED  BY <2>1, <2>2, <1>10
<1>12. ASSUME NEW h \in LiveOf(locations)
       PROVE  EntsOf(tables', locations')[h] = E[h]
  <2>1. /\ h.index \in 1 .. Len(locations) /\ locations[h.index].alive
        /\ h \in LiveOf(locations')
    BY LiveIs, <1>11
  <2>2. h.index # e.index
    BY <2>1, <1>1, <1>5
  <2>3. locations'[h.index] = locations[h.index]
    BY <2>1, <2>2, <1>5, <1>7
  <2>4. /\ locations[h.index].mask \in Masks
        /\ locations[h.index].row \in 1 .. Len(tables[locations[h.index].mask])
    BY <2>1, <1>5, LiveRow
  <2>5. RowOf(tables', locations', h.index) = RowOf(tables, locations, h.index)
    BY <2>3, <2>4, <1>2, <1>5, <1>6, PlacementKeepsRows DEF RowOf
  <2>. QED  BY <2>1, <2>3, <2>5 DEF EntsOf
<1>13. EntsOf(tables', locations')[e] = b
  BY <1>6, <1>7, <1>8, <1>9, <1>10 DEF EntsOf, RowOf
<1>14. EntsOf(tables', locations') = [h \in LiveOf(locations) \cup {e} |-> IF h = e THEN b ELSE E[h]]
  <2>1. EntsOf(tables', locations') = [h \in LiveOf(locations') |-> EntsOf(tables', locations')[h]]
    BY DEF EntsOf
  <2>. QED  BY <2>1, <1>11, <1>12, <1>13
<1>15. e \notin S
  BY <1>1, <1>5, IssuedIs DEF Used
<1>16. IssuedOf(locations', generations') = S \cup {e}
  <2>1. ASSUME NEW i \in 1 .. Len(locations), i # e.index
        PROVE  Used(locations', generations', i) = Used(locations, generations, i)
    BY <2>1, <1>4, <1>5, <1>7, SMTT(30) DEF Used
  <2>2. generations'[e.index] = e.generation
    BY <1>4, <1>7, <1>8
  <2>3. Used(locations', generations', e.index) = 1 .. e.generation
    BY <2>2, <1>7, <1>8 DEF Used
  <2>4. e.index \in 1 .. Len(locations) =>
          Used(locations, generations, e.index) = 1 .. e.generation - 1
    BY <1>1, <1>5 DEF Used
  <2>5. e.generation \in 1 .. e.generation
    <3>1. e.generation >= 1
      BY <1>1, <1>5 DEF Bounded
    <3>. QED  BY <3>1, <1>1
  <2>6. ASSUME NEW h \in S
        PROVE  h \in IssuedOf(locations', generations')
    <3>1. /\ h = [index |-> h.index, generation |-> h.generation]
          /\ h.index \in 1 .. Len(locations)
          /\ h.generation \in Used(locations, generations, h.index)
      BY IssuedIs
    <3>2. h.index \in 1 .. Len(locations')
      BY <3>1, <1>5, <1>7
    <3>3. h.generation \in Used(locations', generations', h.index)
      <4>1. CASE h.index # e.index
        BY <4>1, <3>1, <2>1
      <4>2. CASE h.index = e.index
        BY <4>2, <3>1, <2>3, <2>4, <1>1
      <4>. QED  BY <4>1, <4>2
    <3>. QED  BY <3>1, <3>2, <3>3, IssuedIs
  <2>7. e \in IssuedOf(locations', generations')
    BY <1>1, <1>7, <2>3, <2>5, IssuedIs
  <2>8. ASSUME NEW h \in IssuedOf(locations', generations'), h # e
        PROVE  h \in S
    <3>1. /\ h = [index |-> h.index, generation |-> h.generation]
          /\ h.index \in 1 .. Len(locations')
          /\ h.generation \in Used(locations', generations', h.index)
      BY IssuedIs
    <3>2. CASE h.index # e.index
      BY <3>1, <3>2, <1>7, <2>1, IssuedIs
    <3>3. CASE h.index = e.index
      <4>1. h.generation \in 1 .. e.generation /\ h.generation # e.generation
        BY <3>1, <3>3, <2>3, <2>8, <1>1
      <4>2. e.generation # 1 /\ h.generation \in 1 .. e.generation - 1
        BY <4>1, <1>1
      <4>3. e.index \in 1 .. Len(locations)
        BY <4>2, <1>1
      <4>. QED  BY <3>1, <3>3, <4>2, <4>3, <2>4, IssuedIs
    <3>. QED  BY <3>2, <3>3
  <2>. QED  BY <2>6, <2>7, <2>8
<1>17. b.profile = NoProfile \/ \A h \in LiveOf(locations) : E[h].profile # b.profile
  <2>. SUFFICES ASSUME b.profile # NoProfile, NEW h \in LiveOf(locations)
                PROVE  E[h].profile # b.profile
    OBVIOUS
  <2>1. b.profile \in Profiles /\ botIndex[b.profile] \in {Nobody, e}
    BY <1>6 DEF Accepts
  <2>2. h # e
    BY <1>10
  <2>3. \A p \in Profiles : \A x : botIndex[p] \in {Nobody, x} /\ h # x =>
          EntsOf(tables, locations)[h].profile # p
    BY ProfileOfNoOther
  <2>4. EntsOf(tables, locations)[h].profile # b.profile
    BY <2>1, <2>2, <2>3
  <2>. QED  BY <2>4
<1>18. Bounded' /\ e \in [index : 1 .. MaxIndex, generation : 1 .. MaxGeneration]
  <2>1. CASE free # <<>>
    <3>1. generations' = generations
      BY <2>1 DEF Insert
    <3>. QED  BY <2>1, <3>1, <1>1, <1>5, WorldAssumption DEF Bounded
  <2>2. CASE free = <<>>
    <3>1. generations' = Append(generations, 1) /\ Len(generations) < MaxIndex
      BY <2>2 DEF Insert, MayAllocate
    <3>2. /\ Len(generations') = Len(generations) + 1
          /\ \A i \in 1 .. Len(generations') : generations'[i] = 1 \/ (i \in 1 .. Len(generations) /\ generations'[i] = generations[i])
      BY <3>1, <1>5
    <3>. QED  BY <2>2, <3>1, <3>2, <1>1, <1>5, WorldAssumption DEF Bounded
  <2>. QED  BY <2>1, <2>2
<1>19. Store!Create(e, b)
  BY <1>14, <1>15, <1>16, <1>17, AbstractState, AbstractStateNext
     DEF Store!Create, Store!ProfileFree, Store!Live
<1>. QED  BY <1>18, <1>19 DEF e

\* A destruction in the world is one in the store; no other handle is touched.
LEMMA DestroyDestroys ==
  ASSUME StorageOK, Bounded, NEW e \in LiveEntities, DestroyNow(e)
  PROVE  Store!Destroy(e) /\ Bounded'
<1>. DEFINE l == locations[e.index]
            y == tables[l.mask][l.row]
            M == Relocate(tables[l.mask], l.row)
            g == NextGeneration(l.generation)
            E == EntsOf(tables, locations)
<1>0. e \in Entity /\ e \in LiveOf(locations) /\ Resolves(e)
  BY LiveAreEntities, AbstractState DEF LiveEntities
<1>1. /\ l.mask \in Masks /\ l.row \in 1 .. Len(tables[l.mask])
      /\ y.entity = e
      /\ e.index \in 1 .. Len(locations)
      /\ l.alive /\ l.generation \in Nat
  BY <1>0, DestroyShape
<1>2. /\ tables \in Tables /\ locations \in Seq(Location) /\ generations \in Seq(Nat)
      /\ SoundBut(tables, locations, 0)
      /\ Len(generations) = Len(locations)
      /\ \A i \in 1 .. Len(locations) : locations[i].generation = generations[i]
  BY DEF StorageOK, IndicesFree
<1>3. Removed(tables, tables', l.mask, l.row)
  BY <1>0, DestroyShape
<1>4. /\ Swapped(tables, locations, M, l.mask, l.row)
      /\ \A i \in 1 .. Len(locations) : /\ M[i].alive = locations[i].alive
                                        /\ M[i].generation = locations[i].generation
  BY <1>0, DestroyShape
<1>5. /\ Len(locations') = Len(locations)
      /\ locations'[e.index] = Dead(g) /\ Dead(g).alive = FALSE
      /\ \A i \in 1 .. Len(locations) : i # e.index => locations'[i] = M[i]
  BY <1>0, DestroyShape, Zenon
<1>6. /\ Len(generations') = Len(generations)
      /\ generations'[e.index] = g
      /\ \A i \in 1 .. Len(generations) : i # e.index => generations'[i] = generations[i]
  BY <1>0, DestroyShape
<1>7. g = l.generation + 1 /\ l.generation = e.generation /\ e.generation < MaxGeneration
  BY <1>0 DEF NextGeneration, DestroyNow, Resolves
<1>. HIDE DEF l, y, M, g
<1>8. ASSUME NEW i \in 1 .. Len(locations), i # e.index, locations[i].alive
      PROVE  /\ locations'[i].alive /\ locations'[i].generation = locations[i].generation
             /\ locations'[i].mask = locations[i].mask
             /\ RowOf(tables', locations', i) = RowOf(tables, locations, i)
  <2>1. i # tables[l.mask][l.row].entity.index
    BY <1>1, <1>8 DEF y
  <2>2. M[i].mask = locations[i].mask /\ RowOf(tables', M, i) = RowOf(tables, locations, i)
    BY <2>1, <1>1, <1>2, <1>3, <1>4, <1>8, RemovalKeepsRows, SMTT(30)
  <2>3. locations'[i] = M[i]
    BY <1>5, <1>8
  <2>. QED  BY <2>2, <2>3, <1>4, <1>8 DEF RowOf
<1>9. ASSUME NEW i \in 1 .. Len(locations), i # e.index
      PROVE  /\ locations'[i].alive = locations[i].alive
             /\ locations'[i].generation = locations[i].generation
  BY <1>4, <1>5, <1>9
<1>10. LiveOf(locations') = LiveOf(locations) \ {e}
  <2>1. ASSUME NEW h \in LiveOf(locations')
        PROVE  h \in LiveOf(locations) /\ h # e
    <3>1. /\ h = [index |-> h.index, generation |-> locations'[h.index].generation]
          /\ h.index \in 1 .. Len(locations) /\ locations'[h.index].alive
      BY <1>5, LiveIs
    <3>2. h.index # e.index
      BY <3>1, <1>5
    <3>3. locations[h.index].alive /\ locations'[h.index].generation = locations[h.index].generation
      BY <3>1, <3>2, <1>9
    <3>. QED  BY <3>1, <3>2, <3>3, LiveIs
  <2>2. ASSUME NEW h \in LiveOf(locations), h # e
        PROVE  h \in LiveOf(locations')
    <3>1. /\ h = [index |-> h.index, generation |-> locations[h.index].generation]
          /\ h.index \in 1 .. Len(locations) /\ locations[h.index].alive
      BY LiveIs
    <3>2. e = [index |-> e.index, generation |-> locations[e.index].generation]
      BY <1>0, LiveIs
    <3>3. h.index # e.index
      BY <2>2, <3>1, <3>2
    <3>4. locations'[h.index].alive /\ locations'[h.index].generation = locations[h.index].generation
      BY <3>1, <3>3, <1>9
    <3>5. h.index \in 1 .. Len(locations')
      BY <3>1, <1>5
    <3>. QED  BY <3>1, <3>4, <3>5, LiveIs
  <2>. QED  BY <2>1, <2>2
<1>11. ASSUME NEW h \in LiveOf(locations) \ {e}
       PROVE  EntsOf(tables', locations')[h] = E[h]
  <2>1. /\ h = [index |-> h.index, generation |-> locations[h.index].generation]
        /\ h.index \in 1 .. Len(locations) /\ locations[h.index].alive
    BY LiveIs
  <2>2. e = [index |-> e.index, generation |-> locations[e.index].generation]
    BY <1>0, LiveIs
  <2>3. h.index # e.index
    BY <2>1, <2>2
  <2>4. /\ locations'[h.index].mask = locations[h.index].mask
        /\ RowOf(tables', locations', h.index) = RowOf(tables, locations, h.index)
    BY <2>1, <2>3, <1>8
  <2>5. h \in LiveOf(locations')
    BY <1>10
  <2>. QED  BY <2>4, <2>5 DEF EntsOf
<1>12. EntsOf(tables', locations') = [h \in LiveOf(locations) \ {e} |-> E[h]]
  <2>1. EntsOf(tables', locations') = [h \in LiveOf(locations') |-> EntsOf(tables', locations')[h]]
    BY DEF EntsOf
  <2>. QED  BY <2>1, <1>10, <1>11
<1>13. IssuedOf(locations', generations') = IssuedOf(locations, generations)
  <2>1. ASSUME NEW i \in 1 .. Len(locations)
        PROVE  Used(locations', generations', i) = Used(locations, generations, i)
    <3>1. CASE i # e.index
      BY <3>1, <1>2, <1>6, <1>9 DEF Used
    <3>2. CASE i = e.index
      <4>1. Used(locations', generations', i) = 1 .. g - 1
        BY <3>2, <1>5, <1>6 DEF Used
      <4>2. Used(locations, generations, i) = 1 .. l.generation
        BY <3>2, <1>1, <1>2 DEF Used, l
      <4>. QED  BY <4>1, <4>2, <1>1, <1>7
    <3>. QED  BY <3>1, <3>2
  <2>2. \A h : h \in IssuedOf(locations', generations') <=> h \in IssuedOf(locations, generations)
    <3>. TAKE h
    <3>. QED  BY <2>1, <1>5, IssuedIs
  <2>. QED  BY <2>2
<1>14. Bounded'
  <2>1. \A i \in 1 .. Len(generations') : generations'[i] \in 1 .. MaxGeneration
    <3>1. g \in 1 .. MaxGeneration
      BY <1>1, <1>7, WorldAssumption
    <3>. QED  BY <3>1, <1>6 DEF Bounded
  <2>. QED  BY <2>1, <1>6 DEF Bounded
<1>15. Store!Destroy(e)
  BY <1>12, <1>13, AbstractState, AbstractStateNext DEF Store!Destroy, Store!Live
<1>. QED  BY <1>14, <1>15

\* A migration changes the bundle of its handle in the store, and no other.
LEMMA MigrateChanges ==
  ASSUME StorageOK, Bounded, NEW e \in LiveEntities, NEW b \in Bundle, MigrateNow(e, b)
  PROVE  Store!Change(e, b) /\ Bounded'
<1>. DEFINE l == locations[e.index]
            y == tables[l.mask][l.row]
            M == Relocate(tables[l.mask], l.row)
            U == [tables EXCEPT ![l.mask] = RemoveSwap(tables[l.mask], l.row)]
            z == [entity |-> e, profile |-> b.profile]
            loc == Located(b.mask, Len(U[b.mask]) + 1, e.generation)
            E == EntsOf(tables, locations)
<1>0. e \in Entity /\ e \in LiveOf(locations) /\ Resolves(e)
  BY LiveAreEntities, AbstractState DEF LiveEntities
<1>1. /\ l.mask \in Masks /\ l.row \in 1 .. Len(tables[l.mask])
      /\ y.entity = e
      /\ e.index \in 1 .. Len(locations)
      /\ l.alive /\ l.generation = e.generation
  BY <1>0, MigrateShape
<1>2. /\ tables \in Tables /\ locations \in Seq(Location) /\ generations \in Seq(Nat)
      /\ SoundBut(tables, locations, 0)
  BY DEF StorageOK
<1>3. Removed(tables, U, l.mask, l.row) /\ U \in Tables
  BY <1>0, MigrateShape, Zenon
<1>4. /\ Swapped(tables, locations, M, l.mask, l.row)
      /\ \A i \in 1 .. Len(locations) : /\ M[i].alive = locations[i].alive
                                        /\ M[i].generation = locations[i].generation
  BY <1>0, MigrateShape, Zenon
<1>5. /\ Len(locations') = Len(locations)
      /\ locations'[e.index] = loc
      /\ \A i \in 1 .. Len(locations) : i # e.index => locations'[i] = M[i]
  BY <1>0, MigrateShape, Zenon
<1>6. Placed(U, tables', b.mask, z)
  BY <1>0, MigrateShape, Zenon
<1>7. generations' = generations
  BY DEF MigrateNow
<1>8. /\ b.mask \in Masks /\ b = [mask |-> b.mask, profile |-> b.profile]
      /\ b.profile = NoProfile \/ b.profile \in Profiles
  BY BundleProfile DEF Bundle
<1>9. /\ loc.alive = TRUE /\ loc.mask = b.mask /\ loc.row = Len(U[b.mask]) + 1
      /\ loc.generation = e.generation
  BY LocatedFields
<1>10. tables'[b.mask][Len(U[b.mask]) + 1].profile = b.profile
  BY <1>6 DEF Placed
<1>11. b.profile # NoProfile => botIndex[b.profile] \in {Nobody, e}
  BY DEF MigrateNow, MayMigrate
<1>. HIDE DEF l, y, M, U, z, loc
<1>12. ASSUME NEW i \in 1 .. Len(locations), i # e.index, locations[i].alive
       PROVE  /\ locations'[i].mask = locations[i].mask
              /\ RowOf(tables', locations', i) = RowOf(tables, locations, i)
  <2>1. i # tables[l.mask][l.row].entity.index
    BY <1>1, <1>12 DEF y
  <2>2. /\ M[i].mask = locations[i].mask /\ M[i].mask \in Masks
        /\ M[i].row \in 1 .. Len(U[M[i].mask])
        /\ RowOf(U, M, i) = RowOf(tables, locations, i)
    BY <2>1, <1>1, <1>2, <1>3, <1>4, <1>12, RemovalKeepsRows
  <2>3. tables'[M[i].mask][M[i].row] = U[M[i].mask][M[i].row]
    BY <2>2, <1>3, <1>6, <1>8, PlacementKeepsRows
  <2>4. locations'[i] = M[i]
    BY <1>5, <1>12
  <2>. QED  BY <2>2, <2>3, <2>4 DEF RowOf
<1>13. ASSUME NEW i \in 1 .. Len(locations)
       PROVE  /\ locations'[i].alive = locations[i].alive
              /\ locations'[i].generation = locations[i].generation
  <2>1. CASE i # e.index
    BY <2>1, <1>4, <1>5
  <2>2. CASE i = e.index
    <3>1. l.alive = TRUE
      BY <1>1, <1>2 DEF l, Location
    <3>. QED  BY <3>1, <2>2, <1>1, <1>5, <1>9 DEF l
  <2>. QED  BY <2>1, <2>2
<1>14. LiveOf(locations') = LiveOf(locations)
  <2>1. \A h : h \in LiveOf(locations') <=> h \in LiveOf(locations)
    <3>. TAKE h
    <3>. QED  BY <1>5, <1>13, LiveIs
  <2>. QED  BY <2>1
<1>15. EntsOf(tables', locations')[e] = b
  <2>1. e \in LiveOf(locations')
    BY <1>0, <1>14
  <2>2. RowOf(tables', locations', e.index).profile = b.profile
    BY <1>5, <1>9, <1>10 DEF RowOf
  <2>. QED  BY <2>1, <2>2, <1>5, <1>8, <1>9 DEF EntsOf
<1>16. ASSUME NEW h \in LiveOf(locations), h # e
       PROVE  EntsOf(tables', locations')[h] = E[h]
  <2>1. /\ h = [index |-> h.index, generation |-> locations[h.index].generation]
        /\ h.index \in 1 .. Len(locations) /\ locations[h.index].alive
    BY LiveIs
  <2>2. e = [index |-> e.index, generation |-> locations[e.index].generation]
    BY <1>0, LiveIs
  <2>3. h.index # e.index
    BY <2>1, <2>2, <1>16
  <2>4. /\ locations'[h.index].mask = locations[h.index].mask
        /\ RowOf(tables', locations', h.index) = RowOf(tables, locations, h.index)
    BY <2>1, <2>3, <1>12
  <2>5. h \in LiveOf(locations')
    BY <1>14
  <2>. QED  BY <2>4, <2>5 DEF EntsOf
<1>17. EntsOf(tables', locations') = [E EXCEPT ![e] = b]
  <2>1. EntsOf(tables', locations') = [h \in LiveOf(locations') |-> EntsOf(tables', locations')[h]]
        /\ E = [h \in LiveOf(locations) |-> E[h]]
    BY DEF EntsOf
  <2>. HIDE DEF E
  <2>. QED  BY <2>1, <1>0, <1>14, <1>15, <1>16
<1>18. IssuedOf(locations', generations') = IssuedOf(locations, generations)
  <2>1. \A i \in 1 .. Len(locations) :
          Used(locations', generations', i) = Used(locations, generations, i)
    BY <1>7, <1>13 DEF Used
  <2>2. \A h : h \in IssuedOf(locations', generations') <=> h \in IssuedOf(locations, generations)
    <3>. TAKE h
    <3>. QED  BY <2>1, <1>5, IssuedIs
  <2>. QED  BY <2>2
<1>19. b.profile = NoProfile \/ \A h \in LiveOf(locations) \ {e} : E[h].profile # b.profile
  <2>. SUFFICES ASSUME b.profile # NoProfile, NEW h \in LiveOf(locations), h # e
                PROVE  E[h].profile # b.profile
    OBVIOUS
  <2>1. b.profile \in Profiles /\ botIndex[b.profile] \in {Nobody, e}
    BY <1>8, <1>11
  <2>2. \A p \in Profiles : \A x : botIndex[p] \in {Nobody, x} /\ h # x =>
          EntsOf(tables, locations)[h].profile # p
    BY ProfileOfNoOther
  <2>3. EntsOf(tables, locations)[h].profile # b.profile
    BY <2>1, <2>2
  <2>. QED  BY <2>3
<1>20. Bounded'
  BY <1>7 DEF Bounded
<1>21. Store!Change(e, b)
  BY <1>17, <1>18, <1>19, AbstractState, AbstractStateNext
     DEF Store!Change, Store!ProfileFree, Store!Live
<1>. QED  BY <1>20, <1>21

\* What leaves the storage alone is a stutter of the store.
LEMMA StorageStutters ==
  ASSUME UNCHANGED storage
  PROVE  UNCHANGED Store!vars /\ (Bounded => Bounded')
<1>1. tables' = tables /\ locations' = locations /\ generations' = generations
  BY DEF storage
<1>2. /\ EntsOf(tables', locations') = EntsOf(tables, locations)
      /\ IssuedOf(locations', generations') = IssuedOf(locations, generations)
  BY <1>1
<1>. QED  BY <1>1, <1>2, AbstractState, AbstractStateNext DEF Store!vars, Bounded

LEMMA StoreStep ==
  ASSUME WorldInv, Bounded, [WorldNext]_worldVars
  PROVE  [Store!Next]_(Store!vars) /\ Bounded'
<1>1. StorageOK /\ StagingOK /\ BatchFits
  BY WorldInvParts
<1>2. ASSUME NEW b \in Bundle, Accepts(b), MayAllocate, Insert(b)
      PROVE  [Store!Next]_(Store!vars) /\ Bounded'
  BY <1>1, <1>2, InsertCreates DEF Store!Next
<1>3. ASSUME NEW b \in Bundle, CreateNow(b)
      PROVE  [Store!Next]_(Store!vars) /\ Bounded'
  BY <1>2, <1>3 DEF CreateNow
<1>4. DOMAIN [e \in LiveEntities |-> BundleOf(e)] = LiveEntities
  OBVIOUS
<1>5. ASSUME NEW e \in LiveEntities, DestroyNow(e)
      PROVE  [Store!Next]_(Store!vars) /\ Bounded'
  BY <1>1, <1>4, <1>5, DestroyDestroys DEF Store!Next, Store!Live
<1>6. ASSUME NEW e \in LiveEntities, NEW b \in Bundle, MigrateNow(e, b)
      PROVE  [Store!Next]_(Store!vars) /\ Bounded'
  BY <1>1, <1>4, <1>6, MigrateChanges DEF Store!Next, Store!Live
<1>7. ASSUME ApplyCommand
      PROVE  [Store!Next]_(Store!vars) /\ Bounded'
  <2>1. CASE Accepts(queue[syncing].bundle) /\ Insert(queue[syncing].bundle)
    <3>1. MayAllocate /\ queue[syncing] \in Envelop
      BY <1>1, <1>7 DEF ApplyCommand, StagingOK
    <3>2. queue[syncing].bundle \in Bundle
      BY <2>1, <3>1, AcceptedIsBundle
    <3>. QED  BY <2>1, <3>1, <3>2, <1>2
  <2>2. CASE UNCHANGED storage
    BY <2>2, StorageStutters
  <2>. QED  BY <2>1, <2>2, <1>7 DEF ApplyCommand
<1>8. ASSUME NEW envelops \in Batches, NEW masks \in SUBSET Masks, Stage(envelops, masks)
      PROVE  [Store!Next]_(Store!vars) /\ Bounded'
  BY <1>8, StorageStutters DEF Stage
<1>9. ASSUME BeginSync \/ FinishSync \/ UNCHANGED worldVars
      PROVE  [Store!Next]_(Store!vars) /\ Bounded'
  <2>1. UNCHANGED storage
    BY <1>9 DEF BeginSync, FinishSync, worldVars, storage
  <2>. QED  BY <2>1, StorageStutters
<1>. QED  BY <1>3, <1>5, <1>6, <1>7, <1>8, <1>9 DEF WorldNext

LEMMA StoreInit ==
  ASSUME WorldInit
  PROVE  Store!Init /\ Bounded
<1>1. Len(locations) = 0 /\ Len(generations) = 0
  BY DEF WorldInit
<1>2. LiveEntities = {} /\ Issued = {}
  BY <1>1 DEF LiveEntities, Issued
<1>3. [e \in LiveEntities |-> BundleOf(e)] = [h \in {} |-> {}]
  BY <1>2
<1>4. Bounded
  BY <1>1, WorldAssumption DEF Bounded
<1>. QED  BY <1>2, <1>3, <1>4 DEF Store!Init

\* Rows, generations and Sync (core/world.go, core/sync.go) implement a map from
\* handles to bundles: each step of the world is one of EntityStore or a stutter.
THEOREM WorldImplementsStore == WorldSpec => ImplementsStore
<1>1. WorldInit => Store!Init /\ Bounded
  BY StoreInit
<1>2. WorldInv /\ Bounded /\ [WorldNext]_worldVars => [Store!Next]_(Store!vars) /\ Bounded'
  BY StoreStep
<1>. QED  BY <1>1, <1>2, WorldSound, PTL DEF WorldSpec, ImplementsStore, Store!Spec
=============================================================================
