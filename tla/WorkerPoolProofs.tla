---------------------------- MODULE WorkerPoolProofs ----------------------------
(***************************************************************************)
(* Theorems about WorkerPool, for any workers, callers, loops and queue.   *)
(*                                                                         *)
(* The invariant counts the chunks that are still to be sent with Chunks,  *)
(* as the code does; that this is their number is a lemma of its own.      *)
(***************************************************************************)
EXTENDS WorkerPool, FiniteSetTheorems, FunctionTheorems, TLAPS

-----------------------------------------------------------------------------
(* Arithmetic *)

LEMMA DivMod ==
  ASSUME NEW n \in Nat, NEW g \in Nat \ {0}
  PROVE  /\ n \div g \in Nat /\ n % g \in Nat
         /\ n = g * (n \div g) + (n % g) /\ n % g < g
OBVIOUS

LEMMA MulMono ==
  ASSUME NEW g \in Nat \ {0}, NEW x \in Int, NEW y \in Int, g * x < g * y
  PROVE  x < y
OBVIOUS

\* The quotient is the only one of its kind.
LEMMA DivIs ==
  ASSUME NEW n \in Nat, NEW g \in Nat \ {0}, NEW q \in Int,
         g * q =< n, n < g * (q + 1)
  PROVE  n \div g = q
<1>. DEFINE d == n \div g
<1>1. /\ d \in Nat /\ g * d =< n /\ n < g * d + g
  BY DivMod
<1>. HIDE DEF d
<1>2. g * d < g * (q + 1)
  BY <1>1
<1>3. g * q < g * (d + 1)
  BY <1>1
<1>4. d < q + 1 /\ q < d + 1
  BY <1>1, <1>2, <1>3, MulMono
<1>. QED  BY <1>1, <1>4 DEF d

\* A chunk that is sent is one less to send.
LEMMA ChunksStep ==
  ASSUME NEW n \in Nat \ {0}, NEW g \in Nat \ {0}
  PROVE  /\ Chunks(n, g) \in Nat \ {0}
         /\ n > g => Chunks(n, g) = Chunks(n - g, g) + 1
         /\ n =< g => Chunks(n, g) = 1
<1>. DEFINE q == (n + g - 1) \div g
<1>1. /\ n + g - 1 \in Nat /\ q \in Nat
      /\ g * q =< n + g - 1 /\ n + g - 1 < g * q + g
  BY DivMod
<1>2. Chunks(n, g) = q
  BY DEF Chunks
<1>. HIDE DEF q
<1>3. q >= 1
  BY <1>1, MulMono
<1>4. ASSUME n > g PROVE Chunks(n - g, g) = q - 1
  <2>1. n - g + g - 1 \in Nat /\ q - 1 \in Int
    BY <1>1, <1>4
  <2>2. g * (q - 1) =< n - g + g - 1 /\ n - g + g - 1 < g * (q - 1 + 1)
    BY <1>1
  <2>. QED  BY <2>1, <2>2, DivIs DEF Chunks
<1>5. ASSUME n =< g PROVE q = 1
  <2>1. g * 1 =< n + g - 1 /\ n + g - 1 < g * (1 + 1)
    BY <1>5
  <2>. QED  BY <1>1, <2>1, DivIs DEF q
<1>. QED  BY <1>1, <1>2, <1>3, <1>4, <1>5

\* The starts of the chunks of the indices from s to t.
Starts(s, t, g) == {i \in s .. t - 1 : (i - s) % g = 0}

LEMMA ChunksAreStarts ==
  ASSUME NEW s \in Nat, NEW t \in Nat, s < t, NEW g \in Nat \ {0}
  PROVE  IsFiniteSet(Starts(s, t, g)) /\ Cardinality(Starts(s, t, g)) = Chunks(t - s, g)
<1>. DEFINE n == Chunks(t - s, g)
            f == [k \in 1 .. n |-> s + g * (k - 1)]
<1>1. n \in Nat /\ g * n =< t - s + g - 1 /\ t - s + g - 1 < g * n + g
  <2>1. t - s + g - 1 \in Nat
    OBVIOUS
  <2>. QED  BY <2>1, DivMod DEF Chunks
<1>. HIDE DEF n
<1>2. ASSUME NEW k \in 1 .. n PROVE f[k] \in Starts(s, t, g)
  <2>1. g * (k - 1) \in Nat /\ g * (k - 1) + g =< g * n
    BY <1>1
  <2>2. g * (k - 1) < t - s
    BY <1>1, <2>1
  <2>3. (g * (k - 1)) \div g = k - 1
    BY <2>1, DivIs
  <2>4. (g * (k - 1)) % g = 0
    BY <2>1, <2>3, DivMod
  <2>. QED  BY <2>1, <2>2, <2>4 DEF Starts
<1>3. ASSUME NEW k \in 1 .. n, NEW j \in 1 .. n, f[k] = f[j] PROVE k = j
  BY <1>3, <1>1, MulMono
<1>4. ASSUME NEW i \in Starts(s, t, g) PROVE \E k \in 1 .. n : f[k] = i
  <2>. DEFINE k == (i - s) \div g
  <2>1. i \in Int /\ i - s \in Nat /\ i - s < t - s /\ (i - s) % g = 0
    BY DEF Starts
  <2>2. k \in Nat /\ i - s = g * k
    BY <2>1, DivMod
  <2>. HIDE DEF k
  <2>3. g * k < g * n
    BY <1>1, <2>1, <2>2
  <2>4. k < n
    BY <1>1, <2>2, <2>3, MulMono
  <2>5. k + 1 \in 1 .. n /\ f[k + 1] = s + g * k
    BY <1>1, <2>2, <2>4
  <2>6. f[k + 1] = i
    BY <2>1, <2>2, <2>5
  <2>. QED  BY <2>5, <2>6
<1>5. f \in Bijection(1 .. n, Starts(s, t, g))
  BY <1>2, <1>3, <1>4, Fun_IsBij, Zenon
<1>6. IsFiniteSet(1 .. n) /\ Cardinality(1 .. n) = n
  BY <1>1, FS_Interval
<1>. QED  BY <1>5, <1>6, FS_Bijection DEF ExistsBijection, n
-----------------------------------------------------------------------------
(* The jobs of a caller in the channel and at the workers *)

Of(q, c) == {i \in 1 .. Len(q) : q[i].caller = c}

At(jobs, c) == {r \in jobs : r.caller = c}

One(b) == IF b THEN 1 ELSE 0

LEMMA OfFinite ==
  ASSUME NEW c, NEW q \in Seq(Job)
  PROVE  IsFiniteSet(Of(q, c)) /\ Cardinality(Of(q, c)) \in Nat
<1>1. IsFiniteSet(1 .. Len(q)) /\ Of(q, c) \subseteq 1 .. Len(q)
  BY FS_Interval DEF Of
<1>. QED  BY <1>1, FS_Subset, FS_CardinalityType

LEMMA OfAppend ==
  ASSUME NEW c, NEW q \in Seq(Job), NEW j \in Job
  PROVE  Cardinality(Of(Append(q, j), c)) = Cardinality(Of(q, c)) + One(j.caller = c)
<1>. DEFINE n == Len(q) + 1
<1>1. n \notin Of(q, c)
  BY DEF Of
<1>2. CASE j.caller = c
  <2>1. Of(Append(q, j), c) = Of(q, c) \cup {n}
    BY <1>2 DEF Of
  <2>2. IsFiniteSet(Of(q, c)) /\ Cardinality(Of(q, c)) \in Nat
    BY OfFinite
  <2>3. PICK S : S = Of(q, c)
    OBVIOUS
  <2>4. Cardinality(S \cup {n}) = Cardinality(S) + 1
    BY <1>1, <2>2, <2>3, FS_AddElement
  <2>. QED  BY <1>2, <2>1, <2>3, <2>4 DEF One
<1>3. CASE j.caller # c
  <2>1. Of(Append(q, j), c) = Of(q, c)
    BY <1>3 DEF Of
  <2>. QED  BY <1>3, <2>1, OfFinite DEF One
<1>. QED  BY <1>2, <1>3

LEMMA OfTail ==
  ASSUME NEW c, NEW q \in Seq(Job), q # <<>>
  PROVE  Cardinality(Of(q, c)) = Cardinality(Of(Tail(q), c)) + One(Head(q).caller = c)
<1>. DEFINE later == Of(q, c) \ {1}
            f == [i \in Of(Tail(q), c) |-> i + 1]
<1>1. Len(q) \in Nat \ {0} /\ Tail(q) \in Seq(Job) /\ Len(Tail(q)) = Len(q) - 1
  OBVIOUS
<1>2. \A i \in 1 .. Len(Tail(q)) : Tail(q)[i] = q[i + 1]
  OBVIOUS
<1>3. ASSUME NEW i \in Of(Tail(q), c) PROVE f[i] \in later
  BY <1>1, <1>2 DEF Of
<1>4. ASSUME NEW i \in Of(Tail(q), c), NEW k \in Of(Tail(q), c), f[i] = f[k] PROVE i = k
  BY <1>4 DEF Of
<1>5. ASSUME NEW k \in later PROVE \E i \in Of(Tail(q), c) : f[i] = k
  <2>1. k - 1 \in Of(Tail(q), c) /\ k - 1 + 1 = k
    BY <1>1, <1>2 DEF Of
  <2>. QED  BY <2>1
<1>6. f \in Bijection(Of(Tail(q), c), later)
  BY <1>3, <1>4, <1>5, Fun_IsBij, Zenon
<1>7. Cardinality(later) = Cardinality(Of(Tail(q), c))
  <2>1. ExistsBijection(Of(Tail(q), c), later)
    BY <1>6, Zenon DEF ExistsBijection
  <2>2. IsFiniteSet(Of(Tail(q), c))
    BY <1>1, OfFinite
  <2>. HIDE DEF later
  <2>. QED  BY <2>1, <2>2, FS_Bijection, Zenon
<1>. HIDE DEF f
<1>8. IsFiniteSet(Of(q, c)) /\ Cardinality(Of(q, c)) \in Nat
  BY OfFinite
<1>9. CASE Head(q).caller = c
  <2>1. 1 \in Of(q, c)
    BY <1>1, <1>9 DEF Of
  <2>2. Cardinality(later) = Cardinality(Of(q, c)) - 1
    BY <1>8, <2>1, FS_RemoveElement
  <2>. QED  BY <1>7, <1>9, <1>8, <2>2 DEF One
<1>10. CASE Head(q).caller # c
  <2>1. later = Of(q, c)
    BY <1>1, <1>10 DEF Of
  <2>2. Cardinality(later) = Cardinality(Of(q, c))
    BY <2>1
  <2>. QED  BY <1>7, <1>10, <1>8, <2>2 DEF One
<1>. QED  BY <1>9, <1>10

LEMMA AtFinite ==
  ASSUME NEW c, NEW jobs, IsFiniteSet(jobs)
  PROVE  IsFiniteSet(At(jobs, c)) /\ Cardinality(At(jobs, c)) \in Nat
<1>1. At(jobs, c) \subseteq jobs
  BY DEF At
<1>. QED  BY <1>1, FS_Subset, FS_CardinalityType

LEMMA AtAdd ==
  ASSUME NEW c, NEW jobs, IsFiniteSet(jobs), NEW r, r \notin jobs
  PROVE  Cardinality(At(jobs \cup {r}, c)) = Cardinality(At(jobs, c)) + One(r.caller = c)
<1>1. CASE r.caller = c
  <2>1. At(jobs \cup {r}, c) = At(jobs, c) \cup {r} /\ r \notin At(jobs, c)
    BY <1>1 DEF At
  <2>. QED  BY <1>1, <2>1, AtFinite, FS_AddElement DEF One
<1>2. CASE r.caller # c
  <2>1. At(jobs \cup {r}, c) = At(jobs, c)
    BY <1>2 DEF At
  <2>. QED  BY <1>2, <2>1, AtFinite DEF One
<1>. QED  BY <1>1, <1>2

LEMMA AtRemove ==
  ASSUME NEW c, NEW jobs, IsFiniteSet(jobs), NEW r \in jobs
  PROVE  Cardinality(At(jobs, c)) = Cardinality(At(jobs \ {r}, c)) + One(r.caller = c)
<1>1. IsFiniteSet(jobs \ {r}) /\ r \notin jobs \ {r} /\ (jobs \ {r}) \cup {r} = jobs
  BY FS_RemoveElement
<1>. QED  BY <1>1, AtAdd

-----------------------------------------------------------------------------
(* The invariant *)

\* PoolTypeOK without the sign of the counter, which is no fact of its own: it
\* follows from what the counter counts.
PoolType ==
  /\ queue \in Seq(Job) /\ Len(queue) =< Capacity
  /\ stopped \in BOOLEAN /\ cancelled \in BOOLEAN
  /\ closer \in {"open", "closing", "closed"}
  /\ at \in [Callers -> {"idle", "sending", "waiting", "cancelled", "refused", "returned"}]
  /\ loop \in [Callers -> Nat \X (Nat \ {0})]
  /\ start \in [Callers -> Nat]
  /\ pending \in [Callers -> Int]
  /\ failed \in [Callers -> BOOLEAN]
  /\ result \in [Callers -> {"none", "ok", "panic", "cancelled", "closed"}]
  /\ running \subseteq [worker : Workers, caller : Callers, start : Nat]
  /\ IsFiniteSet(running) /\ ended \subseteq running
  /\ gone \subseteq Workers
  /\ done \in [Callers -> SUBSET Nat]
  /\ panicked \in [Callers -> BOOLEAN]

\* What a caller that is still sending has not sent.
Left(c) == IF at[c] = "sending" THEN Chunks(Total(c) - start[c], Grain(c)) ELSE 0

Counted ==
  \A c \in Callers :
    pending[c] = Left(c) + Cardinality(Of(queue, c)) + Cardinality(At(running, c))

\* What is known of caller c at each place in ParallelFor.
PhaseOf(c) ==
  /\ at[c] = "idle" =>
       start[c] = 0 /\ pending[c] = 0 /\ Total(c) = 0 /\ result[c] = "none" /\ ~panicked[c]
  /\ at[c] = "sending" => start[c] < Total(c) /\ result[c] = "none"
  /\ at[c] = "waiting" => start[c] >= Total(c) /\ result[c] = "none"
  /\ at[c] = "returned" => pending[c] = 0
  /\ result[c] = "ok" => at[c] = "returned" /\ start[c] >= Total(c) /\ ~panicked[c]
  /\ panicked[c] => failed[c]

Phase == \A c \in Callers : PhaseOf(c)

\* The chunk of caller c that begins at s was sent and has not been lost.
Placed(c, s) ==
  \/ s \in done[c]
  \/ \E k \in 1 .. Len(queue) : queue[k].caller = c /\ queue[k].start = s
  \/ \E r \in running : r.caller = c /\ r.start = s

CoveredOf(c) ==
  \A i \in 0 .. start[c] - 1 :
    panicked[c] \/ \E s \in Nat : s =< i /\ i < s + Grain(c) /\ Placed(c, s)

Covered == \A c \in Callers : CoveredOf(c)

\* A job whose Done may run has had its effect.
Ended == \A r \in ended : r.start \in done[r.caller] \/ panicked[r.caller]

IInv == PoolType /\ Counted /\ Phase /\ Ended /\ Covered

-----------------------------------------------------------------------------
(* Each part is kept *)

LEMMA CapacityInt == Capacity \in Int
<1>1. Cardinality(Workers) \in Nat
  BY PoolAssumption, FS_CardinalityType
<1>. QED  BY <1>1, PoolAssumption DEF Capacity

LEMMA GrainPositive == ASSUME NEW l \in Loops PROVE GrainOf(l) \in Nat \ {0} /\ l[1] \in Int
BY PoolAssumption DEF GrainOf

\* The numbers the parts of the invariant are about.
LEMMA Counts ==
  ASSUME PoolType, Counted, Phase, NEW c \in Callers
  PROVE  /\ start[c] \in Nat /\ Total(c) \in Nat /\ Grain(c) \in Nat \ {0} /\ pending[c] \in Int
         /\ Cardinality(Of(queue, c)) \in Nat /\ Cardinality(At(running, c)) \in Nat
         /\ Left(c) \in Nat
<1>1. start[c] \in Nat /\ Total(c) \in Nat /\ Grain(c) \in Nat \ {0} /\ pending[c] \in Int
  BY DEF PoolType, Total, Grain
<1>2. Cardinality(Of(queue, c)) \in Nat /\ Cardinality(At(running, c)) \in Nat
  BY OfFinite, AtFinite DEF PoolType
<1>3. CASE at[c] = "sending"
  <2>1. Total(c) - start[c] \in Nat \ {0}
    BY <1>1, <1>3 DEF Phase, PhaseOf
  <2>. QED  BY <1>1, <1>2, <1>3, <2>1, ChunksStep DEF Left
<1>. QED  BY <1>1, <1>2, <1>3 DEF Left

\* A job that runs is on its caller's counter.
LEMMA RunningIsPending ==
  ASSUME PoolType, Counted, Phase, NEW r \in running
  PROVE  /\ r.caller \in Callers /\ r.start \in Nat /\ pending[r.caller] >= 1
         /\ at[r.caller] \notin {"idle", "returned"}
<1>1. r.caller \in Callers /\ r.start \in Nat
  BY DEF PoolType
<1>2. Cardinality(At(running, r.caller)) >= 1
  <2>1. Cardinality(At(running, r.caller)) = Cardinality(At(running \ {r}, r.caller)) + 1
    BY AtRemove DEF PoolType, One
  <2>2. Cardinality(At(running \ {r}, r.caller)) \in Nat
    BY AtFinite, FS_RemoveElement DEF PoolType
  <2>. QED  BY <2>1, <2>2
<1>3. pending[r.caller] >= 1
  BY <1>1, <1>2, Counts DEF Counted
<1>. QED  BY <1>1, <1>3 DEF Phase, PhaseOf

LEMMA TypeStep ==
  ASSUME PoolType, [Next]_vars
  PROVE  PoolType'
<1>1. Capacity' = Capacity
  BY DEF Capacity
<1>2. ASSUME NEW c \in Callers, Call(c) PROVE PoolType'
  <2>1. PICK l \in Loops :
          IF l[1] =< 0
          THEN at' = [at EXCEPT ![c] = "returned"] /\ result' = [result EXCEPT ![c] = "ok"]
               /\ UNCHANGED <<loop, pending>>
          ELSE at' = [at EXCEPT ![c] = "sending"]
               /\ loop' = [loop EXCEPT ![c] = <<l[1], GrainOf(l)>>]
               /\ pending' = [pending EXCEPT ![c] = Chunks(l[1], GrainOf(l))]
               /\ UNCHANGED result
    BY <1>2 DEF Call
  <2>2. /\ UNCHANGED <<queue, stopped, cancelled, closer, start, failed, running, ended, gone, done,
                   panicked>>
    BY <1>2 DEF Call
  <2>3. CASE l[1] =< 0
    BY <2>1, <2>2, <2>3, <1>1 DEF PoolType
  <2>4. CASE ~(l[1] =< 0)
    <3>1. l[1] \in Nat \ {0} /\ GrainOf(l) \in Nat \ {0} /\ Chunks(l[1], GrainOf(l)) \in Int
      BY <2>4, GrainPositive, ChunksStep, SMTT(30)
    <3>2. loop' \in [Callers -> Nat \X (Nat \ {0})]
      <4>1. <<l[1], GrainOf(l)>> \in Nat \X (Nat \ {0})
        BY <3>1
      <4>2. loop \in [Callers -> Nat \X (Nat \ {0})] /\ loop' = [loop EXCEPT ![c] = <<l[1], GrainOf(l)>>]
        BY <2>1, <2>4 DEF PoolType
      <4>. QED  BY <4>1, <4>2, Zenon
    <3>3. pending' \in [Callers -> Int]
      BY <2>1, <2>4, <3>1 DEF PoolType
    <3>. QED  BY <2>1, <2>2, <2>4, <3>2, <3>3, <1>1 DEF PoolType
  <2>. QED  BY <2>3, <2>4
<1>3. ASSUME NEW c \in Callers, Send(c) PROVE PoolType'
  <2>1. [caller |-> c, start |-> start[c]] \in Job /\ start[c] + Grain(c) \in Nat
    BY DEF Job, PoolType, Grain
  <2>2. queue' \in Seq(Job) /\ Len(queue') =< Capacity
    BY <1>3, <2>1, CapacityInt DEF Send, PoolType
  <2>3. start' \in [Callers -> Nat]
    BY <1>3, <2>1 DEF Send, PoolType
  <2>. QED  BY <1>3, <1>1, <2>2, <2>3 DEF Send, PoolType
<1>4. ASSUME NEW c \in Callers, GiveUp(c) PROVE PoolType'
  <2>1. Remaining(c) \in Int
    BY DivMod DEF Remaining, Chunks, PoolType, Total, Grain
  <2>2. pending' \in [Callers -> Int]
    BY <1>4, <2>1 DEF GiveUp, PoolType
  <2>3. at' \in [Callers -> {"idle", "sending", "waiting", "cancelled", "refused", "returned"}]
    BY <1>4 DEF GiveUp, PoolType
  <2>. QED  BY <1>4, <1>1, <2>2, <2>3 DEF GiveUp, PoolType
<1>5. ASSUME NEW c \in Callers, Return(c) PROVE PoolType'
  BY <1>5, <1>1 DEF Return, PoolType
<1>6. ASSUME NEW w \in Workers, Take(w) PROVE PoolType'
  <2>1. Head(queue) \in Job /\ Tail(queue) \in Seq(Job) /\ Len(Tail(queue)) =< Capacity
    BY <1>6, CapacityInt DEF Take, PoolType
  <2>2. IsFiniteSet(running')
    <3>. DEFINE r == [worker |-> w, caller |-> Head(queue).caller, start |-> Head(queue).start]
    <3>1. IsFiniteSet(running) /\ running' = running \cup {r}
      BY <1>6 DEF Take, PoolType
    <3>. HIDE DEF r
    <3>. QED  BY <3>1, FS_AddElement
  <2>3. running' \subseteq [worker : Workers, caller : Callers, start : Nat]
    BY <1>6, <2>1, SMTT(30) DEF Take, PoolType, Job
  <2>4. queue' = Tail(queue)
    BY <1>6 DEF Take
  <2>. QED  BY <1>6, <1>1, <2>1, <2>2, <2>3, <2>4 DEF Take, PoolType
<1>7. ASSUME NEW w \in Workers, Stop(w) PROVE PoolType'
  BY <1>7, <1>1 DEF Stop, PoolType
<1>8. ASSUME NEW r \in running, End(r) PROVE PoolType'
  <2>1. r.caller \in Callers /\ r.start \in Nat
    BY DEF PoolType
  <2>2. UNCHANGED running /\ ended' \subseteq running
    BY <1>8 DEF End, PoolType
  <2>3. done' \in [Callers -> SUBSET Nat]
    <3>1. done \in [Callers -> SUBSET Nat] /\ done[r.caller] \cup {r.start} \in SUBSET Nat
      BY <2>1 DEF PoolType
    <3>2. done' = [done EXCEPT ![r.caller] = @ \cup {r.start}] \/ done' = done
      BY <1>8 DEF End
    <3>. QED  BY <3>1, <3>2, Zenon
  <2>4. failed' \in [Callers -> BOOLEAN] /\ panicked' \in [Callers -> BOOLEAN]
    BY <1>8, <2>1 DEF End, PoolType
  <2>. QED  BY <1>8, <1>1, <2>2, <2>3, <2>4 DEF End, PoolType
<1>9. ASSUME NEW r \in running, CountDown(r) PROVE PoolType'
  <2>1. r.caller \in Callers
    BY DEF PoolType
  <2>2. IsFiniteSet(running')
    BY <1>9, FS_RemoveElement DEF CountDown, PoolType
  <2>3. /\ running' \subseteq [worker : Workers, caller : Callers, start : Nat]
        /\ ended' \subseteq running'
    BY <1>9 DEF CountDown, PoolType
  <2>4. pending' \in [Callers -> Int]
    BY <1>9, <2>1 DEF CountDown, PoolType
  <2>. QED  BY <1>9, <1>1, <2>2, <2>3, <2>4 DEF CountDown, PoolType
<1>10. CASE Close \/ Closed \/ Cancel \/ UNCHANGED vars
  BY <1>10, <1>1 DEF Close, Closed, Cancel, vars, PoolType
<1>. QED  BY <1>2, <1>3, <1>4, <1>5, <1>6, <1>7, <1>8, <1>9, <1>10 DEF Next

LEMMA CountedStep ==
  ASSUME PoolType, Counted, Phase, [Next]_vars
  PROVE  Counted'
<1>. SUFFICES ASSUME NEW d \in Callers
              PROVE  pending'[d] = Left(d)' + Cardinality(Of(queue', d)) + Cardinality(At(running', d))
  BY DEF Counted
<1>. DEFINE Goal == pending'[d] = Left(d)' + Cardinality(Of(queue', d)) + Cardinality(At(running', d))
<1>1. pending[d] = Left(d) + Cardinality(Of(queue, d)) + Cardinality(At(running, d))
  BY DEF Counted
<1>2. /\ Left(d) \in Nat /\ pending[d] \in Int
      /\ Cardinality(Of(queue, d)) \in Nat /\ Cardinality(At(running, d)) \in Nat
  BY Counts
<1>3. ASSUME NEW c \in Callers, Call(c) PROVE Goal
  <2>1. UNCHANGED <<queue, running, start>>
    BY <1>3 DEF Call
  <2>2. CASE d # c
    <3>1. at'[d] = at[d] /\ loop'[d] = loop[d] /\ pending'[d] = pending[d]
      BY <1>3, <2>2 DEF Call, PoolType
    <3>. QED  BY <1>1, <2>1, <3>1 DEF Left, Total, Grain
  <2>3. CASE d = c
    <3>1. /\ at[d] = "idle" /\ start[d] = 0 /\ pending[d] = 0 /\ Left(d) = 0
      BY <1>3, <2>3 DEF Call, Phase, PhaseOf, Left
    <3>2. Cardinality(Of(queue, d)) = 0 /\ Cardinality(At(running, d)) = 0
      BY <1>1, <1>2, <3>1
    <3>3. pending'[d] = Left(d)'
      <4>1. PICK l \in Loops :
              IF l[1] =< 0
              THEN at' = [at EXCEPT ![c] = "returned"] /\ UNCHANGED pending
              ELSE at' = [at EXCEPT ![c] = "sending"]
                   /\ loop' = [loop EXCEPT ![c] = <<l[1], GrainOf(l)>>]
                   /\ pending' = [pending EXCEPT ![c] = Chunks(l[1], GrainOf(l))]
        BY <1>3 DEF Call
      <4>2. l[1] \in Int
        BY GrainPositive
      <4>3. CASE l[1] =< 0
        <5>1. at'[d] = "returned" /\ pending'[d] = 0
          BY <2>3, <3>1, <4>1, <4>3 DEF PoolType
        <5>. QED  BY <5>1 DEF Left
      <4>4. CASE ~(l[1] =< 0)
        <5>1. /\ at'[d] = "sending" /\ Total(d)' = l[1] /\ Grain(d)' = GrainOf(l)
              /\ pending'[d] = Chunks(l[1], GrainOf(l))
          BY <2>3, <4>1, <4>4 DEF PoolType, Total, Grain
        <5>2. Total(d)' - start'[d] = l[1]
          BY <2>1, <3>1, <4>2, <5>1
        <5>. QED  BY <5>1, <5>2 DEF Left
      <4>. QED  BY <4>3, <4>4
    <3>4. pending'[d] \in Int
      BY TypeStep DEF PoolType
    <3>. QED  BY <2>1, <3>2, <3>3, <3>4
  <2>. QED  BY <2>2, <2>3
<1>4. ASSUME NEW c \in Callers, Send(c) PROVE Goal
  <2>. DEFINE j == [caller |-> c, start |-> start[c]]
  <2>1. UNCHANGED <<pending, loop, running>> /\ queue' = Append(queue, j) /\ at[c] = "sending"
    BY <1>4 DEF Send
  <2>2. j \in Job /\ j.caller = c
    BY DEF Job, PoolType
  <2>. HIDE DEF j
  <2>3. Cardinality(Of(queue', d)) = Cardinality(Of(queue, d)) + One(c = d)
    BY <2>1, <2>2, OfAppend DEF PoolType
  <2>4. CASE d # c
    <3>1. at'[d] = at[d] /\ start'[d] = start[d]
      BY <1>4, <2>4 DEF Send, PoolType
    <3>2. Left(d)' = Left(d)
      BY <2>1, <3>1 DEF Left, Total, Grain
    <3>. QED  BY <1>1, <1>2, <2>1, <2>3, <2>4, <3>2 DEF One
  <2>5. CASE d = c
    <3>. DEFINE n == Total(c) - start[c]
    <3>1. n \in Nat \ {0} /\ Grain(c) \in Nat \ {0} /\ start[c] \in Nat /\ Total(c) \in Nat
      BY <2>1, Counts DEF Phase, PhaseOf
    <3>2. /\ start'[c] = start[c] + Grain(c)
          /\ at'[c] = IF start'[c] < Total(c) THEN "sending" ELSE "waiting"
      BY <1>4 DEF Send, PoolType
    <3>3. Left(c) = Chunks(n, Grain(c))
      BY <2>1 DEF Left
    <3>4. Left(c) = Left(c)' + 1 /\ Left(c)' \in Int
      <4>1. CASE n > Grain(c)
        <5>1. at'[c] = "sending" /\ Total(c)' - start'[c] = n - Grain(c)
          BY <2>1, <3>1, <3>2, <4>1 DEF Total
        <5>2. Left(c)' = Chunks(n - Grain(c), Grain(c))
          BY <2>1, <5>1 DEF Left, Grain
        <5>. HIDE DEF n
        <5>3. n - Grain(c) \in Nat \ {0}
          BY <3>1, <4>1
        <5>4. Chunks(n - Grain(c), Grain(c)) \in Nat
          BY <3>1, <5>3, ChunksStep
        <5>. QED  BY <3>1, <3>3, <4>1, <5>2, <5>4, ChunksStep
      <4>2. CASE n =< Grain(c)
        <5>1. at'[c] = "waiting"
          BY <3>1, <3>2, <4>2
        <5>2. Left(c)' = 0
          BY <5>1 DEF Left
        <5>. HIDE DEF n
        <5>. QED  BY <3>1, <3>3, <4>2, <5>2, ChunksStep
      <4>. QED  BY <3>1, <4>1, <4>2
    <3>. QED  BY <1>1, <1>2, <2>1, <2>3, <2>5, <3>4 DEF One
  <2>. QED  BY <2>4, <2>5
<1>5. ASSUME NEW c \in Callers, GiveUp(c) PROVE Goal
  <2>1. UNCHANGED <<queue, running, start, loop>> /\ at[c] = "sending"
    BY <1>5 DEF GiveUp
  <2>2. CASE d # c
    <3>1. at'[d] = at[d] /\ pending'[d] = pending[d]
      BY <1>5, <2>2 DEF GiveUp, PoolType
    <3>. QED  BY <1>1, <2>1, <3>1 DEF Left, Total, Grain
  <2>3. CASE d = c
    <3>1. at'[c] # "sending" /\ pending'[c] = pending[c] - Remaining(c)
      BY <1>5 DEF GiveUp, PoolType
    <3>2. Left(c) = Remaining(c) /\ Left(c)' = 0
      BY <2>1, <3>1 DEF Left, Remaining
    <3>. QED  BY <1>1, <1>2, <2>1, <2>3, <3>1, <3>2
  <2>. QED  BY <2>2, <2>3
<1>6. ASSUME NEW c \in Callers, Return(c) PROVE Goal
  <2>1. UNCHANGED <<queue, running, start, loop, pending>>
    BY <1>6 DEF Return
  <2>2. at'[d] = at[d] \/ (at[d] # "sending" /\ at'[d] # "sending")
    BY <1>6 DEF Return, PoolType
  <2>. QED  BY <1>1, <2>1, <2>2 DEF Left, Total, Grain
<1>7. ASSUME NEW w \in Workers, Take(w) PROVE Goal
  <2>. DEFINE r == [worker |-> w, caller |-> Head(queue).caller, start |-> Head(queue).start]
  <2>1. /\ UNCHANGED <<at, start, loop, pending>> /\ Idle(w) /\ queue # <<>>
        /\ queue' = Tail(queue) /\ running' = running \cup {r}
    BY <1>7 DEF Take
  <2>2. r \notin running /\ r.caller = Head(queue).caller
    BY <2>1 DEF Idle
  <2>. HIDE DEF r
  <2>3. Cardinality(At(running', d)) = Cardinality(At(running, d)) + One(Head(queue).caller = d)
    <3>1. IsFiniteSet(running)
      BY DEF PoolType
    <3>. QED  BY <2>1, <2>2, <3>1, AtAdd
  <2>4. Cardinality(Of(queue, d)) = Cardinality(Of(queue', d)) + One(Head(queue).caller = d)
    BY <2>1, OfTail DEF PoolType
  <2>5. Left(d)' = Left(d) /\ One(Head(queue).caller = d) \in Nat
    BY <2>1 DEF Left, Total, Grain, One
  <2>6. Cardinality(Of(queue', d)) \in Nat
    <3>1. queue' \in Seq(Job)
      BY <2>1 DEF PoolType
    <3>. QED  BY <3>1, OfFinite
  <2>. QED  BY <1>1, <1>2, <2>1, <2>3, <2>4, <2>5, <2>6
<1>8. ASSUME NEW r \in running, CountDown(r) PROVE Goal
  <2>1. /\ UNCHANGED <<queue, at, start, loop>> /\ running' = running \ {r}
        /\ pending' = [pending EXCEPT ![r.caller] = @ - 1]
    BY <1>8 DEF CountDown
  <2>2. Cardinality(At(running, d)) = Cardinality(At(running', d)) + One(r.caller = d)
    BY <2>1, AtRemove DEF PoolType
  <2>3. pending'[d] = pending[d] - One(r.caller = d)
    BY <1>2, <2>1 DEF PoolType, One
  <2>4. Left(d)' = Left(d) /\ One(r.caller = d) \in Nat
    BY <2>1 DEF Left, Total, Grain, One
  <2>5. Cardinality(At(running', d)) \in Nat
    BY <2>1, AtFinite, FS_RemoveElement DEF PoolType
  <2>. QED  BY <1>1, <1>2, <2>1, <2>2, <2>3, <2>4, <2>5
<1>9. CASE \/ \E w \in Workers : Stop(w)
           \/ \E r \in running : End(r)
           \/ Close \/ Closed \/ Cancel \/ UNCHANGED vars
  <2>1. UNCHANGED <<queue, at, loop, start, pending, running>>
    BY <1>9 DEF Stop, End, Close, Closed, Cancel, vars
  <2>. QED  BY <1>1, <2>1 DEF Left, Total, Grain
<1>. QED  BY <1>3, <1>4, <1>5, <1>6, <1>7, <1>8, <1>9 DEF Next

LEMMA PhaseStep ==
  ASSUME PoolType, Counted, Phase, [Next]_vars
  PROVE  Phase'
<1>. SUFFICES ASSUME NEW d \in Callers PROVE PhaseOf(d)'
  BY DEF Phase
<1>1. PhaseOf(d) /\ start[d] \in Nat /\ Total(d) \in Nat /\ Grain(d) \in Nat \ {0} /\ pending[d] \in Int
  BY Counts DEF Phase
<1>2. ASSUME NEW c \in Callers, Call(c) PROVE PhaseOf(d)'
  <2>1. UNCHANGED <<start, failed, panicked>> /\ at[c] = "idle"
    BY <1>2 DEF Call
  <2>2. CASE d # c
    <3>1. UNCHANGED <<at[d], loop[d], pending[d], result[d]>>
      BY <1>2, <2>2 DEF Call, PoolType
    <3>. QED  BY <1>1, <2>1, <3>1 DEF PhaseOf, Total
  <2>3. CASE d = c
    <3>1. start[d] = 0 /\ pending[d] = 0 /\ Total(d) = 0 /\ result[d] = "none" /\ ~panicked[d]
      BY <1>1, <2>1, <2>3 DEF PhaseOf
    <3>2. PICK l \in Loops :
            IF l[1] =< 0
            THEN at' = [at EXCEPT ![c] = "returned"] /\ result' = [result EXCEPT ![c] = "ok"]
                 /\ UNCHANGED <<loop, pending>>
            ELSE at' = [at EXCEPT ![c] = "sending"]
                 /\ loop' = [loop EXCEPT ![c] = <<l[1], GrainOf(l)>>]
                 /\ UNCHANGED result
      BY <1>2 DEF Call
    <3>3. CASE l[1] =< 0
      <4>1. at'[d] = "returned" /\ pending'[d] = 0 /\ Total(d)' = 0
        BY <2>3, <3>1, <3>2, <3>3 DEF PoolType, Total
      <4>. QED  BY <2>1, <3>1, <4>1 DEF PhaseOf
    <3>4. CASE ~(l[1] =< 0)
      <4>1. at'[d] = "sending" /\ Total(d)' = l[1] /\ result'[d] = "none"
        BY <2>3, <3>1, <3>2, <3>4 DEF PoolType, Total
      <4>2. 0 < l[1]
        BY <3>4, GrainPositive
      <4>. QED  BY <2>1, <3>1, <4>1, <4>2 DEF PhaseOf
    <3>. QED  BY <3>3, <3>4
  <2>. QED  BY <2>2, <2>3
<1>3. ASSUME NEW c \in Callers, Send(c) PROVE PhaseOf(d)'
  <2>1. UNCHANGED <<loop, pending, failed, result, panicked>> /\ at[c] = "sending"
    BY <1>3 DEF Send
  <2>2. CASE d # c
    <3>1. UNCHANGED <<at[d], start[d]>>
      BY <1>3, <2>2 DEF Send, PoolType
    <3>. QED  BY <1>1, <2>1, <3>1 DEF PhaseOf, Total
  <2>3. CASE d = c
    <3>1. /\ start'[d] = start[d] + Grain(d)
          /\ at'[d] = IF start'[d] < Total(d) THEN "sending" ELSE "waiting"
      BY <1>3, <2>3 DEF Send, PoolType
    <3>2. result[d] = "none" /\ start'[d] \in Nat
      BY <1>1, <2>1, <2>3, <3>1 DEF PhaseOf
    <3>. QED  BY <1>1, <2>1, <3>1, <3>2 DEF PhaseOf, Total
  <2>. QED  BY <2>2, <2>3
<1>4. ASSUME NEW c \in Callers, GiveUp(c) PROVE PhaseOf(d)'
  <2>1. UNCHANGED <<loop, start, failed, result, panicked>> /\ at[c] = "sending"
    BY <1>4 DEF GiveUp
  <2>2. CASE d # c
    <3>1. UNCHANGED <<at[d], pending[d]>>
      BY <1>4, <2>2 DEF GiveUp, PoolType
    <3>. QED  BY <1>1, <2>1, <3>1 DEF PhaseOf, Total
  <2>3. CASE d = c
    <3>1. at'[d] \in {"cancelled", "refused"} /\ result[d] = "none"
      BY <1>1, <1>4, <2>1, <2>3 DEF GiveUp, PoolType, PhaseOf
    <3>. QED  BY <1>1, <2>1, <3>1 DEF PhaseOf, Total
  <2>. QED  BY <2>2, <2>3
<1>5. ASSUME NEW c \in Callers, Return(c) PROVE PhaseOf(d)'
  <2>1. UNCHANGED <<loop, start, pending, failed, panicked>> /\ pending[c] = 0
    BY <1>5 DEF Return, AllDone
  <2>2. CASE d # c
    <3>1. UNCHANGED <<at[d], result[d]>>
      BY <1>5, <2>2 DEF Return, PoolType
    <3>. QED  BY <1>1, <2>1, <3>1 DEF PhaseOf, Total
  <2>3. CASE d = c
    <3>1. at'[d] = "returned" /\ at[d] \in {"waiting", "cancelled", "refused"}
      BY <1>5, <2>3 DEF Return, PoolType
    <3>2. result'[d] = "ok" => at[d] = "waiting" /\ ~failed[d]
      BY <1>5, <2>3 DEF Return, PoolType
    <3>. QED  BY <1>1, <2>1, <2>3, <3>1, <3>2 DEF PhaseOf, Total
  <2>. QED  BY <2>2, <2>3
<1>6. ASSUME NEW r \in running, End(r) PROVE PhaseOf(d)'
  <2>1. UNCHANGED <<at, loop, start, pending, result>>
    BY <1>6 DEF End
  <2>2. r.caller \in Callers /\ at[r.caller] \notin {"idle", "returned"}
    BY RunningIsPending
  <2>3. CASE d # r.caller
    <3>1. UNCHANGED <<failed[d], panicked[d]>>
      BY <1>6, <2>2, <2>3 DEF End, PoolType
    <3>. QED  BY <1>1, <2>1, <3>1 DEF PhaseOf, Total
  <2>4. CASE d = r.caller
    <3>1. panicked'[d] => failed'[d]
      BY <1>1, <1>6, <2>4 DEF End, PoolType, PhaseOf
    <3>. QED  BY <1>1, <2>1, <2>2, <2>4, <3>1 DEF PhaseOf, Total
  <2>. QED  BY <2>3, <2>4
<1>7. ASSUME NEW r \in running, CountDown(r) PROVE PhaseOf(d)'
  <2>1. UNCHANGED <<at, loop, start, result, failed, panicked>>
    BY <1>7 DEF CountDown
  <2>2. r.caller \in Callers /\ at[r.caller] \notin {"idle", "returned"}
    BY RunningIsPending
  <2>3. CASE d # r.caller
    <3>1. UNCHANGED pending[d]
      BY <1>7, <2>2, <2>3 DEF CountDown, PoolType
    <3>. QED  BY <1>1, <2>1, <3>1 DEF PhaseOf, Total
  <2>4. CASE d = r.caller
    BY <1>1, <2>1, <2>2, <2>4 DEF PhaseOf, Total
  <2>. QED  BY <2>3, <2>4
<1>8. CASE \/ \E w \in Workers : Take(w) \/ Stop(w)
           \/ Close \/ Closed \/ Cancel \/ UNCHANGED vars
  <2>1. UNCHANGED <<at, loop, start, pending, failed, result, panicked>>
    BY <1>8 DEF Take, Stop, Close, Closed, Cancel, vars
  <2>. QED  BY <1>1, <2>1 DEF PhaseOf, Total
<1>. QED  BY <1>2, <1>3, <1>4, <1>5, <1>6, <1>7, <1>8 DEF Next

LEMMA EndedStep ==
  ASSUME PoolType, Ended, [Next]_vars
  PROVE  Ended'
<1>1. ASSUME NEW r \in running, End(r) PROVE Ended'
  <2>1. /\ r.caller \in Callers /\ r.start \in Nat
        /\ panicked \in [Callers -> BOOLEAN] /\ done \in [Callers -> SUBSET Nat]
    BY DEF PoolType
  <2>2. \/ done' = [done EXCEPT ![r.caller] = @ \cup {r.start}] /\ panicked' = panicked
        \/ panicked' = [panicked EXCEPT ![r.caller] = TRUE] /\ done' = done
    BY <1>1 DEF End
  <2>3. \A c \in Callers : done[c] \subseteq done'[c] /\ (panicked[c] => panicked'[c])
    BY <2>1, <2>2
  <2>4. r.start \in done'[r.caller] \/ panicked'[r.caller]
    BY <2>1, <2>2
  <2>5. ended' = ended \cup {r} /\ \A q \in ended : q.caller \in Callers
    BY <1>1 DEF End, PoolType
  <2>. QED  BY <2>3, <2>4, <2>5 DEF Ended
<1>2. ASSUME NEW r \in running, CountDown(r) PROVE Ended'
  BY <1>2 DEF CountDown, Ended
<1>3. CASE \/ \E c \in Callers : Call(c) \/ Send(c) \/ GiveUp(c) \/ Return(c)
           \/ \E w \in Workers : Take(w) \/ Stop(w)
           \/ Close \/ Closed \/ Cancel \/ UNCHANGED vars
  <2>1. UNCHANGED <<ended, done, panicked>>
    BY <1>3 DEF Call, Send, GiveUp, Return, Take, Stop, Close, Closed, Cancel, vars
  <2>. QED  BY <2>1 DEF Ended
<1>. QED  BY <1>1, <1>2, <1>3 DEF Next

\* A chunk that was sent stays placed until its function panics.
LEMMA CoveredKept ==
  ASSUME Covered, NEW d \in Callers, start'[d] = start[d], Grain(d)' = Grain(d),
         panicked[d] => panicked'[d],
         \A s \in Nat : Placed(d, s) => Placed(d, s)' \/ panicked'[d]
  PROVE  CoveredOf(d)'
BY DEF Covered, CoveredOf

LEMMA CoveredStep ==
  ASSUME PoolType, Counted, Phase, Ended, Covered, [Next]_vars
  PROVE  Covered'
<1>. SUFFICES ASSUME NEW d \in Callers PROVE CoveredOf(d)'
  BY DEF Covered
<1>1. ASSUME NEW c \in Callers, Call(c) PROVE CoveredOf(d)'
  <2>1. UNCHANGED <<queue, start, running, done, panicked>>
    BY <1>1 DEF Call
  <2>2. CASE d # c
    <3>1. Grain(d)' = Grain(d)
      BY <1>1, <2>2 DEF Call, PoolType, Grain
    <3>. QED  BY <2>1, <3>1, CoveredKept DEF Placed
  <2>3. CASE d = c
    <3>1. start'[d] = 0
      BY <1>1, <2>1, <2>3 DEF Call, Phase, PhaseOf
    <3>. QED  BY <3>1 DEF CoveredOf
  <2>. QED  BY <2>2, <2>3
<1>2. ASSUME NEW c \in Callers, Send(c) PROVE CoveredOf(d)'
  <2>. DEFINE j == [caller |-> c, start |-> start[c]]
  <2>1. UNCHANGED <<loop, running, done, panicked>> /\ queue' = Append(queue, j)
    BY <1>2 DEF Send
  <2>2. queue \in Seq(Job) /\ j.caller = c /\ j.start = start[c]
    BY DEF PoolType
  <2>. HIDE DEF j
  <2>3. /\ Len(queue) \in Nat /\ Len(queue') = Len(queue) + 1 /\ queue'[Len(queue) + 1] = j
        /\ \A k \in 1 .. Len(queue) : queue'[k] = queue[k]
    BY <2>1, <2>2
  <2>4. \A s \in Nat : Placed(d, s) => Placed(d, s)'
    BY <2>1, <2>3 DEF Placed
  <2>5. CASE d # c
    <3>1. start'[d] = start[d] /\ Grain(d)' = Grain(d)
      BY <1>2, <2>1, <2>5 DEF Send, PoolType, Grain
    <3>. QED  BY <2>1, <2>4, <3>1, CoveredKept
  <2>6. CASE d = c
    <3>1. start'[d] = start[d] + Grain(d) /\ Grain(d)' = Grain(d)
      BY <1>2, <2>1, <2>6 DEF Send, PoolType, Grain
    <3>2. start[d] \in Nat /\ Grain(d) \in Nat \ {0}
      BY Counts
    <3>. PICK first \in Nat : first = start[d]
      BY <3>2
    <3>3. Placed(d, first)'
      BY <2>2, <2>3, <2>6 DEF Placed
    <3>. SUFFICES ASSUME NEW i \in 0 .. start'[d] - 1, ~panicked'[d]
                  PROVE  \E s \in Nat : s =< i /\ i < s + Grain(d) /\ Placed(d, s)'
      BY <3>1 DEF CoveredOf
    <3>4. CASE i < start[d]
      <4>1. i \in 0 .. start[d] - 1
        BY <3>1, <3>2, <3>4
      <4>2. PICK s \in Nat : s =< i /\ i < s + Grain(d) /\ Placed(d, s)
        BY <2>1, <4>1 DEF Covered, CoveredOf
      <4>. QED  BY <2>4, <4>2
    <3>5. CASE i >= start[d]
      <4>1. first =< i /\ i < first + Grain(d)
        BY <3>1, <3>2, <3>5
      <4>. QED  BY <3>2, <3>3, <4>1
    <3>. QED  BY <3>2, <3>4, <3>5
  <2>. QED  BY <2>5, <2>6
<1>3. ASSUME NEW w \in Workers, Take(w) PROVE CoveredOf(d)'
  <2>. DEFINE r == [worker |-> w, caller |-> Head(queue).caller, start |-> Head(queue).start]
  <2>1. /\ UNCHANGED <<loop, start, done, panicked>> /\ queue # <<>> /\ queue \in Seq(Job)
        /\ queue' = Tail(queue) /\ running' = running \cup {r}
    BY <1>3 DEF Take, PoolType
  <2>2. r.caller = Head(queue).caller /\ r.start = Head(queue).start
    OBVIOUS
  <2>. HIDE DEF r
  <2>3. /\ Len(queue) \in Nat \ {0} /\ Len(queue') = Len(queue) - 1
        /\ \A k \in 1 .. Len(queue') : queue'[k] = queue[k + 1]
    BY <2>1
  <2>4. ASSUME NEW s \in Nat, Placed(d, s) PROVE Placed(d, s)'
    <3>1. CASE s \in done[d] \/ \E q \in running : q.caller = d /\ q.start = s
      BY <2>1, <3>1 DEF Placed
    <3>2. ASSUME NEW k \in 1 .. Len(queue), queue[k].caller = d, queue[k].start = s
          PROVE  Placed(d, s)'
      <4>1. CASE k = 1
        BY <2>1, <2>2, <3>2, <4>1 DEF Placed
      <4>2. CASE k # 1
        <5>1. k - 1 \in 1 .. Len(queue') /\ queue'[k - 1] = queue[k]
          BY <2>3, <4>2
        <5>. QED  BY <3>2, <5>1 DEF Placed
      <4>. QED  BY <4>1, <4>2
    <3>. QED  BY <2>4, <3>1, <3>2 DEF Placed
  <2>. QED  BY <2>1, <2>4, CoveredKept DEF Grain
<1>4. ASSUME NEW r \in running, End(r) PROVE CoveredOf(d)'
  <2>1. UNCHANGED <<queue, loop, start, running>>
    BY <1>4 DEF End
  <2>2. r.caller \in Callers /\ panicked \in [Callers -> BOOLEAN] /\ done \in [Callers -> SUBSET Nat]
    BY DEF PoolType
  <2>3. \/ done' = [done EXCEPT ![r.caller] = @ \cup {r.start}] /\ panicked' = panicked
        \/ panicked' = [panicked EXCEPT ![r.caller] = TRUE] /\ done' = done
    BY <1>4 DEF End
  <2>4. done[d] \subseteq done'[d] /\ (panicked[d] => panicked'[d])
    BY <2>2, <2>3
  <2>. QED  BY <2>1, <2>4, CoveredKept DEF Placed, Grain
<1>5. ASSUME NEW r \in running, CountDown(r) PROVE CoveredOf(d)'
  <2>1. UNCHANGED <<queue, loop, start, done, panicked>> /\ running' = running \ {r}
    BY <1>5 DEF CountDown
  <2>2. r.start \in done[r.caller] \/ panicked[r.caller]
    BY <1>5 DEF CountDown, Recorded, Ended
  <2>3. \A s \in Nat : Placed(d, s) => Placed(d, s)' \/ panicked'[d]
    BY <2>1, <2>2 DEF Placed
  <2>. QED  BY <2>1, <2>3, CoveredKept DEF Grain
<1>6. CASE \/ \E c \in Callers : GiveUp(c) \/ Return(c)
           \/ \E w \in Workers : Stop(w)
           \/ Close \/ Closed \/ Cancel \/ UNCHANGED vars
  <2>1. UNCHANGED <<queue, loop, start, running, done, panicked>>
    BY <1>6 DEF GiveUp, Return, Stop, Close, Closed, Cancel, vars
  <2>. QED  BY <2>1, CoveredKept DEF Placed, Grain
<1>. QED  BY <1>1, <1>2, <1>3, <1>4, <1>5, <1>6 DEF Next

-----------------------------------------------------------------------------
(* The theorems *)

LEMMA InitIInv == Init => IInv
<1>. SUFFICES ASSUME Init PROVE IInv
  OBVIOUS
<1>1. Capacity \in Nat
  <2>1. Cardinality(Workers) \in Nat
    BY PoolAssumption, FS_CardinalityType
  <2>. QED  BY <2>1, PoolAssumption DEF Capacity
<1>2. IsFiniteSet({}) /\ Cardinality({}) = 0
  BY FS_EmptySet
<1>3. PoolType
  <2>1. queue \in Seq(Job) /\ Len(queue) =< Capacity
    BY <1>1 DEF Init
  <2>2. loop \in [Callers -> Nat \X (Nat \ {0})]
    <3>1. <<0, 1>> \in Nat \X (Nat \ {0})
      OBVIOUS
    <3>. QED  BY <3>1 DEF Init
  <2>3. start \in [Callers -> Nat] /\ pending \in [Callers -> Int]
    BY DEF Init
  <2>4. done \in [Callers -> SUBSET Nat]
    BY DEF Init
  <2>5. running = {} /\ ended = {} /\ IsFiniteSet(running)
    BY <1>2 DEF Init
  <2>. QED  BY <2>1, <2>2, <2>3, <2>4, <2>5 DEF Init, PoolType
<1>4. Counted
  <2>. SUFFICES ASSUME NEW c \in Callers
                PROVE  pending[c] = Left(c) + Cardinality(Of(queue, c)) + Cardinality(At(running, c))
    BY DEF Counted
  <2>1. Of(queue, c) = {} /\ At(running, c) = {} /\ Left(c) = 0 /\ pending[c] = 0
    BY DEF Init, Of, At, Left
  <2>. QED  BY <1>2, <2>1
<1>5. Phase
  BY DEF Init, Phase, PhaseOf, Total
<1>6. Ended
  BY DEF Init, Ended
<1>7. Covered
  BY DEF Init, Covered, CoveredOf
<1>. QED  BY <1>3, <1>4, <1>5, <1>6, <1>7 DEF IInv

\* The invariant holds: everything the counter, the phases of the callers and
\* the chunks sent say of one another.
THEOREM PoolInvariant == Spec => []IInv
<1>1. IInv /\ [Next]_vars => IInv'
  BY TypeStep, CountedStep, PhaseStep, EndedStep, CoveredStep DEF IInv
<1>. QED  BY InitIInv, <1>1, PTL DEF Spec

\* No counter of a WaitGroup goes below zero, which is a panic in Go, and the
\* channel never holds more than its capacity: for any workers, calls and
\* capacity, however the context and Close cut the calls short.
THEOREM PoolTypes == Spec => []PoolTypeOK
<1>1. IInv => PoolTypeOK
  <2>. SUFFICES ASSUME IInv PROVE PoolTypeOK
    OBVIOUS
  <2>1. \A c \in Callers : pending[c] \in Nat
    BY Counts DEF IInv, Counted
  <2>2. pending \in [Callers -> Nat]
    BY <2>1 DEF IInv, PoolType
  <2>. QED  BY <2>2 DEF IInv, PoolType, PoolTypeOK
<1>. QED  BY PoolInvariant, <1>1, PTL

\* wg.Add of the number of chunks and the corrections of a call cut short keep
\* the counter at the number of chunks unsent, in the channel and running.
THEOREM CounterIsExact == Spec => []CounterExact
<1>1. IInv => CounterExact
  <2>. SUFFICES ASSUME IInv, NEW c \in Callers
                PROVE  pending[c] = Cardinality(Unsent(c)) + Cardinality(Queued(c)) + Cardinality(Running(c))
    BY DEF CounterExact
  <2>1. Queued(c) = Of(queue, c) /\ Running(c) = At(running, c)
    BY DEF Queued, Running, Of, At
  <2>2. Cardinality(Unsent(c)) = Left(c)
    <3>1. CASE at[c] = "sending"
      <4>1. /\ start[c] \in Nat /\ Total(c) \in Nat /\ Grain(c) \in Nat \ {0} /\ start[c] < Total(c)
        BY <3>1, Counts DEF IInv, Phase, PhaseOf
      <4>2. Unsent(c) = Starts(start[c], Total(c), Grain(c))
        BY <3>1 DEF Unsent, Starts
      <4>. QED  BY <3>1, <4>1, <4>2, ChunksAreStarts DEF Left
    <3>2. CASE at[c] # "sending"
      BY <3>2, FS_EmptySet DEF Unsent, Left
    <3>. QED  BY <3>1, <3>2
  <2>. QED  BY <2>1, <2>2 DEF IInv, Counted
<1>. QED  BY PoolInvariant, <1>1, PTL

LEMMA NothingPending ==
  ASSUME IInv, NEW c \in Callers, pending[c] = 0
  PROVE  Of(queue, c) = {} /\ At(running, c) = {}
<1>1. IsFiniteSet(Of(queue, c)) /\ IsFiniteSet(At(running, c))
  BY OfFinite, AtFinite DEF IInv, PoolType
<1>2. Cardinality(Of(queue, c)) = 0 /\ Cardinality(At(running, c)) = 0
  BY Counts DEF IInv, Counted
<1>. QED  BY <1>1, <1>2, FS_EmptySet

\* ParallelFor never returns while its function runs or may still run.
THEOREM ReturnIsQuiet == Spec => []NothingRunsAfterReturn
<1>1. IInv => NothingRunsAfterReturn
  BY NothingPending DEF IInv, Phase, PhaseOf, NothingRunsAfterReturn, Queued, Running, Of, At
<1>. QED  BY PoolInvariant, <1>1, PTL

\* A nil error: no chunk panicked, and every index is in a chunk that ended.
THEOREM NilErrorMeansDone == Spec => []NilMeansDone
<1>1. IInv => NilMeansDone
  <2>. SUFFICES ASSUME IInv, NEW c \in Callers, result[c] = "ok"
                PROVE  /\ ~panicked[c]
                       /\ \A i \in 0 .. Total(c) - 1 : \E s \in done[c] : s =< i /\ i < s + Grain(c)
    BY DEF NilMeansDone
  <2>1. at[c] = "returned" /\ start[c] >= Total(c) /\ ~panicked[c] /\ pending[c] = 0
    BY DEF IInv, Phase, PhaseOf
  <2>2. start[c] \in Nat /\ Total(c) \in Nat
    BY Counts DEF IInv
  <2>3. Of(queue, c) = {} /\ At(running, c) = {}
    BY <2>1, NothingPending
  <2>4. \A s \in Nat : Placed(c, s) => s \in done[c]
    BY <2>3 DEF Placed, Of, At
  <2>. SUFFICES ASSUME NEW i \in 0 .. Total(c) - 1
                PROVE  \E s \in done[c] : s =< i /\ i < s + Grain(c)
    BY <2>1
  <2>5. i \in 0 .. start[c] - 1
    BY <2>1, <2>2
  <2>6. PICK s \in Nat : s =< i /\ i < s + Grain(c) /\ Placed(c, s)
    BY <2>1, <2>5 DEF IInv, Covered, CoveredOf
  <2>. QED  BY <2>4, <2>6
<1>. QED  BY PoolInvariant, <1>1, PTL
=============================================================================
