------------------------------ MODULE WorkerPool ------------------------------
(***************************************************************************)
(* The scheduler's WorkerPool: callers of ParallelFor cut their loop into  *)
(* chunks and send them through one bounded channel to the workers, while  *)
(* the context may be cancelled and the pool closed at any moment.         *)
(*                                                                         *)
(* Where Go's select has several ready cases it takes any of them, so each *)
(* case is an action of its own.                                           *)
(***************************************************************************)
EXTENDS Integers, Sequences, FiniteSets

CONSTANTS Workers,        \* the goroutines of the pool
          Callers,        \* goroutines that call ParallelFor, once each
          Loops,          \* the <<total, grain>> they may call it with
          QueueCapacity   \* what NewWorkerPool is asked for

ASSUME PoolAssumption ==
  /\ IsFiniteSet(Workers)
  /\ Loops \subseteq Int \X Int
  /\ QueueCapacity \in Int

VARIABLES queue,     \* p.jobs
          stopped,   \* p.stop is closed
          cancelled, \* the context of the callers is done
          closer,    \* where the goroutine that calls Close is
          at,        \* where each caller is in ParallelFor
          loop,      \* its total and grain
          start,     \* its loop variable
          pending,   \* the counter of its jobGroup's WaitGroup
          failed,    \* its jobGroup has recorded a panic
          result,    \* what ParallelFor returned
          running,   \* the jobs the workers are at, each with its worker
          ended,     \* those whose function, and the deferred recover, have run
          gone,      \* the workers that have returned
          done,      \* history: the chunks of each caller that ran to their end
          panicked   \* history: a chunk of the caller panicked

vars == <<queue, stopped, cancelled, closer, at, loop, start, pending, failed, result,
          running, ended, gone, done, panicked>>

Job == [caller : Callers, start : Nat]

Idle(w) == w \notin gone /\ \A r \in running : r.worker # w

\* The capacity NewWorkerPool gives the channel.
Capacity ==
  LET asked == IF QueueCapacity =< 0 THEN 16 ELSE QueueCapacity
      n     == Cardinality(Workers)
  IN  IF asked < n THEN n ELSE asked

GrainOf(l) == IF l[2] =< 0 THEN 256 ELSE l[2]

Total(c) == loop[c][1]

Grain(c) == loop[c][2]

\* Mutant: the short chunk at the end is not counted.
ChunksDown(n, grain) == n \div grain

\* The number of chunks n indices are cut into, the last one possibly shorter.
Chunks(n, grain) == (n + grain - 1) \div grain

Init ==
  /\ queue = <<>>
  /\ stopped = FALSE /\ cancelled = FALSE /\ closer = "open"
  /\ at = [c \in Callers |-> "idle"]
  /\ loop = [c \in Callers |-> <<0, 1>>]
  /\ start = [c \in Callers |-> 0]
  /\ pending = [c \in Callers |-> 0]
  /\ failed = [c \in Callers |-> FALSE]
  /\ result = [c \in Callers |-> "none"]
  /\ running = {} /\ ended = {}
  /\ gone = {}
  /\ done = [c \in Callers |-> {}]
  /\ panicked = [c \in Callers |-> FALSE]

-----------------------------------------------------------------------------
(* ParallelFor *)

Call(c) ==
  /\ at[c] = "idle"
  /\ \E l \in Loops :
       IF l[1] =< 0
       THEN /\ at' = [at EXCEPT ![c] = "returned"]
            /\ result' = [result EXCEPT ![c] = "ok"]
            /\ UNCHANGED <<loop, pending>>
       ELSE /\ at' = [at EXCEPT ![c] = "sending"]
            /\ loop' = [loop EXCEPT ![c] = <<l[1], GrainOf(l)>>]
            /\ pending' = [pending EXCEPT ![c] = Chunks(l[1], GrainOf(l))]
            /\ UNCHANGED result
  /\ UNCHANGED <<queue, stopped, cancelled, closer, start, failed, running, ended, gone,
                 done, panicked>>

\* The channel takes a chunk; after the last one the caller waits.
Send(c) ==
  /\ at[c] = "sending"
  /\ Len(queue) < Capacity
  /\ queue' = Append(queue, [caller |-> c, start |-> start[c]])
  /\ start' = [start EXCEPT ![c] = @ + Grain(c)]
  /\ at' = [at EXCEPT ![c] = IF start'[c] < Total(c) THEN "sending" ELSE "waiting"]
  /\ UNCHANGED <<stopped, cancelled, closer, loop, pending, failed, result, running,
                 ended, gone, done, panicked>>

\* Mutant: what was not sent stays on the counter.
RemainingForgotten(c) == 0

Remaining(c) == Chunks(Total(c) - start[c], Grain(c))

\* The context is done or the pool is closed: what was not sent is taken off
\* the counter, and the caller waits for what was.
GiveUp(c) ==
  /\ at[c] = "sending"
  /\ \/ cancelled /\ at' = [at EXCEPT ![c] = "cancelled"]
     \/ stopped /\ at' = [at EXCEPT ![c] = "refused"]
  /\ pending' = [pending EXCEPT ![c] = @ - Remaining(c)]
  /\ UNCHANGED <<queue, stopped, cancelled, closer, loop, start, failed, result,
                 running, ended, gone, done, panicked>>

\* Mutant: a caller that gave up does not wait.
AllDoneUnlessGivenUp(c) == at[c] \in {"cancelled", "refused"} \/ pending[c] = 0

\* group.wg.Wait() returns.
AllDone(c) == pending[c] = 0

Return(c) ==
  /\ at[c] \in {"waiting", "cancelled", "refused"}
  /\ AllDone(c)
  /\ at' = [at EXCEPT ![c] = "returned"]
  /\ result' = [result EXCEPT ![c] =
                  CASE at[c] = "cancelled" -> "cancelled"
                    [] at[c] = "refused"   -> "closed"
                    [] failed[c]           -> "panic"
                    [] OTHER               -> "ok"]
  /\ UNCHANGED <<queue, stopped, cancelled, closer, loop, start, pending, failed,
                 running, ended, gone, done, panicked>>

-----------------------------------------------------------------------------
(* The workers *)

Take(w) ==
  /\ Idle(w)
  /\ queue # <<>>
  /\ running' = running \cup {[worker |-> w, caller |-> Head(queue).caller,
                               start |-> Head(queue).start]}
  /\ queue' = Tail(queue)
  /\ UNCHANGED <<ended, gone, stopped, cancelled, closer, at, loop, start, pending,
                 failed, result, done, panicked>>

\* The function returns, or it panics and the deferred recover records it.
End(r) ==
  /\ r \notin ended
  /\ ended' = ended \cup {r}
  /\ \/ /\ done' = [done EXCEPT ![r.caller] = @ \cup {r.start}]
        /\ UNCHANGED <<failed, panicked>>
     \/ /\ failed' = [failed EXCEPT ![r.caller] = TRUE]
        /\ panicked' = [panicked EXCEPT ![r.caller] = TRUE]
        /\ UNCHANGED done
  /\ UNCHANGED <<running, gone, queue, stopped, cancelled, closer, at, loop, start,
                 pending, result>>

\* Mutant: Done is deferred last, and so runs before the recover.
RecordedOrNot(r) == TRUE

\* Done is deferred first, and so runs after the recover.
Recorded(r) == r \in ended

\* The deferred Done.
CountDown(r) ==
  /\ Recorded(r)
  /\ pending' = [pending EXCEPT ![r.caller] = @ - 1]
  /\ running' = running \ {r}
  /\ ended' = ended \ {r}
  /\ UNCHANGED <<gone, queue, stopped, cancelled, closer, at, loop, start, failed,
                 result, done, panicked>>

\* A worker between jobs may see the stop channel before a job in the queue.
Stop(w) ==
  /\ Idle(w)
  /\ stopped
  /\ gone' = gone \cup {w}
  /\ UNCHANGED <<running, ended, queue, stopped, cancelled, closer, at, loop, start,
                 pending, failed, result, done, panicked>>

-----------------------------------------------------------------------------
(* Close, and the context *)

\* Mutant: Close waits for the channel to drain as well.
WorkersGoneAndDrained == gone = Workers /\ queue = <<>>

\* p.wg.Wait() returns.
WorkersGone == gone = Workers

Close ==
  /\ closer = "open"
  /\ closer' = "closing"
  /\ stopped' = TRUE
  /\ UNCHANGED <<queue, cancelled, at, loop, start, pending, failed, result, running,
                 ended, gone, done, panicked>>

Closed ==
  /\ closer = "closing"
  /\ WorkersGone
  /\ closer' = "closed"
  /\ UNCHANGED <<queue, stopped, cancelled, at, loop, start, pending, failed, result,
                 running, ended, gone, done, panicked>>

Cancel ==
  /\ ~cancelled
  /\ cancelled' = TRUE
  /\ UNCHANGED <<queue, stopped, closer, at, loop, start, pending, failed, result,
                 running, ended, gone, done, panicked>>

Next ==
  \/ \E c \in Callers : Call(c) \/ Send(c) \/ GiveUp(c) \/ Return(c)
  \/ \E w \in Workers : Take(w) \/ Stop(w)
  \/ \E r \in running : End(r) \/ CountDown(r)
  \/ Close
  \/ Closed
  \/ Cancel

Spec == Init /\ [][Next]_vars

\* Goroutines run, and the function of a chunk ends: the selects of a caller
\* and of a worker take a case that stays ready, but no case in particular.
Fairness ==
  /\ \A c \in Callers : WF_vars(Send(c) \/ GiveUp(c)) /\ WF_vars(Return(c))
  /\ \A w \in Workers : WF_vars(Take(w) \/ Stop(w))
  /\ WF_vars(\E r \in running : End(r) \/ CountDown(r))
  /\ WF_vars(Closed)

FairSpec == Spec /\ Fairness

-----------------------------------------------------------------------------
(* Properties *)

\* Types.  A pending outside Nat is the panic of a negative WaitGroup counter.
PoolTypeOK ==
  /\ queue \in Seq(Job) /\ Len(queue) =< Capacity
  /\ stopped \in BOOLEAN /\ cancelled \in BOOLEAN
  /\ closer \in {"open", "closing", "closed"}
  /\ at \in [Callers -> {"idle", "sending", "waiting", "cancelled", "refused", "returned"}]
  /\ loop \in [Callers -> Nat \X (Nat \ {0})]
  /\ start \in [Callers -> Nat]
  /\ pending \in [Callers -> Nat]
  /\ failed \in [Callers -> BOOLEAN]
  /\ result \in [Callers -> {"none", "ok", "panic", "cancelled", "closed"}]
  /\ running \subseteq [worker : Workers, caller : Callers, start : Nat] /\ ended \subseteq running
  /\ gone \subseteq Workers
  /\ done \in [Callers -> SUBSET Nat]
  /\ panicked \in [Callers -> BOOLEAN]

\* The chunks of caller c that are still to be sent, that wait in the channel
\* and that run.
Unsent(c) ==
  IF at[c] = "sending"
  THEN {i \in start[c] .. Total(c) - 1 : (i - start[c]) % Grain(c) = 0}
  ELSE {}

Queued(c) == {i \in 1 .. Len(queue) : queue[i].caller = c}

Running(c) == {r \in running : r.caller = c}

\* The counter is exact.  One too few and ParallelFor returns while its
\* function runs; one too many and it never returns.
CounterExact ==
  \A c \in Callers :
    pending[c] = Cardinality(Unsent(c)) + Cardinality(Queued(c)) + Cardinality(Running(c))

\* ParallelFor does not return before the last chunk it sent has ended: its
\* function never runs over data the caller has gone on to use.
NothingRunsAfterReturn ==
  \A c \in Callers : at[c] = "returned" => Queued(c) = {} /\ Running(c) = {}

\* A nil error means that every chunk ran to its end, and a panic is told.
NilMeansDone ==
  \A c \in Callers : result[c] = "ok" =>
    /\ ~panicked[c]
    /\ \A i \in 0 .. Total(c) - 1 : \E s \in done[c] : s =< i /\ i < s + Grain(c)

\* A call of a pool with workers returns if the pool is not closed under it.
CallsReturn ==
  \A c \in Callers : at[c] = "sending" ~> at[c] = "returned" \/ stopped

\* Close returns, whatever is left in the channel.
CloseReturns == closer = "closing" ~> closer = "closed"

\* After Close, ParallelFor answers with an error ("expected error after pool
\* closed"): a call never waits for a pool that has no workers left.
ClosedPoolRefuses ==
  \A c \in Callers : at[c] = "sending" /\ closer = "closed" ~> at[c] = "returned"
=============================================================================
