---------------------------- MODULE FrameSchedule ----------------------------
(***************************************************************************)
(* The scheduler: phases and systems are registered with a Builder, the    *)
(* compiler packs the systems of each phase into waves and puts a Sync     *)
(* before a wave that queries an archetype a deferred command may have     *)
(* changed, and the executor runs the plan every frame, the systems of a   *)
(* wave as goroutines over the one world.                                  *)
(*                                                                         *)
(* Systems are named by their place in the registration, which is also     *)
(* their order.  Between two frames the world's own operations may happen. *)
(***************************************************************************)
EXTENDS EcsWorld, SequencesExt

CONSTANTS Phases,      \* ids of phases
          Afters,      \* the sets of phases one may be declared to follow
          Definitions, \* what a system may declare, see Definition
          MaxSystems,  \* bound: registered systems
          MaxFrames,   \* bound: frames
          MaxCommands  \* bound: commands a system stages in a frame

VARIABLES phases,   \* b.phases in the order of registration
          systems,  \* the system definitions in the order of registration
          plan,     \* the nodes of the ExecutionPlan
          at,       \* where the program is, see FrameTypeOK
          node,     \* the plan node the executor is at, zero between frames
          active,   \* the systems of the wave whose goroutine has not ended
          buffers,  \* the CommandBuffer of each system
          failed,   \* the systems whose Run failed in this wave
          ran,      \* history: the systems that ended in this frame
          frames    \* frames begun

frameVars == <<phases, systems, plan, at, node, active, buffers, failed, ran, frames>>

vars == <<frameVars, worldVars>>

Definition(d) ==
  /\ DOMAIN d = {"id", "queries", "reads", "writes", "structural", "after", "before"}
  /\ d.structural \subseteq Masks

ASSUME FrameAssumption == \A d \in Definitions : Definition(d)

Init ==
  /\ WorldInit
  /\ phases = <<>> /\ systems = <<>> /\ plan = <<>>
  /\ at = "building"
  /\ node = 0
  /\ active = {}
  /\ buffers = <<>>
  /\ failed = {}
  /\ ran = <<>>
  /\ frames = 0

-----------------------------------------------------------------------------
(* Builder *)

AddPhase(p, after) ==
  /\ at = "building"
  /\ \A i \in 1 .. Len(phases) : phases[i].id # p
  /\ phases' = Append(phases, [id |-> p, after |-> after])
  /\ UNCHANGED <<systems, plan, at, node, active, buffers, failed, ran, frames, worldVars>>

\* AccessSpec.Validate
AccessValid(d) == d.reads \cap d.writes = {} /\ {} \notin d.queries

\* The lookup of the id finds nothing, whatever was registered: AddSystem never
\* stores into b.systems.
AddSystem(p, d) ==
  /\ at = "building"
  /\ \E i \in 1 .. Len(phases) : phases[i].id = p
  /\ AccessValid(d)
  /\ Len(systems) < MaxSystems
  /\ systems' = Append(systems, [phase |-> p, def |-> d])
  /\ UNCHANGED <<phases, plan, at, node, active, buffers, failed, ran, frames, worldVars>>

-----------------------------------------------------------------------------
(* Compile *)

Access(s) == systems[s].def

\* A change of archetype m would be seen by a query of system s.
Queries(s, m) == \E q \in Access(s).queries : q \subseteq m

\* Mutant: a write meets a write only.
WritesMeetWrites(s, t) == Access(s).writes \cap Access(t).writes # {}

WritesMeet(s, t) ==
  \/ Access(s).writes \cap (Access(t).reads \cup Access(t).writes) # {}
  \/ Access(t).writes \cap Access(s).reads # {}

\* Mutant: a command may change what a system of its wave queries.
NoStructuralMeet(s, t) == FALSE

StructuralMeet(s, t) ==
  \/ \E m \in Access(s).structural : Queries(t, m)
  \/ \E m \in Access(t).structural : Queries(s, m)
  \/ Access(s).structural # {} /\ Access(t).structural # {}

SystemsConflict(s, t) == WritesMeet(s, t) \/ StructuralMeet(s, t)

\* sortdPhase: of the phases whose dependencies are placed, the one registered
\* first is next.  A cycle leaves phases out.
SortedPhases ==
  LET place[left \in SUBSET (1 .. Len(phases))] ==
        LET ready == {i \in left : \A j \in left : phases[j].id \notin phases[i].after}
        IN  IF ready = {} THEN <<>>
            ELSE <<phases[Min(ready)].id>> \o place[left \ {Min(ready)}]
  IN  place[1 .. Len(phases)]

PhasesKnown == \A i \in 1 .. Len(phases) : \A p \in phases[i].after :
                 \E j \in 1 .. Len(phases) : phases[j].id = p

Members(p) == {s \in 1 .. Len(systems) : systems[s].phase = p}

Ids(p) == {Access(s).id : s \in Members(p)}

\* The edges "runs before" of a phase, between ids.
Edges(p) ==
  UNION {(Access(s).after \X {Access(s).id}) \cup ({Access(s).id} \X Access(s).before) :
         s \in Members(p)}

\* The systems that are ready in the order of registration, without those that
\* conflict with one before.
Greedy(ready) ==
  LET take(wave, s) ==
        IF s \notin ready \/ \E i \in 1 .. Len(wave) : SystemsConflict(s, wave[i])
        THEN wave ELSE Append(wave, s)
  IN  FoldLeft(take, <<>>, [s \in 1 .. Len(systems) |-> s])

\* Mutant: what a ready system waits for may still be unplaced.
ReadyAnyway(left, edges) == left

Ready(left, edges) == {id \in left : \A e \in edges : e[2] = id => e[1] \notin left}

\* compilePhase.  Of two systems with one id the later is looked up.
Waves(p) ==
  LET local(id) == Max({s \in Members(p) : Access(s).id = id})
      place[left \in SUBSET Ids(p)] ==
        LET ready == {local(id) : id \in Ready(left, Edges(p))}
            wave  == Greedy(ready)
        IN  IF ready = {} THEN <<>>
            ELSE <<wave>> \o place[left \ {Access(wave[i]).id : i \in 1 .. Len(wave)}]
  IN  place[Ids(p)]

\* Every dependency is in the phase and there is no cycle.  Two systems with
\* one id leave the count of remaining systems above zero, which is taken for
\* a cycle as well.
PhaseCompiles(p) ==
  /\ Edges(p) \subseteq Ids(p) \X Ids(p)
  /\ Cardinality(ToSet(FlattenSeq(Waves(p)))) = Cardinality(Members(p))

\* Mutant: the archetypes a wave may change are forgotten.
DirtyAfterNot(wave) == {}

DirtyAfter(wave) == UNION {Access(wave[i]).structural : i \in 1 .. Len(wave)}

SyncNode == [kind |-> "sync", systems |-> <<>>]

\* The nodes of the plan: the waves, a Sync before one that queries what is
\* dirty, and a Sync at the end if something still is.
Nodes ==
  LET add(acc, wave) ==
        LET touched == \E i \in 1 .. Len(wave), m \in acc.dirty : Queries(wave[i], m)
        IN  [nodes |-> acc.nodes \o (IF touched THEN <<SyncNode>> ELSE <<>>)
                                 \o <<[kind |-> "wave", systems |-> wave]>>,
             dirty |-> (IF touched THEN {} ELSE acc.dirty) \cup DirtyAfter(wave)]
      all == FoldLeft(add, [nodes |-> <<>>, dirty |-> {}],
                      FlattenSeq([i \in 1 .. Len(SortedPhases) |-> Waves(SortedPhases[i])]))
  IN  all.nodes \o (IF all.dirty # {} THEN <<SyncNode>> ELSE <<>>)

Compiles ==
  /\ PhasesKnown
  /\ Len(SortedPhases) = Len(phases)
  /\ \A i \in 1 .. Len(phases) : PhaseCompiles(phases[i].id)

Compile ==
  /\ at = "building"
  /\ \/ Compiles /\ plan' = Nodes /\ at' = "ready"
     \/ ~Compiles /\ at' = "refused" /\ UNCHANGED plan
  /\ UNCHANGED <<phases, systems, node, active, buffers, failed, ran, frames, worldVars>>

-----------------------------------------------------------------------------
(* RunFrame.  An error ends the frame, and with it the program. *)

BeginFrame ==
  /\ at = "ready"
  /\ frames < MaxFrames
  /\ frames' = frames + 1
  /\ at' = "node"
  /\ node' = 1
  /\ ran' = <<>>
  /\ UNCHANGED <<phases, systems, plan, active, buffers, failed, worldVars>>

EnterSync ==
  /\ at = "node"
  /\ node \in 1 .. Len(plan)
  /\ plan[node].kind = "sync"
  /\ BeginSync
  /\ at' = "sync"
  /\ UNCHANGED <<phases, systems, plan, node, active, buffers, failed, ran, frames>>

SyncGoesOn ==
  /\ at = "sync"
  /\ ApplyCommand \/ FinishSync
  /\ UNCHANGED frameVars

LeaveSync ==
  /\ at = "sync"
  /\ syncing = 0
  /\ \/ syncError = "none" /\ at' = "node" /\ node' = node + 1
     \/ syncError # "none" /\ at' = syncError /\ UNCHANGED node
  /\ UNCHANGED <<phases, systems, plan, active, buffers, failed, ran, frames, worldVars>>

\* The goroutines of a wave are started, unless a system would query what is
\* dirty although the plan has no Sync before it.
EnterWave ==
  /\ at = "node"
  /\ node \in 1 .. Len(plan)
  /\ plan[node].kind = "wave"
  /\ LET wave == ToSet(plan[node].systems)
     IN  \/ /\ \E s \in wave, m \in dirty : Queries(s, m)
            /\ at' = "mismatch"
            /\ UNCHANGED <<active, buffers, failed>>
         \/ /\ \A s \in wave, m \in dirty : ~Queries(s, m)
            /\ at' = "wave"
            /\ active' = wave
            /\ buffers' = [s \in wave |-> <<>>]
            /\ failed' = {}
  /\ UNCHANGED <<phases, systems, plan, node, ran, frames, worldVars>>

\* System s stages a creation, of whatever archetype.
StageCommand(s, b) ==
  /\ s \in active
  /\ Len(buffers[s]) < MaxCommands
  /\ buffers' = [buffers EXCEPT ![s] = Append(@, b)]
  /\ UNCHANGED <<phases, systems, plan, at, node, active, failed, ran, frames, worldVars>>

\* Run of system s returns; an error and a panic come to the same.
EndRun(s) ==
  /\ s \in active
  /\ active' = active \ {s}
  /\ ran' = Append(ran, s)
  /\ \/ UNCHANGED failed
     \/ failed' = failed \cup {s}
  /\ UNCHANGED <<phases, systems, plan, at, node, buffers, frames, worldVars>>

\* The commands of s affect declared archetypes only.
EffectsDeclared(s) ==
  \A i \in 1 .. Len(buffers[s]) : buffers[s][i].mask \in Access(s).structural

\* The systems of the plan in their order, which commands are sorted by.
PlanOrder == FlattenSeq([n \in 1 .. Len(plan) |-> plan[n].systems])

\* The commands of a wave, by system and by the sequence of each.
Envelopes(wave) ==
  FlattenSeq([i \in 1 .. Len(wave) |->
                [k \in 1 .. Len(buffers[wave[i]]) |->
                   [order    |-> SelectInSeq(PlanOrder, LAMBDA s : s = wave[i]) - 1,
                    sequence |-> k - 1,
                    bundle   |-> buffers[wave[i]][k]]]])

\* Mutant: one is enough.
AnyEnded == active # ToSet(plan[node].systems)

\* wait.Wait() returns.
AllEnded == active = {}

\* All goroutines have ended: their commands are staged.
LeaveWave ==
  /\ at = "wave"
  /\ AllEnded
  /\ LET wave == plan[node].systems
     IN  IF failed # {} \/ \E s \in ToSet(wave) : ~EffectsDeclared(s)
         THEN /\ at' = "system"
              /\ UNCHANGED <<node, buffers, failed, worldVars>>
         ELSE /\ Stage(Envelopes(wave), DirtyAfter(wave))
              /\ at' = "node"
              /\ node' = node + 1
              /\ buffers' = <<>>
              /\ UNCHANGED failed
  /\ UNCHANGED <<phases, systems, plan, active, ran, frames>>

EndFrame ==
  /\ at = "node"
  /\ node = Len(plan) + 1
  /\ \/ queue = <<>> /\ at' = "ready" /\ node' = 0
     \/ queue # <<>> /\ at' = "pending" /\ UNCHANGED node
  /\ UNCHANGED <<phases, systems, plan, active, buffers, failed, ran, frames, worldVars>>

\* The world's own operations, between two frames.
Between ==
  /\ at = "ready"
  /\ \/ \E b \in Bundle : CreateNow(b)
     \/ \E e \in LiveEntities : DestroyNow(e) \/ \E b \in Bundle : MigrateNow(e, b)
  /\ UNCHANGED frameVars

Next ==
  \/ \E p \in Phases, after \in Afters : AddPhase(p, after)
  \/ \E p \in Phases, d \in Definitions : AddSystem(p, d)
  \/ Compile
  \/ BeginFrame \/ EnterSync \/ SyncGoesOn \/ LeaveSync
  \/ EnterWave
  \/ \E s \in active : EndRun(s) \/ \E b \in Bundle \cup {EmptyBundle} : StageCommand(s, b)
  \/ LeaveWave \/ EndFrame
  \/ Between

Spec == Init /\ [][Next]_vars

-----------------------------------------------------------------------------
(* Properties *)

\* Types; goroutines run within a wave and commands are applied within a Sync.
FrameTypeOK ==
  /\ phases \in Seq([id : Phases, after : Afters])
  /\ \A s \in 1 .. Len(systems) : systems[s].phase \in Phases /\ Access(s) \in Definitions
  /\ at \in {"building", "refused", "ready", "node", "sync", "wave",
             "mismatch", "system", "invalid", "commit", "pending"}
  /\ node \in 0 .. Len(plan) + 1
  /\ active \cup failed \subseteq 1 .. Len(systems)
  /\ active # {} => at = "wave"
  /\ syncing > 0 => at = "sync"

\* No two systems that run at the same time touch one component, unless both
\* only read it: goroutines of a wave share the tables without a lock.
NoRaces ==
  \A s, t \in active : s # t =>
    Access(s).writes \cap (Access(t).reads \cup Access(t).writes) = {}

\* The rows a running system sees are settled: no command that is staged and
\* not applied, in the world or in the buffer of another running system,
\* creates an entity of an archetype the system queries.
QueriesSettled ==
  \A s \in active :
    /\ \A k \in 1 .. Len(queue) : ~Queries(s, queue[k].bundle.mask)
    /\ \A t \in DOMAIN buffers \ {s} : \A k \in 1 .. Len(buffers[t]) :
         buffers[t][k].mask \in Access(t).structural => ~Queries(s, buffers[t][k].mask)

\* What system s has to wait for: the systems of the phases before its own,
\* and those of its phase it comes after.
WaitsFor(s) ==
  {t \in 1 .. Len(systems) :
     \/ \E i \in 1 .. Len(phases) :
          phases[i].id = systems[s].phase /\ systems[t].phase \in phases[i].after
     \/ /\ systems[s].phase = systems[t].phase
        /\ Access(t).id \in Access(s).after \/ Access(s).id \in Access(t).before}

\* A system runs once in a frame, after all it waits for has ended, and a
\* frame that ends has run every system.
RunsInOrder ==
  /\ \A s \in active : WaitsFor(s) \subseteq ToSet(ran) /\ s \notin ToSet(ran)
  /\ at = "node" /\ node = Len(plan) + 1 => ToSet(ran) = 1 .. Len(systems)
  /\ IsInjective(ran)

\* The plan the compiler made is one the executor can follow: a frame never
\* ends with "plan/runtime mismatch" or with "pending commands", and a frame
\* that ends well leaves nothing dirty behind for the next.
PlanHolds ==
  /\ at \notin {"mismatch", "pending"}
  /\ at = "ready" => queue = <<>> /\ dirty = {}
=============================================================================
