------------------------------- MODULE EcsWorld -------------------------------
(***************************************************************************)
(* The ECS world (engine/core): entities live as rows of one table per     *)
(* archetype, a handle <<index, generation>> finds its row through         *)
(* locations, and a destroyed index is used again under its next           *)
(* generation.  Structural commands are staged and applied later, in Sync. *)
(*                                                                         *)
(* An archetype mask is the set of its components.  Of a row's data only   *)
(* the profile of a bot is kept, since the world itself looks at no other. *)
(* Rows and indices count from one: the code never gives out index zero.   *)
(***************************************************************************)
EXTENDS Naturals, Sequences, FiniteSets

CONSTANTS Bot,           \* the component CBot
          Masks,         \* the archetypes entities may have
          Profiles,      \* Minecraft profile ids
          NoProfile,     \* the profile of what is no bot
          MaxIndex,      \* bound: entity indices in use
          MaxGeneration, \* bound: how often an index is used (uint32 in the code)
          Batches        \* the commands Stage may be handed at once

ASSUME WorldAssumption ==
  /\ {} \notin Masks
  /\ NoProfile \notin Profiles
  /\ MaxIndex \in Nat /\ MaxGeneration \in Nat \ {0}

VARIABLES tables,      \* w.tables: the rows of each archetype
          locations,   \* w.locations
          generations, \* w.generations
          free,        \* w.free, the indices to use again, last one first
          botIndex,    \* w.botIndex, Nobody where the map has no entry
          queue,       \* w.queue
          dirty,       \* w.dirty
          syncing,     \* in Sync, the command to apply next; zero outside Sync
          syncError    \* what the last Sync returned

storage == <<tables, locations, generations, free, botIndex>>

staging == <<queue, dirty, syncing, syncError>>

worldVars == <<tables, locations, generations, free, botIndex, queue, dirty, syncing, syncError>>

Entity == [index : Nat, generation : Nat]

Nobody == [index |-> 0, generation |-> 0]

Bundle == {b \in [mask : Masks, profile : Profiles \cup {NoProfile}] :
             b.profile = NoProfile <=> Bot \notin b.mask}

\* A bundle without components, which Validate refuses.
EmptyBundle == [mask |-> {}, profile |-> NoProfile]

Valid(b) == b # EmptyBundle

Envelop == [order : Nat, sequence : Nat, bundle : Bundle \cup {EmptyBundle}]

ASSUME BatchesAssumption == Batches \subseteq Seq(Envelop)

WorldInit ==
  /\ tables = [m \in Masks |-> <<>>]
  /\ locations = <<>>
  /\ generations = <<>>
  /\ free = <<>>
  /\ botIndex = [p \in Profiles |-> Nobody]
  /\ queue = <<>>
  /\ dirty = {}
  /\ syncing = 0
  /\ syncError = "none"

-----------------------------------------------------------------------------
(* Handles, rows and locations *)

Resolves(e) ==
  /\ e.index \in 1 .. Len(locations)
  /\ locations[e.index].alive
  /\ locations[e.index].generation = e.generation

\* Every handle that resolves.
LiveEntities ==
  {e \in {[index |-> i, generation |-> locations[i].generation] : i \in 1 .. Len(locations)} :
     Resolves(e)}

MayAllocate == free # <<>> \/ Len(generations) < MaxIndex

\* The entity allocateEntity returns.
NextEntity ==
  IF free # <<>>
  THEN [index |-> free[Len(free)], generation |-> generations[free[Len(free)]]]
  ELSE [index |-> Len(generations) + 1, generation |-> 1]

Located(m, row, g) == [alive |-> TRUE, mask |-> m, row |-> row, generation |-> g]

Dead(g) == [alive |-> FALSE, mask |-> {}, row |-> 0, generation |-> g]

\* Table t without a row: its last row takes the place.
RemoveSwap(t, row) == [i \in 1 .. Len(t) - 1 |-> IF i = row THEN t[Len(t)] ELSE t[i]]

\* Mutant: the moved entity keeps its old row.
RelocateNone(t, row) == locations

\* The locations after a row of t is removed: the entity that was moved is
\* found in its new row.
Relocate(t, row) ==
  IF row = Len(t) THEN locations ELSE [locations EXCEPT ![t[Len(t)].entity.index].row = row]

-----------------------------------------------------------------------------
(* createNow, destroyNow, migrateNow *)

\* Mutant: the index keeps its generation.
GenerationKept(g) == g

\* The bot index once the bot of profile p is gone.
Unmapped(p) == [q \in Profiles |-> IF q = p THEN Nobody ELSE botIndex[q]]

NextGeneration(g) == g + 1

\* The rest of createNow, after its checks.
Insert(b) ==
  LET e   == NextEntity
      loc == Located(b.mask, Len(tables[b.mask]) + 1, e.generation)
  IN  /\ tables' = [tables EXCEPT ![b.mask] = Append(@, [entity |-> e, profile |-> b.profile])]
      /\ botIndex' = [q \in Profiles |-> IF q = b.profile THEN e ELSE botIndex[q]]
      /\ \/ /\ free # <<>>
            /\ free' = [i \in 1 .. Len(free) - 1 |-> free[i]]
            /\ locations' = [locations EXCEPT ![e.index] = loc]
            /\ UNCHANGED generations
         \/ /\ free = <<>>
            /\ locations' = Append(locations, loc)
            /\ generations' = Append(generations, 1)
            /\ UNCHANGED free

\* createNow refuses an invalid bundle and a profile that is mapped.
Accepts(b) == Valid(b) /\ (Bot \in b.mask => botIndex[b.profile] = Nobody)

CreateNow(b) ==
  /\ syncing = 0
  /\ Accepts(b)
  /\ MayAllocate
  /\ Insert(b)
  /\ UNCHANGED staging

DestroyNow(e) ==
  LET loc == locations[e.index]
      t   == tables[loc.mask]
      g   == NextGeneration(loc.generation)
  IN  /\ syncing = 0
      /\ Resolves(e)
      /\ e.generation < MaxGeneration
      /\ tables' = [tables EXCEPT ![loc.mask] = RemoveSwap(t, loc.row)]
      /\ botIndex' = Unmapped(t[loc.row].profile)
      /\ generations' = [generations EXCEPT ![e.index] = g]
      /\ locations' = [Relocate(t, loc.row) EXCEPT ![e.index] = Dead(g)]
      /\ free' = Append(free, e.index)
      /\ UNCHANGED staging

\* migrateNow does not look whether another entity has the profile of the
\* destination: that is left to its caller.
MayMigrate(e, b) ==
  /\ Resolves(e)
  /\ Valid(b)
  /\ b.profile # NoProfile => botIndex[b.profile] \in {Nobody, e}

MigrateNow(e, b) ==
  LET loc  == locations[e.index]
      t    == tables[loc.mask]
      left == [tables EXCEPT ![loc.mask] = RemoveSwap(t, loc.row)]
  IN  /\ syncing = 0
      /\ MayMigrate(e, b)
      /\ tables' = [left EXCEPT ![b.mask] = Append(@, [entity |-> e, profile |-> b.profile])]
      /\ botIndex' = [q \in Profiles |->
                        IF q = b.profile THEN e ELSE Unmapped(t[loc.row].profile)[q]]
      /\ locations' = [Relocate(t, loc.row) EXCEPT
                         ![e.index] = Located(b.mask, Len(left[b.mask]) + 1, e.generation)]
      /\ UNCHANGED <<generations, free>>
      /\ UNCHANGED staging

-----------------------------------------------------------------------------
(* Stage and Sync *)

Stage(envelops, masks) ==
  /\ syncing = 0
  /\ queue' = queue \o envelops
  /\ dirty' = dirty \cup masks
  /\ UNCHANGED <<syncing, syncError>>
  /\ UNCHANGED storage

Before(a, b) == a.order < b.order \/ (a.order = b.order /\ a.sequence < b.sequence)

\* The order slices.SortStableFunc brings q into: position i gets command p[i].
StableOrders(q) ==
  {p \in [1 .. Len(q) -> 1 .. Len(q)] :
     \A i, j \in 1 .. Len(q) : i < j =>
       /\ p[i] # p[j]
       /\ Before(q[p[i]], q[p[j]]) \/ (~Before(q[p[j]], q[p[i]]) /\ p[i] < p[j])}

\* Mutant: two commands of a batch are not compared.
ValidAlone(q) == \A k \in 1 .. Len(q) : Accepts(q[k].bundle)

\* Every command of the batch passes validate, which knows the profiles the
\* commands before it reserve.
ValidBatch(q) ==
  \A k \in 1 .. Len(q) :
    /\ Accepts(q[k].bundle)
    /\ Bot \in q[k].bundle.mask =>
         \A j \in 1 .. k - 1 : q[j].bundle.profile # q[k].bundle.profile

\* Sync sorts the queue and validates it against the world and a shadow; a
\* queue that does not pass stays, and so does the dirty set.
BeginSync ==
  /\ syncing = 0
  /\ \/ /\ queue = <<>>
        /\ dirty' = {}
        /\ syncError' = "none"
        /\ UNCHANGED <<queue, syncing>>
     \/ /\ queue # <<>>
        /\ \E p \in StableOrders(queue) : queue' = [i \in 1 .. Len(queue) |-> queue[p[i]]]
        /\ \/ ValidBatch(queue') /\ syncing' = 1 /\ syncError' = "none"
           \/ ~ValidBatch(queue') /\ syncing' = 0 /\ syncError' = "invalid"
        /\ UNCHANGED dirty
  /\ UNCHANGED storage

\* The next validated command is applied.  A command that cannot be is the
\* commit invariant the code reports; Sync then leaves the rest undone.
ApplyCommand ==
  /\ syncing \in 1 .. Len(queue)
  /\ MayAllocate
  /\ LET b == queue[syncing].bundle
     IN  \/ /\ Accepts(b)
            /\ Insert(b)
            /\ syncing' = syncing + 1
            /\ UNCHANGED syncError
         \/ /\ ~Accepts(b)
            /\ syncing' = 0
            /\ syncError' = "commit"
            /\ UNCHANGED storage
  /\ UNCHANGED <<queue, dirty>>

FinishSync ==
  /\ syncing = Len(queue) + 1
  /\ queue' = <<>>
  /\ dirty' = {}
  /\ syncing' = 0
  /\ UNCHANGED syncError
  /\ UNCHANGED storage

WorldNext ==
  \/ \E b \in Bundle : CreateNow(b)
  \/ \E e \in LiveEntities : DestroyNow(e) \/ \E b \in Bundle : MigrateNow(e, b)
  \/ \E envelops \in Batches, masks \in SUBSET Masks : Stage(envelops, masks)
  \/ BeginSync
  \/ ApplyCommand
  \/ FinishSync

WorldSpec == WorldInit /\ [][WorldNext]_worldVars
-----------------------------------------------------------------------------
(* Properties *)

Location == [alive : BOOLEAN, mask : Masks \cup {{}}, row : Nat, generation : Nat]

Row == [entity : Entity, profile : Profiles \cup {NoProfile}]

WorldTypeOK ==
  /\ tables \in [Masks -> Seq(Row)]
  /\ locations \in Seq(Location)
  /\ generations \in Seq(Nat)
  /\ free \in Seq(Nat)
  /\ botIndex \in [Profiles -> Entity]
  /\ queue \in Seq(Envelop)
  /\ dirty \subseteq Masks
  /\ syncing \in 0 .. Len(queue) + 1
  /\ syncError \in {"none", "invalid", "commit"}

\* Every row is where the location of its entity says.
RowsLocated ==
  \A m \in Masks : \A r \in 1 .. Len(tables[m]) :
    LET e == tables[m][r].entity
    IN  /\ e.index \in 1 .. Len(locations)
        /\ locations[e.index] = Located(m, r, e.generation)
        /\ tables[m][r].profile = NoProfile <=> Bot \notin m

\* Every location of a live entity is that of its row.
LocationsFilled ==
  \A i \in 1 .. Len(locations) : locations[i].alive =>
    LET l == locations[i]
    IN  /\ l.mask \in Masks
        /\ l.row \in 1 .. Len(tables[l.mask])
        /\ tables[l.mask][l.row].entity = [index |-> i, generation |-> l.generation]

\* An index that is free is of no live entity, and is free once only.
IndicesFree ==
  /\ Len(generations) = Len(locations)
  /\ \A i \in 1 .. Len(locations) : locations[i].generation = generations[i]
  /\ \A i \in 1 .. Len(free) : free[i] \in 1 .. Len(locations) /\ ~locations[free[i]].alive
  /\ \A i, j \in 1 .. Len(free) : free[i] = free[j] => i = j

\* A profile is mapped to its bot, and a bot is mapped.
BotsIndexed ==
  \A p \in Profiles :
    /\ botIndex[p] # Nobody =>
         /\ Resolves(botIndex[p])
         /\ LET l == locations[botIndex[p].index] IN tables[l.mask][l.row].profile = p
    /\ \A m \in Masks : \A r \in 1 .. Len(tables[m]) :
         tables[m][r].profile = p => botIndex[p] = tables[m][r].entity

\* What is left of a validated batch can be applied.
BatchFits ==
  syncing > 0 => \A k \in syncing .. Len(queue) :
    /\ Accepts(queue[k].bundle)
    /\ Bot \in queue[k].bundle.mask =>
         \A j \in syncing .. k - 1 : queue[j].bundle.profile # queue[k].bundle.profile

\* The world is sound: rows, locations, free indices and profiles agree, after
\* any sequence of creations, removals that move rows, and migrations.
WorldInv ==
  /\ WorldTypeOK
  /\ RowsLocated
  /\ LocationsFilled
  /\ IndicesFree
  /\ BotsIndexed
  /\ BatchFits

\* A batch is applied as a whole or not at all: what Sync has validated it can
\* apply, the error "sync commit invariant failed" is never returned.
CommitNeverFails == syncError # "commit"

Issued ==
  UNION {{[index |-> i, generation |-> g] :
            g \in 1 .. IF locations[i].alive THEN generations[i] ELSE generations[i] - 1} :
         i \in 1 .. Len(locations)}

\* The bundle of a live entity, as World.bundle reads it.
BundleOf(e) ==
  LET l == locations[e.index] IN [mask |-> l.mask, profile |-> tables[l.mask][l.row].profile]

Store == INSTANCE EntityStore WITH
  Handles   <- [index : 1 .. MaxIndex, generation : 1 .. MaxGeneration],
  Bundles   <- Bundle,
  entities  <- [e \in LiveEntities |-> BundleOf(e)],
  issued    <- Issued

\* Rows and generations implement a map from handles to bundles: no operation
\* touches another entity, and the handle of a destroyed one never resolves
\* again.
ImplementsStore == Store!Spec
=============================================================================
