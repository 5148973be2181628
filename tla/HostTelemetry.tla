---------------------------- MODULE HostTelemetry ----------------------------
(***************************************************************************)
(* What the adapter of the Node host tells the engine about one bot, and   *)
(* what it holds back: chunk events go out at once, entity changes in a    *)
(* batch each 200 ms, inventory changes at the end of the task that made   *)
(* them, motion at most each 250 ms.                                       *)
(*                                                                         *)
(* game, area, entities, place, inventory and held are Mineflayer's own    *)
(* picture of the server, which the handlers read.  A block is one of a    *)
(* column, an entity its place: of the data the properties tell no more    *)
(* apart.  Each action is one task of Node's event loop.                   *)
(*                                                                         *)
(* A kicked bot is dropped before it ends.  Its chunk and entity handlers  *)
(* see that they are no longer the adapter's; its motion and inventory     *)
(* handlers do not look, and report until its end, even beside the next    *)
(* bot.  A bot that is dropped while joining is taken not to spawn.        *)
(***************************************************************************)
EXTENDS Naturals, SequencesExt

CONSTANTS Chunks,      \* chunk positions
          Geometries,  \* the pairs of minY and height of the dimensions
          Within,      \* the blocks a column of each geometry has
          Blocks,      \* the blocks of a column, at any height
          States,      \* block states
          Ids,         \* entity ids
          Places,      \* positions of the bot and of entities
          Origin,      \* the position with no coordinates set
          Slots,       \* inventory slots
          Items,       \* what a slot may hold
          Hotbar,      \* the slots a bot can select
          None,        \* no column, no entity, no item, no motion yet
          Unreadable,  \* a payload DecodeColumn rejects
          BlockBatches,\* records of one multi_block_change
          SlotBatches, \* slot updates of one task
          MaxSessions, \* bound: connects
          Budgets,     \* bound: how often the server acts in each stream
          MaxEvents    \* bound: observations on their way to the engine

Streams == {"terrain", "creatures", "bag", "motion"}

Column(g) == [Within[g] -> States]

ASSUME TelemetryAssumption ==
  /\ Within \in [Geometries -> SUBSET Blocks]
  /\ 0 \in Hotbar
  /\ None \notin Geometries \cup Places \cup {Unreadable}
  /\ \A g \in Geometries : {None, Unreadable} \cap Column(g) = {}
  /\ BlockBatches \subseteq Seq([chunk : Chunks, block : Blocks, state : States])
  /\ SlotBatches \subseteq Seq([slot : Slots, item : Items \cup {None}])
  /\ Budgets \subseteq [Streams -> Nat]
  /\ MaxSessions \in Nat /\ MaxEvents \in Nat

VARIABLES online,      \* "no", "joining" or "spawned"
          fading,      \* a bot that was dropped has not ended
          game,        \* the geometry of the dimension the bot is in, or was last
          area,        \* its columns; Unreadable where the payload was
          visited,     \* history: geometries the bot has been in before
          entities,    \* the place of every entity in sight
          spawnedAt,   \* history: where each of them came into sight
          pending,     \* #pendingEntities
          flushing,    \* #entityFlushTimer is set
          overtaken,   \* history: entities whose pending move is older than
                       \* their arrival
          place,       \* bot.entity.position
          lastMotion,  \* #lastMotion
          rested,      \* 250 ms have passed since #lastMotionEmittedAtMs
          inventory, held,     \* bot.inventory.slots and bot.quickBarSlot
          strayed,     \* history: the last word on them was a dropped bot's
          events,      \* the observations the engine has not applied yet
          sessions,    \* connects so far
          left         \* what is left of the budget of this behavior

terrain == <<game, area, visited>>

creatures == <<entities, spawnedAt, pending, flushing, overtaken>>

motion == <<place, lastMotion, rested>>

bag == <<inventory, held, strayed>>

host == <<online, fading, game, area, visited,
          entities, spawnedAt, pending, flushing, overtaken,
          place, lastMotion, rested, inventory, held, strayed,
          events, sessions, left>>

NoArea == [c \in Chunks |-> None]

NoEntities == [i \in Ids |-> None]

NothingPending == [added |-> NoEntities, removed |-> {}, moved |-> NoEntities]

EmptyInventory == [s \in Slots |-> None]

Motion == [dimension : Geometries, place : Places]

HostTypeOK ==
  /\ online \in {"no", "joining", "spawned"}
  /\ game \in Geometries \cup {None} /\ visited \subseteq Geometries
  /\ area = NoArea \/ area \in [Chunks -> Column(game) \cup {None, Unreadable}]
  /\ {entities, spawnedAt} \subseteq [Ids -> Places \cup {None}]
  /\ pending \in [added : [Ids -> Places \cup {None}], removed : SUBSET Ids,
                  moved : [Ids -> Places \cup {None}]]
  /\ {fading, flushing, rested, strayed} \subseteq BOOLEAN
  /\ overtaken \subseteq Ids
  /\ place \in Places \cup {Origin} /\ lastMotion \in Motion \cup {None}
  /\ inventory \in [Slots -> Items \cup {None}] /\ held \in Hotbar
  /\ Len(events) =< MaxEvents
  /\ sessions \in 0 .. MaxSessions /\ left \in [Streams -> Nat]

HostInit ==
  /\ online = "no" /\ fading = FALSE
  /\ game = None /\ area = NoArea /\ visited = {}
  /\ entities = NoEntities /\ spawnedAt = NoEntities
  /\ pending = NothingPending /\ flushing = FALSE
  /\ overtaken = {}
  /\ place = Origin /\ lastMotion = None /\ rested = TRUE
  /\ inventory = EmptyInventory /\ held = 0 /\ strayed = FALSE
  /\ events = <<>> /\ sessions = 0 /\ left \in Budgets

Emit(observations) ==
  /\ Len(events) + Len(observations) =< MaxEvents
  /\ events' = events \o observations

\* Something that concerns one stream happens to a bot.
Happens(stream) ==
  /\ left[stream] > 0
  /\ left' = [left EXCEPT ![stream] = @ - 1]
  /\ UNCHANGED <<online, fading, sessions>>

\* The server sends the adapter's bot something.
ServerActs(stream) == online # "no" /\ Happens(stream)

\* A bot that the adapter has dropped goes on.
OldBotActs(stream) == fading /\ Happens(stream)

---------------------------------------------------------------------------
(* Sessions *)

\* connect() makes a new Mineflayer bot, in a dimension of any geometry.
\* What the adapter holds back is not reset, nor the timer: a retry that was
\* scheduled at an error may find them set.
Join ==
  /\ online = "no"
  /\ sessions < MaxSessions
  /\ sessions' = sessions + 1
  /\ online' = "joining"
  /\ game' \in Geometries
  /\ visited' = (visited \cup {game}) \ {None}
  /\ UNCHANGED <<fading, area, left, events, creatures, motion, bag>>

SnapshotOf(p, slots, h) == [kind |-> "snapshot", place |-> p, slots |-> slots, held |-> h]

\* "spawned" carries no state, and the engine takes it for a snapshot.
Spawned == SnapshotOf(Origin, <<>>, 0)

\* The once("spawn") handler.  The server may have moved the bot before.
Spawn ==
  /\ online = "joining"
  /\ online' = "spawned"
  /\ place' \in IF place = Origin THEN Places ELSE {place}
  /\ lastMotion' = None
  /\ rested' = TRUE
  /\ strayed' = FALSE
  /\ Emit(<<Spawned, SnapshotOf(place', inventory, held)>>)
  /\ UNCHANGED <<fading, sessions, left, terrain, creatures, inventory, held>>

\* Mineflayer's picture goes with the bot.
Leave ==
  /\ online' = "no"
  /\ area' = NoArea
  /\ entities' = NoEntities /\ spawnedAt' = NoEntities /\ overtaken' = {}
  /\ place' = Origin
  /\ inventory' = EmptyInventory /\ held' = 0
  /\ UNCHANGED <<game, visited, sessions, left>>

\* kicked, or the end of this bot or of one dropped before, for which this
\* one is dropped: no handler touches the telemetry's fields.
Lost ==
  /\ online # "no"
  /\ Leave
  /\ fading' \in {fading, TRUE}
  /\ UNCHANGED <<pending, flushing, lastMotion, rested, strayed, events>>

\* The last of the dropped bots ends, while the adapter has no other.
OldBotEnds ==
  /\ online = "no"
  /\ fading
  /\ fading' = FALSE
  /\ UNCHANGED <<online, sessions, left, events, terrain, creatures, motion, bag>>

\* The process dies: its memory is gone and only a prefix of what it wrote
\* has reached the engine.
HostDies ==
  /\ Leave
  /\ fading' = FALSE
  /\ pending' = NothingPending /\ flushing' = FALSE
  /\ lastMotion' = None /\ rested' = TRUE
  /\ \E n \in 0 .. Len(events) : events' = SubSeq(events, 1, n)
  /\ UNCHANGED strayed

---------------------------------------------------------------------------
(* Chunks *)

ChunkLoaded(c, column) ==
  [kind |-> "chunkLoaded", chunk |-> c, geometry |-> game, column |-> column]

ChunkLoad ==
  /\ ServerActs("terrain")
  /\ \E c \in Chunks, column \in Column(game) \cup {Unreadable} :
       /\ area' = [area EXCEPT ![c] = column]
       /\ Emit(<<ChunkLoaded(c, column)>>)
  /\ UNCHANGED <<game, visited, creatures, motion, bag>>

ChunkUnload ==
  /\ ServerActs("terrain")
  /\ \E c \in Chunks :
       /\ area[c] # None
       /\ area' = [area EXCEPT ![c] = None]
       /\ Emit(<<[kind |-> "chunkUnloaded", chunk |-> c]>>)
  /\ UNCHANGED <<game, visited, creatures, motion, bag>>

\* The columns after a batch: for each block its last record counts.
AfterRecords(columns, records) ==
  [c \in Chunks |->
     IF columns[c] \in {None, Unreadable} THEN columns[c]
     ELSE [b \in DOMAIN columns[c] |->
             LET hits == {i \in DOMAIN records : records[i].chunk = c /\ records[i].block = b}
             IN  IF hits = {} THEN columns[c][b]
                 ELSE records[CHOOSE i \in hits : \A j \in hits : j =< i].state]]

BlockUpdate ==
  /\ ServerActs("terrain")
  /\ \E c \in Chunks, b \in Within[game], s \in States :
       LET record == [chunk |-> c, block |-> b, state |-> s]
       IN  /\ area' = AfterRecords(area, <<record>>)
           /\ Emit(<<[kind |-> "blockUpdated", record |-> record]>>)
  /\ UNCHANGED <<game, visited, creatures, motion, bag>>

MultiBlockUpdate ==
  /\ ServerActs("terrain")
  /\ \E records \in BlockBatches :
       /\ \A i \in DOMAIN records : records[i].block \in Within[game]
       /\ area' = AfterRecords(area, records)
       /\ Emit(<<[kind |-> "multiBlocksUpdated", records |-> records]>>)
  /\ UNCHANGED <<game, visited, creatures, motion, bag>>

\* The bot enters another dimension, of any geometry: Mineflayer drops the
\* columns, and the adapter reports nothing of it.
ChangeDimension ==
  /\ ServerActs("terrain")
  /\ game' \in Geometries
  /\ area' = NoArea /\ visited' = visited \cup {game}
  /\ UNCHANGED <<events, creatures, motion, bag>>

---------------------------------------------------------------------------
(* Entities *)

\* Mutant: the timer is set for additions only.
ScheduleAdditions == flushing' = (flushing \/ pending'.added # NoEntities)

\* #scheduleEntityFlush(), where every change ends.
Schedule == flushing' = TRUE

\* Mutant: a removal of the same batch survives.
NotedOnly(id, p) == [pending EXCEPT !.added[id] = p]

Noted(id, p) == [pending EXCEPT !.added[id] = p, !.removed = @ \ {id}]

\* Mineflayer reports the arrival of an entity in sight again when it is the
\* bot's own and the bot respawns.
EntitySpawn ==
  /\ ServerActs("creatures")
  /\ \E id \in Ids, p \in Places :
       /\ entities' = [entities EXCEPT ![id] = p]
       /\ spawnedAt' = [spawnedAt EXCEPT ![id] = p]
       /\ pending' = Noted(id, p)
       /\ overtaken' = IF pending.moved[id] # None THEN overtaken \cup {id}
                       ELSE overtaken \ {id}
  /\ Schedule
  /\ UNCHANGED <<events, terrain, motion, bag>>

EntityGone ==
  /\ ServerActs("creatures")
  /\ \E id \in Ids :
       /\ entities[id] # None
       /\ entities' = [entities EXCEPT ![id] = None]
       /\ spawnedAt' = [spawnedAt EXCEPT ![id] = None]
       /\ pending' = [pending EXCEPT !.added[id] = None, !.moved[id] = None,
                                     !.removed = @ \cup {id}]
       /\ overtaken' = overtaken \ {id}
  /\ Schedule
  /\ UNCHANGED <<events, terrain, motion, bag>>

EntityMoved ==
  /\ ServerActs("creatures")
  /\ \E id \in Ids, p \in Places :
       /\ entities[id] \notin {None, p}
       /\ entities' = [entities EXCEPT ![id] = p]
       /\ IF pending.added[id] # None THEN UNCHANGED <<pending, overtaken>>
          ELSE /\ pending' = [pending EXCEPT !.moved[id] = p]
               /\ overtaken' = overtaken \ {id}
  /\ Schedule
  /\ UNCHANGED <<spawnedAt, events, terrain, motion, bag>>

\* The timer's callback.
Flush ==
  /\ flushing
  /\ flushing' = FALSE
  /\ pending' = NothingPending
  /\ IF pending = NothingPending
     THEN UNCHANGED events
     ELSE Emit(<<[kind |-> "entitiesChanged", changes |-> pending]>>)
  /\ UNCHANGED <<online, fading, sessions, left, entities, spawnedAt, overtaken,
                 terrain, motion, bag>>

---------------------------------------------------------------------------
(* Inventory *)

\* Mutant: of each slot the first one.
CoalesceFirst(updates) ==
  [s \in {updates[i].slot : i \in DOMAIN updates} |->
     updates[CHOOSE i \in DOMAIN updates :
               /\ updates[i].slot = s
               /\ \A j \in 1 .. i - 1 : updates[j].slot # s].item]

\* coalesceInventoryUpdates(): of each slot the last update.
Coalesce(updates) ==
  [s \in {updates[i].slot : i \in DOMAIN updates} |->
     LET last == CHOOSE i \in DOMAIN updates :
                   /\ updates[i].slot = s
                   /\ \A j \in DOMAIN updates : updates[j].slot = s => j =< i
     IN  updates[last].item]

\* A task writes the slots one after the other.
Written(slots, updates) ==
  FoldLeft(LAMBDA all, u : [all EXCEPT ![u.slot] = u.item], slots, updates)

EmitInventory(updates, h) ==
  Emit(<<[kind |-> "inventoryChanged", slots |-> Coalesce(updates), held |-> h]>>)

\* A task of the server's packets, and the microtask that follows it.
InventoryChange ==
  /\ ServerActs("bag")
  /\ \E updates \in SlotBatches, h \in Hotbar :
       /\ updates = <<>> => h # held
       /\ inventory' = Written(inventory, updates)
       /\ held' = h
       /\ EmitInventory(updates, h)
  /\ strayed' = FALSE
  /\ UNCHANGED <<terrain, creatures, motion>>

\* The same of a bot that the adapter has dropped.
StrayInventory ==
  /\ OldBotActs("bag")
  /\ \E updates \in SlotBatches, h \in Hotbar : EmitInventory(updates, h)
  /\ strayed' = TRUE
  /\ UNCHANGED <<inventory, held, terrain, creatures, motion>>

---------------------------------------------------------------------------
(* Motion *)

\* shouldEmitMotion()
ShouldEmitMotion(previous, current) ==
  \/ previous = None
  \/ previous.dimension # current.dimension
  \/ previous # current /\ rested

\* Mutant: what was not told counts as told.
EmitMotionOnce(g, p, force) ==
  LET current == [dimension |-> g, place |-> p]
  IN  /\ lastMotion' = current
      /\ IF force \/ ShouldEmitMotion(lastMotion, current)
         THEN rested' = FALSE /\ Emit(<<[kind |-> "positionChanged", place |-> p]>>)
         ELSE UNCHANGED <<rested, events>>

\* #emitMotionIfChanged() of a bot at p, in a dimension of geometry g
EmitMotionIfChanged(g, p, force) ==
  LET current == [dimension |-> g, place |-> p]
  IN  IF force \/ ShouldEmitMotion(lastMotion, current)
      THEN /\ lastMotion' = current
           /\ rested' = FALSE
           /\ Emit(<<[kind |-> "positionChanged", place |-> p]>>)
      ELSE UNCHANGED <<lastMotion, rested, events>>

\* move, or forcedMove when the server has moved the bot
Move ==
  /\ ServerActs("motion")
  /\ \E p \in Places \ {place}, force \in BOOLEAN :
       /\ place' = p
       /\ EmitMotionIfChanged(game, p, force)
  /\ UNCHANGED <<terrain, creatures, bag>>

\* It ticks once the server has told the bot where it is.
PhysicsTick ==
  /\ online # "no" /\ place # Origin
  /\ EmitMotionIfChanged(game, place, FALSE)
  /\ UNCHANGED <<online, fading, sessions, left, place, terrain, creatures, bag>>

\* Both of a bot that the adapter has dropped, wherever it is.
StrayMotion ==
  /\ OldBotActs("motion")
  /\ \E g \in Geometries, p \in Places, force \in BOOLEAN : EmitMotionIfChanged(g, p, force)
  /\ UNCHANGED <<place, terrain, creatures, bag>>

\* 250 ms have passed.
Rest ==
  /\ ~rested
  /\ rested' = TRUE
  /\ UNCHANGED <<online, fading, sessions, left, events, place, lastMotion,
                 terrain, creatures, bag>>

HostNext ==
  \/ Join \/ Spawn \/ Lost \/ OldBotEnds \/ HostDies
  \/ ChunkLoad \/ ChunkUnload \/ BlockUpdate \/ MultiBlockUpdate \/ ChangeDimension
  \/ EntitySpawn \/ EntityGone \/ EntityMoved \/ Flush
  \/ InventoryChange \/ StrayInventory
  \/ Move \/ PhysicsTick \/ StrayMotion \/ Rest
=============================================================================
