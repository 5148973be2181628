----------------------------- MODULE WorldMirror -----------------------------
(***************************************************************************)
(* What the engine believes of a bot's surroundings, against what the      *)
(* server has told the bot: HostTelemetry and EngineViews over one FIFO    *)
(* connection that a crash of the host cuts.  That the engine has read     *)
(* what is left of the old connection when the new process, a second or    *)
(* more later, reports anything is an assumption: each connection has a    *)
(* goroutine of its own.                                                   *)
(***************************************************************************)
EXTENDS EngineViews

vars == <<host, views>>

Init == HostInit /\ ViewsInit

Report == HostNext /\ UNCHANGED views

Next == Report \/ Deliver

Spec == Init /\ [][Next]_vars

\* The engine drains its Inbox every tick, Mineflayer's physics ticks while
\* the bot is in the world, and time passes.
Fairness ==
  /\ WF_vars(Deliver)
  /\ WF_vars(PhysicsTick /\ UNCHANGED views)
  /\ WF_vars(Rest /\ UNCHANGED views)

FairSpec == Spec /\ Fairness

---------------------------------------------------------------------------
(* What the engine may rely on *)

\* Every variable has its type, and a timer is set whenever changes wait.
MirrorTypeOK ==
  /\ HostTypeOK /\ ViewsTypeOK
  /\ pending # NothingPending => flushing

Drained == events = <<>> /\ pending = NothingPending

\* When all observations are applied, the engine has every column the server
\* has loaded and the engine could read, with every block as it is there; and
\* in a dimension whose geometry the bot meets for the first time it has no
\* other column.  (applyChunkEvent: ReplaceChunk, UnloadChunk, SetBlockState,
\* SetBlockStates, and BeginAttempt where the geometry changes.)
ChunksMirrored ==
  (Drained /\ online # "no") =>
    \A c \in {d \in Chunks : area[d] # Unreadable} :
      /\ area[c] # None => world.geometry = game /\ world.columns[c] = area[c]
      /\ (world.geometry = game /\ game \notin visited) => world.columns[c] = area[c]

\* When all changes are applied, the engine knows every entity in sight, where
\* it is or where it came into sight (a move in the batch of the arrival is
\* not told); and in the first session it knows no other.  Where the batch of
\* the arrival also held an older move of the entity, the engine knows it, but
\* may have it at the older place.  (entitySpawn, entityGone and entityMoved,
\* batched, and applyEntityEvent.)
EntitiesMirrored ==
  (Drained /\ online # "no") =>
    \A id \in Ids :
      /\ entities[id] # None => seen[id] # None
      /\ (entities[id] # None /\ id \notin overtaken) =>
           seen[id] \in {entities[id], spawnedAt[id]}
      /\ (entities[id] = None /\ sessions = 1) => seen[id] = None

\* When all observations of a spawned bot are applied, no slot the engine
\* lists differs from the bot's, and it knows the selected one; unless the
\* last it heard of them was of a dropped bot.  (coalesceInventoryUpdates,
\* applyHostSnapshot, EventHostInventory.)
InventoryTrue ==
  (Drained /\ online = "spawned" /\ ~strayed) =>
    /\ \A s \in DOMAIN pockets.slots : pockets.slots[s] = inventory[s]
    /\ pockets.held = held

\* A bot that comes to rest is where the engine believes it is, although
\* motion within 250 ms of the last report is not reported when it happens,
\* although "spawned" puts it at the origin, and although a dropped bot may
\* report where that one is.  (shouldEmitMotion)
MotionSettles ==
  \A p \in Places : <>[](online = "spawned" /\ place = p) => <>[](body = p)

\* The view is that of one session: when it has a column of this session, it
\* has no column of another one.  (WorldView's comment.)
ViewOfOneSession ==
  (Drained /\ online # "no" /\ \E c \in Chunks : area[c] \notin {None, Unreadable}) =>
    \A c \in Chunks : world.columns[c] # None => area[c] # None
=============================================================================
