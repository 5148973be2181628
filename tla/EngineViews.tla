----------------------------- MODULE EngineViews -----------------------------
(***************************************************************************)
(* The engine's picture of what surrounds one bot: its WorldView, its      *)
(* EntityViews, and its Position and Inventory components, as              *)
(* NetworkApplySystem.Run makes them from the observations it drains.      *)
(*                                                                         *)
(* Attempt ids are left out: every caller passes the one it has just read. *)
(* So are sessions and sequences, which EngineControl has: along one       *)
(* connection every observation is newer than the one before.              *)
(***************************************************************************)
EXTENDS HostTelemetry

VARIABLES world,       \* WorldViews: the active geometry and the columns
          seen,        \* EntityViews: the place of every entity known
          body,        \* the bot's Position
          pockets      \* the bot's Inventory: the slots listed, and the selected one

views == <<world, seen, body, pockets>>

NoView == [geometry |-> None, columns |-> NoArea]

ViewsTypeOK ==
  /\ world.geometry \in Geometries \cup {None}
  /\ world.columns \in
       [Chunks -> {None} \cup (IF world.geometry = None THEN {} ELSE Column(world.geometry))]
  /\ seen \in [Ids -> Places \cup {None}]
  /\ body \in Places \cup {Origin}
  /\ DOMAIN pockets.slots \subseteq Slots /\ pockets.held \in Hotbar

ViewsInit ==
  /\ world = NoView
  /\ seen = NoEntities
  /\ body = Origin
  /\ pockets = [slots |-> <<>>, held |-> 0]

\* Mutant: only the geometry is replaced.
BeginKeeping(g) == [geometry |-> g, columns |-> world.columns]

\* BeginAttempt, SetDimensionTypes and BindDimension, when the geometry is new.
Begin(g) == [geometry |-> g, columns |-> NoArea]

\* The view a column is decoded for.
ViewFor(g) == IF world.geometry = g THEN world ELSE Begin(g)

\* A payload that cannot be decoded leaves the columns as they are.
ApplyChunkLoad(e) ==
  world' = IF e.column = Unreadable THEN ViewFor(e.geometry)
           ELSE [ViewFor(e.geometry) EXCEPT !.columns[e.chunk] = e.column]

ApplyChunkUnload(e) == world' = [world EXCEPT !.columns[e.chunk] = None]

\* One record: out of range or in no column it is skipped.
SetBlock(columns, r) ==
  IF columns[r.chunk] = None \/ r.block \notin Within[world.geometry] THEN columns
  ELSE [columns EXCEPT ![r.chunk][r.block] = r.state]

SetBlockState(e) == world' = [world EXCEPT !.columns = SetBlock(@, e.record)]

SetBlockStates(e) == world' = [world EXCEPT !.columns = FoldLeft(SetBlock, @, e.records)]

\* AddEntities, then RemoveEntities, then MoveEntities, which moves what it finds.
AfterChanges(known, c) ==
  LET added   == [i \in Ids |-> IF c.added[i] # None THEN c.added[i] ELSE known[i]]
      removed == [i \in Ids |-> IF i \in c.removed THEN None ELSE added[i]]
  IN  [i \in Ids |-> IF removed[i] # None /\ c.moved[i] # None THEN c.moved[i]
                     ELSE removed[i]]

ApplyEntities(e) == seen' = AfterChanges(seen, e.changes)

\* applyHostSnapshot()
ApplySnapshot(e) ==
  /\ body' = e.place
  /\ pockets' = [slots |-> e.slots, held |-> e.held]

ApplyPosition(e) == body' = e.place

\* The inventory becomes the slots the update lists.
ApplyInventory(e) == pockets' = [slots |-> e.slots, held |-> e.held]

\* One event of NetworkApplySystem.Run's loop.
Apply(e) ==
  \/ e.kind = "chunkLoaded" /\ ApplyChunkLoad(e) /\ UNCHANGED <<seen, body, pockets>>
  \/ e.kind = "chunkUnloaded" /\ ApplyChunkUnload(e) /\ UNCHANGED <<seen, body, pockets>>
  \/ e.kind = "blockUpdated" /\ SetBlockState(e) /\ UNCHANGED <<seen, body, pockets>>
  \/ e.kind = "multiBlocksUpdated" /\ SetBlockStates(e) /\ UNCHANGED <<seen, body, pockets>>
  \/ e.kind = "entitiesChanged" /\ ApplyEntities(e) /\ UNCHANGED <<world, body, pockets>>
  \/ e.kind = "snapshot" /\ ApplySnapshot(e) /\ UNCHANGED <<world, seen>>
  \/ e.kind = "positionChanged" /\ ApplyPosition(e) /\ UNCHANGED <<world, seen, pockets>>
  \/ e.kind = "inventoryChanged" /\ ApplyInventory(e) /\ UNCHANGED <<world, seen, body>>

Deliver ==
  /\ events # <<>>
  /\ Apply(Head(events))
  /\ events' = Tail(events)
  /\ UNCHANGED <<online, fading, sessions, left, terrain, creatures, motion, bag>>
=============================================================================
