-------------------------- MODULE ControllerState --------------------------
(***************************************************************************)
(* The targets a bot's controller may hold, and the three operations both  *)
(* ends of the wire apply to them: the engine validates a desired state    *)
(* and sends its difference from the last one it sent, the Node host       *)
(* merges that difference into the state its tick executes.  What a target *)
(* is (a block, an entity, an item name) is abstracted to a Target.        *)
(***************************************************************************)
EXTENDS Naturals

CONSTANTS Target,      \* the concrete targets: blocks, entities, items
          NoTarget     \* a nil pointer in Go, null or undefined in Node

ASSUME NoTargetAssumption == NoTarget \notin Target

Field == {"goto", "break", "attack", "craft", "equip", "place", "consume"}

\* The actions that end by themselves and answer with one outcome.
OneShot == {"craft", "equip", "place", "consume"}

Sustained == Field \ OneShot

MaybeTarget == Target \cup {NoTarget}

State == [Field -> MaybeTarget]

\* A delta holds only the fields that change; NoTarget in it is a clear.
Delta == UNION {[fields -> MaybeTarget] : fields \in SUBSET Field}

EmptyState == [f \in Field |-> NoTarget]

\* A state with one target.
Only(field, target) == [EmptyState EXCEPT ![field] = target]

\* The order in which the compatibility matrix prefers the exclusive fields;
\* goto and equip are compatible with every other field.
Rank == [break |-> 1, attack |-> 2, craft |-> 3, place |-> 4, consume |-> 5]

Exclusive == {"break", "attack", "craft", "place", "consume"}

\* Only the preferred one of the exclusive targets survives.
Validate(state) ==
  [f \in Field |->
     IF f \in Exclusive /\ \E g \in Exclusive : Rank[g] < Rank[f] /\ state[g] # NoTarget
     THEN NoTarget
     ELSE state[f]]

\* Mutant: the difference leaves out what is cleared.
DiffWithoutClears(last, current) ==
  [f \in {g \in Field : last[g] # current[g] /\ current[g] # NoTarget} |-> current[f]]

Diff(last, current) ==
  [f \in {g \in Field : last[g] # current[g]} |-> current[f]]

\* Mutant: the delta replaces the state.
MergeReplaces(state, delta) == delta

Merge(state, delta) ==
  [f \in Field |-> IF f \in DOMAIN delta THEN delta[f] ELSE state[f]]
=============================================================================
