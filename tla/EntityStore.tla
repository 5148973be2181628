----------------------------- MODULE EntityStore -----------------------------
(***************************************************************************)
(* What the ECS world promises: a map from handles to bundles.  A handle   *)
(* is given out once, names its entity until the entity is destroyed, and  *)
(* names nothing afterwards; no two entities are bots of one profile.      *)
(***************************************************************************)
EXTENDS FiniteSets

CONSTANTS Handles, Bundles, NoProfile

VARIABLES entities, \* the live entities: a bundle for each of their handles
          issued    \* every handle that was ever given out

vars == <<entities, issued>>

Live == DOMAIN entities

\* Nobody but the entities of hs is a bot of profile p.
ProfileFree(p, hs) == p = NoProfile \/ \A h \in Live \ hs : entities[h].profile # p

Init == entities = [h \in {} |-> {}] /\ issued = {}

Create(h, b) ==
  /\ h \notin issued
  /\ ProfileFree(b.profile, {})
  /\ entities' = [g \in Live \cup {h} |-> IF g = h THEN b ELSE entities[g]]
  /\ issued' = issued \cup {h}

Destroy(h) ==
  /\ entities' = [g \in Live \ {h} |-> entities[g]]
  /\ UNCHANGED issued

Change(h, b) ==
  /\ ProfileFree(b.profile, {h})
  /\ entities' = [entities EXCEPT ![h] = b]
  /\ UNCHANGED issued

Next ==
  \/ \E h \in Handles, b \in Bundles : Create(h, b)
  \/ \E h \in Live : Destroy(h) \/ \E b \in Bundles : Change(h, b)

Spec == Init /\ [][Next]_vars
=============================================================================
