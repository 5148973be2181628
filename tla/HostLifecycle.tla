---------------------------- MODULE HostLifecycle -----------------------------
(***************************************************************************)
(* What the engine is promised of its Node host: never two hosts at once,  *)
(* a lost host is replaced unless that fails or the engine ends, and none  *)
(* runs once the engine's context is done.                                 *)
(***************************************************************************)
CONSTANT Hosts

VARIABLES live, \* the hosts that run and have not been told to end
          lost, \* a host has ended by itself and is to be replaced
          over  \* the context of the engine is done

vars == <<live, lost, over>>

Init == live = {} /\ lost = FALSE /\ over = FALSE

\* A host is started: the first, one after a stop, or one in place of a lost one.
Launch ==
  /\ ~over /\ live = {}
  /\ \E g \in Hosts : live' = {g}
  /\ lost' = FALSE
  /\ UNCHANGED over

Lose == live # {} /\ live' = {} /\ lost' = TRUE /\ UNCHANGED over

\* The host is stopped, or the lost one cannot be replaced.
Drop == live' = {} /\ lost' = FALSE /\ UNCHANGED over

End == over' = TRUE /\ live' = {} /\ lost' = FALSE

Next == Launch \/ Lose \/ Drop \/ End

Spec == Init /\ [][Next]_vars

\* A lost host does not stay lost.
FairSpec == Spec /\ WF_vars(lost /\ (Launch \/ Drop))
=============================================================================
