--------------------------- MODULE MCControllerLink ---------------------------
(***************************************************************************)
(* Small instances of ControllerLink: the decisions the behaviors choose   *)
(* among.  Crafting has what a bot that crafts may do beside it; Gathering *)
(* has the sustained actions, with a one-shot between them.                *)
(***************************************************************************)
EXTENDS ControllerLink

CONSTANTS t1, t2

Decide(action, target, move) == [action |-> action, target |-> target, move |-> move]

Idling == Decide("none", NoTarget, NoTarget)

Crafting == {Decide("goto", t1, t1), Decide("craft", t1, NoTarget)}

Gathering ==
  {Idling, Decide("break", t1, t1), Decide("attack", t2, NoTarget),
   Decide("consume", t1, NoTarget), Decide("equip", t2, NoTarget)}
=============================================================================
