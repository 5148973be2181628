---------------------------- MODULE MCWorldMirror ----------------------------
(***************************************************************************)
(* Two chunks in a low and a tall dimension, one entity, two slots.        *)
(***************************************************************************)
EXTENDS WorldMirror

CONSTANTS c1, c2, low, tall, b1, b2, air, stone, s1, s2, sword

SmallWithin == [g \in Geometries |-> IF g = low THEN {b1} ELSE {b1, b2}]

Record(c, b, s) == [chunk |-> c, block |-> b, state |-> s]

\* One block twice, and a chunk before another one.
SmallBlockBatches ==
  {<<Record(c1, b1, stone), Record(c1, b1, air)>>,
   <<Record(c1, b1, stone), Record(c2, b1, stone)>>}

Update(s, i) == [slot |-> s, item |-> i]

SmallSlotBatches ==
  {<<>>, <<Update(s1, sword)>>, <<Update(s1, sword), Update(s1, None)>>,
   <<Update(s1, None), Update(s2, sword)>>}

Budget(chunks, mobs, items, moves) ==
  [terrain |-> chunks, creatures |-> mobs, bag |-> items, motion |-> moves]

\* The streams share the connection, the sessions and the dimension: each gets
\* far by itself, and each meets the others.
SmallBudgets ==
  {Budget(2, 0, 0, 0), Budget(0, 4, 0, 0), Budget(0, 0, 2, 0), Budget(0, 0, 0, 3),
   Budget(1, 1, 0, 0), Budget(1, 0, 0, 2), Budget(0, 1, 0, 1), Budget(0, 0, 1, 1)}

ReloadBudgets == {Budget(2, 0, 0, 0)}
=============================================================================
