--------------------------- MODULE MCFrameSchedule ---------------------------
(***************************************************************************)
(* Systems that create, that read and that write, over two archetypes one  *)
(* of which contains the other, so that a query may match both or one.     *)
(***************************************************************************)
EXTENDS FrameSchedule

CONSTANTS pos, cbot

SmallMasks == {{pos}, {pos, cbot}}

Sys(id, queries, reads, writes, structural, after, before) ==
  [id |-> id, queries |-> queries, reads |-> reads, writes |-> writes,
   structural |-> structural, after |-> after, before |-> before]

SmallDefinitions ==
  {Sys("spawn", {}, {}, {}, {{pos}, {pos, cbot}}, {}, {}),
   Sys("apply", {{pos, cbot}}, {}, {pos}, {}, {}, {"mind"}),
   Sys("look", {{pos}}, {pos}, {}, {}, {}, {}),
   Sys("mind", {{pos, cbot}}, {pos}, {cbot}, {}, {}, {})}

SmallBatches ==
  LET envelops == [order : 0 .. MaxSystems - 1, sequence : 0 .. MaxCommands - 1,
                   bundle : Bundle \cup {EmptyBundle}]
  IN  BoundedSeq(envelops, MaxCommands)
=============================================================================
