----------------------------- MODULE MCWorkerPool -----------------------------
(***************************************************************************)
(* Small instances of WorkerPool: loops of no, of one, and of three chunks *)
(* whose last one is short, and one whose grain is left to the default.    *)
(***************************************************************************)
EXTENDS WorkerPool

SmallLoops == {<<0, 2>>, <<5, 2>>, <<2, 0>>}
=============================================================================
