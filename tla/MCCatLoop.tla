------------------------------ MODULE MCCatLoop ------------------------------
(***************************************************************************)
(* CatLoop for TLC.  The thread may come to rest at the end of the process *)
(* and when the camera is stalled; anywhere else it would be a deadlock.   *)
(***************************************************************************)
EXTENDS CatLoop

Rest == (Exited \/ CameraStalled) /\ UNCHANGED vars

MCSpec == LoopInit /\ [][LoopNext \/ Rest]_vars /\ LoopFairness
=============================================================================
