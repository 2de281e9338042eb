-------------------------- MODULE MCCatFsmHistory --------------------------
(***************************************************************************)
(* Model for TLC: CatFsmHistory with the settings and frames of MCCatFsm.  *)
(***************************************************************************)
EXTENDS CatFsmHistory, MCCatFsm
=============================================================================
