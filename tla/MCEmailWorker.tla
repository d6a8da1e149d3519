---------------------------- MODULE MCEmailWorker ----------------------------
(***************************************************************************)
(* Mail for TLC: every job goes to the one recipient.                      *)
(***************************************************************************)
EXTENDS EmailWorker

CONSTANT ann

ToAnn == [j \in Jobs |-> ann]
=============================================================================
