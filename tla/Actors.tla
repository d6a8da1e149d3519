-------------------------------- MODULE Actors --------------------------------
(***************************************************************************)
(* What the models of processes and requests have in common: between two   *)
(* of its statements each is somewhere in its handler, and a number of     *)
(* calls may fail.                                                         *)
(***************************************************************************)
EXTENDS Naturals, FiniteSets

CONSTANT
  MaxFaults     \* bound: failing calls, and processes or requests that end

ASSUME FaultsAssumption == MaxFaults \in Nat

VARIABLES
  at,           \* where each actor is
  faults        \* what has failed so far

Fault      == faults < MaxFaults /\ faults' = faults + 1
Goto(a, p) == at' = [at EXCEPT ![a] = p]
=============================================================================
