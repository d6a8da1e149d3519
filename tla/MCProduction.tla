----------------------------- MODULE MCProduction -----------------------------
(***************************************************************************)
(* The queue of an order for TLC: the dates it is promised and the stages  *)
(* of its item.  Neither part reads a column the other writes, so what     *)
(* one may do is the same wherever the other is; one of them stays where   *)
(* it began.  Every day has room for one order.                            *)
(***************************************************************************)
EXTENDS ProductionLine, ProductionSchedule

OnePerDay == [d \in Days |-> 1]

(* Orders and the deliveries about one are interchangeable: the higher one *)
(* begins later.                                                           *)
Begun(o, d) == step[<<o, d>>] # "waiting"

InTurn ==
  /\ \A o \in Orders, d, e \in Deliveries : d < e /\ Begun(o, e) => Begun(o, d)
  /\ \A o, p \in Orders : o < p /\ Begun(p, 1) => Begun(o, 1)

MCInit == Init /\ ScheduleInit

MCNext ==
  \/ ScheduleInit /\ Next /\ UNCHANGED scheduleVars
  \/ Init /\ ScheduleNext /\ InTurn' /\ UNCHANGED vars

MCSpec == MCInit /\ [][MCNext]_<<vars, scheduleVars>> /\ Fairness
=============================================================================
