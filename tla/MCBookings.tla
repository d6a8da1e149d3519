------------------------------ MODULE MCBookings ------------------------------
(***************************************************************************)
(* Processes start and migrate; bookings are made once all of them serve.  *)
(* What becomes of a booking is the same whichever way the processes came  *)
(* up, so they came without a fault or a race, and stay until it is over.  *)
(***************************************************************************)
EXTENDS Bookings, Rollout

AllServe ==
  /\ \A b \in Boots : at[b] = "up" /\ starts[b] = 1
  /\ faults = 0 /\ contested = {} /\ operator

MCInit == Init /\ RolloutInit

MCNext ==
  \/ Init /\ RolloutNext /\ UNCHANGED vars
  \/ AllServe /\ Next /\ UNCHANGED rolloutVars

MCSpec == MCInit /\ [][MCNext]_<<vars, rolloutVars>> /\ RolloutFairness
=============================================================================
