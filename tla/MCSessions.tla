------------------------------ MODULE MCSessions ------------------------------
(***************************************************************************)
(* Sign-in for TLC, and the limiter in front of it.  The limiter knows a   *)
(* client by its address and nothing of what it asks for, so one of the    *)
(* two stays where it began.  Devices and requests are interchangeable.    *)
(***************************************************************************)
EXTENDS Sessions, RateLimiter, TLC

MCInit == Init /\ LimiterInit

MCNext ==
  \/ LimiterInit /\ Next /\ UNCHANGED limiterVars
  \/ Init /\ audience = "staff" /\ LimiterNext /\ UNCHANGED vars

MCSpec == MCInit /\ [][MCNext]_<<vars, limiterVars>>

Symmetry == Permutations(Devices) \cup Permutations(Requests)

(* A closing takes longer to be over than a sign-out: from the third       *)
(* second on, one device of a closed account is followed, without faults.  *)
Used(d)   == refresh[d] # None \/ \E r \in Requests : who[r] = d
Followed  == now <= 2 \/ (closed # None /\ faults = 0 /\ Cardinality({d \in Devices : Used(d)}) <= 1)
=============================================================================
