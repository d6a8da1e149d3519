---------------------------- MODULE OrderLedger ----------------------------
(***************************************************************************)
(* What the marketplace promises about an order and its money, with no     *)
(* word on handlers, webhooks or retries: an order is placed before any    *)
(* money moves, the payment provider settles it one way or the other, the  *)
(* order's status follows the settlement, and only an order whose money    *)
(* was captured enters production or ships.  Checkout implements this.     *)
(***************************************************************************)

CONSTANT Orders     \* identities of the checkout attempts

VARIABLES
  order,            \* orders.status of each order, "none" before the row exists
  charge,           \* what became of the customer's money
  produced          \* orders that own a production_queue row

vars == <<order, charge, produced>>

Init ==
  /\ order    = [o \in Orders |-> "none"]
  /\ charge   = [o \in Orders |-> "none"]
  /\ produced = {}

Place(o) ==
  /\ order[o] = "none"
  /\ order' = [order EXCEPT ![o] = "pending"]
  /\ UNCHANGED <<charge, produced>>

Settle(o, outcome) ==
  /\ order[o] = "pending"
  /\ charge[o] = "none"
  /\ charge' = [charge EXCEPT ![o] = outcome]
  /\ UNCHANGED <<order, produced>>

Record(o) ==
  /\ order[o] = "pending"
  /\ \/ charge[o] = "captured" /\ order' = [order EXCEPT ![o] = "paid"]
     \/ charge[o] = "void"     /\ order' = [order EXCEPT ![o] = "failed"]
  /\ UNCHANGED <<charge, produced>>

StartProduction(o) ==
  /\ order[o] \in {"paid", "shipped"}
  /\ produced' = produced \cup {o}
  /\ UNCHANGED <<order, charge>>

Ship(o) ==
  /\ o \in produced
  /\ order' = [order EXCEPT ![o] = "shipped"]
  /\ UNCHANGED <<charge, produced>>

Next == \E o \in Orders :
  \/ Place(o)
  \/ \E outcome \in {"captured", "void"} : Settle(o, outcome)
  \/ Record(o)
  \/ StartProduction(o)
  \/ Ship(o)

Spec == Init /\ [][Next]_vars

(***************************************************************************)
(* A captured payment is eventually reflected in the order's status.       *)
(***************************************************************************)
RecordCaptured(o) == charge[o] = "captured" /\ Record(o)

LiveSpec == Spec /\ \A o \in Orders : WF_vars(RecordCaptured(o))
=============================================================================
