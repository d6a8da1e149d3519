---------------------------- MODULE EscrowLedger ----------------------------
(***************************************************************************)
(* What hiring a creator promises about a booking and its money, with no   *)
(* word on mutations, statements or Stripe calls: the client's payment is  *)
(* held from its charge until the work was delivered, is paid to the       *)
(* creator once and never for a declined booking, and is shown as settled  *)
(* only then.  Bookings implements this.                                   *)
(***************************************************************************)

CONSTANT Bookings

VARIABLES
  deal,             \* where the two parties stand: bookings.status
  escrow,           \* the client's money: none, held by the platform, paid
  settled           \* bookings that show a released payment

vars == <<deal, escrow, settled>>

Init ==
  /\ deal    = [b \in Bookings |-> "none"]
  /\ escrow  = [b \in Bookings |-> "none"]
  /\ settled = {}

Moves(b, from, to) == deal[b] = from /\ deal' = [deal EXCEPT ![b] = to]

(* The parties. *)
Agree(b) ==
  /\ \/ Moves(b, "none", "pending")
     \/ Moves(b, "pending", "accepted")
     \/ Moves(b, "pending", "declined")
     \/ Moves(b, "accepted", "delivered")
     \/ Moves(b, "delivered", "completed")
  /\ UNCHANGED <<escrow, settled>>

(* The client may pay for any booking there is. *)
Hold(b) ==
  /\ deal[b] # "none"
  /\ escrow[b] = "none"
  /\ escrow' = [escrow EXCEPT ![b] = "held"]
  /\ UNCHANGED <<deal, settled>>

PayOut(b) ==
  /\ deal[b] \in {"delivered", "completed"}
  /\ escrow[b] = "held"
  /\ escrow' = [escrow EXCEPT ![b] = "paid"]
  /\ UNCHANGED <<deal, settled>>

(* The payout is shown, and with it the booking is completed. *)
Settle(b) ==
  /\ deal[b] \in {"delivered", "completed"}
  /\ escrow[b] = "paid"
  /\ deal' = [deal EXCEPT ![b] = "completed"]
  /\ settled' = settled \cup {b}
  /\ UNCHANGED escrow

Next == \E b \in Bookings : Agree(b) \/ Hold(b) \/ PayOut(b) \/ Settle(b)

Spec == Init /\ [][Next]_vars
=============================================================================
