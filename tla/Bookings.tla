------------------------------ MODULE Bookings ------------------------------
(***************************************************************************)
(* Hiring a creator: BookingService and StripeConnectService for one       *)
(* creator profile.  A mutation that takes several statements or Stripe    *)
(* calls occupies a call while it runs and other mutations run in between; *)
(* a crash of the API process ends the calls where they are.  Stripe is    *)
(* external: it charges an intent once and refuses a second transfer of    *)
(* the creator's ninety percent from one charge.                           *)
(***************************************************************************)
EXTENDS Naturals, FiniteSets

CONSTANTS
  Bookings,     \* rows of bookings
  Calls,        \* mutations in flight
  MaxFailures   \* bound: failing statements, failing Stripe calls, crashes

ASSUME BookingAssumption == IsFiniteSet(Bookings) /\ MaxFailures \in Nat

VARIABLES
  status,       \* bookings.status, "none" before the booking exists
  intent,       \* the PaymentIntent: none, made, or stored in the row
  charged,      \* bookings whose intent succeeded at Stripe
  connected,    \* creator_profiles.stripe_account_id is set
  transfers,    \* transfers to the creator Stripe accepted
  released,     \* bookings with payment_status released
  total,        \* creator_profiles.total_bookings
  counted,      \* what each booking added to completed_bookings
  reviewed,     \* bookings with a row in reviews
  shown,        \* creator_profiles.total_reviews
  call,         \* the calls in flight: where they are and for which booking
  failures,     \* failures and crashes so far
  shared        \* ghost: bookings two CompleteBooking calls worked on at once

moneyVars == <<intent, charged, connected, transfers, released>>
statVars  == <<total, counted, reviewed, shown>>
vars == <<status, moneyVars, statVars, call, failures, shared>>

Idle   == [at |-> "rest"]
Busy   == [at : {"intent", "store", "uncount", "release", "transfer", "record", "fallback",
                 "count", "rate"}, of : Bookings]
Status == {"none", "pending", "accepted", "declined", "delivered", "completed"}

TypeOK ==
  /\ status    \in [Bookings -> Status]
  /\ intent    \in [Bookings -> {"none", "made", "stored"}]
  /\ charged   \in SUBSET Bookings
  /\ connected \in BOOLEAN
  /\ transfers \in [Bookings -> 0..1]
  /\ released  \in SUBSET Bookings
  /\ total     \in 0..Cardinality(Bookings)
  /\ counted   \in [Bookings -> Nat]
  /\ reviewed  \in SUBSET Bookings
  /\ shown     \in 0..Cardinality(Bookings)
  /\ call      \in [Calls -> Busy \cup {Idle}]
  /\ failures  \in 0..MaxFailures
  /\ shared    \in SUBSET Bookings

Init ==
  /\ status    = [b \in Bookings |-> "none"]
  /\ intent    = [b \in Bookings |-> "none"]
  /\ charged   = {}
  /\ connected = FALSE
  /\ transfers = [b \in Bookings |-> 0]
  /\ released  = {}
  /\ total     = 0
  /\ counted   = [b \in Bookings |-> 0]
  /\ reviewed  = {}
  /\ shown     = 0
  /\ call      = [c \in Calls |-> Idle]
  /\ failures  = 0
  /\ shared    = {}

Failure        == failures < MaxFailures /\ failures' = failures + 1
Completing     == {"release", "transfer", "record", "fallback", "count"}
Set(b, s)      == status' = [status EXCEPT ![b] = s]
Begin(c, b, s) == call[c] = Idle /\ call' = [call EXCEPT ![c] = [at |-> s, of |-> b]]
Proceed(c, s)  == call' = [call EXCEPT ![c].at = s]
Return(c)      == call' = [call EXCEPT ![c] = Idle]
At(c, b, s)    == call[c] = [at |-> s, of |-> b]

----------------------------------------------------------------------------
(* GenerateStripeOnboardingLink stores the account; it is never removed. *)
ConnectStripe ==
  /\ ~ connected
  /\ connected' = TRUE
  /\ UNCHANGED <<status, intent, charged, transfers, released, statVars, call, failures, shared>>

(* The transaction: the row and the profile's total. *)
CreateBooking(c, b) ==
  /\ call[c] = Idle
  /\ status[b] = "none"
  /\ Set(b, "pending")
  /\ total' = total + 1
  /\ IF connected THEN Begin(c, b, "intent") ELSE UNCHANGED call
  /\ UNCHANGED <<moneyVars, counted, reviewed, shown, failures, shared>>

CreateIntent(c, b) ==
  /\ At(c, b, "intent")
  /\ \/ Proceed(c, "store") /\ UNCHANGED failures
     \/ Failure /\ Return(c)
  /\ UNCHANGED <<status, moneyVars, statVars, shared>>

(* The client gets the secret whether or not the row got the intent's id. *)
StoreIntent(c, b) ==
  /\ At(c, b, "store")
  /\ \/ intent' = [intent EXCEPT ![b] = "stored"] /\ UNCHANGED failures
     \/ Failure /\ intent' = [intent EXCEPT ![b] = "made"]
  /\ Return(c)
  /\ UNCHANGED <<status, charged, connected, transfers, released, statVars, shared>>

(* The client confirms the payment at Stripe; nothing here is told. *)
ClientPays(b) ==
  /\ intent[b] # "none"
  /\ b \notin charged
  /\ charged' = charged \cup {b}
  /\ UNCHANGED <<status, intent, connected, transfers, released, statVars, call, failures, shared>>

AcceptBooking(b) ==
  /\ status[b] = "pending"
  /\ Set(b, "accepted")
  /\ UNCHANGED <<moneyVars, statVars, call, failures, shared>>

DeclineBooking(c, b) ==
  /\ status[b] = "pending"
  /\ Set(b, "declined")
  /\ Begin(c, b, "uncount")
  /\ UNCHANGED <<moneyVars, statVars, failures, shared>>

(* ... then GREATEST(total_bookings - 1, 0), whose failure is a warning. *)
Uncount(c, b) ==
  /\ At(c, b, "uncount")
  /\ \/ total' = (IF total > 0 THEN total - 1 ELSE 0) /\ UNCHANGED failures
     \/ Failure /\ UNCHANGED total
  /\ Return(c)
  /\ UNCHANGED <<status, moneyVars, counted, reviewed, shown, shared>>

(* Seeded fault: work can be delivered that was never accepted. *)
DeliverUnaccepted(b) ==
  /\ status[b] \in {"pending", "accepted"}
  /\ Set(b, "delivered")
  /\ UNCHANGED <<moneyVars, statVars, call, failures, shared>>

DeliverBooking(b) ==
  /\ status[b] = "accepted"
  /\ Set(b, "delivered")
  /\ UNCHANGED <<moneyVars, statVars, call, failures, shared>>

(* Seeded fault: a completed booking can be completed again. *)
CompletableAgain == {"delivered", "completed"}

Completable == {"delivered"}

(* CompleteBooking reads the status once, and starts. *)
CompleteBooking(c, b) ==
  /\ status[b] \in Completable
  /\ Begin(c, b, "release")
  /\ shared' = IF \E d \in Calls : call[d] # Idle /\ call[d].of = b /\ call[d].at \in Completing
                 THEN shared \cup {b} ELSE shared
  /\ UNCHANGED <<status, moneyVars, statVars, failures>>

(* Seeded fault: the state of the payment is not looked at. *)
ReleasableUnpaid(b) == connected /\ intent[b] = "stored"

(* What ReleaseEscrow wants: an account, an intent in the row, and a charge. *)
Releasable(b) == connected /\ intent[b] = "stored" /\ b \in charged

ReleaseEscrow(c, b) ==
  /\ At(c, b, "release")
  /\ \/ Releasable(b) /\ Proceed(c, "transfer") /\ UNCHANGED failures
     \/ ~ Releasable(b) /\ Proceed(c, "fallback") /\ UNCHANGED failures
     \/ Failure /\ Proceed(c, "fallback")
  /\ UNCHANGED <<status, moneyVars, statVars, shared>>

(* Stripe accepts the transfer, refuses a second one, or the call fails,   *)
(* perhaps after Stripe accepted it.                                       *)
Transfer(c, b) ==
  /\ At(c, b, "transfer")
  /\ \/ /\ transfers[b] = 0
        /\ transfers' = [transfers EXCEPT ![b] = 1]
        /\ \/ Proceed(c, "record") /\ UNCHANGED failures
           \/ Proceed(c, "fallback") /\ Failure
     \/ transfers[b] = 1 /\ Proceed(c, "fallback") /\ UNCHANGED <<transfers, failures>>
     \/ Failure /\ Proceed(c, "fallback") /\ UNCHANGED transfers
  /\ UNCHANGED <<status, intent, charged, connected, released, statVars, shared>>

(* ReleaseEscrow's update by id: released and completed. *)
RecordRelease(c, b) ==
  /\ At(c, b, "record")
  /\ \/ /\ Set(b, "completed")
        /\ released' = released \cup {b}
        /\ Proceed(c, "count")
        /\ UNCHANGED failures
     \/ Failure /\ Proceed(c, "fallback") /\ UNCHANGED <<status, released>>
  /\ UNCHANGED <<intent, charged, connected, transfers, statVars, shared>>

(* Nothing was released: completed all the same. *)
CompleteUnreleased(c, b) ==
  /\ At(c, b, "fallback")
  /\ \/ /\ IF status[b] = "delivered" THEN Set(b, "completed") ELSE UNCHANGED status
        /\ Proceed(c, "count")
        /\ UNCHANGED failures
     \/ Failure /\ Return(c) /\ UNCHANGED status
  /\ UNCHANGED <<moneyVars, statVars, shared>>

(* completed_bookings + 1, whose failure is a warning. *)
CountCompleted(c, b) ==
  /\ At(c, b, "count")
  /\ \/ counted' = [counted EXCEPT ![b] = @ + 1] /\ UNCHANGED failures
     \/ Failure /\ UNCHANGED counted
  /\ Return(c)
  /\ UNCHANGED <<status, moneyVars, total, reviewed, shown, shared>>

(* SubmitReview: a first review is inserted, a later one replaces it. *)
SubmitReview(c, b) ==
  /\ status[b] = "completed"
  /\ Begin(c, b, "rate")
  /\ reviewed' = reviewed \cup {b}
  /\ UNCHANGED <<status, moneyVars, total, counted, shown, failures, shared>>

(* Seeded fault: the statistic is incremented instead of recomputed. *)
RateByOne(c, b) ==
  /\ At(c, b, "rate")
  /\ shown' = shown + 1
  /\ Return(c)
  /\ UNCHANGED <<status, moneyVars, total, counted, reviewed, failures, shared>>

Rate(c, b) ==
  /\ At(c, b, "rate")
  /\ \/ shown' = Cardinality(reviewed) /\ UNCHANGED failures
     \/ Failure /\ UNCHANGED shown
  /\ Return(c)
  /\ UNCHANGED <<status, moneyVars, total, counted, reviewed, shared>>

Crash ==
  /\ Failure
  /\ call # [c \in Calls |-> Idle]
  /\ call' = [c \in Calls |-> Idle]
  /\ UNCHANGED <<status, moneyVars, statVars, shared>>

Continue(c, b) ==
  \/ CreateIntent(c, b)
  \/ StoreIntent(c, b)
  \/ Uncount(c, b)
  \/ ReleaseEscrow(c, b)
  \/ Transfer(c, b)
  \/ RecordRelease(c, b)
  \/ CompleteUnreleased(c, b)
  \/ CountCompleted(c, b)
  \/ Rate(c, b)

Next ==
  \/ ConnectStripe
  \/ Crash
  \/ \E b \in Bookings :
       \/ ClientPays(b)
       \/ AcceptBooking(b)
       \/ DeliverBooking(b)
       \/ \E c \in Calls :
            \/ CreateBooking(c, b)
            \/ DeclineBooking(c, b)
            \/ CompleteBooking(c, b)
            \/ SubmitReview(c, b)
            \/ Continue(c, b)

Spec == Init /\ [][Next]_vars

----------------------------------------------------------------------------
(***************************************************************************)
(* Stripe is asked to pay the creator only for a delivered and charged     *)
(* booking: never for a declined one, however calls overlap.               *)
(***************************************************************************)
PayoutFollowsMoney ==
  \A b \in Bookings : transfers[b] > 0 => b \in charged /\ status[b] \in {"delivered", "completed"}

(***************************************************************************)
(* A payment shown as released was transferred, and its booking completed. *)
(***************************************************************************)
ReleasedWasPaid ==
  \A b \in released : transfers[b] > 0 /\ status[b] = "completed"

(***************************************************************************)
(* Row and transfer agree on the payout: the two above.                    *)
(***************************************************************************)
PayoutAgrees == PayoutFollowsMoney /\ ReleasedWasPaid

(***************************************************************************)
(* completed_bookings counts a booking at most once unless two approvals   *)
(* of it overlapped, and only after it completed.                          *)
(***************************************************************************)
CountedOnce ==
  \A b \in Bookings :
    /\ b \notin shared => counted[b] <= 1
    /\ counted[b] > 0 => status[b] = "completed"

(***************************************************************************)
(* However mutations overlap, fail and crash, the service implements the   *)
(* escrow it speaks of (stripe_connect.go:69): the client's money is held  *)
(* once charged and paid once transferred.                                 *)
(***************************************************************************)
Money ==
  [b \in Bookings |-> IF transfers[b] > 0 THEN "paid"
                      ELSE IF b \in charged THEN "held" ELSE "none"]

Escrow == INSTANCE EscrowLedger WITH deal <- status, escrow <- Money, settled <- released

ImplementsEscrow == Escrow!Spec
=============================================================================
