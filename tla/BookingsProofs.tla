--------------------------- MODULE BookingsProofs ---------------------------
(***************************************************************************)
(* What holds of Bookings for every set of bookings and of calls in flight *)
(* and every number of failures and crashes.                               *)
(*                                                                         *)
(* The properties speak of the rows and of Stripe; a call in flight has    *)
(* read the rows some statements ago.  IInv says what is still true of     *)
(* them: statuses, charges and transfers only move one way, so what a call *)
(* of CompleteBooking has seen it can rely on.                             *)
(***************************************************************************)
EXTENDS Bookings, FiniteSetTheorems, TLAPS

Approving(c, b) == call[c] # Idle /\ call[c].of = b /\ call[c].at \in Completing

(* What a call can rely on at each of its places. *)
CallsMatchRows ==
  \A c \in Calls : call[c] # Idle =>
    LET b == call[c].of IN
    /\ call[c].at \in Completing => status[b] \in {"delivered", "completed"}
    /\ call[c].at \in {"transfer", "record"} => b \in charged
    /\ call[c].at = "record" => transfers[b] = 1
    /\ call[c].at = "count" => status[b] = "completed"

(* The profile's total never exceeds the bookings there are. *)
Made == {b \in Bookings : status[b] # "none"}
TotalIsBounded == total <= Cardinality(Made)

(* A booking two approvals have not shared has one at most, and that one   *)
(* has not counted it.                                                     *)
OneApproval ==
  \A b \in Bookings \ shared : \A c \in Calls : Approving(c, b) =>
    /\ counted[b] = 0
    /\ \A d \in Calls : Approving(d, b) => d = c

IInv ==
  /\ TypeOK
  /\ CallsMatchRows
  /\ PayoutAgrees
  /\ TotalIsBounded
  /\ CountedOnce
  /\ OneApproval
----------------------------------------------------------------------------
(* The counters of the profile can be compared with the rows there are. *)
LEMMA RowsAreFinite ==
  ASSUME NEW S \in SUBSET Bookings
  PROVE  IsFiniteSet(S) /\ Cardinality(S) \in 0..Cardinality(Bookings)
<1>1. IsFiniteSet(Bookings) /\ Cardinality(Bookings) \in Nat
  BY BookingAssumption, FS_CardinalityType DEF BookingAssumption
<1> QED BY <1>1, FS_Subset, FS_CardinalityType

(* Every initial state satisfies the inductive invariant. *)
LEMMA InitIInv == Init => IInv
<1> SUFFICES ASSUME Init PROVE IInv
  OBVIOUS
<1> USE DEF Init
<1>1. TypeOK
  <2>1. connected \in BOOLEAN
    BY Zenon
  <2>2. 0 \in 0..Cardinality(Bookings) /\ failures \in 0..MaxFailures
    BY RowsAreFinite, BookingAssumption DEF BookingAssumption
  <2> QED BY <2>1, <2>2 DEF TypeOK, Status
<1>2. CallsMatchRows /\ PayoutAgrees /\ CountedOnce /\ OneApproval
  BY DEF CallsMatchRows, PayoutAgrees, PayoutFollowsMoney, ReleasedWasPaid, CountedOnce,
         OneApproval, Approving
<1>3. TotalIsBounded
  <2>1. Cardinality(Made) \in Nat
    BY RowsAreFinite DEF Made
  <2> QED BY <2>1 DEF TotalIsBounded
<1> QED BY <1>1, <1>2, <1>3 DEF IInv

(* Every step preserves the inductive invariant. *)
LEMMA NextIInv == IInv /\ [Next]_vars => IInv'
<1> SUFFICES ASSUME IInv, [Next]_vars PROVE IInv'
  OBVIOUS
<1> USE BookingAssumption DEF IInv, TypeOK, BookingAssumption, Busy, Idle, Status, Completing,
      Set, Begin, Proceed, Return, At, Failure,
        moneyVars, statVars
<1>1. ASSUME ConnectStripe PROVE IInv'
  <2>1. TypeOK'
    BY <1>1 DEF ConnectStripe, TypeOK
  <2>2. (CallsMatchRows /\ PayoutAgrees /\ TotalIsBounded /\ CountedOnce /\ OneApproval)'
    BY <1>1
       DEF ConnectStripe, CallsMatchRows, PayoutAgrees, TotalIsBounded, CountedOnce, OneApproval,
           PayoutFollowsMoney, ReleasedWasPaid, Made, Approving
  <2> QED BY <2>1, <2>2 DEF IInv
<1>2. ASSUME Crash PROVE IInv'
  <2>1. TypeOK'
    BY <1>2 DEF Crash, TypeOK
  <2>2. CallsMatchRows'
    BY <1>2 DEF Crash, CallsMatchRows
  <2>3. OneApproval'
    BY <1>2 DEF Crash, OneApproval, Approving
  <2>4. (PayoutAgrees /\ TotalIsBounded /\ CountedOnce)'
    BY <1>2
       DEF Crash, PayoutAgrees, TotalIsBounded, CountedOnce, PayoutFollowsMoney, ReleasedWasPaid,
           Made
  <2> QED BY <2>1, <2>2, <2>3, <2>4 DEF IInv
<1>3. ASSUME NEW b \in Bookings, ClientPays(b) PROVE IInv'
  <2>1. TypeOK'
    BY <1>3 DEF ClientPays, TypeOK
  <2>2. CallsMatchRows'
    BY <1>3 DEF ClientPays, CallsMatchRows
  <2>3. PayoutAgrees'
    BY <1>3 DEF ClientPays, PayoutAgrees, PayoutFollowsMoney, ReleasedWasPaid
  <2>4. (TotalIsBounded /\ CountedOnce /\ OneApproval)'
    BY <1>3 DEF ClientPays, TotalIsBounded, CountedOnce, OneApproval, Made, Approving
  <2> QED BY <2>1, <2>2, <2>3, <2>4 DEF IInv
<1>4. ASSUME NEW b \in Bookings, AcceptBooking(b) PROVE IInv'
  <2>1. TypeOK'
    BY <1>4 DEF AcceptBooking, TypeOK
  <2>2. CallsMatchRows'
    BY <1>4 DEF AcceptBooking, CallsMatchRows
  <2>3. PayoutAgrees'
    BY <1>4 DEF AcceptBooking, PayoutAgrees, PayoutFollowsMoney, ReleasedWasPaid
  <2>4. TotalIsBounded'
    BY <1>4 DEF AcceptBooking, TotalIsBounded, Made
  <2>5. CountedOnce'
    BY <1>4 DEF AcceptBooking, CountedOnce
  <2>6. OneApproval'
    BY <1>4 DEF AcceptBooking, OneApproval, Approving
  <2> QED BY <2>1, <2>2, <2>3, <2>4, <2>5, <2>6 DEF IInv
<1>5. ASSUME NEW b \in Bookings, DeliverBooking(b) PROVE IInv'
  <2>1. TypeOK'
    BY <1>5 DEF DeliverBooking, TypeOK
  <2>2. CallsMatchRows'
    BY <1>5 DEF DeliverBooking, CallsMatchRows
  <2>3. PayoutAgrees'
    BY <1>5 DEF DeliverBooking, PayoutAgrees, PayoutFollowsMoney, ReleasedWasPaid
  <2>4. TotalIsBounded'
    BY <1>5 DEF DeliverBooking, TotalIsBounded, Made
  <2>5. CountedOnce'
    BY <1>5 DEF DeliverBooking, CountedOnce
  <2>6. OneApproval'
    BY <1>5 DEF DeliverBooking, OneApproval, Approving
  <2> QED BY <2>1, <2>2, <2>3, <2>4, <2>5, <2>6 DEF IInv
<1>6. ASSUME NEW c \in Calls, NEW b \in Bookings, CreateBooking(c, b) PROVE IInv'
  <2>1. TypeOK'
    <3>1. Made # Bookings
      BY <1>6 DEF CreateBooking, Made
    <3>2. Cardinality(Made) < Cardinality(Bookings)
      BY <3>1, RowsAreFinite, FS_Subset, BookingAssumption DEF Made
    <3>3. total' \in 0..Cardinality(Bookings)
      BY <1>6, <3>2, RowsAreFinite DEF CreateBooking, TotalIsBounded, Made
    <3> QED BY <1>6, <3>3 DEF CreateBooking, TypeOK
  <2>2. CallsMatchRows'
    BY <1>6 DEF CreateBooking, CallsMatchRows
  <2>3. PayoutAgrees'
    BY <1>6 DEF CreateBooking, PayoutAgrees, PayoutFollowsMoney, ReleasedWasPaid
  <2>4. TotalIsBounded'
    <3>1. Made' = Made \cup {b} /\ b \notin Made
      BY <1>6 DEF CreateBooking, Made
    <3>2. Cardinality(Made') = Cardinality(Made) + 1
      BY <3>1, RowsAreFinite, FS_AddElement DEF Made
    <3> QED BY <1>6, <3>2, RowsAreFinite DEF CreateBooking, TotalIsBounded, Made
  <2>5. CountedOnce'
    BY <1>6 DEF CreateBooking, CountedOnce
  <2>6. OneApproval'
    BY <1>6 DEF CreateBooking, OneApproval, Approving
  <2> QED BY <2>1, <2>2, <2>3, <2>4, <2>5, <2>6 DEF IInv
<1>7. ASSUME NEW c \in Calls, NEW b \in Bookings, DeclineBooking(c, b) PROVE IInv'
  <2>1. TypeOK'
    BY <1>7 DEF DeclineBooking, TypeOK
  <2>2. CallsMatchRows'
    BY <1>7 DEF DeclineBooking, CallsMatchRows
  <2>3. PayoutAgrees'
    BY <1>7 DEF DeclineBooking, PayoutAgrees, PayoutFollowsMoney, ReleasedWasPaid
  <2>4. TotalIsBounded'
    BY <1>7 DEF DeclineBooking, TotalIsBounded, Made
  <2>5. CountedOnce'
    BY <1>7 DEF DeclineBooking, CountedOnce
  <2>6. OneApproval'
    BY <1>7 DEF DeclineBooking, OneApproval, Approving
  <2> QED BY <2>1, <2>2, <2>3, <2>4, <2>5, <2>6 DEF IInv
<1>8. ASSUME NEW c \in Calls, NEW b \in Bookings, CompleteBooking(c, b) PROVE IInv'
  <2>1. TypeOK'
    BY <1>8 DEF CompleteBooking, Completable, TypeOK
  <2>2. CallsMatchRows'
    BY <1>8 DEF CompleteBooking, Completable, CallsMatchRows
  <2>3. OneApproval'
    BY <1>8 DEF CompleteBooking, Completable, OneApproval, CountedOnce, Approving
  <2>4. (PayoutAgrees /\ TotalIsBounded /\ CountedOnce)'
    BY <1>8
       DEF CompleteBooking, Completable, PayoutAgrees, TotalIsBounded, CountedOnce,
           PayoutFollowsMoney, ReleasedWasPaid, Made
  <2> QED BY <2>1, <2>2, <2>3, <2>4 DEF IInv
<1>9. ASSUME NEW c \in Calls, NEW b \in Bookings, SubmitReview(c, b) PROVE IInv'
  <2>1. TypeOK'
    BY <1>9 DEF SubmitReview, TypeOK
  <2>2. CallsMatchRows'
    BY <1>9 DEF SubmitReview, CallsMatchRows
  <2>3. OneApproval'
    BY <1>9 DEF SubmitReview, OneApproval, Approving
  <2>4. (PayoutAgrees /\ TotalIsBounded /\ CountedOnce)'
    BY <1>9
       DEF SubmitReview, PayoutAgrees, TotalIsBounded, CountedOnce, PayoutFollowsMoney,
           ReleasedWasPaid, Made
  <2> QED BY <2>1, <2>2, <2>3, <2>4 DEF IInv
<1>10. ASSUME NEW c \in Calls, NEW b \in Bookings, CreateIntent(c, b) PROVE IInv'
  <2>1. TypeOK'
    BY <1>10 DEF CreateIntent, TypeOK
  <2>2. CallsMatchRows'
    BY <1>10 DEF CreateIntent, CallsMatchRows
  <2>3. OneApproval'
    BY <1>10 DEF CreateIntent, OneApproval, Approving
  <2>4. (PayoutAgrees /\ TotalIsBounded /\ CountedOnce)'
    BY <1>10
       DEF CreateIntent, PayoutAgrees, TotalIsBounded, CountedOnce, PayoutFollowsMoney,
           ReleasedWasPaid, Made
  <2> QED BY <2>1, <2>2, <2>3, <2>4 DEF IInv
<1>11. ASSUME NEW c \in Calls, NEW b \in Bookings, StoreIntent(c, b) PROVE IInv'
  <2>1. TypeOK'
    BY <1>11 DEF StoreIntent, TypeOK
  <2>2. CallsMatchRows'
    BY <1>11 DEF StoreIntent, CallsMatchRows
  <2>3. OneApproval'
    BY <1>11 DEF StoreIntent, OneApproval, Approving
  <2>4. (PayoutAgrees /\ TotalIsBounded /\ CountedOnce)'
    BY <1>11
       DEF StoreIntent, PayoutAgrees, TotalIsBounded, CountedOnce, PayoutFollowsMoney,
           ReleasedWasPaid, Made
  <2> QED BY <2>1, <2>2, <2>3, <2>4 DEF IInv
<1>12. ASSUME NEW c \in Calls, NEW b \in Bookings, Uncount(c, b) PROVE IInv'
  <2>1. TypeOK'
    <3>1. total' \in 0..Cardinality(Bookings)
      BY <1>12, RowsAreFinite DEF Uncount
    <3> QED BY <1>12, <3>1 DEF Uncount, TypeOK
  <2>2. CallsMatchRows'
    BY <1>12 DEF Uncount, CallsMatchRows
  <2>3. TotalIsBounded'
    <3>1. total' <= total /\ Made' = Made
      BY <1>12, RowsAreFinite DEF Uncount, Made
    <3>2. total \in Nat /\ total' \in Nat /\ Cardinality(Made) \in Nat
      BY <2>1, RowsAreFinite DEF Made
    <3> QED BY <3>1, <3>2 DEF TotalIsBounded
  <2>4. OneApproval'
    BY <1>12 DEF Uncount, OneApproval, Approving
  <2>5. (PayoutAgrees /\ CountedOnce)'
    BY <1>12 DEF Uncount, PayoutAgrees, CountedOnce, PayoutFollowsMoney, ReleasedWasPaid
  <2> QED BY <2>1, <2>2, <2>3, <2>4, <2>5 DEF IInv
<1>13. ASSUME NEW c \in Calls, NEW b \in Bookings, ReleaseEscrow(c, b) PROVE IInv'
  <2>1. TypeOK'
    BY <1>13 DEF ReleaseEscrow, Releasable, TypeOK
  <2>2. CallsMatchRows'
    BY <1>13 DEF ReleaseEscrow, Releasable, CallsMatchRows
  <2>3. OneApproval'
    BY <1>13 DEF ReleaseEscrow, Releasable, OneApproval, Approving
  <2>4. (PayoutAgrees /\ TotalIsBounded /\ CountedOnce)'
    BY <1>13
       DEF ReleaseEscrow, Releasable, PayoutAgrees, TotalIsBounded, CountedOnce,
           PayoutFollowsMoney, ReleasedWasPaid, Made
  <2> QED BY <2>1, <2>2, <2>3, <2>4 DEF IInv
<1>14. ASSUME NEW c \in Calls, NEW b \in Bookings, Transfer(c, b) PROVE IInv'
  <2>1. TypeOK'
    BY <1>14 DEF Transfer, TypeOK
  <2>2. CallsMatchRows'
    BY <1>14 DEF Transfer, CallsMatchRows
  <2>3. PayoutAgrees'
    BY <1>14 DEF Transfer, PayoutAgrees, CallsMatchRows, PayoutFollowsMoney, ReleasedWasPaid
  <2>4. OneApproval'
    BY <1>14 DEF Transfer, OneApproval, Approving
  <2>5. (TotalIsBounded /\ CountedOnce)'
    BY <1>14 DEF Transfer, TotalIsBounded, CountedOnce, Made
  <2> QED BY <2>1, <2>2, <2>3, <2>4, <2>5 DEF IInv
<1>15. ASSUME NEW c \in Calls, NEW b \in Bookings, RecordRelease(c, b) PROVE IInv'
  <2>1. TypeOK'
    BY <1>15 DEF RecordRelease, TypeOK
  <2>2. CallsMatchRows'
    BY <1>15 DEF RecordRelease, CallsMatchRows
  <2>3. PayoutAgrees'
    BY <1>15 DEF RecordRelease, PayoutAgrees, CallsMatchRows, PayoutFollowsMoney, ReleasedWasPaid
  <2>4. TotalIsBounded'
    <3>1. Made' = Made /\ total' = total
      BY <1>15 DEF RecordRelease, CallsMatchRows, Made
    <3> QED BY <3>1 DEF TotalIsBounded
  <2>5. CountedOnce'
    BY <1>15 DEF RecordRelease, CountedOnce
  <2>6. OneApproval'
    BY <1>15 DEF RecordRelease, OneApproval, Approving
  <2> QED BY <2>1, <2>2, <2>3, <2>4, <2>5, <2>6 DEF IInv
<1>16. ASSUME NEW c \in Calls, NEW b \in Bookings, CompleteUnreleased(c, b) PROVE IInv'
  <2>1. TypeOK'
    BY <1>16 DEF CompleteUnreleased, TypeOK
  <2>2. CallsMatchRows'
    BY <1>16 DEF CompleteUnreleased, CallsMatchRows
  <2>3. PayoutAgrees'
    BY <1>16 DEF CompleteUnreleased, PayoutAgrees, PayoutFollowsMoney, ReleasedWasPaid
  <2>4. TotalIsBounded'
    BY <1>16 DEF CompleteUnreleased, TotalIsBounded, Made
  <2>5. CountedOnce'
    BY <1>16 DEF CompleteUnreleased, CountedOnce
  <2>6. OneApproval'
    BY <1>16 DEF CompleteUnreleased, OneApproval, Approving
  <2> QED BY <2>1, <2>2, <2>3, <2>4, <2>5, <2>6 DEF IInv
<1>17. ASSUME NEW c \in Calls, NEW b \in Bookings, CountCompleted(c, b) PROVE IInv'
  <2>1. TypeOK'
    BY <1>17 DEF CountCompleted, TypeOK
  <2>2. CallsMatchRows'
    BY <1>17 DEF CountCompleted, CallsMatchRows
  <2>3. CountedOnce'
    BY <1>17 DEF CountCompleted, CountedOnce, CallsMatchRows, OneApproval, Approving
  <2>4. OneApproval'
    BY <1>17 DEF CountCompleted, OneApproval, Approving
  <2>5. (PayoutAgrees /\ TotalIsBounded)'
    BY <1>17
       DEF CountCompleted, PayoutAgrees, TotalIsBounded, PayoutFollowsMoney, ReleasedWasPaid, Made
  <2> QED BY <2>1, <2>2, <2>3, <2>4, <2>5 DEF IInv
<1>18. ASSUME NEW c \in Calls, NEW b \in Bookings, Rate(c, b) PROVE IInv'
  <2>1. TypeOK'
    <3>1. shown' \in 0..Cardinality(Bookings)
      BY <1>18, RowsAreFinite DEF Rate
    <3> QED BY <1>18, <3>1 DEF Rate, TypeOK
  <2>2. CallsMatchRows'
    BY <1>18 DEF Rate, CallsMatchRows
  <2>3. OneApproval'
    BY <1>18 DEF Rate, OneApproval, Approving
  <2>4. (PayoutAgrees /\ TotalIsBounded /\ CountedOnce)'
    BY <1>18
       DEF Rate, PayoutAgrees, TotalIsBounded, CountedOnce, PayoutFollowsMoney, ReleasedWasPaid,
           Made
  <2> QED BY <2>1, <2>2, <2>3, <2>4 DEF IInv
<1>19. CASE UNCHANGED vars
  BY <1>19
     DEF vars, IInv, TypeOK, CallsMatchRows, PayoutAgrees, TotalIsBounded, CountedOnce,
         OneApproval, PayoutFollowsMoney, ReleasedWasPaid, Approving, Made
<1> QED BY <1>1, <1>2, <1>3, <1>4, <1>5, <1>6, <1>7, <1>8, <1>9, <1>10, <1>11, <1>12, <1>13,
      <1>14, <1>15, <1>16, <1>17, <1>18, <1>19 DEF Next, Continue

(* The inductive invariant holds in every reachable state. *)
THEOREM Invariance == Spec => []IInv
BY InitIInv, NextIInv, PTL DEF Spec

(* Every variable keeps its type; the counters of the profile in           *)
(* particular stay within the number of bookings.                          *)
THEOREM TypeCorrect == Spec => []TypeOK
BY Invariance, PTL DEF IInv

(* However calls overlap, fail and crash, a creator is paid for delivered  *)
(* and charged bookings only, and what is shown as released was paid.      *)
THEOREM PayoutsAreEarned == Spec => []PayoutAgrees
BY Invariance, PTL DEF IInv

(* completed_bookings counts no booking twice that two approvals did not   *)
(* share, and none that did not complete.                                  *)
THEOREM CompletionsCountedOnce == Spec => []CountedOnce
BY Invariance, PTL DEF IInv

----------------------------------------------------------------------------
(* Money never comes back: a charge, a transfer, a release or a completed  *)
(* booking is never undone by a step of any call, nor by a crash.          *)
MoneyOnlyMovesOn ==
  [][/\ charged \subseteq charged'
     /\ released \subseteq released'
     /\ \A b \in Bookings :
          /\ transfers[b] <= transfers'[b]
          /\ status[b] \in {"declined", "completed"} => status'[b] = status[b]]_vars

(* Nothing a step of the service does takes money or an end state back. *)
THEOREM MoneyIsFinal == Spec => MoneyOnlyMovesOn
<1> DEFINE Onwards ==
             /\ charged \subseteq charged'
             /\ released \subseteq released'
             /\ \A b \in Bookings :
                  /\ transfers[b] <= transfers'[b]
                  /\ status[b] \in {"declined", "completed"} => status'[b] = status[b]
<1>1. ASSUME IInv, Next PROVE Onwards
  <2> USE <1>1 DEF IInv, TypeOK, moneyVars, statVars, Set
  <2>1. ASSUME NEW c \in Calls, NEW b \in Bookings, Transfer(c, b) PROVE Onwards
    BY <2>1 DEF Transfer
  <2>2. ASSUME NEW c \in Calls, NEW b \in Bookings, RecordRelease(c, b) PROVE Onwards
    BY <2>2 DEF RecordRelease, CallsMatchRows, At, Idle, Completing
  <2>3. ASSUME NEW c \in Calls, NEW b \in Bookings,
               \/ CreateIntent(c, b) \/ StoreIntent(c, b) \/ Uncount(c, b) \/ ReleaseEscrow(c, b)
               \/ CompleteUnreleased(c, b) \/ CountCompleted(c, b) \/ Rate(c, b)
        PROVE  Onwards
    BY <2>3
       DEF CreateIntent, StoreIntent, Uncount, ReleaseEscrow, CompleteUnreleased, CountCompleted,
           Rate
  <2>4. ASSUME NEW c \in Calls, NEW b \in Bookings,
               \/ CreateBooking(c, b) \/ DeclineBooking(c, b) \/ CompleteBooking(c, b)
               \/ SubmitReview(c, b)
        PROVE  Onwards
    BY <2>4 DEF CreateBooking, DeclineBooking, CompleteBooking, SubmitReview
  <2>5. ASSUME NEW b \in Bookings, ClientPays(b) \/ AcceptBooking(b) \/ DeliverBooking(b)
        PROVE  Onwards
    BY <2>5 DEF ClientPays, AcceptBooking, DeliverBooking
  <2>6. CASE ConnectStripe \/ Crash
    BY <2>6 DEF ConnectStripe, Crash
  <2> QED BY <2>1, <2>2, <2>3, <2>4, <2>5, <2>6 DEF Next, Continue
<1> QED BY <1>1, Invariance, PTL DEF Spec, MoneyOnlyMovesOn

----------------------------------------------------------------------------
(* Nobody pays for, or works on, a booking that is not in the table.       *)
BookingsExist ==
  /\ \A b \in Bookings : intent[b] # "none" => status[b] # "none"
  /\ \A c \in Calls : call[c] # Idle => status[call[c].of] # "none"

(* A booking stays in the table, and only its own mutation begins a call.  *)
LEMMA NextBookingsExist == IInv /\ BookingsExist /\ [Next]_vars => BookingsExist'
<1> SUFFICES ASSUME IInv, BookingsExist, [Next]_vars PROVE BookingsExist'
  OBVIOUS
<1> USE DEF BookingsExist, IInv, TypeOK, Idle, Busy, Set, Begin, Proceed, Return, At, moneyVars
<1>1. ASSUME NEW c \in Calls, NEW b \in Bookings, CreateBooking(c, b) PROVE BookingsExist'
  BY <1>1 DEF CreateBooking
<1>2. ASSUME NEW c \in Calls, NEW b \in Bookings,
             DeclineBooking(c, b) \/ CompleteBooking(c, b) \/ SubmitReview(c, b)
      PROVE  BookingsExist'
  BY <1>2 DEF DeclineBooking, CompleteBooking, Completable, SubmitReview
<1>3. ASSUME NEW c \in Calls, NEW b \in Bookings, CreateIntent(c, b) \/ StoreIntent(c, b)
      PROVE  BookingsExist'
  BY <1>3 DEF CreateIntent, StoreIntent
<1>4. ASSUME NEW c \in Calls, NEW b \in Bookings,
             Uncount(c, b) \/ CountCompleted(c, b) \/ Rate(c, b)
      PROVE  BookingsExist'
  BY <1>4 DEF Uncount, CountCompleted, Rate
<1>5. ASSUME NEW c \in Calls, NEW b \in Bookings, ReleaseEscrow(c, b) \/ Transfer(c, b)
      PROVE  BookingsExist'
  BY <1>5 DEF ReleaseEscrow, Transfer
<1>6. ASSUME NEW c \in Calls, NEW b \in Bookings, RecordRelease(c, b) \/ CompleteUnreleased(c, b)
      PROVE  BookingsExist'
  BY <1>6 DEF RecordRelease, CompleteUnreleased
<1>7. ASSUME NEW b \in Bookings, ClientPays(b) \/ AcceptBooking(b) \/ DeliverBooking(b)
      PROVE  BookingsExist'
  BY <1>7 DEF ClientPays, AcceptBooking, DeliverBooking
<1>8. CASE ConnectStripe \/ Crash
  BY <1>8 DEF ConnectStripe, Crash
<1>9. CASE UNCHANGED vars
  BY <1>9 DEF vars
<1> QED BY <1>1, <1>2, <1>3, <1>4, <1>5, <1>6, <1>7, <1>8, <1>9 DEF Next, Continue

(* What becomes of the money depends on charges and transfers alone. *)
LEMMA MoneyUnchanged ==
  ASSUME UNCHANGED <<charged, transfers>> PROVE Money' = Money
BY DEF Money

(* The initial state is an empty ledger. *)
LEMMA InitEscrow == Init => Escrow!Init
BY DEF Init, Escrow!Init, Money

(* Every step of a mutation, of the client and of Stripe is a step of the  *)
(* ledger or leaves it alone.                                              *)
LEMMA NextEscrow == IInv /\ BookingsExist /\ [Next]_vars => [Escrow!Next]_(Escrow!vars)
<1> SUFFICES ASSUME IInv, BookingsExist, [Next]_vars PROVE [Escrow!Next]_(Escrow!vars)
  OBVIOUS
<1> USE DEF IInv, TypeOK, Set, moneyVars, Escrow!vars
<1> DEFINE Still == UNCHANGED <<status, Money, released>>
<1>1. ASSUME NEW b \in Bookings, ClientPays(b) PROVE Escrow!Hold(b)
  <2>1. status[b] # "none" /\ Money[b] = "none"
    BY <1>1 DEF ClientPays, BookingsExist, Money, PayoutAgrees, PayoutFollowsMoney
  <2>2. Money' = [Money EXCEPT ![b] = "held"]
    <3>1. transfers' = transfers /\ charged' = charged \cup {b} /\ ~ (transfers[b] > 0)
      BY <1>1, <2>1 DEF ClientPays, Money
    <3>2. Money'[b] = "held" /\ \A a \in Bookings \ {b} : Money'[a] = Money[a]
      BY <3>1 DEF Money
    <3> QED BY <3>2 DEF Money
  <2> QED BY <1>1, <2>1, <2>2 DEF ClientPays, Escrow!Hold
<1>2. ASSUME NEW b \in Bookings, AcceptBooking(b) \/ DeliverBooking(b) PROVE Escrow!Agree(b)
  BY <1>2, MoneyUnchanged DEF AcceptBooking, DeliverBooking, Escrow!Agree, Escrow!Moves
<1>3. ASSUME NEW c \in Calls, NEW b \in Bookings, CreateBooking(c, b) \/ DeclineBooking(c, b)
      PROVE  Escrow!Agree(b)
  BY <1>3, MoneyUnchanged DEF CreateBooking, DeclineBooking, Escrow!Agree, Escrow!Moves
<1>4. ASSUME NEW c \in Calls, NEW b \in Bookings, Transfer(c, b)
      PROVE  Escrow!PayOut(b) \/ Still
  <2>1. CASE transfers[b] = 0 /\ transfers' = [transfers EXCEPT ![b] = 1]
    <3>1. b \in charged /\ status[b] \in {"delivered", "completed"}
      BY <1>4 DEF Transfer, CallsMatchRows, At, Idle, Completing
    <3>2. Money[b] = "held" /\ Money' = [Money EXCEPT ![b] = "paid"]
      <4>1. charged' = charged
        BY <1>4 DEF Transfer
      <4>2. Money[b] = "held" /\ Money'[b] = "paid" /\ \A a \in Bookings \ {b} : Money'[a] = Money[a]
        BY <2>1, <3>1, <4>1 DEF Money
      <4> QED BY <4>2 DEF Money
    <3> QED BY <1>4, <3>1, <3>2 DEF Transfer, Escrow!PayOut
  <2>2. CASE UNCHANGED transfers
    BY <1>4, <2>2, MoneyUnchanged DEF Transfer
  <2> QED BY <1>4, <2>1, <2>2 DEF Transfer
<1>5. ASSUME NEW c \in Calls, NEW b \in Bookings, RecordRelease(c, b)
      PROVE  Escrow!Settle(b) \/ Still
  <2>1. transfers[b] = 1 /\ status[b] \in {"delivered", "completed"}
    BY <1>5 DEF RecordRelease, CallsMatchRows, At, Idle, Completing
  <2>2. Money[b] = "paid" /\ Money' = Money
    BY <1>5, <2>1, MoneyUnchanged DEF RecordRelease, Money
  <2> QED BY <1>5, <2>1, <2>2 DEF RecordRelease, Escrow!Settle
<1>6. ASSUME NEW c \in Calls, NEW b \in Bookings, CompleteUnreleased(c, b)
      PROVE  Escrow!Agree(b) \/ Still
  BY <1>6, MoneyUnchanged DEF CompleteUnreleased, Escrow!Agree, Escrow!Moves
<1>7. ASSUME NEW c \in Calls, NEW b \in Bookings,
             \/ CompleteBooking(c, b) \/ SubmitReview(c, b) \/ CreateIntent(c, b)
             \/ StoreIntent(c, b) \/ Uncount(c, b) \/ ReleaseEscrow(c, b)
             \/ CountCompleted(c, b) \/ Rate(c, b)
      PROVE  Still
  BY <1>7, MoneyUnchanged DEF CompleteBooking, SubmitReview, CreateIntent, StoreIntent, Uncount,
     ReleaseEscrow, CountCompleted, Rate
<1>8. CASE ConnectStripe \/ Crash
  BY <1>8, MoneyUnchanged DEF ConnectStripe, Crash
<1>9. CASE UNCHANGED vars
  BY <1>9, MoneyUnchanged DEF vars
<1> QED BY <1>1, <1>2, <1>3, <1>4, <1>5, <1>6, <1>7, <1>8, <1>9 DEF Next, Continue, Escrow!Next

(* However mutations overlap, fail and crash, the client's money is held   *)
(* once charged, paid to the creator once and only for delivered work, and *)
(* shown as released only then: Bookings implements EscrowLedger.          *)
THEOREM BookingsImplementEscrow == Spec => ImplementsEscrow
<1>1. Init => BookingsExist
  BY DEF Init, BookingsExist, Idle
<1>2. Spec => []BookingsExist
  BY <1>1, NextBookingsExist, Invariance, PTL DEF Spec
<1>3. Spec => Escrow!Spec
  BY <1>2, InitEscrow, NextEscrow, Invariance, PTL DEF Spec, Escrow!Spec
<1> QED BY <1>3 DEF ImplementsEscrow
=============================================================================
