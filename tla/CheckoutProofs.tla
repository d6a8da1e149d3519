--------------------------- MODULE CheckoutProofs ---------------------------
(***************************************************************************)
(* What holds of Checkout for every set of orders, stalls, variants and    *)
(* carts and every number of redeliveries.  The safety invariants are not  *)
(* inductive by themselves: IInv adds how far a request, its order, its    *)
(* session, Stripe's events and the detached goroutines can be apart.      *)
(***************************************************************************)
EXTENDS Checkout, FiniteSetTheorems, TLAPS

(* How far the handler got determines what exists. *)
RequestMatchesOrder(o) ==
  /\ request[o] \in {"new", "resolved"} => order[o] = "none" /\ session[o] = "none"
  /\ request[o] = "ordered" => order[o] = "pending" /\ session[o] = "none"
  /\ request[o] = "new" => cart[o] = NoCart

(* The statuses an order can have beside each state of its session. *)
OrderMatchesSession(o) ==
  /\ session[o] = "none"     => order[o] \in {"none", "pending"}
  /\ session[o] = "open"     => order[o] = "pending"
  /\ session[o] = "complete" => order[o] \in {"pending", "paid", "shipped"}
  /\ session[o] = "expired"  => order[o] \in {"pending", "failed"}

(* Stripe only sends what happened to the session. *)
EventMatchesSession(o) ==
  /\ <<o, "completed">> \in outbox => session[o] = "complete"
  /\ <<o, "expired">> \in outbox => session[o] = "expired"

(* Goroutines and queue rows exist for orders that were paid. *)
EffectsFollowPayment(o) ==
  /\ o \in produced \cup confirmed => order[o] \in {"paid", "shipped"}
  /\ \A n \in Deliveries :
       /\ <<o, n, "enqueue">> \in jobs \/ <<o, n, "confirm">> \in jobs => order[o] \in {"paid", "shipped"}
       /\ \A v \in Variants : <<o, n, v>> \in decrements =>
            order[o] \in {"paid", "shipped"} /\ v \in DOMAIN cart[o]

(* A cart that was resolved holds goods of one stall. *)
ResolvedCartHasOneStall(o) ==
  request[o] = "resolved" \/ order[o] # "none" =>
    \E s \in Stores : StoresIn(cart[o]) = {s}

OrderInv(o) ==
  /\ RequestMatchesOrder(o)
  /\ OrderMatchesSession(o)
  /\ EventMatchesSession(o)
  /\ EffectsFollowPayment(o)
  /\ ResolvedCartHasOneStall(o)

IInv == TypeOK /\ \A o \in Orders : OrderInv(o)

----------------------------------------------------------------------------
(* GREATEST(n, 0) is a natural number. *)
LEMMA AtLeastZeroNat == ASSUME NEW n \in Int PROVE AtLeastZero(n) \in Nat
BY DEF AtLeastZero

(* A cart is a function from variants to integers, the empty cart included. *)
LEMMA CartShape ==
  ASSUME NEW c \in Carts \cup {NoCart}
  PROVE  DOMAIN c \subseteq Variants /\ \A v \in DOMAIN c : c[v] \in Int
<1>1. CASE c \in Carts
  BY <1>1, CheckoutAssumption DEF CheckoutAssumption
<1>2. CASE c = NoCart
  BY <1>2 DEF NoCart
<1> QED BY <1>1, <1>2

(* A cart that resolveCartTenant accepts holds goods of exactly one stall. *)
LEMMA AcceptableOneStall ==
  ASSUME NEW c \in Carts, Acceptable(c)
  PROVE  \E s \in Stores : StoresIn(c) = {s}
<1>1. PICK v \in DOMAIN c : TRUE
  BY DEF Acceptable
<1>2. v \in Variants
  BY CartShape
<1>3. StoreOf[v] \in Stores
  BY <1>2, CheckoutAssumption DEF CheckoutAssumption
<1>4. StoresIn(c) = {StoreOf[v]}
  BY <1>1 DEF Acceptable, StoresIn
<1> QED BY <1>3, <1>4

(* Every initial state satisfies the inductive invariant. *)
LEMMA InitIInv == Init => IInv
<1> SUFFICES ASSUME Init PROVE IInv
  OBVIOUS
<1> USE CheckoutAssumption DEF CheckoutAssumption
<1>1. TypeOK
  BY DEF Init, TypeOK, RequestState, OrderStatus, SessionStatus
<1>2. ASSUME NEW o \in Orders PROVE OrderInv(o)
  BY DEF Init, OrderInv, RequestMatchesOrder, OrderMatchesSession,
         EventMatchesSession, EffectsFollowPayment, ResolvedCartHasOneStall
<1> QED BY <1>1, <1>2 DEF IInv

(* Every step preserves the inductive invariant. *)
LEMMA NextIInv == IInv /\ [Next]_vars => IInv'
<1> SUFFICES ASSUME IInv, [Next]_vars PROVE IInv'
  OBVIOUS
<1> USE DEF IInv, OrderInv, TypeOK, RequestState, OrderStatus, SessionStatus,
            shopVars, stripeVars, effectVars, resultVars
<1>1. ASSUME NEW o \in Orders, NEW c \in Carts, ResolveCart(o, c)
      PROVE  IInv'
  <2>1. TypeOK'
    BY <1>1, CartShape, AcceptableOneStall DEF ResolveCart
  <2>2. ASSUME NEW p \in Orders PROVE OrderInv(p)'
    <3>1. RequestMatchesOrder(p)'
      BY <1>1 DEF ResolveCart, RequestMatchesOrder
    <3>2. OrderMatchesSession(p)'
      BY <1>1 DEF ResolveCart, OrderMatchesSession, EventMatchesSession, RequestMatchesOrder
    <3>3. EventMatchesSession(p)'
      BY <1>1 DEF ResolveCart, EventMatchesSession
    <3>4. EffectsFollowPayment(p)'
      BY <1>1 DEF ResolveCart, EffectsFollowPayment, OrderMatchesSession, EventMatchesSession, RequestMatchesOrder
    <3>5. ResolvedCartHasOneStall(p)'
      BY <1>1, CartShape, AcceptableOneStall DEF ResolveCart, ResolvedCartHasOneStall, OrderMatchesSession, EventMatchesSession, StoresIn
    <3> QED BY <3>1, <3>2, <3>3, <3>4, <3>5
  <2> QED BY <2>1, <2>2
<1>2. ASSUME NEW o \in Orders, NEW c \in Carts, RefuseCart(o, c)
      PROVE  IInv'
  BY <1>2 DEF RefuseCart, RequestMatchesOrder, OrderMatchesSession, EventMatchesSession,
         EffectsFollowPayment, ResolvedCartHasOneStall
<1>3. ASSUME NEW o \in Orders, CreatePendingOrder(o)
      PROVE  IInv'
  BY <1>3 DEF CreatePendingOrder, RequestMatchesOrder, OrderMatchesSession, EventMatchesSession,
         EffectsFollowPayment, ResolvedCartHasOneStall
<1>4. ASSUME NEW o \in Orders, PendingOrderFails(o)
      PROVE  IInv'
  BY <1>4 DEF PendingOrderFails, RequestMatchesOrder, OrderMatchesSession, EventMatchesSession,
         EffectsFollowPayment, ResolvedCartHasOneStall
<1>5. ASSUME NEW o \in Orders, OpenSession(o)
      PROVE  IInv'
  BY <1>5 DEF OpenSession, RequestMatchesOrder, OrderMatchesSession, EventMatchesSession,
         EffectsFollowPayment, ResolvedCartHasOneStall
<1>6. ASSUME NEW o \in Orders, OpenSessionFails(o)
      PROVE  IInv'
  <2>1. TypeOK'
    BY <1>6 DEF OpenSessionFails
  <2>2. ASSUME NEW p \in Orders PROVE OrderInv(p)'
    <3>1. RequestMatchesOrder(p)'
      BY <1>6 DEF OpenSessionFails, RequestMatchesOrder
    <3>2. OrderMatchesSession(p)'
      BY <1>6 DEF OpenSessionFails, OrderMatchesSession, EventMatchesSession, RequestMatchesOrder
    <3>3. EventMatchesSession(p)'
      BY <1>6 DEF OpenSessionFails, EventMatchesSession, RequestMatchesOrder
    <3>4. EffectsFollowPayment(p)'
      BY <1>6 DEF OpenSessionFails, EffectsFollowPayment, OrderMatchesSession, EventMatchesSession, RequestMatchesOrder
    <3>5. ResolvedCartHasOneStall(p)'
      BY <1>6 DEF OpenSessionFails, ResolvedCartHasOneStall, OrderMatchesSession, EventMatchesSession, StoresIn
    <3> QED BY <3>1, <3>2, <3>3, <3>4, <3>5
  <2> QED BY <2>1, <2>2
<1>7. ASSUME NEW o \in Orders, Reply(o)
      PROVE  IInv'
  BY <1>7 DEF Reply, RequestMatchesOrder, OrderMatchesSession, EventMatchesSession,
         EffectsFollowPayment, ResolvedCartHasOneStall
<1>8. ASSUME NEW o \in Orders, CustomerPays(o)
      PROVE  IInv'
  <2>1. TypeOK'
    BY <1>8 DEF CustomerPays
  <2>2. ASSUME NEW p \in Orders PROVE OrderInv(p)'
    <3>1. RequestMatchesOrder(p)'
      BY <1>8 DEF CustomerPays, RequestMatchesOrder
    <3>2. OrderMatchesSession(p)'
      BY <1>8 DEF CustomerPays, OrderMatchesSession, EventMatchesSession, RequestMatchesOrder
    <3>3. EventMatchesSession(p)'
      BY <1>8 DEF CustomerPays, EventMatchesSession
    <3>4. EffectsFollowPayment(p)'
      BY <1>8 DEF CustomerPays, EffectsFollowPayment, OrderMatchesSession, EventMatchesSession, RequestMatchesOrder
    <3>5. ResolvedCartHasOneStall(p)'
      BY <1>8 DEF CustomerPays, ResolvedCartHasOneStall, OrderMatchesSession, EventMatchesSession, StoresIn
    <3> QED BY <3>1, <3>2, <3>3, <3>4, <3>5
  <2> QED BY <2>1, <2>2
<1>9. ASSUME NEW o \in Orders, SessionExpires(o)
      PROVE  IInv'
  BY <1>9 DEF SessionExpires, RequestMatchesOrder, OrderMatchesSession, EventMatchesSession,
         EffectsFollowPayment, ResolvedCartHasOneStall
<1>10. ASSUME NEW o \in Orders, NEW acked \in BOOLEAN, HandleCompleted(o, acked)
      PROVE  IInv'
  <2>n. processed[o] + 1 \in Deliveries
    BY <1>10, CheckoutAssumption DEF HandleCompleted, Deliveries, Bound, CheckoutAssumption
  <2>1. TypeOK'
    <3>1. processed' \in [Orders -> 0..MaxDeliveries]
      BY <1>10, <2>n DEF HandleCompleted, Deliveries
    <3>2. decrements' \subseteq Orders \X Deliveries \X Variants
      BY <1>10, <2>n, CartShape DEF HandleCompleted
    <3>3. jobs' \subseteq Orders \X Deliveries \X {"confirm", "enqueue"}
      BY <1>10, <2>n DEF HandleCompleted, JobKinds
    <3>4. order' \in [Orders -> OrderStatus] /\ outbox' \subseteq Orders \X {"completed", "expired"}
      BY <1>10 DEF HandleCompleted, FromPending
    <3> QED BY <1>10, <3>1, <3>2, <3>3, <3>4 DEF HandleCompleted
  <2>2. ASSUME NEW p \in Orders PROVE OrderInv(p)'
    <3>1. RequestMatchesOrder(p)'
      BY <1>10 DEF HandleCompleted, FromPending, RequestMatchesOrder, EventMatchesSession
    <3>2. OrderMatchesSession(p)'
      BY <1>10 DEF HandleCompleted, FromPending, OrderMatchesSession, EventMatchesSession, RequestMatchesOrder
    <3>3. EventMatchesSession(p)'
      BY <1>10 DEF HandleCompleted, FromPending, EventMatchesSession
    <3>4. EffectsFollowPayment(p)'
      <4>1. order'[o] \in {"paid", "shipped"}
        BY <1>10 DEF HandleCompleted, FromPending, OrderMatchesSession, EventMatchesSession
      <4>2. order[p] \in {"paid", "shipped"} => order'[p] \in {"paid", "shipped"}
        BY <1>10 DEF HandleCompleted, FromPending
      <4>3. CASE p = o
        BY <1>10, <4>1, <4>3 DEF HandleCompleted, EffectsFollowPayment
      <4>4. CASE p # o
        BY <1>10, <4>2, <4>4 DEF HandleCompleted, EffectsFollowPayment
      <4> QED BY <4>3, <4>4
    <3>5. ResolvedCartHasOneStall(p)'
      BY <1>10, CartShape DEF HandleCompleted, FromPending, ResolvedCartHasOneStall, OrderMatchesSession, EventMatchesSession, StoresIn
    <3> QED BY <3>1, <3>2, <3>3, <3>4, <3>5
  <2> QED BY <2>1, <2>2
<1>11. ASSUME NEW o \in Orders, NEW stored \in BOOLEAN, NEW acked \in BOOLEAN, HandleExpired(o, stored, acked)
      PROVE  IInv'
  <2>1. TypeOK'
    BY <1>11 DEF HandleExpired, FromPending
  <2>2. ASSUME NEW p \in Orders PROVE OrderInv(p)'
    <3>1. RequestMatchesOrder(p)'
      BY <1>11 DEF HandleExpired, FromPending, RequestMatchesOrder, EventMatchesSession
    <3>2. OrderMatchesSession(p)'
      BY <1>11 DEF HandleExpired, FromPending, OrderMatchesSession, EventMatchesSession, RequestMatchesOrder
    <3>3. EventMatchesSession(p)'
      BY <1>11 DEF HandleExpired, FromPending, EventMatchesSession
    <3>4. EffectsFollowPayment(p)'
      BY <1>11 DEF HandleExpired, FromPending, EffectsFollowPayment, OrderMatchesSession, EventMatchesSession, RequestMatchesOrder
    <3>5. ResolvedCartHasOneStall(p)'
      BY <1>11 DEF HandleExpired, FromPending, ResolvedCartHasOneStall, OrderMatchesSession, EventMatchesSession, StoresIn
    <3> QED BY <3>1, <3>2, <3>3, <3>4, <3>5
  <2> QED BY <2>1, <2>2
<1>12. ASSUME NEW o \in Orders, ShipOrder(o)
      PROVE  IInv'
  <2>1. TypeOK'
    BY <1>12 DEF ShipOrder
  <2>2. order[o] \in {"paid", "shipped"}
    BY <1>12 DEF ShipOrder, EffectsFollowPayment
  <2>3. \A p \in Orders : order'[p] = IF p = o THEN "shipped" ELSE order[p]
    BY <1>12 DEF ShipOrder
  <2>4. UNCHANGED <<cart, request, session, outbox, decrements, jobs, confirmed, produced>>
    BY <1>12 DEF ShipOrder
  <2>5. ASSUME NEW p \in Orders PROVE OrderInv(p)'
    <3>1. RequestMatchesOrder(p)'
      BY <2>2, <2>3, <2>4 DEF RequestMatchesOrder
    <3>2. OrderMatchesSession(p)'
      BY <2>2, <2>3, <2>4 DEF OrderMatchesSession
    <3>3. EventMatchesSession(p)'
      BY <2>4 DEF EventMatchesSession
    <3>4. EffectsFollowPayment(p)'
      BY <2>2, <2>3, <2>4 DEF EffectsFollowPayment
    <3>5. ResolvedCartHasOneStall(p)'
      BY <2>2, <2>3, <2>4 DEF ResolvedCartHasOneStall, StoresIn
    <3> QED BY <3>1, <3>2, <3>3, <3>4, <3>5
  <2> QED BY <2>1, <2>5
<1>13. ASSUME NEW o \in Orders, NEW n \in Deliveries, NEW v \in Variants, DecrementInventory(o, n, v)
      PROVE  IInv'
  <2>1. TypeOK'
    <3>1. cart[o][v] \in Int
      BY <1>13, CartShape DEF DecrementInventory, EffectsFollowPayment
    <3>2. AtLeastZero(stock[v] - cart[o][v]) \in Nat
      BY <3>1, AtLeastZeroNat
    <3>3. stock' \in [Variants -> Nat]
      BY <1>13, <3>2 DEF DecrementInventory
    <3>4. [taken[o] EXCEPT ![v] = @ \cup {n}] \in [Variants -> SUBSET Deliveries]
      BY <1>13
    <3>5. taken' \in [Orders -> [Variants -> SUBSET Deliveries]]
      BY <1>13, <3>4 DEF DecrementInventory
    <3> QED BY <1>13, <3>3, <3>5 DEF DecrementInventory
  <2>2. ASSUME NEW p \in Orders PROVE OrderInv(p)'
    <3>1. RequestMatchesOrder(p)'
      BY <1>13 DEF DecrementInventory, RequestMatchesOrder
    <3>2. OrderMatchesSession(p)'
      BY <1>13 DEF DecrementInventory, OrderMatchesSession, EventMatchesSession, RequestMatchesOrder
    <3>3. EventMatchesSession(p)'
      BY <1>13 DEF DecrementInventory, EventMatchesSession
    <3>4. EffectsFollowPayment(p)'
      BY <1>13 DEF DecrementInventory, EffectsFollowPayment, OrderMatchesSession, EventMatchesSession, RequestMatchesOrder
    <3>5. ResolvedCartHasOneStall(p)'
      BY <1>13, CartShape, AtLeastZeroNat DEF DecrementInventory, ResolvedCartHasOneStall, OrderMatchesSession, EventMatchesSession, StoresIn
    <3> QED BY <3>1, <3>2, <3>3, <3>4, <3>5
  <2> QED BY <2>1, <2>2
<1>14. ASSUME NEW o \in Orders, NEW n \in Deliveries, NEW v \in Variants, DecrementFails(o, n, v)
      PROVE  IInv'
  BY <1>14 DEF DecrementFails, RequestMatchesOrder, OrderMatchesSession, EventMatchesSession,
         EffectsFollowPayment, ResolvedCartHasOneStall
<1>15. ASSUME NEW o \in Orders, NEW n \in Deliveries, SendOrderConfirmation(o, n)
      PROVE  IInv'
  BY <1>15 DEF SendOrderConfirmation, RequestMatchesOrder, OrderMatchesSession, EventMatchesSession,
         EffectsFollowPayment, ResolvedCartHasOneStall
<1>16. ASSUME NEW o \in Orders, NEW n \in Deliveries, EnqueueOrder(o, n)
      PROVE  IInv'
  BY <1>16 DEF EnqueueOrder, RequestMatchesOrder, OrderMatchesSession, EventMatchesSession,
         EffectsFollowPayment, ResolvedCartHasOneStall
<1>17. ASSUME NEW o \in Orders, NEW n \in Deliveries, NEW k \in JobKinds, JobFails(o, n, k)
      PROVE  IInv'
  BY <1>17 DEF JobFails, RequestMatchesOrder, OrderMatchesSession, EventMatchesSession,
         EffectsFollowPayment, ResolvedCartHasOneStall
<1>18. ASSUME NEW s \in Stores, Moderate(s)
      PROVE  IInv'
  BY <1>18 DEF Moderate, RequestMatchesOrder, OrderMatchesSession, EventMatchesSession,
         EffectsFollowPayment, ResolvedCartHasOneStall
<1>19. ASSUME Crash PROVE IInv'
  BY <1>19 DEF Crash, RequestMatchesOrder, OrderMatchesSession, EventMatchesSession,
         EffectsFollowPayment, ResolvedCartHasOneStall
<1>20. ASSUME UNCHANGED vars PROVE IInv'
  BY <1>20 DEF vars, RequestMatchesOrder, OrderMatchesSession, EventMatchesSession,
         EffectsFollowPayment, ResolvedCartHasOneStall, StoresIn
<1> QED BY <1>1, <1>2, <1>3, <1>4, <1>5, <1>6, <1>7, <1>8, <1>9, <1>10, <1>11, <1>12, <1>13, <1>14, <1>15, <1>16, <1>17, <1>18, <1>19, <1>20 DEF Next

(* The inductive invariant holds in every reachable state. *)
THEOREM Invariance == Spec => []IInv
BY InitIInv, NextIInv, PTL DEF Spec

(* Every variable keeps its type; stock in particular never goes negative. *)
THEOREM TypeCorrect == Spec => []TypeOK
BY Invariance, PTL DEF IInv

(* Nothing is produced or shipped before its session was paid. *)
THEOREM PaidBeforeMade == Spec => []ProductionWasPaid
<1>1. IInv => ProductionWasPaid
  BY DEF IInv, TypeOK, OrderInv, OrderMatchesSession, EffectsFollowPayment,
         ProductionWasPaid, SessionStatus
<1> QED BY <1>1, Invariance, PTL

(* No order is written off while its session can be, or was, paid. *)
THEOREM NoChargeForFailed == Spec => []FailedNeverCharged
<1>1. IInv => FailedNeverCharged
  BY DEF IInv, TypeOK, OrderInv, OrderMatchesSession, FailedNeverCharged, SessionStatus
<1> QED BY <1>1, Invariance, PTL

(* Every order row holds goods of exactly one stall. *)
THEOREM OneStallPerOrder == Spec => []CartBelongsToOneStall
<1>1. IInv => CartBelongsToOneStall
  BY DEF IInv, OrderInv, ResolvedCartHasOneStall, CartBelongsToOneStall
<1> QED BY <1>1, Invariance, PTL

(* Stripe holds no session whose order was not committed before it. *)
THEOREM OrderBeforeSession == Spec => []NoSessionWithoutOrder
<1>1. IInv => NoSessionWithoutOrder
  BY DEF IInv, TypeOK, OrderInv, OrderMatchesSession, NoSessionWithoutOrder, SessionStatus
<1> QED BY <1>1, Invariance, PTL

(* Nobody is charged for an order that is not there or was written off. *)
THEOREM ChargeHasItsOrder == Spec => []OrderAgreesWithMoney
BY NoChargeForFailed, OrderBeforeSession, PTL DEF OrderAgreesWithMoney

----------------------------------------------------------------------------
(* How a step may change one order's status. *)
LEMMA StatusStep ==
  ASSUME IInv, [Next]_vars, NEW o \in Orders, order'[o] # order[o]
  PROVE  <<order[o], order'[o]>> \in StatusFlow
<1>a. order' # order
  OBVIOUS
<1>b. Next
  BY <1>a DEF vars
<1>1. PICK p \in Orders :
        \/ CreatePendingOrder(p)
        \/ \E acked \in BOOLEAN : HandleCompleted(p, acked)
        \/ \E stored, acked \in BOOLEAN : HandleExpired(p, stored, acked)
        \/ ShipOrder(p)
  <2> HIDE DEF IInv
  <2>1. PICK p \in Orders :
          \/ \E c \in Carts : ResolveCart(p, c) \/ RefuseCart(p, c)
          \/ CreatePendingOrder(p) \/ PendingOrderFails(p)
          \/ OpenSession(p) \/ OpenSessionFails(p) \/ Reply(p)
          \/ CustomerPays(p) \/ SessionExpires(p)
          \/ \E acked \in BOOLEAN : HandleCompleted(p, acked)
          \/ \E stored, acked \in BOOLEAN : HandleExpired(p, stored, acked)
          \/ ShipOrder(p)
          \/ \E n \in Deliveries :
               \/ \E v \in Variants : DecrementInventory(p, n, v) \/ DecrementFails(p, n, v)
               \/ SendOrderConfirmation(p, n) \/ EnqueueOrder(p, n)
               \/ \E k \in JobKinds : JobFails(p, n, k)
    BY <1>a, <1>b DEF Next, Moderate, Crash
  <2> QED
    BY <1>a, <2>1 DEF ResolveCart, RefuseCart, PendingOrderFails, OpenSession,
       OpenSessionFails, Reply, CustomerPays, SessionExpires,
       DecrementInventory, DecrementFails, SendOrderConfirmation, EnqueueOrder, JobFails
<1> USE DEF IInv, OrderInv, TypeOK, OrderStatus, SessionStatus, StatusFlow,
            shopVars, stripeVars, effectVars, resultVars
<1>2. CASE CreatePendingOrder(p)
  BY <1>2 DEF CreatePendingOrder, RequestMatchesOrder
<1>3. CASE \E acked \in BOOLEAN : HandleCompleted(p, acked)
  BY <1>3 DEF HandleCompleted, FromPending
<1>4. CASE \E stored, acked \in BOOLEAN : HandleExpired(p, stored, acked)
  BY <1>4 DEF HandleExpired, FromPending
<1>5. CASE ShipOrder(p)
  BY <1>5 DEF ShipOrder, EffectsFollowPayment
<1> QED BY <1>1, <1>2, <1>3, <1>4, <1>5

(* orders.status only moves forward along migration 003's flow. *)
THEOREM StatusOnlyMovesForward == Spec => StatusFollowsFlow
<1>1. IInv /\ [Next]_vars
        => [\A o \in Orders : order'[o] # order[o] => <<order[o], order'[o]>> \in StatusFlow]_vars
  BY StatusStep
<1> QED BY <1>1, Invariance, PTL DEF Spec, StatusFollowsFlow

----------------------------------------------------------------------------
(* The money an order's session stands for. *)
LEMMA ChargeUnchanged ==
  ASSUME session' = session PROVE Charge' = Charge
BY DEF Charge

(* The initial state is an empty ledger. *)
LEMMA InitLedger == Init => Ledger!Init
BY DEF Init, Ledger!Init, Charge

(* Every step of the handlers, Stripe and the goroutines is a step of the  *)
(* ledger or leaves it alone.                                              *)
LEMMA NextLedger == IInv /\ [Next]_vars => [Ledger!Next]_(Ledger!vars)
<1> SUFFICES ASSUME IInv, [Next]_vars PROVE [Ledger!Next]_(Ledger!vars)
  OBVIOUS
<1> USE DEF IInv, OrderInv, TypeOK, SessionStatus, OrderStatus, Ledger!vars,
            shopVars, stripeVars, effectVars, resultVars
<1>1. ASSUME NEW o \in Orders, CreatePendingOrder(o) PROVE Ledger!Place(o)
  BY <1>1, ChargeUnchanged DEF CreatePendingOrder, Ledger!Place, RequestMatchesOrder
<1>2. ASSUME NEW o \in Orders, OpenSession(o) \/ OpenSessionFails(o)
      PROVE  UNCHANGED <<order, Charge, produced>>
  <2>1. session[o] = "none"
    BY <1>2 DEF OpenSession, OpenSessionFails, RequestMatchesOrder
  <2>2. PICK s \in {"none", "open"} : session' = [session EXCEPT ![o] = s]
    BY <1>2 DEF OpenSession, OpenSessionFails
  <2>3. Charge' = Charge
    BY <2>1, <2>2 DEF Charge
  <2> QED BY <1>2, <2>3 DEF OpenSession, OpenSessionFails
<1>3. ASSUME NEW o \in Orders, CustomerPays(o) PROVE Ledger!Settle(o, "captured")
  <2>1. order[o] = "pending" /\ Charge[o] = "none"
    BY <1>3 DEF CustomerPays, OrderMatchesSession, Charge
  <2>2. Charge' = [Charge EXCEPT ![o] = "captured"]
    BY <1>3 DEF CustomerPays, Charge
  <2> QED BY <1>3, <2>1, <2>2 DEF CustomerPays, Ledger!Settle
<1>4. ASSUME NEW o \in Orders, SessionExpires(o) PROVE Ledger!Settle(o, "void")
  <2>1. order[o] = "pending" /\ Charge[o] = "none"
    BY <1>4 DEF SessionExpires, OrderMatchesSession, Charge
  <2>2. Charge' = [Charge EXCEPT ![o] = "void"]
    BY <1>4 DEF SessionExpires, Charge
  <2> QED BY <1>4, <2>1, <2>2 DEF SessionExpires, Ledger!Settle
<1>5. ASSUME NEW o \in Orders, NEW acked \in BOOLEAN, HandleCompleted(o, acked)
      PROVE  Ledger!Record(o) \/ UNCHANGED <<order, Charge, produced>>
  <2>1. Charge' = Charge /\ produced' = produced
    BY <1>5, ChargeUnchanged DEF HandleCompleted
  <2>2. Charge[o] = "captured"
    BY <1>5 DEF HandleCompleted, EventMatchesSession, Charge
  <2>3. CASE order[o] = "pending"
    BY <1>5, <2>1, <2>2, <2>3 DEF HandleCompleted, FromPending, Ledger!Record
  <2>4. CASE order[o] # "pending"
    BY <1>5, <2>1, <2>4 DEF HandleCompleted, FromPending
  <2> QED BY <2>3, <2>4
<1>6. ASSUME NEW o \in Orders, NEW stored \in BOOLEAN, NEW acked \in BOOLEAN,
             HandleExpired(o, stored, acked)
      PROVE  Ledger!Record(o) \/ UNCHANGED <<order, Charge, produced>>
  <2>1. Charge' = Charge /\ produced' = produced
    BY <1>6, ChargeUnchanged DEF HandleExpired
  <2>2. Charge[o] = "void"
    BY <1>6 DEF HandleExpired, EventMatchesSession, Charge
  <2>3. CASE stored /\ order[o] = "pending"
    BY <1>6, <2>1, <2>2, <2>3 DEF HandleExpired, FromPending, Ledger!Record
  <2>4. CASE ~ (stored /\ order[o] = "pending")
    BY <1>6, <2>1, <2>4 DEF HandleExpired, FromPending
  <2> QED BY <2>3, <2>4
<1>7. ASSUME NEW o \in Orders, ShipOrder(o) PROVE Ledger!Ship(o)
  BY <1>7, ChargeUnchanged DEF ShipOrder, Ledger!Ship
<1>8. ASSUME NEW o \in Orders, NEW n \in Deliveries, EnqueueOrder(o, n)
      PROVE  Ledger!StartProduction(o)
  BY <1>8, ChargeUnchanged DEF EnqueueOrder, Ledger!StartProduction, EffectsFollowPayment
<1>9. UNCHANGED <<order, session, produced>> => UNCHANGED <<order, Charge, produced>>
  BY ChargeUnchanged
<1>10. \/ UNCHANGED <<order, session, produced>>
       \/ \E o \in Orders :
            \/ CreatePendingOrder(o) \/ OpenSession(o) \/ OpenSessionFails(o)
            \/ CustomerPays(o) \/ SessionExpires(o) \/ ShipOrder(o)
            \/ \E acked \in BOOLEAN : HandleCompleted(o, acked)
            \/ \E stored, acked \in BOOLEAN : HandleExpired(o, stored, acked)
            \/ \E n \in Deliveries : EnqueueOrder(o, n)
  <2> DEFINE Still == UNCHANGED <<order, session, produced>>
  <2> HIDE DEF IInv
  <2>1. ASSUME NEW o \in Orders, NEW c \in Carts, ResolveCart(o, c) \/ RefuseCart(o, c) PROVE Still
    BY <2>1 DEF ResolveCart, RefuseCart
  <2>2. ASSUME NEW o \in Orders, PendingOrderFails(o) \/ Reply(o) PROVE Still
    BY <2>2 DEF PendingOrderFails, Reply
  <2>3. ASSUME NEW o \in Orders, NEW n \in Deliveries,
               \/ \E v \in Variants : DecrementInventory(o, n, v) \/ DecrementFails(o, n, v)
               \/ SendOrderConfirmation(o, n)
               \/ \E k \in JobKinds : JobFails(o, n, k)
        PROVE  Still
    BY <2>3 DEF DecrementInventory, DecrementFails, SendOrderConfirmation, JobFails
  <2>4. (\E s \in Stores : Moderate(s)) \/ Crash \/ UNCHANGED vars => Still
    BY DEF Moderate, Crash, vars
  <2> HIDE DEF Still
  <2>5. Still \/ \E o \in Orders :
          \/ CreatePendingOrder(o) \/ OpenSession(o) \/ OpenSessionFails(o)
          \/ CustomerPays(o) \/ SessionExpires(o) \/ ShipOrder(o)
          \/ \E acked \in BOOLEAN : HandleCompleted(o, acked)
          \/ \E stored, acked \in BOOLEAN : HandleExpired(o, stored, acked)
          \/ \E n \in Deliveries : EnqueueOrder(o, n)
    BY <2>1, <2>2, <2>3, <2>4 DEF Next
  <2> QED BY <2>5 DEF Still
<1> HIDE DEF IInv
<1> QED
  BY <1>1, <1>2, <1>3, <1>4, <1>5, <1>6, <1>7, <1>8, <1>9, <1>10 DEF Ledger!Next

(* Checkout implements the safety part of the marketplace's ledger. *)
THEOREM CheckoutImplementsLedger == Spec => Ledger!Spec
BY InitLedger, NextLedger, Invariance, PTL DEF Spec, Ledger!Spec

----------------------------------------------------------------------------
(***************************************************************************)
(* Stock.  The sum of what was taken is kept as a set of units, so that a  *)
(* goroutine's update adds the units of one delivery, which are new: it    *)
(* has not run before, and the cart does not change once an order took     *)
(* goods.  Both are the second inductive invariant, relative to IInv.      *)
(***************************************************************************)

(* The cart that was accepted has positive quantities. *)
CartIsPositive(o) ==
  request[o] = "resolved" \/ order[o] # "none" =>
    cart[o] \in Carts /\ \A v \in DOMAIN cart[o] : cart[o][v] > 0

(* Only a paid order takes stock. *)
TakenWasPaid(o) ==
  \A v \in Variants : taken[o][v] # {} => order[o] \in {"paid", "shipped"}

(* Deliveries are numbered as they come, and a pending goroutine is not among those that ran. *)
DeliveredOnce(o) ==
  /\ \A v \in Variants : \A n \in taken[o][v] : n <= processed[o]
  /\ \A n \in Deliveries, v \in Variants : <<o, n, v>> \in decrements =>
       n <= processed[o] /\ n \notin taken[o][v]

StockMatches(v) ==
  /\ IsFiniteSet(UnitsTaken(v))
  /\ stock[v] = AtLeastZero(InitialStock[v] - Cardinality(UnitsTaken(v)))

StockInv ==
  /\ \A o \in Orders : CartIsPositive(o) /\ TakenWasPaid(o) /\ DeliveredOnce(o)
  /\ \A v \in Variants : StockMatches(v)

(* Nothing is taken at the start. *)
LEMMA InitStock == Init => StockInv
<1> SUFFICES ASSUME Init PROVE StockInv
  OBVIOUS
<1>1. ASSUME NEW o \in Orders PROVE CartIsPositive(o) /\ TakenWasPaid(o) /\ DeliveredOnce(o)
  BY DEF Init, CartIsPositive, TakenWasPaid, DeliveredOnce
<1>2. ASSUME NEW v \in Variants PROVE StockMatches(v)
  <2>1. TookFrom(v) = {}
    BY DEF Init, TookFrom
  <2>2. UnitsTaken(v) = {}
    BY <2>1 DEF UnitsTaken
  <2>3. IsFiniteSet(UnitsTaken(v)) /\ Cardinality(UnitsTaken(v)) = 0
    BY <2>2, FS_EmptySet
  <2>4. stock[v] = InitialStock[v] /\ InitialStock[v] \in Nat
    BY CheckoutAssumption DEF Init, CheckoutAssumption
  <2> QED BY <2>3, <2>4 DEF StockMatches, AtLeastZero
<1> QED BY <1>1, <1>2 DEF StockInv

(* A batch of one delivery's units that were not counted before adds its quantity. *)
LEMMA AddUnits ==
  ASSUME NEW U, IsFiniteSet(U), NEW d, NEW q \in Nat, \A i : <<d, i>> \notin U
  PROVE  /\ IsFiniteSet(U \cup ({d} \X (1..q)))
         /\ Cardinality(U \cup ({d} \X (1..q))) = Cardinality(U) + q
<1> DEFINE D == {d} \X (1..q)
<1>1. IsFiniteSet({d}) /\ Cardinality({d}) = 1
  BY FS_Singleton
<1>2. IsFiniteSet(1..q) /\ Cardinality(1..q) = q
  BY FS_Interval
<1>3. IsFiniteSet(D) /\ Cardinality(D) = q
  <2> DEFINE I == 1..q
  <2>1. IsFiniteSet(I) /\ Cardinality(I) = q
    BY <1>2
  <2> HIDE DEF I
  <2>2. IsFiniteSet({d} \X I) /\ Cardinality({d} \X I) = Cardinality({d}) * Cardinality(I)
    BY <1>1, <2>1, FS_Product
  <2>3. Cardinality({d} \X I) = 1 * q
    BY <1>1, <2>1, <2>2
  <2> QED BY <2>2, <2>3 DEF I
<1>4. U \cap D = {}
  OBVIOUS
<1>5. IsFiniteSet(U \cup D)
      /\ Cardinality(U \cup D) = Cardinality(U) + Cardinality(D) - Cardinality(U \cap D)
  BY <1>3, FS_Union
<1>6. Cardinality(U \cap D) = 0
  BY <1>4, FS_EmptySet
<1>7. Cardinality(U) \in Nat
  BY FS_CardinalityType
<1> QED BY <1>3, <1>5, <1>6, <1>7

(* Cutting off at zero twice is cutting off once. *)
LEMMA ClampTwice ==
  ASSUME NEW a \in Int, NEW q \in Nat
  PROVE  AtLeastZero(AtLeastZero(a) - q) = AtLeastZero(a - q)
BY DEF AtLeastZero

(* The units depend on the carts and on the deliveries that took some. *)
LEMMA UnitsUnchanged ==
  ASSUME UNCHANGED <<cart, taken>>
  PROVE  \A v : UnitsTaken(v)' = UnitsTaken(v)
BY DEF UnitsTaken, TookFrom

(* A step that moves no stock, starts no goroutine and takes no order back *)
(* or out of a resolved request keeps the accounts.                        *)
LEMMA QuietStep ==
  ASSUME StockInv, UNCHANGED <<cart, processed, taken, stock>>, decrements' \subseteq decrements,
         \A o \in Orders :
           /\ order[o] \in {"paid", "shipped"} => order'[o] \in {"paid", "shipped"}
           /\ request'[o] = "resolved" \/ order'[o] # "none" => request[o] = "resolved" \/ order[o] # "none"
  PROVE  StockInv'
<1>1. ASSUME NEW o \in Orders
      PROVE  CartIsPositive(o)' /\ TakenWasPaid(o)' /\ DeliveredOnce(o)'
  BY DEF StockInv, CartIsPositive, TakenWasPaid, DeliveredOnce
<1>2. ASSUME NEW v \in Variants PROVE StockMatches(v)'
  <2>1. UnitsTaken(v)' = UnitsTaken(v)
    BY UnitsUnchanged
  <2> QED BY <2>1 DEF StockInv, StockMatches
<1> QED BY <1>1, <1>2 DEF StockInv

(* A new cart replaces one whose order took nothing. *)
LEMMA ResolveCartStock ==
  ASSUME IInv, StockInv, NEW o \in Orders, NEW c \in Carts, ResolveCart(o, c)
  PROVE  StockInv'
<1> USE DEF ResolveCart, effectVars, resultVars, stripeVars
<1>1. order[o] = "none" /\ \A v \in Variants : taken[o][v] = {}
  BY DEF IInv, OrderInv, RequestMatchesOrder, StockInv, TakenWasPaid
<1>2. ASSUME NEW p \in Orders PROVE CartIsPositive(p)'
  BY <1>2 DEF StockInv, CartIsPositive, Acceptable, IInv, TypeOK
<1>3. ASSUME NEW p \in Orders PROVE TakenWasPaid(p)' /\ DeliveredOnce(p)'
  BY <1>3 DEF StockInv, TakenWasPaid, DeliveredOnce
<1>4. ASSUME NEW v \in Variants PROVE StockMatches(v)'
  <2>1. TookFrom(v)' = TookFrom(v)
    BY DEF TookFrom
  <2>2. \A d \in TookFrom(v) : cart'[d[1]] = cart[d[1]]
    BY <1>1 DEF TookFrom, IInv, TypeOK
  <2>3. UnitsTaken(v)' = UnitsTaken(v)
    BY <2>1, <2>2 DEF UnitsTaken
  <2> QED BY <2>3 DEF StockInv, StockMatches
<1> QED BY <1>2, <1>3, <1>4 DEF StockInv

(* A delivery's goroutines carry a number none had before. *)
LEMMA HandleCompletedStock ==
  ASSUME IInv, StockInv, NEW o \in Orders, NEW acked \in BOOLEAN, HandleCompleted(o, acked)
  PROVE  StockInv'
<1> USE DEF HandleCompleted, resultVars, shopVars
<1>1. ASSUME NEW p \in Orders PROVE CartIsPositive(p)'
  BY <1>1 DEF StockInv, CartIsPositive, FromPending, IInv, TypeOK
<1>2. ASSUME NEW p \in Orders PROVE TakenWasPaid(p)'
  BY <1>2 DEF StockInv, TakenWasPaid, FromPending, IInv, TypeOK
<1>3. ASSUME NEW p \in Orders PROVE DeliveredOnce(p)'
  <2>1. processed[p] \in Int /\ processed'[p] = IF p = o THEN processed[p] + 1 ELSE processed[p]
    BY <1>3 DEF IInv, TypeOK
  <2>2. \A v \in Variants : \A n \in taken[p][v] : n \in Int /\ n <= processed[p]
    BY <1>3 DEF StockInv, DeliveredOnce, IInv, TypeOK, Deliveries
  <2>3. ASSUME NEW n \in Deliveries, NEW v \in Variants, <<p, n, v>> \in decrements'
        PROVE  n <= processed'[p] /\ n \notin taken[p][v]
    <3>1. CASE <<p, n, v>> \in decrements
      BY <3>1, <2>1 DEF StockInv, DeliveredOnce, Deliveries
    <3>2. CASE <<p, n, v>> \notin decrements
      <4>1. p = o /\ n = processed[o] + 1
        BY <2>3, <3>2
      <4> QED BY <4>1, <2>1, <2>2
    <3> QED BY <3>1, <3>2
  <2>4. \A v \in Variants : \A n \in taken[p][v] : n <= processed'[p]
    BY <2>1, <2>2
  <2> QED BY <2>3, <2>4 DEF DeliveredOnce
<1>4. ASSUME NEW v \in Variants PROVE StockMatches(v)'
  <2>1. UnitsTaken(v)' = UnitsTaken(v)
    BY UnitsUnchanged
  <2> QED BY <2>1 DEF StockInv, StockMatches
<1> QED BY <1>1, <1>2, <1>3, <1>4 DEF StockInv

(* A goroutine takes the units of one delivery once, and the column follows. *)
LEMMA DecrementStock ==
  ASSUME IInv, StockInv, NEW o \in Orders, NEW n \in Deliveries, NEW v \in Variants, v \in Tracked,
         DecrementInventory(o, n, v)
  PROVE  StockInv'
<1> DEFINE d == <<o, n>>
           q == cart[o][v]
<1>1. /\ taken' = [taken EXCEPT ![o][v] = @ \cup {n}]
      /\ stock' = [stock EXCEPT ![v] = AtLeastZero(@ - q)]
      /\ decrements' = decrements \ {<<o, n, v>>} /\ <<o, n, v>> \in decrements
      /\ UNCHANGED <<cart, request, order, processed>>
  BY DEF DecrementInventory, shopVars
<1>2. /\ order[o] \in {"paid", "shipped"} /\ v \in DOMAIN cart[o]
      /\ n <= processed[o] /\ n \notin taken[o][v]
  BY <1>1 DEF IInv, OrderInv, EffectsFollowPayment, StockInv, DeliveredOnce
<1>3. q \in Nat
  BY <1>2, CartShape DEF StockInv, CartIsPositive
<1>4. \A p \in Orders, w \in Variants :
        taken'[p][w] = IF p = o /\ w = v THEN taken[p][w] \cup {n} ELSE taken[p][w]
  BY <1>1 DEF IInv, TypeOK
<1>5. ASSUME NEW p \in Orders PROVE CartIsPositive(p)' /\ TakenWasPaid(p)' /\ DeliveredOnce(p)'
  <2>1. CartIsPositive(p)'
    BY <1>1 DEF StockInv, CartIsPositive
  <2>2. TakenWasPaid(p)'
    BY <1>1, <1>2, <1>4 DEF StockInv, TakenWasPaid
  <2>3. DeliveredOnce(p)'
    BY <1>1, <1>2, <1>4 DEF StockInv, DeliveredOnce
  <2> QED BY <2>1, <2>2, <2>3
<1>6. ASSUME NEW w \in Variants, w # v PROVE StockMatches(w)'
  <2>1. TookFrom(w)' = TookFrom(w)
    <3>1. \A e \in Orders \X Deliveries : taken'[e[1]][w] = taken[e[1]][w]
      BY <1>4, <1>6
    <3>2. TookFrom(w)' = {e \in Orders \X Deliveries : e[2] \in taken'[e[1]][w]}
      BY DEF TookFrom
    <3> QED BY <3>1, <3>2 DEF TookFrom
  <2>2. UnitsTaken(w)' = UnitsTaken(w)
    BY <1>1, <2>1 DEF UnitsTaken
  <2> QED BY <1>1, <1>6, <2>2 DEF StockInv, StockMatches, IInv, TypeOK
<1>7. StockMatches(v)'
  <2>1. TookFrom(v)' = TookFrom(v) \cup {d} /\ d \notin TookFrom(v)
    <3>1. d \in Orders \X Deliveries /\ d[1] = o /\ d[2] = n
      OBVIOUS
    <3>2. \A e \in Orders \X Deliveries :
            e[1] = o /\ e[2] = n <=> e = d
      OBVIOUS
    <3>3. d \notin TookFrom(v)
      BY <1>2, <3>1 DEF TookFrom
    <3>4. ASSUME NEW e \in Orders \X Deliveries
          PROVE  e[2] \in taken'[e[1]][v] <=> e[2] \in taken[e[1]][v] \/ e = d
      <4>1. e[1] \in Orders /\ e[2] \in Deliveries
        OBVIOUS
      <4>2. taken'[e[1]][v] = IF e[1] = o THEN taken[e[1]][v] \cup {n} ELSE taken[e[1]][v]
        BY <1>4, <4>1
      <4>3. e = d <=> e[1] = o /\ e[2] = n
        BY <3>2
      <4> HIDE DEF d
      <4> QED BY <4>2, <4>3, <1>2
    <3>5. TookFrom(v)' = {e \in Orders \X Deliveries : e[2] \in taken'[e[1]][v]}
      BY DEF TookFrom
    <3> QED BY <3>1, <3>3, <3>4, <3>5 DEF TookFrom
  <2>2. UnitsTaken(v)' = UnitsTaken(v) \cup ({d} \X (1..q))
    BY <1>1, <2>1 DEF UnitsTaken
  <2>3. \A i : <<d, i>> \notin UnitsTaken(v)
    BY <2>1 DEF UnitsTaken
  <2>4. IsFiniteSet(UnitsTaken(v))
    BY DEF StockInv, StockMatches
  <2>5. /\ IsFiniteSet(UnitsTaken(v)')
        /\ Cardinality(UnitsTaken(v)') = Cardinality(UnitsTaken(v)) + q
    <3> DEFINE U == UnitsTaken(v)
    <3>1. IsFiniteSet(U) /\ \A i : <<d, i>> \notin U
      BY <2>3, <2>4
    <3> HIDE DEF U, d, q
    <3>2. /\ IsFiniteSet(U \cup ({d} \X (1..q)))
          /\ Cardinality(U \cup ({d} \X (1..q))) = Cardinality(U) + q
      BY <1>3, <3>1, AddUnits
    <3> QED BY <2>2, <3>2 DEF U
  <2>6. Cardinality(UnitsTaken(v)) \in Nat /\ InitialStock[v] \in Nat
    BY <2>4, FS_CardinalityType, CheckoutAssumption DEF CheckoutAssumption
  <2>7. stock'[v] = AtLeastZero(stock[v] - q)
    BY <1>1 DEF IInv, TypeOK
  <2>8. stock[v] = AtLeastZero(InitialStock[v] - Cardinality(UnitsTaken(v)))
    BY DEF StockInv, StockMatches
  <2>9. stock'[v] = AtLeastZero(InitialStock[v] - Cardinality(UnitsTaken(v)) - q)
    BY <1>3, <2>6, <2>7, <2>8, ClampTwice
  <2> QED BY <1>3, <2>5, <2>6, <2>9 DEF StockMatches
<1> QED BY <1>5, <1>6, <1>7 DEF StockInv

(* Every step keeps the accounts. *)
LEMMA NextStock == IInv /\ StockInv /\ [Next]_vars => StockInv'
<1> SUFFICES ASSUME IInv, StockInv, [Next]_vars PROVE StockInv'
  OBVIOUS
<1> DEFINE Quiet ==
      /\ UNCHANGED <<cart, processed, taken, stock>>
      /\ decrements' \subseteq decrements
      /\ \A o \in Orders :
           /\ order[o] \in {"paid", "shipped"} => order'[o] \in {"paid", "shipped"}
           /\ request'[o] = "resolved" \/ order'[o] # "none" =>
                request[o] = "resolved" \/ order[o] # "none"
<1>0. Quiet => StockInv'
  BY QuietStep
<1> USE DEF shopVars, stripeVars, effectVars, resultVars
<1>1. ASSUME NEW o \in Orders, NEW c \in Carts, RefuseCart(o, c) PROVE Quiet
  BY <1>1 DEF RefuseCart, IInv, TypeOK
<1>2. ASSUME NEW o \in Orders, CreatePendingOrder(o) PROVE Quiet
  BY <1>2 DEF CreatePendingOrder, IInv, TypeOK, OrderInv, RequestMatchesOrder
<1>3. ASSUME NEW o \in Orders, PendingOrderFails(o) \/ OpenSession(o) \/ OpenSessionFails(o) \/ Reply(o)
      PROVE  Quiet
  BY <1>3 DEF PendingOrderFails, OpenSession, OpenSessionFails, Reply, IInv, TypeOK
<1>4. ASSUME NEW o \in Orders, CustomerPays(o) \/ SessionExpires(o) PROVE Quiet
  BY <1>4 DEF CustomerPays, SessionExpires
<1>5. ASSUME NEW o \in Orders, NEW stored \in BOOLEAN, NEW acked \in BOOLEAN, HandleExpired(o, stored, acked)
      PROVE  Quiet
  BY <1>5 DEF HandleExpired, FromPending, IInv, TypeOK
<1>6. ASSUME NEW o \in Orders, ShipOrder(o) PROVE Quiet
  BY <1>6 DEF ShipOrder, IInv, TypeOK, OrderInv, EffectsFollowPayment
<1>7. ASSUME NEW o \in Orders, NEW n \in Deliveries, NEW v \in Variants,
             DecrementFails(o, n, v) \/ (v \notin Tracked /\ DecrementInventory(o, n, v))
      PROVE  Quiet
  BY <1>7 DEF DecrementFails, DecrementInventory
<1>8. ASSUME NEW o \in Orders, NEW n \in Deliveries,
             SendOrderConfirmation(o, n) \/ EnqueueOrder(o, n) \/ \E k \in JobKinds : JobFails(o, n, k)
      PROVE  Quiet
  BY <1>8 DEF SendOrderConfirmation, EnqueueOrder, JobFails
<1>9. ASSUME NEW s \in Stores, Moderate(s) PROVE Quiet
  BY <1>9 DEF Moderate
<1>10. ASSUME Crash PROVE Quiet
  BY <1>10 DEF Crash, IInv, TypeOK
<1>11. ASSUME UNCHANGED vars PROVE Quiet
  BY <1>11 DEF vars
<1> HIDE DEF Quiet
<1> QED
  BY <1>0, <1>1, <1>2, <1>3, <1>4, <1>5, <1>6, <1>7, <1>8, <1>9, <1>10, <1>11,
     ResolveCartStock, HandleCompletedStock, DecrementStock DEF Next

(* Concurrent goroutines and redelivered events lose no update of the      *)
(* stock: it is what each delivery took, once, cut off at zero.            *)
THEOREM StockIsAccounted == Spec => []StockAccounted
<1>1. StockInv => StockAccounted
  BY DEF StockInv, StockMatches, StockAccounted
<1> QED BY <1>1, InitStock, NextStock, Invariance, PTL DEF Spec
=============================================================================
