------------------------------ MODULE Checkout ------------------------------
(***************************************************************************)
(* Cart to paid order: the checkout handler, Stripe's session, the webhook *)
(* handler and the goroutines it detaches                                  *)
(* (backend/internal/handlers/checkout.go).                                *)
(*                                                                         *)
(* An order identity o stands for one POST /api/checkout/session.  The     *)
(* handler is one action per database or Stripe call, so requests,         *)
(* webhooks, goroutines, moderation and crashes interleave between them.   *)
(*                                                                         *)
(* Stripe is external: a session is open until it is completed or expires, *)
(* never both, and its one event is redelivered until it is acknowledged.  *)
(* The goroutine that pushes the sale to the merchant's phone, the prices  *)
(* (no code path changes one) and the customer's details are left out.     *)
(***************************************************************************)
EXTENDS Integers, FiniteSets

CONSTANTS
  Orders,         \* checkout attempts
  Stores,         \* tenants
  Variants,       \* rows of product_variants
  StoreOf,        \* the tenant a variant's product belongs to
  Tracked,        \* variants with track_inventory = true
  InitialStock,   \* stock_quantity of each variant at the start
  Carts,          \* the carts shoppers submit: functions from variants to quantities
  EmailQueueUp,   \* whether the API found Redis at boot
  MaxDeliveries,  \* bound: deliveries of one order's completed event
  Redelivered     \* bound: orders whose event is delivered more than once

NoCart == [v \in {} |-> 0]

ASSUME CheckoutAssumption ==
  /\ StoreOf \in [Variants -> Stores]
  /\ Tracked \subseteq Variants
  /\ InitialStock \in [Variants -> Nat]
  /\ \A c \in Carts : DOMAIN c \subseteq Variants /\ c \in [DOMAIN c -> Int]
  /\ EmailQueueUp \in BOOLEAN
  /\ MaxDeliveries \in Nat \ {0}
  /\ Redelivered \subseteq Orders

VARIABLES
  takesOrders,    \* per store: status approved, is_active and can_accept_orders
  request,        \* where the handler of each checkout request is
  cart,           \* the cart each request carries
  order,          \* orders.status, "none" before the row is committed
  session,        \* the Stripe session opened for the order
  outbox,         \* Stripe's events that have not been acknowledged
  processed,      \* completed events handled per order: its share of OrdersTotal
  decrements,     \* <<order, delivery, variant>>: stock updates still to run
  jobs,           \* <<order, delivery, kind>>: other detached goroutines
  stock,          \* product_variants.stock_quantity
  taken,          \* ghost: deliveries whose goroutine took the variant's stock
  confirmed,      \* orders whose confirmation email was queued
  produced        \* orders with a production_queue row

shopVars    == <<takesOrders, cart>>
stripeVars  == <<session, outbox>>
effectVars  == <<decrements, jobs>>
resultVars  == <<stock, taken, confirmed, produced>>
vars == <<shopVars, request, order, stripeVars, processed, effectVars, resultVars>>

RequestState  == {"new", "resolved", "ordered", "sessioned", "replied", "ended"}
OrderStatus   == {"none", "pending", "paid", "failed", "shipped"}
SessionStatus == {"none", "open", "complete", "expired"}
Deliveries    == 1..MaxDeliveries
Bound(o)      == IF o \in Redelivered THEN MaxDeliveries ELSE 1
JobKinds      == {"enqueue"} \cup IF EmailQueueUp THEN {"confirm"} ELSE {}

TypeOK ==
  /\ takesOrders   \in [Stores -> BOOLEAN]
  /\ request       \in [Orders -> RequestState]
  /\ cart          \in [Orders -> Carts \cup {NoCart}]
  /\ order         \in [Orders -> OrderStatus]
  /\ session       \in [Orders -> SessionStatus]
  /\ outbox        \in SUBSET (Orders \X {"completed", "expired"})
  /\ processed     \in [Orders -> 0..MaxDeliveries]
  /\ decrements    \in SUBSET (Orders \X Deliveries \X Variants)
  /\ jobs          \in SUBSET (Orders \X Deliveries \X {"confirm", "enqueue"})
  /\ stock         \in [Variants -> Nat]
  /\ taken         \in [Orders -> [Variants -> SUBSET Deliveries]]
  /\ confirmed     \in SUBSET Orders
  /\ produced      \in SUBSET Orders

Init ==
  /\ takesOrders   \in [Stores -> BOOLEAN]
  /\ request       = [o \in Orders |-> "new"]
  /\ cart          = [o \in Orders |-> NoCart]
  /\ order         = [o \in Orders |-> "none"]
  /\ session       = [o \in Orders |-> "none"]
  /\ outbox        = {}
  /\ processed     = [o \in Orders |-> 0]
  /\ decrements    = {}
  /\ jobs          = {}
  /\ stock         = InitialStock
  /\ taken         = [o \in Orders |-> [v \in Variants |-> {}]]
  /\ confirmed     = {}
  /\ produced      = {}

----------------------------------------------------------------------------
(* The checkout request. *)

(* The stalls a cart's variants belong to. *)
StoresIn(c) == {StoreOf[v] : v \in DOMAIN c}

(* resolveCartTenant: a non-empty cart of positive quantities from a single *)
(* stall that is approved, active and accepting orders.                     *)
Acceptable(c) ==
  /\ DOMAIN c # {}
  /\ \A v \in DOMAIN c : c[v] > 0
  /\ \A s, t \in StoresIn(c) : s = t
  /\ \A s \in StoresIn(c) : takesOrders[s]

ResolveCart(o, c) ==
  /\ request[o] = "new"
  /\ Acceptable(c)
  /\ request' = [request EXCEPT ![o] = "resolved"]
  /\ cart' = [cart EXCEPT ![o] = c]
  /\ UNCHANGED <<takesOrders, order, stripeVars, processed, effectVars, resultVars>>

RefuseCart(o, c) ==
  /\ request[o] = "new"
  /\ ~ Acceptable(c)
  /\ request' = [request EXCEPT ![o] = "ended"]
  /\ UNCHANGED <<shopVars, order, stripeVars, processed, effectVars, resultVars>>

(* Seeded fault: the order is handed to production when it is created. *)
CreateProducedOrder(o) ==
  /\ request[o] = "resolved"
  /\ request' = [request EXCEPT ![o] = "ordered"]
  /\ order' = [order EXCEPT ![o] = "pending"]
  /\ jobs' = jobs \cup {<<o, 1, "enqueue">>}
  /\ UNCHANGED <<shopVars, stripeVars, processed, decrements, resultVars>>

(* The order row and its items, one transaction committed before Stripe is called. *)
CreatePendingOrder(o) ==
  /\ request[o] = "resolved"
  /\ request' = [request EXCEPT ![o] = "ordered"]
  /\ order' = [order EXCEPT ![o] = "pending"]
  /\ UNCHANGED <<shopVars, stripeVars, processed, effectVars, resultVars>>

(* A price lookup, or the transaction, fails: nothing is committed. *)
PendingOrderFails(o) ==
  /\ request[o] = "resolved"
  /\ request' = [request EXCEPT ![o] = "ended"]
  /\ UNCHANGED <<shopVars, order, stripeVars, processed, effectVars, resultVars>>

OpenSession(o) ==
  /\ request[o] = "ordered"
  /\ request' = [request EXCEPT ![o] = "sessioned"]
  /\ session' = [session EXCEPT ![o] = "open"]
  /\ UNCHANGED <<shopVars, order, outbox, processed, effectVars, resultVars>>

(* Seeded fault: a Stripe error fails the order at once. *)
OpenSessionFailsOrder(o) ==
  /\ request[o] = "ordered"
  /\ request' = [request EXCEPT ![o] = "ended"]
  /\ order' = [order EXCEPT ![o] = "failed"]
  /\ \E s \in {"none", "open"} : session' = [session EXCEPT ![o] = s]
  /\ UNCHANGED <<shopVars, outbox, processed, effectVars, resultVars>>

(* session.New returns an error.  The session may exist at Stripe all the  *)
(* same, but the shopper never learns its URL; the order stays pending.    *)
OpenSessionFails(o) ==
  /\ request[o] = "ordered"
  /\ request' = [request EXCEPT ![o] = "ended"]
  /\ \E s \in {"none", "open"} : session' = [session EXCEPT ![o] = s]
  /\ UNCHANGED <<shopVars, order, outbox, processed, effectVars, resultVars>>

(* The URL is returned.  stripe_session_id may or may not have been stored: *)
(* nothing reads it.                                                        *)
Reply(o) ==
  /\ request[o] = "sessioned"
  /\ request' = [request EXCEPT ![o] = "replied"]
  /\ UNCHANGED <<shopVars, order, stripeVars, processed, effectVars, resultVars>>

----------------------------------------------------------------------------
(* The world around the handlers. *)

(* A platform operator approves, suspends, restricts or restores a stall. *)
Moderate(s) ==
  /\ takesOrders' = [takesOrders EXCEPT ![s] = ~ @]
  /\ UNCHANGED <<request, cart, order, stripeVars, processed, effectVars, resultVars>>

(* Stripe charges the card of a shopper who was given the checkout URL. *)
CustomerPays(o) ==
  /\ request[o] = "replied"
  /\ session[o] = "open"
  /\ session' = [session EXCEPT ![o] = "complete"]
  /\ outbox' = outbox \cup {<<o, "completed">>}
  /\ UNCHANGED <<shopVars, request, order, processed, effectVars, resultVars>>

SessionExpires(o) ==
  /\ session[o] = "open"
  /\ session' = [session EXCEPT ![o] = "expired"]
  /\ outbox' = outbox \cup {<<o, "expired">>}
  /\ UNCHANGED <<shopVars, request, order, processed, effectVars, resultVars>>

(* The API process dies: requests in flight and detached goroutines vanish. *)
Crash ==
  /\ request' = [o \in Orders |->
                   IF request[o] \in {"resolved", "ordered", "sessioned"}
                     THEN "ended" ELSE request[o]]
  /\ decrements' = {}
  /\ jobs' = {}
  /\ UNCHANGED <<shopVars, order, stripeVars, processed, resultVars>>

----------------------------------------------------------------------------
(* HandleStripeWebhook. *)

(* Seeded fault: the update has lost its WHERE status = 'pending'. *)
FromAnyStatus(o, status) == status

(* The status an order has after UPDATE ... WHERE status = 'pending'. *)
FromPending(o, status) == IF order[o] = "pending" THEN status ELSE order[o]

(* Seeded fault: a database error is logged and the event acknowledged. *)
HandleCompletedCarelessly(o, acked) ==
  LET n == processed[o] + 1 IN
  /\ <<o, "completed">> \in outbox
  /\ n <= Bound(o)
  /\ order' \in {order, [order EXCEPT ![o] = FromPending(o, "paid")]}
  /\ processed' = [processed EXCEPT ![o] = n]
  /\ decrements' = decrements \cup {<<o, n, v>> : v \in DOMAIN cart[o]}
  /\ jobs' = jobs \cup {<<o, n, k>> : k \in JobKinds}
  /\ outbox' = outbox \ {<<o, "completed">>}
  /\ UNCHANGED <<shopVars, request, session, resultVars>>

(* checkout.session.completed.  The rows-affected count is not looked at,  *)
(* so every delivery counts the sale and detaches the goroutines.  A       *)
(* database error answers 500 and changes nothing: Stripe delivers again,  *)
(* as it does when the acknowledgement is lost.                            *)
HandleCompleted(o, acked) ==
  LET n == processed[o] + 1 IN
  /\ <<o, "completed">> \in outbox
  /\ n <= Bound(o)
  /\ n = Bound(o) => acked
  /\ order' = [order EXCEPT ![o] = FromPending(o, "paid")]
  /\ processed' = [processed EXCEPT ![o] = n]
  /\ decrements' = decrements \cup {<<o, n, v>> : v \in DOMAIN cart[o]}
  /\ jobs' = jobs \cup {<<o, n, k>> : k \in JobKinds}
  /\ outbox' = IF acked THEN outbox \ {<<o, "completed">>} ELSE outbox
  /\ UNCHANGED <<shopVars, request, session, resultVars>>

(* checkout.session.expired.  A database error is only logged and the      *)
(* event is acknowledged all the same.                                     *)
HandleExpired(o, stored, acked) ==
  /\ <<o, "expired">> \in outbox
  /\ order' = IF stored THEN [order EXCEPT ![o] = FromPending(o, "failed")] ELSE order
  /\ outbox' = IF acked THEN outbox \ {<<o, "expired">>} ELSE outbox
  /\ UNCHANGED <<shopVars, request, session, processed, effectVars, resultVars>>

----------------------------------------------------------------------------
(* The detached goroutines and the production pipeline. *)

(* Seeded fault: the update has lost its GREATEST. *)
Unclamped(n) == n

AtLeastZero(n) == IF n < 0 THEN 0 ELSE n

(* Seeded fault: a row that was written is written once more. *)
DecrementAgain(o, n, v) ==
  /\ <<o, n, v>> \in decrements
  /\ v \in Tracked
  /\ stock' = [stock EXCEPT ![v] = AtLeastZero(@ - cart[o][v])]
  /\ taken' = [taken EXCEPT ![o][v] = @ \cup {n}]
  /\ UNCHANGED <<shopVars, request, order, stripeVars, processed, effectVars, confirmed, produced>>

(* One row of decrementInventory: stock_quantity = GREATEST(stock_quantity - quantity, 0). *)
DecrementInventory(o, n, v) ==
  /\ <<o, n, v>> \in decrements
  /\ decrements' = decrements \ {<<o, n, v>>}
  /\ IF v \in Tracked
       THEN /\ stock' = [stock EXCEPT ![v] = AtLeastZero(@ - cart[o][v])]
            /\ taken' = [taken EXCEPT ![o][v] = @ \cup {n}]
       ELSE UNCHANGED <<stock, taken>>
  /\ UNCHANGED <<shopVars, request, order, stripeVars, processed, jobs, confirmed, produced>>

(* The row's scan or update fails, or the query for the items did: logged and dropped. *)
DecrementFails(o, n, v) ==
  /\ <<o, n, v>> \in decrements
  /\ decrements' = decrements \ {<<o, n, v>>}
  /\ UNCHANGED <<shopVars, request, order, stripeVars, processed, jobs, resultVars>>

(* SendOrderConfirmation: one email_logs row and one queued job. *)
SendOrderConfirmation(o, n) ==
  /\ <<o, n, "confirm">> \in jobs
  /\ jobs' = jobs \ {<<o, n, "confirm">>}
  /\ confirmed' = confirmed \cup {o}
  /\ UNCHANGED <<shopVars, request, order, stripeVars, processed, decrements, stock, taken, produced>>

(* EnqueueOrder: INSERT ... ON CONFLICT (order_id) DO NOTHING. *)
EnqueueOrder(o, n) ==
  /\ <<o, n, "enqueue">> \in jobs
  /\ jobs' = jobs \ {<<o, n, "enqueue">>}
  /\ produced' = produced \cup {o}
  /\ UNCHANGED <<shopVars, request, order, stripeVars, processed, decrements, stock, taken, confirmed>>

(* The goroutine's own query fails: logged, nobody retries. *)
JobFails(o, n, k) ==
  /\ <<o, n, k>> \in jobs
  /\ jobs' = jobs \ {<<o, n, k>>}
  /\ UNCHANGED <<shopVars, request, order, stripeVars, processed, decrements, resultVars>>

(* AdvanceStatus(shipped) writes orders.status through the queue row, whatever it was. *)
ShipOrder(o) ==
  /\ o \in produced
  /\ order' = [order EXCEPT ![o] = "shipped"]
  /\ UNCHANGED <<shopVars, request, stripeVars, processed, effectVars, resultVars>>

----------------------------------------------------------------------------
Next ==
  \/ \E o \in Orders :
       \/ \E c \in Carts : ResolveCart(o, c) \/ RefuseCart(o, c)
       \/ CreatePendingOrder(o)
       \/ PendingOrderFails(o)
       \/ OpenSession(o)
       \/ OpenSessionFails(o)
       \/ Reply(o)
       \/ CustomerPays(o)
       \/ SessionExpires(o)
       \/ \E acked \in BOOLEAN : HandleCompleted(o, acked)
       \/ \E stored, acked \in BOOLEAN : HandleExpired(o, stored, acked)
       \/ ShipOrder(o)
       \/ \E n \in Deliveries :
            \/ \E v \in Variants : DecrementInventory(o, n, v) \/ DecrementFails(o, n, v)
            \/ SendOrderConfirmation(o, n)
            \/ EnqueueOrder(o, n)
            \/ \E k \in JobKinds : JobFails(o, n, k)
  \/ \E s \in Stores : Moderate(s)
  \/ Crash

Spec == Init /\ [][Next]_vars

(***************************************************************************)
(* Fairness.  Stripe retries an event for days until it is acknowledged,   *)
(* and the Go scheduler runs a goroutine that was started.  Nothing obliges *)
(* the shopper, the operator or the shop floor to act.                     *)
(***************************************************************************)
DeliverCompleted(o) == \E acked \in BOOLEAN : HandleCompleted(o, acked)
DeliverExpired(o)   == \E stored, acked \in BOOLEAN : HandleExpired(o, stored, acked)
RunEnqueue(o)       == \E n \in Deliveries : EnqueueOrder(o, n)

LiveSpec ==
  /\ Spec
  /\ \A o \in Orders : /\ WF_vars(DeliverCompleted(o))
                       /\ WF_vars(DeliverExpired(o))
                       /\ WF_vars(RunEnqueue(o))

----------------------------------------------------------------------------
(***************************************************************************)
(* Nothing is made, shipped or confirmed that was not paid for: such an    *)
(* order has a completed session and a paid status, whatever goroutines,   *)
(* redeliveries and crashes came between (checkout.go starts both          *)
(* goroutines from the completed event only).                              *)
(***************************************************************************)
ProductionWasPaid ==
  \A o \in Orders :
    o \in produced \cup confirmed \/ order[o] = "shipped" =>
      session[o] = "complete" /\ order[o] \in {"paid", "shipped"}

(***************************************************************************)
(* An order is failed only once its session can no longer be paid: no      *)
(* customer is charged for an order the shop has written off.              *)
(***************************************************************************)
FailedNeverCharged ==
  \A o \in Orders : order[o] = "failed" => session[o] = "expired"

(***************************************************************************)
(* Every order row holds goods of one stall only, so that its tenant_id    *)
(* names the stall that is paid (resolveCartTenant).                       *)
(***************************************************************************)
CartBelongsToOneStall ==
  \A o \in Orders : order[o] # "none" =>
    \E s \in Stores : StoresIn(cart[o]) = {s}

(***************************************************************************)
(* "Create a pending order in our database BEFORE Stripe session": money   *)
(* can only be taken for an order the webhook will find, even when the API *)
(* dies between the two calls.                                             *)
(***************************************************************************)
NoSessionWithoutOrder ==
  \A o \in Orders : session[o] # "none" => order[o] # "none"

(***************************************************************************)
(* The shop and Stripe agree on who can be charged: the two above.         *)
(***************************************************************************)
OrderAgreesWithMoney == FailedNeverCharged /\ NoSessionWithoutOrder

(***************************************************************************)
(* The stock of a tracked variant is what the goroutines that reached it   *)
(* took, each delivery's once, cut off at zero; an untracked variant's     *)
(* stock never moves.  Concurrent goroutines lose no update.  A unit is the *)
(* delivery that took it and its number among the ordered quantity.        *)
(***************************************************************************)
TookFrom(v)   == {d \in Orders \X Deliveries : d[2] \in taken[d[1]][v]}
UnitsTaken(v) == UNION {{d} \X (1..cart[d[1]][v]) : d \in TookFrom(v)}

StockAccounted ==
  \A v \in Variants : stock[v] = AtLeastZero(InitialStock[v] - Cardinality(UnitsTaken(v)))

(***************************************************************************)
(* orders.status only moves forward along the flow of migration 003, which *)
(* the code cuts short ('processing' is never written): no late or         *)
(* repeated webhook takes an order back.                                   *)
(***************************************************************************)
StatusFlow ==
  {<<"none", "pending">>, <<"pending", "paid">>, <<"pending", "failed">>,
   <<"paid", "shipped">>}

StatusFollowsFlow ==
  [][\A o \in Orders : order'[o] # order[o] => <<order[o], order'[o]>> \in StatusFlow]_vars

(***************************************************************************)
(* A captured payment eventually shows in the order's status: a database   *)
(* error is answered with 500 and Stripe delivers again.                   *)
(***************************************************************************)
ChargeIsRecorded ==
  \A o \in Orders : session[o] = "complete" ~> order[o] \in {"paid", "shipped"}

(***************************************************************************)
(* Checkout implements the marketplace's ledger: the customer's money is   *)
(* captured when the session completes and safe when it expires.           *)
(***************************************************************************)
Charge ==
  [o \in Orders |-> CASE session[o] = "complete" -> "captured"
                      [] session[o] = "expired"  -> "void"
                      [] OTHER                   -> "none"]

Ledger == INSTANCE OrderLedger WITH charge <- Charge

ImplementsLedger == Ledger!LiveSpec

----------------------------------------------------------------------------
(* What the repository says and the code does not keep. *)

(***************************************************************************)
(* 007_manufacturing.up.sql:8 "Every paid order gets a production_queue    *)
(* entry".                                                                 *)
(***************************************************************************)
EveryPaidOrderProduced ==
  \A o \in Orders : order[o] = "paid" ~> o \in produced
=============================================================================
