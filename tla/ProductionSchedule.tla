------------------------- MODULE ProductionSchedule -------------------------
(***************************************************************************)
(* Promising a date: EnqueueOrder and calculateEstimatedCompletion         *)
(* (backend/internal/services/manufacturing_service.go).                   *)
(*                                                                         *)
(* Each webhook delivery runs EnqueueOrder in a goroutine of its own, and  *)
(* each day's capacity is a query of its own, so goroutines read days that *)
(* others are about to book.  Today is day 0; no code writes max_orders or *)
(* is_holiday, and is_holiday is not looked at.                             *)
(***************************************************************************)
EXTENDS Naturals, FiniteSets

CONSTANTS
  Orders,       \* paid orders
  Deliveries,   \* webhook deliveries: goroutines per order
  Horizon,      \* how many days ahead are tried: 7 in the code
  Weekend,      \* the days from 0 to Horizon that are a Saturday or a Sunday
  MaxOrders     \* max_orders of each day: 100 unless the row says otherwise

Days == 0..Horizon

ASSUME ScheduleAssumption ==
  /\ Horizon \in Nat \ {0}
  /\ Weekend \subseteq Days
  /\ MaxOrders \in [Days -> Nat]

VARIABLES
  step,       \* of each goroutine: waiting, looking, estimated, inserted, done
  day,        \* the day each goroutine looks at, or has chosen
  promised,   \* estimated_completion_at of the order's queue row, or None
  booked,     \* production_capacity.current_orders
  reserved,   \* ghost: orders whose goroutine booked the day
  disturbed   \* ghost: two goroutines ran at a time, or a database call failed

scheduleVars == <<step, day, promised, booked, reserved, disturbed>>

Goroutines == Orders \X Deliveries
RunSteps   == {"waiting", "looking", "estimated", "inserted", "done"}
None       == Horizon + 1

ScheduleTypeOK ==
  /\ step     \in [Goroutines -> RunSteps]
  /\ day      \in [Goroutines -> Days]
  /\ promised \in [Orders -> Days \cup {None}]
  /\ booked   \in [Days -> Nat]
  /\ reserved \in SUBSET Orders
  /\ disturbed \in BOOLEAN

ScheduleInit ==
  /\ step     = [g \in Goroutines |-> "waiting"]
  /\ day      = [g \in Goroutines |-> 0]
  /\ promised = [o \in Orders |-> None]
  /\ booked   = [d \in Days |-> 0]
  /\ reserved = {}
  /\ disturbed = FALSE

Running(g) == step[g] \in {"looking", "estimated", "inserted"}

Goto(g, s) == step' = [step EXCEPT ![g] = s]

----------------------------------------------------------------------------
(* The webhook starts the goroutine; tomorrow is tried first. *)
Start(g) ==
  /\ step[g] = "waiting"
  /\ disturbed' = (disturbed \/ \E h \in Goroutines : Running(h))
  /\ Goto(g, "looking")
  /\ day' = [day EXCEPT ![g] = 1]
  /\ UNCHANGED <<promised, booked, reserved>>

(* A day with no row counts 0 of 100; is_holiday is read and dropped. *)
HasRoom(d) == booked[d] < MaxOrders[d]

(* Seeded fault: the weekend is looked at like any other day. *)
AnyDay(d) == TRUE

Workday(d) == d \notin Weekend

(* One turn of calculateEstimatedCompletion's loop: the day is taken, or   *)
(* the next one is tried; after the last one it is taken all the same.     *)
(* A failed query leaves the defaults, 0 of 100.                           *)
LookAt(g) ==
  LET d == day[g] IN
  /\ step[g] = "looking"
  /\ \/ /\ Workday(d)
        /\ \/ HasRoom(d) /\ UNCHANGED disturbed
           \/ disturbed' = TRUE
        /\ Goto(g, "estimated")
        /\ UNCHANGED day
     \/ /\ ~ (Workday(d) /\ HasRoom(d))
        /\ IF d < Horizon
             THEN UNCHANGED step /\ day' = [day EXCEPT ![g] = d + 1]
             ELSE Goto(g, "estimated") /\ UNCHANGED day
        /\ UNCHANGED disturbed
  /\ UNCHANGED <<promised, booked, reserved>>

(* Seeded fault: the conflict is not noticed and the call goes on. *)
InsertAnyway(g) ==
  /\ step[g] = "estimated"
  /\ promised' = [promised EXCEPT ![g[1]] = IF @ = None THEN day[g] ELSE @]
  /\ Goto(g, "inserted")
  /\ UNCHANGED <<day, booked, reserved, disturbed>>

(* INSERT ... ON CONFLICT (order_id) DO NOTHING RETURNING id: the second   *)
(* goroutine of an order gets no row and returns.                          *)
Insert(g) ==
  /\ step[g] = "estimated"
  /\ IF promised[g[1]] = None
       THEN promised' = [promised EXCEPT ![g[1]] = day[g]] /\ Goto(g, "inserted")
       ELSE UNCHANGED promised /\ Goto(g, "done")
  /\ UNCHANGED <<day, booked, reserved, disturbed>>

(* current_orders + 1 on the promised date. *)
Reserve(g) ==
  /\ step[g] = "inserted"
  /\ booked' = [booked EXCEPT ![day[g]] = @ + 1]
  /\ reserved' = reserved \cup {g[1]}
  /\ Goto(g, "done")
  /\ UNCHANGED <<day, promised, disturbed>>

(* A failing insert ends the call; a failing reservation is only a warning. *)
CallFails(g) ==
  /\ step[g] \in {"estimated", "inserted"}
  /\ disturbed' = TRUE
  /\ Goto(g, "done")
  /\ UNCHANGED <<day, promised, booked, reserved>>

ServerStops ==
  /\ disturbed' = TRUE
  /\ step' = [g \in Goroutines |-> IF Running(g) THEN "done" ELSE step[g]]
  /\ UNCHANGED <<day, promised, booked, reserved>>

ScheduleNext ==
  \/ \E g \in Goroutines : Start(g) \/ LookAt(g) \/ Insert(g) \/ Reserve(g) \/ CallFails(g)
  \/ ServerStops

ScheduleSpec == ScheduleInit /\ [][ScheduleNext]_scheduleVars

----------------------------------------------------------------------------
PromisedOn(d) == {o \in Orders : promised[o] = d}

(***************************************************************************)
(* A day's booking counts exactly the orders that reserved the date they   *)
(* are promised for: redelivered webhooks book nothing twice, and no       *)
(* increment is lost (ON CONFLICT DO NOTHING, then current_orders + 1).    *)
(* With it, that every variable keeps its type.                            *)
(***************************************************************************)
BookingsMatchPromises ==
  ScheduleTypeOK /\ \A d \in Days : booked[d] = Cardinality(PromisedOn(d) \cap reserved)

(***************************************************************************)
(* As long as goroutines take turns and no call fails, a workday within    *)
(* the horizon is never booked beyond its capacity and a weekend never at  *)
(* all: only the last day takes what fits nowhere.                         *)
(***************************************************************************)
CapacityKeptInTurn ==
  ~ disturbed =>
    \A d \in Days \ {Horizon} : booked[d] <= IF Workday(d) THEN MaxOrders[d] ELSE 0

(***************************************************************************)
(* However goroutines overlap and fail, a weekend is only ever promised as *)
(* the fallback date of calculateEstimatedCompletion.                      *)
(***************************************************************************)
WeekendIsFallback ==
  \A o \in Orders : promised[o] \in Weekend => promised[o] = Horizon

(***************************************************************************)
(* The promised days are the ones the loop was to find: the two above.     *)
(***************************************************************************)
DaysAreKept == CapacityKeptInTurn /\ WeekendIsFallback

=============================================================================
