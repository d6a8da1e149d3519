------------------------------ MODULE AIClient ------------------------------
(***************************************************************************)
(* The monthly budget of the metered model provider (pkg/ai/client.go), in *)
(* one process of the API.  The process counts what it spent in memory and *)
(* loads the month's total from ai_logs the first time it sees the month.  *)
(*                                                                         *)
(* Every answered call costs one unit: the counter truncates a call's cost *)
(* to whole millionths of a dollar (line 203) where the row's NUMERIC(10,6)*)
(* rounds it, so that the two drift apart by less than a millionth a call, *)
(* which no unit shows.  The month of the process and the month of the     *)
(* database are two clocks that may be a moment apart.  What another       *)
(* process logs is left out: each has a budget of its own.                 *)
(***************************************************************************)
EXTENDS Actors

CONSTANTS
  Calls,        \* requests that may run at the same time
  Limit,        \* AI_MONTHLY_COST_LIMIT_USD, in calls
  MaxMonth,     \* bound: months that pass
  MaxRows       \* bound: rows of a month; above what the budget admits

None == "none"

ASSUME BudgetAssumption ==
  /\ IsFiniteSet(Calls) /\ Calls # {} /\ None \notin Calls
  /\ Limit \in Nat \ {0}
  /\ MaxMonth \in Nat \ {0}
  /\ MaxRows \in Nat

VARIABLES
  captured,     \* the month it saw when its check began
  holder,       \* the call that holds mu, or None
  sum,          \* the total the holder has read
  cost,         \* costMicro
  period,       \* the month cost was loaded for; 0 is ""
  logged,       \* per month, answered calls in ai_logs
  month,        \* the process's clock
  dbMonth,      \* the database's clock
  sumMonth,     \* ghost: the month the holder's total is of
  astray,       \* ghost: the total in memory, or a row of a call counted in it, is of
                \* another month than period
  unlogged      \* ghost: answered calls of this process whose row could not be written

budgetVars == <<at, captured, holder, sum, cost, period, logged, month, dbMonth, sumMonth, astray,
          unlogged, faults>>

Months == 1..MaxMonth
CallPlaces == {"idle", "check", "read", "store", "gate", "post", "log"}

BudgetTypeOK ==
  /\ at       \in [Calls -> CallPlaces]
  /\ captured \in [Calls -> Months]
  /\ holder   \in Calls \cup {None}
  /\ sum      \in Nat
  /\ cost     \in Nat
  /\ period   \in Months \cup {0}
  /\ logged   \in [Months -> 0..MaxRows + Cardinality(Calls)]
  /\ month    \in Months
  /\ dbMonth  \in Months
  /\ sumMonth \in Months
  /\ astray   \in BOOLEAN
  /\ unlogged \in 0..MaxFaults
  /\ faults   \in 0..MaxFaults
  /\ \A c \in Calls : holder = c <=> at[c] \in {"read", "store"}

BudgetInit ==
  /\ at       = [c \in Calls |-> "idle"]
  /\ captured = [c \in Calls |-> 1]
  /\ holder   = None
  /\ sum = 0 /\ cost = 0 /\ period = 0
  /\ logged   = [m \in Months |-> 0]
  /\ month = 1 /\ dbMonth = 1
  /\ sumMonth = 1
  /\ astray   = FALSE
  /\ unlogged = 0
  /\ faults   = 0

Logging == Cardinality({c \in Calls : at[c] = "log"})

----------------------------------------------------------------------------
(* Complete and Stats take the month before they ask for the lock. *)
CheckBudget(c) ==
  /\ at[c] = "idle"
  /\ Goto(c, "check")
  /\ captured' = [captured EXCEPT ![c] = month]
  /\ UNCHANGED <<holder, sum, cost, period, logged, month, dbMonth, sumMonth, astray, unlogged, faults>>

(* reseed: the month is loaded already. *)
KnowMonth(c) ==
  /\ at[c] = "check"
  /\ holder = None
  /\ period = captured[c]
  /\ Goto(c, "gate")
  /\ UNCHANGED <<captured, holder, sum, cost, period, logged, month, dbMonth, sumMonth, astray, unlogged, faults>>

(* reseed: it is not, and the lock is kept for the query. *)
Lock(c) ==
  /\ at[c] = "check"
  /\ holder = None
  /\ period # captured[c]
  /\ holder' = c
  /\ Goto(c, "read")
  /\ UNCHANGED <<captured, sum, cost, period, logged, month, dbMonth, sumMonth, astray, unlogged, faults>>

(* The query adds up the month of the database's clock. *)
ReadTotal(c) ==
  /\ at[c] = "read"
  /\ sum' = logged[dbMonth]
  /\ sumMonth' = dbMonth
  /\ Goto(c, "store")
  /\ UNCHANGED <<captured, holder, cost, period, logged, month, dbMonth, astray, unlogged, faults>>

(* Seeded fault: the error path returns without releasing the lock. *)
ReadFailsLocked(c) ==
  /\ Fault
  /\ at[c] = "read"
  /\ Goto(c, "gate")
  /\ UNCHANGED <<captured, holder, sum, cost, period, logged, month, dbMonth, sumMonth, astray, unlogged>>

(* The query fails: the gate decides with the counter as it is. *)
ReadFails(c) ==
  /\ Fault
  /\ at[c] = "read"
  /\ holder' = None
  /\ Goto(c, "gate")
  /\ UNCHANGED <<captured, sum, cost, period, logged, month, dbMonth, sumMonth, astray, unlogged>>

(* Seeded fault: the month is noted and the total thrown away. *)
StoreMonthOnly(c) ==
  /\ at[c] = "store"
  /\ cost' = 0 /\ sum' = 0
  /\ period' = captured[c]
  /\ astray' = (sumMonth # captured[c])
  /\ holder' = None
  /\ Goto(c, "gate")
  /\ UNCHANGED <<captured, logged, month, dbMonth, sumMonth, unlogged, faults>>

(* Store overwrites whatever was added since the query. *)
StoreTotal(c) ==
  /\ at[c] = "store"
  /\ cost' = sum /\ sum' = 0
  /\ period' = captured[c]
  /\ astray' = (sumMonth # captured[c])
  /\ holder' = None
  /\ Goto(c, "gate")
  /\ UNCHANGED <<captured, logged, month, dbMonth, sumMonth, unlogged, faults>>

(* The breaker is closed. *)
WithinLimit == cost < Limit

Admit(c) ==
  /\ at[c] = "gate"
  /\ WithinLimit
  /\ logged[dbMonth] < MaxRows
  /\ Goto(c, "post")
  /\ UNCHANGED <<captured, holder, sum, cost, period, logged, month, dbMonth, sumMonth, astray, unlogged, faults>>

(* ErrCostLimit, or a Stats call, which only reads the counter. *)
Return(c) ==
  /\ at[c] = "gate"
  /\ Goto(c, "idle")
  /\ UNCHANGED <<captured, holder, sum, cost, period, logged, month, dbMonth, sumMonth, astray, unlogged, faults>>

(* Seeded fault: the answered call is logged and not counted. *)
AnswerUncounted(c) ==
  /\ at[c] = "post"
  /\ Goto(c, "log")
  /\ UNCHANGED <<captured, holder, sum, cost, period, logged, month, dbMonth, sumMonth, astray, unlogged, faults>>

(* The provider answered: the counter first, then the row. *)
Answer(c) ==
  /\ at[c] = "post"
  /\ cost' = cost + 1
  /\ Goto(c, "log")
  /\ UNCHANGED <<captured, holder, sum, period, logged, month, dbMonth, sumMonth, astray, unlogged, faults>>

(* The last attempt failed: nothing is charged and the row costs nothing. *)
PostFails(c) ==
  /\ at[c] = "post"
  /\ Goto(c, "idle")
  /\ UNCHANGED <<captured, holder, sum, cost, period, logged, month, dbMonth, sumMonth, astray, unlogged, faults>>

(* The row belongs to the month of the database's clock. *)
WriteLog(c) ==
  /\ at[c] = "log"
  /\ logged' = [logged EXCEPT ![dbMonth] = @ + 1]
  /\ astray' = (astray \/ dbMonth # period)
  /\ Goto(c, "idle")
  /\ UNCHANGED <<captured, holder, sum, cost, period, month, dbMonth, sumMonth, unlogged, faults>>

LogFails(c) ==
  /\ Fault
  /\ at[c] = "log"
  /\ unlogged' = unlogged + 1
  /\ Goto(c, "idle")
  /\ UNCHANGED <<captured, holder, sum, cost, period, logged, month, dbMonth, sumMonth, astray>>

(* A deployment: the counter and the calls of the process are gone. *)
Restart ==
  /\ at' = [c \in Calls |-> "idle"]
  /\ holder' = None
  /\ sum' = 0 /\ cost' = 0 /\ period' = 0
  /\ astray' = FALSE
  /\ UNCHANGED <<captured, logged, month, dbMonth, sumMonth, unlogged, faults>>

MonthTurns ==
  /\ month < MaxMonth /\ month <= dbMonth
  /\ month' = month + 1
  /\ UNCHANGED <<at, captured, holder, sum, cost, period, logged, dbMonth, sumMonth, astray, unlogged, faults>>

DbMonthTurns ==
  /\ dbMonth < MaxMonth /\ dbMonth <= month
  /\ dbMonth' = dbMonth + 1
  /\ UNCHANGED <<at, captured, holder, sum, cost, period, logged, month, sumMonth, astray, unlogged, faults>>

(* What a call does once it has begun. *)
Step(c) ==
  \/ KnowMonth(c)
  \/ Lock(c)
  \/ ReadTotal(c)
  \/ ReadFails(c)
  \/ StoreTotal(c)
  \/ Admit(c)
  \/ Return(c)
  \/ Answer(c)
  \/ PostFails(c)
  \/ WriteLog(c)
  \/ LogFails(c)

BudgetNext ==
  \/ \E c \in Calls : CheckBudget(c) \/ Step(c)
  \/ Restart
  \/ MonthTurns
  \/ DbMonthTurns

BudgetSpec == BudgetInit /\ [][BudgetNext]_budgetVars

(* A call that has begun goes on: the HTTP client, the attempts and the    *)
(* statements all time out.  Getting the lock is strongly fair, as Go's    *)
(* mutex hands itself to a waiter that starves.                            *)
BudgetLiveSpec ==
  /\ BudgetSpec
  /\ \A c \in Calls : WF_budgetVars(Step(c)) /\ SF_budgetVars(KnowMonth(c) \/ Lock(c))

----------------------------------------------------------------------------
(* Once the month's total is loaded, the counter and the log are at most a *)
(* few calls apart.  The log is ahead by at most one call for each other   *)
(* caller: those that were charged while the total was being loaded.  The  *)
(* counter is ahead by the calls whose row is still to be written or could *)
(* not be written, unless the total was read, or a row written, while the  *)
(* two clocks showed different months.  (reseed, Complete.)  Every         *)
(* variable keeps its type.                                                *)
CounterMatchesLog ==
  BudgetTypeOK /\ (period = month /\ month = dbMonth =>
    /\ logged[month] <= cost + Cardinality(Calls) - 1
    /\ astray \/ cost <= logged[month] + Logging + unlogged)

(* Whatever restarts come between, a month's log overshoots the limit by   *)
(* at most two calls for each other caller (those forgotten while the      *)
(* total was loaded and those admitted together at the end) and one for    *)
(* each failing query.  (checkBudget, reseed.)                             *)
BudgetHolds ==
  \A m \in Months : logged[m] <= Limit + 2 * (Cardinality(Calls) - 1) + faults

(* Every call ends: no path leaves the lock behind.  (reseed.) *)
EveryCallEnds == \A c \in Calls : at[c] # "idle" ~> at[c] = "idle"
=============================================================================
