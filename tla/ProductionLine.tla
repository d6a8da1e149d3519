--------------------------- MODULE ProductionLine ---------------------------
(***************************************************************************)
(* The production queue and the two ways an item moves through it: an      *)
(* operator's mutation and the simulator's detached goroutines             *)
(* (backend/internal/services/manufacturing_service.go).                   *)
(*                                                                         *)
(* AdvanceStatus is four database calls in a row, each an action here, so  *)
(* two calls about one item interleave between reading its status and      *)
(* writing the event that names it.                                        *)
(***************************************************************************)
EXTENDS Naturals, Sequences, FiniteSets, Functions

CONSTANTS
  Items,        \* paid orders; one production_queue row each
  Callers,      \* concurrent executions of EnqueueOrder and AdvanceStatus
  OperatorMoves,\* statuses operators ask for with AdvanceProductionStatus
  MaxRuns,      \* bound: calls of SimulateProduction
  MaxWrites     \* bound: statuses an item's row is given

Stages  == <<"queued", "art_review", "printing", "cutting", "quality_check",
             "packaging", "shipped">>
Parked  == {"shipped", "cancelled", "on_hold"}
Status  == Range(Stages) \cup Parked

ASSUME LineAssumption ==
  /\ IsFiniteSet(Callers)
  /\ OperatorMoves \subseteq Status
  /\ MaxRuns \in Nat
  /\ MaxWrites \in Nat

VARIABLES
  status,       \* production_queue.status, "none" before the row exists
  order,        \* orders.status
  events,       \* production_events of each item, in order: <<from, to>>
  calls,        \* what each execution is about to do
  sleeping,     \* simulator goroutines before they call: <<run, item, next>>
  runs,         \* calls of SimulateProduction so far
  history,      \* ghost: every status the row was given, in order
  overlapped,   \* ghost: items two calls were about at the same time
  unmarked,     \* ghost: shipped items whose call never got to mark the order
  faulted       \* ghost: a write to the queue or its trail failed, or a restart

ghosts == <<history, overlapped, unmarked, faulted>>
vars == <<status, order, events, calls, sleeping, runs, ghosts>>

Steps   == {"idle", "write", "log", "ship"}
Runs    == 1..MaxRuns
Idle    == [step |-> "idle"]
Call    == [step : Steps \ {"idle"}, item : Items, from : Status \cup {"none"},
            to : Status]

TypeOK ==
  /\ status   \in [Items -> Status \cup {"none"}]
  /\ order    \in [Items -> {"paid", "shipped"}]
  /\ events   \in [Items -> Seq((Status \cup {"none"}) \X Status)]
  /\ calls    \in [Callers -> Call \cup {Idle}]
  /\ sleeping \subseteq Runs \X Items \X Status
  /\ runs     \in 0..MaxRuns
  /\ history  \in [Items -> Seq(Status)]
  /\ overlapped \subseteq Items
  /\ unmarked \subseteq Items
  /\ faulted \in BOOLEAN

Init ==
  /\ status   = [i \in Items |-> "none"]
  /\ order    = [i \in Items |-> "paid"]
  /\ events   = [i \in Items |-> <<>>]
  /\ calls    = [c \in Callers |-> Idle]
  /\ sleeping = {}
  /\ runs     = 0
  /\ history  = [i \in Items |-> <<>>]
  /\ overlapped = {}
  /\ unmarked = {}
  /\ faulted  = FALSE

(* nextStage: the stage after s on the happy path, "" at its end and off it. *)
NextStage(s) ==
  IF \E k \in 1..6 : Stages[k] = s
    THEN Stages[1 + CHOOSE k \in 1..6 : Stages[k] = s]
    ELSE ""

Finished(c) == calls' = [calls EXCEPT ![c] = Idle]
Proceeds(c, step) == calls' = [calls EXCEPT ![c].step = step]

(* The row of item i is given status s. *)
Write(i, s) ==
  /\ Len(history[i]) < MaxWrites
  /\ status' = [status EXCEPT ![i] = s]
  /\ history' = [history EXCEPT ![i] = Append(@, s)]

----------------------------------------------------------------------------
(* EnqueueOrder: INSERT ... ON CONFLICT DO NOTHING, then the first event. *)
EnqueueOrder(c, i) ==
  /\ calls[c] = Idle
  /\ status[i] = "none"
  /\ Write(i, "queued")
  /\ calls' = [calls EXCEPT ![c] = [step |-> "log", item |-> i, from |-> "none",
                                     to |-> "queued"]]
  /\ UNCHANGED <<order, events, sleeping, runs, overlapped, unmarked, faulted>>

(* AdvanceStatus reads the item's status; what it is moved to was decided before. *)
Read(c, i, s) ==
  /\ calls[c] = Idle
  /\ status[i] # "none"
  /\ calls' = [calls EXCEPT ![c] = [step |-> "write", item |-> i, from |-> status[i],
                                     to |-> s]]
  /\ overlapped' = overlapped \cup {i : b \in {d \in Callers : calls[d] # Idle /\ calls[d].item = i}}

(* AdvanceProductionStatus: any status the table's CHECK allows. *)
OperatorAdvances(c, i, s) ==
  /\ s \in OperatorMoves
  /\ Read(c, i, s)
  /\ UNCHANGED <<status, order, events, sleeping, runs, history, unmarked, faulted>>

(* A simulator goroutine wakes up after its random delay. *)
SimulatorAdvances(c, r, i, s) ==
  /\ <<r, i, s>> \in sleeping
  /\ sleeping' = sleeping \ {<<r, i, s>>}
  /\ Read(c, i, s)
  /\ UNCHANGED <<status, order, events, runs, history, unmarked, faulted>>

(* UPDATE production_queue ... WHERE id = $4: no condition on the status read. *)
WriteStatus(c) ==
  /\ calls[c].step = "write"
  /\ Write(calls[c].item, calls[c].to)
  /\ Proceeds(c, "log")
  /\ UNCHANGED <<order, events, sleeping, runs, overlapped, unmarked, faulted>>

(* Seeded fault: the error is printed and the call goes on. *)
WriteFailsQuietly(c) ==
  /\ calls[c].step = "write"
  /\ Proceeds(c, "log")
  /\ faulted' = TRUE
  /\ UNCHANGED <<status, order, events, sleeping, runs, history, overlapped, unmarked>>

(* The update fails, or its reply is lost: the error is returned, and the  *)
(* call ends without an event and without a look at the order.             *)
WriteFails(c) ==
  /\ calls[c].step = "write"
  /\ \/ UNCHANGED <<status, history, unmarked>>
     \/ /\ Write(calls[c].item, calls[c].to)
        /\ unmarked' = unmarked \cup {i \in {calls[c].item} : calls[c].to = "shipped"}
  /\ Finished(c)
  /\ faulted' = TRUE
  /\ UNCHANGED <<order, events, sleeping, runs, overlapped>>

(* Seeded fault: the event names the status the row has by now. *)
RereadFrom(c) == status[calls[c].item]

ReadFrom(c) == calls[c].from

(* logEvent: the transition as this call saw it. *)
LogEvent(c) ==
  /\ calls[c].step = "log"
  /\ LET i == calls[c].item IN
       events' = [events EXCEPT ![i] = Append(@, <<ReadFrom(c), calls[c].to>>)]
  /\ IF calls[c].to = "shipped" THEN Proceeds(c, "ship") ELSE Finished(c)
  /\ UNCHANGED <<status, order, sleeping, runs, ghosts>>

(* logEvent fails: a warning, and the call goes on. *)
LogFails(c) ==
  /\ calls[c].step = "log"
  /\ IF calls[c].to = "shipped" THEN Proceeds(c, "ship") ELSE Finished(c)
  /\ faulted' = TRUE
  /\ UNCHANGED <<status, order, events, sleeping, runs, history, overlapped, unmarked>>

(* Seeded fault: the order is only marked when the row still says shipped. *)
MarkShippedIfStill(c) ==
  /\ calls[c].step = "ship"
  /\ LET i == calls[c].item IN
       IF status[i] = "shipped" THEN order' = [order EXCEPT ![i] = "shipped"]
                                ELSE UNCHANGED order
  /\ Finished(c)
  /\ UNCHANGED <<status, events, sleeping, runs, ghosts>>

(* orders.status through the queue row; a failed update only produces a    *)
(* warning.  (The notification started after it is a stub that writes      *)
(* nothing.)                                                               *)
MarkShipped(c) ==
  /\ calls[c].step = "ship"
  /\ LET i == calls[c].item IN
       \/ order' = [order EXCEPT ![i] = "shipped"] /\ UNCHANGED unmarked
       \/ order' = order /\ unmarked' = unmarked \cup {i}
  /\ Finished(c)
  /\ UNCHANGED <<status, events, sleeping, runs, history, overlapped, faulted>>

(* SimulateProduction: one goroutine per item in flight, with the stage    *)
(* that follows the status it has now.  (The LIMIT of 20 is not reached.)  *)
SimulateProduction ==
  /\ runs < MaxRuns
  /\ runs' = runs + 1
  /\ sleeping' = sleeping \cup
       {<<runs + 1, i, NextStage(status[i])>> :
          i \in {j \in Items : status[j] \notin Parked \cup {"none"}}}
  /\ UNCHANGED <<status, order, events, calls, ghosts>>

(* Calls that gave their row "shipped" and have yet to mark the order. *)
Marking(i) == {c \in Callers : /\ calls[c].step \in {"log", "ship"}
                               /\ calls[c].item = i /\ calls[c].to = "shipped"}

(* The API process dies with its calls and its sleeping goroutines. *)
Crash ==
  /\ faulted' = TRUE
  /\ unmarked' = unmarked \cup {i \in Items : Marking(i) # {}}
  /\ calls' = [c \in Callers |-> Idle]
  /\ sleeping' = {}
  /\ UNCHANGED <<status, order, events, runs, history, overlapped>>

Advance(c) == WriteStatus(c) \/ LogEvent(c) \/ MarkShipped(c)

Next ==
  \/ \E c \in Callers :
       \/ \E i \in Items :
            \/ EnqueueOrder(c, i)
            \/ \E s \in Status :
                 \/ OperatorAdvances(c, i, s)
                 \/ \E r \in Runs : SimulatorAdvances(c, r, i, s)
       \/ Advance(c)
       \/ WriteFails(c)
       \/ LogFails(c)
  \/ SimulateProduction
  \/ Crash

Spec == Init /\ [][Next]_vars

(* A goroutine that has started runs on; nobody is obliged to call. *)
Fairness == \A c \in Callers : WF_vars(Advance(c))

LiveSpec == Spec /\ Fairness

----------------------------------------------------------------------------
Quiet(i) == \A c \in Callers : calls[c] # Idle => calls[c].item # i

Times(s, x) == Cardinality({k \in DOMAIN s : s[k] = x})

EventsTo(i, s) == Cardinality({k \in DOMAIN events[i] : events[i][k][2] = s})

(***************************************************************************)
(* The audit trail of AdvanceStatus reports nothing that did not happen: a *)
(* status appears in an item's events at most as often as its row was      *)
(* given it, whatever calls overlap, fail or die.                          *)
(***************************************************************************)
AuditTrailIsHonest ==
  \A i \in Items, s \in Status : EventsTo(i, s) <= Times(history[i], s)

(***************************************************************************)
(* As long as no two calls about an item overlap and none fails, the       *)
(* item's events form a chain: each starts where the one before it ended,  *)
(* and the last one ends with the row's status.                            *)
(***************************************************************************)
AuditTrailIsChain ==
  \A i \in Items \ overlapped :
    ~ faulted =>
      /\ \A k \in 1..Len(events[i]) - 1 : events[i][k + 1][1] = events[i][k][2]
      /\ Quiet(i) /\ events[i] # <<>> => events[i][Len(events[i])][2] = status[i]

(***************************************************************************)
(* The audit trail is honest, and a chain where nothing got in its way.    *)
(* Every variable keeps its type.                                          *)
(***************************************************************************)
AuditTrail == TypeOK /\ AuditTrailIsHonest /\ AuditTrailIsChain

(* The row was given "shipped" at some time, whatever it was given since. *)
Shipped(i) == "shipped" \in Range(history[i])

(***************************************************************************)
(* orders.status follows the queue row: an order says shipped only for an  *)
(* item that was, and it says so once no call about that is under way,     *)
(* however calls overlap and wherever the row went meanwhile, unless the   *)
(* very call that should have marked it failed or died.                    *)
(***************************************************************************)
ShippingFollowsTheRow ==
  \A i \in Items :
    /\ order[i] = "shipped" => Shipped(i)
    /\ Shipped(i) /\ Marking(i) = {} => order[i] = "shipped" \/ i \in unmarked

(***************************************************************************)
(* The goroutine that shipped an item gets to its order, or fails there.   *)
(***************************************************************************)
ShippedEventuallyMarked ==
  \A i \in Items : Shipped(i) ~> order[i] = "shipped" \/ i \in unmarked
=============================================================================
