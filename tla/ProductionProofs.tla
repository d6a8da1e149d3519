--------------------------- MODULE ProductionProofs ---------------------------
(***************************************************************************)
(* What holds of ProductionLine for every set of items, every finite       *)
(* number of concurrent calls and whatever statuses operators ask for, and *)
(* of ProductionSchedule for every set of orders, number of deliveries,    *)
(* horizon, week and capacity.                                             *)
(*                                                                         *)
(* The audit trail is honest because each call owes at most the one event  *)
(* for the status it wrote; it is a chain, where no two calls met, because *)
(* the one call about an item still knows the status it started from.      *)
(* That bookings and promises agree rests on the one goroutine per order   *)
(* whose insert met no conflict; that capacity is kept in turn, on what a  *)
(* goroutine alone can still say of the day it found.                      *)
(***************************************************************************)
EXTENDS ProductionLine, ProductionSchedule, FiniteSetTheorems, TLAPS

(* The calls that are about an item, and that will write an event that it  *)
(* was moved to s.                                                         *)
About(i)    == {c \in Callers : calls[c].step # "idle" /\ calls[c].item = i}
ToLog(i, s) == {c \in About(i) : calls[c].step = "log" /\ calls[c].to = s}

CallsAreAbout ==
  \A c \in Callers : calls[c].step # "idle" =>
    /\ status[calls[c].item] # "none"
    /\ calls[c].step = "ship" => calls[c].to = "shipped"

(* Events written and still to be written are covered by what the row was  *)
(* given.                                                                  *)
EventsAreOwed ==
  \A i \in Items, s \in Status :
    EventsTo(i, s) + Cardinality(ToLog(i, s)) <= Times(history[i], s)

(* An order, or a call on its way to it, has a shipped row behind it; and  *)
(* the order of a shipped row is marked, about to be, or was given up.     *)
MarksAreOwed ==
  \A i \in Items :
    /\ order[i] = "shipped" \/ Marking(i) # {} => Shipped(i)
    /\ Shipped(i) => order[i] = "shipped" \/ i \in unmarked \/ Marking(i) # {}

SoleCall == \A i \in Items \ overlapped : \A c, d \in About(i) : c = d

(* Where the trail of an item ends, and where a call alone with it stands. *)
LastTo(i) == IF events[i] = <<>> THEN "none" ELSE events[i][Len(events[i])][2]

InPlace(c, i) ==
  /\ calls[c].step = "write" => calls[c].from = status[i] /\ LastTo(i) = status[i]
  /\ calls[c].step = "log"   => calls[c].from = LastTo(i) /\ calls[c].to = status[i]
  /\ calls[c].step = "ship"  => LastTo(i) = status[i]

Chained(i) == \A k \in 1..Len(events[i]) - 1 : events[i][k + 1][1] = events[i][k][2]

Tidy(i) ==
  /\ Chained(i)
  /\ About(i) = {} => LastTo(i) = status[i]
  /\ \A c \in About(i) : InPlace(c, i)

ChainInTurn == ~ faulted => \A i \in Items \ overlapped : Tidy(i)

IInv ==
  /\ TypeOK
  /\ CallsAreAbout
  /\ EventsAreOwed
  /\ MarksAreOwed
  /\ SoleCall
  /\ ChainInTurn

----------------------------------------------------------------------------
(* The statuses of the table's CHECK. *)
LEMMA StatusIs ==
  Status = {"queued", "art_review", "printing", "cutting", "quality_check", "packaging",
            "shipped", "cancelled", "on_hold"}
<1>1. DOMAIN Stages = 1..7
  BY DEF Stages
<1>2. Range(Stages) = {Stages[1], Stages[2], Stages[3], Stages[4], Stages[5], Stages[6], Stages[7]}
  <2>1. 1..7 = {1, 2, 3, 4, 5, 6, 7}
    OBVIOUS
  <2> QED BY <1>1, <2>1 DEF Range
<1> QED BY <1>2 DEF Status, Parked, Stages

(* An item in flight has a next stage. *)
LEMMA NextStageExists ==
  ASSUME NEW s \in Status \ Parked PROVE NextStage(s) \in Status
<1>1. \E k \in 1..6 : Stages[k] = s
  <2>1. s \in {"queued", "art_review", "printing", "cutting", "quality_check", "packaging"}
    BY StatusIs DEF Parked
  <2>2. {Stages[1], Stages[2], Stages[3], Stages[4], Stages[5], Stages[6]} =
          {"queued", "art_review", "printing", "cutting", "quality_check", "packaging"}
    BY DEF Stages
  <2>3. PICK k \in {1, 2, 3, 4, 5, 6} : Stages[k] = s
    BY <2>1, <2>2
  <2> QED BY <2>3
<1> DEFINE k == CHOOSE x \in 1..6 : Stages[x] = s
<1>2. k \in 1..6
  BY <1>1
<1>3. 1 + k \in DOMAIN Stages
  <2>1. DOMAIN Stages = 1..7
    BY DEF Stages
  <2> HIDE DEF k
  <2> QED BY <1>2, <2>1
<1>4. NextStage(s) = Stages[1 + k]
  BY <1>1 DEF NextStage
<1> QED BY <1>3, <1>4 DEF Status, Range

(* Positions in a sequence are counted one by one. *)
LEMMA OneMore ==
  ASSUME NEW n \in Nat, NEW S \in SUBSET (1..n)
  PROVE  /\ IsFiniteSet(S) /\ Cardinality(S) \in Nat
         /\ Cardinality(S \cup {n + 1}) = Cardinality(S) + 1
<1>1. IsFiniteSet(S)
  <2>1. IsFiniteSet(1..n)
    BY FS_Interval
  <2> QED BY <2>1, FS_Subset
<1>2. n + 1 \notin S
  OBVIOUS
<1> QED BY <1>1, <1>2, FS_AddElement, FS_CardinalityType

(* How often a value occurs in a sequence that grows by one. *)
LEMMA TimesAppend ==
  ASSUME NEW T, NEW s \in Seq(T), NEW e \in T, NEW x
  PROVE  /\ Times(s, x) \in Nat
         /\ Times(Append(s, e), x) = Times(s, x) + (IF e = x THEN 1 ELSE 0)
<1> DEFINE S == {k \in DOMAIN s : s[k] = x}
           R == {k \in DOMAIN Append(s, e) : Append(s, e)[k] = x}
<1>1. /\ Len(s) \in Nat /\ DOMAIN s = 1..Len(s) /\ S \in SUBSET (1..Len(s))
      /\ DOMAIN Append(s, e) = 1..Len(s) + 1
      /\ \A k \in 1..Len(s) : Append(s, e)[k] = s[k]
      /\ Append(s, e)[Len(s) + 1] = e
  OBVIOUS
<1>2. R = IF e = x THEN S \cup {Len(s) + 1} ELSE S
  <2>1. 1..Len(s) + 1 = (1..Len(s)) \cup {Len(s) + 1}
    BY <1>1
  <2> QED BY <1>1, <2>1
<1>3. Times(s, x) = Cardinality(S) /\ Times(Append(s, e), x) = Cardinality(R)
  BY DEF Times
<1>4. Cardinality(S) \in Nat /\ Cardinality(S \cup {Len(s) + 1}) = Cardinality(S) + 1
  BY <1>1, OneMore
<1> HIDE DEF S, R
<1> QED BY <1>2, <1>3, <1>4

(* The same of the events that end in s. *)
LEMMA EventsAppend ==
  ASSUME NEW T, NEW i, events[i] \in Seq(T), NEW e \in T, events'[i] = Append(events[i], e)
  PROVE  \A s : EventsTo(i, s)' = EventsTo(i, s) + (IF e[2] = s THEN 1 ELSE 0)
<1> SUFFICES ASSUME NEW s
             PROVE  EventsTo(i, s)' = EventsTo(i, s) + (IF e[2] = s THEN 1 ELSE 0)
  OBVIOUS
<1> DEFINE n == Len(events[i])
           S == {k \in DOMAIN events[i] : events[i][k][2] = s}
           R == {k \in DOMAIN events'[i] : events'[i][k][2] = s}
<1>1. /\ n \in Nat /\ DOMAIN events[i] = 1..n /\ S \in SUBSET (1..n)
      /\ DOMAIN events'[i] = 1..n + 1
      /\ \A k \in 1..n : events'[i][k] = events[i][k]
      /\ events'[i][n + 1] = e
  OBVIOUS
<1>2. R = IF e[2] = s THEN S \cup {n + 1} ELSE S
  <2>1. 1..n + 1 = (1..n) \cup {n + 1}
    BY <1>1
  <2> QED BY <1>1, <2>1
<1>3. EventsTo(i, s) = Cardinality(S) /\ EventsTo(i, s)' = Cardinality(R)
  BY DEF EventsTo
<1>4. Cardinality(S) \in Nat /\ Cardinality(S \cup {n + 1}) = Cardinality(S) + 1
  BY <1>1, OneMore
<1> HIDE DEF S, R, n
<1> QED BY <1>2, <1>3, <1>4

(* A set of which at most c came or went. *)
LEMMA OneMoved ==
  ASSUME NEW S, NEW R, NEW c, IsFiniteSet(S), R \ {c} = S \ {c}
  PROVE  /\ IsFiniteSet(R) /\ Cardinality(S) \in Nat /\ Cardinality(R) \in Nat
         /\ Cardinality(R) = Cardinality(S) + (IF c \in R THEN 1 ELSE 0)
                                            - (IF c \in S THEN 1 ELSE 0)
<1> DEFINE M == S \ {c}
<1>1. IsFiniteSet(M) /\ Cardinality(M) \in Nat
  BY FS_Subset, FS_CardinalityType
<1>2. IsFiniteSet(M \cup {c}) /\ Cardinality(M \cup {c}) = Cardinality(M) + 1
  BY <1>1, FS_AddElement
<1>3. /\ IsFiniteSet(S)
      /\ Cardinality(S) = Cardinality(M) + (IF c \in S THEN 1 ELSE 0)
  <2>1. CASE c \in S
    <3>1. S = M \cup {c}
      BY <2>1
    <3> HIDE DEF M
    <3> QED BY <1>2, <2>1, <3>1
  <2>2. CASE c \notin S
    <3>1. S = M
      BY <2>2
    <3> HIDE DEF M
    <3> QED BY <1>1, <2>2, <3>1
  <2> QED BY <2>1, <2>2
<1>4. /\ IsFiniteSet(R)
      /\ Cardinality(R) = Cardinality(M) + (IF c \in R THEN 1 ELSE 0)
  <2>1. R = IF c \in R THEN M \cup {c} ELSE M
    OBVIOUS
  <2> HIDE DEF M
  <2> QED BY <1>1, <1>2, <2>1
<1> HIDE DEF M
<1> QED BY <1>1, <1>3, <1>4

(* An execution is idle or about an item. *)
LEMMA CallTypes ==
  ASSUME TypeOK, NEW c \in Callers
  PROVE  /\ calls[c] = Idle <=> calls[c].step = "idle"
         /\ calls[c].step # "idle" =>
              /\ calls[c] \in Call /\ calls[c].step \in {"write", "log", "ship"}
              /\ calls[c].item \in Items /\ calls[c].to \in Status
              /\ calls[c].from \in Status \cup {"none"}
<1>1. calls[c] \in Call \/ calls[c] = Idle
  BY DEF TypeOK
<1>2. CASE calls[c] = Idle
  BY <1>2 DEF Idle
<1>3. CASE calls[c] \in Call
  <2>1. /\ calls[c].step \in {"write", "log", "ship"}
        /\ calls[c].item \in Items /\ calls[c].to \in Status
        /\ calls[c].from \in Status \cup {"none"}
    BY <1>3 DEF Call, Steps
  <2> QED BY <1>3, <2>1 DEF Idle
<1> QED BY <1>1, <1>2, <1>3

(* A step of one execution moves it alone between the sets above. *)
LEMMA OthersStay ==
  ASSUME NEW c \in Callers, \A d \in Callers \ {c} : calls'[d] = calls[d]
  PROVE  /\ \A i : About(i)' \ {c} = About(i) \ {c}
         /\ \A i : Marking(i)' \ {c} = Marking(i) \ {c}
         /\ \A i, s : ToLog(i, s)' \ {c} = ToLog(i, s) \ {c}
BY DEF About, ToLog, Marking

(* There are finitely many calls. *)
LEMMA CallsAreFinite ==
  \A i, s : IsFiniteSet(ToLog(i, s)) /\ Cardinality(ToLog(i, s)) \in Nat
<1>1. \A i, s : ToLog(i, s) \subseteq Callers
  BY DEF ToLog, About
<1> QED BY <1>1, LineAssumption, FS_Subset, FS_CardinalityType DEF LineAssumption

(* The counts are numbers. *)
LEMMA CountsAreNumbers ==
  ASSUME TypeOK, NEW i \in Items, NEW s
  PROVE  EventsTo(i, s) \in Nat /\ Times(history[i], s) \in Nat
<1> DEFINE S == {k \in DOMAIN events[i] : events[i][k][2] = s}
           R == {k \in DOMAIN history[i] : history[i][k] = s}
<1>1. S \in SUBSET (1..Len(events[i])) /\ Len(events[i]) \in Nat
  BY DEF TypeOK
<1>2. R \in SUBSET (1..Len(history[i])) /\ Len(history[i]) \in Nat
  BY DEF TypeOK
<1> HIDE DEF S, R
<1>3. Cardinality(S) \in Nat /\ Cardinality(R) \in Nat
  BY <1>1, <1>2, OneMore
<1> QED BY <1>3 DEF EventsTo, Times, S, R

(* Writing a row adds one to one count. *)
LEMMA WriteCounts ==
  ASSUME TypeOK, NEW i \in Items, NEW s \in Status, Write(i, s)
  PROVE  \A j \in Items : \A x :
           Times(history[j], x)' = Times(history[j], x) + (IF j = i /\ x = s THEN 1 ELSE 0)
<1> SUFFICES ASSUME NEW j \in Items, NEW x
             PROVE  Times(history[j], x)' =
                      Times(history[j], x) + (IF j = i /\ x = s THEN 1 ELSE 0)
  OBVIOUS
<1>1. CASE j = i
  <2>1. history'[i] = Append(history[i], s) /\ history[i] \in Seq(Status)
    BY DEF TypeOK, Write
  <2> QED BY <1>1, <2>1, TimesAppend
<1>2. CASE j # i
  <2>1. history'[j] = history[j]
    BY <1>2 DEF TypeOK, Write
  <2> QED BY <1>2, <2>1, CountsAreNumbers
<1> QED BY <1>1, <1>2

(* A row that is written "shipped" is shipped from then on. *)
LEMMA ShippedGrows ==
  ASSUME TypeOK, NEW i \in Items, NEW s \in Status, Write(i, s)
  PROVE  \A j \in Items : Shipped(j)' <=> Shipped(j) \/ (j = i /\ s = "shipped")
<1> SUFFICES ASSUME NEW j \in Items
             PROVE  Shipped(j)' <=> Shipped(j) \/ (j = i /\ s = "shipped")
  OBVIOUS
<1>1. CASE j = i
  <2> DEFINE n == Len(history[i])
  <2>1. /\ n \in Nat /\ DOMAIN history[i] = 1..n /\ DOMAIN history'[i] = 1..n + 1
        /\ \A k \in 1..n : history'[i][k] = history[i][k]
        /\ history'[i][n + 1] = s
    BY DEF TypeOK, Write
  <2>2. Shipped(i) <=> \E k \in 1..n : history[i][k] = "shipped"
    BY <2>1 DEF Shipped, Range
  <2>3. Shipped(i)' <=> \E k \in 1..n + 1 : history'[i][k] = "shipped"
    BY <2>1 DEF Shipped, Range
  <2>4. 1..n + 1 = (1..n) \cup {n + 1}
    BY <2>1
  <2> HIDE DEF n
  <2> QED BY <1>1, <2>1, <2>2, <2>3, <2>4
<1>2. CASE j # i
  BY <1>2 DEF TypeOK, Write, Shipped
<1> QED BY <1>1, <1>2

(* A step that writes no event and makes its call owe none. *)
LEMMA StillOwed ==
  ASSUME TypeOK, EventsAreOwed, UNCHANGED events,
         NEW c \in Callers, \A d \in Callers \ {c} : calls'[d] = calls[d],
         \A i, s : c \in ToLog(i, s)' => c \in ToLog(i, s),
         \A i \in Items : \A s : /\ Times(history[i], s)' \in Nat
                                /\ Times(history[i], s)' >= Times(history[i], s)
  PROVE  EventsAreOwed'
<1>1. \A i, s : /\ Cardinality(ToLog(i, s)') <= Cardinality(ToLog(i, s))
               /\ Cardinality(ToLog(i, s)) \in Nat /\ Cardinality(ToLog(i, s)') \in Nat
  <2> SUFFICES ASSUME NEW i, NEW s
               PROVE  /\ Cardinality(ToLog(i, s)') <= Cardinality(ToLog(i, s))
                      /\ Cardinality(ToLog(i, s)) \in Nat /\ Cardinality(ToLog(i, s)') \in Nat
    OBVIOUS
  <2>1. ToLog(i, s)' \subseteq ToLog(i, s)
    <3>1. /\ ToLog(i, s)' \ {c} = ToLog(i, s) \ {c}
          /\ c \in ToLog(i, s)' => c \in ToLog(i, s)
      BY OthersStay
    <3> QED BY <3>1
  <2> QED BY <2>1, CallsAreFinite, FS_Subset, FS_CardinalityType
<1>2. \A i, s : EventsTo(i, s)' = EventsTo(i, s)
  BY DEF EventsTo
<1> SUFFICES ASSUME NEW i \in Items, NEW s \in Status
             PROVE  EventsTo(i, s)' + Cardinality(ToLog(i, s)') <= Times(history[i], s)'
  BY DEF EventsAreOwed
<1>3. EventsTo(i, s) + Cardinality(ToLog(i, s)) <= Times(history[i], s)
  BY DEF EventsAreOwed
<1>4. Times(history[i], s)' \in Nat /\ Times(history[i], s)' >= Times(history[i], s)
  OBVIOUS
<1> QED BY <1>1, <1>2, <1>3, <1>4, CountsAreNumbers

(* A history that stays as it is counts what it counted. *)
LEMMA SameCounts ==
  ASSUME TypeOK, UNCHANGED history
  PROVE  \A i \in Items : \A s : /\ Times(history[i], s)' \in Nat
                                /\ Times(history[i], s)' >= Times(history[i], s)
<1> SUFFICES ASSUME NEW i \in Items, NEW s
             PROVE  /\ Times(history[i], s)' \in Nat
                    /\ Times(history[i], s)' >= Times(history[i], s)
  OBVIOUS
<1>1. Times(history[i], s)' = Times(history[i], s) /\ Times(history[i], s) \in Nat
  BY CountsAreNumbers DEF Times
<1> QED BY <1>1

(* An item the step is not about keeps its trail. *)
LEMMA TidyElsewhere ==
  ASSUME NEW c \in Callers, \A d \in Callers \ {c} : calls'[d] = calls[d], NEW i,
         c \notin About(i), c \notin About(i)', status'[i] = status[i], events'[i] = events[i],
         Tidy(i)
  PROVE  Tidy(i)'
<1>1. About(i)' = About(i) /\ \A d \in About(i) : calls'[d] = calls[d]
  BY DEF About
<1>2. LastTo(i)' = LastTo(i)
  BY DEF LastTo
<1>3. Chained(i)'
  BY DEF Tidy, Chained
<1> QED BY <1>1, <1>2, <1>3 DEF Tidy, InPlace

(* Every initial state satisfies the inductive invariant. *)
LEMMA InitIInv == Init => IInv
<1> SUFFICES ASSUME Init PROVE IInv
  OBVIOUS
<1> USE LineAssumption DEF LineAssumption, Init
<1>1. TypeOK
  <2>1. faulted \in BOOLEAN
    BY Zenon
  <2>2. /\ events \in [Items -> Seq((Status \cup {"none"}) \X Status)]
        /\ history \in [Items -> Seq(Status)]
    OBVIOUS
  <2> QED BY <2>1, <2>2 DEF TypeOK
<1>2. \A i : About(i) = {}
  BY DEF About, Idle
<1>3. \A i, s : ToLog(i, s) = {} /\ Marking(i) = {}
  BY <1>2 DEF ToLog, Marking, Idle
<1>4. \A i \in Items, s \in Status : EventsTo(i, s) = 0 /\ Times(history[i], s) = 0
  BY FS_EmptySet DEF EventsTo, Times
<1>5. \A i, s : Cardinality(ToLog(i, s)) = 0
  <2>1. Cardinality({}) = 0
    BY FS_EmptySet
  <2> QED BY <1>3, <2>1
<1>6. EventsAreOwed /\ MarksAreOwed
  <2>1. \A i \in Items : ~ Shipped(i)
    BY DEF Shipped, Range
  <2> QED BY <1>3, <1>4, <1>5, <2>1 DEF EventsAreOwed, MarksAreOwed
<1>7. CallsAreAbout /\ SoleCall
  BY <1>2 DEF CallsAreAbout, SoleCall, Idle
<1>8. ChainInTurn
  BY <1>2 DEF ChainInTurn, Tidy, Chained, LastTo
<1> QED BY <1>1, <1>6, <1>7, <1>8 DEF IInv

(* A call reads an item's status: the operators' mutation and the simulator. *)
LEMMA ReadIInv ==
  ASSUME IInv, NEW c \in Callers, NEW i \in Items, NEW s \in Status, Read(c, i, s),
         sleeping' \subseteq sleeping,
         UNCHANGED <<status, order, events, runs, history, unmarked, faulted>>
  PROVE  IInv'
<1> USE DEF IInv
<1>1. /\ calls[c].step = "idle" /\ status[i] # "none"
      /\ calls'[c] = [step |-> "write", item |-> i, from |-> status[i], to |-> s]
      /\ \A d \in Callers \ {c} : calls'[d] = calls[d]
      /\ status[i] \in Status /\ calls' \in [Callers -> Call \cup {Idle}]
  <2>1. status[i] \in Status /\ calls[c].step = "idle"
    BY CallTypes DEF Read, TypeOK, Idle
  <2>2. [step |-> "write", item |-> i, from |-> status[i], to |-> s] \in Call
    BY <2>1 DEF Call, Steps
  <2> QED BY <2>1, <2>2 DEF Read, TypeOK
<1>2. overlapped \subseteq overlapped' /\ overlapped' \subseteq Items
      /\ (i \notin overlapped' => About(i) = {})
  <2> DEFINE B == {d \in Callers : calls[d] # Idle /\ calls[d].item = i}
  <2>1. overlapped' = overlapped \cup {i : b \in B}
    BY DEF Read
  <2>2. i \notin overlapped' => B = {}
    BY <2>1
  <2>3. About(i) = B
    BY CallTypes DEF About
  <2> QED BY <2>1, <2>2, <2>3 DEF TypeOK
<1>3. TypeOK'
  BY <1>1, <1>2 DEF TypeOK
<1>4. CallsAreAbout'
  BY <1>1 DEF CallsAreAbout
<1>5. EventsAreOwed'
  <2>1. \A j, x : c \notin ToLog(j, x)'
    BY <1>1 DEF ToLog
  <2> QED BY <1>1, <2>1, StillOwed, SameCounts
<1>6. MarksAreOwed'
  <2>1. \A j : Marking(j)' = Marking(j)
    BY <1>1 DEF Marking
  <2> QED BY <2>1 DEF MarksAreOwed, Shipped
<1>7. \A j : About(j)' = IF j = i THEN About(j) \cup {c} ELSE About(j)
  BY <1>1 DEF About
<1>8. SoleCall'
  BY <1>2, <1>7 DEF SoleCall
<1>9. ChainInTurn'
  <2> SUFFICES ASSUME ~ faulted, NEW j \in Items \ overlapped' PROVE Tidy(j)'
    BY DEF ChainInTurn
  <2>1. Tidy(j)
    BY <1>2 DEF ChainInTurn
  <2>2. CASE j # i
    <3>1. c \notin About(j) /\ c \notin About(j)'
      BY <1>1, <2>2 DEF About
    <3> QED BY <1>1, <2>1, <3>1, TidyElsewhere
  <2>3. CASE j = i
    <3>1. About(i)' = {c} /\ LastTo(i) = status[i]
      BY <1>2, <1>7, <2>1, <2>3 DEF Tidy
    <3>2. LastTo(i)' = LastTo(i) /\ Chained(i)'
      BY <2>1, <2>3 DEF LastTo, Chained, Tidy
    <3> QED BY <1>1, <2>3, <3>1, <3>2 DEF Tidy, InPlace
  <2> QED BY <2>2, <2>3
<1> QED BY <1>3, <1>4, <1>5, <1>6, <1>8, <1>9

(* The row is inserted by the first execution, which then owes its event.  *)
LEMMA EnqueueIInv ==
  ASSUME IInv, NEW c \in Callers, NEW i \in Items, EnqueueOrder(c, i) PROVE IInv'
<1> USE DEF IInv
<1>1. /\ calls[c].step = "idle" /\ status[i] = "none" /\ Write(i, "queued")
      /\ calls'[c] = [step |-> "log", item |-> i, from |-> "none", to |-> "queued"]
      /\ \A d \in Callers \ {c} : calls'[d] = calls[d]
      /\ "queued" \in Status /\ calls' \in [Callers -> Call \cup {Idle}]
  <2>1. "queued" \in Status /\ calls[c].step = "idle"
    BY CallTypes, StatusIs DEF EnqueueOrder, Idle
  <2>2. [step |-> "log", item |-> i, from |-> "none", to |-> "queued"] \in Call
    BY <2>1 DEF Call, Steps
  <2> QED BY <2>1, <2>2 DEF EnqueueOrder, TypeOK
<1>2. /\ status' = [status EXCEPT ![i] = "queued"]
      /\ UNCHANGED <<order, events, sleeping, runs, overlapped, unmarked, faulted>>
  BY DEF EnqueueOrder, Write
<1>3. TypeOK'
  <2>1. history' \in [Items -> Seq(Status)]
    BY <1>1 DEF Write, TypeOK
  <2> QED BY <1>1, <1>2, <2>1 DEF TypeOK
<1>4. CallsAreAbout'
  <2>1. \A j \in Items : status[j] # "none" => status'[j] # "none"
    BY <1>2 DEF TypeOK
  <2>2. status'[i] # "none" /\ calls'[c].item = i /\ calls'[c].step = "log"
    BY <1>1, <1>2 DEF TypeOK
  <2> QED BY <1>1, <2>1, <2>2, CallTypes DEF CallsAreAbout
<1>5. /\ \A j : c \notin Marking(j) /\ c \notin Marking(j)'
      /\ \A j, x : /\ EventsTo(j, x)' = EventsTo(j, x)
                   /\ c \notin ToLog(j, x)
                   /\ c \in ToLog(j, x)' <=> j = i /\ x = "queued"
  BY <1>1, <1>2 DEF EventsTo, ToLog, Marking, About
<1>t. \A j \in Items : \A x :
        Times(history[j], x)' = Times(history[j], x) + (IF j = i /\ x = "queued" THEN 1 ELSE 0)
  <2> DEFINE s == "queued"
  <2>1. TypeOK /\ Write(i, s) /\ s \in Status
    BY <1>1
  <2> HIDE DEF s
  <2>2. \A j \in Items : \A x :
          Times(history[j], x)' = Times(history[j], x) + (IF j = i /\ x = s THEN 1 ELSE 0)
    BY <2>1, WriteCounts
  <2> QED BY <2>2 DEF s
<1>6. EventsAreOwed'
  <2> SUFFICES ASSUME NEW j \in Items, NEW x \in Status
               PROVE  EventsTo(j, x)' + Cardinality(ToLog(j, x)') <= Times(history[j], x)'
    BY DEF EventsAreOwed
  <2>1. /\ Cardinality(ToLog(j, x)) \in Nat
        /\ Cardinality(ToLog(j, x)') =
             Cardinality(ToLog(j, x)) + (IF j = i /\ x = "queued" THEN 1 ELSE 0)
    <3>1. ToLog(j, x)' \ {c} = ToLog(j, x) \ {c}
      BY <1>1, OthersStay
    <3> QED BY <1>5, <3>1, CallsAreFinite, OneMoved
  <2>2. Times(history[j], x)' = Times(history[j], x) + (IF j = i /\ x = "queued" THEN 1 ELSE 0)
    BY <1>t
  <2>3. EventsTo(j, x) + Cardinality(ToLog(j, x)) <= Times(history[j], x)
    BY DEF EventsAreOwed
  <2> QED BY <1>5, <2>1, <2>2, <2>3, CountsAreNumbers
<1>7. MarksAreOwed'
  <2>1. \A j : Marking(j)' = Marking(j)
    <3>1. \A j : Marking(j)' \ {c} = Marking(j) \ {c}
      BY <1>1, OthersStay
    <3> QED BY <1>5, <3>1
  <2>2. \A j \in Items : Shipped(j)' <=> Shipped(j)
    <3> DEFINE s == "queued"
    <3>1. TypeOK /\ Write(i, s) /\ s \in Status /\ s # "shipped"
      BY <1>1
    <3> HIDE DEF s
    <3> QED BY <3>1, ShippedGrows
  <2> QED BY <1>2, <2>1, <2>2 DEF MarksAreOwed
<1>9. About(i) = {} /\ \A j : About(j)' = IF j = i THEN {c} ELSE About(j)
  <2>1. About(i) = {}
    BY <1>1 DEF About, CallsAreAbout
  <2> QED BY <1>1, <2>1 DEF About
<1>10. SoleCall'
  BY <1>2, <1>9 DEF SoleCall
<1>11. ChainInTurn'
  <2> SUFFICES ASSUME ~ faulted, NEW j \in Items \ overlapped PROVE Tidy(j)'
    BY <1>2 DEF ChainInTurn
  <2>1. Tidy(j)
    BY DEF ChainInTurn
  <2>2. CASE j # i
    <3>1. c \notin About(j) /\ c \notin About(j)'
      BY <1>1, <2>2 DEF About
    <3>2. status'[j] = status[j] /\ events'[j] = events[j]
      BY <1>2, <2>2 DEF TypeOK
    <3> QED BY <1>1, <2>1, <3>1, <3>2, TidyElsewhere
  <2>3. CASE j = i
    <3>1. LastTo(i) = "none" /\ LastTo(i)' = LastTo(i) /\ Chained(i)'
      BY <1>1, <1>2, <1>9, <2>1, <2>3 DEF LastTo, Chained, Tidy
    <3>2. status'[i] = "queued"
      BY <1>2 DEF TypeOK
    <3> QED BY <1>1, <1>9, <2>3, <3>1, <3>2 DEF Tidy, InPlace
  <2> QED BY <2>2, <2>3
<1> QED BY <1>3, <1>4, <1>6, <1>7, <1>10, <1>11

(* The row is given the status the caller decided on; the event is owed.   *)
LEMMA WriteIInv ==
  ASSUME IInv, NEW c \in Callers, WriteStatus(c) PROVE IInv'
<1> USE DEF IInv
<1>0. PICK i \in Items, s \in Status : i = calls[c].item /\ s = calls[c].to
  BY CallTypes DEF WriteStatus
<1>1. /\ calls[c].step = "write" /\ status[i] # "none" /\ Write(i, s)
      /\ \A d \in Callers \ {c} : calls'[d] = calls[d]
      /\ calls' \in [Callers -> Call \cup {Idle}]
  <2>1. calls[c].step = "write" /\ calls[c] \in Call
    BY CallTypes DEF WriteStatus
  <2>2. [calls[c] EXCEPT !.step = "log"] \in Call
    BY <2>1 DEF Call, Steps
  <2> QED BY <1>0, <2>1, <2>2 DEF WriteStatus, TypeOK, Proceeds, CallsAreAbout
<1>2. /\ calls'[c].step = "log" /\ calls'[c].item = i
      /\ calls'[c].to = s /\ calls'[c].from = calls[c].from
  <2>1. calls[c] \in Call
    BY <1>1, CallTypes
  <2>2. calls'[c] = [calls[c] EXCEPT !.step = "log"]
    BY DEF WriteStatus, Proceeds, TypeOK
  <2> QED BY <1>0, <2>1, <2>2 DEF Call
<1>3. /\ status' = [status EXCEPT ![i] = s]
      /\ UNCHANGED <<order, events, sleeping, runs, overlapped, unmarked, faulted>>
  BY <1>0 DEF WriteStatus, Write
<1>4. TypeOK'
  <2>1. history' \in [Items -> Seq(Status)]
    BY <1>1 DEF Write, TypeOK
  <2> QED BY <1>1, <1>3, <2>1 DEF TypeOK
<1>5. CallsAreAbout'
  <2>1. s # "none"
    BY <1>1, StatusIs
  <2>2. \A j \in Items : status[j] # "none" => status'[j] # "none"
    BY <1>3, <2>1 DEF TypeOK
  <2> QED BY <1>1, <1>2, <2>2, CallTypes DEF CallsAreAbout
<1>6. /\ \A j, x : EventsTo(j, x)' = EventsTo(j, x)
      /\ \A j, x : c \notin ToLog(j, x)
      /\ \A j, x : c \in ToLog(j, x)' <=> j = i /\ x = s
      /\ \A j : c \notin Marking(j)
      /\ \A j : c \in Marking(j)' <=> j = i /\ s = "shipped"
  BY <1>0, <1>1, <1>2, <1>3 DEF EventsTo, ToLog, Marking, About
<1>7. \A j \in Items : \A x :
        Times(history[j], x)' = Times(history[j], x) + (IF j = i /\ x = s THEN 1 ELSE 0)
  BY <1>1, WriteCounts
<1>8. EventsAreOwed'
  <2> SUFFICES ASSUME NEW j \in Items, NEW x \in Status
               PROVE  EventsTo(j, x)' + Cardinality(ToLog(j, x)') <= Times(history[j], x)'
    BY DEF EventsAreOwed
  <2>1. /\ Cardinality(ToLog(j, x)) \in Nat
        /\ Cardinality(ToLog(j, x)') =
             Cardinality(ToLog(j, x)) + (IF j = i /\ x = s THEN 1 ELSE 0)
    <3>1. ToLog(j, x)' \ {c} = ToLog(j, x) \ {c}
      BY <1>1, OthersStay
    <3> QED BY <1>6, <3>1, CallsAreFinite, OneMoved
  <2>2. EventsTo(j, x) + Cardinality(ToLog(j, x)) <= Times(history[j], x)
    BY DEF EventsAreOwed
  <2> QED BY <1>6, <1>7, <2>1, <2>2, CountsAreNumbers
<1>9. MarksAreOwed'
  <2> SUFFICES ASSUME NEW j \in Items
               PROVE  /\ order[j] = "shipped" \/ Marking(j)' # {} => Shipped(j)'
                      /\ Shipped(j)' => order[j] = "shipped" \/ j \in unmarked \/ Marking(j)' # {}
    BY <1>3 DEF MarksAreOwed
  <2>1. Marking(j)' \ {c} = Marking(j) \ {c}
    BY <1>1, OthersStay
  <2>2. Shipped(j)' <=> Shipped(j) \/ (j = i /\ s = "shipped")
    BY <1>1, ShippedGrows
  <2> QED BY <1>6, <2>1, <2>2 DEF MarksAreOwed
<1>11. \A j : About(j)' = About(j)
  BY <1>0, <1>1, <1>2 DEF About
<1>12. SoleCall'
  BY <1>3, <1>11 DEF SoleCall
<1>13. ChainInTurn'
  <2> SUFFICES ASSUME ~ faulted, NEW j \in Items \ overlapped PROVE Tidy(j)'
    BY <1>3 DEF ChainInTurn
  <2>1. Tidy(j)
    BY DEF ChainInTurn
  <2>2. CASE j # i
    <3>1. c \notin About(j) /\ c \notin About(j)'
      BY <1>0, <1>11, <2>2 DEF About
    <3>2. status'[j] = status[j] /\ events'[j] = events[j]
      BY <1>3, <2>2 DEF TypeOK
    <3> QED BY <1>1, <2>1, <3>1, <3>2, TidyElsewhere
  <2>3. CASE j = i
    <3>1. c \in About(i) /\ About(i)' = {c}
      BY <1>0, <1>1, <1>11, <2>3 DEF SoleCall, About
    <3>2. calls[c].from = LastTo(i)
      BY <1>1, <2>1, <2>3, <3>1 DEF Tidy, InPlace
    <3>3. LastTo(i)' = LastTo(i) /\ Chained(i)' /\ status'[i] = s
      BY <1>1, <1>3, <2>1, <2>3 DEF LastTo, Chained, Tidy, TypeOK
    <3> QED BY <1>2, <2>3, <3>1, <3>2, <3>3 DEF Tidy, InPlace
  <2> QED BY <2>2, <2>3
<1> QED BY <1>4, <1>5, <1>8, <1>9, <1>12, <1>13

(* After the event a call goes on to the order or is over. *)
LEMMA AfterLog ==
  ASSUME TypeOK, NEW c \in Callers, NEW i \in Items, NEW s \in Status, calls[c].step = "log",
         calls[c].item = i, calls[c].to = s,
         IF calls[c].to = "shipped" THEN Proceeds(c, "ship") ELSE Finished(c)
  PROVE  /\ calls' \in [Callers -> Call \cup {Idle}]
         /\ \A d \in Callers \ {c} : calls'[d] = calls[d]
         /\ calls'[c].step \in {"ship", "idle"}
         /\ calls'[c].step = "ship" <=> s = "shipped"
         /\ calls'[c].step = "ship" => calls'[c].item = i /\ calls'[c].to = s
<1>1. calls[c] \in Call
  BY CallTypes
<1>2. CASE s = "shipped"
  <2>1. [calls[c] EXCEPT !.step = "ship"] \in Call
    BY <1>1 DEF Call, Steps
  <2>2. calls'[c] = [calls[c] EXCEPT !.step = "ship"]
    BY <1>2 DEF Proceeds, TypeOK
  <2>3. calls'[c].step = "ship" /\ calls'[c].item = i /\ calls'[c].to = s
    BY <1>1, <2>2 DEF Call
  <2> QED BY <1>2, <2>1, <2>3 DEF Proceeds, TypeOK
<1>3. CASE s # "shipped"
  <2>1. calls' = [calls EXCEPT ![c] = Idle]
    BY <1>3 DEF Finished
  <2>2. calls'[c] = Idle /\ Idle.step = "idle"
    BY <2>1 DEF TypeOK, Idle
  <2> QED BY <1>3, <2>1, <2>2 DEF TypeOK
<1> QED BY <1>2, <1>3

(* The event names the transition as the call saw it. *)
LEMMA LogIInv ==
  ASSUME IInv, NEW c \in Callers, LogEvent(c) PROVE IInv'
<1> USE DEF IInv
<1>0. PICK i \in Items, s \in Status : i = calls[c].item /\ s = calls[c].to
  BY CallTypes DEF LogEvent
<1>1. /\ calls[c].step = "log" /\ status[i] # "none"
      /\ calls[c].from \in Status \cup {"none"}
  BY <1>0, CallTypes DEF LogEvent, CallsAreAbout
<1>2. /\ calls' \in [Callers -> Call \cup {Idle}]
      /\ \A d \in Callers \ {c} : calls'[d] = calls[d]
      /\ calls'[c].step \in {"ship", "idle"}
      /\ calls'[c].step = "ship" <=> s = "shipped"
      /\ calls'[c].step = "ship" => calls'[c].item = i /\ calls'[c].to = s
  BY <1>0, <1>1, AfterLog DEF LogEvent
<1>3. /\ events' = [events EXCEPT ![i] = Append(@, <<calls[c].from, s>>)]
      /\ UNCHANGED <<status, order, sleeping, runs, ghosts>>
  BY <1>0 DEF LogEvent, ReadFrom
<1>4. TypeOK'
  <2>1. events' \in [Items -> Seq((Status \cup {"none"}) \X Status)]
    BY <1>1, <1>3 DEF TypeOK
  <2> QED BY <1>2, <1>3, <2>1 DEF TypeOK, ghosts
<1>5. CallsAreAbout'
  BY <1>1, <1>2, <1>3, CallTypes DEF CallsAreAbout
<1>6. /\ \A j, x : c \in ToLog(j, x) <=> j = i /\ x = s
      /\ \A j, x : c \notin ToLog(j, x)'
      /\ \A j : Marking(j)' = Marking(j)
  BY <1>0, <1>1, <1>2 DEF ToLog, Marking, About
<1>7. \A j \in Items, x \in Status :
        EventsTo(j, x)' = EventsTo(j, x) + (IF j = i /\ x = s THEN 1 ELSE 0)
  <2> SUFFICES ASSUME NEW j \in Items, NEW x \in Status
               PROVE  EventsTo(j, x)' = EventsTo(j, x) + (IF j = i /\ x = s THEN 1 ELSE 0)
    OBVIOUS
  <2>1. CASE j = i
    <3> DEFINE e == <<calls[c].from, s>>
               T == (Status \cup {"none"}) \X Status
    <3>1. events[i] \in Seq(T) /\ e \in T /\ events'[i] = Append(events[i], e) /\ e[2] = s
      BY <1>1, <1>3 DEF TypeOK
    <3> HIDE DEF e, T
    <3>2. \A y : EventsTo(i, y)' = EventsTo(i, y) + (IF e[2] = y THEN 1 ELSE 0)
      BY <3>1, EventsAppend
    <3> QED BY <2>1, <3>1, <3>2
  <2>2. CASE j # i
    <3>1. events'[j] = events[j]
      BY <1>3, <2>2 DEF TypeOK
    <3>2. EventsTo(j, x)' = EventsTo(j, x)
      BY <3>1 DEF EventsTo
    <3> QED BY <2>2, <3>2, CountsAreNumbers
  <2> QED BY <2>1, <2>2
<1>8. EventsAreOwed'
  <2> SUFFICES ASSUME NEW j \in Items, NEW x \in Status
               PROVE  EventsTo(j, x)' + Cardinality(ToLog(j, x)') <= Times(history[j], x)
    BY <1>3 DEF EventsAreOwed, ghosts
  <2>1. /\ Cardinality(ToLog(j, x)) \in Nat /\ Cardinality(ToLog(j, x)') \in Nat
        /\ Cardinality(ToLog(j, x)') =
             Cardinality(ToLog(j, x)) - (IF j = i /\ x = s THEN 1 ELSE 0)
    <3>1. ToLog(j, x)' \ {c} = ToLog(j, x) \ {c}
      BY <1>2, OthersStay
    <3> QED BY <1>6, <3>1, CallsAreFinite, OneMoved
  <2>2. EventsTo(j, x) + Cardinality(ToLog(j, x)) <= Times(history[j], x)
    BY DEF EventsAreOwed
  <2> QED BY <1>7, <2>1, <2>2, CountsAreNumbers
<1>9. MarksAreOwed'
  BY <1>3, <1>6 DEF MarksAreOwed, Shipped, ghosts
<1>10. \A j : About(j)' \subseteq About(j) /\ (j # i => About(j)' = About(j))
  BY <1>0, <1>1, <1>2 DEF About
<1>11. SoleCall'
  BY <1>3, <1>10 DEF SoleCall, ghosts
<1>12. ChainInTurn'
  <2> SUFFICES ASSUME ~ faulted, NEW j \in Items \ overlapped PROVE Tidy(j)'
    BY <1>3 DEF ChainInTurn, ghosts
  <2>1. Tidy(j)
    BY DEF ChainInTurn
  <2>2. CASE j # i
    <3>1. c \notin About(j) /\ c \notin About(j)'
      BY <1>0, <1>10, <2>2 DEF About
    <3>2. status'[j] = status[j] /\ events'[j] = events[j]
      BY <1>3, <2>2 DEF TypeOK
    <3> QED BY <1>2, <2>1, <3>1, <3>2, TidyElsewhere
  <2>3. CASE j = i
    <3> DEFINE n == Len(events[i])
    <3>1. c \in About(i) /\ About(i)' \subseteq {c}
      BY <1>0, <1>1, <1>10, <2>3 DEF SoleCall, About
    <3>2. calls[c].from = LastTo(i) /\ s = status[i] /\ Chained(i)
      BY <1>0, <1>1, <2>1, <2>3, <3>1 DEF Tidy, InPlace
    <3>3. /\ n \in Nat /\ Len(events'[i]) = n + 1
          /\ \A k \in 1..n : events'[i][k] = events[i][k]
          /\ events'[i][n + 1] = <<calls[c].from, s>>
          /\ events[i] = <<>> <=> n = 0
          /\ events'[i] # <<>>
      <4>1. events[i] \in Seq((Status \cup {"none"}) \X Status)
        BY DEF TypeOK
      <4>2. events'[i] = Append(events[i], <<calls[c].from, s>>)
        BY <1>3 DEF TypeOK
      <4> QED BY <4>1, <4>2
    <3>4. n # 0 => calls[c].from = events[i][n][2]
      BY <3>2, <3>3 DEF LastTo
    <3> HIDE DEF n
    <3>5. \A k \in 1..n - 1 : events[i][k + 1][1] = events[i][k][2]
      BY <3>2 DEF Chained, n
    <3>6. Chained(i)'
      <4> SUFFICES ASSUME NEW k \in 1..n PROVE events'[i][k + 1][1] = events'[i][k][2]
        BY <3>3 DEF Chained
      <4>1. CASE k = n
        BY <3>3, <3>4, <4>1
      <4>2. CASE k # n
        <5>1. k \in 1..n - 1 /\ k + 1 \in 1..n /\ k \in 1..n
          BY <3>3, <4>2
        <5> QED BY <3>3, <3>5, <5>1
      <4> QED BY <4>1, <4>2
    <3>7. LastTo(i)' = s /\ status'[i] = s
      BY <1>3, <3>2, <3>3 DEF LastTo
    <3> QED BY <1>2, <2>3, <3>1, <3>6, <3>7 DEF Tidy, InPlace
  <2> QED BY <2>2, <2>3
<1> QED BY <1>4, <1>5, <1>8, <1>9, <1>11, <1>12

(* The order is marked, or it is recorded that it was not. *)
LEMMA ShipIInv ==
  ASSUME IInv, NEW c \in Callers, MarkShipped(c) PROVE IInv'
<1> USE DEF IInv
<1>0. PICK i \in Items : i = calls[c].item
  BY CallTypes DEF MarkShipped
<1>1. calls[c].step = "ship" /\ calls[c].to = "shipped"
  BY DEF MarkShipped, CallsAreAbout
<1>2. /\ calls' \in [Callers -> Call \cup {Idle}]
      /\ \A d \in Callers \ {c} : calls'[d] = calls[d]
      /\ calls'[c].step = "idle"
  BY DEF MarkShipped, Finished, TypeOK, Idle
<1>3. /\ UNCHANGED <<status, events, sleeping, runs, history, overlapped, faulted>>
      /\ \/ order' = [order EXCEPT ![i] = "shipped"] /\ unmarked' = unmarked
         \/ order' = order /\ unmarked' = unmarked \cup {i}
  BY <1>0 DEF MarkShipped
<1>4. TypeOK'
  BY <1>2, <1>3 DEF TypeOK
<1>5. CallsAreAbout'
  BY <1>2, <1>3, CallTypes DEF CallsAreAbout
<1>6. /\ \A j, x : ToLog(j, x)' = ToLog(j, x)
      /\ \A j : c \in Marking(j) <=> j = i
      /\ \A j : c \notin Marking(j)'
  BY <1>0, <1>1, <1>2 DEF ToLog, Marking, About
<1>7. EventsAreOwed'
  BY <1>3, <1>6 DEF EventsAreOwed, EventsTo
<1>8. MarksAreOwed'
  <2> SUFFICES ASSUME NEW j \in Items
               PROVE  /\ order'[j] = "shipped" \/ Marking(j)' # {} => Shipped(j)
                      /\ Shipped(j) => order'[j] = "shipped" \/ j \in unmarked' \/ Marking(j)' # {}
    BY <1>3 DEF MarksAreOwed, Shipped
  <2>1. Marking(j)' \ {c} = Marking(j) \ {c}
    BY <1>2, OthersStay
  <2>2. CASE j = i
    <3>1. order'[i] = "shipped" \/ i \in unmarked'
      BY <1>3 DEF TypeOK
    <3> QED BY <1>6, <2>2, <3>1 DEF MarksAreOwed
  <2>3. CASE j # i
    <3>1. order'[j] = order[j] /\ (j \in unmarked' <=> j \in unmarked)
      BY <1>3, <2>3 DEF TypeOK
    <3>2. Marking(j)' = Marking(j)
      BY <1>6, <2>1, <2>3
    <3> QED BY <3>1, <3>2 DEF MarksAreOwed
  <2> QED BY <2>2, <2>3
<1>10. \A j : About(j)' = About(j) \ {c}
  BY <1>1, <1>2 DEF About
<1>11. SoleCall'
  BY <1>3, <1>10 DEF SoleCall
<1>12. ChainInTurn'
  <2> SUFFICES ASSUME ~ faulted, NEW j \in Items \ overlapped PROVE Tidy(j)'
    BY <1>3 DEF ChainInTurn
  <2>1. Tidy(j)
    BY DEF ChainInTurn
  <2>2. CASE j # i
    <3>1. c \notin About(j) /\ c \notin About(j)'
      BY <1>0, <1>10, <2>2 DEF About
    <3> QED BY <1>2, <1>3, <2>1, <3>1, TidyElsewhere
  <2>3. CASE j = i
    <3>1. c \in About(i) /\ About(i)' = {}
      BY <1>0, <1>1, <1>10, <2>3 DEF SoleCall, About
    <3>2. LastTo(i)' = status'[i] /\ Chained(i)'
      BY <1>1, <1>3, <2>1, <2>3, <3>1 DEF LastTo, Chained, Tidy, InPlace
    <3> QED BY <2>3, <3>1, <3>2 DEF Tidy
  <2> QED BY <2>2, <2>3
<1> QED BY <1>4, <1>5, <1>7, <1>8, <1>11, <1>12

(* A call whose update failed or whose reply was lost ends there. *)
LEMMA WriteFailsIInv ==
  ASSUME IInv, NEW c \in Callers, WriteFails(c) PROVE IInv'
<1> USE DEF IInv
<1>0. PICK i \in Items, s \in Status : i = calls[c].item /\ s = calls[c].to
  BY CallTypes DEF WriteFails
<1>1. /\ calls[c].step = "write" /\ calls'[c].step = "idle"
      /\ calls' \in [Callers -> Call \cup {Idle}]
      /\ \A d \in Callers \ {c} : calls'[d] = calls[d]
      /\ UNCHANGED <<order, events, sleeping, runs, overlapped>>
      /\ faulted' = TRUE
  <2>1. faulted' = TRUE
    BY Zenon DEF WriteFails
  <2> QED BY <2>1 DEF WriteFails, Finished, TypeOK, Idle
<1>2. \/ UNCHANGED <<status, history, unmarked>>
      \/ Write(i, s) /\ unmarked' = unmarked \cup {j \in {i} : s = "shipped"}
  BY <1>0 DEF WriteFails
<1>3. TypeOK'
  <2>1. faulted' \in BOOLEAN
    BY <1>1, Zenon
  <2>2. /\ status' \in [Items -> Status \cup {"none"}]
        /\ history' \in [Items -> Seq(Status)]
        /\ unmarked' \subseteq Items
    <3>1. CASE UNCHANGED <<status, history, unmarked>>
      BY <3>1 DEF TypeOK
    <3>2. CASE Write(i, s) /\ unmarked' = unmarked \cup {j \in {i} : s = "shipped"}
      <4>1. status' \in [Items -> Status \cup {"none"}] /\ history' \in [Items -> Seq(Status)]
        BY <3>2 DEF TypeOK, Write
      <4>2. unmarked' \subseteq Items
        BY <3>2 DEF TypeOK
      <4> QED BY <4>1, <4>2
    <3> QED BY <1>2, <3>1, <3>2
  <2> QED BY <1>1, <2>1, <2>2 DEF TypeOK
<1>4. CallsAreAbout'
  <2>1. \A j \in Items : status[j] # "none" => status'[j] # "none"
    BY <1>2, StatusIs DEF Write, TypeOK
  <2> QED BY <1>1, <2>1, CallTypes DEF CallsAreAbout
<1>5. EventsAreOwed'
  <2>1. \A j, x : c \notin ToLog(j, x)'
    BY <1>1 DEF ToLog, About
  <2>2. \A j \in Items : \A x : /\ Times(history[j], x)' \in Nat
                               /\ Times(history[j], x)' >= Times(history[j], x)
    <3>1. CASE UNCHANGED <<status, history, unmarked>>
      BY <3>1, SameCounts
    <3>2. CASE Write(i, s)
      <4> SUFFICES ASSUME NEW j \in Items, NEW x
                   PROVE  /\ Times(history[j], x)' \in Nat
                          /\ Times(history[j], x)' >= Times(history[j], x)
        OBVIOUS
      <4>1. /\ Times(history[j], x) \in Nat
            /\ Times(history[j], x)' = Times(history[j], x) + (IF j = i /\ x = s THEN 1 ELSE 0)
        BY <3>2, WriteCounts, CountsAreNumbers
      <4> QED BY <4>1
    <3> QED BY <1>2, <3>1, <3>2
  <2> QED BY <1>1, <2>1, <2>2, StillOwed
<1>6. MarksAreOwed'
  <2>1. \A j : Marking(j)' = Marking(j)
    BY <1>1 DEF Marking
  <2>2. CASE UNCHANGED <<status, history, unmarked>>
    BY <1>1, <2>1, <2>2 DEF MarksAreOwed, Shipped
  <2>3. CASE Write(i, s) /\ unmarked' = unmarked \cup {j \in {i} : s = "shipped"}
    <3>1. \A j \in Items : Shipped(j)' <=> Shipped(j) \/ (j = i /\ s = "shipped")
      BY <2>3, ShippedGrows
    <3> QED BY <1>1, <2>1, <2>3, <3>1 DEF MarksAreOwed
  <2> QED BY <1>2, <2>2, <2>3
<1>7. SoleCall'
  <2>1. \A j : About(j)' \subseteq About(j)
    BY <1>1 DEF About
  <2> QED BY <1>1, <2>1 DEF SoleCall
<1>8. ChainInTurn'
  BY <1>1 DEF ChainInTurn
<1> QED BY <1>3, <1>4, <1>5, <1>6, <1>7, <1>8

(* A call whose event failed goes on: the chain promises nothing more. *)
LEMMA LogFailsIInv ==
  ASSUME IInv, NEW c \in Callers, LogFails(c) PROVE IInv'
<1> USE DEF IInv
<1>0. PICK i \in Items, s \in Status : i = calls[c].item /\ s = calls[c].to
  BY CallTypes DEF LogFails
<1>1. /\ calls' \in [Callers -> Call \cup {Idle}]
      /\ \A d \in Callers \ {c} : calls'[d] = calls[d]
      /\ calls'[c].step \in {"ship", "idle"}
      /\ calls'[c].step = "ship" <=> s = "shipped"
      /\ calls'[c].step = "ship" => calls'[c].item = i /\ calls'[c].to = s
  BY <1>0, AfterLog DEF LogFails
<1>2. /\ UNCHANGED <<status, order, events, sleeping, runs, history, overlapped, unmarked>>
      /\ faulted' = TRUE /\ calls[c].step = "log"
  BY Zenon DEF LogFails
<1>3. TypeOK'
  <2>1. faulted' \in BOOLEAN
    BY <1>2, Zenon
  <2> QED BY <1>1, <1>2, <2>1 DEF TypeOK
<1>4. CallsAreAbout'
  BY <1>0, <1>1, <1>2, CallTypes DEF CallsAreAbout
<1>5. /\ \A j, x : c \notin ToLog(j, x)'
      /\ \A j : Marking(j)' = Marking(j)
      /\ \A j : About(j)' \subseteq About(j)
  BY <1>0, <1>1, <1>2 DEF ToLog, Marking, About
<1>6. EventsAreOwed'
  BY <1>1, <1>2, <1>5, StillOwed, SameCounts
<1>7. MarksAreOwed' /\ SoleCall'
  BY <1>2, <1>5 DEF MarksAreOwed, Shipped, SoleCall
<1>8. ChainInTurn'
  BY <1>2 DEF ChainInTurn
<1> QED BY <1>3, <1>4, <1>6, <1>7, <1>8

(* SimulateProduction only plans: every goroutine gets a stage there is.   *)
LEMMA SimulateIInv ==
  ASSUME IInv, SimulateProduction PROVE IInv'
<1> USE DEF IInv
<1>1. UNCHANGED <<status, order, events, calls, history, overlapped, unmarked, faulted>>
  BY DEF SimulateProduction, ghosts
<1>2. TypeOK'
  <2>1. runs' \in 0..MaxRuns /\ runs + 1 \in Runs
    BY LineAssumption DEF SimulateProduction, TypeOK, LineAssumption, Runs
  <2>2. sleeping' \subseteq Runs \X Items \X Status
    <3> DEFINE N == {<<runs + 1, i, NextStage(status[i])>> :
                       i \in {j \in Items : status[j] \notin Parked \cup {"none"}}}
    <3>1. \A i \in Items : status[i] \notin Parked \cup {"none"} => NextStage(status[i]) \in Status
      <4> SUFFICES ASSUME NEW i \in Items, status[i] \notin Parked \cup {"none"}
                   PROVE  NextStage(status[i]) \in Status
        OBVIOUS
      <4>1. status[i] \in Status \ Parked
        BY DEF TypeOK
      <4> QED BY <4>1, NextStageExists
    <3>2. N \subseteq Runs \X Items \X Status
      BY <2>1, <3>1
    <3>3. sleeping' = sleeping \cup N
      BY DEF SimulateProduction
    <3> HIDE DEF N
    <3> QED BY <3>2, <3>3 DEF TypeOK
  <2> QED BY <1>1, <2>1, <2>2 DEF TypeOK
<1>3. \A j, x : /\ About(j)' = About(j) /\ ToLog(j, x)' = ToLog(j, x)
                /\ EventsTo(j, x)' = EventsTo(j, x)
  BY <1>1 DEF About, ToLog, EventsTo
<1>4. \A j : Marking(j)' = Marking(j) /\ LastTo(j)' = LastTo(j) /\ Chained(j)' = Chained(j)
  BY <1>1 DEF Marking, LastTo, Chained
<1>5. CallsAreAbout'
  BY <1>1 DEF CallsAreAbout
<1>6. EventsAreOwed' /\ MarksAreOwed'
  BY <1>1, <1>3, <1>4 DEF EventsAreOwed, MarksAreOwed, Shipped
<1>7. SoleCall' /\ ChainInTurn'
  BY <1>1, <1>3, <1>4 DEF SoleCall, ChainInTurn, Tidy, InPlace
<1> QED BY <1>2, <1>5, <1>6, <1>7

(* A restart ends every call, and what calls still owed is given up. *)
LEMMA CrashIInv ==
  ASSUME IInv, Crash PROVE IInv'
<1> USE DEF IInv
<1>1. /\ UNCHANGED <<status, order, events, runs, history, overlapped>>
      /\ unmarked' = unmarked \cup {i \in Items : Marking(i) # {}}
      /\ \A c \in Callers : calls'[c].step = "idle"
      /\ faulted' = TRUE
  <2>1. faulted' = TRUE
    BY Zenon DEF Crash
  <2> QED BY <2>1 DEF Crash, Idle
<1>2. TypeOK'
  <2>1. faulted' \in BOOLEAN
    BY <1>1, Zenon
  <2> QED BY <1>1, <2>1 DEF Crash, TypeOK
<1>3. /\ \A j : About(j)' = {} /\ Marking(j)' = {}
      /\ \A j, x : Cardinality(ToLog(j, x)') = 0
  <2>1. \A j : About(j)' = {} /\ Marking(j)' = {}
    BY <1>1 DEF About, Marking
  <2>2. \A j, x : ToLog(j, x)' = {}
    BY <2>1 DEF ToLog
  <2>3. Cardinality({}) = 0
    BY FS_EmptySet
  <2> QED BY <2>1, <2>2, <2>3
<1>4. EventsAreOwed'
  <2> SUFFICES ASSUME NEW i \in Items, NEW s \in Status
               PROVE  EventsTo(i, s)' + Cardinality(ToLog(i, s)') <= Times(history[i], s)
    BY <1>1 DEF EventsAreOwed
  <2>1. EventsTo(i, s)' = EventsTo(i, s)
    BY <1>1 DEF EventsTo
  <2>2. EventsTo(i, s) + Cardinality(ToLog(i, s)) <= Times(history[i], s)
    BY DEF EventsAreOwed
  <2> QED BY <1>3, <2>1, <2>2, CountsAreNumbers, CallsAreFinite
<1>5. MarksAreOwed'
  BY <1>1, <1>3 DEF MarksAreOwed, Shipped
<1>6. CallsAreAbout'
  BY <1>1 DEF CallsAreAbout
<1>7. SoleCall' /\ ChainInTurn'
  BY <1>1, <1>3 DEF SoleCall, ChainInTurn
<1> QED BY <1>2, <1>4, <1>5, <1>6, <1>7

(* Every step preserves the inductive invariant. *)
LEMMA NextIInv == IInv /\ [Next]_vars => IInv'
<1> SUFFICES ASSUME IInv, [Next]_vars PROVE IInv'
  OBVIOUS
<1>1. ASSUME NEW c \in Callers, NEW i \in Items, EnqueueOrder(c, i) PROVE IInv'
  BY <1>1, EnqueueIInv
<1>2. ASSUME NEW c \in Callers, NEW i \in Items, NEW s \in Status, OperatorAdvances(c, i, s)
      PROVE  IInv'
  BY <1>2, ReadIInv DEF OperatorAdvances
<1>3. ASSUME NEW c \in Callers, NEW i \in Items, NEW s \in Status, NEW r \in Runs,
             SimulatorAdvances(c, r, i, s)
      PROVE  IInv'
  BY <1>3, ReadIInv DEF SimulatorAdvances
<1>4. ASSUME NEW c \in Callers, Advance(c) PROVE IInv'
  BY <1>4, WriteIInv, LogIInv, ShipIInv DEF Advance
<1>5. ASSUME NEW c \in Callers, WriteFails(c) \/ LogFails(c) PROVE IInv'
  BY <1>5, WriteFailsIInv, LogFailsIInv
<1>6. CASE SimulateProduction
  BY <1>6, SimulateIInv
<1>7. CASE Crash
  BY <1>7, CrashIInv
<1>8. CASE UNCHANGED vars
  <2> USE DEF IInv
  <2>1. TypeOK' /\ CallsAreAbout'
    BY <1>8 DEF vars, ghosts, TypeOK, CallsAreAbout
  <2>2. EventsAreOwed' /\ MarksAreOwed'
    BY <1>8 DEF vars, ghosts, EventsAreOwed, MarksAreOwed, EventsTo, ToLog, Marking, About, Shipped
  <2>3. SoleCall' /\ ChainInTurn'
    BY <1>8 DEF vars, ghosts, SoleCall, ChainInTurn, Tidy, InPlace, About, LastTo, Chained
  <2> QED BY <2>1, <2>2, <2>3
<1> QED BY <1>1, <1>2, <1>3, <1>4, <1>5, <1>6, <1>7, <1>8 DEF Next

(* The inductive invariant holds in every reachable state. *)
THEOREM Invariance == Spec => []IInv
BY InitIInv, NextIInv, PTL DEF Spec

(* Every variable keeps its type: a goroutine of the simulator, too, only  *)
(* ever asks for a status the table's CHECK allows.                        *)
THEOREM TypeCorrect == Spec => []TypeOK
<1>1. IInv => TypeOK
  BY DEF IInv
<1> QED BY <1>1, Invariance, PTL

(* The audit trail reports nothing that did not happen, and is a chain for *)
(* every item that no two calls met about.                                 *)
THEOREM AuditTrailHolds == Spec => []AuditTrail
<1>1. ASSUME IInv PROVE AuditTrailIsHonest
  <2> SUFFICES ASSUME NEW i \in Items, NEW s \in Status PROVE EventsTo(i, s) <= Times(history[i], s)
    BY DEF AuditTrailIsHonest
  <2>1. EventsTo(i, s) + Cardinality(ToLog(i, s)) <= Times(history[i], s) /\ TypeOK
    BY <1>1 DEF IInv, EventsAreOwed
  <2> QED BY <2>1, CountsAreNumbers, CallsAreFinite
<1>2. ASSUME IInv PROVE AuditTrailIsChain
  <2> SUFFICES ASSUME NEW i \in Items \ overlapped, ~ faulted
               PROVE  /\ Chained(i)
                      /\ Quiet(i) /\ events[i] # <<>> => LastTo(i) = status[i]
    BY DEF AuditTrailIsChain, Chained, LastTo
  <2>1. Tidy(i) /\ TypeOK
    BY <1>2 DEF IInv, ChainInTurn
  <2>2. Quiet(i) => About(i) = {}
    BY <2>1, CallTypes DEF Quiet, About
  <2> QED BY <2>1, <2>2 DEF Tidy
<1>3. IInv => AuditTrail
  BY <1>1, <1>2 DEF AuditTrail, IInv
<1> QED BY <1>3, Invariance, PTL

(* An order says shipped only for an item that was, and for every such     *)
(* item once no call about that is under way, unless the call that owed it *)
(* the mark failed or died.                                                *)
THEOREM OrdersFollowTheRow == Spec => []ShippingFollowsTheRow
<1>1. IInv => ShippingFollowsTheRow
  BY DEF IInv, MarksAreOwed, ShippingFollowsTheRow
<1> QED BY <1>1, Invariance, PTL

----------------------------------------------------------------------------
(***************************************************************************)
(* The promised dates.                                                     *)
(***************************************************************************)
(* The goroutine that inserted a row is the only one, and has yet to book. *)
InsertedOnce ==
  \A g \in Goroutines : step[g] = "inserted" =>
    /\ promised[g[1]] = day[g]
    /\ g[1] \notin reserved
    /\ \A h \in Goroutines : step[h] = "inserted" /\ h[1] = g[1] => h = g

ReservedArePromised ==
  /\ IsFiniteSet(reserved)
  /\ \A o \in reserved : promised[o] # None

BookedAreReserved == \A d \in Days : booked[d] = Cardinality(PromisedOn(d) \cap reserved)

(* A chosen day is a workday or the last one. *)
DaysAreChosen ==
  \A g \in Goroutines :
    step[g] \in {"estimated", "inserted"} => day[g] \notin Weekend \/ day[g] = Horizon

(* In turn: one goroutine at a time, and the day it found still has room.  *)
TurnsAreTaken ==
  ~ disturbed =>
    /\ \A g, h \in Goroutines : Running(g) /\ Running(h) => g = h
    /\ \A g \in Goroutines : step[g] \in {"estimated", "inserted"} =>
         day[g] = Horizon \/ booked[day[g]] < MaxOrders[day[g]]

ScheduleIInv ==
  /\ ScheduleTypeOK
  /\ InsertedOnce
  /\ ReservedArePromised
  /\ BookedAreReserved
  /\ DaysAreChosen
  /\ TurnsAreTaken
  /\ CapacityKeptInTurn
  /\ WeekendIsFallback
----------------------------------------------------------------------------
(* Every initial state satisfies the inductive invariant. *)
LEMMA ScheduleInitIInv == ScheduleInit => ScheduleIInv
<1> SUFFICES ASSUME ScheduleInit PROVE ScheduleIInv
  OBVIOUS
<1> USE ScheduleAssumption DEF ScheduleAssumption, ScheduleInit, Days, None, Goroutines
<1>1. ScheduleTypeOK
  <2>1. disturbed \in BOOLEAN
    BY Zenon
  <2> QED BY <2>1 DEF ScheduleTypeOK, RunSteps
<1>2. InsertedOnce /\ ReservedArePromised /\ BookedAreReserved
  BY FS_EmptySet DEF InsertedOnce, ReservedArePromised, BookedAreReserved
<1>3. DaysAreChosen /\ TurnsAreTaken /\ CapacityKeptInTurn /\ WeekendIsFallback
  BY DEF DaysAreChosen, TurnsAreTaken, Running, CapacityKeptInTurn, Workday, WeekendIsFallback
<1> QED BY <1>1, <1>2, <1>3 DEF ScheduleIInv

(* Every step preserves the inductive invariant. *)
LEMMA ScheduleNextIInv == ScheduleIInv /\ [ScheduleNext]_scheduleVars => ScheduleIInv'
<1> SUFFICES ASSUME ScheduleIInv, [ScheduleNext]_scheduleVars PROVE ScheduleIInv'
  OBVIOUS
<1> USE ScheduleAssumption
    DEF ScheduleAssumption, ScheduleIInv, ScheduleTypeOK, RunSteps, Days, None, Goto
<1>0. \A g \in Goroutines : g[1] \in Orders
  BY DEF Goroutines
<1>1. ASSUME NEW g \in Goroutines, Start(g) PROVE ScheduleIInv'
  <2>1. ScheduleTypeOK'
    <3>1. disturbed' \in BOOLEAN
      BY <1>1, Zenon DEF Start
    <3>2. step' \in [Goroutines -> RunSteps] /\ day' \in [Goroutines -> 0..Horizon]
      BY <1>1 DEF Start
    <3> QED BY <1>1, <3>1, <3>2 DEF Start
  <2>2. InsertedOnce'
    BY <1>1 DEF Start, Running, InsertedOnce
  <2>3. BookedAreReserved'
    <3>1. booked' = booked /\ \A d : (PromisedOn(d) \cap reserved)' = PromisedOn(d) \cap reserved
      BY <1>1 DEF Start, PromisedOn
    <3> QED BY <3>1 DEF BookedAreReserved
  <2>4. DaysAreChosen'
    BY <1>1 DEF Start, Running, DaysAreChosen
  <2>5. TurnsAreTaken'
    BY <1>1 DEF Start, Running, TurnsAreTaken
  <2>6. (ReservedArePromised /\ CapacityKeptInTurn /\ WeekendIsFallback)'
    BY <1>1
       DEF Start, Running, ReservedArePromised, CapacityKeptInTurn, WeekendIsFallback, Workday
  <2> QED BY <2>1, <2>2, <2>3, <2>4, <2>5, <2>6 DEF ScheduleIInv
<1>2. ASSUME NEW g \in Goroutines, LookAt(g) PROVE ScheduleIInv'
  <2>1. ScheduleTypeOK'
    <3>1. disturbed' \in BOOLEAN
      BY <1>2, Zenon DEF LookAt
    <3>2. step' \in [Goroutines -> RunSteps]
      BY <1>2 DEF LookAt
    <3>3. day[g] \in Nat /\ day[g] <= Horizon
      OBVIOUS
    <3>4. day' = day \/ (day[g] < Horizon /\ day' = [day EXCEPT ![g] = day[g] + 1])
      BY <1>2 DEF LookAt
    <3>5. day' \in [Goroutines -> Days]
      <4>1. day[g] < Horizon => day[g] + 1 \in 0..Horizon
        BY <3>3
      <4>2. CASE day' = day
        BY <4>2
      <4>3. CASE day[g] < Horizon /\ day' = [day EXCEPT ![g] = day[g] + 1]
        <5> DEFINE e == day[g] + 1
        <5>1. e \in Days
          BY <4>1, <4>3
        <5> HIDE DEF e
        <5>2. day' = [day EXCEPT ![g] = e]
          BY <4>3 DEF e
        <5> QED BY <5>1, <5>2
      <4> QED BY <3>4, <4>2, <4>3
    <3> QED BY <1>2, <3>1, <3>2, <3>5 DEF LookAt
  <2>2. InsertedOnce'
    <3>1. \A h \in Goroutines : step'[h] = "inserted" <=> step[h] = "inserted"
      BY <1>2 DEF LookAt
    <3>2. \A h \in Goroutines : step[h] = "inserted" => day'[h] = day[h]
      BY <1>2 DEF LookAt
    <3> QED BY <1>2, <3>1, <3>2, <1>0 DEF LookAt, InsertedOnce
  <2>3. DaysAreChosen'
    <3>1. step'[g] = "estimated" => day'[g] = day[g] /\ (Workday(day[g]) \/ day[g] = Horizon)
      BY <1>2 DEF LookAt
    <3>2. \A h \in Goroutines \ {g} : step'[h] = step[h] /\ day'[h] = day[h]
      BY <1>2 DEF LookAt
    <3>3. step'[g] # "inserted"
      BY <1>2 DEF LookAt
    <3> QED BY <3>1, <3>2, <3>3 DEF DaysAreChosen, Workday
  <2>4. TurnsAreTaken'
    <3> SUFFICES ASSUME ~ disturbed' PROVE TurnsAreTaken'
      BY DEF TurnsAreTaken
    <3>1. ~ disturbed /\ (step'[g] = "estimated" => day'[g] = Horizon \/ HasRoom(day'[g]))
      BY <1>2 DEF LookAt
    <3>2. \A h \in Goroutines : Running(h)' <=> Running(h)
      BY <1>2 DEF LookAt, Running
    <3>3. \A h \in Goroutines \ {g} : step'[h] = step[h] /\ day'[h] = day[h]
      BY <1>2 DEF LookAt
    <3>4. step'[g] # "inserted" /\ booked' = booked
      BY <1>2 DEF LookAt
    <3> QED BY <3>1, <3>2, <3>3, <3>4 DEF TurnsAreTaken, HasRoom
  <2>5. CapacityKeptInTurn'
    BY <1>2 DEF LookAt, Workday, HasRoom, CapacityKeptInTurn
  <2>6. (ReservedArePromised /\ BookedAreReserved /\ WeekendIsFallback)'
    BY <1>2
       DEF LookAt, Workday, HasRoom, ReservedArePromised, BookedAreReserved, WeekendIsFallback,
           PromisedOn
  <2> QED BY <2>1, <2>2, <2>3, <2>4, <2>5, <2>6 DEF ScheduleIInv
<1>3. ASSUME NEW g \in Goroutines, Insert(g) PROVE ScheduleIInv'
  <2>1. ScheduleTypeOK'
    <3>1. CASE promised[g[1]] = None
      BY <1>0, <1>3, <3>1 DEF Insert
    <3>2. CASE promised[g[1]] # None
      BY <1>3, <3>2 DEF Insert
    <3> QED BY <3>1, <3>2
  <2>2. InsertedOnce'
    <3> SUFFICES ASSUME NEW h \in Goroutines, step'[h] = "inserted"
                 PROVE /\ promised'[h[1]] = day'[h]
                       /\ h[1] \notin reserved'
                       /\ \A i \in Goroutines : step'[i] = "inserted" /\ i[1] = h[1] => i = h
      BY DEF InsertedOnce
    <3>1. CASE promised[g[1]] = None
      <4>1. \A i \in Goroutines : step[i] = "inserted" => i[1] # g[1]
        BY <3>1, <1>0, SMTT(30) DEF InsertedOnce
      <4>2. g[1] \notin reserved
        BY <3>1 DEF ReservedArePromised
      <4> QED BY <1>3, <3>1, <4>1, <4>2, <1>0, SMTT(30) DEF Insert, InsertedOnce
    <3>2. CASE promised[g[1]] # None
      BY <1>3, <3>2, <1>0 DEF Insert, InsertedOnce
    <3> QED BY <3>1, <3>2
  <2>3. ReservedArePromised'
    BY <1>3 DEF Insert, ReservedArePromised
  <2>4. BookedAreReserved'
    <3>1. \A d \in Days : (PromisedOn(d) \cap reserved)' = PromisedOn(d) \cap reserved
      BY <1>3, <1>0, SMTT(30) DEF Insert, PromisedOn, ReservedArePromised
    <3> QED BY <1>3, <3>1 DEF Insert, BookedAreReserved
  <2>5. DaysAreChosen'
    BY <1>3 DEF Insert, DaysAreChosen
  <2>6. TurnsAreTaken'
    <3>1. \A h \in Goroutines : Running(h)' => Running(h)
      BY <1>3 DEF Insert, Running
    <3>2. \A h \in Goroutines :
            step'[h] \in {"estimated", "inserted"} => step[h] \in {"estimated", "inserted"}
      BY <1>3 DEF Insert
    <3> QED BY <1>3, <3>1, <3>2 DEF Insert, TurnsAreTaken
  <2>7. CapacityKeptInTurn'
    BY <1>3 DEF Insert, CapacityKeptInTurn, Workday
  <2>8. WeekendIsFallback'
    BY <1>3 DEF Insert, WeekendIsFallback, DaysAreChosen
  <2> QED BY <2>1, <2>2, <2>3, <2>4, <2>5, <2>6, <2>7, <2>8 DEF ScheduleIInv
<1>4. ASSUME NEW g \in Goroutines, Reserve(g) PROVE ScheduleIInv'
  <2>1. ScheduleTypeOK'
    <3>1. reserved' \in SUBSET Orders
      BY <1>4, <1>0 DEF Reserve
    <3>2. booked' \in [Days -> Nat] /\ step' \in [Goroutines -> RunSteps]
      BY <1>4 DEF Reserve
    <3> QED BY <1>4, <3>1, <3>2 DEF Reserve
  <2>2. InsertedOnce'
    BY <1>4 DEF Reserve, InsertedOnce
  <2>3. ReservedArePromised'
    <3>1. IsFiniteSet(reserved')
      BY <1>4, FS_AddElement DEF Reserve, ReservedArePromised
    <3>2. promised[g[1]] # None
      BY <1>4 DEF Reserve, InsertedOnce
    <3> QED BY <1>4, <3>1, <3>2 DEF Reserve, ReservedArePromised
  <2>4. BookedAreReserved'
    <3> SUFFICES ASSUME NEW d \in Days
                 PROVE booked'[d] = Cardinality((PromisedOn(d) \cap reserved)')
      BY DEF BookedAreReserved
    <3> DEFINE S == PromisedOn(d) \cap reserved
    <3>1. IsFiniteSet(S) /\ Cardinality(S) \in Nat /\ booked[d] = Cardinality(S)
      BY FS_Intersection, FS_CardinalityType DEF ReservedArePromised, BookedAreReserved
    <3>2. promised[g[1]] = day[g] /\ g[1] \notin reserved
      BY <1>4 DEF Reserve, InsertedOnce
    <3>3. CASE d = day[g]
      <4>1. (PromisedOn(d) \cap reserved)' = S \cup {g[1]} /\ g[1] \notin S
        BY <1>4, <3>2, <3>3, <1>0 DEF Reserve, PromisedOn
      <4>2. booked'[d] = booked[d] + 1
        BY <1>4, <3>3 DEF Reserve
      <4>3. Cardinality(S \cup {g[1]}) = Cardinality(S) + 1
        BY <3>1, <4>1, FS_AddElement
      <4> HIDE DEF S
      <4> QED BY <3>1, <4>1, <4>2, <4>3
    <3>4. CASE d # day[g]
      <4>1. (PromisedOn(d) \cap reserved)' = S
        BY <1>4, <3>2, <3>4 DEF Reserve, PromisedOn
      <4>2. booked'[d] = booked[d]
        BY <1>4, <3>4 DEF Reserve
      <4> QED BY <3>1, <4>1, <4>2
    <3> QED BY <3>3, <3>4
  <2>5. DaysAreChosen'
    BY <1>4 DEF Reserve, DaysAreChosen
  <2>6. TurnsAreTaken'
    <3> SUFFICES ASSUME ~ disturbed PROVE \A h \in Goroutines : ~ Running(h)'
      BY <1>4 DEF Reserve, TurnsAreTaken, Running
    <3> QED BY <1>4 DEF Reserve, TurnsAreTaken, Running
  <2>7. CapacityKeptInTurn'
    <3> SUFFICES ASSUME ~ disturbed, NEW d \in Days \ {Horizon}
                 PROVE booked'[d] <= IF Workday(d) THEN MaxOrders[d] ELSE 0
      BY <1>4 DEF Reserve, CapacityKeptInTurn
    <3>1. booked[d] \in Nat /\ MaxOrders[d] \in Nat
      OBVIOUS
    <3>2. CASE d = day[g]
      <4>1. Workday(d) /\ booked[d] < MaxOrders[d]
        BY <1>4, <3>2 DEF Reserve, DaysAreChosen, TurnsAreTaken, Workday
      <4>2. booked'[d] = booked[d] + 1
        BY <1>4, <3>2 DEF Reserve
      <4> QED BY <3>1, <4>1, <4>2
    <3>3. CASE d # day[g]
      BY <1>4, <3>3 DEF Reserve, CapacityKeptInTurn
    <3> QED BY <3>2, <3>3
  <2>8. WeekendIsFallback'
    BY <1>4 DEF Reserve, WeekendIsFallback
  <2> QED BY <2>1, <2>2, <2>3, <2>4, <2>5, <2>6, <2>7, <2>8 DEF ScheduleIInv
<1>5. ASSUME NEW g \in Goroutines, CallFails(g) PROVE ScheduleIInv'
  <2>1. ScheduleTypeOK'
    BY <1>5 DEF CallFails, ScheduleTypeOK
  <2>2. InsertedOnce'
    BY <1>5 DEF CallFails, InsertedOnce
  <2>3. DaysAreChosen'
    BY <1>5 DEF CallFails, DaysAreChosen
  <2>4. TurnsAreTaken'
    BY <1>5 DEF CallFails, TurnsAreTaken, Running
  <2>5. CapacityKeptInTurn'
    BY <1>5 DEF CallFails, CapacityKeptInTurn, Workday
  <2>6. (ReservedArePromised /\ BookedAreReserved /\ WeekendIsFallback)'
    BY <1>5 DEF CallFails, ReservedArePromised, BookedAreReserved, WeekendIsFallback, PromisedOn
  <2> QED BY <2>1, <2>2, <2>3, <2>4, <2>5, <2>6 DEF ScheduleIInv
<1>6. ASSUME ServerStops PROVE ScheduleIInv'
  <2>1. ScheduleTypeOK'
    BY <1>6 DEF ServerStops, Running, ScheduleTypeOK
  <2>2. InsertedOnce'
    BY <1>6 DEF ServerStops, Running, InsertedOnce
  <2>3. DaysAreChosen'
    BY <1>6 DEF ServerStops, Running, DaysAreChosen
  <2>4. TurnsAreTaken'
    BY <1>6 DEF ServerStops, Running, TurnsAreTaken
  <2>5. CapacityKeptInTurn'
    BY <1>6 DEF ServerStops, Running, CapacityKeptInTurn, Workday
  <2>6. (ReservedArePromised /\ BookedAreReserved /\ WeekendIsFallback)'
    BY <1>6
       DEF ServerStops, Running, ReservedArePromised, BookedAreReserved, WeekendIsFallback,
           PromisedOn
  <2> QED BY <2>1, <2>2, <2>3, <2>4, <2>5, <2>6 DEF ScheduleIInv
<1>7. CASE UNCHANGED scheduleVars
  <2>1. BookedAreReserved'
    BY <1>7 DEF scheduleVars, BookedAreReserved, PromisedOn
  <2>2. (ScheduleTypeOK /\ InsertedOnce /\ ReservedArePromised)'
    BY <1>7 DEF scheduleVars, ScheduleTypeOK, InsertedOnce, ReservedArePromised
  <2>3. (DaysAreChosen /\ TurnsAreTaken /\ CapacityKeptInTurn /\ WeekendIsFallback)'
    BY <1>7
       DEF scheduleVars, DaysAreChosen, TurnsAreTaken, CapacityKeptInTurn, WeekendIsFallback, Running,
           Workday
  <2> QED BY <2>1, <2>2, <2>3 DEF ScheduleIInv
<1> QED BY <1>1, <1>2, <1>3, <1>4, <1>5, <1>6, <1>7 DEF ScheduleNext

(* The inductive invariant holds in every reachable state. *)
THEOREM ScheduleIsInductive == ScheduleSpec => []ScheduleIInv
BY ScheduleInitIInv, ScheduleNextIInv, PTL DEF ScheduleSpec

(* However many goroutines a paid order gets and however they overlap and  *)
(* fail, a day's booking counts the orders that reserved the date they are *)
(* promised for, each of them once.                                        *)
THEOREM BookingsCountPromises == ScheduleSpec => []BookingsMatchPromises
<1>1. ScheduleIInv => BookingsMatchPromises
  BY DEF ScheduleIInv, BookedAreReserved, BookingsMatchPromises
<1> QED BY <1>1, ScheduleIsInductive, PTL

(* In turn no day before the last is overbooked, and no weekend but the    *)
(* last day is ever promised.                                              *)
THEOREM CapacityIsKept == ScheduleSpec => []DaysAreKept
<1>1. ScheduleIInv => DaysAreKept
  BY DEF ScheduleIInv, DaysAreKept
<1> QED BY <1>1, ScheduleIsInductive, PTL
=============================================================================
