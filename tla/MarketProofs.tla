----------------------------- MODULE MarketProofs -----------------------------
(***************************************************************************)
(* What holds of StallReview, Studio and AIClient for every number of      *)
(* boots, stalls, desks, indexers and callers, and however often the       *)
(* database or the model fails.                                            *)
(***************************************************************************)
EXTENDS StallReview, Studio, AIClient, FiniteSetTheorems, WellFoundedInduction, TLAPS

----------------------------------------------------------------------------
(***************************************************************************)
(* Stalls.  A decision stays on record because two processes that hold the *)
(* same migration contest it, one that ended at its record has abandoned   *)
(* it, and a process serves only once it has found 010 recorded.           *)
(***************************************************************************)
(* A process records a file it has executed. *)
RecordingIsExecuted == \A b \in Boots : at[b] = "record" => file[b] \in executed

Holds(b, f) == at[b] \in {"exec", "record"} /\ file[b] = f

(* Two processes that hold one file for missing contest it, and so does    *)
(* one that holds a file another has recorded.                             *)
HoldersContest ==
  \A b \in Boots : \A f \in Files : Holds(b, f) =>
    /\ f \in recorded => f \in contested
    /\ \A o \in Boots \ {b} : Holds(o, f) => f \in contested

(* An executed file is recorded, about to be, or abandoned. *)
ExecutedIsKnown ==
  \A f \in executed : \/ f \in recorded \cup abandoned
                      \/ \E b \in Boots : at[b] = "record" /\ file[b] = f

RolloutIInv ==
  /\ RolloutTypeOK
  /\ RecordingIsExecuted
  /\ MigratedInOrder
  /\ HoldersContest
  /\ ExecutedIsKnown

(* What a stall is before any process served, and what it cannot be.       *)
StallsAreServed ==
  \A s \in Stalls :
    /\ status[s] = "none" => decision[s] = "none" /\ filing[s] = "idle"
    /\ status[s] = "old"  => decision[s] = "none" /\ s \in grandfathered
    /\ status[s] # "none" /\ s \notin grandfathered => Marketplace \in executed
    /\ decision[s] # "none" => Marketplace \in recorded

(* No submission is about to write over a suspension, but one it overtook. *)
SuspendedIsNotWritten ==
  \A s \in Stalls :
    decision[s] = "suspend" /\ s \notin overtaken => status[s] = "suspended" /\ filing[s] # "write"

ReviewIInv ==
  /\ ReviewTypeOK
  /\ RolloutIInv
  /\ StallsAreServed
  /\ SuspendedIsNotWritten
  /\ DecisionIsOnRecord

(* Every initial state satisfies the inductive invariants. *)
LEMMA RolloutInitIInv == RolloutInit => RolloutIInv
<1> SUFFICES ASSUME RolloutInit PROVE RolloutIInv
  OBVIOUS
<1> USE RolloutAssumption, FaultsAssumption DEF RolloutAssumption, FaultsAssumption
<1>1. RolloutTypeOK
  <2>1. operator \in BOOLEAN
    BY Zenon DEF RolloutInit
  <2> QED BY <2>1 DEF RolloutInit, RolloutTypeOK, BootPlaces, Files
<1>2. RecordingIsExecuted /\ MigratedInOrder /\ HoldersContest
  <2>1. recorded = {} \/ recorded = Files \ {Marketplace}
    BY DEF RolloutInit
  <2>2. \A f \in recorded : 1..f \subseteq recorded
    BY <2>1 DEF Files
  <2> QED BY <2>2 DEF RolloutInit, RecordingIsExecuted, MigratedInOrder, HoldersContest, Holds, Files
<1>3. ExecutedIsKnown
  BY DEF RolloutInit, ExecutedIsKnown
<1> QED BY <1>1, <1>2, <1>3 DEF RolloutIInv

LEMMA ReviewInitIInv == ReviewInit => ReviewIInv
<1> SUFFICES ASSUME ReviewInit PROVE ReviewIInv
  OBVIOUS
<1> USE ReviewAssumption DEF ReviewAssumption
<1>1. grandfathered \in SUBSET Stalls
  BY DEF ReviewInit
<1>2. RolloutIInv
  BY RolloutInitIInv DEF ReviewInit
<1>3. ReviewTypeOK
  <2>1. oldServes \in BOOLEAN
    BY DEF ReviewInit
  <2> QED BY <1>1, <1>2, <2>1 DEF ReviewInit, ReviewTypeOK, RolloutIInv, Status, Actions
<1>4. StallsAreServed /\ SuspendedIsNotWritten
  BY <1>1 DEF ReviewInit, StallsAreServed, SuspendedIsNotWritten
<1>5. DecisionIsOnRecord
  BY <1>1, <1>3 DEF ReviewInit, DecisionIsOnRecord
<1> QED BY <1>2, <1>3, <1>4, <1>5 DEF ReviewIInv

(* A process that has found or made the record of its file may pass it. *)
LEMMA PassingKeepsOrder ==
  ASSUME RolloutTypeOK, MigratedInOrder, NEW b \in Boots, file[b] \in recorded',
         recorded' \in {recorded, recorded \cup {file[b]}}, at[b] # "down",
         NextFile(b, file[b])
  PROVE  MigratedInOrder'
<1> USE RolloutAssumption DEF RolloutAssumption
<1>1. /\ file \in [Boots -> Files] /\ at \in [Boots -> BootPlaces]
      /\ recorded \subseteq Files /\ file[b] \in Files
  BY DEF RolloutTypeOK
<1>2. recorded' \subseteq Files /\ recorded \subseteq recorded'
  BY <1>1
<1>3. \A f \in Files : f < file[b] + 1 => f \in recorded'
  <2> SUFFICES ASSUME NEW f \in Files, f < file[b] + 1 PROVE f \in recorded'
    OBVIOUS
  <2>1. f < file[b] \/ f = file[b]
    BY <1>1 DEF Files
  <2>2. f < file[b] => f \in recorded
    BY DEF MigratedInOrder
  <2> QED BY <1>2, <2>1, <2>2
<1>4. \A f \in recorded' : 1..f \subseteq recorded'
  <2> SUFFICES ASSUME NEW f \in recorded' PROVE 1..f \subseteq recorded'
    OBVIOUS
  <2>1. CASE f \in recorded
    BY <1>2, <2>1 DEF MigratedInOrder
  <2>2. CASE f = file[b]
    BY <1>1, <1>3, <2>2 DEF Files
  <2> QED BY <2>1, <2>2
<1>5. CASE file[b] = Marketplace
  <2>1. \A f \in Files : f < file[b] + 1
    BY <1>5 DEF Files
  <2>2. recorded' = Files
    BY <1>2, <1>3, <2>1
  <2> QED BY <1>1, <1>2, <1>4, <1>5, <2>2 DEF MigratedInOrder, NextFile
<1>6. CASE file[b] # Marketplace
  <2>1. at' = [at EXCEPT ![b] = "check"] /\ file' = [file EXCEPT ![b] = file[b] + 1]
    BY <1>6 DEF NextFile, Goto
  <2>2. \A o \in Boots \ {b} : at'[o] = at[o] /\ file'[o] = file[o]
    BY <1>1, <2>1
  <2>3. at'[b] = "check" /\ file'[b] = file[b] + 1
    BY <1>1, <2>1
  <2>4. \A o \in Boots : at'[o] # "down" => \A f \in Files : f < file'[o] => f \in recorded'
    BY <1>2, <1>3, <2>2, <2>3 DEF MigratedInOrder
  <2>5. \A o \in Boots : at'[o] \in {"admin", "insert", "up"} => recorded' = Files
    BY <1>2, <2>2, <2>3 DEF MigratedInOrder
  <2> QED BY <1>4, <2>4, <2>5 DEF MigratedInOrder
<1> QED BY <1>5, <1>6

(* What a boot has executed it records, or abandons where it ends.         *)
LEMMA ExecutedStaysKnown ==
  ASSUME RolloutIInv, NEW b \in Boots, RolloutStep(b)
  PROVE  ExecutedIsKnown'
<1> USE DEF Goto
<1>1. at \in [Boots -> BootPlaces] /\ file \in [Boots -> Files]
  BY DEF RolloutIInv, RolloutTypeOK
<1>2. SUFFICES ASSUME NEW f \in executed'
               PROVE  \/ f \in recorded' \cup abandoned'
                      \/ \E o \in Boots : at'[o] = "record" /\ file'[o] = f
  BY DEF ExecutedIsKnown
<1>3. recorded \subseteq recorded' /\ abandoned \subseteq abandoned'
  BY DEF RolloutStep, Boot, ExecuteFile, SkipApplied, FindMissing, ExecuteRefused, RecordFile,
         RecordRefused, CountOperators, CreateOperator, NoOperator, BootEnds, Start
<1>4. CASE f \notin executed
  <2>1. ExecuteFile(b)
    BY <1>2, <1>4 DEF RolloutStep, Boot, SkipApplied, FindMissing, ExecuteRefused, RecordFile,
          RecordRefused, CountOperators, CreateOperator, NoOperator, BootEnds, Start
  <2>2. at'[b] = "record" /\ file'[b] = f
    BY <1>1, <1>2, <1>4, <2>1 DEF ExecuteFile
  <2> QED BY <2>2
<1>5. CASE f \in recorded \cup abandoned
  BY <1>3, <1>5
<1>6. CASE \E o \in Boots : at[o] = "record" /\ file[o] = f
  <2>1. PICK o \in Boots : at[o] = "record" /\ file[o] = f
    BY <1>6
  <2>2. CASE o # b
    <3>1. /\ \E p : at' = [at EXCEPT ![b] = p]
          /\ file' = file \/ \E g : file' = [file EXCEPT ![b] = g]
      BY DEF RolloutStep, Boot, ExecuteFile, SkipApplied, FindMissing, ExecuteRefused, RecordFile,
             RecordRefused, CountOperators, CreateOperator, NoOperator, BootEnds, Start, NextFile
    <3>2. at'[o] = at[o] /\ file'[o] = file[o]
      BY <1>1, <2>2, <3>1
    <3> QED BY <2>1, <3>2
  <2>3. CASE o = b
    <3>1. RecordFile(b) \/ RecordRefused(b) \/ BootEnds(b)
      BY <2>1, <2>3 DEF RolloutStep, Boot, ExecuteFile, SkipApplied, FindMissing, ExecuteRefused,
             CountOperators, CreateOperator, NoOperator, Start
    <3>2. f \in recorded' \cup abandoned'
      BY <2>1, <2>3, <3>1 DEF RecordFile, RecordRefused, BootEnds
    <3> QED BY <3>2
  <2> QED BY <2>2, <2>3
<1> QED BY <1>4, <1>5, <1>6 DEF RolloutIInv, ExecutedIsKnown

(* A step of a boot keeps what is said of the processes.                   *)
LEMMA BootsKeep ==
  ASSUME RolloutIInv, NEW b \in Boots, RolloutStep(b)
  PROVE  RolloutIInv'
<1> USE RolloutAssumption, FaultsAssumption DEF RolloutAssumption, FaultsAssumption
<1> USE DEF Goto, Fault, NextFile, Files, Holds
<1>1. RolloutTypeOK /\ RecordingIsExecuted /\ MigratedInOrder /\ HoldersContest
  BY DEF RolloutIInv
<1>k. ExecutedIsKnown'
  BY ExecutedStaysKnown
<1>2. at \in [Boots -> BootPlaces] /\ file \in [Boots -> Files] /\ recorded \subseteq executed
  BY <1>1 DEF RolloutTypeOK
<1>0. file[b] \in Files /\ executed \subseteq Files
  BY <1>1, <1>2 DEF RolloutTypeOK
<1>l. SUFFICES RolloutTypeOK' /\ RecordingIsExecuted' /\ MigratedInOrder' /\ HoldersContest'
  BY <1>k DEF RolloutIInv
<1> USE DEF RolloutTypeOK, BootPlaces, RecordingIsExecuted, MigratedInOrder, HoldersContest
<1>3. CASE ExecuteFile(b)
  <2>1. RolloutTypeOK'
    <3>1. at' \in [Boots -> BootPlaces] /\ file' \in [Boots -> Files]
      BY <1>1, <1>3 DEF ExecuteFile, CanExecute
    <3>2. executed' \in SUBSET Files /\ recorded' \in SUBSET executed'
      <4>1. executed' = executed \cup {file[b]} /\ recorded' = recorded
        BY <1>3 DEF ExecuteFile
      <4> HIDE DEF Files
      <4> QED BY <1>0, <1>2, <4>1
    <3>3. /\ abandoned' \in SUBSET executed' /\ contested' \in SUBSET Files
          /\ operator' \in BOOLEAN /\ faults' \in 0..MaxFaults
          /\ starts' \in [Boots -> 0..MaxRestarts + 1] /\ spent' \in SUBSET Boots
      BY <1>1, <1>2, <1>3 DEF ExecuteFile, CanExecute
    <3> QED BY <3>1, <3>2, <3>3
  <2>2. RecordingIsExecuted' /\ MigratedInOrder'
    BY <1>1, <1>3 DEF ExecuteFile, CanExecute
  <2>3. HoldersContest'
    BY <1>1, <1>3 DEF ExecuteFile, CanExecute
  <2> QED BY <2>1, <2>2, <2>3
<1>4. CASE SkipApplied(b)
  <2>1. MigratedInOrder'
    BY <1>1, <1>4, PassingKeepsOrder DEF SkipApplied, Applied
  <2>2. RolloutTypeOK'
    <3>1. at' \in [Boots -> BootPlaces] /\ file' \in [Boots -> Files]
      BY <1>1, <1>4 DEF SkipApplied
    <3> QED BY <1>1, <1>4, <3>1 DEF SkipApplied
  <2>3. RecordingIsExecuted' /\ HoldersContest'
    BY <1>1, <1>4 DEF SkipApplied, Applied
  <2> QED BY <2>1, <2>2, <2>3
<1>5. CASE FindMissing(b)
  <2>1. RolloutTypeOK'
    <3>1. at' \in [Boots -> BootPlaces] /\ file' \in [Boots -> Files]
      BY <1>1, <1>5 DEF FindMissing, Applied
    <3>2. executed' \in SUBSET Files /\ recorded' \in SUBSET executed'
      BY <1>1, <1>2, <1>5 DEF FindMissing, Applied
    <3>3. /\ abandoned' \in SUBSET executed' /\ contested' \in SUBSET Files
          /\ operator' \in BOOLEAN /\ faults' \in 0..MaxFaults
          /\ starts' \in [Boots -> 0..MaxRestarts + 1] /\ spent' \in SUBSET Boots
      <4>1. contested' \subseteq contested \cup {file[b]}
        BY <1>5 DEF FindMissing
      <4>2. contested' \in SUBSET Files
        <5> HIDE DEF Files
        <5> QED BY <1>0, <1>1, <4>1
      <4> QED BY <1>1, <1>5, <4>2 DEF FindMissing
    <3> QED BY <3>1, <3>2, <3>3
  <2>2. RecordingIsExecuted' /\ MigratedInOrder'
    BY <1>1, <1>5 DEF FindMissing, Applied
  <2>3. HoldersContest'
    BY <1>1, <1>5 DEF FindMissing, Applied
  <2> QED BY <2>1, <2>2, <2>3
<1>6. CASE ExecuteRefused(b)
  BY <1>1, <1>6 DEF ExecuteRefused
<1>7. CASE RecordFile(b)
  <2>1. RolloutTypeOK'
    <3>1. at' \in [Boots -> BootPlaces] /\ file' \in [Boots -> Files]
      BY <1>1, <1>7 DEF RecordFile
    <3>2. executed' \in SUBSET Files /\ recorded' \in SUBSET executed'
      BY <1>1, <1>2, <1>7 DEF RecordFile
    <3>3. /\ abandoned' \in SUBSET executed' /\ contested' \in SUBSET Files
          /\ operator' \in BOOLEAN /\ faults' \in 0..MaxFaults
          /\ starts' \in [Boots -> 0..MaxRestarts + 1] /\ spent' \in SUBSET Boots
      BY <1>1, <1>2, <1>7 DEF RecordFile
    <3> QED BY <3>1, <3>2, <3>3
  <2>2. RecordingIsExecuted'
    BY <1>1, <1>7 DEF RecordFile
  <2>4. MigratedInOrder'
    BY <1>1, <1>7, PassingKeepsOrder DEF RecordFile
  <2>3. HoldersContest'
    BY <1>1, <1>7 DEF RecordFile
  <2> QED BY <2>1, <2>2, <2>3, <2>4
<1>8. CASE RecordRefused(b)
  BY <1>1, <1>8 DEF RecordRefused
<1>9. CASE CountOperators(b)
  BY <1>1, <1>9 DEF CountOperators
<1>10. CASE CreateOperator(b)
  BY <1>1, <1>10 DEF CreateOperator
<1>11. CASE NoOperator(b)
  BY <1>1, <1>11 DEF NoOperator
<1>12. CASE BootEnds(b)
  <2>1. RolloutTypeOK'
    <3>1. at' \in [Boots -> BootPlaces] /\ file' \in [Boots -> Files]
      BY <1>1, <1>12 DEF BootEnds
    <3>2. executed' \in SUBSET Files /\ recorded' \in SUBSET executed'
      BY <1>1, <1>2, <1>12 DEF BootEnds
    <3>3. /\ abandoned' \in SUBSET executed' /\ contested' \in SUBSET Files
          /\ operator' \in BOOLEAN /\ faults' \in 0..MaxFaults
          /\ starts' \in [Boots -> 0..MaxRestarts + 1] /\ spent' \in SUBSET Boots
      <4>1. abandoned' = abandoned \cup {f \in {file[b]} : at[b] = "record"} /\ executed' = executed
        BY <1>12 DEF BootEnds
      <4>2. abandoned' \in SUBSET executed'
        BY <1>1, <4>1
      <4> QED BY <1>1, <1>12, <4>2 DEF BootEnds
    <3> QED BY <3>1, <3>2, <3>3
  <2>2. RecordingIsExecuted' /\ MigratedInOrder'
    BY <1>1, <1>12 DEF BootEnds
  <2>3. HoldersContest'
    BY <1>1, <1>12 DEF BootEnds
  <2> QED BY <2>1, <2>2, <2>3
<1>13. CASE Start(b)
  <2>1. starts' \in [Boots -> 0..MaxRestarts + 1]
    BY <1>1, <1>13 DEF Start, MayStart
  <2> QED BY <1>1, <1>13, <2>1 DEF Start
<1> QED BY <1>3, <1>4, <1>5, <1>6, <1>7, <1>8, <1>9, <1>10, <1>11, <1>12, <1>13 DEF RolloutStep, Boot

(* The inductive invariant of the processes holds in every reachable state. *)
THEOREM RolloutIsInductive == RolloutSpec => []RolloutIInv
<1>1. RolloutIInv /\ [RolloutNext]_rolloutVars => RolloutIInv'
  <2> SUFFICES ASSUME RolloutIInv, [RolloutNext]_rolloutVars PROVE RolloutIInv'
    OBVIOUS
  <2>1. CASE RolloutNext
    BY <2>1, BootsKeep DEF RolloutNext
  <2>2. CASE UNCHANGED rolloutVars
    BY <2>2 DEF rolloutVars, RolloutIInv, RolloutTypeOK, RecordingIsExecuted, MigratedInOrder,
       HoldersContest, Holds, ExecutedIsKnown
  <2> QED BY <2>1, <2>2
<1> QED BY <1>1, RolloutInitIInv, PTL DEF RolloutSpec

(* Migrations are recorded in their order, and no process serves before it *)
(* found or made the record of every one of them, however many migrate at  *)
(* once, wherever they end and however often they are restarted.           *)
THEOREM FilesAreInOrder == RolloutSpec => []MigratedInOrder
<1>1. RolloutIInv => MigratedInOrder
  BY DEF RolloutIInv
<1> QED BY <1>1, RolloutIsInductive, PTL

(* Only the execution of 010 changes a stall. *)
LEMMA BootsReview ==
  ASSUME ReviewIInv, NEW b \in Boots, Migrate(b) \/ Prepare(b)
  PROVE  ReviewIInv'
<1>1. RolloutIInv'
  BY BootsKeep DEF ReviewIInv, Migrate, Prepare, RolloutStep, Boot
<1>2. /\ recorded \subseteq recorded' /\ contested \subseteq contested'
      /\ executed \subseteq executed' /\ abandoned \subseteq abandoned'
  BY DEF Migrate, Prepare, ExecuteFile, SkipApplied, FindMissing, ExecuteRefused, RecordFile,
         RecordRefused, CountOperators, CreateOperator, NoOperator, BootEnds, Start
<1>3. UNCHANGED <<lost, filing, decision, filed, restricted, grandfathered, overtaken,
                  unrecorded, filings, decisions, oldServes>>
  BY DEF Migrate, Prepare, stallVars
<1>4. CASE UNCHANGED status
  BY <1>1, <1>2, <1>3, <1>4 DEF ReviewIInv, RolloutIInv, ReviewTypeOK, StallsAreServed, SuspendedIsNotWritten,
     DecisionIsOnRecord
<1>5. CASE ~ UNCHANGED status
  <2>1. /\ at[b] = "exec" /\ file[b] = Marketplace
        /\ status' = [s \in Stalls |-> IF status[s] \in Approvable THEN "approved" ELSE status[s]]
    BY <1>5 DEF Migrate, Prepare, stallVars, ExecuteFile
  <2>2. Marketplace \in executed => Marketplace \in contested \cup abandoned
    <3>1. Marketplace \in Files
      BY RolloutAssumption DEF RolloutAssumption, Files
    <3>2. HoldersContest /\ ExecutedIsKnown
      BY DEF ReviewIInv, RolloutIInv
    <3>3. Marketplace \in recorded => Marketplace \in contested
      BY <2>1, <3>1, <3>2 DEF HoldersContest, Holds
    <3>4. ASSUME NEW o \in Boots, at[o] = "record" /\ file[o] = Marketplace
          PROVE  Marketplace \in contested
      BY <2>1, <3>1, <3>2, <3>4 DEF HoldersContest, Holds
    <3> QED BY <3>2, <3>3, <3>4 DEF ExecutedIsKnown
  <2>3. ReviewTypeOK'
    BY <1>1, <1>3, <2>1 DEF ReviewIInv, RolloutIInv, ReviewTypeOK, Status
  <2>4. StallsAreServed' /\ SuspendedIsNotWritten'
    BY <1>2, <1>3, <2>1 DEF ReviewIInv, ReviewTypeOK, StallsAreServed, SuspendedIsNotWritten,
       Approvable
  <2>5. DecisionIsOnRecord'
    <3>1. \A s \in Stalls : status'[s] = status[s] \/ (status[s] \in Approvable /\ status'[s] = "approved")
      <4> SUFFICES ASSUME NEW s \in Stalls
                   PROVE  status'[s] = status[s] \/ (status[s] \in Approvable /\ status'[s] = "approved")
        OBVIOUS
      <4>1. status'[s] = IF status[s] \in Approvable THEN "approved" ELSE status[s]
        BY <2>1
      <4> QED BY <4>1
    <3>2. ASSUME NEW s \in Stalls, status[s] \in Approvable
          PROVE  \/ decision[s] = "none" /\ s \in grandfathered
                 \/ Marketplace \in contested \cup abandoned
      <4>1. Marketplace \notin executed => decision[s] = "none" /\ s \in grandfathered
        BY <3>2 DEF ReviewIInv, RolloutIInv, RolloutTypeOK, StallsAreServed, Approvable
      <4> QED BY <2>2, <4>1
    <3>3. DecisionIsOnRecord /\ \A s \in Stalls : status'[s] = status[s] \/ status'[s] = "approved"
      BY <3>1 DEF ReviewIInv
    <3> QED BY <1>2, <1>3, <2>3, <3>1, <3>2, <3>3 DEF DecisionIsOnRecord
  <2> QED BY <1>1, <2>3, <2>4, <2>5 DEF ReviewIInv
<1> QED BY <1>4, <1>5

(* A step that leaves every boot where it is keeps what is said of them.   *)
LEMMA StallsLeaveBoots ==
  ASSUME ReviewIInv,
         UNCHANGED <<at, file, executed, recorded, operator, abandoned, contested, starts, spent>>,
         faults' \in 0..MaxFaults
  PROVE  RolloutIInv'
BY DEF ReviewIInv, RolloutIInv, RolloutTypeOK, RecordingIsExecuted, MigratedInOrder, HoldersContest,
   Holds, ExecutedIsKnown

(* What an operator decides about a stall. *)
LEMMA ModerateReviews ==
  ASSUME ReviewIInv, NEW s \in Stalls,
         ApproveStore(s) \/ RejectStore(s) \/ SuspendStore(s) \/ RestoreStore(s)
  PROVE  ReviewIInv'
<1>1. PICK action \in Actions, new \in Status :
        /\ Moderate(s, action, new)
        /\ \/ action \in {"approve", "restore"} /\ new = "approved"
           \/ action = "reject" /\ new = "rejected"
           \/ action = "suspend" /\ new = "suspended"
  BY DEF ApproveStore, RejectStore, SuspendStore, RestoreStore, Actions, Status
<1>2. RolloutIInv'
  BY <1>1, StallsLeaveBoots DEF Moderate, rolloutVars, ReviewIInv, RolloutIInv, RolloutTypeOK
<1>3. Marketplace \in recorded /\ recorded \subseteq executed
  BY <1>1, RolloutAssumption
  DEF RolloutAssumption, Moderate, Serving, ReviewIInv, RolloutIInv, RolloutTypeOK,
      MigratedInOrder, Files
<1>4. ReviewTypeOK'
  <2>1. RolloutTypeOK'
    BY <1>2 DEF RolloutIInv
  <2>2. /\ status' \in [Stalls -> Status]
        /\ decision' \in [Stalls -> Actions \cup {"none"}]
        /\ decisions' \in [Stalls -> 0..MaxDecisions]
        /\ overtaken' \in SUBSET Stalls
        /\ unrecorded' \in SUBSET Stalls
    BY <1>1, ReviewAssumption DEF ReviewAssumption, Moderate, Put, ReviewIInv, ReviewTypeOK
  <2>3. /\ lost' \in [Stalls -> SUBSET Capabilities]
        /\ restricted' \in [Stalls -> BOOLEAN]
        /\ filed' \in [Stalls -> BOOLEAN]
    BY <1>1 DEF Moderate, Put, ReviewIInv, ReviewTypeOK
  <2> QED BY <1>1, <2>1, <2>2, <2>3 DEF Moderate, ReviewIInv, ReviewTypeOK
<1>5. StallsAreServed' /\ SuspendedIsNotWritten'
  BY <1>1, <1>3 DEF Moderate, Put, ReviewIInv, ReviewTypeOK, StallsAreServed, SuspendedIsNotWritten,
     rolloutVars
<1>6. DecisionIsOnRecord'
  BY <1>1, <1>4 DEF Moderate, Put, ReviewIInv, ReviewTypeOK, DecisionIsOnRecord, rolloutVars
<1> QED BY <1>2, <1>4, <1>5, <1>6 DEF ReviewIInv

(* The other steps about a stall. *)
LEMMA StallsReview ==
  ASSUME ReviewIInv, NEW s \in Stalls,
         \/ Signup(s) \/ SubmitStoreForReview(s) \/ WritePending(s)
         \/ RecordSubmission(s) \/ SubmissionFails(s) \/ SetStoreRestrictions(s)
  PROVE  ReviewIInv'
<1> USE ReviewAssumption, FaultsAssumption
    DEF ReviewAssumption, FaultsAssumption, Put, Fault, rolloutVars
<1>1. /\ UNCHANGED <<at, file, executed, recorded, operator, abandoned, contested, starts, spent>>
      /\ faults' \in 0..MaxFaults
  BY DEF Signup, SubmitStoreForReview, WritePending, RecordSubmission, SubmissionFails,
     SetStoreRestrictions, ReviewIInv, RolloutIInv, RolloutTypeOK
<1>2. RolloutIInv' /\ RolloutTypeOK'
  BY <1>1, StallsLeaveBoots DEF RolloutIInv
<1>4. ReviewTypeOK /\ StallsAreServed /\ SuspendedIsNotWritten /\ DecisionIsOnRecord
  BY DEF ReviewIInv
<1> USE DEF ReviewTypeOK, StallsAreServed, SuspendedIsNotWritten, DecisionIsOnRecord
<1>5. CASE Signup(s)
  <2>0. \/ Marketplace \in executed /\ status' = [status EXCEPT ![s] = "pending"]
             /\ grandfathered' = grandfathered
        \/ status' = [status EXCEPT ![s] = "old"] /\ grandfathered' = grandfathered \cup {s}
    BY <1>5 DEF Signup
  <2>1. ReviewTypeOK'
    <3>1. status' \in [Stalls -> Status] /\ grandfathered' \in SUBSET Stalls
      BY <1>4, <2>0 DEF Status
    <3> QED BY <1>2, <1>4, <1>5, <3>1 DEF Signup
  <2>2. StallsAreServed' /\ SuspendedIsNotWritten'
    BY <1>4, <1>5, <2>0 DEF Signup
  <2>3. DecisionIsOnRecord'
    BY <1>4, <1>5, <2>0, <2>1 DEF Signup
  <2> QED BY <1>2, <2>1, <2>2, <2>3 DEF ReviewIInv
<1>6. CASE SubmitStoreForReview(s)
  BY <1>2, <1>4, <1>6 DEF SubmitStoreForReview, Resubmittable, ReviewIInv
<1>7. CASE WritePending(s)
  <2>1. ReviewTypeOK'
    BY <1>2, <1>4, <1>7 DEF WritePending, Status
  <2>2. status[s] # "none"
    BY <1>4, <1>7 DEF WritePending
  <2>3. StallsAreServed' /\ SuspendedIsNotWritten'
    BY <1>4, <1>7, <2>2 DEF WritePending
  <2>4. DecisionIsOnRecord'
    BY <1>4, <1>7, <2>1 DEF WritePending
  <2> QED BY <1>2, <2>1, <2>3, <2>4 DEF ReviewIInv
<1>8. CASE RecordSubmission(s)
  BY <1>2, <1>4, <1>8 DEF RecordSubmission, ReviewIInv
<1>9. CASE SubmissionFails(s)
  BY <1>2, <1>4, <1>9 DEF SubmissionFails, ReviewIInv
<1>10. CASE SetStoreRestrictions(s)
  <2>1. PICK taken \in SUBSET Capabilities :
          /\ lost' = [lost EXCEPT ![s] = taken]
          /\ restricted' = [restricted EXCEPT ![s] = taken # {}]
    BY <1>10 DEF SetStoreRestrictions
  <2>2. ReviewTypeOK'
    <3>1. lost' \in [Stalls -> SUBSET Capabilities] /\ restricted' \in [Stalls -> BOOLEAN]
      BY <1>4, <2>1
    <3> QED BY <1>2, <1>4, <1>10, <3>1 DEF SetStoreRestrictions
  <2>3. StallsAreServed' /\ SuspendedIsNotWritten'
    BY <1>4, <1>10 DEF SetStoreRestrictions
  <2>4. DecisionIsOnRecord'
    <3>1. lost'[s] # {} <=> restricted'[s]
      BY <1>4, <2>1
    <3>2. \A r \in Stalls \ {s} : lost'[r] = lost[r] /\ restricted'[r] = restricted[r]
      BY <1>4, <2>1
    <3>3. UNCHANGED <<rolloutVars, status, filing, decision, filed, grandfathered, unrecorded>>
      BY <1>10 DEF SetStoreRestrictions
    <3> QED BY <1>4, <2>2, <3>1, <3>2, <3>3
  <2> QED BY <1>2, <2>2, <2>3, <2>4 DEF ReviewIInv
<1> QED BY <1>5, <1>6, <1>7, <1>8, <1>9, <1>10

(* Every step keeps the inductive invariant. *)
LEMMA ReviewNextIInv == ReviewIInv /\ [ReviewNext]_reviewVars => ReviewIInv'
<1> SUFFICES ASSUME ReviewIInv, [ReviewNext]_reviewVars PROVE ReviewIInv'
  OBVIOUS
<1>1. CASE \E b \in Boots : Migrate(b) \/ Prepare(b)
  BY <1>1, BootsReview
<1>2. CASE \E s \in Stalls :
             \/ Signup(s) \/ SubmitStoreForReview(s) \/ WritePending(s)
             \/ RecordSubmission(s) \/ SubmissionFails(s) \/ Review(s)
  BY <1>2, ModerateReviews, StallsReview DEF Review
<1>3. CASE UNCHANGED reviewVars
  BY <1>3 DEF reviewVars, rolloutVars, stallVars, ReviewIInv, ReviewTypeOK, RolloutTypeOK,
     RolloutIInv, RecordingIsExecuted, MigratedInOrder, HoldersContest, Holds, ExecutedIsKnown,
     StallsAreServed, SuspendedIsNotWritten, DecisionIsOnRecord
<1>4. CASE OldStops
  <2>1. RolloutIInv' /\ oldServes' \in BOOLEAN
    BY <1>4, StallsLeaveBoots DEF OldStops, rolloutVars, ReviewIInv, RolloutIInv, RolloutTypeOK
  <2> QED BY <1>4, <2>1 DEF OldStops, rolloutVars, ReviewIInv, RolloutIInv, ReviewTypeOK,
       StallsAreServed, SuspendedIsNotWritten, DecisionIsOnRecord
<1> QED BY <1>1, <1>2, <1>3, <1>4 DEF ReviewNext

(* The inductive invariant holds in every reachable state.                 *)
THEOREM ReviewIsInductive == ReviewSpec => []ReviewIInv
BY ReviewInitIInv, ReviewNextIInv, PTL DEF ReviewSpec

(* However boots, submissions and reviews interleave: a suspended or       *)
(* rejected stall was so decided; an approved one was decided so, is older *)
(* than 010, or 010 was applied twice; a decided one is pending again only *)
(* by a submission; the restricted flag says what was taken.               *)
THEOREM DecisionsAreOnRecord == ReviewSpec => []DecisionIsOnRecord
<1>1. ReviewIInv => DecisionIsOnRecord
  BY DEF ReviewIInv
<1> QED BY <1>1, ReviewIsInductive, PTL

(* A suspended stall stays suspended until the next decision, but for a    *)
(* submission that had read its status before.                             *)
THEOREM SuspensionsHold == ReviewSpec => []SuspensionHolds
<1>1. ReviewIInv => SuspensionHolds
  BY DEF ReviewIInv, SuspendedIsNotWritten, SuspensionHolds
<1> QED BY <1>1, ReviewIsInductive, PTL

----------------------------------------------------------------------------
(***************************************************************************)
(* Generated copy.  A desk publishes once per run, what it goes by is what *)
(* the model said of its drafts, and who has read the text stores a vector *)
(* of it.                                                                  *)
(***************************************************************************)
(* The runs that may still publish. *)
Drafting == {d \in Desks : at[d] \in {"draft", "rate", "publish"}}

(* A run publishes once at most. *)
PublicationsAreRuns == IsFiniteSet(Drafting) /\ text + Cardinality(Drafting) <= runs

(* What a desk goes by is what the model said of the drafts it has. *)
ScoresAreRatings ==
  \A d \in Desks :
    /\ score[d] = rating[d]
    /\ at[d] \in {"rate", "publish"} => drafts[d] # {}

(* Who has read the text holds the one that is published, or requests crossed. *)
ReadIsCurrent ==
  /\ \A i \in Indexers : seen[i] <= text
  /\ ~ crossed => \A i \in Indexers : at[i] = "store" => seen[i] = text

(* A vector that is not of the text is about to be replaced. *)
StaleIsReplaced ==
  /\ text # 0 \/ vector # Unindexed
  /\ vector # text
  => crossed \/ faults > 0 \/ \E i \in Indexers : at[i] \in {"read", "store"}

StudioIInv ==
  /\ TypeOK
  /\ PublicationsAreRuns
  /\ ScoresAreRatings
  /\ ReadIsCurrent
  /\ StaleIsReplaced
  /\ PublishedWasRated

(* Every set of numbers that is not empty has a least one. *)
LEMMA LeastNumber ==
  ASSUME NEW T \in SUBSET Nat, T # {}
  PROVE  \E x \in T : \A y \in T : x <= y
<1> DEFINE Less == OpToRel(<, Nat)
<1>1. IsWellFoundedOn(Less, Nat)
  BY NatLessThanWellFounded
<1>2. \A x, y \in Nat : x < y => <<x, y>> \in Less
  BY DEF OpToRel
<1> HIDE DEF Less
<1>3. PICK x \in T : \A y \in T : ~ (<<y, x>> \in Less)
  BY <1>1, WFMin
<1>4. \A y \in T : ~ (y < x)
  <2> SUFFICES ASSUME NEW y \in T, y < x PROVE FALSE
    OBVIOUS
  <2>1. y \in Nat /\ x \in Nat
    OBVIOUS
  <2> QED BY <1>2, <1>3, <2>1
<1>5. \A y \in T : x <= y
  BY <1>4
<1> QED BY <1>5

(* The first of the drafts with the highest score exists. *)
LEMMA BestExists ==
  ASSUME NEW T \in SUBSET Nat, T # {}, NEW f, \A t \in T : f[t] \in 0..MaxScore
  PROVE  \E t \in T : \A u \in T : f[t] > f[u] \/ (f[t] = f[u] /\ t <= u)
<1> DEFINE Gaps == {MaxScore - f[t] : t \in T}
<1>1. MaxScore \in Nat
  BY StudioAssumption DEF StudioAssumption
<1>1a. \A t \in T : f[t] \in Nat /\ MaxScore - f[t] \in Nat
  BY <1>1
<1>2. Gaps \in SUBSET Nat /\ Gaps # {}
  BY <1>1a
<1>3. PICK gap \in Gaps : \A other \in Gaps : gap <= other
  <2> HIDE DEF Gaps
  <2> QED BY <1>2, LeastNumber
<1>4. PICK top \in T : gap = MaxScore - f[top]
  BY <1>3
<1>5. \A u \in T : f[u] <= f[top]
  <2> SUFFICES ASSUME NEW u \in T PROVE f[u] <= f[top]
    OBVIOUS
  <2>1. MaxScore - f[u] \in Gaps
    OBVIOUS
  <2>2. MaxScore - f[top] <= MaxScore - f[u]
    BY <1>3, <1>4, <2>1
  <2>3. f[u] \in Nat /\ f[top] \in Nat
    BY <1>1a
  <2> QED BY <1>1, <2>2, <2>3
<1> DEFINE Tops == {t \in T : f[t] = f[top]}
<1>6. Tops \in SUBSET Nat /\ Tops # {}
  OBVIOUS
<1>7. PICK first \in Tops : \A t \in Tops : first <= t
  <2> HIDE DEF Tops
  <2> QED BY <1>6, LeastNumber
<1>8. \A u \in T : f[first] > f[u] \/ (f[first] = f[u] /\ first <= u)
  BY <1>5, <1>7
<1> QED BY <1>7, <1>8

(* What autoPublish takes is a draft, and no draft is rated higher. *)
LEMMA BestIsBest ==
  ASSUME StudioIInv, NEW d \in Desks, at[d] = "publish"
  PROVE  /\ Best(d) \in drafts[d]
         /\ \A u \in drafts[d] : score[d][u] <= score[d][Best(d)]
         /\ \A u \in drafts[d] : score[d][u] \in Scores
<1>1. /\ drafts[d] \in SUBSET Tones /\ drafts[d] # {}
      /\ \A t \in Tones : score[d][t] \in Scores
  BY DEF StudioIInv, TypeOK, ScoresAreRatings
<1>2. Tones \subseteq Nat
  BY StudioAssumption DEF StudioAssumption
<1>3. \E t \in drafts[d] : \A u \in drafts[d] :
        score[d][t] > score[d][u] \/ (score[d][t] = score[d][u] /\ t <= u)
  <2>1. drafts[d] \in SUBSET Nat /\ \A t \in drafts[d] : score[d][t] \in 0..MaxScore
    BY <1>1, <1>2 DEF Scores
  <2> QED BY <1>1, <2>1, BestExists
<1>4. /\ Best(d) \in drafts[d]
      /\ \A u \in drafts[d] :
           score[d][Best(d)] > score[d][u] \/ (score[d][Best(d)] = score[d][u] /\ Best(d) <= u)
  BY <1>3 DEF Best
<1>5. \A u \in drafts[d] : score[d][u] \in Nat
  <2>1. Scores \subseteq Nat
    BY StudioAssumption DEF StudioAssumption, Scores
  <2> QED BY <1>1, <2>1
<1>6. \A u \in drafts[d] : score[d][u] <= score[d][Best(d)]
  BY <1>4, <1>5
<1> QED BY <1>1, <1>4, <1>6

(* Every initial state satisfies the inductive invariant. *)
LEMMA StudioInitIInv == Init => StudioIInv
<1> SUFFICES ASSUME Init PROVE StudioIInv
  OBVIOUS
<1> USE StudioAssumption, FaultsAssumption DEF StudioAssumption, FaultsAssumption
<1>1. Neutral \in Scores /\ 0 \in Scores
  BY DEF Scores
<1>2. Unrated \in [Tones -> Scores]
  BY <1>1 DEF Unrated
<1>3. TypeOK
  <2>1. crossed \in BOOLEAN
    BY Zenon DEF Init
  <2>2. score \in [Desks -> [Tones -> Scores]] /\ rating \in [Desks -> [Tones -> Scores]]
    BY <1>2 DEF Init
  <2> QED BY <1>1, <2>1, <2>2 DEF Init, TypeOK, Indexers, Places, Unindexed
<1>4. PublicationsAreRuns
  <2>1. Drafting = {}
    BY DEF Init, Drafting, Indexers
  <2> QED BY <2>1, FS_EmptySet DEF Init, PublicationsAreRuns
<1>5. ScoresAreRatings /\ ReadIsCurrent /\ StaleIsReplaced
  BY DEF Init, ScoresAreRatings, ReadIsCurrent, StaleIsReplaced, Indexers
<1>6. PublishedWasRated
  BY <1>3 DEF Init, PublishedWasRated
<1> QED BY <1>3, <1>4, <1>5, <1>6 DEF StudioIInv

(* A step takes a run out of those that may publish, or lets it go on.     *)
LEMMA DraftingStep ==
  ASSUME StudioIInv, NEW d \in Desks, Drafting' \in {Drafting, Drafting \ {d}},
         UNCHANGED <<text, runs>>
  PROVE  PublicationsAreRuns'
<1>1. IsFiniteSet(Drafting) /\ text + Cardinality(Drafting) <= runs /\ text \in Nat /\ runs \in Nat
  BY DEF StudioIInv, PublicationsAreRuns, TypeOK
<1>2. Cardinality(Drafting) \in Nat
  BY <1>1, FS_CardinalityType
<1>3. /\ IsFiniteSet(Drafting \ {d})
      /\ Cardinality(Drafting \ {d}) \in {Cardinality(Drafting), Cardinality(Drafting) - 1}
  BY <1>1, FS_RemoveElement
<1>4. Cardinality(Drafting \ {d}) \in Nat
  BY <1>3, FS_CardinalityType
<1>5. IsFiniteSet(Drafting') /\ text' + Cardinality(Drafting') <= runs'
  <2>1. CASE Drafting' = Drafting
    BY <1>1, <2>1
  <2>2. CASE Drafting' = Drafting \ {d}
    <3>1. Cardinality(Drafting') <= Cardinality(Drafting) /\ Cardinality(Drafting') \in Nat
      BY <1>2, <1>3, <1>4, <2>2
    <3> QED BY <1>1, <1>2, <1>3, <2>2, <3>1
  <2> QED BY <2>1, <2>2
<1> QED BY <1>5 DEF PublicationsAreRuns

(* The steps of a run before it publishes. *)
LEMMA RunKeeps ==
  ASSUME StudioIInv, NEW d \in Desks,
         \/ GenerateProductCopy(d) \/ GenerateVariants(d) \/ ScoreCopies(d)
         \/ ScoringFails(d) \/ KeepForReview(d)
  PROVE  StudioIInv'
<1> USE StudioAssumption, FaultsAssumption DEF StudioAssumption, FaultsAssumption, Goto, Indexers
<1>1. /\ TypeOK /\ PublicationsAreRuns /\ ScoresAreRatings
      /\ ReadIsCurrent /\ StaleIsReplaced /\ PublishedWasRated
  BY DEF StudioIInv
<1>2. UNCHANGED <<productStatus, text, vector, seen, shown, rival, crossed, faults>>
  BY DEF GenerateProductCopy, GenerateVariants, ScoreCopies, ScoringFails, KeepForReview
<1>3. /\ at[d] \in {"idle", "draft", "rate", "publish"}
      /\ \E p \in {"idle", "draft", "rate", "publish"} : at' = [at EXCEPT ![d] = p]
  BY DEF GenerateProductCopy, GenerateVariants, ScoreCopies, ScoringFails, KeepForReview
<1>4. ReadIsCurrent' /\ StaleIsReplaced'
  <2>1. \A i \in Indexers : at[i] \in {"read", "store"} <=> at'[i] \in {"read", "store"}
    BY <1>1, <1>3 DEF TypeOK
  <2>2. \A i \in Indexers : at'[i] = "store" => at[i] = "store"
    BY <1>1, <1>3 DEF TypeOK
  <2> HIDE DEF Indexers
  <2>3. ReadIsCurrent'
    BY <1>1, <1>2, <2>2 DEF ReadIsCurrent
  <2>4. StaleIsReplaced'
    BY <1>1, <1>2, <2>1 DEF StaleIsReplaced, Unindexed
  <2> QED BY <2>3, <2>4
<1>5. productStatus # "none"
  BY <1>1 DEF TypeOK, GenerateProductCopy, GenerateVariants, ScoreCopies, ScoringFails,
     KeepForReview
<1>6. at' \in [Indexers -> Places]
  BY <1>1, <1>3 DEF TypeOK, Places
<1>7. CASE GenerateProductCopy(d)
  <2>1. TypeOK'
    BY <1>1, <1>2, <1>5, <1>6, <1>7 DEF TypeOK, GenerateProductCopy, Unindexed
  <2>2. PublicationsAreRuns'
    <3>1. Drafting' = Drafting \cup {d} /\ d \notin Drafting
      BY <1>1, <1>7 DEF Drafting, GenerateProductCopy, TypeOK
    <3>2. IsFiniteSet(Drafting') /\ Cardinality(Drafting') = Cardinality(Drafting) + 1
      BY <1>1, <3>1, FS_AddElement DEF PublicationsAreRuns
    <3>3. Cardinality(Drafting) \in Nat
      BY <1>1, FS_CardinalityType DEF PublicationsAreRuns
    <3> QED BY <1>1, <1>2, <1>7, <3>2, <3>3 DEF PublicationsAreRuns, GenerateProductCopy, TypeOK
  <2>3. ScoresAreRatings'
    BY <1>1, <1>7 DEF ScoresAreRatings, GenerateProductCopy, TypeOK
  <2>4. PublishedWasRated'
    BY <1>1, <1>2, <2>1 DEF PublishedWasRated
  <2> QED BY <1>4, <2>1, <2>2, <2>3, <2>4 DEF StudioIInv
<1>8. CASE GenerateVariants(d)
  <2>1. PICK answered \in SUBSET Tones :
          /\ drafts' = [drafts EXCEPT ![d] = answered]
          /\ at' = [at EXCEPT ![d] = IF answered = {} THEN "idle" ELSE "rate"]
    BY <1>8 DEF GenerateVariants
  <2>2. TypeOK'
    BY <1>1, <1>2, <1>5, <1>6, <1>8, <2>1 DEF TypeOK, GenerateVariants, Unindexed
  <2>3. PublicationsAreRuns'
    <3>1. Drafting' \in {Drafting, Drafting \ {d}}
      BY <1>1, <1>8, <2>1 DEF Drafting, GenerateVariants, TypeOK
    <3> QED BY <1>8, <3>1, DraftingStep DEF GenerateVariants
  <2>4. ScoresAreRatings'
    BY <1>1, <1>8, <2>1 DEF ScoresAreRatings, GenerateVariants, TypeOK
  <2>5. PublishedWasRated'
    BY <1>1, <1>2, <2>2 DEF PublishedWasRated
  <2> QED BY <1>4, <2>2, <2>3, <2>4, <2>5 DEF StudioIInv
<1>9. CASE ScoreCopies(d) \/ ScoringFails(d)
  <2>1. PICK given \in [Tones -> Scores] :
          /\ score' = [score EXCEPT ![d] = given]
          /\ rating' = [rating EXCEPT ![d] = given]
    <3>1. Neutral \in Scores
      BY DEF Scores
    <3>2. CASE ScoringFails(d)
      BY <3>1, <3>2 DEF ScoringFails, Unrated
    <3>3. CASE ScoreCopies(d)
      <4>0. PICK rated \in SUBSET (1..Cardinality(Tones)) :
              \E answer \in [rated -> Scores] :
                /\ score' = [score EXCEPT ![d] =
                     [t \in Tones |-> IF t \in drafts[d] /\ Variant(drafts[d], t) \in rated
                                      THEN answer[Variant(drafts[d], t)] ELSE Neutral]]
                /\ rating' = [rating EXCEPT ![d] =
                     [t \in Tones |-> IF t \in drafts[d] /\ NumberIn(drafts[d], t) \in rated
                                      THEN answer[NumberIn(drafts[d], t)] ELSE Neutral]]
        BY <3>3 DEF ScoreCopies
      <4>1. PICK answer \in [rated -> Scores] :
              /\ score' = [score EXCEPT ![d] =
                   [t \in Tones |-> IF t \in drafts[d] /\ Variant(drafts[d], t) \in rated
                                    THEN answer[Variant(drafts[d], t)] ELSE Neutral]]
              /\ rating' = [rating EXCEPT ![d] =
                   [t \in Tones |-> IF t \in drafts[d] /\ NumberIn(drafts[d], t) \in rated
                                    THEN answer[NumberIn(drafts[d], t)] ELSE Neutral]]
        BY <4>0
      <4>2. \A t : Variant(drafts[d], t) = NumberIn(drafts[d], t)
        BY DEF Variant, NumberIn
      <4> DEFINE given == [t \in Tones |-> IF t \in drafts[d] /\ Variant(drafts[d], t) \in rated
                                    THEN answer[Variant(drafts[d], t)] ELSE Neutral]
      <4>3. given \in [Tones -> Scores]
        BY <3>1
      <4>4. given = [t \in Tones |-> IF t \in drafts[d] /\ NumberIn(drafts[d], t) \in rated
                                    THEN answer[NumberIn(drafts[d], t)] ELSE Neutral]
        BY <4>2
      <4> QED BY <4>1, <4>3, <4>4
    <3> QED BY <1>9, <3>2, <3>3
  <2>2. /\ at[d] = "rate" /\ at' = [at EXCEPT ![d] = "publish"]
        /\ UNCHANGED <<drafts, runs>>
    BY <1>9 DEF ScoreCopies, ScoringFails
  <2>3. TypeOK'
    BY <1>1, <1>2, <1>5, <1>6, <2>1, <2>2 DEF TypeOK, Unindexed
  <2>4. PublicationsAreRuns'
    <3>1. Drafting' = Drafting
      BY <1>1, <2>2 DEF Drafting, TypeOK
    <3> QED BY <1>2, <2>2, <3>1, DraftingStep
  <2>5. ScoresAreRatings'
    BY <1>1, <2>1, <2>2 DEF ScoresAreRatings, TypeOK
  <2>6. PublishedWasRated'
    BY <1>1, <1>2, <2>3 DEF PublishedWasRated
  <2> QED BY <1>4, <2>3, <2>4, <2>5, <2>6 DEF StudioIInv
<1>10. CASE KeepForReview(d)
  <2>1. TypeOK'
    BY <1>1, <1>2, <1>5, <1>6, <1>10 DEF TypeOK, KeepForReview, Unindexed
  <2>2. PublicationsAreRuns'
    <3>1. Drafting' = Drafting \ {d}
      BY <1>1, <1>10 DEF Drafting, KeepForReview, TypeOK
    <3> QED BY <1>10, <3>1, DraftingStep DEF KeepForReview
  <2>3. ScoresAreRatings'
    BY <1>1, <1>10 DEF ScoresAreRatings, KeepForReview, TypeOK
  <2>4. PublishedWasRated'
    BY <1>1, <1>2, <2>1 DEF PublishedWasRated
  <2> QED BY <1>4, <2>1, <2>2, <2>3, <2>4 DEF StudioIInv
<1> QED BY <1>7, <1>8, <1>9, <1>10

(* autoPublish: a text of a run of its own, rated as its desk says. *)
LEMMA AutoPublishKeeps ==
  ASSUME StudioIInv, NEW d \in Desks, AutoPublish(d)
  PROVE  StudioIInv'
<1> USE StudioAssumption, FaultsAssumption DEF StudioAssumption, FaultsAssumption, Goto, Indexers
<1>1. /\ TypeOK /\ PublicationsAreRuns /\ ScoresAreRatings
      /\ ReadIsCurrent /\ StaleIsReplaced /\ PublishedWasRated
  BY DEF StudioIInv
<1>2. /\ at[d] = "publish" /\ at' = [at EXCEPT ![d] = "read"]
      /\ text' = text + 1
      /\ UNCHANGED <<productStatus, vector, drafts, score, seen, runs, rating, faults>>
  BY DEF AutoPublish, AfterPublish
<1>3. PublicationsAreRuns' /\ text < runs
  <2>1. Drafting' = Drafting \ {d} /\ d \in Drafting
    BY <1>1, <1>2 DEF Drafting, TypeOK
  <2>2. IsFiniteSet(Drafting') /\ Cardinality(Drafting') = Cardinality(Drafting) - 1
    BY <1>1, <2>1, FS_RemoveElement DEF PublicationsAreRuns
  <2>3. Cardinality(Drafting) \in Nat /\ Cardinality(Drafting') \in Nat
    BY <1>1, <2>2, FS_CardinalityType DEF PublicationsAreRuns
  <2> QED BY <1>1, <1>2, <2>2, <2>3 DEF PublicationsAreRuns, TypeOK
<1>4. shown' \in Scores /\ rival' \in Scores /\ shown' >= Threshold /\ shown' >= rival'
  <2> DEFINE top == CHOOSE t \in drafts[d] : \A u \in drafts[d] : rating[d][t] >= rating[d][u]
  <2>1. /\ Best(d) \in drafts[d] /\ score[d] = rating[d]
        /\ \A u \in drafts[d] : score[d][u] <= score[d][Best(d)] /\ score[d][u] \in Scores
    BY <1>1, <1>2, BestIsBest DEF ScoresAreRatings
  <2>2. top \in drafts[d]
    BY <2>1 DEF Scores
  <2>3. shown' = score[d][Best(d)] /\ rival' = score[d][top] /\ score[d][Best(d)] >= Threshold
    BY <2>1 DEF AutoPublish
  <2> HIDE DEF top
  <2> QED BY <2>1, <2>2, <2>3 DEF Scores
<1>5. crossed' \in BOOLEAN
  BY Zenon DEF AutoPublish
<1>6. TypeOK'
  BY <1>1, <1>2, <1>3, <1>4, <1>5 DEF TypeOK, Places, Unindexed
<1>7. ScoresAreRatings'
  BY <1>1, <1>2 DEF ScoresAreRatings, TypeOK
<1>8. ReadIsCurrent'
  <2>1. ~ crossed' => ~ crossed /\ \A i \in Indexers \ {d} : at[i] # "store"
    BY DEF AutoPublish
  <2>2. \A i \in Indexers : seen[i] \in Nat /\ text \in Nat
    BY <1>1 DEF TypeOK
  <2> QED BY <1>1, <1>2, <2>1, <2>2 DEF ReadIsCurrent, TypeOK
<1>9. StaleIsReplaced'
  BY <1>1, <1>2 DEF StaleIsReplaced, TypeOK
<1>10. PublishedWasRated'
  BY <1>4, <1>6 DEF PublishedWasRated
<1> QED BY <1>3, <1>6, <1>7, <1>8, <1>9, <1>10 DEF StudioIInv

(* Reading the text, storing its vector, and a request that fails. *)
LEMMA IndexKeeps ==
  ASSUME StudioIInv, NEW i \in Indexers, Index(i)
  PROVE  StudioIInv'
<1> USE StudioAssumption, FaultsAssumption DEF StudioAssumption, FaultsAssumption, Goto, Fault
<1>1. /\ TypeOK /\ PublicationsAreRuns /\ ScoresAreRatings
      /\ ReadIsCurrent /\ StaleIsReplaced /\ PublishedWasRated
  BY DEF StudioIInv
<1>2. UNCHANGED <<productStatus, text, drafts, score, runs, rating, shown, rival, crossed>>
  BY DEF Index, ReadProduct, StoreEmbedding, RequestFails
<1>3. PICK p \in {"idle", "store"} : at' = [at EXCEPT ![i] = p]
  BY DEF Index, ReadProduct, StoreEmbedding, RequestFails
<1>4. PublicationsAreRuns'
  <2>1. Drafting' \in {Drafting, Drafting \ {i}}
    BY <1>1, <1>3 DEF Drafting, TypeOK
  <2>2. CASE i \in Desks
    BY <1>2, <2>1, <2>2, DraftingStep
  <2>3. CASE i \notin Desks
    <3>1. Drafting' = Drafting
      BY <2>1, <2>3 DEF Drafting
    <3> QED BY <1>1, <1>2, <3>1 DEF PublicationsAreRuns
  <2> QED BY <2>2, <2>3
<1>5. ScoresAreRatings'
  BY <1>1, <1>2, <1>3 DEF ScoresAreRatings, TypeOK, Indexers
<1>6. productStatus # "none"
  BY <1>1 DEF TypeOK, Index, ReadProduct, StoreEmbedding, RequestFails
<1>7. at' \in [Indexers -> Places]
  BY <1>1, <1>3 DEF TypeOK, Places
<1>8. CASE ReadProduct(i)
  <2>1. TypeOK'
    BY <1>1, <1>2, <1>6, <1>7, <1>8 DEF TypeOK, ReadProduct, Unindexed
  <2>2. ReadIsCurrent' /\ StaleIsReplaced'
    BY <1>1, <1>8 DEF ReadProduct, ReadIsCurrent, StaleIsReplaced, TypeOK, Unindexed
  <2> QED BY <1>1, <1>2, <1>4, <1>5, <2>1, <2>2 DEF StudioIInv, PublishedWasRated
<1>9. CASE StoreEmbedding(i)
  <2>1. TypeOK'
    BY <1>1, <1>2, <1>6, <1>7, <1>9 DEF TypeOK, StoreEmbedding, Unindexed, ReadIsCurrent
  <2>2. ReadIsCurrent' /\ StaleIsReplaced'
    BY <1>1, <1>9 DEF StoreEmbedding, ReadIsCurrent, StaleIsReplaced, TypeOK, Unindexed
  <2> QED BY <1>1, <1>2, <1>4, <1>5, <2>1, <2>2 DEF StudioIInv, PublishedWasRated
<1>10. CASE RequestFails(i)
  <2>1. TypeOK'
    BY <1>1, <1>2, <1>6, <1>7, <1>10 DEF TypeOK, RequestFails, Unindexed
  <2>2. ReadIsCurrent' /\ StaleIsReplaced'
    BY <1>1, <1>10 DEF RequestFails, ReadIsCurrent, StaleIsReplaced, TypeOK, Unindexed
  <2> QED BY <1>1, <1>2, <1>4, <1>5, <2>1, <2>2 DEF StudioIInv, PublishedWasRated
<1> QED BY <1>8, <1>9, <1>10 DEF Index

(* The product itself, and the listing of the catalogue. *)
LEMMA CatalogueKeeps ==
  ASSUME StudioIInv, CreateProduct \/ PublishProduct \/ (\E c \in Catalogues : IndexAllProducts(c))
  PROVE  StudioIInv'
<1> USE StudioAssumption DEF StudioAssumption, Goto
<1>1. /\ TypeOK /\ PublicationsAreRuns /\ ScoresAreRatings
      /\ ReadIsCurrent /\ StaleIsReplaced /\ PublishedWasRated
  BY DEF StudioIInv
<1>2. UNCHANGED <<text, vector, drafts, score, seen, runs, rating, shown, rival, crossed, faults>>
  BY DEF CreateProduct, PublishProduct, IndexAllProducts
<1>3. CASE CreateProduct \/ PublishProduct
  <2>1. TypeOK'
    BY <1>1, <1>3 DEF CreateProduct, PublishProduct, TypeOK, Unindexed
  <2>2. UNCHANGED at
    BY <1>3 DEF CreateProduct, PublishProduct
  <2> QED BY <1>1, <1>2, <2>1, <2>2 DEF StudioIInv, PublicationsAreRuns, Drafting, ScoresAreRatings,
        ReadIsCurrent, StaleIsReplaced, Unindexed, PublishedWasRated
<1>4. ASSUME NEW c \in Catalogues, IndexAllProducts(c) PROVE StudioIInv'
  <2>1. c \in Indexers /\ c \notin Desks
    BY DEF Indexers
  <2>2. /\ productStatus = "active" /\ UNCHANGED productStatus
        /\ at[c] = "idle" /\ at' = [at EXCEPT ![c] = "read"]
    BY <1>4 DEF IndexAllProducts
  <2>3. TypeOK'
    BY <1>1, <1>2, <2>1, <2>2 DEF TypeOK, Places, Unindexed
  <2>4. Drafting' = Drafting /\ ScoresAreRatings'
    BY <1>1, <1>2, <2>1, <2>2 DEF Drafting, ScoresAreRatings, TypeOK, Indexers
  <2>5. ReadIsCurrent' /\ StaleIsReplaced'
    BY <1>1, <1>2, <2>1, <2>2 DEF ReadIsCurrent, StaleIsReplaced, TypeOK, Unindexed
  <2> QED BY <1>1, <1>2, <2>3, <2>4, <2>5 DEF StudioIInv, PublicationsAreRuns, PublishedWasRated
<1> QED BY <1>3, <1>4

(* Every step keeps the inductive invariant. *)
LEMMA StudioNextIInv == StudioIInv /\ [Next]_vars => StudioIInv'
<1> SUFFICES ASSUME StudioIInv, [Next]_vars PROVE StudioIInv'
  OBVIOUS
<1>1. CASE \E d \in Desks : Run(d)
  BY <1>1, RunKeeps, AutoPublishKeeps DEF Run
<1>2. CASE \E i \in Indexers : Index(i)
  BY <1>2, IndexKeeps
<1>3. CASE UNCHANGED vars
  BY <1>3 DEF vars, StudioIInv, TypeOK, PublicationsAreRuns, Drafting, ScoresAreRatings,
     ReadIsCurrent, StaleIsReplaced, Unindexed, PublishedWasRated
<1> QED BY <1>1, <1>2, <1>3, CatalogueKeeps DEF Next

(* The inductive invariant holds in every reachable state.                 *)
THEOREM StudioIsInductive == Spec => []StudioIInv
BY StudioInitIInv, StudioNextIInv, PTL DEF Spec

(* The text a run published had been rated at least at the threshold, and  *)
(* no lower than any other draft of its run.                               *)
THEOREM PublishedTextsWereRated == Spec => []PublishedWasRated
<1>1. StudioIInv => PublishedWasRated
  BY DEF StudioIInv
<1> QED BY <1>1, StudioIsInductive, PTL

(* At rest the stored vector is of the current text, unless a call failed  *)
(* or requests crossed.                                                    *)
THEOREM VectorsAreCurrent == Spec => []VectorIsCurrent
<1>1. StudioIInv => VectorIsCurrent
  BY DEF StudioIInv, StaleIsReplaced, VectorIsCurrent
<1> QED BY <1>1, StudioIsInductive, PTL

----------------------------------------------------------------------------
(***************************************************************************)
(* The monthly budget.  The holder of the lock is the only caller that adds *)
(* up the log, so each other caller writes at most one row meanwhile; that *)
(* row and the call admitted before it are the two by which a month may    *)
(* exceed the budget.                                                      *)
(***************************************************************************)
InFlight == Cardinality({c \in Calls : at[c] \in {"post", "log"}})
PastGate == Cardinality({c \in Calls : at[c] \in {"gate", "post", "log"}})
Busy     == Cardinality({c \in Calls : at[c] \in {"read", "store", "gate", "post", "log"}})

MostRows == Limit + 2 * (Cardinality(Calls) - 1) + faults

(* Nobody has written for a month to come. *)
FutureIsEmpty == \A m \in Months : m > dbMonth => logged[m] = 0

UnloggedAreFaults == unlogged <= faults

(* The rows of the month, with those on their way, stay in their range. *)
RowsAreFew == logged[dbMonth] + InFlight <= MaxRows + Cardinality(Calls)

(* Since the holder read the total every other caller wrote one row at     *)
(* most: it is idle then, and waits at the lock.                           *)
TotalIsRecent ==
  (\E c \in Calls : at[c] = "store") =>
    /\ sum <= logged[sumMonth]
    /\ logged[dbMonth] + Busy <= sum + Cardinality(Calls)

(* What the counter lacks was charged while a total was being loaded. *)
CounterIsNotBehind ==
  period # 0 => logged[dbMonth] + Logging <= cost + Cardinality(Calls) - 1

CounterIsNotAhead ==
  period # 0 => astray \/ cost <= logged[period] + Logging + unlogged

(* Rows and calls that will write one.  Before a total is loaded, a call   *)
(* that may be admitted got to the gate by a failing query.                *)
AdmissionsAreBounded ==
  logged[dbMonth] + (IF period = 0 THEN PastGate ELSE InFlight) <= MostRows

Budgeted ==
  /\ FutureIsEmpty
  /\ UnloggedAreFaults
  /\ RowsAreFew
  /\ TotalIsRecent
  /\ CounterIsNotBehind
  /\ CounterIsNotAhead
  /\ AdmissionsAreBounded
  /\ BudgetHolds

BudgetIInv == BudgetTypeOK /\ Budgeted

(* Callers are finitely many, so those at some places can be counted. *)
LEMMA CallersCounted ==
  ASSUME NEW f, NEW S
  PROVE  /\ IsFiniteSet({c \in Calls : f[c] \in S})
         /\ Cardinality({c \in Calls : f[c] \in S}) \in Nat
         /\ Cardinality({c \in Calls : f[c] \in S}) <= Cardinality(Calls)
<1>1. IsFiniteSet(Calls)
  BY BudgetAssumption DEF BudgetAssumption
<1> DEFINE T == {c \in Calls : f[c] \in S}
<1>2. T \in SUBSET Calls
  OBVIOUS
<1> HIDE DEF T
<1>3. IsFiniteSet(T) /\ Cardinality(T) <= Cardinality(Calls)
  BY <1>1, <1>2, FS_Subset
<1>4. Cardinality(T) \in Nat
  BY <1>3, FS_CardinalityType
<1> QED BY <1>3, <1>4 DEF T

(* There is a caller, and their number is a number. *)
LEMMA CallersExist == Cardinality(Calls) \in Nat \ {0}
<1>1. IsFiniteSet(Calls) /\ Calls # {}
  BY BudgetAssumption DEF BudgetAssumption
<1> QED BY <1>1, FS_CardinalityType, FS_EmptySet

(* A caller that moves counts where it goes and no longer where it was. *)
LEMMA CallerMoves ==
  ASSUME NEW f \in [Calls -> CallPlaces], NEW c \in Calls, NEW p, NEW g,
         g = [f EXCEPT ![c] = p], NEW S
  PROVE  Cardinality({d \in Calls : g[d] \in S})
           = Cardinality({d \in Calls : f[d] \in S})
               - (IF f[c] \in S THEN 1 ELSE 0) + (IF p \in S THEN 1 ELSE 0)
<1> DEFINE Before == {d \in Calls : f[d] \in S}
           After  == {d \in Calls : g[d] \in S}
<1>1. IsFiniteSet(Before) /\ Cardinality(Before) \in Nat
  BY CallersCounted
<1>2. c \in Before <=> f[c] \in S
  OBVIOUS
<1>3. CASE p \in S
  <2>1. After = Before \cup {c}
    BY <1>3
  <2> HIDE DEF Before, After
  <2>2. Cardinality(After) = IF c \in Before THEN Cardinality(Before) ELSE Cardinality(Before) + 1
    BY <1>1, <2>1, FS_AddElement
  <2>3. Cardinality(After) = Cardinality(Before)
               - (IF f[c] \in S THEN 1 ELSE 0) + (IF p \in S THEN 1 ELSE 0)
    BY <1>1, <1>2, <1>3, <2>2
  <2> QED BY <2>3 DEF Before, After
<1>4. CASE p \notin S
  <2>1. After = Before \ {c}
    BY <1>4
  <2> HIDE DEF Before, After
  <2>2. Cardinality(After) = IF c \in Before THEN Cardinality(Before) - 1 ELSE Cardinality(Before)
    BY <1>1, <2>1, FS_RemoveElement
  <2>3. Cardinality(After) = Cardinality(Before)
               - (IF f[c] \in S THEN 1 ELSE 0) + (IF p \in S THEN 1 ELSE 0)
    BY <1>1, <1>2, <1>4, <2>2
  <2> QED BY <2>3 DEF Before, After
<1> QED BY <1>3, <1>4

(* The counts the invariant is about, in a state. *)
LEMMA CountsAreNumbers ==
  /\ Logging \in Nat /\ Logging <= Cardinality(Calls)
  /\ InFlight \in Nat /\ InFlight <= Cardinality(Calls)
  /\ PastGate \in Nat /\ PastGate <= Cardinality(Calls)
  /\ Busy \in Nat /\ Busy <= Cardinality(Calls)
<1>1. {c \in Calls : at[c] = "log"} = {c \in Calls : at[c] \in {"log"}}
  OBVIOUS
<1>2. Logging \in Nat /\ Logging <= Cardinality(Calls)
  BY <1>1, CallersCounted DEF Logging
<1> QED BY <1>2, CallersCounted DEF InFlight, PastGate, Busy

(* And in the next one.                                                    *)
LEMMA CountsAreNumbersNext ==
  /\ Logging' \in Nat /\ Logging' <= Cardinality(Calls)
  /\ InFlight' \in Nat /\ InFlight' <= Cardinality(Calls)
  /\ PastGate' \in Nat /\ PastGate' <= Cardinality(Calls)
  /\ Busy' \in Nat /\ Busy' <= Cardinality(Calls)
<1>1. {c \in Calls : at'[c] = "log"} = {c \in Calls : at'[c] \in {"log"}}
  OBVIOUS
<1>2. Logging' \in Nat /\ Logging' <= Cardinality(Calls)
  BY <1>1, CallersCounted DEF Logging
<1> QED BY <1>2, CallersCounted DEF InFlight, PastGate, Busy

(* How they change when a caller moves. *)
CountsFollow(c) ==
  LET Left(places) == IF at[c] \in places THEN 1 ELSE 0
      Come(places) == IF at'[c] \in places THEN 1 ELSE 0
  IN  /\ Logging'  = Logging  - Left({"log"}) + Come({"log"})
      /\ InFlight' = InFlight - Left({"post", "log"}) + Come({"post", "log"})
      /\ PastGate' = PastGate - Left({"gate", "post", "log"}) + Come({"gate", "post", "log"})
      /\ Busy' = Busy - Left({"read", "store", "gate", "post", "log"})
                      + Come({"read", "store", "gate", "post", "log"})

LEMMA CountsMove ==
  ASSUME BudgetTypeOK, NEW c \in Calls, at' = [at EXCEPT ![c] = at'[c]]
  PROVE  CountsFollow(c)
<1> PICK next, p : next = at' /\ p = at'[c]
  OBVIOUS
<1>1. at \in [Calls -> CallPlaces] /\ next = [at EXCEPT ![c] = p]
  BY DEF BudgetTypeOK
<1>2. Logging' = Logging - (IF at[c] = "log" THEN 1 ELSE 0) + (IF p = "log" THEN 1 ELSE 0)
  <2> DEFINE S == {"log"}
  <2>1. Logging = Cardinality({d \in Calls : at[d] \in S})
    <3>1. {d \in Calls : at[d] = "log"} = {d \in Calls : at[d] \in S}
      OBVIOUS
    <3> QED BY <3>1 DEF Logging
  <2>2. Logging' = Cardinality({d \in Calls : next[d] \in S})
    <3>1. {d \in Calls : at'[d] = "log"} = {d \in Calls : next[d] \in S}
      OBVIOUS
    <3> QED BY <3>1 DEF Logging
  <2>3. (at[c] \in S <=> at[c] = "log") /\ (p \in S <=> p = "log")
    OBVIOUS
  <2> HIDE DEF S
  <2>4. Logging' = Logging - (IF at[c] \in S THEN 1 ELSE 0) + (IF p \in S THEN 1 ELSE 0)
    BY <1>1, <2>1, <2>2, CallerMoves
  <2> QED BY <2>3, <2>4
<1>3. InFlight' = InFlight - (IF at[c] \in {"post", "log"} THEN 1 ELSE 0)
                   + (IF p \in {"post", "log"} THEN 1 ELSE 0)
  <2> DEFINE S == {"post", "log"}
  <2>1. InFlight = Cardinality({d \in Calls : at[d] \in S})
    BY DEF InFlight
  <2>2. InFlight' = Cardinality({d \in Calls : next[d] \in S})
    BY DEF InFlight
  <2> HIDE DEF S
  <2>3. InFlight' = InFlight - (IF at[c] \in S THEN 1 ELSE 0) + (IF p \in S THEN 1 ELSE 0)
    BY <1>1, <2>1, <2>2, CallerMoves
  <2> QED BY <2>3 DEF S
<1>4. PastGate' = PastGate - (IF at[c] \in {"gate", "post", "log"} THEN 1 ELSE 0)
                   + (IF p \in {"gate", "post", "log"} THEN 1 ELSE 0)
  <2> DEFINE S == {"gate", "post", "log"}
  <2>1. PastGate = Cardinality({d \in Calls : at[d] \in S})
    BY DEF PastGate
  <2>2. PastGate' = Cardinality({d \in Calls : next[d] \in S})
    BY DEF PastGate
  <2> HIDE DEF S
  <2>3. PastGate' = PastGate - (IF at[c] \in S THEN 1 ELSE 0) + (IF p \in S THEN 1 ELSE 0)
    BY <1>1, <2>1, <2>2, CallerMoves
  <2> QED BY <2>3 DEF S
<1>5. Busy' = Busy - (IF at[c] \in {"read", "store", "gate", "post", "log"} THEN 1 ELSE 0)
                   + (IF p \in {"read", "store", "gate", "post", "log"} THEN 1 ELSE 0)
  <2> DEFINE S == {"read", "store", "gate", "post", "log"}
  <2>1. Busy = Cardinality({d \in Calls : at[d] \in S})
    BY DEF Busy
  <2>2. Busy' = Cardinality({d \in Calls : next[d] \in S})
    BY DEF Busy
  <2> HIDE DEF S
  <2>3. Busy' = Busy - (IF at[c] \in S THEN 1 ELSE 0) + (IF p \in S THEN 1 ELSE 0)
    BY <1>1, <2>1, <2>2, CallerMoves
  <2> QED BY <2>3 DEF S
<1> QED BY <1>2, <1>3, <1>4, <1>5 DEF CountsFollow

(* What the invariant says of the numbers it compares. *)
LEMMA BudgetFacts ==
  ASSUME BudgetIInv
  PROVE  /\ BudgetTypeOK
         /\ logged \in [Months -> Nat] /\ logged[dbMonth] \in Nat /\ logged[sumMonth] \in Nat
         /\ dbMonth \in Months /\ sumMonth \in Months /\ sum \in Nat /\ cost \in Nat
         /\ faults \in Nat /\ unlogged \in Nat /\ unlogged <= faults
         /\ logged[dbMonth] + InFlight <= MaxRows + Cardinality(Calls)
         /\ period # 0 => logged[dbMonth] + Logging <= cost + Cardinality(Calls) - 1
         /\ period # 0 => astray \/ cost <= logged[period] + Logging + unlogged
         /\ period # 0 => logged[dbMonth] + InFlight <= MostRows
         /\ period = 0 => logged[dbMonth] + PastGate <= MostRows
         /\ \A m \in Months : logged[m] <= MostRows
         /\ \A m \in Months : m > dbMonth => logged[m] = 0
<1> USE BudgetAssumption, FaultsAssumption DEF BudgetAssumption, FaultsAssumption
<1>1. BudgetTypeOK /\ Budgeted
  BY DEF BudgetIInv
<1>2. /\ logged \in [Months -> Nat] /\ dbMonth \in Months /\ sumMonth \in Months /\ sum \in Nat
      /\ cost \in Nat /\ faults \in Nat /\ unlogged \in Nat
  BY <1>1, CallersExist DEF BudgetTypeOK
<1>3. /\ unlogged <= faults
      /\ logged[dbMonth] + InFlight <= MaxRows + Cardinality(Calls)
      /\ period # 0 => logged[dbMonth] + Logging <= cost + Cardinality(Calls) - 1
      /\ period # 0 => astray \/ cost <= logged[period] + Logging + unlogged
  BY <1>1 DEF Budgeted, UnloggedAreFaults, RowsAreFew, CounterIsNotBehind, CounterIsNotAhead
<1>4. /\ period # 0 => logged[dbMonth] + InFlight <= MostRows
      /\ period = 0 => logged[dbMonth] + PastGate <= MostRows
  BY <1>1 DEF Budgeted, AdmissionsAreBounded
<1>5. /\ \A m \in Months : logged[m] <= MostRows
      /\ \A m \in Months : m > dbMonth => logged[m] = 0
  BY <1>1 DEF Budgeted, BudgetHolds, MostRows, FutureIsEmpty
<1> QED BY <1>1, <1>2, <1>3, <1>4, <1>5

(* The bound grows with what failed, and leaves room for every caller. *)
LEMMA MostRowsGrow ==
  ASSUME faults \in Nat, faults' \in Nat, faults <= faults'
  PROVE  /\ MostRows \in Nat /\ MostRows' \in Nat /\ MostRows <= MostRows'
         /\ Cardinality(Calls) <= MostRows
         /\ MostRows' - faults' = MostRows - faults
         /\ Limit - 1 + Cardinality(Calls) - 1 + Cardinality(Calls) <= MostRows
BY CallersExist, BudgetAssumption DEF BudgetAssumption, MostRows

(* A step that touches neither the totals nor the rows, nor adds a call    *)
(* that will write one.                                                    *)
LEMMA QuietKeeps ==
  ASSUME BudgetIInv, BudgetTypeOK',
         UNCHANGED <<sum, sumMonth, cost, period, logged, dbMonth, astray, unlogged>>,
         faults <= faults', Logging' = Logging, InFlight' <= InFlight,
         period # 0 \/ PastGate' + faults <= PastGate + faults',
         (\E c \in Calls : at'[c] = "store") =>
           Busy' <= Busy /\ \E c \in Calls : at[c] = "store"
  PROVE  BudgetIInv'
<1> USE CountsAreNumbers, CountsAreNumbersNext, CallersExist, BudgetAssumption, FaultsAssumption
      DEF BudgetAssumption, FaultsAssumption, MostRows
<1>1. /\ FutureIsEmpty /\ UnloggedAreFaults /\ RowsAreFew /\ TotalIsRecent /\ CounterIsNotBehind
      /\ CounterIsNotAhead /\ AdmissionsAreBounded /\ BudgetHolds /\ BudgetTypeOK
  BY DEF BudgetIInv, Budgeted
<1>2. /\ logged \in [Months -> Nat] /\ dbMonth \in Months /\ sumMonth \in Months /\ sum \in Nat
      /\ cost \in Nat /\ period \in Months \cup {0} /\ faults \in Nat /\ faults' \in Nat
      /\ unlogged \in Nat
  BY <1>1 DEF BudgetTypeOK
<1>3. logged[dbMonth] \in Nat /\ logged[sumMonth] \in Nat
  BY <1>2
<1>4. FutureIsEmpty' /\ UnloggedAreFaults'
  BY <1>1, <1>2 DEF FutureIsEmpty, UnloggedAreFaults
<1>5. RowsAreFew'
  BY <1>1, <1>2, <1>3 DEF RowsAreFew, BudgetTypeOK
<1>6. TotalIsRecent'
  BY <1>1, <1>2, <1>3 DEF TotalIsRecent
<1>7. CounterIsNotBehind' /\ CounterIsNotAhead'
  BY <1>1 DEF CounterIsNotBehind, CounterIsNotAhead
<1>8. AdmissionsAreBounded'
  <2> DEFINE most == Limit + 2 * (Cardinality(Calls) - 1)
  <2>1. most \in Int
    OBVIOUS
  <2>2. MostRows = most + faults /\ MostRows' = most + faults'
    OBVIOUS
  <2> HIDE DEF most, MostRows
  <2>3. CASE period = 0
    <3>1. logged[dbMonth] + PastGate <= most + faults
      BY <1>1, <2>2, <2>3 DEF AdmissionsAreBounded
    <3>2. PastGate' + faults <= PastGate + faults'
      BY <2>3
    <3>3. \A rows, few, many, f, g \in Nat :
            rows + many <= most + f /\ few + f <= many + g => rows + few <= most + g
      BY <2>1
    <3>4. PastGate \in Nat /\ PastGate' \in Nat
      OBVIOUS
    <3>5. logged[dbMonth] + PastGate' <= most + faults'
      BY <1>2, <1>3, <3>1, <3>2, <3>3, <3>4
    <3> QED BY <2>2, <2>3, <3>5 DEF AdmissionsAreBounded
  <2>4. CASE period # 0
    <3>1. logged[dbMonth] + InFlight <= most + faults
      BY <1>1, <2>2, <2>4 DEF AdmissionsAreBounded
    <3>2. logged[dbMonth] + InFlight' <= most + faults'
      BY <1>2, <1>3, <2>1, <3>1
    <3> QED BY <2>2, <2>4, <3>2 DEF AdmissionsAreBounded
  <2> QED BY <2>3, <2>4
<1>9. BudgetHolds'
  BY <1>1, <1>2 DEF BudgetHolds
<1> QED BY <1>4, <1>5, <1>6, <1>7, <1>8, <1>9 DEF BudgetIInv, Budgeted

(* The steps of that kind. *)
LEMMA QuietSteps ==
  ASSUME BudgetIInv, NEW c \in Calls,
         \/ CheckBudget(c) \/ KnowMonth(c) \/ Lock(c) \/ ReadFails(c) \/ Return(c) \/ PostFails(c)
  PROVE  BudgetIInv'
<1> USE BudgetAssumption, FaultsAssumption DEF BudgetAssumption, FaultsAssumption, Goto, Fault
<1>1. BudgetTypeOK /\ faults \in Nat
  BY BudgetFacts
<1>2. /\ Logging \in Nat /\ InFlight \in Nat /\ PastGate \in Nat /\ Busy \in Nat
  BY CountsAreNumbers
<1>3. UNCHANGED <<sum, sumMonth, cost, period, logged, dbMonth, astray, unlogged>>
  BY DEF CheckBudget, KnowMonth, Lock, ReadFails, Return, PostFails
<1>4. CASE CheckBudget(c)
  <2>1. BudgetTypeOK'
    BY <1>1, <1>4 DEF CheckBudget, BudgetTypeOK, CallPlaces
  <2>2. at[c] = "idle" /\ at' = [at EXCEPT ![c] = "check"] /\ faults' = faults
    BY <1>4 DEF CheckBudget
  <2>6. at'[c] = "check" /\ CountsFollow(c)
    <3>1. at'[c] = "check" /\ at' = [at EXCEPT ![c] = at'[c]]
      BY <1>1, <2>2 DEF BudgetTypeOK
    <3> QED BY <1>1, <3>1, CountsMove
  <2>3. Logging' = Logging /\ InFlight' = InFlight /\ PastGate' = PastGate /\ Busy' = Busy
    BY <1>2, <2>2, <2>6 DEF CountsFollow
  <2>4. \A d \in Calls : at'[d] = "store" => at[d] = "store"
    BY <1>1, <2>2 DEF BudgetTypeOK
  <2> QED BY <1>1, <1>2, <1>3, <2>1, <2>2, <2>3, <2>4, QuietKeeps
<1>5. CASE KnowMonth(c)
  <2>1. BudgetTypeOK'
    BY <1>1, <1>5 DEF KnowMonth, BudgetTypeOK, CallPlaces
  <2>2. at[c] = "check" /\ at' = [at EXCEPT ![c] = "gate"] /\ faults' = faults
    BY <1>5 DEF KnowMonth
  <2>6. at'[c] = "gate" /\ CountsFollow(c)
    <3>1. at'[c] = "gate" /\ at' = [at EXCEPT ![c] = at'[c]]
      BY <1>1, <2>2 DEF BudgetTypeOK
    <3> QED BY <1>1, <3>1, CountsMove
  <2>3. Logging' = Logging /\ InFlight' = InFlight
    BY <1>2, <2>2, <2>6 DEF CountsFollow
  <2>4. period # 0
    BY <1>1, <1>5 DEF KnowMonth, BudgetTypeOK, Months
  <2>5. \A d \in Calls : at'[d] # "store"
    BY <1>1, <1>5, <2>2 DEF KnowMonth, BudgetTypeOK
  <2> QED BY <1>1, <1>2, <1>3, <2>1, <2>2, <2>3, <2>4, <2>5, QuietKeeps
<1>6. CASE Lock(c)
  <2>1. BudgetTypeOK'
    BY <1>1, <1>6 DEF Lock, BudgetTypeOK, CallPlaces
  <2>2. at[c] = "check" /\ at' = [at EXCEPT ![c] = "read"] /\ faults' = faults
    BY <1>6 DEF Lock
  <2>6. at'[c] = "read" /\ CountsFollow(c)
    <3>1. at'[c] = "read" /\ at' = [at EXCEPT ![c] = at'[c]]
      BY <1>1, <2>2 DEF BudgetTypeOK
    <3> QED BY <1>1, <3>1, CountsMove
  <2>3. Logging' = Logging /\ InFlight' = InFlight /\ PastGate' = PastGate
    BY <1>2, <2>2, <2>6 DEF CountsFollow
  <2>4. \A d \in Calls : at'[d] # "store"
    BY <1>1, <1>6, <2>2 DEF Lock, BudgetTypeOK
  <2> QED BY <1>1, <1>2, <1>3, <2>1, <2>2, <2>3, <2>4, QuietKeeps
<1>7. CASE ReadFails(c)
  <2>1. BudgetTypeOK'
    BY <1>1, <1>7 DEF ReadFails, BudgetTypeOK, CallPlaces
  <2>2. at[c] = "read" /\ at' = [at EXCEPT ![c] = "gate"] /\ faults' = faults + 1
    BY <1>7 DEF ReadFails
  <2>6. at'[c] = "gate" /\ CountsFollow(c)
    <3>1. at'[c] = "gate" /\ at' = [at EXCEPT ![c] = at'[c]]
      BY <1>1, <2>2 DEF BudgetTypeOK
    <3> QED BY <1>1, <3>1, CountsMove
  <2>3. Logging' = Logging /\ InFlight' = InFlight /\ PastGate' = PastGate + 1
    BY <1>2, <2>2, <2>6 DEF CountsFollow
  <2>4. \A d \in Calls : at'[d] # "store"
    BY <1>1, <1>7, <2>2 DEF ReadFails, BudgetTypeOK
  <2>5. faults <= faults' /\ PastGate' + faults <= PastGate + faults'
    BY <1>1, <1>2, <2>2, <2>3
  <2> QED BY <1>1, <1>2, <1>3, <2>1, <2>3, <2>4, <2>5, QuietKeeps
<1>8. CASE Return(c)
  <2>1. BudgetTypeOK'
    BY <1>1, <1>8 DEF Return, BudgetTypeOK, CallPlaces
  <2>2. at[c] = "gate" /\ at' = [at EXCEPT ![c] = "idle"] /\ faults' = faults
    BY <1>8 DEF Return
  <2>6. at'[c] = "idle" /\ CountsFollow(c)
    <3>1. at'[c] = "idle" /\ at' = [at EXCEPT ![c] = at'[c]]
      BY <1>1, <2>2 DEF BudgetTypeOK
    <3> QED BY <1>1, <3>1, CountsMove
  <2>3. /\ Logging' = Logging /\ InFlight' = InFlight
        /\ PastGate' = PastGate - 1 /\ Busy' = Busy - 1
    BY <1>2, <2>2, <2>6 DEF CountsFollow
  <2>4. \A d \in Calls : at'[d] = "store" => at[d] = "store"
    BY <1>1, <2>2 DEF BudgetTypeOK
  <2> QED BY <1>1, <1>2, <1>3, <2>1, <2>2, <2>3, <2>4, QuietKeeps
<1>9. CASE PostFails(c)
  <2>1. BudgetTypeOK'
    BY <1>1, <1>9 DEF PostFails, BudgetTypeOK, CallPlaces
  <2>2. at[c] = "post" /\ at' = [at EXCEPT ![c] = "idle"] /\ faults' = faults
    BY <1>9 DEF PostFails
  <2>6. at'[c] = "idle" /\ CountsFollow(c)
    <3>1. at'[c] = "idle" /\ at' = [at EXCEPT ![c] = at'[c]]
      BY <1>1, <2>2 DEF BudgetTypeOK
    <3> QED BY <1>1, <3>1, CountsMove
  <2>3. /\ Logging' = Logging /\ InFlight' = InFlight - 1
        /\ PastGate' = PastGate - 1 /\ Busy' = Busy - 1
    BY <1>2, <2>2, <2>6 DEF CountsFollow
  <2>4. \A d \in Calls : at'[d] = "store" => at[d] = "store"
    BY <1>1, <2>2 DEF BudgetTypeOK
  <2> QED BY <1>1, <1>2, <1>3, <2>1, <2>2, <2>3, <2>4, QuietKeeps
<1> QED BY <1>4, <1>5, <1>6, <1>7, <1>8, <1>9

(* A call is admitted: the counter is below the limit, and the log not far *)
(* above the counter; without a total, the call is there by a fault.       *)
LEMMA AdmitKeeps ==
  ASSUME BudgetIInv, NEW c \in Calls, Admit(c)
  PROVE  BudgetIInv'
<1> DEFINE n == Cardinality(Calls)
<1>1. /\ at[c] = "gate" /\ at' = [at EXCEPT ![c] = "post"]
      /\ cost < Limit /\ logged[dbMonth] < MaxRows
      /\ UNCHANGED <<captured, holder, sum, cost, period, logged, month, dbMonth, sumMonth, astray,
                     unlogged, faults>>
  BY DEF Admit, Goto, WithinLimit
<1>2. BudgetTypeOK /\ Budgeted /\ faults \in Nat /\ faults' \in Nat
  BY <1>1, BudgetFacts DEF BudgetIInv
<1>0. at'[c] = "post" /\ CountsFollow(c)
  <2>1. at'[c] = "post" /\ at' = [at EXCEPT ![c] = at'[c]]
    BY <1>1, <1>2 DEF BudgetTypeOK
  <2> QED BY <1>2, <2>1, CountsMove
<1>3. /\ Logging' = Logging /\ InFlight' = InFlight + 1 /\ PastGate' = PastGate /\ Busy' = Busy
  BY <1>0, <1>1, CountsAreNumbers DEF CountsFollow
<1>4. /\ Logging \in Nat /\ InFlight' \in Nat /\ InFlight' <= n /\ n \in Nat \ {0}
      /\ Limit \in Nat \ {0} /\ MaxRows \in Nat
  BY CountsAreNumbers, CountsAreNumbersNext, CallersExist, BudgetAssumption DEF BudgetAssumption
<1>5. BudgetTypeOK'
  BY <1>1, <1>2 DEF BudgetTypeOK, CallPlaces
<1>6. logged[dbMonth] + InFlight' <= MaxRows + n
  BY <1>1, <1>4, BudgetFacts
<1>7. period # 0 => logged[dbMonth] + InFlight' <= MostRows
  <2> SUFFICES ASSUME period # 0 PROVE logged[dbMonth] + InFlight' <= MostRows
    OBVIOUS
  <2>1. logged[dbMonth] + Logging <= cost + n - 1 /\ logged[dbMonth] \in Nat /\ cost \in Nat
    BY BudgetFacts
  <2>2. logged[dbMonth] <= Limit - 1 + n - 1
    BY <1>1, <1>4, <2>1
  <2>3. Limit - 1 + n - 1 + n <= MostRows /\ MostRows \in Nat
    BY <1>1, <1>2, MostRowsGrow
  <2> QED BY <1>4, <2>1, <2>2, <2>3
<1>8. MostRows' = MostRows
  BY <1>1 DEF MostRows
<1>9. RowsAreFew' /\ AdmissionsAreBounded'
  BY <1>1, <1>2, <1>3, <1>6, <1>7, <1>8 DEF Budgeted, RowsAreFew, AdmissionsAreBounded
<1>10. TotalIsRecent'
  <2>1. \A d \in Calls : at'[d] = "store" => at[d] = "store"
    BY <1>1, <1>2 DEF BudgetTypeOK
  <2> QED BY <1>1, <1>2, <1>3, <2>1 DEF Budgeted, TotalIsRecent
<1>11. /\ FutureIsEmpty' /\ UnloggedAreFaults' /\ CounterIsNotBehind' /\ CounterIsNotAhead'
       /\ BudgetHolds'
  BY <1>1, <1>2, <1>3 DEF Budgeted, FutureIsEmpty, UnloggedAreFaults, CounterIsNotBehind,
     CounterIsNotAhead, BudgetHolds
<1> QED BY <1>5, <1>9, <1>10, <1>11 DEF BudgetIInv, Budgeted

(* The total is read: what is logged is what was read. *)
LEMMA ReadTotalKeeps ==
  ASSUME BudgetIInv, NEW c \in Calls, ReadTotal(c)
  PROVE  BudgetIInv'
<1>1. /\ at[c] = "read" /\ at' = [at EXCEPT ![c] = "store"]
      /\ sum' = logged[dbMonth] /\ sumMonth' = dbMonth
      /\ UNCHANGED <<captured, holder, cost, period, logged, month, dbMonth, astray, unlogged,
                     faults>>
  BY DEF ReadTotal, Goto
<1>2. BudgetTypeOK /\ Budgeted /\ logged[dbMonth] \in Nat
  BY BudgetFacts DEF BudgetIInv
<1>0. at'[c] = "store" /\ CountsFollow(c)
  <2>1. at'[c] = "store" /\ at' = [at EXCEPT ![c] = at'[c]]
    BY <1>1, <1>2 DEF BudgetTypeOK
  <2> QED BY <1>2, <2>1, CountsMove
<1>3. /\ Logging' = Logging /\ InFlight' = InFlight /\ PastGate' = PastGate
  BY <1>0, <1>1, CountsAreNumbers DEF CountsFollow
<1>4. BudgetTypeOK'
  BY <1>1, <1>2 DEF BudgetTypeOK, CallPlaces
<1>5. TotalIsRecent'
  BY <1>1, <1>2, CountsAreNumbersNext, CallersExist DEF TotalIsRecent
<1>6. /\ FutureIsEmpty' /\ UnloggedAreFaults' /\ RowsAreFew' /\ CounterIsNotBehind'
      /\ CounterIsNotAhead' /\ AdmissionsAreBounded' /\ BudgetHolds'
  BY <1>1, <1>2, <1>3 DEF Budgeted, FutureIsEmpty, UnloggedAreFaults, RowsAreFew,
     CounterIsNotBehind,
     CounterIsNotAhead, AdmissionsAreBounded, BudgetHolds, MostRows
<1> QED BY <1>4, <1>5, <1>6 DEF BudgetIInv, Budgeted

(* It is stored: the rows since, and those of charges it overwrites, are   *)
(* of other callers, one each.                                             *)
LEMMA StoreTotalKeeps ==
  ASSUME BudgetIInv, NEW c \in Calls, StoreTotal(c)
  PROVE  BudgetIInv'
<1> DEFINE n == Cardinality(Calls)
<1>1. /\ at[c] = "store" /\ at' = [at EXCEPT ![c] = "gate"]
      /\ cost' = sum /\ sum' = 0 /\ period' = captured[c] /\ holder' = None
      /\ UNCHANGED <<captured, logged, month, dbMonth, sumMonth, unlogged, faults>>
  BY DEF StoreTotal, Goto
<1>2. BudgetTypeOK /\ Budgeted /\ logged[dbMonth] \in Nat /\ logged[sumMonth] \in Nat
      /\ sum \in Nat /\ unlogged \in Nat
  BY BudgetFacts DEF BudgetIInv
<1>0. at'[c] = "gate" /\ CountsFollow(c)
  <2>1. at'[c] = "gate" /\ at' = [at EXCEPT ![c] = at'[c]]
    BY <1>1, <1>2 DEF BudgetTypeOK
  <2> QED BY <1>2, <2>1, CountsMove
<1>3. /\ Logging' = Logging /\ InFlight' = InFlight /\ PastGate' = PastGate + 1 /\ Busy' = Busy
  BY <1>0, <1>1, CountsAreNumbers DEF CountsFollow
<1>4. /\ Logging \in Nat /\ InFlight \in Nat /\ PastGate \in Nat /\ Busy \in Nat /\ n \in Nat \ {0}
  BY CountsAreNumbers, CallersExist
<1>5. sum <= logged[sumMonth] /\ logged[dbMonth] + Busy <= sum + n
  BY <1>1, <1>2 DEF Budgeted, TotalIsRecent
<1>6. astray' = (sumMonth # captured[c])
  BY DEF StoreTotal
<1>7. captured[c] \in Months /\ captured[c] # 0
  BY <1>2 DEF BudgetTypeOK, Months
<1>8. BudgetTypeOK'
  <2>1. astray' \in BOOLEAN
    BY <1>6, Zenon
  <2> QED BY <1>1, <1>2, <1>7, <2>1, BudgetAssumption DEF BudgetAssumption, BudgetTypeOK, CallPlaces
<1>9. Logging <= Busy - 1
  <2> DEFINE atLog  == {d \in Calls : at[d] = "log"}
             atWork == {d \in Calls : at[d] \in {"read", "store", "gate", "post", "log"}}
  <2>1. atLog \in SUBSET (atWork \ {c}) /\ c \in atWork
    BY <1>1
  <2>2. IsFiniteSet(atWork)
    BY CallersCounted
  <2>3. Cardinality(atLog) = Logging /\ Cardinality(atWork) = Busy
    BY DEF Logging, Busy
  <2> HIDE DEF atLog, atWork
  <2>4. IsFiniteSet(atWork \ {c}) /\ Cardinality(atWork \ {c}) = Busy - 1
    BY <2>1, <2>2, <2>3, FS_RemoveElement
  <2> QED BY <2>1, <2>3, <2>4, FS_Subset
<1>10. logged[dbMonth] + Logging <= sum + n - 1
  BY <1>2, <1>4, <1>5, <1>9
<1>11. CounterIsNotBehind'
  BY <1>1, <1>3, <1>10 DEF CounterIsNotBehind
<1>12. CounterIsNotAhead'
  <2>1. CASE sumMonth = captured[c]
    BY <1>1, <1>2, <1>3, <1>4, <1>5, <2>1 DEF CounterIsNotAhead
  <2>2. CASE sumMonth # captured[c]
    BY <1>6, <2>2 DEF CounterIsNotAhead
  <2> QED BY <2>1, <2>2
<1>13. AdmissionsAreBounded'
  <2>1. InFlight <= PastGate
    <3> DEFINE flying == {d \in Calls : at[d] \in {"post", "log"}}
               past   == {d \in Calls : at[d] \in {"gate", "post", "log"}}
    <3>1. flying \in SUBSET past
      OBVIOUS
    <3>2. IsFiniteSet(past) /\ Cardinality(flying) = InFlight /\ Cardinality(past) = PastGate
      BY CallersCounted DEF InFlight, PastGate
    <3> HIDE DEF flying, past
    <3> QED BY <3>1, <3>2, FS_Subset
  <2>2. logged[dbMonth] + InFlight <= MostRows /\ MostRows' = MostRows
    <3>1. faults \in Nat
      BY BudgetFacts
    <3>2. MostRows \in Nat /\ MostRows' = MostRows
      BY <1>1, <3>1, MostRowsGrow DEF MostRows
    <3>3. CASE period = 0
      BY <1>2, <1>4, <2>1, <3>2, <3>3, BudgetFacts
    <3>4. CASE period # 0
      BY <3>2, <3>4, BudgetFacts
    <3> QED BY <3>2, <3>3, <3>4
  <2> QED BY <1>1, <1>3, <1>7, <2>2 DEF AdmissionsAreBounded
<1>14. TotalIsRecent'
  BY <1>1, <1>2 DEF TotalIsRecent, BudgetTypeOK
<1>15. FutureIsEmpty' /\ UnloggedAreFaults' /\ RowsAreFew' /\ BudgetHolds'
  BY <1>1, <1>2, <1>3 DEF Budgeted, FutureIsEmpty, UnloggedAreFaults, RowsAreFew, BudgetHolds
<1> QED BY <1>8, <1>11, <1>12, <1>13, <1>14, <1>15 DEF BudgetIInv, Budgeted

(* An answered call is counted, and its row is on its way. *)
LEMMA AnswerKeeps ==
  ASSUME BudgetIInv, NEW c \in Calls, Answer(c)
  PROVE  BudgetIInv'
<1>1. /\ at[c] = "post" /\ at' = [at EXCEPT ![c] = "log"] /\ cost' = cost + 1
      /\ UNCHANGED <<captured, holder, sum, period, logged, month, dbMonth, sumMonth, astray,
                     unlogged, faults>>
  BY DEF Answer, Goto
<1>2. BudgetTypeOK /\ Budgeted /\ cost \in Nat
  BY BudgetFacts DEF BudgetIInv
<1>0. at'[c] = "log" /\ CountsFollow(c)
  <2>1. at'[c] = "log" /\ at' = [at EXCEPT ![c] = at'[c]]
    BY <1>1, <1>2 DEF BudgetTypeOK
  <2> QED BY <1>2, <2>1, CountsMove
<1>3. /\ Logging' = Logging + 1 /\ InFlight' = InFlight /\ PastGate' = PastGate /\ Busy' = Busy
  BY <1>0, <1>1, CountsAreNumbers DEF CountsFollow
<1>4. BudgetTypeOK'
  BY <1>1, <1>2 DEF BudgetTypeOK, CallPlaces
<1>5. CounterIsNotBehind' /\ CounterIsNotAhead'
  <2> SUFFICES ASSUME period # 0
               PROVE  /\ logged[dbMonth] + Logging' <= cost' + Cardinality(Calls) - 1
                      /\ astray \/ cost' <= logged[period] + Logging' + unlogged
    BY <1>1 DEF CounterIsNotBehind, CounterIsNotAhead
  <2>1. period \in Months /\ logged[period] \in Nat /\ logged[dbMonth] \in Nat /\ unlogged \in Nat
    BY <1>2, BudgetFacts DEF BudgetTypeOK
  <2>2. /\ logged[dbMonth] + Logging <= cost + Cardinality(Calls) - 1
        /\ astray \/ cost <= logged[period] + Logging + unlogged
    BY BudgetFacts
  <2> QED BY <1>1, <1>2, <1>3, <2>1, <2>2, CountsAreNumbers, CallersExist
<1>6. TotalIsRecent'
  <2>1. (\E d \in Calls : at'[d] = "store") => \E d \in Calls : at[d] = "store"
    BY <1>1, <1>2 DEF BudgetTypeOK
  <2> QED BY <1>1, <1>2, <1>3, <2>1 DEF Budgeted, TotalIsRecent
<1>7. FutureIsEmpty' /\ UnloggedAreFaults' /\ RowsAreFew' /\ AdmissionsAreBounded' /\ BudgetHolds'
  BY <1>1, <1>2, <1>3 DEF Budgeted, FutureIsEmpty, UnloggedAreFaults, RowsAreFew,
     AdmissionsAreBounded, BudgetHolds, MostRows
<1> QED BY <1>4, <1>5, <1>6, <1>7 DEF BudgetIInv, Budgeted

(* The row is written: one more in the log, one less on its way. *)
LEMMA WriteLogKeeps ==
  ASSUME BudgetIInv, NEW c \in Calls, WriteLog(c)
  PROVE  BudgetIInv'
<1> DEFINE n == Cardinality(Calls)
<1>1. /\ at[c] = "log" /\ at' = [at EXCEPT ![c] = "idle"]
      /\ logged' = [logged EXCEPT ![dbMonth] = logged[dbMonth] + 1]
      /\ UNCHANGED <<captured, holder, sum, cost, period, month, dbMonth, sumMonth, unlogged,
                     faults>>
  BY DEF WriteLog, Goto
<1>2. BudgetTypeOK /\ Budgeted /\ dbMonth \in Months /\ logged \in [Months -> Nat]
  BY BudgetFacts DEF BudgetIInv
<1>0. at'[c] = "idle" /\ CountsFollow(c)
  <2>1. at'[c] = "idle" /\ at' = [at EXCEPT ![c] = at'[c]]
    BY <1>1, <1>2 DEF BudgetTypeOK
  <2> QED BY <1>2, <2>1, CountsMove
<1>3. /\ Logging' = Logging - 1 /\ InFlight' = InFlight - 1
      /\ PastGate' = PastGate - 1 /\ Busy' = Busy - 1
  BY <1>0, <1>1, CountsAreNumbers DEF CountsFollow
<1>4. /\ Logging \in Nat /\ InFlight \in Nat /\ PastGate \in Nat /\ Busy \in Nat /\ n \in Nat \ {0}
      /\ Logging' \in Nat /\ InFlight' \in Nat /\ PastGate' \in Nat /\ Busy' \in Nat
  BY CountsAreNumbers, CountsAreNumbersNext, CallersExist
<1>5. /\ logged'[dbMonth] = logged[dbMonth] + 1 /\ logged[dbMonth] \in Nat
      /\ \A m \in Months \ {dbMonth} : logged'[m] = logged[m]
  BY <1>1, <1>2
<1>6. astray' = (astray \/ dbMonth # period)
  BY DEF WriteLog
<1>7. RowsAreFew' /\ logged'[dbMonth] <= MaxRows + n
  <2>1. logged[dbMonth] + InFlight <= MaxRows + n /\ MaxRows \in Nat
    BY BudgetFacts, BudgetAssumption DEF BudgetAssumption
  <2> QED BY <1>1, <1>3, <1>4, <1>5, <2>1 DEF RowsAreFew
<1>8. BudgetTypeOK'
  <2>1. astray' \in BOOLEAN
    BY <1>6, Zenon
  <2>2. logged' \in [Months -> 0..MaxRows + n]
    BY <1>1, <1>2, <1>5, <1>7 DEF BudgetTypeOK
  <2> QED BY <1>1, <1>2, <2>1, <2>2 DEF BudgetTypeOK, CallPlaces
<1>9. MostRows' = MostRows /\ MostRows \in Nat
  BY <1>1, MostRowsGrow, BudgetFacts DEF MostRows
<1>10. AdmissionsAreBounded' /\ logged'[dbMonth] <= MostRows
  <2>1. CASE period = 0
    <3>1. logged[dbMonth] + PastGate <= MostRows
      BY <2>1, BudgetFacts
    <3>2. logged'[dbMonth] + PastGate' <= MostRows
      BY <1>3, <1>4, <1>5, <3>1
    <3> QED BY <1>1, <1>4, <1>5, <1>9, <2>1, <3>2 DEF AdmissionsAreBounded
  <2>2. CASE period # 0
    <3>1. logged[dbMonth] + InFlight <= MostRows
      BY <2>2, BudgetFacts
    <3>2. logged'[dbMonth] + InFlight' <= MostRows
      BY <1>3, <1>4, <1>5, <3>1
    <3> QED BY <1>1, <1>4, <1>5, <1>9, <2>2, <3>2 DEF AdmissionsAreBounded
  <2> QED BY <2>1, <2>2
<1>11. BudgetHolds'
  <2>1. \A m \in Months : logged'[m] <= MostRows'
    BY <1>5, <1>9, <1>10, BudgetFacts
  <2> QED BY <2>1 DEF BudgetHolds, MostRows
<1>12. FutureIsEmpty' /\ UnloggedAreFaults'
  BY <1>1, <1>2, <1>5 DEF Budgeted, FutureIsEmpty, UnloggedAreFaults, Months
<1>13. CounterIsNotBehind'
  BY <1>1, <1>3, <1>4, <1>5, BudgetFacts DEF CounterIsNotBehind
<1>14. CounterIsNotAhead'
  <2>1. CASE period # dbMonth
    BY <1>6, <2>1 DEF CounterIsNotAhead
  <2>2. CASE period = dbMonth
    <3>1. astray \/ cost <= logged[dbMonth] + Logging + unlogged
      BY <1>2, <2>2, BudgetFacts DEF Months
    <3>2. cost \in Nat /\ unlogged \in Nat
      BY BudgetFacts
    <3>3. astray \/ cost <= logged'[dbMonth] + Logging' + unlogged
      BY <1>3, <1>4, <1>5, <3>1, <3>2
    <3> QED BY <1>1, <1>6, <2>2, <3>3 DEF CounterIsNotAhead
  <2> QED BY <2>1, <2>2
<1>15. TotalIsRecent'
  <2>1. (\E d \in Calls : at'[d] = "store") => \E d \in Calls : at[d] = "store"
    BY <1>1, <1>2 DEF BudgetTypeOK
  <2>2. CASE \E d \in Calls : at[d] = "store"
    <3>1. sum <= logged[sumMonth] /\ logged[dbMonth] + Busy <= sum + n
      BY <1>2, <2>2 DEF Budgeted, TotalIsRecent
    <3>2. sum \in Nat /\ sumMonth \in Months
      BY BudgetFacts
    <3>3. /\ logged'[sumMonth] >= logged[sumMonth]
          /\ logged'[sumMonth] \in Nat /\ logged[sumMonth] \in Nat
      BY <1>2, <1>5, <3>2
    <3> QED BY <1>1, <1>3, <1>4, <1>5, <3>1, <3>2, <3>3 DEF TotalIsRecent
  <2> QED BY <2>1, <2>2 DEF TotalIsRecent
<1> QED BY <1>7, <1>8, <1>10, <1>11, <1>12, <1>13, <1>14, <1>15 DEF BudgetIInv, Budgeted

(* The row cannot be written, and one call less is on its way. *)
LEMMA LogFailsKeeps ==
  ASSUME BudgetIInv, NEW c \in Calls, LogFails(c)
  PROVE  BudgetIInv'
<1>1. /\ at[c] = "log" /\ at' = [at EXCEPT ![c] = "idle"] /\ unlogged' = unlogged + 1
      /\ faults < MaxFaults /\ faults' = faults + 1
      /\ UNCHANGED <<captured, holder, sum, cost, period, logged, month, dbMonth, sumMonth, astray>>
  BY DEF LogFails, Goto, Fault
<1>2. BudgetTypeOK /\ Budgeted /\ faults \in Nat /\ unlogged \in Nat /\ unlogged <= faults
  BY BudgetFacts DEF BudgetIInv
<1>0. at'[c] = "idle" /\ CountsFollow(c)
  <2>1. at'[c] = "idle" /\ at' = [at EXCEPT ![c] = at'[c]]
    BY <1>1, <1>2 DEF BudgetTypeOK
  <2> QED BY <1>2, <2>1, CountsMove
<1>3. /\ Logging' = Logging - 1 /\ InFlight' = InFlight - 1
      /\ PastGate' = PastGate - 1 /\ Busy' = Busy - 1
  BY <1>0, <1>1, CountsAreNumbers DEF CountsFollow
<1>4. /\ Logging \in Nat /\ InFlight \in Nat /\ PastGate \in Nat /\ Busy \in Nat
      /\ Logging' \in Nat /\ InFlight' \in Nat /\ PastGate' \in Nat /\ Busy' \in Nat
      /\ Cardinality(Calls) \in Nat /\ MaxRows \in Nat
  BY CountsAreNumbers, CountsAreNumbersNext, CallersExist, BudgetAssumption DEF BudgetAssumption
<1>5. /\ logged[dbMonth] \in Nat /\ logged \in [Months -> Nat] /\ cost \in Nat /\ sum \in Nat
  BY BudgetFacts
<1>6. BudgetTypeOK'
  BY <1>1, <1>2, FaultsAssumption DEF FaultsAssumption, BudgetTypeOK, CallPlaces
<1>7. RowsAreFew' /\ FutureIsEmpty' /\ UnloggedAreFaults'
  BY <1>1, <1>2, <1>3, <1>4, <1>5 DEF Budgeted, RowsAreFew, FutureIsEmpty, UnloggedAreFaults
<1>8. CounterIsNotBehind' /\ CounterIsNotAhead'
  <2> SUFFICES ASSUME period # 0
               PROVE  /\ logged[dbMonth] + Logging' <= cost + Cardinality(Calls) - 1
                      /\ astray \/ cost <= logged[period] + Logging' + unlogged'
    BY <1>1 DEF CounterIsNotBehind, CounterIsNotAhead
  <2>1. period \in Months /\ logged[period] \in Nat
    BY <1>2, <1>5 DEF BudgetTypeOK
  <2>2. /\ logged[dbMonth] + Logging <= cost + Cardinality(Calls) - 1
        /\ astray \/ cost <= logged[period] + Logging + unlogged
    BY BudgetFacts
  <2> QED BY <1>1, <1>2, <1>3, <1>4, <1>5, <2>1, <2>2
<1>9. TotalIsRecent'
  <2>1. (\E d \in Calls : at'[d] = "store") => \E d \in Calls : at[d] = "store"
    BY <1>1, <1>2 DEF BudgetTypeOK
  <2> QED BY <1>1, <1>2, <1>3, <1>4, <1>5, <2>1 DEF Budgeted, TotalIsRecent
<1>10. MostRows \in Nat /\ MostRows' \in Nat /\ MostRows <= MostRows'
  BY <1>1, <1>2, MostRowsGrow
<1>11. AdmissionsAreBounded'
  <2>1. CASE period = 0
    <3>1. logged[dbMonth] + PastGate <= MostRows
      BY <2>1, BudgetFacts
    <3> QED BY <1>1, <1>3, <1>4, <1>5, <1>10, <2>1, <3>1 DEF AdmissionsAreBounded
  <2>2. CASE period # 0
    <3>1. logged[dbMonth] + InFlight <= MostRows
      BY <2>2, BudgetFacts
    <3> QED BY <1>1, <1>3, <1>4, <1>5, <1>10, <2>2, <3>1 DEF AdmissionsAreBounded
  <2> QED BY <2>1, <2>2
<1>12. BudgetHolds'
  <2>1. \A m \in Months : logged[m] <= MostRows'
    BY <1>5, <1>10, BudgetFacts
  <2> QED BY <1>1, <2>1 DEF BudgetHolds, MostRows
<1> QED BY <1>6, <1>7, <1>8, <1>9, <1>11, <1>12 DEF BudgetIInv, Budgeted

(* Nobody is anywhere after a restart, so nothing is on its way. *)
LEMMA RestartKeeps ==
  ASSUME BudgetIInv, Restart
  PROVE  BudgetIInv'
<1>1. /\ at' = [c \in Calls |-> "idle"] /\ holder' = None
      /\ sum' = 0 /\ cost' = 0 /\ period' = 0 /\ astray' = FALSE
      /\ UNCHANGED <<captured, logged, month, dbMonth, sumMonth, unlogged, faults>>
  BY DEF Restart
<1>2. BudgetTypeOK /\ Budgeted
  BY DEF BudgetIInv
<1>3. InFlight' = 0 /\ PastGate' = 0
  <2>1. /\ {c \in Calls : at'[c] \in {"post", "log"}} = {}
        /\ {c \in Calls : at'[c] \in {"gate", "post", "log"}} = {}
    BY <1>1
  <2> QED BY <2>1, FS_EmptySet DEF InFlight, PastGate
<1>4. BudgetTypeOK'
  <2>1. astray' \in BOOLEAN
    BY <1>1
  <2> QED BY <1>1, <1>2, <2>1, BudgetAssumption DEF BudgetAssumption, BudgetTypeOK, CallPlaces
<1>5. /\ logged[dbMonth] \in Nat /\ dbMonth \in Months /\ InFlight \in Nat
      /\ logged[dbMonth] + InFlight <= MaxRows + Cardinality(Calls)
      /\ logged[dbMonth] <= MostRows /\ MostRows' = MostRows
      /\ MaxRows + Cardinality(Calls) \in Nat
  BY <1>1, BudgetFacts, CountsAreNumbers, CallersExist, BudgetAssumption DEF BudgetAssumption,
     MostRows
<1>6. RowsAreFew' /\ AdmissionsAreBounded'
  BY <1>1, <1>3, <1>5 DEF RowsAreFew, AdmissionsAreBounded
<1>7. /\ FutureIsEmpty' /\ UnloggedAreFaults' /\ TotalIsRecent' /\ CounterIsNotBehind'
      /\ CounterIsNotAhead' /\ BudgetHolds'
  BY <1>1, <1>2 DEF Budgeted, FutureIsEmpty, UnloggedAreFaults, TotalIsRecent, CounterIsNotBehind,
     CounterIsNotAhead, BudgetHolds
<1> QED BY <1>4, <1>6, <1>7 DEF BudgetIInv, Budgeted

(* A month begins for the database: its log is empty, and each caller may  *)
(* have one row on its way.                                                *)
LEMMA MonthsKeep ==
  ASSUME BudgetIInv, MonthTurns \/ DbMonthTurns
  PROVE  BudgetIInv'
<1>0. MaxMonth \in Nat /\ month \in 1..MaxMonth /\ dbMonth \in 1..MaxMonth
  BY BudgetAssumption DEF BudgetAssumption, BudgetIInv, BudgetTypeOK, Months
<1>1. /\ UNCHANGED <<at, captured, holder, sum, cost, period, logged, sumMonth, astray,
                     unlogged, faults>>
      /\ month' \in {month, month + 1} /\ dbMonth' \in {dbMonth, dbMonth + 1}
      /\ month' \in Months /\ dbMonth' \in Months /\ dbMonth \in Months
  <2>1. CASE MonthTurns
    <3>1. month' = month + 1 /\ month < MaxMonth /\ dbMonth' = dbMonth
      BY <2>1 DEF MonthTurns
    <3>2. month' \in Months /\ dbMonth' \in Months /\ dbMonth \in Months
      BY <1>0, <3>1 DEF Months
    <3> QED BY <2>1, <3>1, <3>2 DEF MonthTurns
  <2>2. CASE DbMonthTurns
    <3>1. dbMonth' = dbMonth + 1 /\ dbMonth < MaxMonth /\ month' = month
      BY <2>2 DEF DbMonthTurns
    <3>2. month' \in Months /\ dbMonth' \in Months /\ dbMonth \in Months
      BY <1>0, <3>1 DEF Months
    <3> QED BY <2>2, <3>1, <3>2 DEF DbMonthTurns
  <2> QED BY <2>1, <2>2
<1>2. BudgetTypeOK /\ Budgeted
  BY DEF BudgetIInv
<1>3. /\ Logging' = Logging /\ InFlight' = InFlight /\ PastGate' = PastGate /\ Busy' = Busy
      /\ MostRows' = MostRows
  BY <1>1 DEF Logging, InFlight, PastGate, Busy, MostRows
<1>4. BudgetTypeOK'
  BY <1>1, <1>2 DEF BudgetTypeOK
<1>5. logged[dbMonth'] = 0 \/ dbMonth' = dbMonth
  BY <1>1, BudgetFacts DEF Months
<1>6. FutureIsEmpty' /\ UnloggedAreFaults' /\ CounterIsNotAhead' /\ BudgetHolds'
  BY <1>1, <1>2, <1>3 DEF Budgeted, FutureIsEmpty, UnloggedAreFaults, CounterIsNotAhead,
     BudgetHolds,
     Months
<1>7. CASE dbMonth' = dbMonth
  BY <1>1, <1>2, <1>3, <1>4, <1>6, <1>7 DEF BudgetIInv, Budgeted, RowsAreFew, TotalIsRecent,
     CounterIsNotBehind, AdmissionsAreBounded
<1>8. CASE logged[dbMonth'] = 0
  <2>1. /\ logged[dbMonth] \in Nat /\ cost \in Nat /\ sum \in Nat /\ MaxRows \in Nat
        /\ Logging \in Nat /\ InFlight \in Nat /\ PastGate \in Nat /\ Busy \in Nat
        /\ InFlight <= Cardinality(Calls) /\ PastGate <= Cardinality(Calls)
        /\ Cardinality(Calls) \in Nat /\ Cardinality(Calls) <= MostRows /\ MostRows \in Nat
    BY <1>1, BudgetFacts, CountsAreNumbers, CallersExist, MostRowsGrow, BudgetAssumption
       DEF BudgetAssumption
  <2>2. RowsAreFew'
    BY <1>1, <1>3, <1>8, <2>1 DEF RowsAreFew
  <2>3. TotalIsRecent'
    BY <1>1, <1>2, <1>3, <1>8, <2>1 DEF Budgeted, TotalIsRecent
  <2>4. CounterIsNotBehind'
    BY <1>1, <1>3, <1>8, <2>1, BudgetFacts DEF CounterIsNotBehind
  <2>5. AdmissionsAreBounded'
    BY <1>1, <1>3, <1>8, <2>1 DEF AdmissionsAreBounded
  <2> QED BY <1>4, <1>6, <2>2, <2>3, <2>4, <2>5 DEF BudgetIInv, Budgeted
<1> QED BY <1>5, <1>7, <1>8

(* The initial state satisfies the inductive invariant. *)
LEMMA BudgetInitIInv == BudgetInit => BudgetIInv
<1> SUFFICES ASSUME BudgetInit PROVE BudgetIInv
  OBVIOUS
<1> USE BudgetAssumption, FaultsAssumption, CallersExist DEF BudgetAssumption, FaultsAssumption
<1>1. astray \in BOOLEAN
  BY Zenon DEF BudgetInit
<1>2. logged \in [Months -> 0..MaxRows + Cardinality(Calls)]
  BY DEF BudgetInit
<1>3. BudgetTypeOK
  BY <1>1, <1>2 DEF BudgetInit, BudgetTypeOK, CallPlaces, Months
<1>4. InFlight = 0 /\ PastGate = 0
  <2>1. /\ {c \in Calls : at[c] \in {"post", "log"}} = {}
        /\ {c \in Calls : at[c] \in {"gate", "post", "log"}} = {}
    BY DEF BudgetInit
  <2> QED BY <2>1, FS_EmptySet DEF InFlight, PastGate
<1>5. /\ \A m \in Months : logged[m] = 0
      /\ dbMonth \in Months /\ faults = 0 /\ unlogged = 0 /\ period = 0
      /\ \A c \in Calls : at[c] # "store"
  BY <1>3 DEF BudgetInit, BudgetTypeOK
<1>6. 0 <= MostRows /\ MostRows \in Int
  BY <1>5 DEF MostRows
<1>7. Budgeted
  BY <1>4, <1>5, <1>6 DEF Budgeted, FutureIsEmpty, UnloggedAreFaults, RowsAreFew, TotalIsRecent,
     CounterIsNotBehind, CounterIsNotAhead, AdmissionsAreBounded, BudgetHolds, MostRows
<1> QED BY <1>3, <1>7 DEF BudgetIInv

(* Every step keeps the inductive invariant. *)
LEMMA BudgetNextIInv == BudgetIInv /\ [BudgetNext]_budgetVars => BudgetIInv'
<1> SUFFICES ASSUME BudgetIInv, [BudgetNext]_budgetVars PROVE BudgetIInv'
  OBVIOUS
<1>1. ASSUME NEW c \in Calls, CheckBudget(c) \/ Step(c) PROVE BudgetIInv'
  BY <1>1, QuietSteps, AdmitKeeps, ReadTotalKeeps, StoreTotalKeeps, AnswerKeeps, WriteLogKeeps,
     LogFailsKeeps DEF Step
<1>2. CASE UNCHANGED budgetVars
  BY <1>2 DEF budgetVars, BudgetIInv, BudgetTypeOK, Budgeted, FutureIsEmpty, UnloggedAreFaults,
     RowsAreFew,
     TotalIsRecent, CounterIsNotBehind, CounterIsNotAhead, AdmissionsAreBounded, BudgetHolds,
     MostRows,
     Logging, InFlight, PastGate, Busy
<1> QED BY <1>1, <1>2, RestartKeeps, MonthsKeep DEF BudgetNext

(* The inductive invariant holds in every reachable state.                 *)
THEOREM BudgetIsInductive == BudgetSpec => []BudgetIInv
BY BudgetInitIInv, BudgetNextIInv, PTL DEF BudgetSpec

(* While the month is loaded, the counter lacks at most one row of each    *)
(* other caller, and counts no more than was written, is on its way to the *)
(* log or failed to get there, unless a row went astray.                   *)
THEOREM CountersMatchLogs == BudgetSpec => []CounterMatchesLog
<1>1. BudgetIInv => CounterMatchesLog
  <2> SUFFICES ASSUME BudgetIInv, period = month, month = dbMonth
               PROVE  /\ logged[month] <= cost + Cardinality(Calls) - 1
                      /\ astray \/ cost <= logged[month] + Logging + unlogged
    BY DEF BudgetIInv, CounterMatchesLog
  <2>1. period # 0
    BY BudgetFacts DEF Months
  <2> QED BY <2>1, BudgetFacts, CountsAreNumbers, CallersExist
<1> QED BY <1>1, BudgetIsInductive, PTL

(* No month of the log exceeds the budget by more than two calls of each   *)
(* other caller, and one for each failure.                                 *)
THEOREM BudgetsHold == BudgetSpec => []BudgetHolds
<1>1. BudgetIInv => BudgetHolds
  BY DEF BudgetIInv, Budgeted
<1> QED BY <1>1, BudgetIsInductive, PTL
===============================================================================
