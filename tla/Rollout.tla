------------------------------- MODULE Rollout -------------------------------
(***************************************************************************)
(* What a process of the API does before it listens: RunMigrations, then   *)
(* EnsureBootstrapAdmin.  Several processes may start at once, and one may *)
(* end between any two statements; the platform starts it again, a limited *)
(* number of times.                                                        *)
(*                                                                         *)
(* A file is one multi-statement Exec and thus one implicit transaction;   *)
(* that it was applied is recorded by a second one.  The files before 010  *)
(* create tables and indexes without IF NOT EXISTS and fail when they are  *)
(* executed twice; 010, the marketplace, may be executed again.            *)
(***************************************************************************)
EXTENDS Actors

CONSTANTS
  Boots,        \* processes of the API
  Marketplace,  \* number of the last file, 010_marketplace
  MaxRestarts   \* restartPolicyMaxRetries: how often a process that failed is restarted

ASSUME RolloutAssumption == Marketplace \in Nat \ {0} /\ MaxRestarts \in Nat

VARIABLES
  file,         \* the file it is at
  executed,     \* files whose effect is in the schema
  recorded,     \* rows of schema_migrations
  operator,     \* platform_admins has a row
  abandoned,    \* ghost: files executed by a process that ended before recording them
  contested,    \* ghost: files two processes held for missing at the same time
  starts,       \* how often each process was started
  spent         \* ghost: processes a fault ended with no restart left

rolloutVars == <<at, file, executed, recorded, operator, abandoned, contested, starts, spent,
                  faults>>

Files  == 1..Marketplace
BootPlaces == {"down", "check", "exec", "record", "admin", "insert", "up"}

RolloutTypeOK ==
  /\ at        \in [Boots -> BootPlaces]
  /\ file      \in [Boots -> Files]
  /\ executed  \in SUBSET Files
  /\ recorded  \in SUBSET executed
  /\ operator  \in BOOLEAN
  /\ abandoned \in SUBSET executed
  /\ contested \in SUBSET Files
  /\ starts    \in [Boots -> 0..MaxRestarts + 1]
  /\ spent     \in SUBSET Boots
  /\ faults    \in 0..MaxFaults

(* A fresh database, or one an earlier release left behind. *)
RolloutInit ==
  /\ at   = [b \in Boots |-> "down"]
  /\ file = [b \in Boots |-> 1]
  /\ executed \in {{}, Files \ {Marketplace}}
  /\ recorded  = executed
  /\ operator  = FALSE
  /\ abandoned = {}
  /\ contested = {}
  /\ starts    = [b \in Boots |-> 0]
  /\ spent     = {}
  /\ faults    = 0

Serving == \E b \in Boots : at[b] = "up"

(* ON_FAILURE, at most so many times: the first start is not a restart. *)
MayStart(b) == starts[b] <= MaxRestarts

(* The place after file f. *)
NextFile(b, f) ==
  IF f = Marketplace
  THEN Goto(b, "admin") /\ UNCHANGED file
  ELSE Goto(b, "check") /\ file' = [file EXCEPT ![b] = f + 1]

----------------------------------------------------------------------------
(* The process starts, or the platform restarts it. *)
Start(b) ==
  /\ at[b] = "down"
  /\ MayStart(b)
  /\ starts' = [starts EXCEPT ![b] = @ + 1]
  /\ Goto(b, "check")
  /\ file' = [file EXCEPT ![b] = 1]
  /\ UNCHANGED <<executed, recorded, operator, abandoned, contested, spent, faults>>

(* Seeded fault: every file counts as missing. *)
NeverApplied(f) == FALSE

(* The COUNT over schema_migrations. *)
Applied(f) == f \in recorded

(* Skip if already applied. *)
SkipApplied(b) ==
  /\ at[b] = "check"
  /\ Applied(file[b])
  /\ NextFile(b, file[b])
  /\ UNCHANGED <<executed, recorded, operator, abandoned, contested, starts, spent, faults>>

(* Not applied: go on to execute it, whoever else does. *)
FindMissing(b) ==
  /\ at[b] = "check"
  /\ ~Applied(file[b])
  /\ Goto(b, "exec")
  /\ contested' = contested \cup
       {f \in {file[b]} : \E o \in Boots \ {b} : at[o] \in {"exec", "record"} /\ file[o] = f}
  /\ UNCHANGED <<file, executed, recorded, operator, abandoned, starts, spent, faults>>

CanExecute(f) == f \notin executed \/ f = Marketplace

ExecuteFile(b) ==
  /\ at[b] = "exec"
  /\ CanExecute(file[b])
  /\ Goto(b, "record")
  /\ executed' = executed \cup {file[b]}
  /\ UNCHANGED <<file, recorded, operator, abandoned, contested, starts, spent, faults>>

(* Seeded fault: what exists already is taken for applied. *)
ExecuteRefusedGoesOn(b) ==
  /\ at[b] = "exec"
  /\ ~CanExecute(file[b])
  /\ NextFile(b, file[b])
  /\ UNCHANGED <<executed, recorded, operator, abandoned, contested, starts, spent, faults>>

(* "already exists": main ends with log.Fatalf. *)
ExecuteRefused(b) ==
  /\ at[b] = "exec"
  /\ ~CanExecute(file[b])
  /\ Goto(b, "down")
  /\ UNCHANGED <<file, executed, recorded, operator, abandoned, contested, starts, spent, faults>>

RecordFile(b) ==
  /\ at[b] = "record"
  /\ file[b] \notin recorded
  /\ recorded' = recorded \cup {file[b]}
  /\ NextFile(b, file[b])
  /\ UNCHANGED <<executed, operator, abandoned, contested, starts, spent, faults>>

(* schema_migrations.filename is the primary key. *)
RecordRefused(b) ==
  /\ at[b] = "record"
  /\ file[b] \in recorded
  /\ Goto(b, "down")
  /\ UNCHANGED <<file, executed, recorded, operator, abandoned, contested, starts, spent, faults>>

(* EnsureBootstrapAdmin: the COUNT over platform_admins. *)
CountOperators(b) ==
  /\ at[b] = "admin"
  /\ Goto(b, IF operator THEN "up" ELSE "insert")
  /\ UNCHANGED <<file, executed, recorded, operator, abandoned, contested, starts, spent, faults>>

(* A second process that counted none is refused by the unique address and *)
(* only warns.                                                             *)
CreateOperator(b) ==
  /\ at[b] = "insert"
  /\ operator' = TRUE
  /\ Goto(b, "up")
  /\ UNCHANGED <<file, executed, recorded, abandoned, contested, starts, spent, faults>>

(* An unset or short password, or a failing call: the API serves all the same. *)
NoOperator(b) ==
  /\ Fault
  /\ at[b] \in {"admin", "insert"}
  /\ Goto(b, "up")
  /\ UNCHANGED <<file, executed, recorded, operator, abandoned, contested, starts, spent>>

(* A statement fails, or the process is ended. *)
BootEnds(b) ==
  /\ Fault
  /\ at[b] # "down"
  /\ abandoned' = abandoned \cup {f \in {file[b]} : at[b] = "record"}
  /\ spent' = IF MayStart(b) THEN spent ELSE spent \cup {b}
  /\ Goto(b, "down")
  /\ UNCHANGED <<file, executed, recorded, operator, contested, starts>>

Boot(b) ==
  \/ SkipApplied(b)
  \/ FindMissing(b)
  \/ ExecuteFile(b)
  \/ ExecuteRefused(b)
  \/ RecordFile(b)
  \/ RecordRefused(b)
  \/ CountOperators(b)
  \/ CreateOperator(b)

RolloutStep(b) == Boot(b) \/ NoOperator(b) \/ BootEnds(b) \/ Start(b)

RolloutNext == \E b \in Boots : RolloutStep(b)

RolloutSpec == RolloutInit /\ [][RolloutNext]_rolloutVars

(* main goes through its steps, and a process that failed is started again *)
(* while its restarts last.                                                *)
RolloutFairness == \A b \in Boots : WF_rolloutVars(Boot(b) \/ Start(b))

RolloutLiveSpec == RolloutSpec /\ RolloutFairness

----------------------------------------------------------------------------
(* Files are recorded in their order, no process passes one that is not    *)
(* recorded, and none looks for operators or serves before all are, however *)
(* many processes migrate at once and wherever they end.  (RunMigrations,  *)
(* which main calls before it listens.)                                    *)
MigratedInOrder ==
  /\ \A f \in recorded : 1..f \subseteq recorded
  /\ \A b \in Boots :
       /\ at[b] # "down" => \A f \in Files : f < file[b] => f \in recorded
       /\ at[b] \in {"admin", "insert", "up"} => recorded = Files

(* No process is left that the platform would start. *)
GivenUp == \A b \in Boots : at[b] = "down" /\ ~ MayStart(b)

(* In the end some process serves.  That processes refuse each other's     *)
(* files uses up restarts, but never the last one of all of them: only a   *)
(* fault makes a deployment be given up, one that ended a process between  *)
(* a file and its record, or one that hit a process on its last restart.   *)
(* (RunMigrations, called by main before it listens; railway.toml.)        *)
DeployServes ==
  <>[](Serving \/ (GivenUp /\ (abandoned \ {Marketplace} # {} \/ spent # {})))
=============================================================================
