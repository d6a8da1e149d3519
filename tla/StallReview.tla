----------------------------- MODULE StallReview -----------------------------
(***************************************************************************)
(* The review of stalls: sellers sign up and submit their stall, operators *)
(* approve, reject, suspend, restore and restrict it, and migration 010    *)
(* approves the stalls that are older than the review.  While processes of *)
(* this release migrate, one of the release before may still sign sellers  *)
(* up.                                                                     *)
(*                                                                         *)
(* An operator's decision and its event are one transaction.  A submission *)
(* is three statements: the status is read, overwritten, and the event     *)
(* inserted.  A handler whose process ends is a submission that fails.     *)
(***************************************************************************)
EXTENDS Rollout

CONSTANTS
  Stalls,       \* rows of tenants
  MaxFilings,   \* bound: submissions per stall
  MaxDecisions  \* bound: decisions and restrictions per stall

ASSUME ReviewAssumption == MaxFilings \in Nat /\ MaxDecisions \in Nat

VARIABLES
  status,       \* tenants.status; "old" before the column exists, "none" before the row
  lost,         \* capabilities a stall has lost: can_publish_products, can_accept_orders
  filing,       \* where the seller's submission is
  decision,     \* the last approve, reject, suspend or restore event
  filed,        \* there is a submit event after that decision
  restricted,   \* the last event about restrictions took a capability
  grandfathered,\* ghost: stalls older than the review
  overtaken,    \* ghost: stalls suspended while a submission was about to write
  unrecorded,   \* ghost: stalls whose submission failed before its event
  filings,      \* submissions so far
  decisions,    \* decisions so far
  oldServes     \* a process of the release before this one serves

stallVars == <<status, lost, filing, decision, filed, restricted, grandfathered,
                overtaken, unrecorded, filings, decisions, oldServes>>
reviewVars == <<rolloutVars, stallVars>>

Status       == {"none", "old", "pending", "approved", "rejected", "suspended"}
Capabilities == {"publish", "orders"}
Actions      == {"approve", "reject", "suspend", "restore"}

ReviewTypeOK ==
  /\ RolloutTypeOK
  /\ status        \in [Stalls -> Status]
  /\ lost          \in [Stalls -> SUBSET Capabilities]
  /\ filing        \in [Stalls -> {"idle", "write", "record"}]
  /\ decision      \in [Stalls -> Actions \cup {"none"}]
  /\ filed         \in [Stalls -> BOOLEAN]
  /\ restricted    \in [Stalls -> BOOLEAN]
  /\ grandfathered \in SUBSET Stalls
  /\ overtaken     \in SUBSET Stalls
  /\ unrecorded    \in SUBSET Stalls
  /\ filings       \in [Stalls -> 0..MaxFilings]
  /\ decisions     \in [Stalls -> 0..MaxDecisions]
  /\ oldServes     \in BOOLEAN

ReviewInit ==
  /\ RolloutInit
  /\ grandfathered \in IF executed = {} THEN {{}} ELSE SUBSET Stalls
  /\ status = [s \in Stalls |-> IF s \in grandfathered THEN "old" ELSE "none"]
  /\ lost       = [s \in Stalls |-> {}]
  /\ filing     = [s \in Stalls |-> "idle"]
  /\ decision   = [s \in Stalls |-> "none"]
  /\ filed      = [s \in Stalls |-> FALSE]
  /\ restricted = [s \in Stalls |-> FALSE]
  /\ overtaken  = {}
  /\ unrecorded = {}
  /\ filings    = [s \in Stalls |-> 0]
  /\ decisions  = [s \in Stalls |-> 0]
  /\ oldServes \in IF executed = {} THEN {FALSE} ELSE BOOLEAN

Put(f, s, v) == [f EXCEPT ![s] = v]

----------------------------------------------------------------------------
(* The rows 010 updates: those its new column gave the default. *)
Approvable == {"old", "pending"}

(* A file of the migration; 010 approves as it goes. *)
Migrate(b) ==
  /\ ExecuteFile(b)
  /\ status' = IF file[b] = Marketplace
               THEN [s \in Stalls |-> IF status[s] \in Approvable THEN "approved" ELSE status[s]]
               ELSE status
  /\ UNCHANGED <<lost, filing, decision, filed, restricted, grandfathered, overtaken,
                 unrecorded, filings, decisions, oldServes>>

(* Signup inserts the tenant with the default status: pending, once 010    *)
(* has added the column, and whichever release serves.                     *)
Signup(s) ==
  /\ Serving \/ oldServes
  /\ status[s] = "none"
  /\ IF Marketplace \in executed
     THEN status' = Put(status, s, "pending") /\ UNCHANGED grandfathered
     ELSE status' = Put(status, s, "old") /\ grandfathered' = grandfathered \cup {s}
  /\ UNCHANGED <<rolloutVars, lost, filing, decision, filed, restricted, overtaken,
                 unrecorded, filings, decisions, oldServes>>

(* The platform stops the release before. *)
OldStops ==
  /\ oldServes
  /\ oldServes' = FALSE
  /\ UNCHANGED <<rolloutVars, status, lost, filing, decision, filed, restricted, grandfathered,
                 overtaken, unrecorded, filings, decisions>>

(* Seeded fault: only approved stalls are refused. *)
NotApproved == {"pending", "rejected", "suspended"}

(* The statuses SubmitStoreForReview goes on with. *)
Resubmittable == {"pending", "rejected"}

(* SubmitStoreForReview reads the status. *)
SubmitStoreForReview(s) ==
  /\ Serving
  /\ filings[s] < MaxFilings
  /\ filing[s] = "idle"
  /\ status[s] \in Resubmittable
  /\ filings' = Put(filings, s, filings[s] + 1)
  /\ filing' = Put(filing, s, "write")
  /\ UNCHANGED <<rolloutVars, status, lost, decision, filed, restricted, grandfathered,
                 overtaken, unrecorded, decisions, oldServes>>

(* The UPDATE names the row only. *)
WritePending(s) ==
  /\ filing[s] = "write"
  /\ status' = Put(status, s, "pending")
  /\ filing' = Put(filing, s, "record")
  /\ UNCHANGED <<rolloutVars, lost, decision, filed, restricted, grandfathered,
                 overtaken, unrecorded, filings, decisions, oldServes>>

RecordSubmission(s) ==
  /\ filing[s] = "record"
  /\ filed' = Put(filed, s, TRUE)
  /\ filing' = Put(filing, s, "idle")
  /\ UNCHANGED <<rolloutVars, status, lost, decision, restricted, grandfathered,
                 overtaken, unrecorded, filings, decisions, oldServes>>

(* A statement fails or the process ends; what was written stays. *)
SubmissionFails(s) ==
  /\ Fault
  /\ filing[s] # "idle"
  /\ filing' = Put(filing, s, "idle")
  /\ unrecorded' = IF filing[s] = "record" THEN unrecorded \cup {s} ELSE unrecorded
  /\ UNCHANGED <<at, file, executed, recorded, operator, abandoned, contested, starts, spent,
                 status, lost, decision, filed, restricted, grandfathered, overtaken, filings,
                 decisions, oldServes>>

(* Seeded fault: a restored stall keeps the restrictions it had. *)
ModerateKeepsLost(s, action, new) ==
  /\ Serving /\ operator
  /\ status[s] # "none"
  /\ decisions[s] < MaxDecisions
  /\ decisions' = Put(decisions, s, decisions[s] + 1)
  /\ status' = Put(status, s, new)
  /\ decision' = Put(decision, s, action)
  /\ filed' = Put(filed, s, FALSE)
  /\ restricted' = Put(restricted, s, restricted[s] /\ new # "approved")
  /\ overtaken' = overtaken \ {s}
  /\ unrecorded' = unrecorded \ {s}
  /\ UNCHANGED <<rolloutVars, lost, filing, grandfathered, filings, oldServes>>

(* moderate: the status whatever it was, and the event, in one transaction; *)
(* the UPDATE locks the row, so decisions about a stall commit in the order *)
(* of their UPDATEs, which is the order of `decision`.  (created_at is the *)
(* start of the transaction and may order two of them otherwise.)          *)
Moderate(s, action, new) ==
  /\ Serving /\ operator
  /\ status[s] # "none"
  /\ decisions[s] < MaxDecisions
  /\ decisions' = Put(decisions, s, decisions[s] + 1)
  /\ status' = Put(status, s, new)
  /\ decision' = Put(decision, s, action)
  /\ filed' = Put(filed, s, FALSE)
  /\ IF new = "approved"
     THEN lost' = Put(lost, s, {}) /\ restricted' = Put(restricted, s, FALSE)
     ELSE UNCHANGED <<lost, restricted>>
  /\ overtaken' = IF action = "suspend" /\ filing[s] = "write"
                  THEN overtaken \cup {s} ELSE overtaken \ {s}
  /\ unrecorded' = unrecorded \ {s}
  /\ UNCHANGED <<rolloutVars, filing, grandfathered, filings, oldServes>>

ApproveStore(s) == Moderate(s, "approve", "approved")
RejectStore(s)  == Moderate(s, "reject", "rejected")
SuspendStore(s) == Moderate(s, "suspend", "suspended")
RestoreStore(s) == Moderate(s, "restore", "approved")

(* SetStoreRestrictions: both flags and the event. *)
SetStoreRestrictions(s) ==
  /\ Serving /\ operator
  /\ status[s] # "none"
  /\ decisions[s] < MaxDecisions
  /\ decisions' = Put(decisions, s, decisions[s] + 1)
  /\ \E taken \in SUBSET Capabilities :
       /\ lost' = Put(lost, s, taken)
       /\ restricted' = Put(restricted, s, taken # {})
  /\ UNCHANGED <<rolloutVars, status, filing, decision, filed, grandfathered,
                 overtaken, unrecorded, filings, oldServes>>

Review(s) ==
  \/ ApproveStore(s)
  \/ RejectStore(s)
  \/ SuspendStore(s)
  \/ RestoreStore(s)
  \/ SetStoreRestrictions(s)

(* The other steps of a boot. *)
Prepare(b) ==
  /\ \/ SkipApplied(b)
     \/ FindMissing(b)
     \/ ExecuteRefused(b)
     \/ RecordFile(b)
     \/ RecordRefused(b)
     \/ CountOperators(b)
     \/ CreateOperator(b)
     \/ NoOperator(b)
     \/ BootEnds(b)
     \/ Start(b)
  /\ UNCHANGED stallVars

ReviewNext ==
  \/ \E b \in Boots : Migrate(b) \/ Prepare(b)
  \/ OldStops
  \/ \E s \in Stalls :
       \/ Signup(s)
       \/ SubmitStoreForReview(s)
       \/ WritePending(s)
       \/ RecordSubmission(s)
       \/ SubmissionFails(s)
       \/ Review(s)

ReviewSpec == ReviewInit /\ [][ReviewNext]_reviewVars

----------------------------------------------------------------------------
(* Every status can be explained by the events and the age of the stall:   *)
(* suspended and rejected by that very decision, approved by a decision    *)
(* or, for a stall older than the review, by the migration; a decided      *)
(* stall is pending again only after a submission whose event follows, is  *)
(* about to follow, or could not be written.  A later stall is approved    *)
(* without a decision only if 010 was applied twice: by two processes at   *)
(* the same time, or because one ended before it had recorded it.          *)
(* (moderate, SubmitStoreForReview, the UPDATE of 010.)  Every variable    *)
(* keeps its type.                                                         *)
DecisionIsOnRecord ==
  ReviewTypeOK /\ \A s \in Stalls :
    /\ status[s] = "suspended" => decision[s] = "suspend"
    /\ status[s] = "rejected"  => decision[s] = "reject"
    /\ status[s] = "approved"  => \/ decision[s] \in {"approve", "restore"}
                                  \/ decision[s] = "none" /\ s \in grandfathered
                                  \/ Marketplace \in contested \cup abandoned
    /\ status[s] = "pending"   => \/ decision[s] = "none"
                                  \/ filed[s] \/ filing[s] = "record"
                                  \/ s \in unrecorded
    /\ lost[s] # {} <=> restricted[s]

(* A suspended stall stays suspended until an operator decides again.  The *)
(* exception is one that was suspended between the read and the UPDATE of  *)
(* its seller's submission.  (SubmitStoreForReview, moderate.)             *)
SuspensionHolds ==
  \A s \in Stalls :
    decision[s] = "suspend" /\ s \notin overtaken => status[s] = "suspended"
=============================================================================
