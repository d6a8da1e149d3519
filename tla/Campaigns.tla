------------------------------ MODULE Campaigns ------------------------------
(***************************************************************************)
(* Bulk mail: the ScheduleCampaign resolver and CampaignService, whose     *)
(* ProcessDueCampaigns every API instance runs once a minute.  Each        *)
(* statement and each Publish is an action.  A published mail is only      *)
(* counted here; EmailWorker says what becomes of it.                      *)
(***************************************************************************)
EXTENDS Naturals, FiniteSets

CONSTANTS
  Campaigns,    \* rows of email_campaigns
  Instances,    \* API instances, each with its scheduler
  Recipients,   \* the tenant's active users
  MaxEdits,     \* bound: ScheduleCampaign calls per campaign
  MaxFaults     \* bound: failing calls and crashes

None == "none"

ASSUME CampaignAssumption ==
  /\ None \notin Campaigns
  /\ IsFiniteSet(Recipients)
  /\ MaxEdits \in Nat
  /\ MaxFaults \in Nat

VARIABLES
  status,           \* email_campaigns.status
  due,              \* campaigns whose scheduled_at has passed
  recipientCount,   \* email_campaigns.recipient_count
  batch,            \* of each instance: due campaigns read and not yet dispatched
  current,          \* the campaign being dispatched, or None
  step,             \* where dispatchCampaign is
  todo,             \* recipients still to queue
  count,            \* of each instance: mails it queued for the current campaign
  queued,           \* ghost: mails Publish accepted, per campaign and recipient
  edits,            \* ScheduleCampaign calls so far
  faults,           \* failing calls and crashes so far
  orphaned,         \* ghost: campaigns a crash or a failing call left behind
  queueless         \* instances that found Redis down when they booted

dispatchVars == <<batch, current, step, todo, count>>
vars == <<status, due, recipientCount, dispatchVars, queued, edits, faults, orphaned, queueless>>

Status == {"draft", "scheduled", "sending", "sent", "failed"}
Step   == {"rest", "load", "queue", "fail"}
Open   == {"draft", "scheduled"}

TypeOK ==
  /\ status         \in [Campaigns -> Status]
  /\ due            \in SUBSET Campaigns
  /\ recipientCount \in [Campaigns -> 0..Cardinality(Recipients)]
  /\ batch          \in [Instances -> SUBSET Campaigns]
  /\ current        \in [Instances -> Campaigns \cup {None}]
  /\ step           \in [Instances -> Step]
  /\ todo           \in [Instances -> SUBSET Recipients]
  /\ count          \in [Instances -> Nat]
  /\ queued         \in [Campaigns -> [Recipients -> Nat]]
  /\ edits          \in [Campaigns -> 0..MaxEdits]
  /\ faults         \in 0..MaxFaults
  /\ orphaned       \in SUBSET Campaigns
  /\ queueless      \in SUBSET Instances

Init ==
  /\ status         = [c \in Campaigns |-> "draft"]
  /\ due            = {}
  /\ recipientCount = [c \in Campaigns |-> 0]
  /\ batch          = [i \in Instances |-> {}]
  /\ current        = [i \in Instances |-> None]
  /\ step           = [i \in Instances |-> "rest"]
  /\ todo           = [i \in Instances |-> {}]
  /\ count          = [i \in Instances |-> 0]
  /\ queued         = [c \in Campaigns |-> [r \in Recipients |-> 0]]
  /\ edits          = [c \in Campaigns |-> 0]
  /\ faults         = 0
  /\ orphaned       = {}
  /\ queueless      \in SUBSET Instances

Fault       == faults < MaxFaults /\ faults' = faults + 1
Set(c, s)   == status' = [status EXCEPT ![c] = s]
Goto(i, s)  == step' = [step EXCEPT ![i] = s]
QueuedOf(c) == {r \in Recipients : queued[c][r] > 0}

----------------------------------------------------------------------------
(* The statuses ScheduleCampaign accepts. *)
Schedulable == Open

(* ScheduleCampaign, for now or for later. *)
ScheduleCampaign(c) ==
  /\ edits[c] < MaxEdits
  /\ edits' = [edits EXCEPT ![c] = @ + 1]
  /\ status[c] \in Schedulable
  /\ Set(c, "scheduled")
  /\ due' \in {due \cup {c}, due \ {c}}
  /\ UNCHANGED <<recipientCount, dispatchVars, queued, faults, orphaned, queueless>>

(* scheduled_at passes. *)
TimePasses(c) ==
  /\ status[c] = "scheduled"
  /\ c \notin due
  /\ due' = due \cup {c}
  /\ UNCHANGED <<status, recipientCount, dispatchVars, queued, edits, faults, orphaned, queueless>>

(* ProcessDueCampaigns: one query for the whole batch.  Without a queue at *)
(* boot it returns at once, tick after tick.                               *)
ReadDue(i) ==
  /\ i \notin queueless
  /\ step[i] = "rest"
  /\ batch[i] = {}
  /\ batch' = [batch EXCEPT ![i] = {c \in due : status[c] = "scheduled"}]
  /\ batch'[i] # {}
  /\ UNCHANGED <<status, due, recipientCount, current, step, todo, count, queued, edits, faults, orphaned, queueless>>

(* The next campaign of the batch goes to step s. *)
TakeNext(i, c, s) ==
  /\ step[i] = "rest"
  /\ c \in batch[i]
  /\ batch' = [batch EXCEPT ![i] = @ \ {c}]
  /\ current' = [current EXCEPT ![i] = c]
  /\ Goto(i, s)

(* Seeded fault: the claim does not look at the status. *)
ClaimAny(i, c) ==
  /\ TakeNext(i, c, "load")
  /\ Set(c, "sending")
  /\ UNCHANGED <<due, recipientCount, todo, count, queued, edits, faults, orphaned, queueless>>

(* UPDATE ... 'sending' WHERE status = 'scheduled' hit the row. *)
Claim(i, c) ==
  /\ TakeNext(i, c, "load")
  /\ status[c] = "scheduled"
  /\ Set(c, "sending")
  /\ UNCHANGED <<due, recipientCount, todo, count, queued, edits, faults, orphaned, queueless>>

(* It hit none: already claimed elsewhere. *)
SkipClaimed(i, c) ==
  /\ step[i] = "rest"
  /\ c \in batch[i]
  /\ status[c] # "scheduled"
  /\ batch' = [batch EXCEPT ![i] = @ \ {c}]
  /\ UNCHANGED <<status, due, recipientCount, current, step, todo, count, queued, edits, faults, orphaned, queueless>>

ClaimFails(i, c) ==
  /\ Fault
  /\ TakeNext(i, c, "fail")
  /\ UNCHANGED <<status, due, recipientCount, todo, count, queued, edits, orphaned, queueless>>

LoadRecipients(i) ==
  /\ step[i] = "load"
  /\ todo' = [todo EXCEPT ![i] = Recipients]
  /\ count' = [count EXCEPT ![i] = 0]
  /\ Goto(i, "queue")
  /\ UNCHANGED <<status, due, recipientCount, batch, current, queued, edits, faults, orphaned, queueless>>

LoadFails(i) ==
  /\ Fault
  /\ step[i] = "load"
  /\ Goto(i, "fail")
  /\ UNCHANGED <<status, due, recipientCount, batch, current, todo, count, queued, edits, orphaned, queueless>>

(* One recipient: the log row, then Publish, which may fail. *)
QueueMail(i) ==
  /\ step[i] = "queue"
  /\ \E r \in todo[i] :
       /\ todo' = [todo EXCEPT ![i] = @ \ {r}]
       /\ \/ /\ queued' = [queued EXCEPT ![current[i]][r] = @ + 1]
             /\ count' = [count EXCEPT ![i] = @ + 1]
             /\ UNCHANGED faults
          \/ Fault /\ UNCHANGED <<count, queued>>
  /\ UNCHANGED <<status, due, recipientCount, batch, current, step, edits, orphaned, queueless>>

(* Seeded fault: the count of recipients loaded is recorded. *)
FinalizeAll(i) ==
  /\ step[i] = "queue"
  /\ todo[i] = {}
  /\ Set(current[i], "sent")
  /\ recipientCount' = [recipientCount EXCEPT ![current[i]] = Cardinality(Recipients)]
  /\ Goto(i, "rest")
  /\ current' = [current EXCEPT ![i] = None]
  /\ UNCHANGED <<due, batch, todo, count, queued, edits, faults, orphaned, queueless>>

(* 'sent', whatever the status is by now, with the number this run queued. *)
Finalize(i) ==
  /\ step[i] = "queue"
  /\ todo[i] = {}
  /\ Set(current[i], "sent")
  /\ recipientCount' = [recipientCount EXCEPT ![current[i]] = count[i]]
  /\ Goto(i, "rest")
  /\ current' = [current EXCEPT ![i] = None]
  /\ UNCHANGED <<due, batch, todo, count, queued, edits, faults, orphaned, queueless>>

FinalizeFails(i) ==
  /\ Fault
  /\ step[i] = "queue"
  /\ todo[i] = {}
  /\ Goto(i, "fail")
  /\ UNCHANGED <<status, due, recipientCount, batch, current, todo, count, queued, edits, orphaned, queueless>>

(* Seeded fault: an error is only printed. *)
PrintError(i) ==
  /\ step[i] = "fail"
  /\ UNCHANGED <<status, faults, orphaned, queueless>>
  /\ Goto(i, "rest")
  /\ current' = [current EXCEPT ![i] = None]
  /\ UNCHANGED <<due, recipientCount, batch, todo, count, queued, edits>>

(* dispatchCampaign returned an error: 'failed', whatever the status is. *)
MarkFailed(i) ==
  /\ step[i] = "fail"
  /\ \/ Set(current[i], "failed") /\ UNCHANGED <<faults, orphaned, queueless>>
     \/ Fault /\ orphaned' = orphaned \cup {current[i]} /\ UNCHANGED status
  /\ Goto(i, "rest")
  /\ current' = [current EXCEPT ![i] = None]
  /\ UNCHANGED <<due, recipientCount, batch, todo, count, queued, edits, queueless>>

(* An instance stops and starts again: nothing returns to 'sending' rows,  *)
(* and whether it has a queue depends on Redis at this boot.               *)
Crash(i) ==
  /\ Fault
  /\ orphaned' = orphaned \cup ({current[i]} \ {None})
  /\ queueless' \in {queueless \cup {i}, queueless \ {i}}
  /\ batch'   = [batch EXCEPT ![i] = {}]
  /\ current' = [current EXCEPT ![i] = None]
  /\ todo'    = [todo EXCEPT ![i] = {}]
  /\ Goto(i, "rest")
  /\ UNCHANGED <<status, due, recipientCount, count, queued, edits>>

Schedule(i) ==
  \/ ReadDue(i)
  \/ \E c \in Campaigns : Claim(i, c) \/ SkipClaimed(i, c) \/ ClaimFails(i, c)
  \/ LoadRecipients(i)
  \/ LoadFails(i)
  \/ QueueMail(i)
  \/ Finalize(i)
  \/ FinalizeFails(i)
  \/ MarkFailed(i)

Next ==
  \/ \E c \in Campaigns : ScheduleCampaign(c) \/ TimePasses(c)
  \/ \E i \in Instances : Schedule(i) \/ Crash(i)

Spec == Init /\ [][Next]_vars

(* Time passes, and every instance's ticker keeps ticking. *)
LiveSpec ==
  /\ Spec
  /\ \A c \in Campaigns : WF_vars(TimePasses(c))
  /\ \A i \in Instances : WF_vars(Schedule(i))

----------------------------------------------------------------------------
(***************************************************************************)
(* "Claim the campaign so a second scheduler tick can't double-send it":   *)
(* however instances, errors and reschedulings interleave, one recipient   *)
(* gets one mail per campaign.                                             *)
(***************************************************************************)
QueuedOnce ==
  \A c \in Campaigns, r \in Recipients : queued[c][r] <= 1

(***************************************************************************)
(* A campaign shown as sent reports the number of mails that were queued,  *)
(* although other instances may have written its row in between.           *)
(***************************************************************************)
SentCountsQueued ==
  \A c \in Campaigns :
    status[c] = "sent" => recipientCount[c] = Cardinality(QueuedOf(c))

(***************************************************************************)
(* No mail leaves, and no count is written, for a campaign the owner can   *)
(* still move: a schedulable campaign is not in anybody's dispatch.        *)
(***************************************************************************)
OpenIsUntouched ==
  \A c \in Campaigns : status[c] \in Open =>
    /\ QueuedOf(c) = {}
    /\ recipientCount[c] = 0
    /\ \A i \in Instances : current[i] = c => step[i] = "fail"

(***************************************************************************)
(* A campaign's row tells what was queued for it: the two above.  Every    *)
(* variable keeps its type: no row reports more mails than users.          *)
(***************************************************************************)
RowTellsTheMails == TypeOK /\ SentCountsQueued /\ OpenIsUntouched

(***************************************************************************)
(* Every scheduled campaign ends sent or failed.  There are two ways out,  *)
(* and both are for ever: its row keeps saying "sending" after a crash or  *)
(* a failing update of the instance that had claimed it, and it stays      *)
(* scheduled when every API instance booted without Redis.                 *)
(***************************************************************************)
DueIsDecided ==
  \A c \in Campaigns :
    status[c] = "scheduled" ~>
      \/ status[c] \in {"sent", "failed"}
      \/ [](status[c] = "sending" /\ c \in orphaned)
      \/ [](queueless = Instances)
=============================================================================
