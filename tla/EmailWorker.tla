----------------------------- MODULE EmailWorker -----------------------------
(***************************************************************************)
(* Transactional and campaign mail from the log row to Resend's events:    *)
(* EmailService.SendTransactional publishes, cmd/worker processes the jobs *)
(* of JobQueue, and handlers/email_tracking.go applies what Resend and the *)
(* tracking pixel report.  Each database, Redis and Resend call of the     *)
(* worker is an action; Resend is external and may report any event about  *)
(* a message it accepted at any time, in any order, and again.             *)
(***************************************************************************)
EXTENDS JobQueue

CONSTANTS
  Recipients,   \* addresses
  To,           \* the address each job goes to
  Reports       \* the kinds of event Resend reports

ASSUME EmailAssumption ==
  /\ To \in [Jobs -> Recipients]
  /\ Reports \subseteq {"delivered", "opened", "clicked", "bounced", "complained"}

VARIABLES
  step,         \* of each worker inside processFunc
  log,          \* email_logs.status, "none" when the insert failed
  known,        \* jobs whose log row has Resend's message id
  bouncing,     \* jobs whose bounce or complaint is logged, its address not yet suppressed
  suppressed,   \* addresses in email_suppressions
  accepted,     \* ghost: how often Resend accepted each job's mail
  late          \* ghost: mails accepted for an address already suppressed

mailVars == <<step, log, known, bouncing, suppressed, accepted, late>>
vars == <<queueVars, mailVars>>

Step   == {"rest", "check", "send", "record"}
Status == {"none", "queued", "sent", "delivered", "opened", "clicked", "bounced",
           "complained", "failed"}

TypeOK ==
  /\ QueueTypeOK
  /\ step       \in [Workers -> Step]
  /\ log        \in [Jobs -> Status]
  /\ known      \in SUBSET Jobs
  /\ bouncing   \in SUBSET Jobs
  /\ suppressed \in SUBSET Recipients
  /\ accepted   \in [Jobs -> Nat]
  /\ late       \in [Recipients -> Nat]

Init ==
  /\ QueueInit
  /\ step       = [w \in Workers |-> "rest"]
  /\ log        = [j \in Jobs |-> "none"]
  /\ known      = {}
  /\ bouncing   = {}
  /\ suppressed = {}
  /\ accepted   = [j \in Jobs |-> 0]
  /\ late       = [r \in Recipients |-> 0]

Goto(w, s) == step' = [step EXCEPT ![w] = s]
Job(w)     == busy[w].job

(* UPDATE email_logs SET status ... WHERE id = log_id; without a row, nothing. *)
Logged(j, s) == IF log[j] = "none" THEN log ELSE [log EXCEPT ![j] = s]

----------------------------------------------------------------------------
(* SendTransactional: the log row, whose failure is only a warning, then Publish. *)
SendTransactional(j) ==
  /\ Publish(j)
  /\ \/ log' = [log EXCEPT ![j] = "queued"] /\ UNCHANGED faults
     \/ Fault /\ UNCHANGED log
  /\ UNCHANGED <<step, known, bouncing, suppressed, accepted, late>>

TakeJob(w) ==
  /\ Pop(w)
  /\ Goto(w, "check")
  /\ UNCHANGED <<log, known, bouncing, suppressed, accepted, late>>

Promote(w) ==
  /\ ReadDue(w) \/ Move(w) \/ MoveFails(w)
  /\ UNCHANGED mailVars

(* Waiting for a job that does not come. *)
Poll(w) ==
  /\ PopNothing(w) \/ ReadNothing(w)
  /\ UNCHANGED mailVars

(* The address is suppressed: the log says so if it can, and the job is done. *)
SkipSuppressed(w) ==
  /\ step[w] = "check"
  /\ To[Job(w)] \in suppressed
  /\ \/ log' = Logged(Job(w), "failed") /\ UNCHANGED faults
     \/ Fault /\ UNCHANGED log
  /\ Ack(w)
  /\ Goto(w, "rest")
  /\ UNCHANGED <<known, bouncing, suppressed, accepted, late>>

(* Seeded fault: the suppression check is left to a later version. *)
CheckNothing(w) ==
  /\ step[w] = "check"
  /\ Goto(w, "send")
  /\ UNCHANGED <<queueVars, log, known, bouncing, suppressed, accepted, late>>

(* Not suppressed now, and the template loads and renders. *)
CheckPasses(w) ==
  /\ step[w] = "check"
  /\ To[Job(w)] \notin suppressed
  /\ Goto(w, "send")
  /\ UNCHANGED <<queueVars, log, known, bouncing, suppressed, accepted, late>>

ReturnError(w) == GiveBack(w) /\ Goto(w, "rest")

(* The suppression query, the template or its rendering fails. *)
CheckFails(w) ==
  /\ step[w] = "check"
  /\ ReturnError(w)
  /\ UNCHANGED <<log, known, bouncing, suppressed, accepted, late>>

Accept(j) ==
  /\ accepted' = [accepted EXCEPT ![j] = @ + 1]
  /\ late' = IF To[j] \in suppressed THEN [late EXCEPT ![To[j]] = @ + 1] ELSE late

Send(w) ==
  /\ step[w] = "send"
  /\ Accept(Job(w))
  /\ Goto(w, "record")
  /\ UNCHANGED <<queueVars, log, known, bouncing, suppressed>>

(* Resend's client returns an error, perhaps after Resend accepted the mail. *)
SendFails(w) ==
  /\ step[w] = "send"
  /\ Accept(Job(w)) \/ UNCHANGED <<accepted, late>>
  /\ \/ log' = Logged(Job(w), "failed") /\ ReturnError(w)
     \/ Fault /\ UNCHANGED log /\ (Retry(w) \/ Bury(w)) /\ Goto(w, "rest")
  /\ UNCHANGED <<known, bouncing, suppressed>>

(* The log row gets 'sent' and the message id, or the update fails; the    *)
(* job is done either way.                                                 *)
RecordSent(w) ==
  /\ step[w] = "record"
  /\ \/ /\ log' = Logged(Job(w), "sent")
        /\ known' = IF log[Job(w)] = "none" THEN known ELSE known \cup {Job(w)}
        /\ UNCHANGED faults
     \/ Fault /\ UNCHANGED <<log, known>>
  /\ Ack(w)
  /\ Goto(w, "rest")
  /\ UNCHANGED <<bouncing, suppressed, accepted, late>>

Die(w) ==
  /\ Kill(w)
  /\ Goto(w, "rest")
  /\ UNCHANGED <<log, known, bouncing, suppressed, accepted, late>>

----------------------------------------------------------------------------
Openable == {"queued", "sent", "delivered"}

(* The tracking pixel, by log id: works before the message id is stored. *)
HandleOpen(j) ==
  /\ accepted[j] > 0
  /\ log[j] \in Openable
  /\ log' = [log EXCEPT ![j] = "opened"]
  /\ UNCHANGED <<queueVars, step, known, bouncing, suppressed, accepted, late>>

(* The statuses an event of Resend replaces. *)
Replaces(report) ==
  CASE report = "delivered" -> {"queued", "sent"}
    [] report = "opened"    -> Openable
    [] OTHER                -> Status \ {"none"}

(* HandleResendWebhook, by message id.  An id no row has yet changes       *)
(* nothing and is acknowledged.  The update may fail and is only printed.  *)
(* The address of a bounce or a complaint is yet to be suppressed, unless  *)
(* it is: ON CONFLICT DO NOTHING.                                          *)
HandleResendWebhook(j, report) ==
  /\ accepted[j] > 0
  /\ j \in known
  /\ \/ /\ log' = IF log[j] \in Replaces(report) THEN [log EXCEPT ![j] = report] ELSE log
        /\ UNCHANGED faults
     \/ Fault /\ UNCHANGED log
  /\ bouncing' = IF report \in {"bounced", "complained"} /\ To[j] \notin suppressed
                   THEN bouncing \cup {j} ELSE bouncing
  /\ UNCHANGED <<pending, scheduled, dead, busy, polled, promoting, published, retries, acked,
                 lost, extra, tries, step, known, suppressed, accepted, late>>

(* suppress: the second statement of a bounce or a complaint, unless it    *)
(* fails.                                                                  *)
Suppress(j) ==
  /\ j \in bouncing
  /\ bouncing' = bouncing \ {j}
  /\ \/ suppressed' = suppressed \cup {To[j]} /\ UNCHANGED faults
     \/ Fault /\ UNCHANGED suppressed
  /\ UNCHANGED <<pending, scheduled, dead, busy, polled, promoting, published, retries, acked,
                 lost, extra, tries, step, log, known, accepted, late>>

Work(w) ==
  \/ TakeJob(w)
  \/ Poll(w)
  \/ Promote(w)
  \/ SkipSuppressed(w)
  \/ CheckPasses(w)
  \/ CheckFails(w)
  \/ Send(w)
  \/ SendFails(w)
  \/ RecordSent(w)

Next ==
  \/ \E j \in Jobs :
       \/ SendTransactional(j)
       \/ HandleOpen(j)
       \/ Suppress(j)
       \/ \E report \in Reports : HandleResendWebhook(j, report)
  \/ \E w \in Workers : Work(w) \/ Die(w)

Spec == Init /\ [][Next]_vars

(* The worker process keeps running: its loop never stops for good.  A     *)
(* backoff passes: an entry in the set while workers go on reading is      *)
(* found due in the end.                                                   *)
LiveSpec ==
  /\ Spec
  /\ \A w \in Workers : WF_vars(Work(w))
  /\ SF_vars(\E w \in Workers : ReadDue(w) /\ UNCHANGED mailVars)

----------------------------------------------------------------------------
(***************************************************************************)
(* "So the worker never emails them again": once an address is suppressed, *)
(* it is sent at most the mails whose check had passed, one per worker.    *)
(***************************************************************************)
SuppressionHolds ==
  \A r \in Recipients : late[r] <= Cardinality(Workers)

(***************************************************************************)
(* "Retried until the attempt ceiling", and no further: a mail that nobody *)
(* promoted twice reaches Resend at most once per attempt, although a      *)
(* failed call may have been accepted, and dies after the last attempt.    *)
(***************************************************************************)
MailsPerAttempt ==
  AttemptCeiling /\ \A j \in Jobs : extra[j] = 0 => accepted[j] <= tries[j]

(***************************************************************************)
(* A job is acknowledged only when its mail was accepted or its address    *)
(* was suppressed: no error of the worker swallows a mail.                 *)
(***************************************************************************)
AckedMeansHandled ==
  \A j \in Jobs : acked[j] > 0 => accepted[j] > 0 \/ To[j] \in suppressed

(***************************************************************************)
(* Every job has the end it deserves: no copy of it vanishes, and it is    *)
(* acknowledged for a reason.                                              *)
(***************************************************************************)
JobsAccounted == JobsConserved /\ AckedMeansHandled

(***************************************************************************)
(* Every published job ends: acknowledged, dead, or lost with its worker.  *)
(* (Publishing stops at MaxJobs, so all have ended again and again.)       *)
(***************************************************************************)
EveryJobEnds ==
  []<>(\A j \in 1..published : acked[j] + dead[j] + lost[j] > 0)
=============================================================================
