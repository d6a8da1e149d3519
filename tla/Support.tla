------------------------------ MODULE Support ------------------------------
(***************************************************************************)
(* Support tickets: mail comes in (HandleInboundEmail), staff reply and    *)
(* change the status (TicketService), a drafter per API process has a      *)
(* language model answer recent tickets and may send the answer and        *)
(* resolve the ticket (AutoReplyService), and a checker per API process    *)
(* reports tickets nobody answered in time (SLAService).  None of them     *)
(* locks a ticket, so a drafter's answer is sent minutes after the thread  *)
(* was read.  Times are counted in messages: the time of an event is the   *)
(* length the ticket's thread had.  The language model and Slack are       *)
(* external and may fail.                                                  *)
(***************************************************************************)
EXTENDS Naturals, Sequences, FiniteSets

CONSTANTS
  Tickets,      \* rows of tickets
  Handlers,     \* inbound mails in flight
  Drafters,     \* one goroutine of cmd/api per process
  Checkers,     \* one goroutine of cmd/api per process
  BatchSize,    \* AutoReplyConfig.BatchSize
  AlertBatch,   \* the LIMIT of the query for overdue tickets, 10
  MaxDraftsPerDay, \* AutoReplyConfig.MaxDraftsPerDay; the model is of one day
  MaxMails,     \* bound: customer messages in a thread
  MaxReplies,   \* bound: staff messages in a thread
  MaxFaults     \* bound: failing statements and calls, processes that end

ASSUME SupportAssumption ==
  /\ IsFiniteSet(Checkers)
  /\ BatchSize \in Nat \ {0} /\ AlertBatch \in Nat \ {0} /\ MaxDraftsPerDay \in Nat \ {0}
  /\ MaxMails \in Nat /\ MaxReplies \in Nat /\ MaxFaults \in Nat

VARIABLES
  status,       \* tickets.status, "none" before the row exists
  thread,       \* authors of ticket_messages, "note" for an internal one
  first,        \* tickets.first_response_at, 0 for NULL
  resolvedAt,   \* tickets.resolved_at, 0 for NULL
  drafted,      \* tickets with an ai_draft_body
  threaded,     \* tickets some message of which carries its Message-ID
  age,          \* fresh, at risk within 15 minutes of an hour, overdue after
  alerted,      \* tickets.last_alerted_at: never, recent, or an hour ago
  inbound,      \* mails in flight
  drafter,      \* where each drafter is in its pass
  asked,        \* rows of ai_logs about auto_reply today
  checker,      \* where each SLA check is
  posts,        \* ghost: Slack messages about a ticket since it was last an hour
  missed,       \* ghost: tickets whose reopening failed
  faults        \* failures so far

ticketVars == <<status, thread, first, resolvedAt, drafted, threaded>>
alertVars  == <<age, alerted, checker, posts>>
vars == <<ticketVars, alertVars, inbound, drafter, asked, missed, faults>>

Status == {"open", "pending", "resolved", "closed"}
Shut   == {"resolved", "closed"}
Author == {"customer", "staff", "ai", "note"}
Idle   == [at |-> "rest"]

TypeOK ==
  /\ status     \in [Tickets -> Status \cup {"none"}]
  /\ thread     \in [Tickets -> Seq(Author)]
  /\ \A t \in Tickets : first[t] \in 0..Len(thread[t]) /\ resolvedAt[t] \in 0..Len(thread[t])
  /\ drafted    \in SUBSET Tickets
  /\ threaded   \in SUBSET Tickets
  /\ age        \in [Tickets -> {"fresh", "at risk", "overdue"}]
  /\ alerted    \in [Tickets -> {"never", "recent", "old"}]
  /\ inbound    \in [Handlers -> [at : {"reopen", "label"}, of : Tickets] \cup {Idle}]
  /\ drafter    \in [Drafters ->
        [at : {"batch"}, left : SUBSET Tickets]
          \cup [at : {"ask", "send", "resolve"}, of : Tickets, read : Nat, left : SUBSET Tickets]
          \cup {Idle}]
  /\ asked      \in Nat
  /\ checker    \in [Checkers -> [at : {"mark", "post"}, of : SUBSET Tickets] \cup {Idle}]
  /\ posts      \in [Tickets -> Nat]
  /\ missed     \in SUBSET Tickets
  /\ faults     \in 0..MaxFaults

Init ==
  /\ status     = [t \in Tickets |-> "none"]
  /\ thread     = [t \in Tickets |-> <<>>]
  /\ first      = [t \in Tickets |-> 0]
  /\ resolvedAt = [t \in Tickets |-> 0]
  /\ drafted    = {}
  /\ threaded   = {}
  /\ age        = [t \in Tickets |-> "fresh"]
  /\ alerted    = [t \in Tickets |-> "never"]
  /\ inbound    = [h \in Handlers |-> Idle]
  /\ drafter    = [d \in Drafters |-> Idle]
  /\ asked      = 0
  /\ checker    = [c \in Checkers |-> Idle]
  /\ posts      = [t \in Tickets |-> 0]
  /\ missed     = {}
  /\ faults     = 0

Fault        == faults < MaxFaults /\ faults' = faults + 1
Exists(t)    == status[t] # "none"
Now(t)       == Len(thread[t])
Count(t, who) == Cardinality({i \in 1..Now(t) : thread[t][i] \in who})
Say(t, who)  == thread' = [thread EXCEPT ![t] = Append(@, who)]

(* first_response_at is set only where it is NULL. *)
RecordFirst(t) == first' = [first EXCEPT ![t] = IF @ = 0 THEN Now(t) + 1 ELSE @]

(* UpdateTicketStatus: any status from any, resolved_at by COALESCE. *)
SetStatus(t, s) ==
  /\ status' = [status EXCEPT ![t] = s]
  /\ resolvedAt' = IF s \in Shut THEN [resolvedAt EXCEPT ![t] = Now(t)] ELSE resolvedAt

----------------------------------------------------------------------------
(* Customers: the web form, a first mail, and a reply to an earlier mail.   *)

NewTicket(t) ==
  /\ ~ Exists(t)
  /\ status' = [status EXCEPT ![t] = "open"]
  /\ Say(t, "customer")
  /\ UNCHANGED <<first, resolvedAt, drafted, threaded, alertVars, drafter, asked, missed, faults>>

CreateTicket(t) == NewTicket(t) /\ UNCHANGED inbound

(* No known In-Reply-To: a ticket, whose Message-ID another statement stores. *)
FileNewMail(h, t) ==
  /\ inbound[h] = Idle
  /\ NewTicket(t)
  /\ inbound' = [inbound EXCEPT ![h] = [at |-> "label", of |-> t]]

StoreMessageID(h) ==
  /\ inbound[h].at = "label"
  /\ \/ threaded' = threaded \cup {inbound[h].of} /\ UNCHANGED faults
     \/ Fault /\ UNCHANGED threaded
  /\ inbound' = [inbound EXCEPT ![h] = Idle]
  /\ UNCHANGED <<status, thread, first, resolvedAt, drafted, alertVars, drafter, asked, missed>>

FileReply(h, t) ==
  /\ inbound[h] = Idle
  /\ t \in threaded
  /\ Count(t, {"customer"}) < MaxMails
  /\ Say(t, "customer")
  /\ inbound' = [inbound EXCEPT ![h] = [at |-> "reopen", of |-> t]]
  /\ UNCHANGED <<status, first, resolvedAt, drafted, threaded, alertVars, drafter, asked, missed, faults>>

(* Seeded fault: only resolved tickets are reopened. *)
ReopenedIfResolved(s) == IF s = "resolved" THEN "open" ELSE s

Reopened(s) == IF s \in Shut THEN "open" ELSE s

(* A failure is printed; the mail is acknowledged all the same. *)
Reopen(h) ==
  LET t == inbound[h].of IN
  /\ inbound[h].at = "reopen"
  /\ \/ status' = [status EXCEPT ![t] = Reopened(@)] /\ UNCHANGED <<missed, faults>>
     \/ Fault /\ missed' = missed \cup {t} /\ UNCHANGED status
  /\ inbound' = [inbound EXCEPT ![h] = Idle]
  /\ UNCHANGED <<thread, first, resolvedAt, drafted, threaded, alertVars, drafter, asked>>

----------------------------------------------------------------------------
(* Staff.                                                                   *)

(* Seeded fault: an internal note counts as the first response. *)
ReplyCountingNotes(t, internal) ==
  /\ Exists(t)
  /\ Count(t, {"staff", "note"}) < MaxReplies
  /\ Say(t, IF internal THEN "note" ELSE "staff")
  /\ IF first[t] # 0
       THEN UNCHANGED <<status, first>>
       ELSE RecordFirst(t) /\ status' = [status EXCEPT ![t] = "pending"]
  /\ UNCHANGED <<resolvedAt, drafted, threaded, alertVars, inbound, drafter, asked, missed, faults>>

(* Only the first public reply makes the ticket pending. *)
ReplyToTicket(t, internal) ==
  /\ Exists(t)
  /\ Count(t, {"staff", "note"}) < MaxReplies
  /\ Say(t, IF internal THEN "note" ELSE "staff")
  /\ IF internal \/ first[t] # 0
       THEN UNCHANGED <<status, first>>
       ELSE RecordFirst(t) /\ status' = [status EXCEPT ![t] = "pending"]
  /\ UNCHANGED <<resolvedAt, drafted, threaded, alertVars, inbound, drafter, asked, missed, faults>>

UpdateTicketStatus(t, s) ==
  /\ Exists(t)
  /\ SetStatus(t, s)
  /\ UNCHANGED <<thread, first, drafted, threaded, alertVars, inbound, drafter, asked, missed, faults>>

----------------------------------------------------------------------------
(* The drafter: ProcessNewTickets, and GenerateDraft for each ticket.       *)

NeedsDraft(t) == status[t] = "open" /\ t \notin drafted /\ age[t] # "overdue"

Rest(left) == IF left = {} THEN Idle ELSE [at |-> "batch", left |-> left]

Drafting(d, place) == drafter[d].at = place
NextTarget(d)      == drafter' = [drafter EXCEPT ![d] = Rest(drafter[d].left)]
DraftStep(d, place) == drafter' = [drafter EXCEPT ![d].at = place]

(* Up to a batch of the tickets without a draft, once the day's count allows. *)
ProcessNewTickets(d) ==
  /\ Drafting(d, "rest")
  /\ asked < MaxDraftsPerDay
  /\ \E targets \in SUBSET {t \in Tickets : NeedsDraft(t)} :
       /\ targets # {}
       /\ Cardinality(targets) <= BatchSize
       /\ drafter' = [drafter EXCEPT ![d] = Rest(targets)]
  /\ UNCHANGED <<ticketVars, alertVars, inbound, asked, missed, faults>>

(* Whatever became of the ticket since it was selected, its thread is read. *)
ReadThread(d) ==
  /\ Drafting(d, "batch")
  /\ \E t \in drafter[d].left :
       drafter' = [drafter EXCEPT ![d] = [at |-> "ask", of |-> t, read |-> Now(t),
                                          left |-> drafter[d].left \ {t}]]
  /\ UNCHANGED <<ticketVars, alertVars, inbound, asked, missed, faults>>

(* The model's answer is stored; a confident one is sent as well. *)
StoreDraft(d) ==
  /\ Drafting(d, "ask")
  /\ asked' = asked + 1
  /\ drafted' = drafted \cup {drafter[d].of}
  /\ DraftStep(d, "send") \/ NextTarget(d)
  /\ UNCHANGED <<status, thread, first, resolvedAt, threaded, alertVars, inbound, missed, faults>>

(* One transaction: the message and the first response. *)
SendAIReply(d) ==
  LET t == drafter[d].of IN
  /\ Drafting(d, "send")
  /\ Say(t, "ai")
  /\ RecordFirst(t)
  /\ DraftStep(d, "resolve")
  /\ UNCHANGED <<status, resolvedAt, drafted, threaded, alertVars, inbound, asked, missed, faults>>

ResolveAnswered(d) ==
  /\ Drafting(d, "resolve")
  /\ SetStatus(drafter[d].of, "resolved")
  /\ NextTarget(d)
  /\ UNCHANGED <<thread, first, drafted, threaded, alertVars, inbound, asked, missed, faults>>

(* A failing call or statement ends this ticket, a dying process the batch. *)
DraftFails(d) ==
  /\ Fault
  /\ ~ Drafting(d, "rest")
  /\ \/ ~ Drafting(d, "batch") /\ NextTarget(d)
     \/ Drafting(d, "batch") /\ \E t \in drafter[d].left :
          drafter' = [drafter EXCEPT ![d] = Rest(@.left \ {t})]
     \/ drafter' = [drafter EXCEPT ![d] = Idle]
  /\ asked' \in IF Drafting(d, "ask") THEN {asked, asked + 1} ELSE {asked}
  /\ UNCHANGED <<ticketVars, alertVars, inbound, missed>>

----------------------------------------------------------------------------
(* The SLA checker and the clock.                                           *)

Due(t)     == status[t] = "open" /\ first[t] = 0 /\ age[t] # "fresh"
(* Seeded fault: a ticket alerted once is never looked at again. *)
MayAlertOnce(t) == alerted[t] = "never"

MayAlert(t) == alerted[t] # "recent"

(* All of the tickets to report, or AlertBatch of them: their deadlines,   *)
(* by which the query orders them, may be in any order.                    *)
CheckSLABreaches(c) ==
  /\ checker[c] = Idle
  /\ LET due == {t \in Tickets : Due(t) /\ MayAlert(t)} IN
     \E batch \in SUBSET due \ {{}} :
       /\ \/ batch = due /\ Cardinality(due) <= AlertBatch
          \/ Cardinality(batch) = AlertBatch
       /\ checker' = [checker EXCEPT ![c] = [at |-> "mark", of |-> batch]]
  /\ UNCHANGED <<ticketVars, age, alerted, posts, inbound, drafter, asked, missed, faults>>

(* Seeded fault: the alert goes out and nothing is marked. *)
MarkNothing(c) ==
  /\ checker[c].at = "mark"
  /\ checker' = [checker EXCEPT ![c].at = "post"]
  /\ UNCHANGED <<ticketVars, age, alerted, posts, inbound, drafter, asked, missed, faults>>

MarkAlerted(c) ==
  /\ checker[c].at = "mark"
  /\ alerted' = [t \in Tickets |-> IF t \in checker[c].of THEN "recent" ELSE alerted[t]]
  /\ checker' = [checker EXCEPT ![c].at = "post"]
  /\ UNCHANGED <<ticketVars, age, posts, inbound, drafter, asked, missed, faults>>

PostToSlack(c) ==
  /\ checker[c].at = "post"
  /\ posts' = [t \in Tickets |-> posts[t] + (IF t \in checker[c].of THEN 1 ELSE 0)]
  /\ checker' = [checker EXCEPT ![c] = Idle]
  /\ UNCHANGED <<ticketVars, age, alerted, inbound, drafter, asked, missed, faults>>

(* The UPDATE or the post fails, or the process ends. *)
CheckFails(c) ==
  /\ checker[c] # Idle
  /\ Fault
  /\ checker' = [checker EXCEPT ![c] = Idle]
  /\ UNCHANGED <<ticketVars, age, alerted, posts, inbound, drafter, asked, missed>>

GrowOld(t) ==
  /\ Exists(t)
  /\ \/ age[t] = "fresh" /\ age' = [age EXCEPT ![t] = "at risk"]
     \/ age[t] = "at risk" /\ age' = [age EXCEPT ![t] = "overdue"]
  /\ UNCHANGED <<ticketVars, alerted, checker, posts, inbound, drafter, asked, missed, faults>>

(* A check lasts seconds: none is at work on a ticket for an hour. *)
HourPasses(t) ==
  /\ alerted[t] = "recent"
  /\ \A c \in Checkers : checker[c] # Idle => t \notin checker[c].of
  /\ alerted' = [alerted EXCEPT ![t] = "old"]
  /\ posts' = [posts EXCEPT ![t] = 0]
  /\ UNCHANGED <<ticketVars, age, checker, inbound, drafter, asked, missed, faults>>

----------------------------------------------------------------------------
Inbound(h) == StoreMessageID(h) \/ Reopen(h) \/ \E t \in Tickets : FileNewMail(h, t) \/ FileReply(h, t)
Staff(t)   == (\E b \in BOOLEAN : ReplyToTicket(t, b)) \/ (\E s \in Status : UpdateTicketStatus(t, s))
Draft(d)   == ProcessNewTickets(d) \/ ReadThread(d) \/ StoreDraft(d) \/ SendAIReply(d)
                \/ ResolveAnswered(d) \/ DraftFails(d)
Check(c)   == CheckSLABreaches(c) \/ MarkAlerted(c) \/ PostToSlack(c)

Next ==
  \/ \E h \in Handlers : Inbound(h)
  \/ \E t \in Tickets : CreateTicket(t) \/ Staff(t) \/ GrowOld(t) \/ HourPasses(t)
  \/ \E d \in Drafters : Draft(d)
  \/ \E c \in Checkers : Check(c) \/ CheckFails(c)

Spec == Init /\ [][Next]_vars

(* The ticker of a live process keeps checking, and the clock goes on. *)
LiveSpec ==
  /\ Spec
  /\ \A c \in Checkers : WF_vars(Check(c))
  /\ \A t \in Tickets : WF_vars(HourPasses(t))

----------------------------------------------------------------------------
(* The first response a ticket's SLA is judged by is the first message of  *)
(* staff or of the assistant the customer can see, whoever interleaved     *)
(* with whom: an internal note never stops the clock.  With it, that every *)
(* variable keeps its type.                                                *)
FirstResponseIsFirst ==
  TypeOK /\ \A t \in Tickets :
    LET public == {i \in 1..Now(t) : thread[t][i] \in {"staff", "ai"}} IN
    IF first[t] = 0 THEN public = {} ELSE first[t] \in public /\ \A i \in public : first[t] <= i

(* A customer who writes again on a resolved or closed ticket gets it       *)
(* reopened: only a reopening that is under way, or one that failed, leaves *)
(* a ticket shut with a customer's message later than its shutting.         *)
ReplyReopens ==
  \A t \in Tickets :
    status[t] \in Shut =>
      \A i \in (resolvedAt[t] + 1)..Now(t) : thread[t][i] = "customer" =>
        t \in missed \/ \E h \in Handlers : inbound[h] = [at |-> "reopen", of |-> t]

(* The five-minute ticker does not spam: within an hour each process says   *)
(* at most once that a ticket waits, and checks that overlap say it twice   *)
(* only when they belong to two processes.                                  *)
AlertedOncePerHour == \A t \in Tickets : posts[t] <= Cardinality(Checkers)

(* A ticket that waits past its deadline is reported, also after a Slack    *)
(* call failed or a process ended between marking and posting.              *)
OverdueIsReported ==
  \A t \in Tickets : Due(t) ~> (posts[t] > 0 \/ ~ Due(t))
=============================================================================
