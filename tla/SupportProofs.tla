---------------------------- MODULE SupportProofs ----------------------------
(***************************************************************************)
(* What holds of Support for every set of tickets and every number of      *)
(* handlers, drafters and SLA checks.                                      *)
(*                                                                         *)
(* Alerts are few because a check that posts has marked its tickets first, *)
(* and a marked ticket is taken by no other check within the hour: each    *)
(* check that is at work on a ticket still owes at most one post.          *)
(***************************************************************************)
EXTENDS Support, FiniteSetTheorems, TLAPS

Public(t) == {i \in 1..Now(t) : thread[t][i] \in {"staff", "ai"}}

FirstIsFirst ==
  \A t \in Tickets :
    IF first[t] = 0
      THEN Public(t) = {}
      ELSE first[t] \in Public(t) /\ \A i \in Public(t) : first[t] <= i

(* The customer's messages later than the shutting, and why they may wait. *)
LateMail(t) == {i \in (resolvedAt[t] + 1)..Now(t) : thread[t][i] = "customer"}

UnderWay(t) == t \in missed \/ \E h \in Handlers : inbound[h] = [at |-> "reopen", of |-> t]

LateIsUnderWay ==
  \A t \in Tickets : status[t] \in Shut /\ LateMail(t) # {} => UnderWay(t)

(* The checks at work on a ticket. *)
Watching(t) == {c \in Checkers : checker[c] # Idle /\ t \in checker[c].of}

PostsAreOwed ==
  \A t \in Tickets : posts[t] + Cardinality(Watching(t)) <= Cardinality(Checkers)

PostsAreMarked ==
  \A t \in Tickets :
    /\ alerted[t] # "recent" => posts[t] = 0
    /\ \A c \in Checkers :
         checker[c].at = "post" /\ t \in checker[c].of => alerted[t] = "recent"

(* TypeOK by the parties that write; the stamps are functions, too.        *)
TicketTypes ==
  /\ status     \in [Tickets -> Status \cup {"none"}]
  /\ thread     \in [Tickets -> Seq(Author)]
  /\ first \in [Tickets -> Nat] /\ resolvedAt \in [Tickets -> Nat]
  /\ \A t \in Tickets : first[t] <= Len(thread[t]) /\ resolvedAt[t] <= Len(thread[t])
  /\ drafted \in SUBSET Tickets /\ threaded \in SUBSET Tickets

Targets == [at : {"ask", "send", "resolve"}, of : Tickets, read : Nat, left : SUBSET Tickets]

WorkTypes ==
  /\ inbound \in [Handlers -> [at : {"reopen", "label"}, of : Tickets] \cup {Idle}]
  /\ drafter \in [Drafters -> [at : {"batch"}, left : SUBSET Tickets] \cup Targets \cup {Idle}]
  /\ asked \in Nat /\ missed \in SUBSET Tickets /\ faults \in 0..MaxFaults

AlertTypes ==
  /\ age     \in [Tickets -> {"fresh", "at risk", "overdue"}]
  /\ alerted \in [Tickets -> {"never", "recent", "old"}]
  /\ checker \in [Checkers -> [at : {"mark", "post"}, of : SUBSET Tickets] \cup {Idle}]
  /\ posts   \in [Tickets -> Nat]

IInv ==
  /\ TicketTypes
  /\ WorkTypes
  /\ AlertTypes
  /\ FirstIsFirst
  /\ LateIsUnderWay
  /\ PostsAreOwed
  /\ PostsAreMarked

----------------------------------------------------------------------------
(* There are finitely many checks. *)
LEMMA WatchersAreFinite ==
  /\ Cardinality(Checkers) \in Nat
  /\ \A t : /\ IsFiniteSet(Watching(t))
            /\ Cardinality(Watching(t)) \in Nat
            /\ Cardinality(Watching(t)) <= Cardinality(Checkers)
<1>1. \A t : Watching(t) \subseteq Checkers
  BY DEF Watching
<1> QED BY <1>1, SupportAssumption, FS_Subset, FS_CardinalityType DEF SupportAssumption

(* What the parts say of TypeOK, and the late messages of ReplyReopens. *)
LEMMA PartsAreTypes == TicketTypes /\ WorkTypes /\ AlertTypes => TypeOK
<1> SUFFICES ASSUME TicketTypes, WorkTypes, AlertTypes PROVE TypeOK
  OBVIOUS
<1>1. \A t \in Tickets : first[t] \in 0..Len(thread[t]) /\ resolvedAt[t] \in 0..Len(thread[t])
  <2> SUFFICES ASSUME NEW t \in Tickets
               PROVE  first[t] \in 0..Len(thread[t]) /\ resolvedAt[t] \in 0..Len(thread[t])
    OBVIOUS
  <2>1. /\ first[t] \in Nat /\ resolvedAt[t] \in Nat /\ Len(thread[t]) \in Nat
        /\ first[t] <= Len(thread[t]) /\ resolvedAt[t] <= Len(thread[t])
    BY DEF TicketTypes
  <2> QED BY <2>1
<1> QED BY <1>1 DEF TicketTypes, WorkTypes, AlertTypes, Targets, TypeOK

LEMMA LateIsLater == LateIsUnderWay => ReplyReopens
BY DEF LateIsUnderWay, LateMail, UnderWay, ReplyReopens

(* A drafter is at rest, has a batch, or is about one of its tickets. *)
LEMMA DrafterTypes ==
  ASSUME WorkTypes, NEW d \in Drafters
  PROVE  /\ drafter[d].at \in {"rest", "batch", "ask", "send", "resolve"}
         /\ drafter[d].at = "batch" => drafter[d].left \in SUBSET Tickets
         /\ drafter[d].at \in {"ask", "send", "resolve"} =>
              /\ drafter[d].of \in Tickets /\ drafter[d].left \in SUBSET Tickets
              /\ drafter[d] \in Targets
<1>1. \/ drafter[d] \in [at : {"batch"}, left : SUBSET Tickets]
      \/ drafter[d] \in Targets
      \/ drafter[d] = Idle
  BY DEF WorkTypes
<1> QED BY <1>1 DEF Idle, Targets

(* A handler is at rest or holds one mail, a check one set of tickets. *)
LEMMA InboundTypes ==
  ASSUME WorkTypes, NEW h \in Handlers
  PROVE  inbound[h].at # "rest" => inbound[h].of \in Tickets
<1>1. inbound[h] \in [at : {"reopen", "label"}, of : Tickets] \/ inbound[h] = Idle
  BY DEF WorkTypes
<1> QED BY <1>1 DEF Idle

LEMMA CheckerTypes ==
  ASSUME AlertTypes, NEW c \in Checkers
  PROVE  /\ checker[c] = Idle <=> checker[c].at = "rest"
         /\ checker[c].at # "rest" =>
              /\ checker[c].at \in {"mark", "post"} /\ checker[c].of \in SUBSET Tickets
              /\ checker[c] \in [at : {"mark", "post"}, of : SUBSET Tickets]
<1>1. checker[c] \in [at : {"mark", "post"}, of : SUBSET Tickets] \/ checker[c] = Idle
  BY DEF AlertTypes
<1> QED BY <1>1 DEF Idle

(* What is left of a batch is a batch or nothing. *)
LEMMA RestIsBatch ==
  ASSUME NEW left \in SUBSET Tickets
  PROVE  Rest(left) \in [at : {"batch"}, left : SUBSET Tickets] \cup {Idle}
BY DEF Rest

(* A step that says nothing and shuts nothing. *)
LEMMA TalkStays ==
  ASSUME FirstIsFirst, LateIsUnderWay,
         UNCHANGED <<status, thread, first, resolvedAt, inbound, missed>>
  PROVE  FirstIsFirst' /\ LateIsUnderWay'
<1>1. FirstIsFirst'
  BY DEF FirstIsFirst, Public, Now
<1>2. \A t : LateMail(t)' = LateMail(t) /\ UnderWay(t)' = UnderWay(t)
  BY DEF LateMail, UnderWay, Now
<1> QED BY <1>1, <1>2 DEF LateIsUnderWay

(* A step of nobody who checks. *)
LEMMA AlertsStay ==
  ASSUME AlertTypes, PostsAreOwed, PostsAreMarked, UNCHANGED alertVars
  PROVE  AlertTypes' /\ PostsAreOwed' /\ PostsAreMarked'
<1>1. AlertTypes' /\ PostsAreMarked'
  BY DEF AlertTypes, PostsAreMarked, alertVars
<1>2. \A t : Watching(t)' = Watching(t)
  BY DEF Watching, alertVars
<1> QED BY <1>1, <1>2 DEF PostsAreOwed, alertVars

(* A message is the last one of its thread. *)
LEMMA SayAppends ==
  ASSUME TicketTypes, NEW t \in Tickets, NEW who \in Author, Say(t, who)
  PROVE  /\ thread' \in [Tickets -> Seq(Author)]
         /\ Now(t) \in Nat /\ Now(t)' = Now(t) + 1
         /\ 1..Now(t) + 1 = (1..Now(t)) \cup {Now(t) + 1}
         /\ thread'[t][Now(t) + 1] = who
         /\ \A i \in 1..Now(t) : thread'[t][i] = thread[t][i]
         /\ \A u \in Tickets \ {t} : thread'[u] = thread[u] /\ Now(u)' = Now(u)
<1>1. thread[t] \in Seq(Author) /\ thread' = [thread EXCEPT ![t] = Append(thread[t], who)]
  BY DEF TicketTypes, Say
<1>2. Append(thread[t], who) \in Seq(Author)
  BY <1>1
<1>3. thread' \in [Tickets -> Seq(Author)] /\ thread'[t] = Append(thread[t], who)
  BY <1>1, <1>2 DEF TicketTypes
<1>4. /\ Now(t) \in Nat /\ Now(t)' = Now(t) + 1
      /\ thread'[t][Now(t) + 1] = who
      /\ \A i \in 1..Now(t) : thread'[t][i] = thread[t][i]
  BY <1>1, <1>3 DEF Now
<1>5. \A u \in Tickets \ {t} : thread'[u] = thread[u] /\ Now(u)' = Now(u)
  BY <1>1 DEF TicketTypes, Now
<1>6. 1..Now(t) + 1 = (1..Now(t)) \cup {Now(t) + 1}
  BY <1>4
<1> QED BY <1>3, <1>4, <1>5, <1>6

(* It keeps the types, whether or not it is a first response. *)
LEMMA SayKeepsTypes ==
  ASSUME TicketTypes, NEW t \in Tickets, NEW who \in Author, Say(t, who),
         first' = first \/ RecordFirst(t), UNCHANGED <<resolvedAt, drafted, threaded>>,
         status' \in [Tickets -> Status \cup {"none"}]
  PROVE  TicketTypes'
<1>1. /\ thread' \in [Tickets -> Seq(Author)] /\ Now(t) \in Nat /\ Now(t)' = Now(t) + 1
      /\ \A u \in Tickets \ {t} : Now(u)' = Now(u)
  BY SayAppends
<1>2. first' \in [Tickets -> Nat] /\ \A u \in Tickets : first'[u] <= Now(u)'
  <2>1. CASE first' = first
    BY <1>1, <2>1 DEF TicketTypes, Now
  <2>2. CASE RecordFirst(t)
    <3>1. /\ first' = [first EXCEPT ![t] = first'[t]]
          /\ first'[t] = Now(t) + 1 \/ first'[t] = first[t]
      BY <2>2 DEF RecordFirst, TicketTypes
    <3>2. first'[t] \in Nat /\ first'[t] <= Now(t) + 1
      BY <1>1, <3>1 DEF TicketTypes, Now
    <3>3. \A u \in Tickets \ {t} : first'[u] = first[u]
      BY <3>1 DEF TicketTypes
    <3> QED BY <1>1, <3>1, <3>2, <3>3 DEF TicketTypes, Now
  <2> QED BY <2>1, <2>2
<1>3. \A u \in Tickets : resolvedAt[u] <= Now(u)'
  BY <1>1 DEF TicketTypes, Now
<1> QED BY <1>1, <1>2, <1>3 DEF TicketTypes, Now

(* A customer's message or a note leaves the first response alone. *)
LEMMA SayPrivately ==
  ASSUME TicketTypes, FirstIsFirst, NEW t \in Tickets, NEW who \in {"customer", "note"},
         Say(t, who), UNCHANGED first
  PROVE  FirstIsFirst'
<1>1. Public(t)' = Public(t)
  BY SayAppends DEF Public, Author
<1>2. \A u \in Tickets \ {t} : Public(u)' = Public(u)
  BY SayAppends DEF Public, Author
<1> QED BY <1>1, <1>2 DEF FirstIsFirst

(* A public message is the first response, or a later one. *)
LEMMA SayPublicly ==
  ASSUME TicketTypes, FirstIsFirst, NEW t \in Tickets, NEW who \in {"staff", "ai"},
         Say(t, who), RecordFirst(t) \/ (first[t] # 0 /\ first' = first)
  PROVE  FirstIsFirst'
<1>1. \A u \in Tickets \ {t} : Public(u)' = Public(u) /\ first'[u] = first[u]
  BY SayAppends DEF Public, Author, RecordFirst, TicketTypes
<1>2. Public(t)' = Public(t) \cup {Now(t) + 1} /\ Now(t) \in Nat
  BY SayAppends DEF Public, Author
<1>3. first'[t] = IF first[t] = 0 THEN Now(t) + 1 ELSE first[t]
  BY DEF RecordFirst, TicketTypes
<1>4. \A i \in Public(t) : i \in 1..Now(t)
  BY DEF Public
<1>5. IF first'[t] = 0
        THEN Public(t)' = {}
        ELSE first'[t] \in Public(t)' /\ \A i \in Public(t)' : first'[t] <= i
  <2>1. CASE first[t] = 0
    BY <1>2, <1>3, <2>1 DEF FirstIsFirst
  <2>2. CASE first[t] # 0
    BY <1>2, <1>3, <1>4, <2>2 DEF FirstIsFirst
  <2> QED BY <2>1, <2>2
<1> QED BY <1>1, <1>5 DEF FirstIsFirst

(* What is said by others than the customer is never late mail. *)
LEMMA LateAfterSay ==
  ASSUME TicketTypes, NEW t \in Tickets, NEW who \in Author, Say(t, who), UNCHANGED resolvedAt
  PROVE  /\ \A u \in Tickets \ {t} : LateMail(u)' = LateMail(u)
         /\ who # "customer" => LateMail(t)' = LateMail(t)
<1>1. \A u \in Tickets \ {t} : LateMail(u)' = LateMail(u)
  BY SayAppends DEF LateMail
<1>2. ASSUME who # "customer" PROVE LateMail(t)' = LateMail(t)
  <2>1. resolvedAt[t] \in Nat /\ resolvedAt[t] <= Now(t)
    BY DEF TicketTypes, Now
  <2> QED BY <1>2, <2>1, SayAppends DEF LateMail
<1> QED BY <1>1, <1>2

(* Setting a status keeps the types, and after shutting nothing is late.   *)
LEMMA SetStatusShuts ==
  ASSUME TicketTypes, LateIsUnderWay, NEW t \in Tickets, NEW s \in Status, SetStatus(t, s),
         UNCHANGED <<thread, first, drafted, threaded, inbound, missed>>
  PROVE  TicketTypes' /\ LateIsUnderWay'
<1>1. /\ status' = [status EXCEPT ![t] = s]
      /\ s \in Shut => resolvedAt' = [resolvedAt EXCEPT ![t] = Now(t)]
      /\ s \notin Shut => resolvedAt' = resolvedAt
      /\ Now(t) \in Nat
  BY DEF SetStatus, TicketTypes, Now
<1>2. TicketTypes'
  <2>1. CASE s \in Shut
    <3>1. resolvedAt' \in [Tickets -> Nat] /\ status' \in [Tickets -> Status \cup {"none"}]
      BY <1>1, <2>1 DEF TicketTypes
    <3>2. \A u \in Tickets : resolvedAt'[u] <= Len(thread[u])
      <4>1. resolvedAt'[t] = Len(thread[t]) /\ Len(thread[t]) \in Nat
        BY <1>1, <2>1 DEF TicketTypes, Now
      <4>2. \A u \in Tickets \ {t} : resolvedAt'[u] = resolvedAt[u]
        BY <1>1, <2>1 DEF TicketTypes
      <4>3. \A u \in Tickets : resolvedAt[u] <= Len(thread[u])
        BY DEF TicketTypes
      <4> QED BY <4>1, <4>2, <4>3
    <3> QED BY <3>1, <3>2 DEF TicketTypes
  <2>2. CASE s \notin Shut
    BY <1>1, <2>2 DEF TicketTypes
  <2> QED BY <2>1, <2>2
<1>3. \A u \in Tickets : UnderWay(u)' = UnderWay(u)
  BY DEF UnderWay
<1>4. \A u \in Tickets \ {t} : status'[u] = status[u] /\ LateMail(u)' = LateMail(u)
  BY <1>1 DEF TicketTypes, LateMail, Now
<1>5. status'[t] \in Shut => LateMail(t)' = {}
  <2> SUFFICES ASSUME s \in Shut PROVE LateMail(t)' = {}
    BY <1>1 DEF TicketTypes
  <2>1. resolvedAt'[t] = Now(t) /\ Now(t)' = Now(t)
    BY <1>1 DEF TicketTypes, Now
  <2> QED BY <1>1, <2>1 DEF LateMail
<1> QED BY <1>2, <1>3, <1>4, <1>5 DEF LateIsUnderWay

(* Every initial state satisfies the inductive invariant. *)
LEMMA InitIInv == Init => IInv
<1> SUFFICES ASSUME Init PROVE IInv
  OBVIOUS
<1> USE SupportAssumption DEF SupportAssumption, Init
<1>1. TicketTypes /\ WorkTypes /\ AlertTypes
  BY DEF TicketTypes, WorkTypes, AlertTypes
<1>2. FirstIsFirst
  BY DEF FirstIsFirst, Public, Now
<1>3. LateIsUnderWay
  BY DEF LateIsUnderWay, Shut
<1>4. PostsAreOwed
  BY WatchersAreFinite DEF PostsAreOwed
<1>5. PostsAreMarked
  BY DEF PostsAreMarked, Idle
<1> QED BY <1>1, <1>2, <1>3, <1>4, <1>5 DEF IInv

(* Every step preserves the inductive invariant. *)
LEMMA NextIInv == IInv /\ [Next]_vars => IInv'
<1> SUFFICES ASSUME IInv, [Next]_vars PROVE IInv'
  OBVIOUS
<1> USE SupportAssumption DEF SupportAssumption, IInv
<1>1. ASSUME NEW t \in Tickets, CreateTicket(t) PROVE IInv'
  <2>1. NewTicket(t) /\ Say(t, "customer") /\ status[t] = "none"
    BY <1>1 DEF CreateTicket, NewTicket, Exists
  <2>2. TicketTypes'
    <3>1. status' \in [Tickets -> Status \cup {"none"}]
      BY <2>1 DEF NewTicket, TicketTypes, Status
    <3> QED BY <2>1, <3>1, SayKeepsTypes DEF NewTicket, Author
  <2>3. WorkTypes'
    BY <1>1 DEF CreateTicket, NewTicket, WorkTypes
  <2>4. AlertTypes' /\ PostsAreOwed' /\ PostsAreMarked'
    BY <2>1, AlertsStay DEF NewTicket
  <2>5. FirstIsFirst'
    BY <2>1, SayPrivately DEF NewTicket
  <2>6. LateIsUnderWay'
    <3>1. status'[t] \notin Shut /\ \A u \in Tickets \ {t} : status'[u] = status[u]
      BY <2>1 DEF NewTicket, TicketTypes, Shut
    <3>2. \A u \in Tickets \ {t} : LateMail(u)' = LateMail(u)
      BY <2>1, LateAfterSay DEF NewTicket, Author
    <3>3. \A u \in Tickets : UnderWay(u) => UnderWay(u)'
      BY <2>1, <1>1 DEF CreateTicket, NewTicket, UnderWay, Idle
    <3> QED BY <3>1, <3>2, <3>3 DEF LateIsUnderWay
  <2> QED BY <2>2, <2>3, <2>4, <2>5, <2>6
<1>2. ASSUME NEW h \in Handlers, NEW t \in Tickets, FileNewMail(h, t) PROVE IInv'
  <2>1. NewTicket(t) /\ Say(t, "customer") /\ status[t] = "none"
    BY <1>2 DEF FileNewMail, NewTicket, Exists
  <2>2. TicketTypes'
    <3>1. status' \in [Tickets -> Status \cup {"none"}]
      BY <2>1 DEF NewTicket, TicketTypes, Status
    <3> QED BY <2>1, <3>1, SayKeepsTypes DEF NewTicket, Author
  <2>3. WorkTypes'
    BY <1>2 DEF FileNewMail, NewTicket, WorkTypes
  <2>4. AlertTypes' /\ PostsAreOwed' /\ PostsAreMarked'
    BY <2>1, AlertsStay DEF NewTicket
  <2>5. FirstIsFirst'
    BY <2>1, SayPrivately DEF NewTicket
  <2>6. LateIsUnderWay'
    <3>1. status'[t] \notin Shut /\ \A u \in Tickets \ {t} : status'[u] = status[u]
      BY <2>1 DEF NewTicket, TicketTypes, Shut
    <3>2. \A u \in Tickets \ {t} : LateMail(u)' = LateMail(u)
      BY <2>1, LateAfterSay DEF NewTicket, Author
    <3>3. \A u \in Tickets : UnderWay(u) => UnderWay(u)'
      BY <2>1, <1>2 DEF FileNewMail, NewTicket, UnderWay, Idle
    <3> QED BY <3>1, <3>2, <3>3 DEF LateIsUnderWay
  <2> QED BY <2>2, <2>3, <2>4, <2>5, <2>6
<1>3. ASSUME NEW h \in Handlers, StoreMessageID(h) PROVE IInv'
  <2>1. inbound[h].at = "label" /\ inbound[h].of \in Tickets
    BY <1>3, InboundTypes DEF StoreMessageID
  <2>2. TicketTypes'
    BY <1>3, <2>1 DEF StoreMessageID, TicketTypes
  <2>3. WorkTypes'
    BY <1>3 DEF StoreMessageID, WorkTypes, Fault
  <2>4. AlertTypes' /\ PostsAreOwed' /\ PostsAreMarked'
    BY <1>3, AlertsStay DEF StoreMessageID
  <2>5. FirstIsFirst'
    BY <1>3 DEF StoreMessageID, FirstIsFirst, Public, Now
  <2>6. LateIsUnderWay'
    <3>1. \A u : LateMail(u)' = LateMail(u)
      BY <1>3 DEF StoreMessageID, LateMail, Now
    <3>2. \A u : UnderWay(u) => UnderWay(u)'
      BY <1>3, <2>1 DEF StoreMessageID, UnderWay, WorkTypes
    <3> QED BY <1>3, <3>1, <3>2 DEF StoreMessageID, LateIsUnderWay
  <2> QED BY <2>2, <2>3, <2>4, <2>5, <2>6
<1>4. ASSUME NEW h \in Handlers, NEW t \in Tickets, FileReply(h, t) PROVE IInv'
  <2>1. Say(t, "customer") /\ inbound[h] = Idle
    BY <1>4 DEF FileReply
  <2>2. TicketTypes'
    BY <1>4, <2>1, SayKeepsTypes DEF FileReply, Author, TicketTypes
  <2>3. WorkTypes'
    BY <1>4 DEF FileReply, WorkTypes
  <2>4. AlertTypes' /\ PostsAreOwed' /\ PostsAreMarked'
    BY <1>4, AlertsStay DEF FileReply
  <2>5. FirstIsFirst'
    BY <1>4, <2>1, SayPrivately DEF FileReply
  <2>6. LateIsUnderWay'
    <3>1. \A u \in Tickets \ {t} : LateMail(u)' = LateMail(u)
      BY <1>4, <2>1, LateAfterSay DEF FileReply, Author
    <3>2. UnderWay(t)'
      BY <1>4 DEF FileReply, UnderWay, WorkTypes
    <3>3. \A u : UnderWay(u) => UnderWay(u)'
      BY <1>4, <2>1 DEF FileReply, UnderWay, WorkTypes, Idle
    <3> QED BY <1>4, <3>1, <3>2, <3>3 DEF FileReply, LateIsUnderWay
  <2> QED BY <2>2, <2>3, <2>4, <2>5, <2>6
<1>5. ASSUME NEW h \in Handlers, Reopen(h) PROVE IInv'
  <2>1. PICK t \in Tickets : t = inbound[h].of
    BY <1>5, InboundTypes DEF Reopen
  <2>2. \/ /\ status' = [status EXCEPT ![t] = Reopened(status[t])]
           /\ UNCHANGED <<missed, faults>>
        \/ missed' = missed \cup {t} /\ status' = status /\ Fault
    <3>1. \/ /\ status' = [status EXCEPT ![inbound[h].of] = Reopened(status[inbound[h].of])]
             /\ UNCHANGED <<missed, faults>>
          \/ missed' = missed \cup {inbound[h].of} /\ status' = status /\ Fault
      BY <1>5 DEF Reopen
    <3> QED BY <2>1, <3>1
  <2>3. TicketTypes'
    BY <1>5, <2>2 DEF Reopen, Reopened, TicketTypes, Status
  <2>4. WorkTypes'
    BY <1>5, <2>1, <2>2 DEF Reopen, WorkTypes, Fault
  <2>5. AlertTypes' /\ PostsAreOwed' /\ PostsAreMarked'
    BY <1>5, AlertsStay DEF Reopen
  <2>6. FirstIsFirst'
    BY <1>5 DEF Reopen, FirstIsFirst, Public, Now
  <2>7. LateIsUnderWay'
    <3>1. \A u : LateMail(u)' = LateMail(u)
      BY <1>5 DEF Reopen, LateMail, Now
    <3>2. \A u \in Tickets \ {t} : status'[u] = status[u] /\ (UnderWay(u) => UnderWay(u)')
      BY <1>5, <2>1, <2>2 DEF Reopen, UnderWay, WorkTypes, TicketTypes
    <3>3. status'[t] \notin Shut \/ UnderWay(t)'
      BY <2>2 DEF Reopened, Shut, UnderWay, TicketTypes
    <3> QED BY <3>1, <3>2, <3>3 DEF LateIsUnderWay
  <2> QED BY <2>2, <2>3, <2>4, <2>5, <2>6, <2>7
<1>6. ASSUME NEW t \in Tickets, NEW b \in BOOLEAN, ReplyToTicket(t, b) PROVE IInv'
  <2>1. PICK who \in {"note", "staff"} :
          /\ Say(t, who)
          /\ \/ who = "note" /\ UNCHANGED <<status, first>>
             \/ who = "staff" /\ first[t] # 0 /\ UNCHANGED <<status, first>>
             \/ who = "staff" /\ RecordFirst(t) /\ status' = [status EXCEPT ![t] = "pending"]
    <3>1. CASE b
      BY <1>6, <3>1 DEF ReplyToTicket
    <3>2. CASE ~ b /\ first[t] # 0
      BY <1>6, <3>2 DEF ReplyToTicket
    <3>3. CASE ~ b /\ first[t] = 0
      BY <1>6, <3>3 DEF ReplyToTicket
    <3> QED BY <3>1, <3>2, <3>3
  <2>2. UNCHANGED <<resolvedAt, drafted, threaded, alertVars, inbound, drafter, asked, missed,
        faults>>
    BY <1>6 DEF ReplyToTicket
  <2>3. TicketTypes'
    <3>1. status' \in [Tickets -> Status \cup {"none"}] /\ (first' = first \/ RecordFirst(t))
      BY <2>1 DEF TicketTypes, Status
    <3> QED BY <2>1, <2>2, <3>1, SayKeepsTypes DEF Author
  <2>4. WorkTypes'
    BY <2>2 DEF WorkTypes
  <2>5. AlertTypes' /\ PostsAreOwed' /\ PostsAreMarked'
    BY <2>2, AlertsStay
  <2>6. FirstIsFirst'
    BY <2>1, SayPrivately, SayPublicly
  <2>7. LateIsUnderWay'
    <3>1. \A u \in Tickets : LateMail(u)' = LateMail(u)
      BY <2>1, <2>2, LateAfterSay DEF Author
    <3>2. \A u \in Tickets : (status'[u] \in Shut => status[u] \in Shut)
          /\ UnderWay(u)' = UnderWay(u)
      BY <2>1, <2>2 DEF UnderWay, TicketTypes, Shut
    <3> QED BY <3>1, <3>2 DEF LateIsUnderWay
  <2> QED BY <2>3, <2>4, <2>5, <2>6, <2>7
<1>7. ASSUME NEW t \in Tickets, NEW s \in Status, UpdateTicketStatus(t, s) PROVE IInv'
  <2>1. TicketTypes' /\ LateIsUnderWay'
    BY <1>7, SetStatusShuts DEF UpdateTicketStatus
  <2>2. WorkTypes'
    BY <1>7 DEF UpdateTicketStatus, WorkTypes
  <2>3. AlertTypes' /\ PostsAreOwed' /\ PostsAreMarked'
    BY <1>7, AlertsStay DEF UpdateTicketStatus
  <2>4. FirstIsFirst'
    BY <1>7 DEF UpdateTicketStatus, FirstIsFirst, Public, Now
  <2> QED BY <2>1, <2>2, <2>3, <2>4
<1>8. ASSUME NEW d \in Drafters, ProcessNewTickets(d) PROVE IInv'
  <2>1. WorkTypes'
    <3>1. PICK targets \in SUBSET Tickets : drafter' = [drafter EXCEPT ![d] = Rest(targets)]
      BY <1>8 DEF ProcessNewTickets
    <3> QED BY <1>8, <3>1, RestIsBatch DEF ProcessNewTickets, WorkTypes
  <2>2. TicketTypes'
    BY <1>8 DEF ProcessNewTickets, ticketVars, TicketTypes
  <2>3. FirstIsFirst' /\ LateIsUnderWay'
    BY <1>8, TalkStays DEF ProcessNewTickets, ticketVars
  <2>4. AlertTypes' /\ PostsAreOwed' /\ PostsAreMarked'
    BY <1>8, AlertsStay DEF ProcessNewTickets
  <2> QED BY <2>1, <2>2, <2>3, <2>4
<1>9. ASSUME NEW d \in Drafters, ReadThread(d) PROVE IInv'
  <2>1. WorkTypes'
    <3>1. PICK t \in drafter[d].left :
            drafter' = [drafter EXCEPT ![d] = [at |-> "ask", of |-> t, read |-> Now(t),
                                               left |-> drafter[d].left \ {t}]]
      BY <1>9 DEF ReadThread
    <3>2. drafter[d].left \in SUBSET Tickets
      BY <1>9, DrafterTypes DEF ReadThread, Drafting
    <3>3. [at |-> "ask", of |-> t, read |-> Now(t), left |-> drafter[d].left \ {t}] \in Targets
      BY <3>1, <3>2 DEF Targets, Now, TicketTypes
    <3> QED BY <1>9, <3>1, <3>3 DEF ReadThread, WorkTypes
  <2>2. TicketTypes'
    BY <1>9 DEF ReadThread, ticketVars, TicketTypes
  <2>3. FirstIsFirst' /\ LateIsUnderWay'
    BY <1>9, TalkStays DEF ReadThread, ticketVars
  <2>4. AlertTypes' /\ PostsAreOwed' /\ PostsAreMarked'
    BY <1>9, AlertsStay DEF ReadThread
  <2> QED BY <2>1, <2>2, <2>3, <2>4
<1>10. ASSUME NEW d \in Drafters, StoreDraft(d) PROVE IInv'
  <2>1. drafter[d].of \in Tickets /\ drafter[d].left \in SUBSET Tickets /\ drafter[d] \in Targets
    BY <1>10, DrafterTypes DEF StoreDraft, Drafting
  <2>2. WorkTypes'
    <3>1. CASE DraftStep(d, "send")
      <4>1. [drafter[d] EXCEPT !.at = "send"] \in Targets
        BY <2>1 DEF Targets
      <4> QED BY <1>10, <3>1, <4>1 DEF StoreDraft, DraftStep, WorkTypes
    <3>2. CASE NextTarget(d)
      BY <1>10, <2>1, <3>2, RestIsBatch DEF StoreDraft, NextTarget, WorkTypes
    <3> QED BY <1>10, <3>1, <3>2 DEF StoreDraft
  <2>3. TicketTypes'
    BY <1>10, <2>1 DEF StoreDraft, TicketTypes
  <2>4. FirstIsFirst' /\ LateIsUnderWay'
    BY <1>10, TalkStays DEF StoreDraft
  <2>5. AlertTypes' /\ PostsAreOwed' /\ PostsAreMarked'
    BY <1>10, AlertsStay DEF StoreDraft
  <2> QED BY <2>2, <2>3, <2>4, <2>5
<1>11. ASSUME NEW d \in Drafters, SendAIReply(d) PROVE IInv'
  <2>1. PICK t \in Tickets : t = drafter[d].of /\ Say(t, "ai") /\ RecordFirst(t)
    BY <1>11, DrafterTypes DEF SendAIReply, Drafting
  <2>2. TicketTypes'
    BY <1>11, <2>1, SayKeepsTypes DEF SendAIReply, Author, TicketTypes
  <2>3. WorkTypes'
    <3>1. [drafter[d] EXCEPT !.at = "resolve"] \in Targets
      BY <1>11, DrafterTypes DEF SendAIReply, Drafting, Targets
    <3> QED BY <1>11, <3>1 DEF SendAIReply, DraftStep, WorkTypes
  <2>4. AlertTypes' /\ PostsAreOwed' /\ PostsAreMarked'
    BY <1>11, AlertsStay DEF SendAIReply
  <2>5. FirstIsFirst'
    BY <2>1, SayPublicly
  <2>6. LateIsUnderWay'
    <3>1. \A u \in Tickets : LateMail(u)' = LateMail(u)
      BY <1>11, <2>1, LateAfterSay DEF SendAIReply, Author
    <3>2. \A u : UnderWay(u)' = UnderWay(u)
      BY <1>11 DEF SendAIReply, UnderWay
    <3> QED BY <1>11, <3>1, <3>2 DEF SendAIReply, LateIsUnderWay
  <2> QED BY <2>2, <2>3, <2>4, <2>5, <2>6
<1>12. ASSUME NEW d \in Drafters, ResolveAnswered(d) PROVE IInv'
  <2>1. drafter[d].of \in Tickets /\ drafter[d].left \in SUBSET Tickets
    BY <1>12, DrafterTypes DEF ResolveAnswered, Drafting
  <2>2. TicketTypes' /\ LateIsUnderWay'
    <3> DEFINE s == "resolved"
    <3>1. s \in Status /\ SetStatus(drafter[d].of, s)
      BY <1>12 DEF ResolveAnswered, Status
    <3> HIDE DEF s
    <3> QED BY <1>12, <2>1, <3>1, SetStatusShuts DEF ResolveAnswered
  <2>3. WorkTypes'
    BY <1>12, <2>1, RestIsBatch DEF ResolveAnswered, NextTarget, WorkTypes
  <2>4. AlertTypes' /\ PostsAreOwed' /\ PostsAreMarked'
    BY <1>12, AlertsStay DEF ResolveAnswered
  <2>5. FirstIsFirst'
    BY <1>12 DEF ResolveAnswered, FirstIsFirst, Public, Now
  <2> QED BY <2>2, <2>3, <2>4, <2>5
<1>13. ASSUME NEW d \in Drafters, DraftFails(d) PROVE IInv'
  <2>1. WorkTypes'
    <3>1. drafter[d].left \in SUBSET Tickets
      BY <1>13, DrafterTypes DEF DraftFails, Drafting
    <3>2. \/ drafter' = [drafter EXCEPT ![d] = Rest(drafter[d].left)]
          \/ \E t \in drafter[d].left : drafter' = [drafter EXCEPT ![d] = Rest(drafter[d].left \ {t})]
          \/ drafter' = [drafter EXCEPT ![d] = Idle]
      BY <1>13 DEF DraftFails, NextTarget
    <3>3. PICK w \in [at : {"batch"}, left : SUBSET Tickets] \cup {Idle} :
            drafter' = [drafter EXCEPT ![d] = w]
      BY <3>1, <3>2, RestIsBatch
    <3>4. asked' \in Nat /\ faults' \in 0..MaxFaults
      BY <1>13 DEF DraftFails, Fault, WorkTypes
    <3> QED BY <1>13, <3>3, <3>4 DEF DraftFails, WorkTypes
  <2>2. TicketTypes'
    BY <1>13 DEF DraftFails, ticketVars, TicketTypes
  <2>3. FirstIsFirst' /\ LateIsUnderWay'
    BY <1>13, TalkStays DEF DraftFails, ticketVars
  <2>4. AlertTypes' /\ PostsAreOwed' /\ PostsAreMarked'
    BY <1>13, AlertsStay DEF DraftFails
  <2> QED BY <2>1, <2>2, <2>3, <2>4
<1>14. ASSUME NEW c \in Checkers, CheckSLABreaches(c) PROVE IInv'
  <2>0. PICK batch \in SUBSET {t \in Tickets : Due(t) /\ MayAlert(t)} :
          checker' = [checker EXCEPT ![c] = [at |-> "mark", of |-> batch]]
    BY <1>14 DEF CheckSLABreaches
  <2>1. AlertTypes'
    BY <1>14, <2>0 DEF CheckSLABreaches, AlertTypes
  <2>2. /\ checker'[c].at = "mark" /\ checker'[c].of = batch
        /\ \A b \in Checkers \ {c} : checker'[b] = checker[b]
    BY <2>0 DEF AlertTypes
  <2>3. PostsAreOwed'
    <3> SUFFICES ASSUME NEW t \in Tickets
                 PROVE  posts[t] + Cardinality(Watching(t)') <= Cardinality(Checkers)
      BY <1>14 DEF CheckSLABreaches, PostsAreOwed
    <3>1. CASE alerted[t] = "recent"
      <4>1. t \notin checker'[c].of /\ checker[c] = Idle
        BY <1>14, <2>2, <3>1 DEF CheckSLABreaches, MayAlert
      <4>2. Watching(t)' = Watching(t)
        BY <2>2, <4>1 DEF Watching
      <4> QED BY <4>2 DEF PostsAreOwed
    <3>2. CASE alerted[t] # "recent"
      <4>1. posts[t] = 0
        BY <3>2 DEF PostsAreMarked
      <4>2. Watching(t)' \subseteq Checkers
        BY DEF Watching
      <4>3. Cardinality(Watching(t)') <= Cardinality(Checkers)
            /\ Cardinality(Watching(t)') \in Nat
        BY <4>2, FS_Subset, FS_CardinalityType
      <4> QED BY <4>1, <4>3, WatchersAreFinite
    <3> QED BY <3>1, <3>2
  <2>4. PostsAreMarked'
    BY <1>14, <2>2 DEF CheckSLABreaches, PostsAreMarked
  <2>5. TicketTypes'
    BY <1>14 DEF CheckSLABreaches, ticketVars, TicketTypes
  <2>6. FirstIsFirst' /\ LateIsUnderWay'
    BY <1>14, TalkStays DEF CheckSLABreaches, ticketVars
  <2>7. WorkTypes'
    BY <1>14 DEF CheckSLABreaches, WorkTypes, Fault
  <2> QED BY <2>1, <2>2, <2>3, <2>4, <2>5, <2>6, <2>7
<1>15. ASSUME NEW c \in Checkers, MarkAlerted(c) PROVE IInv'
  <2>1. /\ checker'[c].at = "post" /\ checker'[c].of = checker[c].of
        /\ checker[c] # Idle /\ checker'[c] # Idle
        /\ checker'[c] \in [at : {"mark", "post"}, of : SUBSET Tickets]
        /\ \A b \in Checkers \ {c} : checker'[b] = checker[b]
    <3>1. checker[c] \in [at : {"mark", "post"}, of : SUBSET Tickets] /\ checker[c] # Idle
      BY <1>15, CheckerTypes DEF MarkAlerted
    <3>2. checker'[c] = [checker[c] EXCEPT !.at = "post"]
      BY <1>15 DEF MarkAlerted, AlertTypes
    <3> QED BY <1>15, <3>1, <3>2 DEF MarkAlerted, AlertTypes, Idle
  <2>2. AlertTypes'
    BY <1>15, <2>1 DEF MarkAlerted, AlertTypes
  <2>3. PostsAreOwed'
    <3>1. \A t : Watching(t)' = Watching(t)
      BY <2>1 DEF Watching
    <3> QED BY <1>15, <3>1 DEF MarkAlerted, PostsAreOwed
  <2>4. PostsAreMarked'
    BY <1>15, <2>1 DEF MarkAlerted, PostsAreMarked
  <2>5. TicketTypes'
    BY <1>15 DEF MarkAlerted, ticketVars, TicketTypes
  <2>6. FirstIsFirst' /\ LateIsUnderWay'
    BY <1>15, TalkStays DEF MarkAlerted, ticketVars
  <2>7. WorkTypes'
    BY <1>15 DEF MarkAlerted, WorkTypes, Fault
  <2> QED BY <2>1, <2>2, <2>3, <2>4, <2>5, <2>6, <2>7
<1>16. ASSUME NEW c \in Checkers, PostToSlack(c) PROVE IInv'
  <2>1. /\ checker[c] # Idle /\ checker'[c] = Idle /\ checker[c].at = "post"
        /\ \A b \in Checkers \ {c} : checker'[b] = checker[b]
    BY <1>16, CheckerTypes DEF PostToSlack, AlertTypes
  <2>2. AlertTypes'
    <3>1. \A t \in Tickets : posts[t] \in Nat
      BY DEF AlertTypes
    <3>2. \A n \in Nat : n + 1 \in Nat /\ n + 0 \in Nat
      OBVIOUS
    <3>3. posts' \in [Tickets -> Nat]
      BY <1>16, <3>1, <3>2 DEF PostToSlack
    <3> QED BY <1>16, <3>3 DEF PostToSlack, AlertTypes
  <2>3. PostsAreOwed'
    <3> SUFFICES ASSUME NEW t \in Tickets
                 PROVE  posts'[t] + Cardinality(Watching(t)') <= Cardinality(Checkers)
      BY DEF PostsAreOwed
    <3>1. posts'[t] = posts[t] + (IF t \in checker[c].of THEN 1 ELSE 0) /\ posts[t] \in Nat
      BY <1>16 DEF PostToSlack, AlertTypes
    <3>2. Watching(t)' = Watching(t) \ {c}
      BY <2>1 DEF Watching
    <3>3. c \in Watching(t) <=> t \in checker[c].of
      BY <2>1 DEF Watching
    <3>4. posts[t] + Cardinality(Watching(t)) <= Cardinality(Checkers)
      BY DEF PostsAreOwed
    <3>5. IsFiniteSet(Watching(t)) /\ Cardinality(Watching(t)) \in Nat
      BY WatchersAreFinite
    <3>6. CASE t \in checker[c].of
      <4>1. Cardinality(Watching(t) \ {c}) = Cardinality(Watching(t)) - 1
        BY <3>3, <3>5, <3>6, FS_RemoveElement
      <4> QED BY <3>1, <3>2, <3>4, <3>5, <3>6, <4>1, WatchersAreFinite
    <3>7. CASE t \notin checker[c].of
      <4>1. Watching(t)' = Watching(t)
        BY <3>2, <3>3, <3>7
      <4> QED BY <3>1, <3>4, <3>7, <4>1
    <3> QED BY <3>6, <3>7
  <2>4. PostsAreMarked'
    <3>1. \A t \in Tickets : t \notin checker[c].of => posts'[t] = posts[t]
      <4>1. \A t \in Tickets : posts[t] \in Nat
        BY DEF AlertTypes
      <4>2. \A n \in Nat : n + 0 = n
        OBVIOUS
      <4> QED BY <1>16, <4>1, <4>2 DEF PostToSlack
    <3>2. \A t \in Tickets : t \in checker[c].of => alerted[t] = "recent"
      BY <2>1 DEF PostsAreMarked
    <3>3. checker'[c].at # "post" /\ alerted' = alerted
      BY <1>16, <2>1 DEF PostToSlack, Idle
    <3> QED BY <2>1, <3>1, <3>2, <3>3 DEF PostsAreMarked
  <2>5. TicketTypes'
    BY <1>16 DEF PostToSlack, ticketVars, TicketTypes
  <2>6. FirstIsFirst' /\ LateIsUnderWay'
    BY <1>16, TalkStays DEF PostToSlack, ticketVars
  <2>7. WorkTypes'
    BY <1>16 DEF PostToSlack, WorkTypes, Fault
  <2> QED BY <2>1, <2>2, <2>3, <2>4, <2>5, <2>6, <2>7
<1>17. ASSUME NEW c \in Checkers, CheckFails(c) PROVE IInv'
  <2>1. checker'[c] = Idle /\ \A b \in Checkers \ {c} : checker'[b] = checker[b]
    BY <1>17 DEF CheckFails, AlertTypes
  <2>2. AlertTypes'
    BY <1>17 DEF CheckFails, AlertTypes
  <2>3. PostsAreOwed'
    <3> SUFFICES ASSUME NEW t \in Tickets
                 PROVE  posts[t] + Cardinality(Watching(t)') <= Cardinality(Checkers)
      BY <1>17 DEF CheckFails, PostsAreOwed
    <3>1. Watching(t)' \subseteq Watching(t)
      BY <2>1 DEF Watching
    <3>2. Cardinality(Watching(t)') <= Cardinality(Watching(t))
          /\ Cardinality(Watching(t)') \in Nat
      BY <3>1, WatchersAreFinite, FS_Subset, FS_CardinalityType
    <3>3. posts[t] + Cardinality(Watching(t)) <= Cardinality(Checkers) /\ posts[t] \in Nat
      BY DEF PostsAreOwed, AlertTypes
    <3> QED BY <3>2, <3>3, WatchersAreFinite
  <2>4. PostsAreMarked'
    BY <1>17, <2>1 DEF CheckFails, PostsAreMarked, Idle
  <2>5. TicketTypes'
    BY <1>17 DEF CheckFails, ticketVars, TicketTypes
  <2>6. FirstIsFirst' /\ LateIsUnderWay'
    BY <1>17, TalkStays DEF CheckFails, ticketVars
  <2>7. WorkTypes'
    BY <1>17 DEF CheckFails, WorkTypes, Fault
  <2> QED BY <2>1, <2>2, <2>3, <2>4, <2>5, <2>6, <2>7
<1>18. ASSUME NEW t \in Tickets, GrowOld(t) PROVE IInv'
  <2>1. AlertTypes'
    BY <1>18 DEF GrowOld, AlertTypes
  <2>2. PostsAreOwed' /\ PostsAreMarked'
    BY <1>18 DEF GrowOld, PostsAreOwed, Watching, PostsAreMarked
  <2>3. TicketTypes'
    BY <1>18 DEF GrowOld, ticketVars, TicketTypes
  <2>4. FirstIsFirst' /\ LateIsUnderWay'
    BY <1>18, TalkStays DEF GrowOld, ticketVars
  <2>5. WorkTypes'
    BY <1>18 DEF GrowOld, WorkTypes, Fault
  <2> QED BY <2>1, <2>2, <2>3, <2>4, <2>5
<1>19. ASSUME NEW t \in Tickets, HourPasses(t) PROVE IInv'
  <2>1. AlertTypes'
    BY <1>19 DEF HourPasses, AlertTypes
  <2>2. PostsAreOwed'
    <3>1. \A u : Watching(u)' = Watching(u)
      BY <1>19 DEF HourPasses, Watching
    <3>2. \A u \in Tickets : posts'[u] = posts[u] \/ posts'[u] = 0
      BY <1>19 DEF HourPasses, AlertTypes
    <3> QED BY <3>1, <3>2, WatchersAreFinite DEF PostsAreOwed
  <2>3. PostsAreMarked'
    <3>1. \A c \in Checkers : ~ (checker[c].at = "post" /\ t \in checker[c].of)
      BY <1>19, CheckerTypes DEF HourPasses
    <3>2. /\ posts'[t] = 0 /\ checker' = checker
          /\ \A u \in Tickets \ {t} : posts'[u] = posts[u] /\ alerted'[u] = alerted[u]
      BY <1>19 DEF HourPasses, AlertTypes
    <3> QED BY <3>1, <3>2 DEF PostsAreMarked
  <2>4. TicketTypes'
    BY <1>19 DEF HourPasses, ticketVars, TicketTypes
  <2>5. FirstIsFirst' /\ LateIsUnderWay'
    BY <1>19, TalkStays DEF HourPasses, ticketVars
  <2>6. WorkTypes'
    BY <1>19 DEF HourPasses, WorkTypes, Fault
  <2> QED BY <2>1, <2>2, <2>3, <2>4, <2>5, <2>6
<1>20. CASE UNCHANGED vars
  <2>1. TicketTypes' /\ WorkTypes'
    BY <1>20 DEF vars, ticketVars, TicketTypes, WorkTypes
  <2>2. FirstIsFirst' /\ LateIsUnderWay'
    BY <1>20, TalkStays DEF vars, ticketVars
  <2>3. AlertTypes' /\ PostsAreOwed' /\ PostsAreMarked'
    BY <1>20, AlertsStay DEF vars
  <2> QED BY <2>1, <2>2, <2>3
<1> QED BY <1>1, <1>2, <1>3, <1>4, <1>5, <1>6, <1>7, <1>8, <1>9, <1>10, <1>11, <1>12, <1>13,
      <1>14, <1>15, <1>16, <1>17, <1>18, <1>19, <1>20 DEF Next, Inbound, Staff, Draft, Check


(* The inductive invariant holds in every reachable state. *)
THEOREM Invariance == Spec => []IInv
BY InitIInv, NextIInv, PTL DEF Spec

(* Whoever interleaves with whom, first_response_at is the first message   *)
(* of staff or of the assistant that the customer can see.                 *)
THEOREM FirstResponseIsKept == Spec => []FirstResponseIsFirst
<1>1. IInv => FirstResponseIsFirst
  BY PartsAreTypes DEF IInv, FirstIsFirst, FirstResponseIsFirst, Public
<1> QED BY <1>1, Invariance, PTL

(* A customer's message on a shut ticket has it reopened, unless that      *)
(* statement failed or is still to come.                                   *)
THEOREM RepliesReopen == Spec => []ReplyReopens
<1>1. IInv => ReplyReopens
  BY LateIsLater DEF IInv
<1> QED BY <1>1, Invariance, PTL

(* However the checks of several processes overlap, a ticket is reported   *)
(* at most once an hour by each.                                           *)
THEOREM AlertsAreFew == Spec => []AlertedOncePerHour
<1>1. ASSUME IInv PROVE AlertedOncePerHour
  <2> SUFFICES ASSUME NEW t \in Tickets PROVE posts[t] <= Cardinality(Checkers)
    BY DEF AlertedOncePerHour
  <2>1. posts[t] + Cardinality(Watching(t)) <= Cardinality(Checkers) /\ posts[t] \in Nat
    BY <1>1 DEF IInv, PostsAreOwed, AlertTypes
  <2>2. Cardinality(Watching(t)) \in Nat /\ Cardinality(Checkers) \in Nat
    BY WatchersAreFinite
  <2> QED BY <2>1, <2>2
<1>2. IInv => AlertedOncePerHour
  BY <1>1
<1> QED BY <1>2, Invariance, PTL
=============================================================================
