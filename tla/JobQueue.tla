------------------------------ MODULE JobQueue ------------------------------
(***************************************************************************)
(* The Redis job queue (backend/pkg/queue/queue.go): a list of jobs to run *)
(* now, a sorted set of jobs to run later, and a list of dead ones.        *)
(*                                                                         *)
(* An entry is the JSON of a job: its identity, its Attempts and its RunAt *)
(* (which retry of the job wrote it, so that two members of the sorted set *)
(* are never the same text).  No caller asks Publish for a later time, and *)
(* any scheduled entry may be due.  A popped job exists nowhere but in its *)
(* worker until it is acknowledged, rescheduled or buried.                 *)
(***************************************************************************)
EXTENDS Naturals, FiniteSets, Bags, FiniteSetsExt

CONSTANTS
  MaxJobs,      \* bound: jobs published, numbered in order as their ids are
  Workers,      \* processes in Subscribe
  MaxRetries,   \* Job.MaxRetries: 3 by default
  MaxExtra,     \* bound: entries pushed by a second promotion
  MaxFaults     \* bound: failing Redis and database calls, killed workers

ASSUME QueueAssumption ==
  /\ IsFiniteSet(Workers)
  /\ MaxJobs \in Nat \ {0}
  /\ MaxRetries \in Nat \ {0}
  /\ MaxFaults \in Nat
  /\ MaxExtra \in Nat

VARIABLES
  pending,      \* the list, as a bag of entries: workers pop without order
  scheduled,    \* the sorted set, a set of entries
  dead,         \* how often each job is in the dead letter list
  busy,         \* the entry each worker processes, or Nothing
  polled,       \* workers whose BRPOP came back empty, before promoteScheduledJobs
  promoting,    \* entries promoteScheduledJobs has read and not yet moved
  published,    \* how many jobs were published
  retries,      \* how often each job was scheduled again
  acked,        \* ghost: copies of each job that were acknowledged
  lost,         \* ghost: copies of each job that vanished
  extra,        \* ghost: copies of each job a second promotion added
  tries,        \* ghost: how often each job was popped
  faults        \* failing calls and killed workers so far

queueVars == <<pending, scheduled, dead, busy, polled, promoting, published, retries, acked,
               lost, extra, tries, faults>>

Jobs    == 1..MaxJobs
Entry   == [job : Jobs, attempts : 0..MaxRetries, runAt : Nat]
Nothing == [job |-> 0]

QueueTypeOK ==
  /\ IsABag(pending) /\ BagToSet(pending) \subseteq Entry
  /\ scheduled \subseteq Entry
  /\ dead      \in [Jobs -> Nat]
  /\ busy      \in [Workers -> Entry \cup {Nothing}]
  /\ polled    \in SUBSET Workers
  /\ \A w \in Workers : promoting[w] \subseteq Entry
  /\ published \in 0..MaxJobs
  /\ retries   \in [Jobs -> Nat]
  /\ acked     \in [Jobs -> Nat]
  /\ lost      \in [Jobs -> Nat]
  /\ extra     \in [Jobs -> Nat]
  /\ tries     \in [Jobs -> Nat]
  /\ faults    \in 0..MaxFaults

Zero == [j \in Jobs |-> 0]

QueueInit ==
  /\ pending   = EmptyBag
  /\ scheduled = {}
  /\ busy      = [w \in Workers |-> Nothing]
  /\ polled    = {}
  /\ promoting = [w \in Workers |-> {}]
  /\ published = 0
  /\ dead = Zero /\ retries = Zero /\ acked = Zero /\ lost = Zero /\ extra = Zero /\ tries = Zero
  /\ faults    = 0

OneMore(count, j) == [count EXCEPT ![j] = @ + 1]
Fault == faults < MaxFaults /\ faults' = faults + 1

----------------------------------------------------------------------------
(* Publish: LPUSH.  The caller's own failures count as faults, too. *)
Publish(j) ==
  /\ j = published + 1
  /\ published' = j
  /\ pending' = pending (+) SetToBag({[job |-> j, attempts |-> 0, runAt |-> 0]})
  /\ UNCHANGED <<scheduled, dead, busy, polled, promoting, retries, acked, lost, extra, tries>>

AtRest(w) == busy[w] = Nothing /\ promoting[w] = {} /\ w \notin polled

(* Seeded fault: the attempt is not counted. *)
NextAttempt0(e) == e

(* Attempts++ on the popped job. *)
NextAttempt(e) == [e EXCEPT !.attempts = @ + 1]

(* BRPOP: the entry leaves Redis. *)
Pop(w) ==
  /\ AtRest(w)
  /\ \E e \in BagToSet(pending) :
       /\ pending' = pending (-) SetToBag({e})
       /\ busy' = [busy EXCEPT ![w] = NextAttempt(e)]
       /\ tries' = OneMore(tries, e.job)
  /\ UNCHANGED <<scheduled, dead, polled, promoting, published, retries, acked, lost, extra, faults>>

(* BRPOP waited five seconds for nothing. *)
PopNothing(w) ==
  /\ AtRest(w)
  /\ pending = EmptyBag
  /\ polled' = polled \cup {w}
  /\ UNCHANGED <<pending, scheduled, dead, busy, promoting, published, retries, acked, lost, extra, tries, faults>>

(* Seeded fault: jobs that were tried before are never due. *)
ReadNew(w) ==
  /\ w \in polled
  /\ polled' = polled \ {w}
  /\ \E due \in SUBSET {e \in scheduled : e.attempts = 0} \ {{}} :
       promoting' = [promoting EXCEPT ![w] = due]
  /\ UNCHANGED <<pending, scheduled, dead, busy, published, retries, acked, lost, extra, tries, faults>>

(* promoteScheduledJobs reads the entries that are due; the list may have  *)
(* filled since the BRPOP.                                                 *)
ReadDue(w) ==
  /\ w \in polled
  /\ polled' = polled \ {w}
  /\ \E due \in SUBSET scheduled \ {{}} : promoting' = [promoting EXCEPT ![w] = due]
  /\ UNCHANGED <<pending, scheduled, dead, busy, published, retries, acked, lost, extra, tries, faults>>

(* Nothing is due, or the ZRANGE fails: back to the BRPOP. *)
ReadNothing(w) ==
  /\ w \in polled
  /\ polled' = polled \ {w}
  /\ UNCHANGED <<pending, scheduled, dead, busy, promoting, published, retries, acked, lost, extra, tries, faults>>

(* ZREM and LPUSH in one MULTI; the LPUSH happens whether or not the ZREM  *)
(* removed anything, so an entry another worker has moved is pushed again. *)
Move(w) ==
  \E e \in promoting[w] :
    /\ promoting' = [promoting EXCEPT ![w] = @ \ {e}]
    /\ pending' = pending (+) SetToBag({e})
    /\ scheduled' = scheduled \ {e}
    /\ \/ e \in scheduled /\ UNCHANGED extra
       \/ /\ e \notin scheduled
          /\ MapThenSumSet(LAMBDA j : extra[j], Jobs) < MaxExtra
          /\ extra' = OneMore(extra, e.job)
    /\ UNCHANGED <<dead, busy, polled, published, retries, acked, lost, tries, faults>>

MoveFails(w) ==
  /\ Fault
  /\ \E e \in promoting[w] : promoting' = [promoting EXCEPT ![w] = @ \ {e}]
  /\ UNCHANGED <<pending, scheduled, dead, busy, polled, published, retries, acked, lost, extra, tries>>

Released(w) == busy[w] # Nothing /\ busy' = [busy EXCEPT ![w] = Nothing]

(* processFunc returned nil.  Its own failing calls count as faults, too:  *)
(* Ack, Retry and Bury leave faults to it.                                 *)
Ack(w) ==
  /\ Released(w)
  /\ acked' = OneMore(acked, busy[w].job)
  /\ UNCHANGED <<pending, scheduled, dead, polled, promoting, published, retries, lost, extra, tries>>

(* Seeded fault: no ceiling. *)
RetryAlways(w) ==
  /\ Released(w)
  /\ retries' = OneMore(retries, busy[w].job)
  /\ scheduled' = scheduled \cup {[busy[w] EXCEPT !.runAt = retries'[busy[w].job]]}
  /\ UNCHANGED <<pending, dead, polled, promoting, published, acked, lost, extra, tries>>

(* processFunc returned an error below the ceiling: run again later. *)
Retry(w) ==
  /\ Released(w)
  /\ busy[w].attempts < MaxRetries
  /\ retries' = OneMore(retries, busy[w].job)
  /\ scheduled' = scheduled \cup {[busy[w] EXCEPT !.runAt = retries'[busy[w].job]]}
  /\ UNCHANGED <<pending, dead, polled, promoting, published, acked, lost, extra, tries>>

(* Seeded fault: at the ceiling the job is dropped. *)
DropAtCeiling(w) ==
  /\ Released(w)
  /\ busy[w].attempts >= MaxRetries
  /\ UNCHANGED <<pending, scheduled, dead, polled, promoting, published, retries, acked, lost, extra, tries>>

(* ... at the ceiling: the dead letter list. *)
Bury(w) ==
  /\ Released(w)
  /\ busy[w].attempts >= MaxRetries
  /\ dead' = OneMore(dead, busy[w].job)
  /\ UNCHANGED <<pending, scheduled, polled, promoting, published, retries, acked, lost, extra, tries>>

(* The ZADD or the LPUSH that follows an error fails, as it does when the  *)
(* context was cancelled by a shutdown: printed, and the job is gone.      *)
GiveBackFails(w) ==
  /\ Fault
  /\ Released(w)
  /\ lost' = OneMore(lost, busy[w].job)
  /\ UNCHANGED <<pending, scheduled, dead, polled, promoting, published, retries, acked, extra, tries>>

GiveBack(w) ==
  \/ (Retry(w) \/ Bury(w)) /\ UNCHANGED faults
  \/ GiveBackFails(w)

(* The worker is killed with what it holds, and started again.  (Between   *)
(* an empty BRPOP and the ZRANGE that is a ReadNothing.)                   *)
Kill(w) ==
  /\ Fault
  /\ busy[w] # Nothing \/ promoting[w] # {}
  /\ lost' = IF busy[w] = Nothing THEN lost ELSE OneMore(lost, busy[w].job)
  /\ busy' = [busy EXCEPT ![w] = Nothing]
  /\ promoting' = [promoting EXCEPT ![w] = {}]
  /\ UNCHANGED <<pending, scheduled, dead, polled, published, retries, acked, extra, tries>>

----------------------------------------------------------------------------
(* The copies of a job: the k-th of an entry in the list, members of the   *)
(* sorted set, and workers.                                                *)
InList(list, j) == UNION {{e} \X (1..list[e]) : e \in {e \in BagToSet(list) : e.job = j}}
InSet(j)  == {e \in scheduled : e.job = j}
InWork(j) == {w \in Workers : busy[w].job = j}

Copies(j) == Cardinality(InList(pending, j)) + Cardinality(InSet(j)) + Cardinality(InWork(j))

(***************************************************************************)
(* No job is dropped or duplicated unaccounted for: every copy Publish or  *)
(* a double promotion made is in the list, scheduled, in a worker, or has  *)
(* ended acknowledged, dead or lost with the worker that held it.          *)
(***************************************************************************)
JobsConserved ==
  \A j \in Jobs :
    Copies(j) + acked[j] + dead[j] + lost[j] = extra[j] + IF j <= published THEN 1 ELSE 0

(***************************************************************************)
(* "Retried until the attempt ceiling": a job nobody promoted twice is     *)
(* popped at most MaxRetries times, and only a job popped that often dies. *)
(***************************************************************************)
AttemptCeiling ==
  \A j \in Jobs : extra[j] = 0 =>
    /\ tries[j] <= MaxRetries
    /\ dead[j] > 0 => tries[j] = MaxRetries
=============================================================================
