-------------------------- MODULE EmailWorkerProofs --------------------------
(***************************************************************************)
(* What holds of the job queue and its mail for every number of jobs,      *)
(* workers, retries and addresses.                                         *)
(*                                                                         *)
(* The copies of a job can be counted because an entry scheduled again is  *)
(* never the text of one that is there.  A job nobody promoted twice then  *)
(* has one copy, so its Attempts is how often it was popped, and a worker  *)
(* about to send it holds an attempt no mail was sent for yet.             *)
(***************************************************************************)
EXTENDS EmailWorker, FiniteSetTheorems, TLAPS

Counter == [Jobs -> Nat]

QueueTypes ==
  /\ IsABag(pending) /\ BagToSet(pending) \subseteq Entry
  /\ scheduled \subseteq Entry /\ IsFiniteSet(scheduled)
  /\ busy \in [Workers -> Entry \cup {Nothing}]
  /\ promoting \in [Workers -> SUBSET Entry]
  /\ published \in 0..MaxJobs /\ faults \in 0..MaxFaults

CountTypes ==
  /\ dead \in Counter /\ retries \in Counter /\ acked \in Counter
  /\ lost \in Counter /\ extra \in Counter /\ tries \in Counter

MailTypes ==
  /\ step       \in [Workers -> Step]
  /\ log        \in [Jobs -> Status]
  /\ known      \in SUBSET Jobs
  /\ suppressed \in SUBSET Recipients
  /\ accepted   \in [Jobs -> Nat]
  /\ late       \in [Recipients -> Nat]

(* An entry that waits was published, and has an attempt left. *)
Fresh(e) == e.job <= published /\ e.attempts < MaxRetries

EntriesAreFresh ==
  /\ \A e \in BagToSet(pending) : Fresh(e)
  /\ \A e \in scheduled : Fresh(e) /\ e.runAt <= retries[e.job]
  /\ \A w \in Workers : \A e \in promoting[w] : Fresh(e)
  /\ \A w \in Workers : busy[w] # Nothing => busy[w].job <= published
  /\ \A j \in Jobs : IsFiniteSet(InList(pending, j))

(* A worker holds a job exactly while it is inside processFunc. *)
StepsMatchJobs ==
  \A w \in Workers : /\ step[w] = "rest" <=> busy[w] = Nothing
                     /\ step[w] = "record" => accepted[Job(w)] > 0

(* Workers whose check has passed may still send to an address. *)
Sending(r) == {w \in Workers : step[w] = "send" /\ To[Job(w)] = r}

LateIsOwed ==
  \A r \in Recipients : /\ r \notin suppressed => late[r] = 0
                        /\ late[r] + Cardinality(Sending(r)) <= Cardinality(Workers)

(* A job's attempts, whichever copy counts them, while there is but one. *)
Counted(j) ==
  /\ \A e \in BagToSet(pending) \cup scheduled : e.job = j => e.attempts = tries[j]
  /\ \A w \in Workers : Job(w) = j =>
       /\ busy[w].attempts = tries[j]
       /\ step[w] \in {"check", "send"} => accepted[j] < tries[j]

AttemptsAreCounted ==
  \A j \in Jobs :
    /\ extra[j] = 0 => /\ Counted(j)
                       /\ tries[j] <= MaxRetries
                       /\ dead[j] > 0 => tries[j] = MaxRetries
                       /\ accepted[j] <= tries[j]
    /\ j > published => tries[j] = 0

QueueInv == QueueTypes /\ CountTypes /\ EntriesAreFresh /\ JobsConserved

IInv ==
  /\ QueueInv
  /\ MailTypes
  /\ StepsMatchJobs
  /\ AckedMeansHandled
  /\ LateIsOwed
  /\ AttemptsAreCounted

----------------------------------------------------------------------------
(* One copy more of an entry. *)
LEMMA BagGains ==
  ASSUME NEW B, IsABag(B), NEW e
  PROVE  /\ IsABag(B (+) SetToBag({e}))
         /\ BagToSet(B (+) SetToBag({e})) = BagToSet(B) \cup {e}
         /\ (B (+) SetToBag({e}))[e] = (IF e \in BagToSet(B) THEN B[e] ELSE 0) + 1
         /\ \A d \in BagToSet(B) \ {e} : (B (+) SetToBag({e}))[d] = B[d]
         /\ \A d \in BagToSet(B) : B[d] \in Nat /\ B[d] > 0
<1> DEFINE C == B (+) SetToBag({e})
<1>1. SetToBag({e}) = [d \in {e} |-> 1]
  BY DEF SetToBag
<1>2. C = [d \in DOMAIN B \cup {e} |-> (IF d \in DOMAIN B THEN B[d] ELSE 0)
                                         + (IF d \in {e} THEN 1 ELSE 0)]
  BY <1>1 DEF (+)
<1> HIDE DEF C
<1>3. \A d \in DOMAIN B : B[d] \in Nat /\ B[d] > 0
  BY DEF IsABag
<1>4. DOMAIN C = DOMAIN B \cup {e}
  BY <1>2
<1>5. C[e] = (IF e \in DOMAIN B THEN B[e] ELSE 0) + 1
  BY <1>2
<1>6. \A d \in DOMAIN B \ {e} : C[d] = B[d]
  BY <1>2, <1>3
<1>7. \A d \in DOMAIN C : C[d] \in Nat /\ C[d] > 0
  <2>1. C[e] \in Nat /\ C[e] > 0
    BY <1>3, <1>5
  <2> QED BY <1>3, <1>4, <1>6, <2>1
<1> QED BY <1>2, <1>3, <1>4, <1>5, <1>6, <1>7 DEF C, IsABag, BagToSet

(* One copy less. *)
LEMMA BagLoses ==
  ASSUME NEW B, IsABag(B), NEW e \in BagToSet(B)
  PROVE  /\ IsABag(B (-) SetToBag({e}))
         /\ BagToSet(B (-) SetToBag({e})) \subseteq BagToSet(B)
         /\ e \in BagToSet(B (-) SetToBag({e})) => (B (-) SetToBag({e}))[e] = B[e] - 1
         /\ e \notin BagToSet(B (-) SetToBag({e})) => B[e] = 1
         /\ \A d \in BagToSet(B) \ {e} : /\ d \in BagToSet(B (-) SetToBag({e}))
                                        /\ (B (-) SetToBag({e}))[d] = B[d]
         /\ \A d \in BagToSet(B) : B[d] \in Nat /\ B[d] > 0
<1> DEFINE C == B (-) SetToBag({e})
          D == [d \in DOMAIN B |-> IF d = e THEN B[d] - 1 ELSE B[d]]
<1>1. SetToBag({e}) = [d \in {e} |-> 1]
  BY DEF SetToBag
<1>2. D = [d \in DOMAIN B |-> IF d \in DOMAIN SetToBag({e}) THEN B[d] - SetToBag({e})[d] ELSE B[d]]
  BY <1>1
<1>3. C = [d \in {x \in DOMAIN D : D[x] > 0} |-> D[d]]
  BY <1>2 DEF (-)
<1> HIDE DEF C
<1>4. \A d \in DOMAIN B : B[d] \in Nat /\ B[d] > 0
  BY DEF IsABag
<1>5. DOMAIN D = DOMAIN B /\ D[e] = B[e] - 1 /\ \A d \in DOMAIN B \ {e} : D[d] = B[d]
  BY DEF BagToSet
<1> HIDE DEF D
<1>6. DOMAIN C = {x \in DOMAIN D : D[x] > 0} /\ \A d \in DOMAIN C : C[d] = D[d]
  BY <1>3
<1>7. \A d \in DOMAIN C : C[d] \in Nat /\ C[d] > 0
  <2>1. \A d \in DOMAIN C \ {e} : C[d] \in Nat /\ C[d] > 0
    BY <1>4, <1>5, <1>6
  <2>2. e \in DOMAIN C => C[e] \in Nat /\ C[e] > 0
    BY <1>4, <1>5, <1>6 DEF BagToSet
  <2> QED BY <2>1, <2>2
<1>8. C = [d \in DOMAIN C |-> C[d]]
  BY <1>3
<1>9. e \notin DOMAIN C => B[e] = 1
  BY <1>4, <1>5, <1>6 DEF BagToSet
<1> QED BY <1>4, <1>5, <1>6, <1>7, <1>8, <1>9 DEF C, IsABag, BagToSet

(* The copies of a job in a list are its entries, numbered. *)
LEMMA InListTokens ==
  ASSUME NEW B, NEW j, NEW c
  PROVE  c \in InList(B, j) <=>
           \E e \in BagToSet(B) : e.job = j /\ \E k \in 1..B[e] : c = <<e, k>>
BY DEF InList

(* Entries that are the same in two lists are the same copies. *)
LEMMA InListSame ==
  ASSUME NEW B, NEW C, NEW j,
         \A d : d.job = j => (d \in BagToSet(C) <=> d \in BagToSet(B)),
         \A d \in BagToSet(B) : d.job = j => C[d] = B[d]
  PROVE  InList(C, j) = InList(B, j)
<1>1. ASSUME NEW c PROVE c \in InList(C, j) <=> c \in InList(B, j)
  BY InListTokens
<1> QED BY <1>1

(* An entry pushed is one copy more of its job in the list. *)
LEMMA InListGains ==
  ASSUME NEW B, IsABag(B), NEW e, IsFiniteSet(InList(B, e.job))
  PROVE  /\ IsFiniteSet(InList(B (+) SetToBag({e}), e.job))
         /\ Cardinality(InList(B (+) SetToBag({e}), e.job)) = Cardinality(InList(B, e.job)) + 1
         /\ \A j : j # e.job => InList(B (+) SetToBag({e}), j) = InList(B, j)
<1> DEFINE C == B (+) SetToBag({e})
           n == (IF e \in BagToSet(B) THEN B[e] ELSE 0) + 1
           new == <<e, n>>
<1>1. /\ BagToSet(C) = BagToSet(B) \cup {e}
      /\ C[e] = n
      /\ \A d \in BagToSet(B) \ {e} : C[d] = B[d]
      /\ \A d \in BagToSet(B) : B[d] \in Nat /\ B[d] > 0
  BY BagGains
<1> HIDE DEF C
<1>2. ASSUME NEW j, j # e.job PROVE InList(C, j) = InList(B, j)
  BY <1>1, <1>2, InListSame
<1>3. n \in Nat /\ n > 0 /\ (e \in BagToSet(B) => n = B[e] + 1)
  BY <1>1
<1>4. 1..n = (IF e \in BagToSet(B) THEN 1..B[e] ELSE {}) \cup {n}
  BY <1>1, <1>3
<1>5. e \in BagToSet(B) => n \notin 1..B[e]
  BY <1>1, <1>3
<1> HIDE DEF n
<1>6. ASSUME NEW c PROVE c \in InList(C, e.job) <=> c \in InList(B, e.job) \/ c = new
  <2>1. c \in InList(C, e.job) <=>
          \/ \E d \in BagToSet(B) \ {e} : d.job = e.job /\ \E k \in 1..B[d] : c = <<d, k>>
          \/ \E k \in 1..n : c = <<e, k>>
    BY <1>1, InListTokens
  <2>2. c \in InList(B, e.job) <=>
          \/ \E d \in BagToSet(B) \ {e} : d.job = e.job /\ \E k \in 1..B[d] : c = <<d, k>>
          \/ e \in BagToSet(B) /\ \E k \in 1..B[e] : c = <<e, k>>
    BY InListTokens
  <2> QED BY <1>4, <2>1, <2>2
<1>7. new \notin InList(B, e.job)
  BY <1>5, InListTokens
<1>8. InList(C, e.job) = InList(B, e.job) \cup {new}
  BY <1>6
<1> QED BY <1>2, <1>7, <1>8, FS_AddElement DEF C

(* An entry popped is one copy less. *)
LEMMA InListShrinks ==
  ASSUME NEW B, IsABag(B), NEW e \in BagToSet(B), IsFiniteSet(InList(B, e.job))
  PROVE  /\ <<e, B[e]>> \in InList(B, e.job)
         /\ InList(B (-) SetToBag({e}), e.job) = InList(B, e.job) \ {<<e, B[e]>>}
         /\ IsFiniteSet(InList(B (-) SetToBag({e}), e.job))
         /\ Cardinality(InList(B (-) SetToBag({e}), e.job)) = Cardinality(InList(B, e.job)) - 1
         /\ \A j : j # e.job => InList(B (-) SetToBag({e}), j) = InList(B, j)
<1> DEFINE C == B (-) SetToBag({e})
           n == B[e]
           old == <<e, n>>
<1>1. /\ BagToSet(C) \subseteq BagToSet(B)
      /\ e \in BagToSet(C) => C[e] = n - 1
      /\ e \notin BagToSet(C) => n = 1
      /\ \A d \in BagToSet(B) \ {e} : d \in BagToSet(C) /\ C[d] = B[d]
      /\ n \in Nat /\ n > 0
  BY BagLoses
<1> HIDE DEF C
<1>2. ASSUME NEW j, j # e.job PROVE InList(C, j) = InList(B, j)
  BY <1>1, <1>2, InListSame
<1>3. 1..n = (1..n - 1) \cup {n} /\ n \notin 1..n - 1 /\ (n = 1 => 1..n - 1 = {})
  BY <1>1
<1> HIDE DEF n
<1>4. ASSUME NEW c PROVE c \in InList(C, e.job) <=> c \in InList(B, e.job) /\ c # old
  <2>1. c \in InList(C, e.job) <=>
          \/ \E d \in BagToSet(B) \ {e} : d.job = e.job /\ \E k \in 1..B[d] : c = <<d, k>>
          \/ \E k \in 1..n - 1 : c = <<e, k>>
    BY <1>1, <1>3, InListTokens
  <2>2. c \in InList(B, e.job) <=>
          \/ \E d \in BagToSet(B) \ {e} : d.job = e.job /\ \E k \in 1..B[d] : c = <<d, k>>
          \/ \E k \in 1..n : c = <<e, k>>
    BY InListTokens DEF n
  <2> QED BY <1>3, <2>1, <2>2
<1>5. old \in InList(B, e.job)
  BY <1>3, InListTokens DEF n
<1>6. InList(C, e.job) = InList(B, e.job) \ {old}
  BY <1>4
<1> QED BY <1>2, <1>5, <1>6, FS_RemoveElement DEF C, n

----------------------------------------------------------------------------
(* No worker without an entry holds a job. *)
LEMMA NoJobIsZero == Jobs \subseteq Nat /\ 0 \notin Jobs /\ Nothing.job = 0 /\ Nothing \notin Entry
BY QueueAssumption DEF QueueAssumption, Jobs, Nothing, Entry

LEMMA OneMoreCounts ==
  ASSUME NEW count \in Counter, NEW j \in Jobs
  PROVE  /\ OneMore(count, j) \in Counter
         /\ OneMore(count, j)[j] = count[j] + 1
         /\ \A k \in Jobs : count[k] \in Nat /\ (k # j => OneMore(count, j)[k] = count[k])
BY DEF Counter, OneMore

(* Failures are bounded. *)
LEMMA FaultCounts == ASSUME faults \in 0..MaxFaults, Fault PROVE faults' \in 0..MaxFaults
BY QueueAssumption DEF QueueAssumption, Fault

(* What is counted is finite. *)
LEMMA CopiesAreNat ==
  ASSUME QueueTypes, NEW j \in Jobs, IsFiniteSet(InList(pending, j))
  PROVE  /\ IsFiniteSet(InSet(j)) /\ IsFiniteSet(InWork(j))
         /\ Cardinality(InList(pending, j)) \in Nat
         /\ Cardinality(InSet(j)) \in Nat /\ Cardinality(InWork(j)) \in Nat
<1>1. InSet(j) \in SUBSET scheduled /\ InWork(j) \in SUBSET Workers
  BY DEF InSet, InWork
<1>2. IsFiniteSet(scheduled) /\ IsFiniteSet(Workers)
  BY QueueAssumption DEF QueueTypes, QueueAssumption
<1> QED BY <1>1, <1>2, FS_Subset, FS_CardinalityType

(* A worker that takes an entry, and one that is done with it. *)
LEMMA WorkerTakes ==
  ASSUME QueueTypes, NEW w \in Workers, busy[w] = Nothing, NEW e \in Entry,
         busy' = [busy EXCEPT ![w] = e]
  PROVE  /\ busy' \in [Workers -> Entry \cup {Nothing}]
         /\ Cardinality(InWork(e.job)') = Cardinality(InWork(e.job)) + 1
         /\ \A j \in Jobs : j # e.job => InWork(j)' = InWork(j)
<1>1. e.job \in Jobs
  BY DEF Entry
<1>2. busy'[w] = e /\ \A v \in Workers \ {w} : busy'[v] = busy[v]
  BY DEF QueueTypes
<1>3. InWork(e.job)' = InWork(e.job) \cup {w}
  BY <1>1, <1>2 DEF InWork
<1>4. \A j \in Jobs : w \notin InWork(j)
  BY NoJobIsZero DEF InWork
<1>5. ASSUME NEW j \in Jobs, j # e.job PROVE InWork(j)' = InWork(j)
  BY <1>2, <1>4, <1>5 DEF InWork
<1>6. IsFiniteSet(InWork(e.job))
  <2>1. InWork(e.job) \in SUBSET Workers
    BY DEF InWork
  <2> QED BY <2>1, QueueAssumption, FS_Subset DEF QueueAssumption
<1> QED BY <1>1, <1>3, <1>4, <1>5, <1>6, FS_AddElement DEF QueueTypes

LEMMA WorkerFrees ==
  ASSUME QueueTypes, NEW w \in Workers, busy[w] # Nothing, busy' = [busy EXCEPT ![w] = Nothing]
  PROVE  /\ busy[w] \in Entry /\ busy[w].job \in Jobs
         /\ busy' \in [Workers -> Entry \cup {Nothing}] /\ busy'[w] = Nothing
         /\ \A v \in Workers \ {w} : busy'[v] = busy[v]
         /\ \A j \in Jobs :
              IF busy[w].job = j
                THEN Cardinality(InWork(j)') = Cardinality(InWork(j)) - 1
                ELSE InWork(j)' = InWork(j)
<1>1. busy[w] \in Entry /\ busy[w].job \in Jobs
  BY DEF QueueTypes, Entry
<1>2. busy'[w] = Nothing /\ \A v \in Workers \ {w} : busy'[v] = busy[v]
  BY DEF QueueTypes
<1>3. ASSUME NEW j \in Jobs, busy[w].job = j
      PROVE  Cardinality(InWork(j)') = Cardinality(InWork(j)) - 1
  <2>1. InWork(j)' = InWork(j) \ {w} /\ w \in InWork(j)
    BY <1>2, <1>3, NoJobIsZero DEF InWork
  <2>2. IsFiniteSet(InWork(j))
    <3>1. InWork(j) \in SUBSET Workers
      BY DEF InWork
    <3> QED BY <3>1, QueueAssumption, FS_Subset DEF QueueAssumption
  <2> QED BY <2>1, <2>2, FS_RemoveElement
<1>4. ASSUME NEW j \in Jobs, busy[w].job # j PROVE InWork(j)' = InWork(j)
  BY <1>2, <1>4, NoJobIsZero DEF InWork
<1> QED BY <1>1, <1>2, <1>3, <1>4 DEF QueueTypes

(* The equation of a job, and that its terms are numbers. *)
LEMMA JobEquation ==
  ASSUME QueueInv, NEW j \in Jobs
  PROVE  /\ Cardinality(InList(pending, j)) + Cardinality(InSet(j)) + Cardinality(InWork(j))
              + acked[j] + dead[j] + lost[j] = extra[j] + IF j <= published THEN 1 ELSE 0
         /\ Cardinality(InList(pending, j)) \in Nat /\ Cardinality(InSet(j)) \in Nat
         /\ Cardinality(InWork(j)) \in Nat
         /\ acked[j] \in Nat /\ dead[j] \in Nat /\ lost[j] \in Nat /\ extra[j] \in Nat
         /\ j \in Nat /\ published \in Nat
<1>1. /\ acked[j] \in Nat /\ dead[j] \in Nat /\ lost[j] \in Nat /\ extra[j] \in Nat
      /\ published \in Nat
  BY DEF QueueInv, QueueTypes, CountTypes, Counter
<1>2. /\ Cardinality(InList(pending, j)) \in Nat
      /\ Cardinality(InSet(j)) \in Nat /\ Cardinality(InWork(j)) \in Nat
  BY CopiesAreNat DEF QueueInv, EntriesAreFresh
<1> QED BY <1>1, <1>2, NoJobIsZero DEF QueueInv, JobsConserved, Copies

(* ... and what a step has to show of them. *)
LEMMA EquationConserves ==
  ASSUME \A j \in Jobs :
           Cardinality(InList(pending', j)) + Cardinality(InSet(j)') + Cardinality(InWork(j)')
             + acked'[j] + dead'[j] + lost'[j] = extra'[j] + IF j <= published' THEN 1 ELSE 0
  PROVE  JobsConserved'
BY DEF JobsConserved, Copies

(* The queue keeps its invariant: one lemma for each of its operations. *)
LEMMA PublishKeeps ==
  ASSUME QueueInv, NEW j \in Jobs, Publish(j), faults' \in 0..MaxFaults
  PROVE  QueueInv'
<1> DEFINE e == [job |-> j, attempts |-> 0, runAt |-> 0]
<1>1. e \in Entry /\ e.job = j /\ e.attempts = 0 /\ 0 < MaxRetries
  BY QueueAssumption DEF QueueAssumption, Entry
<1>2. pending' = pending (+) SetToBag({e})
  BY DEF Publish
<1> HIDE DEF e
<1>3. published' = j /\ published \in Nat /\ j = published + 1
  BY DEF Publish, QueueInv, QueueTypes
<1>4. QueueTypes'
  <2>1. IsABag(pending') /\ BagToSet(pending') \subseteq Entry
    <3>1. IsABag(pending) /\ BagToSet(pending) \subseteq Entry
      BY DEF QueueInv, QueueTypes
    <3>2. IsABag(pending (+) SetToBag({e}))
      BY <3>1, BagGains
    <3>3. BagToSet(pending (+) SetToBag({e})) = BagToSet(pending) \cup {e}
      BY <3>1, BagGains
    <3> QED BY <1>1, <1>2, <3>1, <3>2, <3>3
  <2>2. published' \in 0..MaxJobs
    BY <1>3, QueueAssumption DEF QueueAssumption, Jobs
  <2> QED BY <2>1, <2>2 DEF Publish, QueueInv, QueueTypes
<1>5. CountTypes'
  BY DEF Publish, QueueInv, CountTypes
<1>6. /\ \A k \in Jobs : IsFiniteSet(InList(pending', k))
      /\ Cardinality(InList(pending', j)) = Cardinality(InList(pending, j)) + 1
      /\ \A k \in Jobs \ {j} : InList(pending', k) = InList(pending, k)
  BY <1>1, <1>2, InListGains DEF QueueInv, QueueTypes, EntriesAreFresh
<1>7. EntriesAreFresh'
  <2>1. \A d \in Entry : Fresh(d) => Fresh(d)'
    BY <1>3 DEF Fresh, Entry, Jobs
  <2>2. \A d \in BagToSet(pending') : d = e \/ d \in BagToSet(pending)
    <3>1. IsABag(pending)
      BY DEF QueueInv, QueueTypes
    <3>2. BagToSet(pending (+) SetToBag({e})) = BagToSet(pending) \cup {e}
      BY <3>1, BagGains
    <3> QED BY <1>2, <3>2
  <2>3. Fresh(e)'
    BY <1>1, <1>3 DEF Fresh
  <2>4. \A d \in scheduled : d \in Entry
    BY DEF QueueInv, QueueTypes
  <2>5. \A v \in Workers : \A d \in promoting[v] : d \in Entry
    BY DEF QueueInv, QueueTypes
  <2>6. \A v \in Workers : busy[v] # Nothing => busy[v].job <= j
    <3>1. \A v \in Workers : busy[v] # Nothing => busy[v].job \in Nat
      BY NoJobIsZero DEF QueueInv, QueueTypes, Entry
    <3>2. \A v \in Workers : busy[v] # Nothing => busy[v].job <= published
      BY DEF QueueInv, EntriesAreFresh
    <3> QED BY <1>3, <3>1, <3>2
  <2>7. \A d \in BagToSet(pending) : d \in Entry
    BY DEF QueueInv, QueueTypes
  <2> QED BY <1>3, <1>6, <2>1, <2>2, <2>3, <2>4, <2>5, <2>6, <2>7 DEF Publish, QueueInv, EntriesAreFresh
<1>8. JobsConserved'
  <2>1. \A k : InSet(k)' = InSet(k) /\ InWork(k)' = InWork(k)
    BY DEF Publish, InSet, InWork
  <2>2. acked' = acked /\ dead' = dead /\ lost' = lost /\ extra' = extra
    BY DEF Publish
  <2> QED BY <1>3, <1>6, <2>1, <2>2, JobEquation, EquationConserves
<1> QED BY <1>4, <1>5, <1>7, <1>8 DEF QueueInv

LEMMA PopKeeps ==
  ASSUME QueueInv, NEW w \in Workers, Pop(w), faults' = faults
  PROVE  QueueInv'
<1>1. PICK e \in BagToSet(pending) :
        /\ pending' = pending (-) SetToBag({e})
        /\ busy' = [busy EXCEPT ![w] = NextAttempt(e)]
        /\ tries' = OneMore(tries, e.job)
  BY DEF Pop
<1>2. UNCHANGED <<scheduled, dead, promoting, published, retries, acked, lost, extra>>
  BY DEF Pop
<1>3. /\ busy[w] = Nothing /\ e \in Entry /\ e.job \in Jobs
      /\ IsABag(pending) /\ BagToSet(pending) \subseteq Entry
  BY DEF Pop, AtRest, QueueInv, QueueTypes, Entry
<1>4. Fresh(e) /\ \A k \in Jobs : IsFiniteSet(InList(pending, k))
  BY DEF QueueInv, EntriesAreFresh
<1>5. NextAttempt(e) \in Entry /\ NextAttempt(e).job = e.job
  BY <1>3, <1>4, QueueAssumption DEF QueueAssumption, Fresh, NextAttempt, Entry
<1>6. /\ IsABag(pending') /\ BagToSet(pending') \subseteq BagToSet(pending)
      /\ IsFiniteSet(InList(pending', e.job))
      /\ Cardinality(InList(pending', e.job)) = Cardinality(InList(pending, e.job)) - 1
      /\ \A k \in Jobs : k # e.job => InList(pending', k) = InList(pending, k)
  <2>1. /\ IsABag(pending (-) SetToBag({e}))
        /\ BagToSet(pending (-) SetToBag({e})) \subseteq BagToSet(pending)
    BY <1>3, BagLoses
  <2>2. IsFiniteSet(InList(pending, e.job))
    BY <1>3, <1>4
  <2> QED BY <1>1, <1>3, <2>1, <2>2, InListShrinks
<1>7. /\ busy' \in [Workers -> Entry \cup {Nothing}]
      /\ Cardinality(InWork(e.job)') = Cardinality(InWork(e.job)) + 1
      /\ \A k \in Jobs : k # e.job => InWork(k)' = InWork(k)
  <2> DEFINE n == NextAttempt(e)
  <2>1. n \in Entry /\ n.job = e.job /\ busy' = [busy EXCEPT ![w] = n]
    BY <1>1, <1>5
  <2> HIDE DEF n
  <2>2. QueueTypes /\ busy[w] = Nothing
    BY <1>3 DEF QueueInv
  <2> QED BY <2>1, <2>2, WorkerTakes
<1>8. QueueTypes'
  BY <1>2, <1>3, <1>6, <1>7 DEF QueueInv, QueueTypes
<1>9. CountTypes'
  BY <1>1, <1>2, <1>3, OneMoreCounts DEF QueueInv, CountTypes
<1>10. EntriesAreFresh'
  <2>1. \A v \in Workers : busy'[v] # Nothing => busy'[v].job <= published
    <3>1. busy'[w] = NextAttempt(e) /\ \A v \in Workers \ {w} : busy'[v] = busy[v]
      BY <1>1 DEF QueueInv, QueueTypes
    <3> QED BY <1>4, <1>5, <3>1 DEF Fresh, QueueInv, EntriesAreFresh
  <2>2. \A k \in Jobs : IsFiniteSet(InList(pending', k))
    BY <1>4, <1>6
  <2>3. \A d : Fresh(d)' <=> Fresh(d)
    BY <1>2 DEF Fresh
  <2>4. \A d \in BagToSet(pending') : Fresh(d)
    BY <1>6 DEF QueueInv, EntriesAreFresh
  <2> QED BY <1>2, <2>1, <2>2, <2>3, <2>4 DEF QueueInv, EntriesAreFresh
<1>11. JobsConserved'
  <2>1. \A k : InSet(k)' = InSet(k)
    BY <1>2 DEF InSet
  <2> QED BY <1>2, <1>3, <1>6, <1>7, <2>1, JobEquation, EquationConserves
<1> QED BY <1>8, <1>9, <1>10, <1>11 DEF QueueInv

LEMMA ReadDueKeeps ==
  ASSUME QueueInv, NEW w \in Workers, ReadDue(w)
  PROVE  QueueInv'
<1>1. PICK due \in SUBSET scheduled : promoting' = [promoting EXCEPT ![w] = due]
  BY DEF ReadDue
<1>2. UNCHANGED <<pending, scheduled, dead, busy, published, retries, acked, lost, extra, tries, faults>>
  BY DEF ReadDue
<1>3. QueueTypes' /\ CountTypes'
  BY <1>1, <1>2 DEF QueueInv, QueueTypes, CountTypes
<1>4. EntriesAreFresh'
  <2>1. \A v \in Workers : promoting'[v] = promoting[v] \/ promoting'[v] \subseteq scheduled
    BY <1>1 DEF QueueInv, QueueTypes
  <2>2. \A d : Fresh(d)' <=> Fresh(d)
    BY <1>2 DEF Fresh
  <2> QED BY <1>2, <2>1, <2>2 DEF QueueInv, EntriesAreFresh
<1>5. JobsConserved'
  BY <1>2 DEF QueueInv, JobsConserved, Copies, InSet, InWork
<1> QED BY <1>3, <1>4, <1>5 DEF QueueInv

LEMMA MoveFailsKeeps ==
  ASSUME QueueInv, NEW w \in Workers, MoveFails(w)
  PROVE  QueueInv'
<1>1. PICK e \in promoting[w] : promoting' = [promoting EXCEPT ![w] = promoting[w] \ {e}]
  BY DEF MoveFails
<1>2. UNCHANGED <<pending, scheduled, dead, busy, published, retries, acked, lost, extra, tries>>
  BY DEF MoveFails
<1>3. QueueTypes' /\ CountTypes'
  <2>1. promoting' \in [Workers -> SUBSET Entry]
    BY <1>1 DEF QueueInv, QueueTypes
  <2>2. faults' \in 0..MaxFaults
    BY FaultCounts DEF MoveFails, QueueInv, QueueTypes
  <2> QED BY <1>2, <2>1, <2>2 DEF QueueInv, QueueTypes, CountTypes
<1>4. EntriesAreFresh'
  <2>1. \A v \in Workers : promoting'[v] \subseteq promoting[v]
    BY <1>1 DEF QueueInv, QueueTypes
  <2>2. \A d : Fresh(d)' <=> Fresh(d)
    BY <1>2 DEF Fresh
  <2> QED BY <1>2, <2>1, <2>2 DEF QueueInv, EntriesAreFresh
<1>5. JobsConserved'
  BY <1>2 DEF QueueInv, JobsConserved, Copies, InSet, InWork
<1> QED BY <1>3, <1>4, <1>5 DEF QueueInv

LEMMA MoveKeeps ==
  ASSUME QueueInv, NEW w \in Workers, Move(w)
  PROVE  QueueInv'
<1>1. PICK e \in promoting[w] :
        /\ promoting' = [promoting EXCEPT ![w] = promoting[w] \ {e}]
        /\ pending' = pending (+) SetToBag({e})
        /\ scheduled' = scheduled \ {e}
        /\ \/ e \in scheduled /\ extra' = extra
           \/ e \notin scheduled /\ extra' = OneMore(extra, e.job)
        /\ UNCHANGED <<dead, busy, published, retries, acked, lost, tries, faults>>
  BY DEF Move
<1>2. /\ e \in Entry /\ e.job \in Jobs /\ Fresh(e)
      /\ IsABag(pending) /\ BagToSet(pending) \subseteq Entry
      /\ IsFiniteSet(scheduled) /\ scheduled \subseteq Entry
      /\ \A k \in Jobs : IsFiniteSet(InList(pending, k))
  BY DEF QueueInv, QueueTypes, EntriesAreFresh, Entry
<1>3. /\ IsABag(pending') /\ BagToSet(pending') = BagToSet(pending) \cup {e}
      /\ IsFiniteSet(InList(pending', e.job))
      /\ Cardinality(InList(pending', e.job)) = Cardinality(InList(pending, e.job)) + 1
      /\ \A k \in Jobs : k # e.job => InList(pending', k) = InList(pending, k)
  <2>1. /\ IsABag(pending (+) SetToBag({e}))
        /\ BagToSet(pending (+) SetToBag({e})) = BagToSet(pending) \cup {e}
    BY <1>2, BagGains
  <2>2. IsFiniteSet(InList(pending, e.job))
    BY <1>2
  <2> QED BY <1>1, <1>2, <2>1, <2>2, InListGains
<1>4. /\ IsFiniteSet(scheduled')
      /\ \A k \in Jobs : k # e.job => InSet(k)' = InSet(k)
      /\ e \notin scheduled => InSet(e.job)' = InSet(e.job)
      /\ e \in scheduled => Cardinality(InSet(e.job)') = Cardinality(InSet(e.job)) - 1
  <2>1. IsFiniteSet(scheduled')
    BY <1>1, <1>2, FS_RemoveElement
  <2>2. \A k : InSet(k)' = InSet(k) \ {e}
    BY <1>1 DEF InSet
  <2>3. IsFiniteSet(InSet(e.job)) /\ (e \in scheduled <=> e \in InSet(e.job))
        /\ \A k : k # e.job => e \notin InSet(k)
    <3>1. InSet(e.job) \in SUBSET scheduled
      BY DEF InSet
    <3> QED BY <1>2, <3>1, FS_Subset DEF InSet
  <2> QED BY <2>1, <2>2, <2>3, FS_RemoveElement
<1>5. QueueTypes'
  <2>1. promoting' \in [Workers -> SUBSET Entry]
    BY <1>1 DEF QueueInv, QueueTypes
  <2> QED BY <1>1, <1>2, <1>3, <1>4, <2>1 DEF QueueInv, QueueTypes
<1>6. CountTypes'
  BY <1>1, <1>2, OneMoreCounts DEF QueueInv, CountTypes
<1>7. EntriesAreFresh'
  <2>1. \A v \in Workers : promoting'[v] \subseteq promoting[v]
    BY <1>1 DEF QueueInv, QueueTypes
  <2>2. \A d : Fresh(d)' <=> Fresh(d)
    BY <1>1 DEF Fresh
  <2>3. \A k \in Jobs : IsFiniteSet(InList(pending', k))
    BY <1>2, <1>3
  <2>4. \A d \in BagToSet(pending') : Fresh(d)
    BY <1>2, <1>3 DEF QueueInv, EntriesAreFresh
  <2>5. scheduled' \subseteq scheduled /\ retries' = retries /\ busy' = busy /\ published' = published
    BY <1>1
  <2> QED BY <2>1, <2>2, <2>3, <2>4, <2>5 DEF QueueInv, EntriesAreFresh
<1>8. JobsConserved'
  <2>1. \A k : InWork(k)' = InWork(k)
    BY <1>1 DEF InWork
  <2> SUFFICES ASSUME NEW k \in Jobs
               PROVE  Cardinality(InList(pending', k)) + Cardinality(InSet(k)') + Cardinality(InWork(k)')
                        + acked'[k] + dead'[k] + lost'[k] = extra'[k] + IF k <= published' THEN 1 ELSE 0
    BY EquationConserves
  <2>2. CASE k # e.job
    <3>1. extra'[k] = extra[k]
      BY <1>1, <1>2, <2>2, OneMoreCounts DEF QueueInv, CountTypes
    <3> QED BY <1>1, <1>3, <1>4, <2>1, <2>2, <3>1, JobEquation
  <2>3. CASE k = e.job /\ e \in scheduled
    <3>1. extra'[k] = extra[k]
      BY <1>1, <2>3
    <3>2. /\ Cardinality(InList(pending', k)) = Cardinality(InList(pending, k)) + 1
          /\ Cardinality(InSet(k)') = Cardinality(InSet(k)) - 1
      BY <1>3, <1>4, <2>3
    <3> QED BY <1>1, <2>1, <3>1, <3>2, JobEquation
  <2>4. CASE k = e.job /\ e \notin scheduled
    <3>1. extra'[k] = extra[k] + 1
      BY <1>1, <1>2, <2>4, OneMoreCounts DEF QueueInv, CountTypes
    <3>2. /\ Cardinality(InList(pending', k)) = Cardinality(InList(pending, k)) + 1
          /\ InSet(k)' = InSet(k)
      BY <1>3, <1>4, <2>4
    <3> QED BY <1>1, <2>1, <3>1, <3>2, JobEquation
  <2> QED BY <2>2, <2>3, <2>4
<1> QED BY <1>5, <1>6, <1>7, <1>8 DEF QueueInv

(* Whatever becomes of the entry a worker gives up, it is counted. *)
LEMMA ReleaseKeeps ==
  ASSUME QueueInv, NEW w \in Workers, Released(w),
         UNCHANGED <<pending, published, extra, tries>>, faults' \in 0..MaxFaults,
         promoting' \in [Workers -> SUBSET Entry],
         \A v \in Workers : promoting'[v] \subseteq promoting[v],
         \/ acked' = OneMore(acked, busy[w].job) /\ UNCHANGED <<dead, lost, scheduled, retries>>
         \/ dead' = OneMore(dead, busy[w].job) /\ UNCHANGED <<acked, lost, scheduled, retries>>
         \/ lost' = OneMore(lost, busy[w].job) /\ UNCHANGED <<acked, dead, scheduled, retries>>
         \/ /\ retries' = OneMore(retries, busy[w].job)
            /\ scheduled' = scheduled \cup {[busy[w] EXCEPT !.runAt = retries'[busy[w].job]]}
            /\ busy[w].attempts < MaxRetries
            /\ UNCHANGED <<acked, dead, lost>>
  PROVE  QueueInv'
<1>1. QueueTypes /\ CountTypes /\ EntriesAreFresh
  BY DEF QueueInv
<1>2. PICK j \in Jobs : j = busy[w].job
  BY <1>1, WorkerFrees DEF Released
<1>3. /\ busy[w] \in Entry
      /\ busy' \in [Workers -> Entry \cup {Nothing}] /\ busy'[w] = Nothing
      /\ \A v \in Workers \ {w} : busy'[v] = busy[v]
      /\ Cardinality(InWork(j)') = Cardinality(InWork(j)) - 1
      /\ \A k \in Jobs : k # j => InWork(k)' = InWork(k)
  BY <1>1, <1>2, WorkerFrees DEF Released
<1>4. \A k : InList(pending', k) = InList(pending, k)
  OBVIOUS
<1>5. \A v \in Workers : busy'[v] # Nothing => busy'[v].job <= published
  BY <1>1, <1>3 DEF EntriesAreFresh
<1>6. \A d : Fresh(d)' <=> Fresh(d)
  BY DEF Fresh
<1>7. CASE UNCHANGED <<scheduled, retries>>
  <2>1. QueueTypes'
    BY <1>1, <1>3, <1>7 DEF QueueTypes
  <2>2. CountTypes'
    BY <1>1, <1>2, <1>7, OneMoreCounts DEF CountTypes
  <2>3. EntriesAreFresh'
    BY <1>1, <1>4, <1>5, <1>6, <1>7 DEF EntriesAreFresh
  <2>4. /\ acked'[j] + dead'[j] + lost'[j] = acked[j] + dead[j] + lost[j] + 1
        /\ acked'[j] \in Nat /\ dead'[j] \in Nat /\ lost'[j] \in Nat
        /\ \A k \in Jobs : k # j => acked'[k] = acked[k] /\ dead'[k] = dead[k] /\ lost'[k] = lost[k]
    <3>1. acked[j] \in Nat /\ dead[j] \in Nat /\ lost[j] \in Nat /\ retries[j] \in Nat
      BY <1>1, OneMoreCounts DEF CountTypes
    <3>2. retries'[j] = retries[j]
      BY <1>7
    <3>3. CASE acked' = OneMore(acked, j) /\ UNCHANGED <<dead, lost>>
      <4>1. acked'[j] = acked[j] + 1 /\ \A k \in Jobs : k # j => acked'[k] = acked[k]
        BY <1>1, <3>3, OneMoreCounts DEF CountTypes
      <4> QED BY <3>1, <3>3, <4>1
    <3>4. CASE dead' = OneMore(dead, j) /\ UNCHANGED <<acked, lost>>
      <4>1. dead'[j] = dead[j] + 1 /\ \A k \in Jobs : k # j => dead'[k] = dead[k]
        BY <1>1, <3>4, OneMoreCounts DEF CountTypes
      <4> QED BY <3>1, <3>4, <4>1
    <3>5. CASE lost' = OneMore(lost, j) /\ UNCHANGED <<acked, dead>>
      <4>1. lost'[j] = lost[j] + 1 /\ \A k \in Jobs : k # j => lost'[k] = lost[k]
        BY <1>1, <3>5, OneMoreCounts DEF CountTypes
      <4> QED BY <3>1, <3>5, <4>1
    <3>6. CASE retries' = OneMore(retries, j)
      BY <1>1, <3>1, <3>2, <3>6, OneMoreCounts DEF CountTypes
    <3> QED BY <1>2, <3>3, <3>4, <3>5, <3>6
  <2>5. \A k : InSet(k)' = InSet(k)
    BY <1>7 DEF InSet
  <2>6. JobsConserved'
    <3> SUFFICES ASSUME NEW k \in Jobs
                 PROVE  Cardinality(InList(pending', k)) + Cardinality(InSet(k)') + Cardinality(InWork(k)')
                          + acked'[k] + dead'[k] + lost'[k] = extra'[k] + IF k <= published' THEN 1 ELSE 0
      BY EquationConserves
    <3>1. CASE k # j
      BY <1>3, <1>4, <2>4, <2>5, <3>1, JobEquation
    <3>2. CASE k = j
      <4>1. /\ Cardinality(InWork(k)') = Cardinality(InWork(k)) - 1
            /\ acked'[k] + dead'[k] + lost'[k] = acked[k] + dead[k] + lost[k] + 1
            /\ acked'[k] \in Nat /\ dead'[k] \in Nat /\ lost'[k] \in Nat
        BY <1>3, <2>4, <3>2
      <4>2. InList(pending', k) = InList(pending, k) /\ InSet(k)' = InSet(k)
        BY <1>4, <2>5
      <4> QED BY <4>1, <4>2, JobEquation
    <3> QED BY <3>1, <3>2
  <2> QED BY <2>1, <2>2, <2>3, <2>6 DEF QueueInv
<1>8. CASE /\ retries' = OneMore(retries, busy[w].job)
           /\ scheduled' = scheduled \cup {[busy[w] EXCEPT !.runAt = retries'[busy[w].job]]}
           /\ busy[w].attempts < MaxRetries
           /\ UNCHANGED <<acked, dead, lost>>
  <2>1. /\ retries' \in Counter /\ retries'[j] = retries[j] + 1 /\ retries[j] \in Nat
        /\ \A k \in Jobs : k # j => retries'[k] = retries[k]
    BY <1>1, <1>2, <1>8, OneMoreCounts DEF CountTypes
  <2>2. PICK e \in Entry : /\ scheduled' = scheduled \cup {e}
                           /\ e.job = j /\ e.runAt = retries[j] + 1 /\ e.attempts < MaxRetries
    <3>1. [busy[w] EXCEPT !.runAt = retries'[j]] \in Entry
      BY <1>3, <2>1 DEF Entry
    <3> QED BY <1>2, <1>3, <1>8, <2>1, <3>1 DEF Entry
  <2>3. e \notin scheduled /\ Fresh(e)
    BY <1>1, <1>2, <1>3, <2>1, <2>2, NoJobIsZero DEF EntriesAreFresh, Fresh, Released
  <2>4. /\ IsFiniteSet(scheduled')
        /\ Cardinality(InSet(j)') = Cardinality(InSet(j)) + 1
        /\ \A k \in Jobs : k # j => InSet(k)' = InSet(k)
    <3>1. InSet(j)' = InSet(j) \cup {e} /\ e \notin InSet(j)
      BY <2>2, <2>3 DEF InSet
    <3>2. IsFiniteSet(InSet(j)) /\ IsFiniteSet(scheduled)
      BY <1>1, CopiesAreNat DEF EntriesAreFresh, QueueTypes
    <3>3. \A k \in Jobs : k # j => InSet(k)' = InSet(k)
      BY <2>2 DEF InSet
    <3>4. IsFiniteSet(scheduled \cup {e})
      BY <3>2, FS_AddElement
    <3>5. Cardinality(InSet(j) \cup {e}) = Cardinality(InSet(j)) + 1
      BY <3>1, <3>2, FS_AddElement
    <3> QED BY <2>2, <3>1, <3>3, <3>4, <3>5
  <2>5. QueueTypes'
    BY <1>1, <1>3, <2>2, <2>4 DEF QueueTypes
  <2>6. CountTypes'
    BY <1>1, <1>8, <2>1 DEF CountTypes
  <2>7. EntriesAreFresh'
    <3>1. \A d \in scheduled' : Fresh(d) /\ d.runAt <= retries'[d.job]
      <4>1. ASSUME NEW d \in scheduled PROVE Fresh(d) /\ d.runAt <= retries'[d.job]
        <5>1. /\ Fresh(d) /\ d.runAt <= retries[d.job]
              /\ d.runAt \in Nat /\ d.job \in Jobs /\ retries[d.job] \in Nat
          BY <1>1 DEF EntriesAreFresh, QueueTypes, CountTypes, Counter, Entry
        <5> QED BY <2>1, <5>1
      <4> QED BY <2>1, <2>2, <2>3, <4>1
    <3> QED BY <1>1, <1>4, <1>5, <1>6, <3>1 DEF EntriesAreFresh
  <2>8. JobsConserved'
    BY <1>3, <1>4, <1>8, <2>4, JobEquation, EquationConserves
  <2> QED BY <2>5, <2>6, <2>7, <2>8 DEF QueueInv
<1> QED BY <1>7, <1>8

LEMMA StutterKeeps ==
  ASSUME QueueInv, faults' \in 0..MaxFaults,
         UNCHANGED <<pending, scheduled, dead, busy, promoting, published, retries, acked, lost,
                     extra, tries>>
  PROVE  QueueInv'
<1>1. QueueTypes' /\ CountTypes'
  BY DEF QueueInv, QueueTypes, CountTypes
<1>2. EntriesAreFresh'
  BY DEF QueueInv, EntriesAreFresh, Fresh
<1>3. JobsConserved'
  BY DEF QueueInv, JobsConserved, Copies, InSet, InWork
<1> QED BY <1>1, <1>2, <1>3 DEF QueueInv

(* The ways a worker gives its entry up, as EmailWorker uses them. *)
LEMMA AckKeeps ==
  ASSUME QueueInv, NEW w \in Workers, Ack(w), faults' \in 0..MaxFaults
  PROVE  QueueInv'
<1>1. Released(w) /\ acked' = OneMore(acked, busy[w].job)
      /\ UNCHANGED <<pending, scheduled, dead, promoting, published, retries, lost, extra, tries>>
  BY DEF Ack
<1>2. promoting' \in [Workers -> SUBSET Entry] /\ \A v \in Workers : promoting'[v] \subseteq promoting[v]
  BY <1>1 DEF QueueInv, QueueTypes
<1> QED BY <1>1, <1>2, ReleaseKeeps

(* An entry given back is scheduled, buried, or lost with the call that failed. *)
GivenBack(w) ==
  /\ Released(w)
  /\ \/ /\ retries' = OneMore(retries, busy[w].job)
        /\ scheduled' = scheduled \cup {[busy[w] EXCEPT !.runAt = retries'[busy[w].job]]}
        /\ busy[w].attempts < MaxRetries
        /\ UNCHANGED <<dead, lost>>
     \/ /\ dead' = OneMore(dead, busy[w].job)
        /\ busy[w].attempts >= MaxRetries
        /\ UNCHANGED <<scheduled, retries, lost>>
     \/ lost' = OneMore(lost, busy[w].job) /\ UNCHANGED <<scheduled, retries, dead>>
  /\ UNCHANGED <<pending, promoting, published, acked, extra, tries>>

LEMMA RetryOrBury ==
  ASSUME NEW w \in Workers, Retry(w) \/ Bury(w) PROVE GivenBack(w)
BY DEF Retry, Bury, GivenBack

LEMMA GiveBackGives ==
  ASSUME NEW w \in Workers, GiveBack(w), faults \in 0..MaxFaults
  PROVE  GivenBack(w) /\ faults' \in 0..MaxFaults
<1>1. CASE (Retry(w) \/ Bury(w)) /\ UNCHANGED faults
  BY <1>1, RetryOrBury
<1>2. CASE GiveBackFails(w)
  <2>1. faults' \in 0..MaxFaults
    BY <1>2, FaultCounts DEF GiveBackFails
  <2> QED BY <1>2, <2>1 DEF GiveBackFails, GivenBack
<1> QED BY <1>1, <1>2 DEF GiveBack

LEMMA GivenBackKeeps ==
  ASSUME QueueInv, NEW w \in Workers, GivenBack(w), faults' \in 0..MaxFaults
  PROVE  QueueInv'
<1>1. promoting' \in [Workers -> SUBSET Entry] /\ \A v \in Workers : promoting'[v] \subseteq promoting[v]
  BY DEF GivenBack, QueueInv, QueueTypes
<1> QED BY <1>1, ReleaseKeeps DEF GivenBack

LEMMA KillKeeps ==
  ASSUME QueueInv, NEW w \in Workers, Kill(w)
  PROVE  QueueInv'
<1>1. faults' \in 0..MaxFaults
  BY FaultCounts DEF Kill, QueueInv, QueueTypes
<1>2. promoting' \in [Workers -> SUBSET Entry] /\ \A v \in Workers : promoting'[v] \subseteq promoting[v]
  BY DEF Kill, QueueInv, QueueTypes
<1>3. UNCHANGED <<pending, scheduled, dead, published, retries, acked, extra, tries>>
  BY DEF Kill
<1>4. CASE busy[w] # Nothing
  <2>1. Released(w) /\ lost' = OneMore(lost, busy[w].job)
    BY <1>4 DEF Kill, Released
  <2> QED BY <1>1, <1>2, <1>3, <2>1, ReleaseKeeps
<1>5. CASE busy[w] = Nothing
  <2>1. busy' = busy /\ lost' = lost
    BY <1>5 DEF Kill, QueueInv, QueueTypes
  <2>2. QueueTypes' /\ CountTypes'
    BY <1>1, <1>2, <1>3, <2>1 DEF QueueInv, QueueTypes, CountTypes
  <2>3. EntriesAreFresh'
    BY <1>2, <1>3, <2>1 DEF QueueInv, EntriesAreFresh, Fresh
  <2>4. JobsConserved'
    BY <1>3, <2>1 DEF QueueInv, JobsConserved, Copies, InSet, InWork
  <2> QED BY <2>2, <2>3, <2>4 DEF QueueInv
<1> QED BY <1>4, <1>5

----------------------------------------------------------------------------
(* A job nobody promoted twice has one copy. *)
LEMMA OneOfAKind ==
  ASSUME NEW S, IsFiniteSet(S), Cardinality(S) <= 1
  PROVE  (\A x \in S : S = {x}) /\ (S # {} => Cardinality(S) = 1)
<1>1. Cardinality(S) \in Nat
  BY FS_CardinalityType
<1>2. S # {} => Cardinality(S) = 1
  BY <1>1, FS_EmptySet
<1>3. Cardinality(S) = 1 => \E x : S = {x}
  BY FS_Singleton
<1> QED BY <1>2, <1>3

LEMMA OnlyCopy ==
  ASSUME QueueInv, NEW j \in Jobs, extra[j] = 0
  PROVE  /\ \A w \in Workers : Job(w) = j =>
              /\ InList(pending, j) = {} /\ InSet(j) = {} /\ dead[j] = 0
              /\ \A v \in Workers : Job(v) = j => v = w
         /\ \A t \in InList(pending, j) :
              /\ InList(pending, j) = {t} /\ InSet(j) = {} /\ dead[j] = 0
              /\ \A v \in Workers : Job(v) # j
<1> DEFINE L == InList(pending, j)
           S == InSet(j)
           W == InWork(j)
<1>1. /\ Cardinality(L) + Cardinality(S) + Cardinality(W) + dead[j] <= 1
      /\ Cardinality(L) \in Nat /\ Cardinality(S) \in Nat /\ Cardinality(W) \in Nat
      /\ dead[j] \in Nat
  BY JobEquation
<1>2. IsFiniteSet(L) /\ IsFiniteSet(S) /\ IsFiniteSet(W)
  BY CopiesAreNat DEF QueueInv, EntriesAreFresh
<1>3. W = {w \in Workers : Job(w) = j}
  BY DEF InWork, Job
<1> HIDE DEF L, S, W
<1>4. Cardinality(L) <= 1 /\ Cardinality(S) <= 1 /\ Cardinality(W) <= 1
  BY <1>1
<1>5. /\ \A t \in L : L = {t}
      /\ \A w \in W : W = {w}
      /\ L # {} => Cardinality(L) = 1
      /\ S # {} => Cardinality(S) = 1
      /\ W # {} => Cardinality(W) = 1
  BY <1>2, <1>4, OneOfAKind
<1>6. W # {} => L = {} /\ S = {} /\ dead[j] = 0
  BY <1>1, <1>5
<1>7. L # {} => W = {} /\ S = {} /\ dead[j] = 0
  BY <1>1, <1>5
<1> QED BY <1>3, <1>5, <1>6, <1>7 DEF L, S

(* ... so no entry of it is left when a worker holds it. *)
LEMMA NoOtherEntry ==
  ASSUME QueueInv, NEW j \in Jobs, extra[j] = 0, NEW w \in Workers, Job(w) = j
  PROVE  /\ \A e \in BagToSet(pending) \cup scheduled : e.job # j
         /\ \A v \in Workers \ {w} : Job(v) # j
         /\ dead[j] = 0
<1>1. InList(pending, j) = {} /\ InSet(j) = {} /\ dead[j] = 0 /\ \A v \in Workers : Job(v) = j => v = w
  BY OnlyCopy
<1>2. ASSUME NEW e \in BagToSet(pending), e.job = j PROVE FALSE
  <2>1. pending[e] \in Nat /\ pending[e] > 0
    BY DEF QueueInv, QueueTypes, IsABag, BagToSet
  <2>2. <<e, 1>> \in InList(pending, j)
    BY <1>2, <2>1, InListTokens
  <2> QED BY <1>1, <2>2
<1>3. \A e \in scheduled : e.job # j
  BY <1>1 DEF InSet
<1> QED BY <1>1, <1>2, <1>3

(* What a worker leaves behind has the attempts it was popped for. *)
LEMMA AttemptsAfterRelease ==
  ASSUME QueueInv, AttemptsAreCounted, MailTypes, accepted' \in [Jobs -> Nat],
         NEW w \in Workers, Released(w), step' = [step EXCEPT ![w] = "rest"],
         UNCHANGED <<pending, published, extra, tries>>,
         \/ scheduled' = scheduled
         \/ \E n \in Nat : scheduled' = scheduled \cup {[busy[w] EXCEPT !.runAt = n]},
         \/ dead' = dead
         \/ busy[w].attempts >= MaxRetries /\ dead' = OneMore(dead, busy[w].job),
         \A j \in Jobs : \/ accepted'[j] = accepted[j]
                         \/ /\ j = busy[w].job /\ step[w] = "send"
                            /\ accepted'[j] = accepted[j] + 1
  PROVE  AttemptsAreCounted'
<1>1. QueueTypes /\ CountTypes
  BY DEF QueueInv
<1>2. PICK j \in Jobs : j = busy[w].job
  BY <1>1, WorkerFrees DEF Released
<1>3. /\ busy[w] \in Entry /\ busy'[w] = Nothing
      /\ \A v \in Workers \ {w} : busy'[v] = busy[v]
  BY <1>1, WorkerFrees DEF Released
<1>4. step'[w] = "rest" /\ \A v \in Workers \ {w} : step'[v] = step[v]
  BY DEF MailTypes
<1>5. \A v \in Workers : Job(v)' = busy'[v].job
  BY DEF Job
<1>6. \A e \in scheduled' : e \in scheduled \/ (e.job = j /\ e.attempts = busy[w].attempts)
  BY <1>2, <1>3 DEF Entry
<1>7. dead'[j] = dead[j] \/ busy[w].attempts >= MaxRetries
  BY <1>2
<1>8. \A k \in Jobs : k # j => dead'[k] = dead[k] /\ accepted'[k] = accepted[k]
  BY <1>1, <1>2, OneMoreCounts DEF CountTypes
<1> SUFFICES ASSUME NEW k \in Jobs
             PROVE  /\ extra'[k] = 0 => /\ Counted(k)'
                                        /\ tries'[k] <= MaxRetries
                                        /\ dead'[k] > 0 => tries'[k] = MaxRetries
                                        /\ accepted'[k] <= tries'[k]
                    /\ k > published' => tries'[k] = 0
  BY DEF AttemptsAreCounted
<1>9. k > published' => tries'[k] = 0
  BY DEF AttemptsAreCounted
<1>10. ASSUME k # j, extra[k] = 0
       PROVE  /\ Counted(k)' /\ tries'[k] <= MaxRetries
              /\ dead'[k] > 0 => tries'[k] = MaxRetries
              /\ accepted'[k] <= tries'[k]
  <2>1. /\ Counted(k) /\ tries[k] <= MaxRetries
        /\ dead[k] > 0 => tries[k] = MaxRetries
        /\ accepted[k] <= tries[k]
    BY <1>10 DEF AttemptsAreCounted
  <2>2. Counted(k)'
    BY <1>3, <1>4, <1>5, <1>6, <1>8, <1>10, <2>1, NoJobIsZero DEF Counted, Job
  <2> QED BY <1>8, <1>10, <2>1, <2>2
<1>11. ASSUME k = j, extra[k] = 0
       PROVE  /\ Counted(k)' /\ tries'[k] <= MaxRetries
              /\ dead'[k] > 0 => tries'[k] = MaxRetries
              /\ accepted'[k] <= tries'[k]
  <2>1. /\ busy[w].attempts = tries[k] /\ tries[k] <= MaxRetries
        /\ step[w] \in {"check", "send"} => accepted[k] < tries[k]
        /\ accepted[k] <= tries[k]
    BY <1>2, <1>11 DEF AttemptsAreCounted, Counted, Job
  <2>2. /\ \A e \in BagToSet(pending) \cup scheduled : e.job # k
        /\ \A v \in Workers \ {w} : Job(v) # k
        /\ dead[k] = 0
    BY <1>2, <1>11, NoOtherEntry DEF Job
  <2>3. Counted(k)'
    <3>1. \A e \in BagToSet(pending') \cup scheduled' : e.job = k => e.attempts = tries[k]
      BY <1>6, <1>11, <2>1, <2>2
    <3>2. \A v \in Workers : Job(v)' # k
      BY <1>3, <1>5, <2>2, NoJobIsZero DEF Job
    <3> QED BY <3>1, <3>2 DEF Counted
  <2>4. accepted[k] \in Nat /\ tries[k] \in Nat /\ MaxRetries \in Nat
    BY <1>1, QueueAssumption DEF MailTypes, CountTypes, Counter, QueueAssumption
  <2>5. accepted'[k] <= tries[k]
    BY <2>1, <2>4
  <2>6. dead'[k] > 0 => tries[k] = MaxRetries
    BY <1>7, <1>11, <2>1, <2>2, <2>4
  <2> QED BY <2>1, <2>3, <2>5, <2>6
<1> QED BY <1>9, <1>10, <1>11

(* A mail that was accepted stays accepted, a suppression stays. *)
LEMMA HandledStays ==
  ASSUME AckedMeansHandled, acked' = acked, suppressed \subseteq suppressed',
         \A j \in Jobs : accepted[j] > 0 => accepted'[j] > 0
  PROVE  AckedMeansHandled'
<1>1. \A j \in Jobs : acked[j] > 0 => accepted[j] > 0 \/ To[j] \in suppressed
  BY DEF AckedMeansHandled
<1>2. \A j \in Jobs : To[j] \in suppressed => To[j] \in suppressed'
  OBVIOUS
<1>3. \A j \in Jobs : acked'[j] > 0 => accepted'[j] > 0 \/ To[j] \in suppressed'
  BY <1>1, <1>2
<1> QED BY <1>3 DEF AckedMeansHandled

(* ... and an acknowledged one has been, when its job is. *)
LEMMA HandledByAck ==
  ASSUME AckedMeansHandled, acked \in Counter, NEW w \in Workers, busy[w].job \in Jobs,
         acked' = OneMore(acked, busy[w].job), UNCHANGED <<accepted, suppressed>>,
         accepted[busy[w].job] > 0 \/ To[busy[w].job] \in suppressed
  PROVE  AckedMeansHandled'
<1>1. \A j \in Jobs : j # busy[w].job => acked'[j] = acked[j]
  BY OneMoreCounts
<1> QED BY <1>1 DEF AckedMeansHandled

(* A step of one worker that does not end where it may send. *)
LEMMA LateStays ==
  ASSUME LateIsOwed, MailTypes, NEW w \in Workers, suppressed' = suppressed,
         \A v \in Workers \ {w} : step'[v] = step[v] /\ busy'[v] = busy[v],
         step'[w] # "send", busy[w].job \in Jobs \/ late' = late,
         late' = late \/ (Accept(busy[w].job) /\ step[w] = "send")
  PROVE  LateIsOwed'
<1>1. \A r : Sending(r)' = Sending(r) \ {w}
  BY DEF Sending, Job
<1>2. \A r : IsFiniteSet(Sending(r)) /\ Cardinality(Sending(r)) \in Nat
  <2>1. \A r : Sending(r) \in SUBSET Workers
    BY DEF Sending
  <2> QED BY <2>1, QueueAssumption, FS_Subset, FS_CardinalityType DEF QueueAssumption
<1>3. Cardinality(Workers) \in Nat
  BY QueueAssumption, FS_CardinalityType DEF QueueAssumption
<1> SUFFICES ASSUME NEW r \in Recipients
             PROVE  /\ r \notin suppressed' => late'[r] = 0
                    /\ late'[r] + Cardinality(Sending(r)') <= Cardinality(Workers)
  BY DEF LateIsOwed
<1>4. /\ late[r] \in Nat /\ (r \notin suppressed => late[r] = 0)
      /\ late[r] + Cardinality(Sending(r)) <= Cardinality(Workers)
  BY DEF LateIsOwed, MailTypes
<1>5. Cardinality(Sending(r)') = IF w \in Sending(r) THEN Cardinality(Sending(r)) - 1
                                                     ELSE Cardinality(Sending(r))
  BY <1>1, <1>2, FS_RemoveElement
<1>6. \/ late'[r] = late[r]
      \/ late'[r] = late[r] + 1 /\ r \in suppressed /\ w \in Sending(r)
  <2>1. CASE late' = late
    BY <2>1
  <2>2. CASE Accept(busy[w].job) /\ step[w] = "send" /\ late' # late
    <3>1. /\ To[busy[w].job] \in suppressed
          /\ late' = [late EXCEPT ![To[busy[w].job]] = late[To[busy[w].job]] + 1]
      BY <2>2 DEF Accept
    <3>2. r = To[busy[w].job] => w \in Sending(r)
      BY <2>2 DEF Sending, Job
    <3> QED BY <3>1, <3>2 DEF MailTypes
  <2> QED BY <2>1, <2>2
<1> QED BY <1>2, <1>3, <1>4, <1>5, <1>6

(* A worker at rest takes steps only from there. *)
LEMMA WorkerIsBusy ==
  ASSUME QueueTypes, MailTypes, StepsMatchJobs, NEW w \in Workers, step[w] # "rest"
  PROVE  busy[w] # Nothing /\ busy[w] \in Entry /\ busy[w].job \in Jobs
BY DEF QueueTypes, StepsMatchJobs, Entry

(* Leaving processFunc. *)
LEMMA StepsAfterRelease ==
  ASSUME QueueTypes, MailTypes, StepsMatchJobs, NEW w \in Workers,
         busy' = [busy EXCEPT ![w] = Nothing], step' = [step EXCEPT ![w] = "rest"],
         \A j \in Jobs : accepted[j] > 0 => accepted'[j] > 0
  PROVE  /\ StepsMatchJobs' /\ step' \in [Workers -> Step]
         /\ \A v \in Workers \ {w} : step'[v] = step[v] /\ busy'[v] = busy[v]
         /\ step'[w] # "send"
<1>1. /\ \A v \in Workers \ {w} : step'[v] = step[v] /\ busy'[v] = busy[v]
      /\ step'[w] = "rest" /\ busy'[w] = Nothing
  BY DEF QueueTypes, MailTypes
<1>2. \A v \in Workers : step[v] = "record" => busy[v].job \in Jobs
  BY WorkerIsBusy
<1>3. StepsMatchJobs'
  BY <1>1, <1>2 DEF StepsMatchJobs, Job
<1> QED BY <1>1, <1>3 DEF MailTypes, Step

(* Every initial state satisfies the inductive invariant. *)
LEMMA InitIInv == Init => IInv
<1> SUFFICES ASSUME Init PROVE IInv
  OBVIOUS
<1> USE QueueAssumption DEF QueueAssumption, Init, QueueInit
<1>1. Zero \in Counter /\ \A j \in Jobs : Zero[j] = 0
  BY DEF Zero, Counter
<1>2. BagToSet(EmptyBag) = {} /\ IsABag(EmptyBag)
  BY DEF EmptyBag, SetToBag, BagToSet, IsABag
<1>3. \A j : InList(pending, j) = {} /\ InSet(j) = {}
  BY <1>2 DEF InList, InSet
<1>4. \A j \in Jobs : InWork(j) = {}
  BY NoJobIsZero DEF InWork
<1>5. QueueTypes
  <2>1. IsABag(pending) /\ BagToSet(pending) = {} /\ IsFiniteSet(scheduled)
    BY <1>2, FS_EmptySet
  <2> QED BY <2>1 DEF QueueTypes
<1>6. CountTypes
  BY <1>1 DEF CountTypes
<1>7. EntriesAreFresh
  BY <1>2, <1>3, FS_EmptySet DEF EntriesAreFresh
<1>8. JobsConserved
  <2>1. /\ acked = Zero /\ dead = Zero /\ lost = Zero /\ extra = Zero
        /\ published = 0 /\ pending = EmptyBag
    OBVIOUS
  <2> HIDE DEF Init, QueueInit
  <2>2. \A j \in Jobs : j \in Nat /\ j # 0
    BY NoJobIsZero
  <2>3. \A j \in Jobs : ~ (j <= published)
    BY <2>1, <2>2
  <2> QED BY <1>1, <1>3, <1>4, <2>1, <2>3, FS_EmptySet DEF JobsConserved, Copies
<1>9. MailTypes
  BY DEF MailTypes, Step, Status
<1>10. StepsMatchJobs
  BY DEF StepsMatchJobs
<1>11. AckedMeansHandled
  BY <1>1 DEF AckedMeansHandled
<1>12. LateIsOwed
  <2>1. \A r : Sending(r) = {}
    BY DEF Sending
  <2>2. Cardinality(Workers) \in Nat
    BY FS_CardinalityType
  <2> QED BY <2>1, <2>2, FS_EmptySet DEF LateIsOwed
<1>13. AttemptsAreCounted
  BY <1>1, <1>2, NoJobIsZero DEF AttemptsAreCounted, Counted, Job
<1> QED BY <1>5, <1>6, <1>7, <1>8, <1>9, <1>10, <1>11, <1>12, <1>13 DEF IInv, QueueInv

(* Every step preserves the inductive invariant. *)
LEMMA NextIInv == IInv /\ [Next]_vars => IInv'
<1> SUFFICES ASSUME IInv, [Next]_vars PROVE IInv'
  OBVIOUS
<1> USE DEF IInv
<1>0. /\ QueueTypes /\ CountTypes /\ faults \in 0..MaxFaults
      /\ (UNCHANGED faults \/ Fault => faults' \in 0..MaxFaults)
  BY FaultCounts DEF QueueInv, QueueTypes
<1>1. ASSUME NEW j \in Jobs, SendTransactional(j) PROVE IInv'
  <2>1. Publish(j) /\ faults' \in 0..MaxFaults
    BY <1>0, <1>1 DEF SendTransactional
  <2>2. QueueInv'
    BY <2>1, PublishKeeps
  <2>3. MailTypes'
    BY <1>1 DEF SendTransactional, MailTypes, Status
  <2>4. UNCHANGED <<step, suppressed, accepted, late, busy, acked, scheduled, dead, extra, tries>>
    BY <1>1, <2>1 DEF SendTransactional, Publish
  <2>5. StepsMatchJobs' /\ LateIsOwed'
    BY <2>4 DEF StepsMatchJobs, LateIsOwed, Sending, Job
  <2>6. AckedMeansHandled'
    BY <2>4, HandledStays
  <2>7. AttemptsAreCounted'
    <3> DEFINE e == [job |-> j, attempts |-> 0, runAt |-> 0]
    <3>1. pending' = pending (+) SetToBag({e}) /\ e.job = j /\ e.attempts = 0
      BY <2>1 DEF Publish
    <3> HIDE DEF e
    <3>2. BagToSet(pending') = BagToSet(pending) \cup {e}
      <4>1. IsABag(pending)
        BY <1>0 DEF QueueTypes
      <4> QED BY <3>1, <4>1, BagGains
    <3>3. published' = j /\ published \in Nat /\ j = published + 1 /\ tries[j] = 0
      BY <1>0, <2>1 DEF Publish, QueueTypes, AttemptsAreCounted
    <3>4. \A k \in Jobs : Counted(k) => Counted(k)'
      BY <2>4, <3>1, <3>2, <3>3 DEF Counted, Job
    <3>5. \A k \in Jobs : k > published' => k > published
      BY <3>3, NoJobIsZero
    <3> QED BY <2>4, <3>4, <3>5 DEF AttemptsAreCounted
  <2> QED BY <2>2, <2>3, <2>5, <2>6, <2>7
<1>2. ASSUME NEW j \in Jobs, HandleOpen(j) PROVE IInv'
  <2>1. UNCHANGED <<queueVars, step, known, suppressed, accepted, late>>
    BY <1>2 DEF HandleOpen
  <2>2. QueueInv'
    BY <1>0, <2>1, StutterKeeps DEF queueVars
  <2>3. MailTypes'
    BY <1>2, <2>1 DEF HandleOpen, MailTypes, Status
  <2>4. StepsMatchJobs' /\ LateIsOwed' /\ AttemptsAreCounted'
    BY <2>1 DEF queueVars, StepsMatchJobs, LateIsOwed, Sending, Job, AttemptsAreCounted, Counted
  <2>5. AckedMeansHandled'
    BY <2>1, HandledStays DEF queueVars
  <2> QED BY <2>2, <2>3, <2>4, <2>5
<1>3. ASSUME NEW j \in Jobs,
             Suppress(j) \/ \E report \in Reports : HandleResendWebhook(j, report)
      PROVE  IInv'
  <2>1. UNCHANGED <<pending, scheduled, dead, busy, promoting, published, retries, acked, lost,
                    extra, tries, step, known, accepted, late>>
    BY <1>3 DEF HandleResendWebhook, Suppress
  <2>2. /\ log' = log \/ \E report \in Reports : log' = [log EXCEPT ![j] = report]
        /\ suppressed' = suppressed \/ suppressed' = suppressed \cup {To[j]}
        /\ faults' \in 0..MaxFaults
    BY <1>0, <1>3 DEF HandleResendWebhook, Suppress
  <2>3. QueueInv'
    BY <2>1, <2>2, StutterKeeps
  <2>4. MailTypes'
    <3>1. Reports \subseteq Status /\ To[j] \in Recipients
      BY EmailAssumption DEF EmailAssumption, Status
    <3> QED BY <2>1, <2>2, <3>1 DEF MailTypes
  <2>5. StepsMatchJobs' /\ AttemptsAreCounted'
    BY <2>1 DEF StepsMatchJobs, Job, AttemptsAreCounted, Counted
  <2>6. LateIsOwed'
    BY <2>1, <2>2 DEF LateIsOwed, Sending, Job
  <2>7. AckedMeansHandled'
    BY <2>1, <2>2, HandledStays
  <2> QED BY <2>3, <2>4, <2>5, <2>6, <2>7
<1>4. ASSUME NEW w \in Workers, TakeJob(w) PROVE IInv'
  <2>1. /\ Pop(w) /\ step' = [step EXCEPT ![w] = "check"]
        /\ UNCHANGED <<log, known, suppressed, accepted, late, scheduled, dead, published, acked,
                       extra, faults>>
    BY <1>4 DEF TakeJob, Goto, Pop
  <2>2. QueueInv'
    BY <2>1, PopKeeps
  <2>3. MailTypes'
    BY <2>1 DEF MailTypes, Step
  <2>4. PICK e \in BagToSet(pending) :
          /\ pending' = pending (-) SetToBag({e})
          /\ busy' = [busy EXCEPT ![w] = NextAttempt(e)]
          /\ tries' = OneMore(tries, e.job)
    BY <2>1 DEF Pop
  <2>5. /\ busy[w] = Nothing /\ busy'[w] = NextAttempt(e)
        /\ \A v \in Workers \ {w} : busy'[v] = busy[v]
        /\ e \in Entry /\ e.job \in Jobs /\ IsABag(pending)
        /\ NextAttempt(e).job = e.job /\ NextAttempt(e).attempts = e.attempts + 1
        /\ NextAttempt(e) # Nothing
    <3>1. e \in Entry /\ e.job \in Jobs /\ IsABag(pending)
      BY <1>0 DEF QueueTypes, Entry
    <3>2. NextAttempt(e).job = e.job /\ NextAttempt(e).attempts = e.attempts + 1
      BY <3>1 DEF NextAttempt, Entry
    <3>3. NextAttempt(e) # Nothing
      BY <3>1, <3>2, NoJobIsZero
    <3> QED BY <1>0, <2>1, <2>4, <3>1, <3>2, <3>3 DEF Pop, AtRest, QueueTypes
  <2>6. step'[w] = "check" /\ \A v \in Workers \ {w} : step'[v] = step[v]
    BY <2>1 DEF MailTypes
  <2>7. StepsMatchJobs'
    BY <2>1, <2>5, <2>6 DEF StepsMatchJobs, Job
  <2>8. AckedMeansHandled'
    BY <2>1, HandledStays
  <2>9. LateIsOwed'
    BY <2>1, <2>5, <2>6, LateStays
  <2>10. AttemptsAreCounted'
    <3>1. /\ tries'[e.job] = tries[e.job] + 1
          /\ \A k \in Jobs : k # e.job => tries'[k] = tries[k]
      BY <1>0, <2>4, <2>5, OneMoreCounts DEF CountTypes
    <3>2. \A d \in BagToSet(pending') : d \in BagToSet(pending)
      <4>1. BagToSet(pending (-) SetToBag({e})) \subseteq BagToSet(pending)
        BY <2>5, BagLoses
      <4> QED BY <2>4, <4>1
    <3>3. e.job <= published /\ e.attempts < MaxRetries
      BY DEF QueueInv, EntriesAreFresh, Fresh
    <3> SUFFICES ASSUME NEW k \in Jobs
                 PROVE  /\ extra'[k] = 0 => /\ Counted(k)'
                                            /\ tries'[k] <= MaxRetries
                                            /\ dead'[k] > 0 => tries'[k] = MaxRetries
                                            /\ accepted'[k] <= tries'[k]
                        /\ k > published' => tries'[k] = 0
      BY DEF AttemptsAreCounted
    <3>4. CASE k # e.job
      <4>1. Counted(k) => Counted(k)'
        BY <2>1, <2>5, <2>6, <3>1, <3>2, <3>4 DEF Counted, Job
      <4> QED BY <2>1, <3>1, <3>4, <4>1 DEF AttemptsAreCounted
    <3>5. CASE k = e.job
      <4>1. ~ (k > published)
        BY <1>0, <3>3, <3>5, NoJobIsZero DEF QueueTypes
      <4>2. ASSUME extra[k] = 0
            PROVE  /\ Counted(k)' /\ tries'[k] <= MaxRetries
                   /\ dead'[k] > 0 => tries'[k] = MaxRetries
                   /\ accepted'[k] <= tries'[k]
        <5>1. /\ e.attempts = tries[k] /\ accepted[k] <= tries[k]
              /\ tries'[k] = tries[k] + 1
          BY <3>1, <3>5, <4>2 DEF AttemptsAreCounted, Counted
        <5>2. tries[k] \in Nat /\ accepted[k] \in Nat /\ MaxRetries \in Nat
          BY <1>0, QueueAssumption DEF CountTypes, Counter, MailTypes, QueueAssumption
        <5>3. <<e, pending[e]>> \in InList(pending, k)
          <6>1. IsFiniteSet(InList(pending, e.job))
            BY <2>5 DEF QueueInv, EntriesAreFresh
          <6> QED BY <2>5, <3>5, <6>1, InListShrinks
        <5>4. /\ InList(pending, k) = {<<e, pending[e]>>} /\ InSet(k) = {} /\ dead[k] = 0
              /\ \A v \in Workers : Job(v) # k
          BY <4>2, <5>3, OnlyCopy
        <5>5. InList(pending', k) = {}
          <6>1. IsFiniteSet(InList(pending, e.job))
            BY <2>5 DEF QueueInv, EntriesAreFresh
          <6>2. InList(pending (-) SetToBag({e}), e.job) = InList(pending, e.job) \ {<<e, pending[e]>>}
            BY <2>5, <6>1, InListShrinks
          <6> QED BY <2>4, <3>5, <5>4, <6>2
        <5>6. \A d \in BagToSet(pending') : d.job # k
          <6> SUFFICES ASSUME NEW d \in BagToSet(pending'), d.job = k PROVE FALSE
            OBVIOUS
          <6>1. pending'[d] \in Nat /\ pending'[d] > 0
            BY <2>2 DEF QueueInv, QueueTypes, IsABag, BagToSet
          <6>2. <<d, 1>> \in InList(pending', k)
            BY <6>1, InListTokens
          <6> QED BY <5>5, <6>2
        <5>7. \A d \in scheduled : d.job # k
          BY <5>4 DEF InSet
        <5>8. Counted(k)'
          <6>1. \A d \in BagToSet(pending') \cup scheduled' : d.job = k => d.attempts = tries'[k]
            BY <2>1, <5>6, <5>7
          <6>2. ASSUME NEW v \in Workers, busy'[v].job = k
                PROVE  /\ busy'[v].attempts = tries'[k]
                       /\ accepted'[k] < tries'[k]
            <7>1. v = w
              BY <2>5, <5>4, <6>2 DEF Job
            <7> QED BY <2>1, <2>5, <5>1, <5>2, <7>1
          <6> QED BY <6>1, <6>2 DEF Counted, Job
        <5>9. tries'[k] <= MaxRetries
          BY <3>3, <5>1, <5>2
        <5>10. accepted'[k] <= tries'[k]
          BY <2>1, <5>1, <5>2
        <5> QED BY <2>1, <5>4, <5>8, <5>9, <5>10
      <4> QED BY <2>1, <4>1, <4>2
    <3> QED BY <3>4, <3>5
  <2> QED BY <2>2, <2>3, <2>7, <2>8, <2>9, <2>10
<1>5. ASSUME NEW w \in Workers, Promote(w) PROVE IInv'
  <2>1. UNCHANGED <<mailVars, busy, published, tries, dead, acked>>
    BY <1>5 DEF Promote, ReadDue, Move, MoveFails
  <2>2. QueueInv'
    BY <1>5, ReadDueKeeps, MoveKeeps, MoveFailsKeeps DEF Promote
  <2>3. MailTypes' /\ StepsMatchJobs' /\ LateIsOwed'
    BY <2>1 DEF mailVars, MailTypes, StepsMatchJobs, LateIsOwed, Sending, Job
  <2>4. AckedMeansHandled'
    BY <2>1, HandledStays DEF mailVars
  <2>5. \/ UNCHANGED <<pending, scheduled, extra>>
        \/ \E e \in promoting[w] :
             /\ pending' = pending (+) SetToBag({e}) /\ scheduled' = scheduled \ {e}
             /\ \/ e \in scheduled /\ extra' = extra
                \/ extra' = OneMore(extra, e.job)
    BY <1>5 DEF Promote, ReadDue, Move, MoveFails
  <2>6. CASE UNCHANGED <<pending, scheduled, extra>>
    <3>1. AttemptsAreCounted'
      BY <2>1, <2>6 DEF mailVars, AttemptsAreCounted, Counted, Job
    <3> QED BY <2>2, <2>3, <2>4, <3>1
  <2>7. ASSUME NEW e \in promoting[w], pending' = pending (+) SetToBag({e}),
               scheduled' = scheduled \ {e},
               \/ e \in scheduled /\ extra' = extra
               \/ extra' = OneMore(extra, e.job)
        PROVE  IInv'
    <3>1. e \in Entry /\ e.job \in Jobs /\ IsABag(pending)
      BY <1>0 DEF QueueTypes, Entry
    <3>2. BagToSet(pending') = BagToSet(pending) \cup {e}
      <4>1. BagToSet(pending (+) SetToBag({e})) = BagToSet(pending) \cup {e}
        BY <3>1, BagGains
      <4> QED BY <2>7, <4>1
    <3>3. \A k \in Jobs : extra'[k] = 0 => extra[k] = 0 /\ (k # e.job \/ e \in scheduled)
      <4>1. CASE e \in scheduled /\ extra' = extra
        BY <4>1
      <4>2. CASE extra' = OneMore(extra, e.job)
        <5>1. /\ extra'[e.job] = extra[e.job] + 1 /\ extra[e.job] \in Nat
              /\ \A k \in Jobs : k # e.job => extra'[k] = extra[k]
          BY <1>0, <3>1, <4>2, OneMoreCounts DEF CountTypes
        <5> QED BY <5>1
      <4> QED BY <2>7, <4>1, <4>2
    <3>4. \A k \in Jobs : Counted(k) /\ (k # e.job \/ e \in scheduled) => Counted(k)'
      BY <2>1, <2>7, <3>2 DEF mailVars, Counted, Job
    <3>5. AttemptsAreCounted'
      BY <2>1, <3>3, <3>4 DEF mailVars, AttemptsAreCounted
    <3> QED BY <2>2, <2>3, <2>4, <3>5
  <2> QED BY <2>5, <2>6, <2>7
<1>6. ASSUME NEW w \in Workers, SkipSuppressed(w) PROVE IInv'
  <2>1. /\ Ack(w) /\ step' = [step EXCEPT ![w] = "rest"] /\ step[w] = "check"
        /\ To[Job(w)] \in suppressed
        /\ UNCHANGED <<known, suppressed, accepted, late>> /\ faults' \in 0..MaxFaults
    BY <1>0, <1>6 DEF SkipSuppressed, Goto
  <2>2. /\ Released(w) /\ acked' = OneMore(acked, busy[w].job)
        /\ UNCHANGED <<pending, scheduled, dead, published, extra, tries>>
    BY <2>1 DEF Ack
  <2>3. busy[w].job \in Jobs /\ busy' = [busy EXCEPT ![w] = Nothing]
    BY <1>0, <2>1, <2>2, WorkerIsBusy DEF Released
  <2>4. QueueInv'
    BY <2>1, AckKeeps
  <2>5. /\ StepsMatchJobs' /\ step' \in [Workers -> Step] /\ step'[w] # "send"
        /\ \A v \in Workers \ {w} : step'[v] = step[v] /\ busy'[v] = busy[v]
    BY <1>0, <2>1, <2>3, StepsAfterRelease
  <2>6. MailTypes'
    BY <1>6, <2>1, <2>3, <2>5 DEF SkipSuppressed, Logged, MailTypes, Status, Job
  <2>7. AckedMeansHandled'
    BY <1>0, <2>1, <2>2, <2>3, HandledByAck DEF CountTypes, Job
  <2>8. LateIsOwed'
    BY <2>1, <2>3, <2>5, LateStays
  <2>9. AttemptsAreCounted'
    BY <2>1, <2>2, AttemptsAfterRelease DEF MailTypes
  <2> QED BY <2>4, <2>5, <2>6, <2>7, <2>8, <2>9
<1>7. ASSUME NEW w \in Workers, CheckPasses(w) PROVE IInv'
  <2>1. /\ step[w] = "check" /\ step' = [step EXCEPT ![w] = "send"]
        /\ To[Job(w)] \notin suppressed
        /\ UNCHANGED <<queueVars, log, known, suppressed, accepted, late>>
    BY <1>7 DEF CheckPasses, Goto
  <2>2. QueueInv'
    BY <1>0, <2>1, StutterKeeps DEF queueVars
  <2>3. /\ step'[w] = "send" /\ \A v \in Workers \ {w} : step'[v] = step[v]
        /\ busy' = busy
    BY <2>1 DEF MailTypes, queueVars
  <2>4. MailTypes'
    BY <2>1 DEF MailTypes, Step
  <2>5. StepsMatchJobs'
    BY <2>1, <2>3 DEF StepsMatchJobs, Job
  <2>6. AckedMeansHandled'
    BY <2>1, HandledStays DEF queueVars
  <2>7. LateIsOwed'
    <3> SUFFICES ASSUME NEW r \in Recipients
                 PROVE  /\ r \notin suppressed => late[r] = 0
                        /\ late[r] + Cardinality(Sending(r)') <= Cardinality(Workers)
      BY <2>1 DEF LateIsOwed
    <3>1. CASE r = To[Job(w)]
      <4>1. late[r] = 0
        BY <2>1, <3>1 DEF LateIsOwed
      <4>2. Sending(r)' \in SUBSET Workers
        BY DEF Sending
      <4>3. Cardinality(Sending(r)') <= Cardinality(Workers) /\ Cardinality(Sending(r)') \in Nat
        BY <4>2, QueueAssumption, FS_Subset, FS_CardinalityType DEF QueueAssumption
      <4> QED BY <4>1, <4>3
    <3>2. CASE r # To[Job(w)]
      <4>1. Sending(r)' = Sending(r)
        BY <2>1, <2>3, <3>2 DEF Sending, Job
      <4> QED BY <4>1 DEF LateIsOwed
    <3> QED BY <3>1, <3>2
  <2>8. AttemptsAreCounted'
    <3>1. \A k \in Jobs : Counted(k) => Counted(k)'
      BY <2>1, <2>3 DEF queueVars, Counted, Job
    <3> QED BY <2>1, <3>1 DEF queueVars, AttemptsAreCounted
  <2> QED BY <2>2, <2>4, <2>5, <2>6, <2>7, <2>8
<1>8. ASSUME NEW w \in Workers, GivenBack(w), faults' \in 0..MaxFaults,
             step[w] \in {"check", "send"}, step' = [step EXCEPT ![w] = "rest"],
             log' \in [Jobs -> Status], UNCHANGED <<known, suppressed>>,
             \/ UNCHANGED <<accepted, late>>
             \/ step[w] = "send" /\ Accept(busy[w].job)
      PROVE  IInv'
  <2>1. /\ Released(w) /\ busy' = [busy EXCEPT ![w] = Nothing]
        /\ UNCHANGED <<pending, published, acked, extra, tries>>
    BY <1>8 DEF GivenBack, Released
  <2>2. busy[w].job \in Jobs /\ busy[w] # Nothing
    BY <1>0, <1>8, WorkerIsBusy
  <2>3. QueueInv'
    BY <1>8, GivenBackKeeps
  <2>4. /\ accepted' \in [Jobs -> Nat]
        /\ \A j \in Jobs : \/ accepted'[j] = accepted[j]
                           \/ /\ j = busy[w].job /\ step[w] = "send"
                              /\ accepted'[j] = accepted[j] + 1
    BY <1>8, <2>2 DEF Accept, MailTypes
  <2>5. \A j \in Jobs : accepted[j] > 0 => accepted'[j] > 0
    BY <2>4 DEF MailTypes
  <2>6. /\ StepsMatchJobs' /\ step' \in [Workers -> Step] /\ step'[w] # "send"
        /\ \A v \in Workers \ {w} : step'[v] = step[v] /\ busy'[v] = busy[v]
    BY <1>0, <1>8, <2>1, <2>5, StepsAfterRelease
  <2>7. MailTypes'
    <3>1. late' \in [Recipients -> Nat]
      BY <1>8 DEF Accept, MailTypes
    <3> QED BY <1>8, <2>4, <2>6, <3>1 DEF MailTypes
  <2>8. AckedMeansHandled'
    BY <1>8, <2>1, <2>5, HandledStays
  <2>9. LateIsOwed'
    BY <1>8, <2>2, <2>6, LateStays
  <2>10. AttemptsAreCounted'
    <3>1. \/ scheduled' = scheduled
          \/ \E n \in Nat : scheduled' = scheduled \cup {[busy[w] EXCEPT !.runAt = n]}
      <4>1. retries' \in Counter
        BY <2>3 DEF QueueInv, CountTypes
      <4>2. retries'[busy[w].job] \in Nat
        <5>1. \A j \in Jobs : retries'[j] \in Nat
          BY <4>1 DEF Counter
        <5> QED BY <2>2, <5>1
      <4> QED BY <1>8, <4>2 DEF GivenBack
    <3>2. \/ dead' = dead
          \/ busy[w].attempts >= MaxRetries /\ dead' = OneMore(dead, busy[w].job)
      BY <1>8 DEF GivenBack
    <3> QED BY <1>8, <2>1, <2>4, <3>1, <3>2, AttemptsAfterRelease
  <2> QED BY <2>3, <2>6, <2>7, <2>8, <2>9, <2>10
<1>9. ASSUME NEW w \in Workers, CheckFails(w) PROVE IInv'
  <2>1. GivenBack(w) /\ faults' \in 0..MaxFaults
    BY <1>0, <1>9, GiveBackGives DEF CheckFails, ReturnError
  <2>2. /\ step[w] = "check" /\ step' = [step EXCEPT ![w] = "rest"]
        /\ UNCHANGED <<log, known, suppressed, accepted, late>>
    BY <1>9 DEF CheckFails, ReturnError, Goto
  <2>3. log' \in [Jobs -> Status]
    BY <2>2 DEF MailTypes
  <2> QED BY <1>8, <2>1, <2>2, <2>3
<1>10. ASSUME NEW w \in Workers, Send(w) PROVE IInv'
  <2>1. /\ step[w] = "send" /\ step' = [step EXCEPT ![w] = "record"]
        /\ Accept(busy[w].job)
        /\ UNCHANGED <<queueVars, log, known, suppressed>>
    BY <1>10 DEF Send, Goto, Job
  <2>2. PICK j \in Jobs : j = busy[w].job
    BY <1>0, <2>1, WorkerIsBusy
  <2>3. /\ step'[w] = "record" /\ \A v \in Workers \ {w} : step'[v] = step[v]
        /\ busy' = busy
    BY <2>1 DEF MailTypes, queueVars
  <2>4. /\ accepted' = [accepted EXCEPT ![j] = accepted[j] + 1]
        /\ accepted' \in [Jobs -> Nat] /\ accepted'[j] = accepted[j] + 1 /\ accepted[j] \in Nat
        /\ \A k \in Jobs : k # j => accepted'[k] = accepted[k]
    BY <2>1, <2>2 DEF Accept, MailTypes
  <2>5. QueueInv'
    BY <1>0, <2>1, StutterKeeps DEF queueVars
  <2>6. MailTypes'
    <3>1. late' \in [Recipients -> Nat]
      BY <2>1 DEF Accept, MailTypes
    <3> QED BY <2>1, <2>4, <3>1 DEF MailTypes, Step
  <2>7. StepsMatchJobs'
    <3>1. step[w] # "rest" /\ accepted'[j] > 0 /\ Job(w)' = j
      BY <2>1, <2>2, <2>3, <2>4 DEF Job
    <3>2. \A v \in Workers : step[v] = "record" => Job(v) \in Jobs
      BY <1>0, WorkerIsBusy DEF Job
    <3>3. \A k \in Jobs : accepted[k] > 0 => accepted'[k] > 0
      BY <2>4
    <3> QED BY <2>3, <3>1, <3>2, <3>3 DEF StepsMatchJobs, Job
  <2>8. AckedMeansHandled'
    <3>1. \A k \in Jobs : accepted[k] > 0 => accepted'[k] > 0
      BY <2>4
    <3> QED BY <2>1, <3>1, HandledStays DEF queueVars
  <2>9. LateIsOwed'
    BY <2>1, <2>2, <2>3, LateStays
  <2>10. AttemptsAreCounted'
    <3> SUFFICES ASSUME NEW k \in Jobs
                 PROVE  extra[k] = 0 => Counted(k)' /\ accepted'[k] <= tries[k]
      BY <2>1 DEF queueVars, AttemptsAreCounted
    <3>1. CASE k # j
      <4>1. Counted(k) => Counted(k)'
        BY <2>1, <2>2, <2>3, <2>4, <3>1 DEF queueVars, Counted, Job
      <4> QED BY <2>4, <3>1, <4>1 DEF AttemptsAreCounted
    <3>2. CASE k = j
      <4> SUFFICES ASSUME extra[k] = 0 PROVE Counted(k)' /\ accepted'[k] <= tries[k]
        OBVIOUS
      <4>1. Counted(k) /\ accepted[k] < tries[k] /\ Job(w) = k
        BY <2>1, <2>2, <3>2 DEF AttemptsAreCounted, Counted, Job
      <4>2. \A v \in Workers \ {w} : Job(v) # k
        BY <4>1, NoOtherEntry
      <4>3. tries[k] \in Nat
        BY <1>0 DEF CountTypes, Counter
      <4>4. Counted(k)'
        BY <2>1, <2>3, <4>1, <4>2 DEF queueVars, Counted, Job
      <4> QED BY <2>4, <3>2, <4>1, <4>3, <4>4
    <3> QED BY <3>1, <3>2
  <2> QED BY <2>5, <2>6, <2>7, <2>8, <2>9, <2>10
<1>11. ASSUME NEW w \in Workers, SendFails(w) PROVE IInv'
  <2>1. GivenBack(w) /\ faults' \in 0..MaxFaults
    BY <1>0, <1>11, GiveBackGives, RetryOrBury DEF SendFails, ReturnError
  <2>2. /\ step[w] = "send" /\ step' = [step EXCEPT ![w] = "rest"]
        /\ UNCHANGED <<known, suppressed>>
        /\ UNCHANGED <<accepted, late>> \/ Accept(busy[w].job)
    BY <1>11 DEF SendFails, ReturnError, Goto, Job
  <2>3. log' \in [Jobs -> Status]
    BY <1>11 DEF SendFails, Logged, MailTypes, Status
  <2> QED BY <1>8, <2>1, <2>2, <2>3
<1>12. ASSUME NEW w \in Workers, RecordSent(w) PROVE IInv'
  <2>1. /\ Ack(w) /\ step' = [step EXCEPT ![w] = "rest"] /\ step[w] = "record"
        /\ UNCHANGED <<suppressed, accepted, late>> /\ faults' \in 0..MaxFaults
    BY <1>0, <1>12 DEF RecordSent, Goto
  <2>2. /\ Released(w) /\ acked' = OneMore(acked, busy[w].job)
        /\ UNCHANGED <<pending, scheduled, dead, published, extra, tries>>
    BY <2>1 DEF Ack
  <2>3. busy[w].job \in Jobs /\ busy' = [busy EXCEPT ![w] = Nothing]
    BY <1>0, <2>1, <2>2, WorkerIsBusy DEF Released
  <2>4. QueueInv'
    BY <2>1, AckKeeps
  <2>5. /\ StepsMatchJobs' /\ step' \in [Workers -> Step] /\ step'[w] # "send"
        /\ \A v \in Workers \ {w} : step'[v] = step[v] /\ busy'[v] = busy[v]
    BY <1>0, <2>1, <2>3, StepsAfterRelease
  <2>6. MailTypes'
    <3>1. log' \in [Jobs -> Status]
      BY <1>12 DEF RecordSent, Logged, MailTypes, Status
    <3>2. known' \in SUBSET Jobs
      BY <1>12, <2>3 DEF RecordSent, MailTypes, Job
    <3> QED BY <2>1, <2>5, <3>1, <3>2 DEF MailTypes
  <2>7. AckedMeansHandled'
    <3>1. accepted[busy[w].job] > 0
      BY <2>1 DEF StepsMatchJobs, Job
    <3> QED BY <1>0, <2>1, <2>2, <2>3, <3>1, HandledByAck DEF CountTypes
  <2>8. LateIsOwed'
    BY <2>1, <2>3, <2>5, LateStays
  <2>9. AttemptsAreCounted'
    BY <2>1, <2>2, AttemptsAfterRelease DEF MailTypes
  <2> QED BY <2>4, <2>5, <2>6, <2>7, <2>8, <2>9
<1>13. ASSUME NEW w \in Workers, Die(w) PROVE IInv'
  <2>1. /\ Kill(w) /\ step' = [step EXCEPT ![w] = "rest"]
        /\ busy' = [busy EXCEPT ![w] = Nothing]
        /\ UNCHANGED <<log, known, suppressed, accepted, late, pending, scheduled, dead, published,
                       acked, extra, tries>>
    BY <1>13 DEF Die, Kill, Goto
  <2>2. QueueInv'
    BY <2>1, KillKeeps
  <2>3. /\ StepsMatchJobs' /\ step' \in [Workers -> Step] /\ step'[w] # "send"
        /\ \A v \in Workers \ {w} : step'[v] = step[v] /\ busy'[v] = busy[v]
    BY <1>0, <2>1, StepsAfterRelease
  <2>4. MailTypes'
    BY <2>1, <2>3 DEF MailTypes
  <2>5. AckedMeansHandled'
    BY <2>1, HandledStays
  <2>6. LateIsOwed'
    BY <2>1, <2>3, LateStays
  <2>7. AttemptsAreCounted'
    <3>1. CASE busy[w] # Nothing
      <4>1. Released(w)
        BY <2>1, <3>1 DEF Released
      <4> QED BY <2>1, <4>1, AttemptsAfterRelease DEF MailTypes
    <3>2. CASE busy[w] = Nothing
      <4>1. busy' = busy /\ step' = step
        BY <1>0, <2>1, <3>2 DEF QueueTypes, MailTypes, StepsMatchJobs
      <4> QED BY <2>1, <4>1 DEF AttemptsAreCounted, Counted, Job
    <3> QED BY <3>1, <3>2
  <2> QED BY <2>2, <2>3, <2>4, <2>5, <2>6, <2>7
<1>14. ASSUME UNCHANGED vars \/ \E w \in Workers : Poll(w) PROVE IInv'
  <2>1. /\ UNCHANGED <<pending, scheduled, dead, busy, promoting, published, retries, acked, lost,
                       extra, tries, faults>>
        /\ UNCHANGED <<step, log, known, suppressed, accepted, late>>
    BY <1>14 DEF Poll, PopNothing, ReadNothing, vars, queueVars, mailVars
  <2>2. QueueInv'
    BY <1>0, <2>1, StutterKeeps
  <2>3. MailTypes' /\ StepsMatchJobs' /\ LateIsOwed'
    BY <2>1 DEF MailTypes, StepsMatchJobs, LateIsOwed, Sending, Job
  <2>4. AckedMeansHandled'
    BY <2>1, HandledStays
  <2>5. AttemptsAreCounted'
    BY <2>1 DEF AttemptsAreCounted, Counted, Job
  <2> QED BY <2>2, <2>3, <2>4, <2>5
<1> QED BY <1>1, <1>2, <1>3, <1>4, <1>5, <1>6, <1>7, <1>9, <1>10, <1>11, <1>12, <1>13, <1>14 DEF Next, Work

(* The inductive invariant holds in every reachable state. *)
THEOREM Invariance == Spec => []IInv
BY InitIInv, NextIInv, PTL DEF Spec

(* Who polls and what a bounce left to suppress: no other part of the     *)
(* invariant rests on them.                                                *)
Waiting == polled \in SUBSET Workers /\ bouncing \in SUBSET Jobs

LEMMA WaitingIsKept == Waiting /\ [Next]_vars => Waiting'
<1> SUFFICES ASSUME Waiting, [Next]_vars PROVE Waiting'
  OBVIOUS
<1> USE DEF Waiting
<1>1. ASSUME NEW j \in Jobs, SendTransactional(j) \/ HandleOpen(j) PROVE Waiting'
  BY <1>1 DEF SendTransactional, Publish, HandleOpen, queueVars
<1>2. ASSUME NEW j \in Jobs, Suppress(j) \/ \E report \in Reports : HandleResendWebhook(j, report)
      PROVE  Waiting'
  BY <1>2 DEF Suppress, HandleResendWebhook
<1>3. ASSUME NEW w \in Workers, TakeJob(w) \/ Poll(w) \/ Promote(w) PROVE Waiting'
  BY <1>3 DEF TakeJob, Pop, Poll, PopNothing, ReadNothing, Promote, ReadDue, Move, MoveFails, mailVars
<1>4. ASSUME NEW w \in Workers, GiveBack(w) \/ Retry(w) \/ Bury(w) PROVE polled' = polled
  BY <1>4 DEF GiveBack, Retry, Bury, GiveBackFails
<1>5. ASSUME NEW w \in Workers, SkipSuppressed(w) \/ RecordSent(w) PROVE Waiting'
  BY <1>5 DEF SkipSuppressed, RecordSent, Ack
<1>6. ASSUME NEW w \in Workers, CheckPasses(w) \/ Send(w) PROVE Waiting'
  BY <1>6 DEF CheckPasses, Send, queueVars
<1>7. ASSUME NEW w \in Workers, CheckFails(w) \/ SendFails(w) PROVE Waiting'
  BY <1>4, <1>7 DEF CheckFails, SendFails, ReturnError
<1>8. ASSUME NEW w \in Workers, Die(w) PROVE Waiting'
  BY <1>8 DEF Die, Kill
<1>9. CASE UNCHANGED vars
  BY <1>9 DEF vars, queueVars, mailVars
<1> QED BY <1>1, <1>2, <1>3, <1>5, <1>6, <1>7, <1>8, <1>9 DEF Next, Work

(* Every variable keeps its type. *)
THEOREM TypeCorrect == Spec => []TypeOK
<1>1. Init => Waiting
  BY DEF Init, QueueInit, Waiting
<1>2. Waiting /\ IInv => TypeOK
  BY DEF Waiting, IInv, QueueInv, QueueTypes, CountTypes, MailTypes, Counter, TypeOK, QueueTypeOK
<1> QED BY <1>1, <1>2, WaitingIsKept, Invariance, PTL DEF Spec

(* No copy of a job vanishes or appears unaccounted for, and no error of   *)
(* the worker acknowledges a mail that was neither accepted nor barred.    *)
THEOREM JobsAreAccounted == Spec => []JobsAccounted
<1>1. IInv => JobsAccounted
  BY DEF IInv, QueueInv, JobsAccounted
<1> QED BY <1>1, Invariance, PTL

(* Once an address is suppressed, each worker sends it at most the one     *)
(* mail whose check had passed.                                            *)
THEOREM SuppressionIsKept == Spec => []SuppressionHolds
<1>1. ASSUME IInv PROVE SuppressionHolds
  <2> SUFFICES ASSUME NEW r \in Recipients PROVE late[r] <= Cardinality(Workers)
    BY DEF SuppressionHolds
  <2>1. late[r] + Cardinality(Sending(r)) <= Cardinality(Workers) /\ late[r] \in Nat
    BY <1>1 DEF IInv, LateIsOwed, MailTypes
  <2>2. Sending(r) \in SUBSET Workers
    BY DEF Sending
  <2>3. Cardinality(Sending(r)) \in Nat /\ Cardinality(Workers) \in Nat
    BY <2>2, QueueAssumption, FS_Subset, FS_CardinalityType DEF QueueAssumption
  <2> QED BY <2>1, <2>3
<1>2. IInv => SuppressionHolds
  BY <1>1
<1> QED BY <1>2, Invariance, PTL

(* A mail whose job nobody promoted twice reaches Resend at most once per  *)
(* attempt, is tried MaxRetries times at most, and dies after no fewer.    *)
THEOREM MailsAreFew == Spec => []MailsPerAttempt
<1>1. IInv => MailsPerAttempt
  BY DEF IInv, AttemptsAreCounted, MailsPerAttempt, AttemptCeiling
<1> QED BY <1>1, Invariance, PTL
=============================================================================
