--------------------------- MODULE CampaignsProofs ---------------------------
(***************************************************************************)
(* What holds of Campaigns for every number of campaigns, API instances    *)
(* and recipients, and without the bounds on edits and faults mattering.   *)
(*                                                                         *)
(* One recipient gets one mail because a campaign that left "draft" and    *)
(* "scheduled" never returns, so the claim succeeds once: from then on one *)
(* instance dispatches it, whatever others write into its row.             *)
(***************************************************************************)
EXTENDS Campaigns, FiniteSetTheorems, TLAPS

Dispatching(i) == step[i] \in {"load", "queue"}

AtRest == \A i \in Instances : step[i] = "rest" <=> current[i] = None

(* A campaign is dispatched by one instance at most. *)
OneDispatcher ==
  \A i, j \in Instances :
    Dispatching(i) /\ Dispatching(j) /\ current[i] = current[j] => i = j

(* Others may have marked it failed, but nobody else sends it. *)
DispatchedIsClaimed ==
  \A i \in Instances : Dispatching(i) => status[current[i]] \in {"sending", "failed"}

LoadIsFresh == \A i \in Instances : step[i] = "load" => QueuedOf(current[i]) = {}

(* The dispatcher counts what it queued, and goes to nobody twice. *)
CountIsQueued ==
  \A i \in Instances : step[i] = "queue" =>
    /\ count[i] = Cardinality(QueuedOf(current[i]))
    /\ QueuedOf(current[i]) \cap todo[i] = {}

IInv ==
  /\ TypeOK
  /\ AtRest
  /\ OneDispatcher
  /\ DispatchedIsClaimed
  /\ LoadIsFresh
  /\ CountIsQueued
  /\ QueuedOnce
  /\ SentCountsQueued
  /\ OpenIsUntouched

----------------------------------------------------------------------------
(* The recipients who were queued are among the tenant's users. *)
LEMMA QueuedIsFinite ==
  ASSUME NEW c PROVE /\ IsFiniteSet(QueuedOf(c))
                     /\ Cardinality(QueuedOf(c)) \in 0..Cardinality(Recipients)
<1>1. IsFiniteSet(Recipients) /\ QueuedOf(c) \subseteq Recipients
  BY CampaignAssumption DEF CampaignAssumption, QueuedOf
<1>2. IsFiniteSet(QueuedOf(c)) /\ Cardinality(QueuedOf(c)) <= Cardinality(Recipients)
  BY <1>1, FS_Subset
<1>3. Cardinality(QueuedOf(c)) \in Nat /\ Cardinality(Recipients) \in Nat
  BY <1>1, <1>2, FS_CardinalityType
<1> QED BY <1>2, <1>3

(* Every initial state satisfies the inductive invariant. *)
LEMMA InitIInv == Init => IInv
<1> SUFFICES ASSUME Init PROVE IInv
  OBVIOUS
<1> USE CampaignAssumption DEF CampaignAssumption, Init, Open
<1>1. TypeOK
  <2>1. Cardinality(Recipients) \in Nat
    BY FS_CardinalityType
  <2> QED BY <2>1 DEF TypeOK, Status, Step
<1>2. \A c \in Campaigns : QueuedOf(c) = {}
  BY DEF QueuedOf
<1>3. OpenIsUntouched /\ SentCountsQueued /\ QueuedOnce
  BY <1>2 DEF OpenIsUntouched, SentCountsQueued, QueuedOnce
<1>4. AtRest /\ OneDispatcher /\ DispatchedIsClaimed /\ LoadIsFresh /\ CountIsQueued
  BY DEF AtRest, OneDispatcher, DispatchedIsClaimed, Dispatching, LoadIsFresh, CountIsQueued
<1> QED BY <1>1, <1>3, <1>4 DEF IInv

(* Every step preserves the inductive invariant. *)
LEMMA NextIInv == IInv /\ [Next]_vars => IInv'
<1> SUFFICES ASSUME IInv, [Next]_vars PROVE IInv'
  OBVIOUS
<1> USE CampaignAssumption DEF CampaignAssumption, IInv, TypeOK, Status, Step, Open,
      dispatchVars, Goto, Set, Fault
<1>1. ASSUME NEW c \in Campaigns, ScheduleCampaign(c) PROVE IInv'
  <2>1. TypeOK'
    BY <1>1 DEF ScheduleCampaign, Schedulable, TypeOK
  <2>2. DispatchedIsClaimed'
    BY <1>1 DEF ScheduleCampaign, Schedulable, DispatchedIsClaimed, Dispatching
  <2>3. SentCountsQueued'
    BY <1>1 DEF ScheduleCampaign, Schedulable, SentCountsQueued, QueuedOf
  <2>4. OpenIsUntouched'
    BY <1>1 DEF ScheduleCampaign, Schedulable, OpenIsUntouched, QueuedOf
  <2>5. (AtRest /\ OneDispatcher /\ LoadIsFresh)'
    BY <1>1
       DEF ScheduleCampaign, Schedulable, AtRest, OneDispatcher, LoadIsFresh, Dispatching,
           QueuedOf
  <2>6. (CountIsQueued /\ QueuedOnce)'
    BY <1>1 DEF ScheduleCampaign, Schedulable, CountIsQueued, QueuedOnce, QueuedOf
  <2> QED BY <2>1, <2>2, <2>3, <2>4, <2>5, <2>6 DEF IInv
<1>2. ASSUME NEW c \in Campaigns, TimePasses(c) PROVE IInv'
  <2>1. TypeOK'
    BY <1>2 DEF TimePasses, TypeOK
  <2>2. (AtRest /\ OneDispatcher /\ DispatchedIsClaimed)'
    BY <1>2 DEF TimePasses, AtRest, OneDispatcher, DispatchedIsClaimed, Dispatching
  <2>3. (LoadIsFresh /\ CountIsQueued /\ QueuedOnce)'
    BY <1>2 DEF TimePasses, LoadIsFresh, CountIsQueued, QueuedOnce, QueuedOf
  <2>4. (SentCountsQueued /\ OpenIsUntouched)'
    BY <1>2 DEF TimePasses, SentCountsQueued, OpenIsUntouched, QueuedOf
  <2> QED BY <2>1, <2>2, <2>3, <2>4 DEF IInv
<1>3. ASSUME NEW i \in Instances, ReadDue(i) PROVE IInv'
  <2>1. TypeOK'
    BY <1>3 DEF ReadDue, TypeOK
  <2>2. CountIsQueued'
    BY <1>3 DEF ReadDue, CountIsQueued, QueuedOf
  <2>3. (AtRest /\ OneDispatcher /\ DispatchedIsClaimed)'
    BY <1>3 DEF ReadDue, AtRest, OneDispatcher, DispatchedIsClaimed, Dispatching
  <2>4. (LoadIsFresh /\ QueuedOnce /\ SentCountsQueued)'
    BY <1>3 DEF ReadDue, LoadIsFresh, QueuedOnce, SentCountsQueued, QueuedOf
  <2>5. OpenIsUntouched'
    BY <1>3 DEF ReadDue, OpenIsUntouched, QueuedOf
  <2> QED BY <2>1, <2>2, <2>3, <2>4, <2>5 DEF IInv
<1>4. ASSUME NEW i \in Instances, NEW c \in Campaigns, Claim(i, c) PROVE IInv'
  <2>1. TypeOK'
    BY <1>4 DEF Claim, TakeNext, TypeOK
  <2>2. AtRest'
    BY <1>4 DEF Claim, TakeNext, AtRest
  <2>3. OneDispatcher'
    BY <1>4 DEF Claim, TakeNext, OneDispatcher, DispatchedIsClaimed, Dispatching
  <2>4. DispatchedIsClaimed'
    BY <1>4 DEF Claim, TakeNext, DispatchedIsClaimed, Dispatching
  <2>5. LoadIsFresh'
    BY <1>4 DEF Claim, TakeNext, LoadIsFresh, OpenIsUntouched, QueuedOf
  <2>6. CountIsQueued'
    BY <1>4 DEF Claim, TakeNext, CountIsQueued, QueuedOf
  <2>7. SentCountsQueued'
    BY <1>4 DEF Claim, TakeNext, SentCountsQueued, QueuedOf
  <2>8. OpenIsUntouched'
    BY <1>4 DEF Claim, TakeNext, OpenIsUntouched, QueuedOf
  <2>9. QueuedOnce'
    BY <1>4 DEF Claim, TakeNext, QueuedOnce
  <2> QED BY <2>1, <2>2, <2>3, <2>4, <2>5, <2>6, <2>7, <2>8, <2>9 DEF IInv
<1>5. ASSUME NEW i \in Instances, NEW c \in Campaigns, SkipClaimed(i, c) PROVE IInv'
  <2>1. TypeOK'
    BY <1>5 DEF SkipClaimed, TypeOK
  <2>2. (AtRest /\ OneDispatcher /\ DispatchedIsClaimed)'
    BY <1>5 DEF SkipClaimed, AtRest, OneDispatcher, DispatchedIsClaimed, Dispatching
  <2>3. (LoadIsFresh /\ CountIsQueued /\ QueuedOnce)'
    BY <1>5 DEF SkipClaimed, LoadIsFresh, CountIsQueued, QueuedOnce, QueuedOf
  <2>4. (SentCountsQueued /\ OpenIsUntouched)'
    BY <1>5 DEF SkipClaimed, SentCountsQueued, OpenIsUntouched, QueuedOf
  <2> QED BY <2>1, <2>2, <2>3, <2>4 DEF IInv
<1>6. ASSUME NEW i \in Instances, NEW c \in Campaigns, ClaimFails(i, c) PROVE IInv'
  <2>1. TypeOK'
    BY <1>6 DEF ClaimFails, TakeNext, TypeOK
  <2>2. AtRest'
    BY <1>6 DEF ClaimFails, TakeNext, AtRest
  <2>3. OneDispatcher'
    BY <1>6 DEF ClaimFails, TakeNext, OneDispatcher, Dispatching
  <2>4. DispatchedIsClaimed'
    BY <1>6 DEF ClaimFails, TakeNext, DispatchedIsClaimed, Dispatching
  <2>5. LoadIsFresh'
    BY <1>6 DEF ClaimFails, TakeNext, LoadIsFresh, QueuedOf
  <2>6. CountIsQueued'
    BY <1>6 DEF ClaimFails, TakeNext, CountIsQueued, QueuedOf
  <2>7. OpenIsUntouched'
    BY <1>6 DEF ClaimFails, TakeNext, OpenIsUntouched, QueuedOf
  <2>8. (QueuedOnce /\ SentCountsQueued)'
    BY <1>6 DEF ClaimFails, TakeNext, QueuedOnce, SentCountsQueued, QueuedOf
  <2> QED BY <2>1, <2>2, <2>3, <2>4, <2>5, <2>6, <2>7, <2>8 DEF IInv
<1>7. ASSUME NEW i \in Instances, LoadRecipients(i) PROVE IInv'
  <2>1. TypeOK'
    BY <1>7 DEF LoadRecipients, TypeOK
  <2>2. AtRest'
    BY <1>7 DEF LoadRecipients, AtRest
  <2>3. OneDispatcher'
    BY <1>7 DEF LoadRecipients, OneDispatcher, Dispatching
  <2>4. DispatchedIsClaimed'
    BY <1>7 DEF LoadRecipients, DispatchedIsClaimed, Dispatching
  <2>5. LoadIsFresh'
    BY <1>7 DEF LoadRecipients, LoadIsFresh, QueuedOf
  <2>6. CountIsQueued'
    <3>1. \A j \in Instances : QueuedOf(current[j])' = QueuedOf(current[j])
      BY <1>7 DEF LoadRecipients, QueuedOf
    <3>2. QueuedOf(current[i]) = {} /\ count'[i] = 0
      BY <1>7 DEF LoadRecipients, LoadIsFresh
    <3>3. \A j \in Instances \ {i} : step'[j] = step[j] /\ count'[j] = count[j]
          /\ todo'[j] = todo[j]
      BY <1>7 DEF LoadRecipients
    <3>4. step[i] = "load" /\ current' = current /\ Cardinality({}) = 0
      BY <1>7, FS_EmptySet DEF LoadRecipients
    <3> SUFFICES ASSUME NEW j \in Instances, step'[j] = "queue"
                 PROVE /\ count'[j] = Cardinality(QueuedOf(current[j])')
                       /\ QueuedOf(current[j])' \cap todo'[j] = {}
      BY <3>4 DEF CountIsQueued
    <3>5. CASE j = i
      <4>1. QueuedOf(current[j])' = {} /\ count'[j] = 0
        BY <3>1, <3>2, <3>5
      <4> QED BY <3>4, <4>1
    <3>6. CASE j # i
      BY <3>1, <3>3, <3>6 DEF CountIsQueued
    <3> QED BY <3>5, <3>6
  <2>7. OpenIsUntouched'
    BY <1>7 DEF LoadRecipients, OpenIsUntouched, DispatchedIsClaimed, AtRest, QueuedOf
  <2>8. (QueuedOnce /\ SentCountsQueued)'
    BY <1>7 DEF LoadRecipients, QueuedOnce, SentCountsQueued, QueuedOf
  <2> QED BY <2>1, <2>2, <2>3, <2>4, <2>5, <2>6, <2>7, <2>8 DEF IInv
<1>8. ASSUME NEW i \in Instances, LoadFails(i) PROVE IInv'
  <2>1. TypeOK'
    BY <1>8 DEF LoadFails, TypeOK
  <2>2. AtRest'
    BY <1>8 DEF LoadFails, AtRest
  <2>3. OneDispatcher'
    BY <1>8 DEF LoadFails, OneDispatcher, Dispatching
  <2>4. DispatchedIsClaimed'
    BY <1>8 DEF LoadFails, DispatchedIsClaimed, Dispatching
  <2>5. LoadIsFresh'
    BY <1>8 DEF LoadFails, LoadIsFresh, QueuedOf
  <2>6. CountIsQueued'
    BY <1>8 DEF LoadFails, CountIsQueued, QueuedOf
  <2>7. OpenIsUntouched'
    BY <1>8 DEF LoadFails, OpenIsUntouched, QueuedOf
  <2>8. (QueuedOnce /\ SentCountsQueued)'
    BY <1>8 DEF LoadFails, QueuedOnce, SentCountsQueued, QueuedOf
  <2> QED BY <2>1, <2>2, <2>3, <2>4, <2>5, <2>6, <2>7, <2>8 DEF IInv
<1>9. ASSUME NEW i \in Instances, QueueMail(i) PROVE IInv'
  <2>r. PICK r \in todo[i] :
          /\ todo' = [todo EXCEPT ![i] = @ \ {r}]
          /\ \/ /\ queued' = [queued EXCEPT ![current[i]][r] = @ + 1]
                /\ count' = [count EXCEPT ![i] = @ + 1]
             \/ UNCHANGED <<count, queued>>
    BY <1>9 DEF QueueMail
  <2>c. current[i] \in Campaigns /\ r \in Recipients
    BY <1>9 DEF QueueMail, AtRest
  <2>q. \A c \in Campaigns : c # current[i] => QueuedOf(c)' = QueuedOf(c)
    BY <2>r, <2>c DEF QueuedOf
  <2>1. TypeOK'
    <3> DEFINE row == [queued[current[i]] EXCEPT ![r] = @ + 1]
    <3>1. row \in [Recipients -> Nat]
      BY <2>c
    <3>2. queued' = queued \/ queued' = [queued EXCEPT ![current[i]] = row]
      BY <2>r
    <3> HIDE DEF row
    <3>3. queued' \in [Campaigns -> [Recipients -> Nat]]
      BY <2>c, <3>1, <3>2
    <3>4. count' \in [Instances -> Nat] /\ todo' \in [Instances -> SUBSET Recipients]
      BY <1>9 DEF QueueMail
    <3>5. faults' \in 0..MaxFaults
      BY <1>9 DEF QueueMail
    <3> QED BY <1>9, <3>3, <3>4, <3>5 DEF QueueMail
  <2>2. LoadIsFresh'
    <3>1. \A j \in Instances : step[j] = "load" => current[j] \in Campaigns
          /\ current[j] # current[i]
      BY <1>9 DEF QueueMail, OneDispatcher, Dispatching, AtRest
    <3> QED BY <1>9, <2>q, <3>1 DEF QueueMail, LoadIsFresh
  <2>3. CountIsQueued'
    <3>1. \A j \in Instances \ {i} :
            step[j] = "queue" => current[j] \in Campaigns /\ current[j] # current[i]
      BY <1>9 DEF QueueMail, OneDispatcher, Dispatching, AtRest
    <3>2. \A j \in Instances \ {i} : count'[j] = count[j] /\ todo'[j] = todo[j]
      BY <2>r
    <3>3. count'[i] = Cardinality(QueuedOf(current[i])')
          /\ QueuedOf(current[i])' \cap todo'[i] = {}
      <4> DEFINE S == QueuedOf(current[i])
      <4>1. step[i] = "queue" /\ count[i] = Cardinality(S) /\ S \cap todo[i] = {}
            /\ S \subseteq Recipients
        BY <1>9 DEF QueueMail, CountIsQueued, QueuedOf
      <4>2. todo'[i] = todo[i] \ {r}
        BY <2>r
      <4>3. CASE UNCHANGED <<count, queued>>
        <5>1. QueuedOf(current[i])' = S
          BY <4>3, <1>9 DEF QueuedOf, QueueMail
        <5> QED BY <4>1, <4>2, <4>3, <5>1
      <4>4. CASE /\ queued' = [queued EXCEPT ![current[i]][r] = @ + 1]
                 /\ count' = [count EXCEPT ![i] = @ + 1]
        <5>1. QueuedOf(current[i])' = S \cup {r}
          BY <2>c, <4>4, <1>9 DEF QueuedOf, QueueMail
        <5>2. r \notin S /\ IsFiniteSet(S) /\ count'[i] = count[i] + 1
          BY <4>1, <4>4, QueuedIsFinite
        <5>3. Cardinality(S \cup {r}) = Cardinality(S) + 1
          BY <5>2, FS_AddElement
        <5> HIDE DEF S
        <5> QED BY <4>1, <4>2, <5>1, <5>2, <5>3
      <4> QED BY <2>r, <4>3, <4>4
    <3> QED BY <1>9, <2>q, <3>1, <3>2, <3>3 DEF QueueMail, CountIsQueued
  <2>4. QueuedOnce'
    <3>1. queued[current[i]][r] = 0
      <4>1. r \notin QueuedOf(current[i])
        BY <1>9 DEF QueueMail, CountIsQueued
      <4>2. queued[current[i]][r] \in Nat
        BY <2>c
      <4> QED BY <2>c, <4>1, <4>2 DEF QueuedOf
    <3>2. CASE UNCHANGED <<count, queued>>
      BY <3>2 DEF QueuedOnce
    <3>3. CASE queued' = [queued EXCEPT ![current[i]][r] = @ + 1]
      BY <2>c, <3>1, <3>3 DEF QueuedOnce
    <3> QED BY <2>r, <3>2, <3>3
  <2>5. SentCountsQueued'
    <3>1. status[current[i]] # "sent"
      BY <1>9 DEF QueueMail, DispatchedIsClaimed, Dispatching
    <3> QED BY <1>9, <2>q, <3>1 DEF QueueMail, SentCountsQueued
  <2>6. OpenIsUntouched'
    <3>1. status[current[i]] \notin Open
      BY <1>9 DEF QueueMail, DispatchedIsClaimed, Dispatching
    <3> QED BY <1>9, <2>q, <3>1 DEF QueueMail, OpenIsUntouched
  <2>7. (AtRest /\ OneDispatcher /\ DispatchedIsClaimed)'
    BY <1>9 DEF QueueMail, AtRest, OneDispatcher, DispatchedIsClaimed, Dispatching
  <2> QED BY <2>1, <2>2, <2>3, <2>4, <2>5, <2>6, <2>7 DEF IInv
<1>10. ASSUME NEW i \in Instances, Finalize(i) PROVE IInv'
  <2>1. TypeOK'
    <3>1. current[i] \in Campaigns
      BY <1>10 DEF Finalize, AtRest
    <3>2. count[i] \in 0..Cardinality(Recipients)
      BY <1>10, QueuedIsFinite DEF Finalize, CountIsQueued
    <3> QED BY <1>10, <3>1, <3>2 DEF Finalize
  <2>2. AtRest'
    BY <1>10 DEF Finalize, AtRest
  <2>3. OneDispatcher'
    BY <1>10 DEF Finalize, OneDispatcher, Dispatching
  <2>4. DispatchedIsClaimed'
    BY <1>10 DEF Finalize, DispatchedIsClaimed, OneDispatcher, Dispatching
  <2>5. LoadIsFresh'
    BY <1>10 DEF Finalize, LoadIsFresh, QueuedOf
  <2>6. CountIsQueued'
    <3>1. \A j \in Instances : step'[j] = "queue" =>
            /\ step[j] = "queue" /\ current'[j] = current[j]
            /\ count'[j] = count[j] /\ todo'[j] = todo[j]
      BY <1>10 DEF Finalize
    <3> SUFFICES ASSUME NEW j \in Instances, step'[j] = "queue"
                 PROVE /\ count'[j] = Cardinality(QueuedOf(current[j])')
                       /\ QueuedOf(current[j])' \cap todo'[j] = {}
      BY DEF CountIsQueued
    <3>2. QueuedOf(current[j])' = QueuedOf(current[j])
      BY <1>10, <3>1 DEF Finalize, QueuedOf
    <3> QED BY <3>1, <3>2 DEF CountIsQueued
  <2>7. SentCountsQueued'
    BY <1>10 DEF Finalize, SentCountsQueued, CountIsQueued, QueuedOf
  <2>8. OpenIsUntouched'
    BY <1>10 DEF Finalize, OpenIsUntouched, AtRest, DispatchedIsClaimed, QueuedOf
  <2>9. QueuedOnce'
    BY <1>10 DEF Finalize, QueuedOnce
  <2> QED BY <2>1, <2>2, <2>3, <2>4, <2>5, <2>6, <2>7, <2>8, <2>9 DEF IInv
<1>11. ASSUME NEW i \in Instances, FinalizeFails(i) PROVE IInv'
  <2>1. TypeOK'
    BY <1>11 DEF FinalizeFails, TypeOK
  <2>2. AtRest'
    BY <1>11 DEF FinalizeFails, AtRest
  <2>3. OneDispatcher'
    BY <1>11 DEF FinalizeFails, OneDispatcher, Dispatching
  <2>4. DispatchedIsClaimed'
    BY <1>11 DEF FinalizeFails, DispatchedIsClaimed, Dispatching
  <2>5. LoadIsFresh'
    BY <1>11 DEF FinalizeFails, LoadIsFresh, QueuedOf
  <2>6. CountIsQueued'
    BY <1>11 DEF FinalizeFails, CountIsQueued, QueuedOf
  <2>7. OpenIsUntouched'
    BY <1>11 DEF FinalizeFails, OpenIsUntouched, QueuedOf
  <2>8. (QueuedOnce /\ SentCountsQueued)'
    BY <1>11 DEF FinalizeFails, QueuedOnce, SentCountsQueued, QueuedOf
  <2> QED BY <2>1, <2>2, <2>3, <2>4, <2>5, <2>6, <2>7, <2>8 DEF IInv
<1>12. ASSUME NEW i \in Instances, MarkFailed(i) PROVE IInv'
  <2>1. TypeOK'
    <3>1. current[i] \in Campaigns
      BY <1>12 DEF MarkFailed, AtRest
    <3>2. orphaned' \in SUBSET Campaigns /\ faults' \in 0..MaxFaults
      BY <1>12, <3>1 DEF MarkFailed
    <3>3. status' \in [Campaigns -> Status] /\ current' \in [Instances -> Campaigns \cup {None}]
      BY <1>12 DEF MarkFailed
    <3>4. step' \in [Instances -> Step]
      BY <1>12 DEF MarkFailed
    <3> QED BY <1>12, <3>2, <3>3, <3>4 DEF MarkFailed
  <2>2. AtRest'
    BY <1>12 DEF MarkFailed, AtRest
  <2>3. OneDispatcher'
    BY <1>12 DEF MarkFailed, OneDispatcher, Dispatching
  <2>4. DispatchedIsClaimed'
    <3>1. status' = status \/ status' = [status EXCEPT ![current[i]] = "failed"]
      BY <1>12 DEF MarkFailed
    <3>2. \A j \in Instances : Dispatching(j)' => Dispatching(j) /\ current'[j] = current[j]
      BY <1>12 DEF MarkFailed, Dispatching
    <3>3. \A j \in Instances : Dispatching(j) => current[j] \in Campaigns
      BY DEF Dispatching, AtRest
    <3> QED BY <3>1, <3>2, <3>3 DEF DispatchedIsClaimed
  <2>5. LoadIsFresh'
    BY <1>12 DEF MarkFailed, LoadIsFresh, QueuedOf
  <2>6. CountIsQueued'
    BY <1>12 DEF MarkFailed, CountIsQueued, QueuedOf
  <2>7. SentCountsQueued'
    BY <1>12 DEF MarkFailed, SentCountsQueued, QueuedOf
  <2>8. OpenIsUntouched'
    BY <1>12 DEF MarkFailed, OpenIsUntouched, AtRest, QueuedOf
  <2>9. QueuedOnce'
    BY <1>12 DEF MarkFailed, QueuedOnce
  <2> QED BY <2>1, <2>2, <2>3, <2>4, <2>5, <2>6, <2>7, <2>8, <2>9 DEF IInv
<1>13. ASSUME NEW i \in Instances, Crash(i) PROVE IInv'
  <2>1. TypeOK'
    BY <1>13 DEF Crash, TypeOK
  <2>2. AtRest'
    BY <1>13 DEF Crash, AtRest
  <2>3. OneDispatcher'
    BY <1>13 DEF Crash, OneDispatcher, Dispatching
  <2>4. DispatchedIsClaimed'
    BY <1>13 DEF Crash, DispatchedIsClaimed, Dispatching
  <2>5. LoadIsFresh'
    BY <1>13 DEF Crash, LoadIsFresh, QueuedOf
  <2>6. CountIsQueued'
    BY <1>13 DEF Crash, CountIsQueued, QueuedOf
  <2>7. OpenIsUntouched'
    BY <1>13 DEF Crash, OpenIsUntouched, AtRest, QueuedOf
  <2>8. (QueuedOnce /\ SentCountsQueued)'
    BY <1>13 DEF Crash, QueuedOnce, SentCountsQueued, QueuedOf
  <2> QED BY <2>1, <2>2, <2>3, <2>4, <2>5, <2>6, <2>7, <2>8 DEF IInv
<1>14. CASE UNCHANGED vars
  <2>1. (TypeOK /\ AtRest /\ OneDispatcher)'
    BY <1>14 DEF vars, TypeOK, AtRest, OneDispatcher, Dispatching
  <2>2. (DispatchedIsClaimed /\ LoadIsFresh /\ CountIsQueued)'
    BY <1>14 DEF vars, DispatchedIsClaimed, LoadIsFresh, CountIsQueued, Dispatching, QueuedOf
  <2>3. (QueuedOnce /\ SentCountsQueued /\ OpenIsUntouched)'
    BY <1>14 DEF vars, QueuedOnce, SentCountsQueued, OpenIsUntouched, QueuedOf
  <2> QED BY <2>1, <2>2, <2>3 DEF IInv
<1> QED BY <1>1, <1>2, <1>3, <1>4, <1>5, <1>6, <1>7, <1>8, <1>9, <1>10, <1>11, <1>12, <1>13,
      <1>14 DEF Next, Schedule

(* The inductive invariant holds in every reachable state. *)
THEOREM Invariance == Spec => []IInv
BY InitIInv, NextIInv, PTL DEF Spec

(* Every variable keeps its type; with it, no campaign reports more mails  *)
(* than its tenant has users.                                              *)
THEOREM TypeCorrect == Spec => []TypeOK
<1>1. IInv => TypeOK
  BY DEF IInv
<1> QED BY <1>1, Invariance, PTL

(* However many instances dispatch, fail and crash, no recipient is queued *)
(* twice for one campaign.                                                 *)
THEOREM OneMailEach == Spec => []QueuedOnce
<1>1. IInv => QueuedOnce
  BY DEF IInv
<1> QED BY <1>1, Invariance, PTL

(* A sent campaign reports the mails it queued, and one that can still be  *)
(* edited has queued none.                                                 *)
THEOREM RowsTellTheMails == Spec => []RowTellsTheMails
<1>1. IInv => RowTellsTheMails
  BY DEF IInv, RowTellsTheMails
<1> QED BY <1>1, Invariance, PTL
=============================================================================
