--------------------------- MODULE SessionsProofs ---------------------------
(***************************************************************************)
(* What holds of Sessions for every set of devices and requests, every     *)
(* life of the tokens and of a request, and every number of seconds; and   *)
(* of RateLimiter for every limit and number of requests.                  *)
(*                                                                         *)
(* The properties of Sessions speak of tokens that are out; what they rest *)
(* on is how tokens, rows and the requests on their way hang together: no  *)
(* token is of a later second, devices that share a refresh token are      *)
(* known, a device that signed out has no live row left to renew from, and *)
(* what is on its way was allowed before the sign-out or the closing, and  *)
(* not longer ago than a request may take.                                 *)
(***************************************************************************)
EXTENDS Sessions, RateLimiter, TLAPS

Has(d) == refresh[d] # None

(* A request on its way has its time left, and only a device with a        *)
(* refresh token renews.                                                   *)
RequestShape ==
  \A r \in Requests : at[r] # "idle" =>
    /\ who[r] \in Devices
    /\ since[r] <= now /\ now <= since[r] + RequestTime
    /\ at[r] \in {"renew", "mint"} => Has(who[r])

(* Nothing was issued in a second to come, and every access token came     *)
(* with, or after, a refresh token.                                        *)
NothingFromTheFuture ==
  /\ \A d \in Devices :
       /\ Has(d) => refresh[d] <= now
       /\ access[d] # None => access[d] <= now /\ Has(d)
       /\ out[d] # None => Has(d)
  /\ closed # None => closed <= now

(* A token with no row is known to be unstored. *)
TokensHaveRows == \A d \in Devices : Has(d) => rows[refresh[d]] # "none" \/ d \in unstored

(* Two devices have the same token only if it was handed out twice. *)
TokensAreShared ==
  \A d, e \in Devices : d # e /\ Has(d) /\ refresh[d] = refresh[e] => refresh[d] \in shared

(* A device that signed out can start no renewal, and the time of those on *)
(* their way runs from before.                                             *)
SignedOutIsRevoked ==
  \A d \in Devices : out[d] # None /\ d \notin unstored =>
    /\ rows[refresh[d]] = "revoked"
    /\ access[d] # None => access[d] <= out[d] + RequestTime
    /\ \A r \in Requests : at[r] \in {"renew", "mint"} /\ who[r] = d => since[r] <= out[d]

(* After the closing nobody signs in but those on their way, nobody but    *)
(* staff is found active, and staff renew as long as their refresh tokens  *)
(* last.                                                                   *)
ClosedIsOver ==
  /\ closed # None <=> account = "inactive"
  /\ closed # None =>
       /\ \A r \in Requests :
            /\ at[r] = "issue" => since[r] <= closed
            /\ at[r] = "mint" /\ audience # "staff" => since[r] <= closed
            /\ at[r] \in {"renew", "mint"} => since[r] < closed + RequestTime + RefreshTTL
       /\ \A d \in Devices :
            /\ Has(d) => refresh[d] <= closed + RequestTime
            /\ access[d] # None =>
                 IF audience = "staff"
                 THEN access[d] < closed + RequestTime + RefreshTTL + RequestTime
                 ELSE access[d] <= closed + RequestTime

IInv ==
  /\ TypeOK
  /\ RequestShape
  /\ NothingFromTheFuture
  /\ TokensHaveRows
  /\ TokensAreShared
  /\ SignedOutIsRevoked
  /\ ClosedIsOver
  /\ SessionSurvives
----------------------------------------------------------------------------
(* Every initial state satisfies the inductive invariant. *)
LEMMA InitIInv == Init => IInv
<1> SUFFICES ASSUME Init PROVE IInv
  OBVIOUS
<1> USE SessionAssumption, FaultsAssumption
    DEF Init, SessionAssumption, FaultsAssumption, Seconds, None, Has
<1>1. TypeOK
  <2>1. audience \in Audiences /\ account \in {"none", "active", "inactive"}
    BY DEF Audiences
  <2> QED BY <2>1 DEF TypeOK, Places
<1>2. RequestShape /\ NothingFromTheFuture /\ TokensHaveRows /\ TokensAreShared
  BY DEF RequestShape, NothingFromTheFuture, TokensHaveRows, TokensAreShared
<1>3. SignedOutIsRevoked /\ ClosedIsOver
  BY DEF SignedOutIsRevoked, ClosedIsOver
<1> QED BY <1>1, <1>2, <1>3 DEF IInv, SessionSurvives

(* Every step preserves the inductive invariant. *)
LEMMA NextIInv == IInv /\ [Next]_vars => IInv'
<1> SUFFICES ASSUME IInv, [Next]_vars PROVE IInv'
  OBVIOUS
<1> USE SessionAssumption, FaultsAssumption
    DEF IInv, SessionAssumption, FaultsAssumption, TypeOK, Seconds, None, Places,
        Audiences, Has, Put, D, Goto, Take, Move, Leave, Fault, accountVars, requestVars,
        clientVars, sessionGhosts
<1>1. ASSUME NEW r \in Requests, NEW d \in Devices, Signup(r, d) PROVE IInv'
  <2>1. TypeOK'
    BY <1>1 DEF Signup
  <2>2. RequestShape'
    BY <1>1 DEF Signup, RequestShape
  <2>3. ClosedIsOver'
    BY <1>1 DEF Signup, ClosedIsOver
  <2>4. SignedOutIsRevoked'
    BY <1>1 DEF Signup, SignedOutIsRevoked
  <2>5. (NothingFromTheFuture /\ TokensHaveRows /\ TokensAreShared /\ SessionSurvives)'
    BY <1>1, <2>1
       DEF Signup, NothingFromTheFuture, TokensHaveRows, TokensAreShared, SessionSurvives, Stored
  <2> QED BY <2>1, <2>2, <2>3, <2>4, <2>5
<1>2. ASSUME NEW r \in Requests, NEW d \in Devices, Login(r, d) PROVE IInv'
  <2>1. TypeOK'
    BY <1>2 DEF Login
  <2>2. RequestShape'
    BY <1>2 DEF Login, RequestShape
  <2>3. ClosedIsOver'
    BY <1>2 DEF Login, ClosedIsOver
  <2>4. SignedOutIsRevoked'
    BY <1>2 DEF Login, SignedOutIsRevoked
  <2>5. (NothingFromTheFuture /\ TokensHaveRows /\ TokensAreShared /\ SessionSurvives)'
    BY <1>2, <2>1
       DEF Login, NothingFromTheFuture, TokensHaveRows, TokensAreShared, SessionSurvives, Stored
  <2> QED BY <2>1, <2>2, <2>3, <2>4, <2>5
<1>3. ASSUME NEW r \in Requests, IssueTokens(r) PROVE IInv'
  <2>0. /\ who[r] \in Devices /\ since[r] \in Nat /\ now <= since[r] + RequestTime
        /\ closed # None => since[r] <= closed
    BY <1>3 DEF IssueTokens, RequestShape, ClosedIsOver
  <2>1. PICK t \in since[r]..now :
          rows[t] = "none" /\ rows' = Put(rows, t, "live") /\ Hand(who[r], t)
    BY <1>3 DEF IssueTokens
  <2>2. t \in Seconds /\ t <= now /\ t <= since[r] + RequestTime
    BY <2>0, <2>1
  <2>3. TypeOK'
    <3>1. unstored' \in SUBSET Devices /\ faults' = faults
      BY <1>3 DEF IssueTokens
    <3>2. shared' \in SUBSET Seconds
      BY <2>1, <2>2 DEF Hand
    <3> QED BY <1>3, <2>0, <2>1, <2>2, <3>1, <3>2 DEF IssueTokens, Hand
  <2>4. RequestShape'
    BY <1>3, <2>0, <2>1, <2>2 DEF IssueTokens, Hand, RequestShape
  <2>5. NothingFromTheFuture'
    BY <1>3, <2>0, <2>1, <2>2 DEF IssueTokens, Hand, NothingFromTheFuture
  <2>6. TokensHaveRows'
    BY <1>3, <2>0, <2>1, <2>2 DEF IssueTokens, Hand, TokensHaveRows
  <2>7. TokensAreShared'
    BY <1>3, <2>0, <2>1, <2>2 DEF IssueTokens, Hand, TokensAreShared
  <2>8. SignedOutIsRevoked'
    BY <1>3, <2>0, <2>1, <2>2 DEF IssueTokens, Hand, SignedOutIsRevoked
  <2>9. ClosedIsOver'
    BY <1>3, <2>0, <2>1, <2>2 DEF IssueTokens, Hand, ClosedIsOver
  <2>10. SessionSurvives'
    BY <1>3, <2>0, <2>1, <2>2, <2>3 DEF IssueTokens, Hand, SessionSurvives, Stored
  <2> QED BY <2>3, <2>4, <2>5, <2>6, <2>7, <2>8, <2>9, <2>10
<1>4. ASSUME NEW r \in Requests, IssueUnheard(r) PROVE IInv'
  <2>1. PICK t \in since[r]..now : rows[t] = "none" /\ rows' = Put(rows, t, "live")
    BY <1>4 DEF IssueUnheard
  <2>2. t \in Seconds
    BY <1>4, <2>1
  <2>3. TypeOK'
    BY <1>4, <2>1, <2>2 DEF IssueUnheard
  <2>4. RequestShape'
    BY <1>4 DEF IssueUnheard, RequestShape
  <2>5. (NothingFromTheFuture /\ TokensHaveRows /\ TokensAreShared)'
    BY <1>4, <2>1, <2>2
       DEF IssueUnheard, NothingFromTheFuture, TokensHaveRows, TokensAreShared
  <2>6. SignedOutIsRevoked'
    BY <1>4, <2>1, <2>2 DEF IssueUnheard, SignedOutIsRevoked
  <2>7. ClosedIsOver'
    BY <1>4 DEF IssueUnheard, ClosedIsOver
  <2>8. SessionSurvives'
    BY <1>4, <2>1, <2>2, <2>3 DEF IssueUnheard, SessionSurvives, Stored
  <2> QED BY <2>3, <2>4, <2>5, <2>6, <2>7, <2>8
<1>5. ASSUME NEW r \in Requests, IssueRefused(r) PROVE IInv'
  <2>0. /\ who[r] \in Devices /\ since[r] \in Nat /\ now <= since[r] + RequestTime
        /\ closed # None => since[r] <= closed
    BY <1>5 DEF IssueRefused, RequestShape, ClosedIsOver
  <2>1. PICK t \in since[r]..now :
          /\ \/ rows[t] # "none" /\ UNCHANGED faults
             \/ Fault
          /\ IF audience = "staff"
             THEN /\ Hand(who[r], t)
                  /\ unstored' = IF rows[t] = "none" THEN unstored \cup {who[r]}
                                                     ELSE unstored \ {who[r]}
             ELSE UNCHANGED <<clientVars, out, shared, unstored>>
    BY <1>5 DEF IssueRefused
  <2>2. t \in Seconds /\ t <= now /\ t <= since[r] + RequestTime
    BY <2>0, <2>1
  <2>3. /\ Leave(r) /\ UNCHANGED <<accountVars, rows, closed>> /\ faults' \in 0..MaxFaults
    BY <1>5, <2>1 DEF IssueRefused
  <2>4. CASE audience # "staff"
    <3>1. UNCHANGED <<clientVars, out, shared, unstored>>
      BY <2>1, <2>4
    <3>2. TypeOK' /\ RequestShape'
      BY <2>3, <3>1 DEF RequestShape
    <3>3. (NothingFromTheFuture /\ TokensHaveRows /\ TokensAreShared /\ SignedOutIsRevoked
           /\ ClosedIsOver)'
      BY <2>3, <3>1
         DEF NothingFromTheFuture, TokensHaveRows, TokensAreShared, SignedOutIsRevoked, ClosedIsOver
    <3>4. SessionSurvives'
      BY <2>3, <3>1, <3>2 DEF SessionSurvives, Stored
    <3> QED BY <3>2, <3>3, <3>4
  <2>5. CASE audience = "staff"
    <3>0. Hand(who[r], t) /\ unstored' = IF rows[t] = "none" THEN unstored \cup {who[r]}
                                                         ELSE unstored \ {who[r]}
      BY <2>1, <2>5
    <3>1. TypeOK'
      <4>1. unstored' \in SUBSET Devices
        BY <2>0, <3>0
      <4>2. shared' \in SUBSET Seconds
        BY <2>2, <3>0 DEF Hand
      <4> QED BY <2>0, <2>2, <2>3, <3>0, <4>1, <4>2 DEF Hand
    <3>2. RequestShape'
      BY <2>0, <2>3, <3>0 DEF Hand, RequestShape
    <3>3. NothingFromTheFuture'
      BY <2>0, <2>2, <2>3, <3>0 DEF Hand, NothingFromTheFuture
    <3>4. TokensHaveRows'
      BY <2>0, <2>2, <2>3, <3>0 DEF Hand, TokensHaveRows
    <3>5. TokensAreShared'
      BY <2>0, <2>2, <2>3, <3>0 DEF Hand, TokensAreShared
    <3>6. SignedOutIsRevoked'
      BY <2>0, <2>2, <2>3, <3>0 DEF Hand, SignedOutIsRevoked
    <3>7. ClosedIsOver'
      BY <2>0, <2>2, <2>3, <2>5, <3>0 DEF Hand, ClosedIsOver
    <3>8. SessionSurvives'
      BY <2>0, <2>2, <2>3, <3>0, <3>1 DEF Hand, SessionSurvives, Stored
    <3> QED BY <3>1, <3>2, <3>3, <3>4, <3>5, <3>6, <3>7, <3>8
  <2> QED BY <2>4, <2>5
<1>6. ASSUME NEW r \in Requests, NEW d \in Devices, CheckRefresh(r, d) PROVE IInv'
  <2>1. TypeOK'
    BY <1>6 DEF CheckRefresh
  <2>2. RequestShape'
    BY <1>6 DEF CheckRefresh, RequestShape
  <2>3. SignedOutIsRevoked'
    BY <1>6 DEF CheckRefresh, Stored, SignedOutIsRevoked
  <2>4. ClosedIsOver'
    BY <1>6 DEF CheckRefresh, ClosedIsOver
  <2>5. (NothingFromTheFuture /\ TokensHaveRows /\ TokensAreShared /\ SessionSurvives)'
    BY <1>6, <2>1
       DEF CheckRefresh, NothingFromTheFuture, TokensHaveRows, TokensAreShared, SessionSurvives,
           Stored
  <2> QED BY <2>1, <2>2, <2>3, <2>4, <2>5
<1>7. ASSUME NEW r \in Requests, ReadAccount(r) PROVE IInv'
  <2>1. TypeOK'
    BY <1>7 DEF ReadAccount
  <2>2. RequestShape'
    BY <1>7 DEF ReadAccount, RequestShape
  <2>3. SignedOutIsRevoked'
    BY <1>7 DEF ReadAccount, SignedOutIsRevoked
  <2>4. ClosedIsOver'
    BY <1>7 DEF ReadAccount, Renewable, ClosedIsOver
  <2>5. (NothingFromTheFuture /\ TokensHaveRows /\ TokensAreShared /\ SessionSurvives)'
    BY <1>7, <2>1
       DEF ReadAccount, NothingFromTheFuture, TokensHaveRows, TokensAreShared, SessionSurvives,
           Stored
  <2> QED BY <2>1, <2>2, <2>3, <2>4, <2>5
<1>8. ASSUME NEW r \in Requests, Mint(r) PROVE IInv'
  <2>0. /\ who[r] \in Devices /\ Has(who[r]) /\ since[r] \in Nat
        /\ now <= since[r] + RequestTime
    BY <1>8 DEF Mint, RequestShape
  <2>1. TypeOK'
    BY <1>8, <2>0 DEF Mint
  <2>2. RequestShape'
    BY <1>8 DEF Mint, RequestShape
  <2>3. NothingFromTheFuture'
    BY <1>8, <2>0 DEF Mint, NothingFromTheFuture
  <2>4. SignedOutIsRevoked'
    BY <1>8, <2>0 DEF Mint, SignedOutIsRevoked
  <2>5. ClosedIsOver'
    <3>1. closed # None =>
            IF audience = "staff" THEN now < closed + RequestTime + RefreshTTL + RequestTime
                                  ELSE now <= closed + RequestTime
      BY <1>8, <2>0 DEF Mint, ClosedIsOver
    <3> QED BY <1>8, <2>0, <3>1 DEF Mint, ClosedIsOver
  <2>6. (TokensHaveRows /\ TokensAreShared /\ SessionSurvives)'
    BY <1>8, <2>1 DEF Mint, TokensHaveRows, TokensAreShared, SessionSurvives, Stored
  <2> QED BY <2>1, <2>2, <2>3, <2>4, <2>5, <2>6
<1>9. ASSUME NEW d \in Devices, Logout(d) PROVE IInv'
  <2>1. TypeOK'
    BY <1>9 DEF Logout, SignedOutRows, Revoke
  <2>2. RequestShape'
    BY <1>9 DEF Logout, RequestShape
  <2>3. NothingFromTheFuture'
    BY <1>9 DEF Logout, NothingFromTheFuture
  <2>4. TokensHaveRows'
    BY <1>9 DEF Logout, SignedOutRows, Revoke, TokensHaveRows
  <2>5. SignedOutIsRevoked'
    BY <1>9
       DEF Logout, SignedOutRows, Revoke, SignedOutIsRevoked, NothingFromTheFuture,
           TokensHaveRows, RequestShape
  <2>6. SessionSurvives'
    BY <1>9, <2>1 DEF Logout, SignedOutRows, Revoke, SessionSurvives, TokensAreShared, Stored
  <2>7. TokensAreShared' /\ ClosedIsOver'
    BY <1>9 DEF Logout, TokensAreShared, ClosedIsOver
  <2> QED BY <2>1, <2>2, <2>3, <2>4, <2>5, <2>6, <2>7
<1>10. ASSUME NEW r \in Requests, RequestEnds(r) PROVE IInv'
  <2>1. TypeOK'
    BY <1>10 DEF RequestEnds
  <2>2. RequestShape'
    BY <1>10 DEF RequestEnds, RequestShape
  <2>3. SignedOutIsRevoked' /\ ClosedIsOver'
    BY <1>10 DEF RequestEnds, SignedOutIsRevoked, ClosedIsOver
  <2>4. (NothingFromTheFuture /\ TokensHaveRows /\ TokensAreShared /\ SessionSurvives)'
    BY <1>10, <2>1
       DEF RequestEnds, NothingFromTheFuture, TokensHaveRows, TokensAreShared, SessionSurvives,
           Stored
  <2> QED BY <2>1, <2>2, <2>3, <2>4
<1>11. ASSUME CloseAccount PROVE IInv'
  <2>1. TypeOK'
    BY <1>11 DEF CloseAccount
  <2>2. ClosedIsOver'
    BY <1>11 DEF CloseAccount, ClosedIsOver, NothingFromTheFuture, RequestShape
  <2>3. (RequestShape /\ NothingFromTheFuture /\ TokensHaveRows /\ TokensAreShared
        /\ SignedOutIsRevoked /\ SessionSurvives)'
    BY <1>11, <2>1
       DEF CloseAccount, RequestShape, NothingFromTheFuture, TokensHaveRows, TokensAreShared,
           SignedOutIsRevoked, SessionSurvives, Stored
  <2> QED BY <2>1, <2>2, <2>3
<1>12. ASSUME Tick PROVE IInv'
  <2>1. TypeOK'
    BY <1>12 DEF Tick
  <2>2. RequestShape'
    BY <1>12 DEF Tick, Expires, RequestShape
  <2>3. NothingFromTheFuture'
    BY <1>12 DEF Tick, NothingFromTheFuture
  <2>4. (TokensHaveRows /\ TokensAreShared /\ SignedOutIsRevoked /\ ClosedIsOver
        /\ SessionSurvives)'
    BY <1>12, <2>1
       DEF Tick, TokensHaveRows, TokensAreShared, SignedOutIsRevoked, ClosedIsOver,
           SessionSurvives, Stored
  <2> QED BY <2>1, <2>2, <2>3, <2>4
<1>13. CASE UNCHANGED vars
  BY <1>13
     DEF vars, RequestShape, NothingFromTheFuture, TokensHaveRows, TokensAreShared,
         SignedOutIsRevoked, ClosedIsOver, SessionSurvives, Stored
<1> QED BY <1>1, <1>2, <1>3, <1>4, <1>5, <1>6, <1>7, <1>8, <1>9, <1>10, <1>11, <1>12, <1>13
        DEF Next, Handle

(* The inductive invariant holds in every reachable state. *)
THEOREM Invariance == Spec => []IInv
BY InitIInv, NextIInv, PTL DEF Spec

(* Signing out ends what a device may do within the life of an access      *)
(* token and the time of a request, for every account, number of devices   *)
(* and life of the tokens, whatever refresh was on its way.                *)
THEOREM SignOutIsFinal == Spec => []SignOutHolds
<1>1. IInv => SignOutHolds
  BY SessionAssumption DEF SessionAssumption, IInv, TypeOK, Seconds, None,
     SignedOutIsRevoked, SignOutHolds, Admitted
<1> QED BY <1>1, Invariance, PTL

(* Closing the account does so for every device of shoppers and operators, *)
(* whatever sign-in or refresh was on its way; for staff it takes the life *)
(* of a refresh token and another request longer.                          *)
THEOREM ClosingIsFinal == Spec => []ClosingHolds
<1>1. IInv => ClosingHolds
  BY SessionAssumption DEF SessionAssumption, IInv, TypeOK, Seconds, None, Audiences,
     ClosedIsOver, ClosingHolds, Afterlife, Admitted
<1> QED BY <1>1, Invariance, PTL

(* No sign-out ends the session of a device that did not sign out, except  *)
(* where two devices were handed the same token; every variable keeps its  *)
(* type.                                                                   *)
THEOREM SessionsSurvive == Spec => []SessionSurvives
BY Invariance, PTL DEF IInv

----------------------------------------------------------------------------
(***************************************************************************)
(* The limiter.  Requests that pass are told different counts, and none    *)
(* above the limit.                                                        *)
(***************************************************************************)
LimiterIInv == WindowIsCapped /\ passed <= count

(* Every step of the limiter keeps its invariant. *)
LEMMA LimiterNextIInv == LimiterIInv /\ [LimiterNext]_limiterVars => LimiterIInv'
<1> SUFFICES ASSUME LimiterIInv, [LimiterNext]_limiterVars PROVE LimiterIInv'
  OBVIOUS
<1> USE LimiterAssumption
    DEF LimiterAssumption, LimiterIInv, WindowIsCapped, LimiterTypeOK, Asks,
        Misses, Incremented, FirstOfWindow, Refuses
<1>1. ASSUME NEW r \in Arrivals, CountRequest(r) PROVE LimiterIInv'
  BY <1>1 DEF CountRequest
<1>2. ASSUME NEW r \in Arrivals, OpenWindow(r) PROVE LimiterIInv'
  BY <1>2 DEF OpenWindow
<1>3. ASSUME NEW r \in Arrivals, SetTTL(r) PROVE LimiterIInv'
  <2>1. ttl' \in BOOLEAN /\ timeless' \in BOOLEAN
    BY <1>3, Zenon DEF SetTTL
  <2>2. asks' \in [Arrivals -> {"idle", "retry", "expire"}] /\ (count # 0 => ttl')
    BY <1>3 DEF SetTTL
  <2> QED BY <1>3, <2>1, <2>2, Zenon DEF SetTTL
<1>4. ASSUME NEW r \in Arrivals, IncrFails(r) PROVE LimiterIInv'
  <2>1. timeless' \in BOOLEAN
    BY <1>4, Zenon DEF IncrFails
  <2>2. /\ asks' \in [Arrivals -> {"idle", "retry", "expire"}]
        /\ count' \in 0..Limit + 1 /\ missed' \in 0..MaxMissed /\ passed <= count'
    BY <1>4 DEF IncrFails
  <2>3. count' # 0 => ttl' \/ timeless' \/ \E q \in Arrivals : asks'[q] = "expire"
    <3>1. \A q \in Arrivals : asks[q] = "expire" => asks'[q] = "expire"
      BY <1>4 DEF IncrFails
    <3>2. CASE count = 0
      <4>1. count' # 0 => FirstOfWindow(count') /\ count' = Incremented(count)
        BY <1>4, <3>2 DEF IncrFails
      <4>2. count' # 0 => timeless'
        <5> HIDE DEF FirstOfWindow, Incremented
        <5> QED BY <1>4, <3>2, <4>1, Zenon DEF IncrFails
      <4> QED BY <4>2
    <3>3. CASE count # 0
      <4>1. ttl' = ttl
        BY <1>4, Zenon DEF IncrFails
      <4>3. ASSUME timeless PROVE timeless'
        <5> HIDE DEF FirstOfWindow, Incremented
        <5> QED BY <1>4, <4>3 DEF IncrFails
      <4>2. ttl \/ timeless \/ \E q \in Arrivals : asks[q] = "expire"
        BY <3>3, Zenon
      <4> QED BY <3>1, <4>1, <4>2, <4>3, Zenon
    <3> QED BY <3>2, <3>3
  <2> QED BY <1>4, <2>1, <2>2, <2>3, Zenon DEF IncrFails
<1>5. ASSUME NEW r \in Arrivals, ExpireFails(r) PROVE LimiterIInv'
  <2>1. ttl' \in BOOLEAN /\ timeless' \in BOOLEAN
    BY <1>5, Zenon DEF ExpireFails
  <2>2. asks' \in [Arrivals -> {"idle", "retry", "expire"}] /\ missed' \in 0..MaxMissed
    BY <1>5 DEF ExpireFails
  <2>3. count' # 0 => ttl' \/ timeless' \/ \E q \in Arrivals : asks'[q] = "expire"
    BY <1>5 DEF ExpireFails
  <2> QED BY <1>5, <2>1, <2>2, <2>3, Zenon DEF ExpireFails
<1>6. ASSUME WindowEnds PROVE LimiterIInv'
  <2>1. ttl' \in BOOLEAN /\ timeless' \in BOOLEAN
    BY <1>6, Zenon DEF WindowEnds
  <2>2. count' \in 0..Limit + 1 /\ passed' \in Nat /\ passed' <= Limit /\ passed' <= count'
        /\ count' = 0
    BY <1>6 DEF WindowEnds
  <2> QED BY <1>6, <2>1, <2>2, Zenon DEF WindowEnds
<1>7. CASE UNCHANGED limiterVars
  BY <1>7 DEF limiterVars
<1> QED BY <1>1, <1>2, <1>3, <1>4, <1>5, <1>6, <1>7 DEF LimiterNext, Limited

(* However requests overlap and commands are sent again, no key lets more  *)
(* requests pass than the limit by its count, and a key that will not      *)
(* expire is one whose first request missed a reply.                       *)
THEOREM WindowsAreCapped == LimiterSpec => []WindowIsCapped
<1>1. LimiterInit => LimiterIInv
  <2> SUFFICES ASSUME LimiterInit PROVE LimiterIInv
    OBVIOUS
  <2>1. ttl \in BOOLEAN /\ timeless \in BOOLEAN
    BY Zenon DEF LimiterInit
  <2>2. /\ asks \in [Arrivals -> {"idle", "retry", "expire"}]
        /\ count \in 0..Limit + 1 /\ passed \in Nat /\ missed \in 0..MaxMissed
        /\ passed <= Limit /\ passed <= count /\ count = 0
    BY LimiterAssumption
       DEF LimiterAssumption, LimiterInit
  <2> QED BY <2>1, <2>2, Zenon DEF LimiterIInv, WindowIsCapped, LimiterTypeOK
<1>2. LimiterIInv => WindowIsCapped
  BY DEF LimiterIInv
<1> QED BY <1>1, <1>2, LimiterNextIInv, PTL DEF LimiterSpec
=============================================================================
