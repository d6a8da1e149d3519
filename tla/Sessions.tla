------------------------------ MODULE Sessions ------------------------------
(***************************************************************************)
(* Sign-in, refresh and sign-out of one account: handlers/auth.go for the  *)
(* staff of a stall, buyer_auth.go for shoppers, admin_auth.go for         *)
(* operators, and the tokens of internal/auth.                             *)
(*                                                                         *)
(* A token carries the second it was issued in and nothing that tells it   *)
(* from another of the same second, so a refresh token is that second; so  *)
(* is an access token, which the server does not store.  bcrypt, roles and *)
(* the audience of a token, which never changes, are left out.             *)
(***************************************************************************)
EXTENDS Actors

CONSTANTS
  Devices,      \* clients of the account
  Requests,     \* requests in flight at the same time
  AccessTTL,    \* 15 minutes
  RefreshTTL,   \* 7 days
  RequestTime,  \* 30 seconds, after which a request has no answer
  MaxNow        \* bound: seconds that pass

ASSUME SessionAssumption ==
  /\ AccessTTL \in Nat \ {0}
  /\ RefreshTTL \in Nat
  /\ AccessTTL <= RefreshTTL
  /\ RequestTime \in Nat
  /\ MaxNow \in Nat

VARIABLES
  audience,     \* whose account it is, and so which handler it uses
  account,      \* "none" before the sign-up, then is_active
  rows,         \* refresh_tokens, by the second of issue
  now,          \* the clock, in seconds
  who,          \* the device each request comes from, or Nobody
  since,        \* the second in which its handler found the account or the row
  refresh,      \* the refresh token of each device, or None
  access,       \* its access token, or None
  out,          \* ghost: when each device signed out, if it is signed out
  shared,       \* ghost: seconds whose token was handed out a second time
  unstored,     \* ghost: devices whose token or sign-out the database did not take
  closed        \* ghost: when the account was closed, or None

accountVars   == <<audience, account, now>>
requestVars   == <<at, who, since>>
clientVars    == <<refresh, access>>
sessionGhosts == <<out, shared, unstored, closed>>
vars          == <<accountVars, rows, requestVars, clientVars, sessionGhosts, faults>>

Seconds   == 0..MaxNow
None      == MaxNow + 1
Nobody    == "nobody"
Places    == {"idle", "issue", "renew", "mint"}

(* The handlers of shoppers and operators do the same from Login on. *)
Audiences == {"staff", "other"}

TypeOK ==
  /\ audience \in Audiences
  /\ account  \in {"none", "active", "inactive"}
  /\ rows     \in [Seconds -> {"none", "live", "revoked"}]
  /\ now      \in Seconds
  /\ at       \in [Requests -> Places]
  /\ who      \in [Requests -> Devices \cup {Nobody}]
  /\ since    \in [Requests -> Seconds]
  /\ refresh  \in [Devices -> Seconds \cup {None}]
  /\ access   \in [Devices -> Seconds \cup {None}]
  /\ out      \in [Devices -> Seconds \cup {None}]
  /\ shared   \in SUBSET Seconds
  /\ unstored \in SUBSET Devices
  /\ closed   \in Seconds \cup {None}
  /\ faults   \in 0..MaxFaults

Init ==
  /\ audience \in Audiences
  /\ account \in IF audience = "staff" THEN {"none"} ELSE {"none", "active"}
  /\ rows    = [t \in Seconds |-> "none"]
  /\ now     = 0
  /\ at      = [r \in Requests |-> "idle"]
  /\ who     = [r \in Requests |-> Nobody]
  /\ since   = [r \in Requests |-> 0]
  /\ refresh = [d \in Devices |-> None]
  /\ access  = [d \in Devices |-> None]
  /\ out     = [d \in Devices |-> None]
  /\ shared = {} /\ unstored = {}
  /\ closed  = None
  /\ faults  = 0

Put(f, x, v) == [f EXCEPT ![x] = v]
D(r)         == who[r]

(* A handler reads for device d, and goes on at p; it goes on; it ends. *)
Take(r, d, p) == at' = Put(at, r, p) /\ who' = Put(who, r, d) /\ since' = Put(since, r, now)
Move(r, p)    == Goto(r, p) /\ UNCHANGED <<who, since>>
Leave(r)      == at' = Put(at, r, "idle") /\ who' = Put(who, r, Nobody) /\ since' = Put(since, r, 0)

----------------------------------------------------------------------------
(* The account's row.  Operators have theirs from the start. *)
Signup(r, d) ==
  /\ at[r] = "idle"
  /\ account = "none"
  /\ account' = "active"
  /\ Take(r, d, "issue")
  /\ UNCHANGED <<audience, rows, now, clientVars, sessionGhosts, faults>>

(* Login reads the row and compares the password. *)
Login(r, d) ==
  /\ at[r] = "idle"
  /\ account = "active"
  /\ Take(r, d, "issue")
  /\ UNCHANGED <<accountVars, rows, clientVars, sessionGhosts, faults>>

(* The device gets both tokens of second t; what it had signed out of is over. *)
Hand(d, t) ==
  /\ refresh' = Put(refresh, d, t)
  /\ access'  = Put(access, d, t)
  /\ out'     = Put(out, d, None)
  /\ shared'  = shared \cup
       ({t} \cap ({refresh[e] : e \in Devices} \cup {x \in Seconds : rows[x] = "revoked"}))

(* The tokens, of the second they were made in, and the row of the refresh *)
(* token, some time later.                                                 *)
IssueTokens(r) ==
  /\ at[r] = "issue"
  /\ \E t \in since[r]..now :
       /\ rows[t] = "none"
       /\ rows' = Put(rows, t, "live")
       /\ Hand(D(r), t)
  /\ unstored' = unstored \ {D(r)}
  /\ Leave(r)
  /\ UNCHANGED <<accountVars, closed, faults>>

(* The row is stored, but the answer does not reach the device. *)
IssueUnheard(r) ==
  /\ Fault
  /\ at[r] = "issue"
  /\ \E t \in since[r]..now : rows[t] = "none" /\ rows' = Put(rows, t, "live")
  /\ Leave(r)
  /\ UNCHANGED <<accountVars, clientVars, sessionGhosts>>

(* The row cannot be inserted, because it is there (token_hash is UNIQUE)  *)
(* or because the call fails: staff get their tokens all the same, others  *)
(* an error.                                                               *)
IssueRefused(r) ==
  /\ at[r] = "issue"
  /\ \E t \in since[r]..now :
       /\ \/ rows[t] # "none" /\ UNCHANGED faults
          \/ Fault
       /\ IF audience = "staff"
          THEN /\ Hand(D(r), t)
               /\ unstored' = IF rows[t] = "none" THEN unstored \cup {D(r)} ELSE unstored \ {D(r)}
          ELSE UNCHANGED <<clientVars, out, shared, unstored>>
  /\ Leave(r)
  /\ UNCHANGED <<accountVars, rows, closed>>

(* Seeded fault: the signature alone is checked. *)
AnyRow(t) == TRUE

(* The row Refresh looks for. *)
Stored(t) == rows[t] = "live"

(* Refresh: the token's own expiry, then its row. *)
CheckRefresh(r, d) ==
  /\ at[r] = "idle"
  /\ refresh[d] # None
  /\ now < refresh[d] + RefreshTTL
  /\ Stored(refresh[d])
  /\ Take(r, d, "renew")
  /\ UNCHANGED <<accountVars, rows, clientVars, sessionGhosts, faults>>

(* Seeded fault: nobody's Refresh reads is_active. *)
AlwaysRenewable == TRUE

(* Refresh of staff does not read is_active. *)
Renewable == audience = "staff" \/ account = "active"

(* Refresh: the account's row. *)
ReadAccount(r) ==
  /\ at[r] = "renew"
  /\ Renewable
  /\ Move(r, "mint")
  /\ UNCHANGED <<accountVars, rows, clientVars, sessionGhosts, faults>>

(* Refresh: a new access token, whatever became of the row and the account. *)
Mint(r) ==
  /\ at[r] = "mint"
  /\ access' = Put(access, D(r), now)
  /\ Leave(r)
  /\ UNCHANGED <<accountVars, rows, refresh, sessionGhosts, faults>>

Revoke(ts) == [t \in Seconds |-> IF t \in ts /\ rows[t] = "live" THEN "revoked" ELSE rows[t]]

(* Seeded fault: the rows of the account instead of the row of the token. *)
SignedOutRowsOfAccount(t) == Revoke(Seconds)

SignedOutRows(t) == Revoke({t})

(* Logout: one UPDATE, whose error is ignored. *)
Logout(d) ==
  /\ refresh[d] # None
  /\ \/ /\ rows' = SignedOutRows(refresh[d])
        /\ UNCHANGED <<unstored, faults>>
     \/ /\ Fault
        /\ unstored' = unstored \cup {d}
        /\ UNCHANGED rows
  /\ out' = Put(out, d, now)
  /\ UNCHANGED <<accountVars, requestVars, clientVars, shared, closed>>

(* A request that is refused, fails, or runs out of time. *)
RequestEnds(r) ==
  /\ at[r] # "idle"
  /\ Leave(r)
  /\ UNCHANGED <<accountVars, rows, clientVars, sessionGhosts, faults>>

(* Nothing in the code clears is_active; an operator does, in the database. *)
CloseAccount ==
  /\ account = "active"
  /\ account' = "inactive"
  /\ closed' = now
  /\ UNCHANGED <<audience, rows, now, requestVars, clientVars, out, shared, unstored, faults>>

(* The router's Timeout has cancelled the queries of a request by then, and *)
(* the server's WriteTimeout its answer: nothing comes of it any more.     *)
Expires(r) == at[r] # "idle" /\ now >= since[r] + RequestTime

Tick ==
  /\ now < MaxNow
  /\ \A r \in Requests : ~ Expires(r)
  /\ now' = now + 1
  /\ UNCHANGED <<audience, account, rows, requestVars, clientVars, sessionGhosts, faults>>

Handle(r) ==
  \/ \E d \in Devices : Signup(r, d) \/ Login(r, d) \/ CheckRefresh(r, d)
  \/ IssueTokens(r)
  \/ IssueUnheard(r)
  \/ IssueRefused(r)
  \/ ReadAccount(r)
  \/ Mint(r)
  \/ RequestEnds(r)

Next ==
  \/ \E r \in Requests : Handle(r)
  \/ \E d \in Devices : Logout(d)
  \/ CloseAccount
  \/ Tick

Spec == Init /\ [][Next]_vars

----------------------------------------------------------------------------
(* The middleware: signature and expiry, no row. *)
Admitted(d) == access[d] # None /\ now < access[d] + AccessTTL

(* A device that signed out is admitted for no longer than the life of an  *)
(* access token and the time of one request: a refresh that had found the  *)
(* row live before the sign-out may still be answered, none that comes     *)
(* later is.  The exception is a sign-out, or a refresh token, that the    *)
(* database did not take.  (Logout, Refresh, of the three handlers.)       *)
SignOutHolds ==
  \A d \in Devices :
    out[d] # None /\ d \notin unstored /\ Admitted(d) => now < out[d] + RequestTime + AccessTTL

(* The longest that what was allowed at a second can last: a request, then *)
(* an access token; for staff, whose Refresh does not ask whether the      *)
(* account is active, a refresh token and another request between them.    *)
Afterlife ==
  IF audience = "staff" THEN RequestTime + RefreshTTL + RequestTime + AccessTTL
                        ELSE RequestTime + AccessTTL

(* No device of a closed account is admitted after that, whatever sign-ins *)
(* and refreshes were on their way as it was closed.  (Login and Refresh   *)
(* of the three handlers.)                                                 *)
ClosingHolds ==
  \A d \in Devices : closed # None /\ Admitted(d) => now < closed + Afterlife

(* A device that has not signed out can go on renewing until its refresh   *)
(* token expires: no sign-out, of another device or an earlier one of its  *)
(* own, ends its session, unless two sign-ins of one second got the same   *)
(* token, or the row could not be stored.  Every variable keeps its type.  *)
(* (IssueTokens of the three handlers, Logout.)                            *)
SessionSurvives ==
  TypeOK /\ \A d \in Devices :
    refresh[d] # None /\ out[d] = None =>
      Stored(refresh[d]) \/ refresh[d] \in shared \/ d \in unstored
=============================================================================
