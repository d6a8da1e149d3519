----------------------------- MODULE RateLimiter -----------------------------
(***************************************************************************)
(* The fixed-window limiter in front of every request (middleware/         *)
(* ratelimit.go), for one key: a Redis counter that INCR creates without a *)
(* TTL, and an EXPIRE by the request that was told one.  The Redis client, *)
(* with its default options, sends a command again when no reply came,     *)
(* whether or not Redis had applied it.                                    *)
(*                                                                         *)
(* The code compares the counter with one and with the limit only, so it   *)
(* stops at Limit + 1 here.                                                *)
(***************************************************************************)
EXTENDS Naturals

CONSTANTS
  Arrivals,     \* requests under the key that are in the limiter at a time
  Limit,        \* requests a window admits
  MaxMissed     \* bound: calls whose reply does not come

ASSUME LimiterAssumption == Limit \in Nat \ {0} /\ MaxMissed \in Nat

VARIABLES
  asks,         \* what each request in the limiter asks Redis for next
  count,        \* the counter; 0 when the key is not there
  ttl,          \* the key has a time to live
  passed,       \* ghost: requests this key let pass
  timeless,     \* ghost: the request to give the key its time to live could not
  missed        \* calls whose reply did not come

limiterVars == <<asks, count, ttl, passed, timeless, missed>>

LimiterTypeOK ==
  /\ asks     \in [Arrivals -> {"idle", "retry", "expire"}]
  /\ count    \in 0..Limit + 1
  /\ ttl      \in BOOLEAN
  /\ passed   \in Nat
  /\ timeless \in BOOLEAN
  /\ missed   \in 0..MaxMissed

LimiterInit ==
  /\ asks = [r \in Arrivals |-> "idle"]
  /\ count = 0 /\ ttl = FALSE
  /\ passed = 0 /\ timeless = FALSE
  /\ missed = 0

----------------------------------------------------------------------------
Asks(r, p) == asks' = [asks EXCEPT ![r] = p]
Misses     == missed < MaxMissed /\ missed' = missed + 1

(* What INCR replies. *)
Incremented(n) == IF n > Limit THEN n ELSE n + 1

(* The request that has to set the time to live. *)
FirstOfWindow(n) == n = 1

(* Seeded fault: a request too many. *)
RefusesLate(n) == n > Limit + 1

Refuses(n) == n > Limit

(* INCR, sent or sent again, by a request that is not told one. *)
CountRequest(r) ==
  /\ asks[r] \in {"idle", "retry"}
  /\ count' = Incremented(count)
  /\ ~ FirstOfWindow(count')
  /\ passed' = IF Refuses(count') THEN passed ELSE passed + 1
  /\ Asks(r, "idle")
  /\ UNCHANGED <<ttl, timeless, missed>>

(* INCR by one that is. *)
OpenWindow(r) ==
  /\ asks[r] \in {"idle", "retry"}
  /\ count' = Incremented(count)
  /\ FirstOfWindow(count')
  /\ passed' = passed + 1
  /\ Asks(r, "expire")
  /\ UNCHANGED <<ttl, timeless, missed>>

(* No reply, with INCR applied or not: the client sends it again, or the   *)
(* limiter lets the request pass, whatever the counter is.                 *)
IncrFails(r) ==
  /\ Misses
  /\ asks[r] \in {"idle", "retry"}
  /\ \/ count' = Incremented(count) /\ timeless' = (timeless \/ FirstOfWindow(count'))
     \/ UNCHANGED <<count, timeless>>
  /\ Asks(r, "retry") \/ Asks(r, "idle")
  /\ UNCHANGED <<ttl, passed>>

(* EXPIRE, of whatever key is there by now. *)
SetTTL(r) ==
  /\ asks[r] = "expire"
  /\ ttl' = (count # 0)
  /\ timeless' = FALSE
  /\ Asks(r, "idle")
  /\ UNCHANGED <<count, passed, missed>>

(* No reply, with EXPIRE applied or not: the client sends it again, or the *)
(* error is returned and the request passes, or its sender is gone.        *)
ExpireFails(r) ==
  /\ Misses
  /\ asks[r] = "expire"
  /\ \/ ttl' = (count # 0) /\ timeless' = FALSE /\ (Asks(r, "expire") \/ Asks(r, "idle"))
     \/ UNCHANGED <<ttl, timeless>> /\ Asks(r, "expire")
     \/ UNCHANGED ttl /\ timeless' = TRUE /\ Asks(r, "idle")
  /\ UNCHANGED <<count, passed>>

(* Redis deletes the key. *)
WindowEnds ==
  /\ ttl
  /\ count' = 0 /\ ttl' = FALSE
  /\ passed' = 0 /\ timeless' = FALSE
  /\ UNCHANGED <<asks, missed>>

Limited(r) == CountRequest(r) \/ OpenWindow(r) \/ SetTTL(r)

LimiterNext ==
  \/ \E r \in Arrivals : Limited(r) \/ IncrFails(r) \/ ExpireFails(r)
  \/ WindowEnds

LimiterSpec == LimiterInit /\ [][LimiterNext]_limiterVars

(* A request in the limiter goes on, and a time to live runs out. *)
LimiterLiveSpec ==
  /\ LimiterSpec
  /\ \A r \in Arrivals : WF_limiterVars(asks[r] # "idle" /\ Limited(r))
  /\ WF_limiterVars(WindowEnds)

----------------------------------------------------------------------------
(* However requests overlap and commands are sent again, a key lets no     *)
(* more requests pass than the limit, but those it could not count; and it *)
(* has a time to live, or a request is about to give it one, unless a call *)
(* of the request that had to did not get its reply.  (RateLimit, incr.)   *)
(* Every variable keeps its type.                                          *)
WindowIsCapped ==
  /\ LimiterTypeOK
  /\ passed <= Limit
  /\ count # 0 => ttl \/ timeless \/ \E r \in Arrivals : asks[r] = "expire"

(* The counter is reset: clients it refuses are not refused for ever.      *)
(* (incr and its comment.)                                                 *)
RefusalEnds == Refuses(count + 1) ~> ~ Refuses(count + 1)
=============================================================================
