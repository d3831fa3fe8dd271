----------------------------- MODULE RateLimiter -----------------------------
(***************************************************************************)
(* The limiter in front of the two endpoints that need no token: GET       *)
(* /share/{token} and POST /auth/login (repositories/rate_limit.py).  It   *)
(* counts in the table rate_limit_entries, one row per scope, client       *)
(* address and fixed window.  The count is an upsert in the transaction of *)
(* the call, so the row stays locked until the call commits, and a call    *)
(* that is rolled back has not been counted.                               *)
(***************************************************************************)
EXTENDS Integers

CONSTANTS
  Callers,                   \* calls that may be in flight together
  Addresses,                 \* client addresses
  Scopes,                    \* the endpoints that are called
  ShareLimit, LoginLimit,    \* rate_limit.share.max_requests, .login.max_attempts
  ShareWindow, LoginWindow,  \* window_seconds of the two rules
  Nobody,                    \* a free row, an idle caller
  MaxTime,                   \* bound: the clock stops here
  MaxRefused                 \* bound: calls of one row beyond its limit

ASSUME LimiterAssumption ==
  /\ Scopes \subseteq {"share", "login"}
  /\ ShareLimit \in Nat \ {0} /\ LoginLimit \in Nat \ {0}
  /\ ShareWindow \in Nat \ {0} /\ LoginWindow \in Nat \ {0}
  /\ MaxTime \in Nat /\ MaxRefused \in Nat \ {0}
  /\ Nobody \notin Callers

VARIABLES
  now,         \* the clock, in seconds
  entries,     \* rate_limit_entries.count as committed, 0 where there is no row
  rowHolder,   \* the call whose transaction has upserted the row
  cpc,         \* where a call is
  crow,        \* the row it counts in
  served       \* history: calls counted in a row that were let through

limiterVars == <<now, entries, rowHolder>>

\* The primary key: key and window_start.
Rows == Scopes \X Addresses \X (0..MaxTime)

Limit(scope) == IF scope = "share" THEN ShareLimit ELSE LoginLimit

WindowSeconds(scope) == IF scope = "share" THEN ShareWindow ELSE LoginWindow

\* Mutant: the window is named by its end.
window_start_RoundsUp(scope) ==
  (now \div WindowSeconds(scope) + 1) * WindowSeconds(scope)

window_start(scope) == (now \div WindowSeconds(scope)) * WindowSeconds(scope)

\* Past the awaits of check_and_increment: the row of the call is locked.
CallStates == {"idle", "limit", "counted", "valid", "missing", "found", "recorded"}
Counted == {"counted", "valid", "missing", "found", "recorded"}

LimiterTypeOK ==
  /\ now       \in 0..MaxTime
  /\ entries   \in [Rows -> Nat]
  /\ rowHolder \in [Rows -> Callers \cup {Nobody}]
  /\ cpc       \in [Callers -> CallStates]
  /\ crow      \in [Callers -> Rows \cup {Nobody}]
  /\ served    \in [Rows -> Nat]
  /\ \A r \in Callers : cpc[r] # "idle" => crow[r] \in Rows /\ crow[r][3] <= now

LimiterInit ==
  /\ now       = 0
  /\ entries   = [w \in Rows |-> 0]
  /\ rowHolder = [w \in Rows |-> Nobody]
  /\ cpc       = [r \in Callers |-> "idle"]
  /\ crow      = [r \in Callers |-> Nobody]
  /\ served    = [w \in Rows |-> 0]

----------------------------------------------------------------------------

\* Time passes.
Tick ==
  /\ now < MaxTime
  /\ now' = now + 1
  /\ UNCHANGED <<entries, rowHolder, cpc, crow, served>>

\* A call arrives and computes its key and window.
Call(r, scope, address) ==
  LET row == <<scope, address, window_start(scope)>> IN
  /\ scope \in Scopes /\ cpc[r] = "idle"
  /\ entries[row] < Limit(scope) + MaxRefused
  /\ cpc'  = [cpc  EXCEPT ![r] = "limit"]
  /\ crow' = [crow EXCEPT ![r] = row]
  /\ UNCHANGED <<limiterVars, served>>

\* Move on inside the call.
Step(r, state) ==
  /\ cpc' = [cpc EXCEPT ![r] = state]
  /\ UNCHANGED <<limiterVars, crow, served>>

\* The upsert: it waits for whoever has the row and returns the count under
\* the lock.
CheckAndIncrement(r) ==
  /\ cpc[r] = "limit" /\ rowHolder[crow[r]] = Nobody
  /\ rowHolder' = [rowHolder EXCEPT ![crow[r]] = r]
  /\ cpc' = [cpc EXCEPT ![r] = "counted"]
  /\ UNCHANGED <<now, entries, crow, served>>

\* count > limit, for the count this call has just written.
Exceeded(r) == entries[crow[r]] + 1 > Limit(crow[r][1])

\* The transaction of the call commits and the response is sent.
Commit(r) ==
  /\ entries'   = [entries   EXCEPT ![crow[r]] = @ + 1]
  /\ rowHolder' = [rowHolder EXCEPT ![crow[r]] = Nobody]
  /\ cpc'  = [cpc  EXCEPT ![r] = "idle"]
  /\ crow' = [crow EXCEPT ![r] = Nobody]
  /\ UNCHANGED now

\* The same, for a call that was let through.
Serve(r) ==
  /\ Commit(r)
  /\ served' = [served EXCEPT ![crow[r]] = @ + 1]

\* The session is closed without a commit: nothing was counted.
Rollback(r) ==
  /\ rowHolder' = [w \in Rows |-> IF rowHolder[w] = r THEN Nobody ELSE rowHolder[w]]
  /\ cpc'  = [cpc  EXCEPT ![r] = "idle"]
  /\ crow' = [crow EXCEPT ![r] = Nobody]
  /\ UNCHANGED <<now, entries, served>>

\* Mutant: the response is sent and the session is left open.
TooMany_KeepsRow(r) ==
  /\ cpc[r] = "counted" /\ Exceeded(r)
  /\ entries' = [entries EXCEPT ![crow[r]] = @ + 1]
  /\ cpc'  = [cpc  EXCEPT ![r] = "idle"]
  /\ crow' = [crow EXCEPT ![r] = Nobody]
  /\ UNCHANGED <<now, rowHolder, served>>

\* RateLimitExceeded: committed, 429.
TooMany(r) ==
  /\ cpc[r] = "counted" /\ Exceeded(r)
  /\ Commit(r)
  /\ UNCHANGED served

\* POST /auth/login: 200 and 401 both commit.
Login(r) ==
  /\ cpc[r] = "counted" /\ crow[r][1] = "login" /\ ~Exceeded(r)
  /\ Serve(r)

=============================================================================
