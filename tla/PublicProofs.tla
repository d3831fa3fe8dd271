---------------------------- MODULE PublicProofs ----------------------------
(***************************************************************************)
(* PublicSafety is inductive, for every number of calls, addresses, links  *)
(* and configs and for all limits and windows.  The limiter is proved      *)
(* first, over its own variables: what a call does behind it is for it one *)
(* Step, Serve, TooMany or Rollback.                                       *)
(***************************************************************************)
EXTENDS PublicApi, TLAPS

USE LimiterAssumption, ShareAssumption

\* The part of PublicSafety that the limiter answers for.
LimiterSafety ==
  LimiterTypeOK /\ ServedExactly /\ RowHeldByCall /\ LetThrough

\* A window begins at or before the instant that falls into it.
LEMMA WindowBegins ==
  ASSUME NEW n \in Nat, NEW w \in Nat \ {0}
  PROVE  (n \div w) * w \in 0..n
<1>1. n \div w \in Int
  OBVIOUS
<1>2. n % w \in 0..(w - 1)
  OBVIOUS
<1>3. n = w * (n \div w) + (n % w)
  OBVIOUS
<1>4. n \div w >= 0
  OBVIOUS
<1>5. w * (n \div w) = (n \div w) * w
  BY <1>1
<1>6. (n \div w) * w \in Int /\ (n \div w) * w >= 0
  BY <1>1, <1>4
<1> QED
  BY <1>2, <1>3, <1>5, <1>6

\* No row, no call: the limiter starts safe.
LEMMA LimiterStarts == LimiterInit => LimiterSafety
BY DEF LimiterInit, LimiterSafety, LimiterTypeOK, ServedExactly, RowHeldByCall, LetThrough,
   CallStates, Counted, Limit

\* Limits are counts, and a row of a call is a row.
LEMMA LimitsArePositive ==
  ASSUME LimiterTypeOK, NEW w \in Rows
  PROVE  Limit(w[1]) \in Nat \ {0} /\ entries[w] \in Nat /\ served[w] \in Nat
BY DEF LimiterTypeOK, Limit

\* The clock moves on.
LEMMA TickSafe == LimiterSafety /\ Tick => LimiterSafety'
BY DEF Tick, LimiterSafety, LimiterTypeOK, ServedExactly, RowHeldByCall, LetThrough, Exceeded, Rows

\* A call arrives: it holds nothing and has not been let through.
LEMMA CallSafe ==
  ASSUME LimiterSafety, NEW r \in Callers, NEW scope, NEW address \in Addresses,
         Call(r, scope, address)
  PROVE  LimiterSafety'
<1> DEFINE row == <<scope, address, window_start(scope)>>
<1>1. row \in Rows /\ row[3] <= now
  <2>1. scope \in Scopes /\ WindowSeconds(scope) \in Nat \ {0} /\ now \in 0..MaxTime
    BY DEF Call, WindowSeconds, LimiterSafety, LimiterTypeOK
  <2>2. window_start(scope) \in 0..now
    BY <2>1, WindowBegins DEF window_start
  <2> QED
    BY <2>1, <2>2 DEF Rows
<1>2. /\ cpc' = [cpc EXCEPT ![r] = "limit"] /\ crow' = [crow EXCEPT ![r] = row]
      /\ cpc[r] = "idle" /\ UNCHANGED <<now, entries, rowHolder, served>>
  BY DEF Call, limiterVars
<1> HIDE DEF row
<1>3. LimiterTypeOK'
  BY <1>1, <1>2 DEF LimiterSafety, LimiterTypeOK, CallStates
<1>4. RowHeldByCall' /\ LetThrough'
  BY <1>2 DEF LimiterSafety, LimiterTypeOK, RowHeldByCall, LetThrough, Counted, Exceeded
<1>5. ServedExactly'
  BY <1>2 DEF LimiterSafety, ServedExactly
<1> QED
  BY <1>3, <1>4, <1>5 DEF LimiterSafety

\* The row is free, so no other call is between its count and its commit.
LEMMA CountSafe ==
  ASSUME LimiterSafety, NEW r \in Callers, CheckAndIncrement(r)
  PROVE  LimiterSafety'
<1>1. crow[r] \in Rows /\ rowHolder[crow[r]] = Nobody
  BY DEF CheckAndIncrement, LimiterSafety, LimiterTypeOK
<1>2. LimiterTypeOK' /\ ServedExactly'
  BY <1>1 DEF CheckAndIncrement, LimiterSafety, LimiterTypeOK, ServedExactly, CallStates
<1>3. RowHeldByCall'
  BY <1>1 DEF CheckAndIncrement, LimiterSafety, LimiterTypeOK, RowHeldByCall, Counted
<1>4. LetThrough'
  BY DEF CheckAndIncrement, LimiterSafety, LimiterTypeOK, LetThrough, Counted, Exceeded
<1> QED
  BY <1>2, <1>3, <1>4 DEF LimiterSafety

\* A call that has its row moves on without giving it back.
LEMMA StepSafe ==
  ASSUME LimiterSafety, NEW r \in Callers, NEW state \in Counted \ {"counted"}, Step(r, state),
         cpc[r] \in Counted, ~Exceeded(r)
  PROVE  LimiterSafety'
<1>1. cpc' = [cpc EXCEPT ![r] = state] /\ UNCHANGED <<now, entries, rowHolder, crow, served>>
  BY DEF Step, limiterVars
<1>2. LimiterTypeOK' /\ ServedExactly'
  BY <1>1 DEF LimiterSafety, LimiterTypeOK, ServedExactly, CallStates, Counted
<1>3. RowHeldByCall' /\ LetThrough'
  BY <1>1 DEF LimiterSafety, LimiterTypeOK, RowHeldByCall, LetThrough, Exceeded, Counted
<1> QED
  BY <1>2, <1>3 DEF LimiterSafety

\* A commit raises the count of one row, and only the call that commits is
\* counted in it.
LEMMA CommitSafe ==
  ASSUME LimiterSafety, NEW r \in Callers, cpc[r] \in Counted, Commit(r)
  PROVE  /\ RowHeldByCall' /\ LetThrough'
         /\ crow[r] \in Rows
         /\ served' \in [Rows -> Nat] => LimiterTypeOK'
<1>1. crow[r] \in Rows /\ rowHolder[crow[r]] = r
  BY DEF LimiterSafety, LimiterTypeOK, RowHeldByCall, Counted
<1>2. ASSUME served' \in [Rows -> Nat] PROVE LimiterTypeOK'
  <2>1. /\ now' \in 0..MaxTime /\ entries' \in [Rows -> Nat]
        /\ rowHolder' \in [Rows -> Callers \cup {Nobody}]
    BY <1>1 DEF Commit, LimiterSafety, LimiterTypeOK
  <2>2. cpc' \in [Callers -> CallStates] /\ crow' \in [Callers -> Rows \cup {Nobody}]
    BY DEF Commit, LimiterSafety, LimiterTypeOK, CallStates
  <2>3. \A q \in Callers : cpc'[q] # "idle" => crow'[q] \in Rows /\ crow'[q][3] <= now'
    BY DEF Commit, LimiterSafety, LimiterTypeOK
  <2> QED
    BY <1>2, <2>1, <2>2, <2>3 DEF LimiterTypeOK, Rows
<1>3. RowHeldByCall'
  BY <1>1 DEF Commit, LimiterSafety, LimiterTypeOK, RowHeldByCall, Counted
<1>4. ASSUME NEW q \in Callers, cpc'[q] \in Counted \ {"counted"}
      PROVE  ~Exceeded(q)'
  <2>1. q # r /\ cpc[q] \in Counted \ {"counted"} /\ crow'[q] = crow[q]
    BY <1>4 DEF Commit, LimiterSafety, LimiterTypeOK, Counted
  <2>2. crow[q] \in Rows /\ rowHolder[crow[q]] = q
    BY <2>1 DEF LimiterSafety, LimiterTypeOK, RowHeldByCall, Counted
  <2>3. entries'[crow[q]] = entries[crow[q]]
    BY <1>1, <2>1, <2>2 DEF Commit, LimiterSafety, LimiterTypeOK
  <2> QED
    BY <2>1, <2>3 DEF LimiterSafety, LetThrough, Exceeded
<1> QED
  BY <1>1, <1>2, <1>3, <1>4 DEF LetThrough

\* A call below the limit is served: it is one of the first.
LEMMA ServeSafe ==
  ASSUME LimiterSafety, NEW r \in Callers, cpc[r] \in Counted, ~Exceeded(r), Serve(r)
  PROVE  LimiterSafety'
<1>1. Commit(r) /\ served' = [served EXCEPT ![crow[r]] = @ + 1]
  BY DEF Serve
<1>2. RowHeldByCall' /\ LetThrough' /\ crow[r] \in Rows
  BY <1>1, CommitSafe
<1>3. LimiterTypeOK'
  BY <1>1, <1>2, CommitSafe DEF LimiterSafety, LimiterTypeOK
<1>4. ServedExactly'
  <2> SUFFICES ASSUME NEW w \in Rows
               PROVE  served'[w] = IF entries'[w] <= Limit(w[1]) THEN entries'[w] ELSE Limit(w[1])
    BY DEF ServedExactly
  <2>1. Limit(w[1]) \in Nat \ {0} /\ entries[w] \in Nat /\ served[w] \in Nat
    BY LimitsArePositive DEF LimiterSafety
  <2>2. entries' = [entries EXCEPT ![crow[r]] = @ + 1]
    BY <1>1 DEF Commit
  <2>3. CASE w = crow[r]
    BY <1>1, <1>2, <2>1, <2>2, <2>3 DEF LimiterSafety, LimiterTypeOK, ServedExactly, Exceeded
  <2>4. CASE w # crow[r]
    BY <1>1, <1>2, <2>2, <2>4 DEF LimiterSafety, LimiterTypeOK, ServedExactly
  <2> QED
    BY <2>3, <2>4
<1> QED
  BY <1>2, <1>3, <1>4 DEF LimiterSafety

\* A call beyond the limit is counted and turned away.
LEMMA TooManySafe ==
  ASSUME LimiterSafety, NEW r \in Callers, TooMany(r)
  PROVE  LimiterSafety'
<1>1. Commit(r) /\ served' = served /\ cpc[r] \in Counted /\ Exceeded(r)
  BY DEF TooMany, Counted
<1>2. RowHeldByCall' /\ LetThrough' /\ crow[r] \in Rows
  BY <1>1, CommitSafe
<1>3. LimiterTypeOK'
  BY <1>1, CommitSafe DEF LimiterSafety, LimiterTypeOK
<1>4. ServedExactly'
  <2> SUFFICES ASSUME NEW w \in Rows
               PROVE  served'[w] = IF entries'[w] <= Limit(w[1]) THEN entries'[w] ELSE Limit(w[1])
    BY DEF ServedExactly
  <2>1. Limit(w[1]) \in Nat \ {0} /\ entries[w] \in Nat /\ served[w] \in Nat
    BY LimitsArePositive DEF LimiterSafety
  <2>2. entries' = [entries EXCEPT ![crow[r]] = @ + 1]
    BY <1>1 DEF Commit
  <2>3. CASE w = crow[r]
    BY <1>1, <1>2, <2>1, <2>2, <2>3 DEF LimiterSafety, LimiterTypeOK, ServedExactly, Exceeded
  <2>4. CASE w # crow[r]
    BY <1>1, <1>2, <2>2, <2>4 DEF LimiterSafety, LimiterTypeOK, ServedExactly
  <2> QED
    BY <2>3, <2>4
<1> QED
  BY <1>2, <1>3, <1>4 DEF LimiterSafety

\* A call that fails leaves the counts as they were.
LEMMA RollbackSafe ==
  ASSUME LimiterSafety, NEW r \in Callers, cpc[r] # "idle", Rollback(r)
  PROVE  LimiterSafety'
<1>1. LimiterTypeOK' /\ ServedExactly'
  BY DEF Rollback, LimiterSafety, LimiterTypeOK, ServedExactly, CallStates
<1>2. RowHeldByCall'
  BY DEF Rollback, LimiterSafety, LimiterTypeOK, RowHeldByCall, Counted
<1>3. LetThrough'
  BY DEF Rollback, LimiterSafety, LimiterTypeOK, LetThrough, Exceeded, Counted
<1> QED
  BY <1>1, <1>2, <1>3 DEF LimiterSafety

----------------------------------------------------------------------------
(* Links and calls                                                          *)

\* What the rows of the links and configs promise.
DataSafety ==
  WithdrawnAreRevoked /\ HeadsExist /\ PinnedVersionExists /\ ExpiryMatches /\ AccessCounted

\* What the calls under way rely on.
CallSafety == TokensPresented /\ DeadStays /\ RevokedNeverAnswers

\* The list agrees with the resolver because a link that is not permanent has
\* an expiry: the two treat a NULL differently.
LEMMA ListAgrees == LimiterTypeOK /\ ShareTypeOK /\ ExpiryMatches => ListMatchesResolve
BY DEF LimiterTypeOK, ShareTypeOK, ExpiryMatches, ListMatchesResolve, Listed, Resolvable, Expired

\* PublicSafety by its parts.
LEMMA SafetyParts ==
  PublicSafety <=> LimiterSafety /\ ShareTypeOK /\ DataSafety /\ CallSafety
BY ListAgrees DEF PublicSafety, PublicTypeOK, LimiterSafety, DataSafety, CallSafety

\* The same, for the state after a step.
LEMMA SafetyPartsNext ==
  LimiterSafety' /\ ShareTypeOK' /\ DataSafety' /\ CallSafety' => PublicSafety'
BY SafetyParts, PTL

\* Empty tables, idle callers.
LEMMA PublicStarts == Init => PublicSafety
<1> SUFFICES ASSUME Init PROVE PublicSafety
  OBVIOUS
<1>1. LimiterSafety
  BY LimiterStarts DEF Init
<1>2. ShareTypeOK
  BY DEF Init, ShareInit, LogInit, LimiterInit, ShareTypeOK, LimiterAssumption
<1>3. DataSafety
  BY DEF Init, ShareInit, LogInit, DataSafety, WithdrawnAreRevoked, HeadsExist,
     PinnedVersionExists, ExpiryMatches, AccessCounted
<1>4. CallSafety
  BY DEF Init, ShareInit, LimiterInit, CallSafety, TokensPresented, DeadStays,
     RevokedNeverAnswers, Counted
<1> QED
  BY <1>1, <1>2, <1>3, <1>4, SafetyParts

\* No call but one that is answered writes a table the links depend on.
LEMMA DataUntouched ==
  ASSUME ShareTypeOK, DataSafety, UNCHANGED <<linkVars, configVars, historyVars>>
  PROVE  DataSafety'
BY DEF ShareTypeOK, DataSafety, WithdrawnAreRevoked, HeadsExist, PinnedVersionExists,
   ExpiryMatches, AccessCounted, linkVars, configVars, historyVars

\* A step of one call that leaves the links alone: whoever presents a token
\* keeps it, and only a token that resolves gets a call as far as "valid".
LEMMA CallMoves ==
  ASSUME ShareTypeOK, CallSafety, NEW r \in Callers, NEW state \in CallStates,
         cpc \in [Callers -> CallStates],
         cpc' = [cpc EXCEPT ![r] = state], UNCHANGED <<crow, ctoken, cdead>>,
         UNCHANGED <<now, linkVars>>, cpc[r] # "idle",
         state \in Counted \ {"counted"} => ctoken[r] \in Tokens,
         state \in {"valid", "found", "recorded"} => ~cdead[r]
  PROVE  CallSafety'
<1>1. TokensPresented'
  BY DEF CallSafety, TokensPresented, Counted
<1>2. DeadStays'
  BY DEF CallSafety, DeadStays, Expired, linkVars
<1>3. RevokedNeverAnswers'
  BY DEF CallSafety, RevokedNeverAnswers
<1> QED
  BY <1>1, <1>2, <1>3 DEF CallSafety

\* A call that ends forgets what it presented.
LEMMA CallEnds ==
  ASSUME ShareTypeOK, CallSafety, NEW r \in Callers,
         cpc \in [Callers -> CallStates], DOMAIN crow = Callers,
         cpc' = [cpc EXCEPT ![r] = "idle"], crow' = [crow EXCEPT ![r] = Nobody], Forget(r),
         UNCHANGED <<now, tstate, tpermanent, texpires, trevoked>>
  PROVE  CallSafety'
<1>1. TokensPresented'
  BY DEF ShareTypeOK, CallSafety, TokensPresented, Counted, Forget
<1>2. DeadStays'
  BY DEF ShareTypeOK, CallSafety, DeadStays, Expired, Forget
<1>3. RevokedNeverAnswers'
  BY DEF ShareTypeOK, CallSafety, RevokedNeverAnswers, Forget
<1> QED
  BY <1>1, <1>2, <1>3 DEF CallSafety

\* The memory of the callers keeps its types when the tables are left alone.
LEMMA ForgetTypes ==
  ASSUME ShareTypeOK, NEW r \in Callers, Forget(r), UNCHANGED <<linkVars, configVars, historyVars>>
  PROVE  ShareTypeOK'
BY DEF ShareTypeOK, Forget, linkVars, configVars, historyVars

\* A call arrives, with a token or with a password.
LEMMA ArrivalSafe ==
  ASSUME PublicSafety, NEW r \in Callers, CallComes(r)
  PROVE  PublicSafety'
<1>0. LimiterSafety /\ ShareTypeOK /\ DataSafety /\ CallSafety
  BY SafetyParts
<1>1. UNCHANGED <<now, linkVars, configVars, historyVars>>
  BY DEF CallComes, Resolve, Call, limiterVars
<1>2. PICK address \in Addresses :
        \/ \E t \in Tokens : Resolve(r, address, t)
        \/ Call(r, "login", address) /\ UNCHANGED shareCallVars
  BY DEF CallComes
<1>3. LimiterSafety'
  BY <1>0, <1>2, CallSafe DEF Resolve
<1>4. DataSafety'
  BY <1>0, <1>1, DataUntouched
<1>5. CASE Call(r, "login", address) /\ UNCHANGED shareCallVars
  <2>1. /\ cpc' = [cpc EXCEPT ![r] = "limit"]
        /\ crow' = [crow EXCEPT ![r] = <<"login", address, window_start("login")>>]
        /\ UNCHANGED <<ctoken, cloaded, cdead>>
    BY <1>5 DEF Call, shareCallVars
  <2>2. ShareTypeOK'
    BY <1>0, <1>1, <2>1 DEF ShareTypeOK, linkVars, configVars, historyVars
  <2>3. TokensPresented' /\ RevokedNeverAnswers'
    BY <1>0, <2>1 DEF CallSafety, TokensPresented, RevokedNeverAnswers, Counted, LimiterSafety, LimiterTypeOK
  <2>4. DeadStays'
    BY <1>0, <1>1, <2>1 DEF CallSafety, DeadStays, Expired, linkVars
  <2> QED
    BY <1>3, <1>4, <2>2, <2>3, <2>4, SafetyPartsNext DEF CallSafety
<1>6. ASSUME NEW t \in Tokens, Resolve(r, address, t)
      PROVE  PublicSafety'
  <2>1. /\ cpc' = [cpc EXCEPT ![r] = "limit"]
        /\ crow' = [crow EXCEPT ![r] = <<"share", address, window_start("share")>>]
        /\ ctoken' = [ctoken EXCEPT ![r] = t]
        /\ cdead' = [cdead EXCEPT ![r] = t \in withdrawn \/ (tstate[t] = "live" /\ Expired(t))]
        /\ cloaded' = cloaded
    BY <1>6 DEF Call, Resolve
  <2>2. ShareTypeOK'
    BY <1>0, <1>1, <2>1 DEF ShareTypeOK, linkVars, configVars, historyVars
  <2>3. TokensPresented' /\ RevokedNeverAnswers'
    BY <1>0, <2>1 DEF CallSafety, TokensPresented, RevokedNeverAnswers, Counted,
       LimiterSafety, LimiterTypeOK, ShareTypeOK
  <2>4. DeadStays'
    <3> SUFFICES ASSUME NEW q \in Callers, cdead'[q]
                 PROVE  /\ ctoken'[q] \in Tokens /\ tstate[ctoken'[q]] = "live"
                        /\ trevoked[ctoken'[q]] \/ Expired(ctoken'[q])
      BY <1>1 DEF DeadStays, Expired, linkVars
    <3>1. CASE q = r
      <4>1. ctoken'[q] = t /\ (t \in withdrawn \/ (tstate[t] = "live" /\ Expired(t)))
        BY <1>0, <2>1, <3>1 DEF ShareTypeOK
      <4> QED
        BY <1>0, <4>1 DEF DataSafety, WithdrawnAreRevoked
    <3>2. CASE q # r
      BY <1>0, <2>1, <3>2 DEF CallSafety, DeadStays, ShareTypeOK
    <3> QED
      BY <3>1, <3>2
  <2> QED
    BY <1>3, <1>4, <2>2, <2>3, <2>4, SafetyPartsNext DEF CallSafety
<1> QED
  BY <1>2, <1>5, <1>6

\* The checks on the row: a token that was dead as the call came is dead now.
LEMMA LoadSafe ==
  ASSUME ShareTypeOK, CallSafety, NEW r \in Callers, LoadToken(r),
         cpc \in [Callers -> CallStates]
  PROVE  CallSafety'
<1> DEFINE state == IF Resolvable(ctoken[r]) THEN "valid" ELSE "missing"
<1>1. /\ cpc[r] = "counted" /\ cpc' = [cpc EXCEPT ![r] = state]
      /\ UNCHANGED <<now, crow, ctoken, cdead, linkVars>>
  BY DEF LoadToken, Step, limiterVars, shareCallVars
<1>2. ctoken[r] \in Tokens
  BY DEF CallSafety, TokensPresented, LoadToken
<1>3. state = "valid" => ~cdead[r]
  BY DEF CallSafety, DeadStays, Resolvable
<1>4. state \in {"valid", "missing"}
  OBVIOUS
<1> HIDE DEF state
<1> QED
  BY <1>1, <1>2, <1>3, <1>4, CallMoves DEF CallStates

\* One step of a call that has come in.
LEMMA CallStepSafe ==
  ASSUME PublicSafety, NEW r \in Callers, CallStep(r)
  PROVE  PublicSafety'
<1>0. LimiterSafety /\ ShareTypeOK /\ DataSafety /\ CallSafety
  BY SafetyParts
<1>t. cpc \in [Callers -> CallStates] /\ DOMAIN crow = Callers
  BY <1>0 DEF LimiterSafety, LimiterTypeOK
<1>c. cpc[r] \in Counted \ {"counted"} => ctoken[r] \in Tokens /\ ~Exceeded(r)
  BY <1>0 DEF CallSafety, TokensPresented, LimiterSafety, LetThrough
<1>1. CASE GetRow(r)
  <2>1. /\ cpc' = [cpc EXCEPT ![r] = "counted"] /\ cpc[r] = "limit"
        /\ UNCHANGED <<now, crow, ctoken, cloaded, cdead, linkVars, configVars, historyVars>>
    BY <1>1 DEF GetRow, CheckAndIncrement, shareCallVars
  <2>2. ShareTypeOK' /\ DataSafety'
    BY <1>0, <2>1, DataUntouched DEF ShareTypeOK, linkVars, configVars, historyVars
  <2>3. CallSafety'
    BY <1>0, <1>t, <2>1, CallMoves DEF CallStates
  <2>4. LimiterSafety'
    BY <1>0, <1>1, CountSafe DEF GetRow
  <2> QED
    BY <2>2, <2>3, <2>4, SafetyPartsNext
<1>2. CASE LoadToken(r) \/ LoadSnapshots(r) \/ RecordAccess(r)
  <2> PICK state \in Counted \ {"counted"} :
        /\ Step(r, state) /\ cpc[r] \in Counted /\ ~Exceeded(r)
        /\ LoadToken(r) \/ (cpc[r] \in {"valid", "found"} /\ UNCHANGED <<ctoken, cdead>>)
    BY <1>2, <1>c DEF LoadToken, LoadSnapshots, RecordAccess, Counted, shareCallVars
  <2>1. /\ cpc' = [cpc EXCEPT ![r] = state]
        /\ UNCHANGED <<now, crow, ctoken, cdead, linkVars, configVars, historyVars>>
    BY <1>2 DEF LoadToken, LoadSnapshots, RecordAccess, Step, shareCallVars, limiterVars
  <2>2. cloaded' \in [Callers -> Nat]
    BY <1>0, <1>2, <1>c DEF LoadToken, LoadSnapshots, RecordAccess, shareCallVars, ShareTypeOK, Counted
  <2>3. ShareTypeOK' /\ DataSafety'
    BY <1>0, <2>1, <2>2, DataUntouched DEF ShareTypeOK, linkVars, configVars, historyVars
  <2>4. LimiterSafety'
    BY <1>0, StepSafe
  <2>5. CASE LoadToken(r)
    BY <1>0, <1>t, <2>3, <2>4, <2>5, LoadSafe, SafetyPartsNext
  <2>6. CASE cpc[r] \in {"valid", "found"}
    <3>1. ~cdead[r]
      BY <1>0, <2>6 DEF CallSafety, RevokedNeverAnswers
    <3>2. CallSafety'
      BY <1>0, <1>t, <1>c, <2>1, <2>6, <3>1, CallMoves DEF CallStates, Counted
    <3> QED
      BY <2>3, <2>4, <3>2, SafetyPartsNext
  <2> QED
    BY <2>5, <2>6
<1>3. CASE Login(r) /\ UNCHANGED <<shareCallVars, linkVars, configVars, historyVars>>
  <2>1. /\ Serve(r) /\ cpc[r] \in Counted /\ ~Exceeded(r)
        /\ cpc' = [cpc EXCEPT ![r] = "idle"] /\ crow' = [crow EXCEPT ![r] = Nobody]
        /\ UNCHANGED <<now, ctoken, cloaded, cdead>>
    BY <1>3 DEF Login, Serve, Commit, Counted, shareCallVars
  <2>2. ShareTypeOK' /\ DataSafety'
    BY <1>0, <1>3, <2>1, DataUntouched DEF ShareTypeOK, linkVars, configVars, historyVars
  <2>3. CallSafety'
    BY <1>0, <1>t, <1>3, <2>1 DEF CallSafety, TokensPresented, DeadStays, RevokedNeverAnswers,
       Expired, Counted, linkVars
  <2>4. LimiterSafety'
    BY <1>0, <2>1, ServeSafe
  <2> QED
    BY <2>2, <2>3, <2>4, SafetyPartsNext
<1>4. CASE (TooMany(r) \/ NotFound(r)) /\ Forget(r) /\ UNCHANGED <<linkVars, configVars, historyVars>>
  <2>1. LimiterSafety'
    BY <1>0, <1>4, <1>c, ServeSafe, TooManySafe DEF NotFound, Counted
  <2>2. /\ cpc' = [cpc EXCEPT ![r] = "idle"] /\ crow' = [crow EXCEPT ![r] = Nobody]
        /\ UNCHANGED <<now, linkVars>>
    BY <1>4 DEF TooMany, NotFound, Serve, Commit
  <2>3. CallSafety'
    BY <1>0, <1>t, <1>4, <2>2, CallEnds DEF linkVars
  <2> QED
    BY <1>0, <1>4, <2>1, <2>3, ForgetTypes, DataUntouched, SafetyPartsNext
<1>5. CASE Answer(r)
  <2>1. /\ Serve(r) /\ Forget(r) /\ cpc[r] \in Counted /\ ~Exceeded(r) /\ ctoken[r] \in Tokens
        /\ taccess' = [taccess EXCEPT ![ctoken[r]] = cloaded[r] + 1]
        /\ answered' = answered \cup {ctoken[r]}
        /\ cpc' = [cpc EXCEPT ![r] = "idle"] /\ crow' = [crow EXCEPT ![r] = Nobody]
        /\ UNCHANGED <<now, tstate, tconfig, tversion, tpermanent, texpires, trevoked,
                       configVars, withdrawn>>
    BY <1>5, <1>c DEF Answer, Serve, Commit, Counted
  <2>2. LimiterSafety'
    BY <1>0, <2>1, ServeSafe
  <2>3. CallSafety'
    BY <1>0, <1>t, <2>1, CallEnds
  <2>4. ShareTypeOK'
    BY <1>0, <2>1 DEF ShareTypeOK, Forget, configVars
  <2>5. AccessCounted'
    BY <1>0, <2>1 DEF ShareTypeOK, DataSafety, AccessCounted
  <2>6. WithdrawnAreRevoked' /\ HeadsExist' /\ PinnedVersionExists' /\ ExpiryMatches'
    BY <1>0, <2>1 DEF DataSafety, WithdrawnAreRevoked, HeadsExist, PinnedVersionExists,
       ExpiryMatches, configVars
  <2> QED
    BY <2>2, <2>3, <2>4, <2>5, <2>6, SafetyPartsNext DEF DataSafety
<1> QED
  BY <1>1, <1>2, <1>3, <1>4, <1>5 DEF CallStep, NotFound

\* A call that fails takes everything it did back.
LEMMA DeathSafe ==
  ASSUME PublicSafety, NEW r \in Callers, CallDies(r)
  PROVE  PublicSafety'
<1>0. LimiterSafety /\ ShareTypeOK /\ DataSafety /\ CallSafety
  BY SafetyParts
<1>1. LimiterSafety'
  BY <1>0, RollbackSafe DEF CallDies
<1>2. CallSafety'
  BY <1>0, CallEnds DEF CallDies, Rollback, linkVars, LimiterSafety, LimiterTypeOK
<1>3. ShareTypeOK' /\ DataSafety'
  BY <1>0, ForgetTypes, DataUntouched DEF CallDies
<1> QED
  BY <1>1, <1>2, <1>3, SafetyPartsNext

\* Nothing the limiter looks at changes.
LEMMA LimiterUntouched ==
  ASSUME LimiterSafety, UNCHANGED <<limiterVars, cpc, crow, served>>
  PROVE  LimiterSafety'
BY DEF LimiterSafety, LimiterTypeOK, ServedExactly, RowHeldByCall, LetThrough, Exceeded, limiterVars

\* A link is made of what its config's row and the clock say at that moment.
LEMMA CreateSafe ==
  ASSUME ShareTypeOK, DataSafety, CallSafety, LimiterTypeOK,
         NEW t \in Tokens, NEW target \in Configs \cup {AllConfigs}, NEW v \in 0..MaxVersion,
         NEW permanent \in BOOLEAN, NEW expires \in 0..MaxTime,
         create(t, target, v, permanent, expires),
         target # AllConfigs => v \in log[target],
         UNCHANGED <<limiterVars, cpc, crow, served, shareCallVars, historyVars>>
  PROVE  ShareTypeOK' /\ DataSafety' /\ CallSafety'
<1>1. ShareTypeOK'
  BY DEF ShareTypeOK, create, configVars, shareCallVars, historyVars
<1>2. tstate[t] = "none" /\ (permanent <=> expires = 0)
  BY DEF create, resolve_share_expiration, LimiterTypeOK
<1>3. PinnedVersionExists' /\ ExpiryMatches'
  BY <1>2 DEF ShareTypeOK, DataSafety, PinnedVersionExists, ExpiryMatches, create, configVars
<1>4. WithdrawnAreRevoked' /\ HeadsExist' /\ AccessCounted'
  BY <1>2 DEF ShareTypeOK, DataSafety, WithdrawnAreRevoked, HeadsExist, AccessCounted, create,
     configVars, historyVars
<1>5. CallSafety'
  BY <1>2 DEF ShareTypeOK, CallSafety, TokensPresented, DeadStays, RevokedNeverAnswers, Expired,
     create, shareCallVars, limiterVars
<1> QED
  BY <1>1, <1>3, <1>4, <1>5 DEF DataSafety

\* Links are made, committed and revoked.
LEMMA AdminSafe == PublicSafety /\ AdminActs => PublicSafety'
<1> SUFFICES ASSUME PublicSafety, AdminActs PROVE PublicSafety'
  OBVIOUS
<1>0. LimiterSafety /\ ShareTypeOK /\ DataSafety /\ CallSafety /\ LimiterTypeOK
  BY SafetyParts DEF LimiterSafety
<1>u. UNCHANGED <<limiterVars, cpc, crow, served, shareCallVars>>
  BY DEF AdminActs
<1>l. LimiterSafety'
  BY <1>0, <1>u, LimiterUntouched
<1>1. ASSUME NEW t \in Tokens, NEW permanent \in BOOLEAN, NEW expires \in 0..MaxTime,
             \/ \E c \in Configs : CreateShareLink(t, c, permanent, expires)
             \/ CreateAllShareLinks(t, permanent, expires),
             UNCHANGED historyVars
      PROVE  PublicSafety'
  <2>1. CASE CreateAllShareLinks(t, permanent, expires)
    <3>1. create(t, AllConfigs, 0, permanent, expires) /\ 0 \in 0..MaxVersion
      BY <2>1 DEF CreateAllShareLinks
    <3> QED
      BY <1>0, <1>u, <1>l, <1>1, <3>1, CreateSafe, SafetyPartsNext
  <2>2. ASSUME NEW c \in Configs, CreateShareLink(t, c, permanent, expires)
        PROVE  PublicSafety'
    <3>1. /\ create(t, c, head[c], permanent, expires) /\ head[c] \in 0..MaxVersion
          /\ head[c] \in log[c]
      BY <1>0, <2>2 DEF CreateShareLink, ShareTypeOK, DataSafety, HeadsExist
    <3> QED
      BY <1>0, <1>u, <1>l, <1>1, <3>1, CreateSafe, SafetyPartsNext
  <2> QED
    BY <1>1, <2>1, <2>2
<1>2. ASSUME NEW t \in Tokens, CommitLink(t), UNCHANGED historyVars
      PROVE  PublicSafety'
  <2>1. ShareTypeOK'
    BY <1>0, <1>u, <1>2 DEF ShareTypeOK, CommitLink, configVars, shareCallVars, historyVars
  <2>2. DataSafety'
    BY <1>0, <1>2 DEF ShareTypeOK, DataSafety, WithdrawnAreRevoked, HeadsExist, PinnedVersionExists,
       ExpiryMatches, AccessCounted, CommitLink, configVars, historyVars
  <2>3. CallSafety'
    BY <1>0, <1>u, <1>2 DEF ShareTypeOK, CallSafety, TokensPresented, DeadStays,
       RevokedNeverAnswers, Expired, CommitLink, shareCallVars, limiterVars
  <2> QED
    BY <1>l, <2>1, <2>2, <2>3, SafetyPartsNext
<1>3. ASSUME NEW t \in Tokens, RevokeShareLink(t)
      PROVE  PublicSafety'
  <2>1. ShareTypeOK'
    BY <1>0, <1>u, <1>3 DEF ShareTypeOK, RevokeShareLink, configVars, shareCallVars
  <2>2. DataSafety'
    BY <1>0, <1>3 DEF ShareTypeOK, DataSafety, WithdrawnAreRevoked, HeadsExist, PinnedVersionExists,
       ExpiryMatches, AccessCounted, RevokeShareLink, configVars
  <2>3. CallSafety'
    BY <1>0, <1>u, <1>3 DEF ShareTypeOK, CallSafety, TokensPresented, DeadStays,
       RevokedNeverAnswers, Expired, RevokeShareLink, shareCallVars, limiterVars
  <2> QED
    BY <1>l, <2>1, <2>2, <2>3, SafetyPartsNext
<1> QED
  BY <1>1, <1>2, <1>3 DEF AdminActs

\* Versions are added and made current; none goes away.
LEMMA ConfigsSafe == PublicSafety /\ ConfigsLive => PublicSafety'
<1> SUFFICES ASSUME PublicSafety, ConfigsLive PROVE PublicSafety'
  OBVIOUS
<1>0. LimiterSafety /\ ShareTypeOK /\ DataSafety /\ CallSafety
  BY SafetyParts
<1>1. UNCHANGED <<limiterVars, cpc, crow, served, shareCallVars, historyVars, linkVars>>
  BY DEF ConfigsLive, ConfigChanges
<1>2. LimiterSafety'
  BY <1>0, <1>1, LimiterUntouched
<1>3. CallSafety'
  BY <1>0, <1>1 DEF CallSafety, TokensPresented, DeadStays, RevokedNeverAnswers, Expired,
     shareCallVars, linkVars, limiterVars
<1>4. PICK c \in Configs : ConfigChanges(c)
  BY DEF ConfigsLive
<1>5. /\ \E s \in BOOLEAN : shareable' = [shareable EXCEPT ![c] = s]
      /\ \/ UNCHANGED logVars
         \/ \E v \in 1..MaxVersion : Append(c, v) \/ Repoint(c, v)
  BY <1>4 DEF ConfigChanges
<1>s. shareable' \in [Configs -> BOOLEAN]
  BY <1>0, <1>5 DEF ShareTypeOK
<1>t. log \in [Configs -> SUBSET (1..MaxVersion)] /\ head \in [Configs -> 0..MaxVersion] /\ HeadsExist
  BY <1>0 DEF ShareTypeOK, DataSafety
<1> DEFINE LogGrows ==
      /\ log' \in [Configs -> SUBSET (1..MaxVersion)] /\ head' \in [Configs -> 0..MaxVersion]
      /\ \A d \in Configs : log[d] \subseteq log'[d]
      /\ HeadsExist'
<1>6. LogGrows
  <2>1. CASE UNCHANGED logVars
    BY <1>t, <2>1 DEF HeadsExist, logVars
  <2>2. ASSUME NEW v \in 1..MaxVersion, Append(c, v) \/ Repoint(c, v)
        PROVE  /\ log' = [log EXCEPT ![c] = @ \cup {v}] \/ (v \in log[c] /\ log' = log)
               /\ head' = [head EXCEPT ![c] = v]
    BY <2>2 DEF Append, Repoint
  <2>3. ASSUME NEW v \in 1..MaxVersion,
               log' = [log EXCEPT ![c] = @ \cup {v}] \/ (v \in log[c] /\ log' = log),
               head' = [head EXCEPT ![c] = v]
        PROVE  LogGrows
    <3>1. log' \in [Configs -> SUBSET (1..MaxVersion)] /\ v \in log'[c]
      BY <1>t, <2>3
    <3>2. head' \in [Configs -> 0..MaxVersion]
      BY <1>t, <2>3
    <3>3. \A d \in Configs : log[d] \subseteq log'[d]
      BY <1>t, <2>3
    <3>4. HeadsExist'
      BY <1>t, <2>3, <3>1, <3>3 DEF HeadsExist
    <3> QED
      BY <3>1, <3>2, <3>3, <3>4
  <2> QED
    BY <1>5, <2>1, <2>2, <2>3
<1>7. ShareTypeOK'
  BY <1>0, <1>1, <1>s, <1>6 DEF ShareTypeOK, linkVars, shareCallVars, historyVars
<1>8. DataSafety'
  BY <1>0, <1>1, <1>6 DEF ShareTypeOK, DataSafety, WithdrawnAreRevoked, PinnedVersionExists,
     ExpiryMatches, AccessCounted, linkVars, historyVars
<1> QED
  BY <1>2, <1>3, <1>7, <1>8, SafetyPartsNext

\* What has expired stays expired.
LEMMA TimeSafe == PublicSafety /\ TimePasses => PublicSafety'
<1> SUFFICES ASSUME PublicSafety, TimePasses PROVE PublicSafety'
  OBVIOUS
<1>0. LimiterSafety /\ ShareTypeOK /\ DataSafety /\ CallSafety
  BY SafetyParts
<1>1. /\ now' = now + 1 /\ now \in 0..MaxTime
      /\ UNCHANGED <<cpc, crow, configVars, linkVars, shareCallVars, historyVars>>
  BY <1>0 DEF TimePasses, Tick, LimiterSafety, LimiterTypeOK
<1>2. LimiterSafety'
  BY <1>0, TickSafe DEF TimePasses
<1>3. ShareTypeOK' /\ DataSafety'
  BY <1>0, <1>1, DataUntouched DEF ShareTypeOK, configVars, linkVars, shareCallVars, historyVars
<1>4. CallSafety'
  BY <1>0, <1>1 DEF ShareTypeOK, CallSafety, TokensPresented, DeadStays, RevokedNeverAnswers,
     Expired, linkVars, shareCallVars
<1> QED
  BY <1>2, <1>3, <1>4, SafetyPartsNext

----------------------------------------------------------------------------
(* The theorems                                                             *)

\* The invariant is kept by every step of a call, of an administrator, of the
\* configs and of the clock, and so holds throughout.
THEOREM PublicSafetyHolds == Spec => []PublicSafety
<1>1. PublicSafety /\ [Next]_vars => PublicSafety'
  <2>1. PublicSafety /\ UNCHANGED vars => PublicSafety'
    <3> SUFFICES ASSUME PublicSafety, UNCHANGED vars PROVE PublicSafety'
      OBVIOUS
    <3>0. LimiterSafety /\ ShareTypeOK /\ DataSafety /\ CallSafety
      BY SafetyParts
    <3>1. LimiterSafety'
      BY <3>0, LimiterUntouched DEF vars
    <3>2. ShareTypeOK' /\ DataSafety'
      BY <3>0, DataUntouched DEF vars, ShareTypeOK, linkVars, configVars, shareCallVars, historyVars
    <3>3. CallSafety'
      BY <3>0 DEF vars, CallSafety, TokensPresented, DeadStays, RevokedNeverAnswers, Expired,
         linkVars, shareCallVars, limiterVars
    <3> QED
      BY <3>1, <3>2, <3>3, SafetyPartsNext
  <2> QED
    BY <2>1, ArrivalSafe, CallStepSafe, DeathSafe, AdminSafe, ConfigsSafe, TimeSafe DEF Next
<1> QED
  BY <1>1, PublicStarts, PTL DEF Spec

\* The limiter lets exactly the first calls of a window through, however the
\* calls of an address interleave, wait and fail.
THEOREM ServedExactlyHolds == Spec => []ServedExactly
<1>1. PublicSafety => ServedExactly
  BY DEF PublicSafety
<1> QED
  BY <1>1, PublicSafetyHolds, PTL

\* A link that was revoked or had expired when a call came is not answered.
THEOREM RevokedStaysRevoked == Spec => []RevokedNeverAnswers
<1>1. PublicSafety => RevokedNeverAnswers
  BY DEF PublicSafety
<1> QED
  BY <1>1, PublicSafetyHolds, PTL

\* A link to a version never loses that version.
THEOREM PinnedVersionsStay == Spec => []PinnedVersionExists
<1>1. PublicSafety => PinnedVersionExists
  BY DEF PublicSafety
<1> QED
  BY <1>1, PublicSafetyHolds, PTL

\* Every variable of the public endpoints holds what the code can store in it.
THEOREM PublicTypes == Spec => []PublicTypeOK
<1>1. PublicSafety => PublicTypeOK
  BY DEF PublicSafety
<1> QED
  BY <1>1, PublicSafetyHolds, PTL

\* A counter row is locked by the call that has counted in it and by no other,
\* however calls end: none waits for a call that is gone.
THEOREM RowsAreHeld == Spec => []RowHeldByCall
<1>1. PublicSafety => RowHeldByCall
  BY DEF PublicSafety
<1> QED
  BY <1>1, PublicSafetyHolds, PTL

\* The administrator's list shows as active exactly the links that resolve.
THEOREM ListMatches == Spec => []ListMatchesResolve
<1>1. PublicSafety => ListMatchesResolve
  BY DEF PublicSafety
<1> QED
  BY <1>1, PublicSafetyHolds, PTL

\* Lost counts or not, a link looks unused until it is answered, and never again.
THEOREM AccessesCounted == Spec => []AccessCounted
<1>1. PublicSafety => AccessCounted
  BY DEF PublicSafety
<1> QED
  BY <1>1, PublicSafetyHolds, PTL

=============================================================================
