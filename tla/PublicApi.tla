------------------------------ MODULE PublicApi ------------------------------
(***************************************************************************)
(* The endpoints anybody can call, with the administrator's actions on     *)
(* share links and the life of the configs behind them.                    *)
(***************************************************************************)
EXTENDS ShareLinks

vars == <<limiterVars, cpc, crow, served, configVars, linkVars, shareCallVars, historyVars>>

Init == LimiterInit /\ ShareInit

\* The upsert of a call.
GetRow(r) ==
  /\ CheckAndIncrement(r)
  /\ UNCHANGED <<shareCallVars, linkVars, configVars, historyVars>>

\* One step of a call that has come in.
CallStep(r) ==
  \/ GetRow(r)
  \/ Login(r) /\ UNCHANGED <<shareCallVars, linkVars, configVars, historyVars>>
  \/ TooMany(r) /\ Forget(r) /\ UNCHANGED <<linkVars, configVars, historyVars>>
  \/ LoadToken(r) \/ LoadSnapshots(r) \/ NotFound(r) \/ RecordAccess(r) \/ Answer(r)

\* A call fails inside: 500, the session is closed.
CallDies(r) ==
  /\ cpc[r] # "idle"
  /\ Rollback(r) /\ Forget(r)
  /\ UNCHANGED <<linkVars, configVars, historyVars>>

\* A call comes in.
CallComes(r) ==
  \E address \in Addresses :
    \/ \E t \in Tokens : Resolve(r, address, t)
    \/ /\ Call(r, "login", address)
       /\ UNCHANGED <<shareCallVars, linkVars, configVars, historyVars>>

AdminActs ==
  /\ \E t \in Tokens :
       \/ /\ \E permanent \in BOOLEAN, expires \in 0..MaxTime :
               \/ \E c \in Configs : CreateShareLink(t, c, permanent, expires)
               \/ CreateAllShareLinks(t, permanent, expires)
          /\ UNCHANGED historyVars
       \/ CommitLink(t) /\ UNCHANGED historyVars
       \/ RevokeShareLink(t)
  /\ UNCHANGED <<limiterVars, cpc, crow, served, shareCallVars>>

ConfigsLive ==
  /\ \E c \in Configs : ConfigChanges(c)
  /\ UNCHANGED <<limiterVars, cpc, crow, served, shareCallVars, historyVars>>

TimePasses == Tick /\ UNCHANGED <<configVars, linkVars, shareCallVars, historyVars>>

Next ==
  \/ \E r \in Callers : CallComes(r) \/ CallStep(r) \/ CallDies(r)
  \/ AdminActs \/ ConfigsLive \/ TimePasses

Spec == Init /\ [][Next]_vars

\* A call that has come in goes on (uvicorn), and PostgreSQL grants a row to
\* those who wait for it in turn, whoever comes later.  Nobody owes a call, an
\* action of the administrator or a failure.
FairSpec ==
  /\ Spec
  /\ \A r \in Callers : WF_vars(CallStep(r)) /\ SF_vars(GetRow(r))

----------------------------------------------------------------------------

\* Every variable holds what the code can store in it, and a call counts in a
\* window that has begun.
PublicTypeOK == LimiterTypeOK /\ ShareTypeOK

\* In every window exactly the first calls up to the limit are let through:
\* no interleaving of calls that wait for the row, answer 404 or 401, or fail
\* lets one more in or turns one away.
ServedExactly ==
  \A w \in Rows :
    served[w] = IF entries[w] <= Limit(w[1]) THEN entries[w] ELSE Limit(w[1])

\* A call that came after the link was revoked or had expired is not answered
\* with its content, although accesses that were under way write the row later.
RevokedNeverAnswers ==
  \A r \in Callers : cpc[r] \in {"valid", "found", "recorded"} => ~cdead[r]

\* The version a link names exists, through every regenerate and retry
\* (README.md:17): such a link ends by revocation or expiry only.
PinnedVersionExists ==
  \A t \in Tokens :
    tstate[t] # "none" /\ tconfig[t] # AllConfigs => tversion[t] \in log[tconfig[t]]

\* The administrator's list shows exactly the links that resolve: the SQL of
\* list_active and the checks of ResolveShareUseCase agree on every row.
ListMatchesResolve ==
  \A t \in Tokens : Listed(t) <=> Resolvable(t)

\* Counts get lost when two addresses resolve one link together, but a link
\* never looks unused after it was answered, nor used before.
AccessCounted ==
  \A t \in Tokens : t \in answered <=> taccess[t] > 0

\* A call holds its row from the count to the response, and nobody else does.
RowHeldByCall ==
  \A w \in Rows, r \in Callers :
    rowHolder[w] = r <=> cpc[r] \in Counted /\ crow[r] = w

----------------------------------------------------------------------------
(* What these invariants rest on, conjunct by conjunct                      *)

\* Nobody else counts in a locked row, so the answer of the limiter stays right.
LetThrough ==
  \A r \in Callers : cpc[r] \in Counted \ {"counted"} => ~Exceeded(r)

\* A call to the share endpoint presents a token, and only such a call looks
\* one up.
TokensPresented ==
  \A r \in Callers :
    /\ cpc[r] \in Counted \ {"counted"} => ctoken[r] \in Tokens
    /\ cpc[r] # "idle" /\ crow[r][1] = "share" => ctoken[r] \in Tokens

\* What an administrator was told is revoked is revoked.
WithdrawnAreRevoked ==
  \A t \in withdrawn : tstate[t] = "live" /\ trevoked[t]

\* A token that was dead as a call came is dead while the call runs.
DeadStays ==
  \A r \in Callers :
    cdead[r] =>
      /\ ctoken[r] \in Tokens /\ tstate[ctoken[r]] = "live"
      /\ trevoked[ctoken[r]] \/ Expired(ctoken[r])

\* current_version is NULL or names a version.
HeadsExist == \A c \in Configs : head[c] # 0 => head[c] \in log[c]

\* A link is permanent or has an expiry.
ExpiryMatches ==
  \A t \in Tokens : tstate[t] # "none" => (tpermanent[t] <=> texpires[t] = 0)

\* The inductive invariant.
PublicSafety ==
  /\ PublicTypeOK
  /\ ServedExactly /\ RowHeldByCall /\ LetThrough
  /\ TokensPresented /\ WithdrawnAreRevoked /\ DeadStays /\ RevokedNeverAnswers
  /\ HeadsExist /\ PinnedVersionExists
  /\ ExpiryMatches /\ ListMatchesResolve /\ AccessCounted

----------------------------------------------------------------------------

\* Every call is answered: the calls of one address queue behind one row, and
\* each outcome, 429 and 404 included, gives it back.
CallsEnd ==
  \A r \in Callers : cpc[r] # "idle" ~> cpc[r] = "idle"

=============================================================================
