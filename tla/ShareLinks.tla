----------------------------- MODULE ShareLinks -----------------------------
(***************************************************************************)
(* Share links (application/*share*.py, repositories/share_token.py): an   *)
(* administrator hands out links to one version of a config, or to the     *)
(* current versions of all configs, and revokes them; anybody resolves     *)
(* them behind the rate limiter.  What happens to the configs meanwhile is *)
(* any behaviour of VersionLog, which Panel implements.                    *)
(***************************************************************************)
EXTENDS RateLimiter, VersionLog

CONSTANTS
  Tokens,      \* the links that may be handed out
  AllConfigs   \* config_id NULL: a link to everything

ASSUME ShareAssumption ==
  /\ MaxVersion \in Nat
  /\ AllConfigs \notin Configs
  /\ Nobody \notin Tokens

VARIABLES
  shareable,   \* is_active and status = active
  tstate,      \* a share_tokens row: none, flushed (draft) or committed (live)
  tconfig, tversion, tpermanent,
  texpires,    \* expires_at; 0 is NULL
  trevoked,    \* revoked_at IS NOT NULL
  taccess,     \* access_count
  ctoken,      \* the token a call presents
  cloaded,     \* the access_count it loaded
  cdead,       \* history: the token had been revoked or had expired as the call came
  withdrawn,   \* history: tokens an administrator was told are revoked
  answered     \* history: tokens that have been resolved

configVars == <<log, head, shareable>>
linkVars   == <<tstate, tconfig, tversion, tpermanent, texpires, trevoked, taccess>>
shareCallVars == <<ctoken, cloaded, cdead>>
historyVars == <<withdrawn, answered>>

ShareTypeOK ==
  /\ shareable  \in [Configs -> BOOLEAN]
  /\ log        \in [Configs -> SUBSET (1..MaxVersion)]
  /\ head       \in [Configs -> 0..MaxVersion]
  /\ tstate     \in [Tokens -> {"none", "draft", "live"}]
  /\ tconfig    \in [Tokens -> Configs \cup {AllConfigs}]
  /\ tversion   \in [Tokens -> 0..MaxVersion]
  /\ tpermanent \in [Tokens -> BOOLEAN]
  /\ texpires   \in [Tokens -> 0..MaxTime]
  /\ trevoked   \in [Tokens -> BOOLEAN]
  /\ taccess    \in [Tokens -> Nat]
  /\ ctoken     \in [Callers -> Tokens \cup {Nobody}]
  /\ cloaded    \in [Callers -> Nat]
  /\ cdead      \in [Callers -> BOOLEAN]
  /\ withdrawn  \subseteq Tokens
  /\ answered   \subseteq Tokens

ShareInit ==
  /\ LogInit
  /\ shareable  = [c \in Configs |-> FALSE]
  /\ tstate     = [t \in Tokens |-> "none"]
  /\ tconfig    = [t \in Tokens |-> AllConfigs]
  /\ tversion   = [t \in Tokens |-> 0]
  /\ tpermanent = [t \in Tokens |-> FALSE]
  /\ texpires   = [t \in Tokens |-> 0]
  /\ trevoked   = [t \in Tokens |-> FALSE]
  /\ taccess    = [t \in Tokens |-> 0]
  /\ ctoken     = [r \in Callers |-> Nobody]
  /\ cloaded    = [r \in Callers |-> 0]
  /\ cdead      = [r \in Callers |-> FALSE]
  /\ withdrawn = {} /\ answered = {}

----------------------------------------------------------------------------
(* The configs                                                              *)

\* A build ends, a version is made current again, or the config is taken out
\* of service: regenerated, failed, deleted.
ConfigChanges(c) ==
  /\ \/ /\ \E v \in 1..MaxVersion : Append(c, v) \/ Repoint(c, v)
        /\ shareable' \in {[shareable EXCEPT ![c] = s] : s \in BOOLEAN}
     \/ shareable[c] /\ shareable' = [shareable EXCEPT ![c] = FALSE] /\ UNCHANGED logVars
  /\ UNCHANGED linkVars

\* list_current_version_snapshots finds something.
AnySnapshot == \E c \in Configs : shareable[c] /\ head[c] \in log[c]

----------------------------------------------------------------------------
(* Links                                                                    *)

\* Mutant: a link that is not permanent may be left without an expiry.
resolve_share_expiration_NoneAllowed(permanent, expires) ==
  IF permanent THEN expires = 0 ELSE expires = 0 \/ expires > now

\* The requests resolve_share_expiration accepts (ttl_seconds makes an expiry
\* of now plus something positive).
resolve_share_expiration(permanent, expires) ==
  IF permanent THEN expires = 0 ELSE expires > now

\* ShareTokenRepository.create, flushed.
create(t, target, v, permanent, expires) ==
  /\ tstate[t] = "none"
  /\ resolve_share_expiration(permanent, expires)
  /\ tstate'     = [tstate     EXCEPT ![t] = "draft"]
  /\ tconfig'    = [tconfig    EXCEPT ![t] = target]
  /\ tversion'   = [tversion   EXCEPT ![t] = v]
  /\ tpermanent' = [tpermanent EXCEPT ![t] = permanent]
  /\ texpires'   = [texpires   EXCEPT ![t] = expires]
  /\ UNCHANGED <<trevoked, taccess, configVars>>

\* CreateShareLinkUseCase: the link names the version current as it is read.
CreateShareLink(t, c, permanent, expires) ==
  /\ shareable[c] /\ head[c] # 0
  /\ create(t, c, head[c], permanent, expires)

\* CreateAllShareLinksUseCase
CreateAllShareLinks(t, permanent, expires) ==
  /\ AnySnapshot
  /\ create(t, AllConfigs, 0, permanent, expires)

\* The commit in the router; a request that fails before leaves no link.
CommitLink(t) ==
  /\ tstate[t] = "draft"
  /\ tstate' = [tstate EXCEPT ![t] = "live"]
  /\ UNCHANGED <<tconfig, tversion, tpermanent, texpires, trevoked, taccess, configVars>>

\* RevokeShareLinkUseCase with its commit, by token or by id.
RevokeShareLink(t) ==
  /\ tstate[t] = "live" /\ ~trevoked[t]
  /\ trevoked' = [trevoked EXCEPT ![t] = TRUE]
  /\ withdrawn' = withdrawn \cup {t}
  /\ UNCHANGED <<tstate, tconfig, tversion, tpermanent, texpires, taccess, configVars, answered>>

\* The WHERE of list_active: a comparison with a NULL expires_at is not true.
Listed(t) ==
  /\ tstate[t] = "live" /\ ~trevoked[t]
  /\ tpermanent[t] \/ (texpires[t] # 0 /\ texpires[t] > now)

----------------------------------------------------------------------------
(* GET /share/{token}                                                       *)

\* The checks of ResolveShareUseCase on the row.
Expired(t) == ~tpermanent[t] /\ texpires[t] # 0 /\ texpires[t] <= now
Resolvable(t) == tstate[t] = "live" /\ ~trevoked[t] /\ ~Expired(t)

Resolve(r, address, t) ==
  /\ Call(r, "share", address)
  /\ ctoken' = [ctoken EXCEPT ![r] = t]
  /\ cdead'  = [cdead  EXCEPT ![r] = t \in withdrawn \/ (tstate[t] = "live" /\ Expired(t))]
  /\ UNCHANGED <<cloaded, linkVars, configVars, historyVars>>

Forget(r) ==
  /\ ctoken'  = [ctoken  EXCEPT ![r] = Nobody]
  /\ cloaded' = [cloaded EXCEPT ![r] = 0]
  /\ cdead'   = [cdead   EXCEPT ![r] = FALSE]

\* get_by_token_hash and the checks.
LoadToken(r) ==
  /\ cpc[r] = "counted" /\ crow[r][1] = "share" /\ ~Exceeded(r)
  /\ Step(r, IF Resolvable(ctoken[r]) THEN "valid" ELSE "missing")
  /\ UNCHANGED <<shareCallVars, linkVars, configVars, historyVars>>

\* get_version_snapshot, which takes deleted configs too, or
\* list_current_version_snapshots.
Snapshots(t) ==
  IF tconfig[t] = AllConfigs THEN AnySnapshot ELSE tversion[t] \in log[tconfig[t]]

LoadSnapshots(r) ==
  /\ cpc[r] = "valid"
  /\ Step(r, IF Snapshots(ctoken[r]) THEN "found" ELSE "missing")
  /\ UNCHANGED <<shareCallVars, linkVars, configVars, historyVars>>

\* Mutant: a 404 is not committed.
NotFound_RollsBack(r) ==
  /\ cpc[r] = "missing"
  /\ rowHolder' = [rowHolder EXCEPT ![crow[r]] = Nobody]
  /\ served' = [served EXCEPT ![crow[r]] = @ + 1]
  /\ cpc'  = [cpc  EXCEPT ![r] = "idle"]
  /\ crow' = [crow EXCEPT ![r] = Nobody]
  /\ Forget(r)
  /\ UNCHANGED <<now, entries, linkVars, configVars, historyVars>>

\* ShareNotFound: committed, 404.
NotFound(r) ==
  /\ cpc[r] = "missing"
  /\ Serve(r)
  /\ Forget(r)
  /\ UNCHANGED <<linkVars, configVars, historyVars>>

\* record_access loads the row again ...
RecordAccess(r) ==
  /\ cpc[r] = "found"
  /\ Step(r, "recorded")
  /\ cloaded' = [cloaded EXCEPT ![r] = taccess[ctoken[r]]]
  /\ UNCHANGED <<ctoken, cdead, linkVars, configVars, historyVars>>

\* Mutant: the flush writes the whole row as it was loaded.
Answer_SavesRow(r) ==
  /\ cpc[r] = "recorded"
  /\ Serve(r)
  /\ taccess'  = [taccess  EXCEPT ![ctoken[r]] = cloaded[r] + 1]
  /\ trevoked' = [trevoked EXCEPT ![ctoken[r]] = FALSE]
  /\ answered' = answered \cup {ctoken[r]}
  /\ Forget(r)
  /\ UNCHANGED <<tstate, tconfig, tversion, tpermanent, texpires, configVars, withdrawn>>

\* Mutant: the access is not recorded.
Answer_NotRecorded(r) ==
  /\ cpc[r] = "recorded"
  /\ Serve(r)
  /\ answered' = answered \cup {ctoken[r]}
  /\ Forget(r)
  /\ UNCHANGED <<linkVars, configVars, withdrawn>>

\* ... and the commit writes the two columns it changed; 200.
Answer(r) ==
  /\ cpc[r] = "recorded"
  /\ Serve(r)
  /\ taccess'  = [taccess EXCEPT ![ctoken[r]] = cloaded[r] + 1]
  /\ answered' = answered \cup {ctoken[r]}
  /\ Forget(r)
  /\ UNCHANGED <<tstate, tconfig, tversion, tpermanent, texpires, trevoked, configVars, withdrawn>>

=============================================================================
