----------------------------- MODULE StatusProbe -----------------------------
(***************************************************************************)
(* Status requests on one version of a config: probe_config_availability   *)
(* (service_runtime.py) and the cache of probe_config_connectivity         *)
(* (vpn_connectivity.py).  Requests probe in threads of their own and      *)
(* share the cache without a lock.                                         *)
(***************************************************************************)
EXTENDS VpnUnit

CONSTANTS
  Readers,       \* status requests that may be open at once
  SuccessTtl,    \* connectivity_probe_cache_seconds
  FailureTtl,    \* what _CACHE keeps a failure for, min(15, SuccessTtl)
  MaxProbe       \* how long a probe of all hosts may take

ASSUME StatusProbeAssumption ==
  /\ SuccessTtl \in Nat /\ FailureTtl \in 0..SuccessTtl /\ MaxProbe \in Nat

VARIABLES
  udp,         \* the config is a Hysteria's, whose port nobody can knock at
  cache,       \* the entry of the version: what was found, and from when
  asks,        \* where a request is
  began,       \* its `now`, taken before the probe
  found,       \* what its probe has found
  answer       \* what it has answered

probeVars == <<udp, cache, asks, began, found, answer>>

NoEntry == [reachable |-> FALSE, at |-> -1]

ProbeTypeOK ==
  /\ udp \in BOOLEAN
  /\ cache \in [reachable : BOOLEAN, at : -1..now]
  /\ asks   \in [Readers -> {"idle", "lookup", "probing", "probed"}]
  /\ began  \in [Readers -> 0..now]
  /\ found  \in [Readers -> BOOLEAN]
  /\ answer \in [Readers -> {"none", "online", "offline"}]

ProbeInit ==
  /\ udp \in BOOLEAN
  /\ cache  = NoEntry
  /\ asks   = [r \in Readers |-> "idle"]
  /\ began  = [r \in Readers |-> 0]
  /\ found  = [r \in Readers |-> FALSE]
  /\ answer = [r \in Readers |-> "none"]

Step(r, step) == asks' = [asks EXCEPT ![r] = step]

Answer(r, online) ==
  /\ answer' = [answer EXCEPT ![r] = IF online THEN "online" ELSE "offline"]
  /\ Step(r, "idle")

Ask(r) ==
  /\ asks[r] = "idle" /\ answer[r] # "none"
  /\ answer' = [answer EXCEPT ![r] = "none"]
  /\ UNCHANGED <<udp, cache, asks, began, found>>

\* probe_config_runtime: a unit that does not run, or whose TCP port is closed, is
\* offline whatever the cache says.
CheckRuntime(r) ==
  /\ asks[r] = "idle" /\ answer[r] = "none"
  /\ IF running /\ (udp \/ listening)
       THEN Step(r, "lookup") /\ UNCHANGED answer
       ELSE Answer(r, FALSE)
  /\ UNCHANGED <<udp, cache, began, found>>

Fresh(entry, ttl) == entry.at # -1 /\ now - entry.at < ttl

\* Mutant: one time to live for successes and failures.
LookUp_OneTtl(r) ==
  /\ asks[r] = "lookup"
  /\ IF Fresh(cache, SuccessTtl)
       THEN Answer(r, cache.reachable) /\ UNCHANGED began
       ELSE /\ Step(r, "probing") /\ began' = [began EXCEPT ![r] = now]
            /\ UNCHANGED answer
  /\ UNCHANGED <<udp, cache, found>>

LookUp(r) ==
  /\ asks[r] = "lookup"
  /\ IF Fresh(cache, IF cache.reachable THEN SuccessTtl ELSE FailureTtl)
       THEN Answer(r, cache.reachable) /\ UNCHANGED began
       ELSE /\ Step(r, "probing") /\ began' = [began EXCEPT ![r] = now]
            /\ UNCHANGED answer
  /\ UNCHANGED <<udp, cache, found>>

\* A client is started and gets through now, or does not.
Probe(r) ==
  /\ asks[r] = "probing"
  /\ found' = [found EXCEPT ![r] = Up]
  /\ Step(r, "probed")
  /\ UNCHANGED <<udp, cache, began, answer>>

\* Mutant: the entry is dated when it is stored.
Store_DatedLate(r) ==
  /\ asks[r] = "probed"
  /\ cache' = [reachable |-> found[r], at |-> now]
  /\ Answer(r, found[r])
  /\ UNCHANGED <<udp, began, found>>

\* The entry is dated when the probe began, whatever was stored meanwhile.
Store(r) ==
  /\ asks[r] = "probed"
  /\ cache' = [reachable |-> found[r], at |-> began[r]]
  /\ Answer(r, found[r])
  /\ UNCHANGED <<udp, began, found>>

ProbeStep(r) == Ask(r) \/ CheckRuntime(r) \/ LookUp(r) \/ Probe(r) \/ Store(r)

\* A probe goes on for a while; the rest of a request takes no time.
Patient(r) ==
  \/ asks[r] = "idle" /\ answer[r] # "none"
  \/ asks[r] \in {"probing", "probed"} /\ now - began[r] < MaxProbe

=============================================================================
