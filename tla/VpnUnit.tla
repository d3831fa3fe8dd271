------------------------------- MODULE VpnUnit -------------------------------
(***************************************************************************)
(* The systemd unit of one config as the panel sees it: is-active and      *)
(* is-failed, the last lines of its journal, the port it listens on.  The  *)
(* unit itself and the network are not the panel's; time is a counter.     *)
(***************************************************************************)
EXTENDS Integers

CONSTANTS MaxTime, MaxEvents    \* bounds: the clock, what happens to the unit

ASSUME VpnUnitAssumption == MaxTime \in Nat /\ MaxEvents \in Nat

VARIABLES
  now,
  svc,         \* the unit's state; "failed" for every state is-failed or Result tells
  listening,   \* the process has logged its start and serves clients
  reached,     \* nothing on the way keeps clients from it
  journal,     \* start markers in the last lines: of this process, of earlier ones
  ran,         \* how long this process has run
  since,       \* when svc became what it is
  lastUp, lastDown,    \* when clients were last served, and last not
  restarts, events

unitState == <<svc, listening, reached, journal>>
unitVars  == <<now, unitState, ran, since, lastUp, lastDown, restarts, events>>

UnitStates == {"running", "activating", "inactive", "failed"}

running == svc = "running"
failed  == svc = "failed"
Up      == running /\ listening /\ reached

UnitTypeOK ==
  /\ now \in 0..MaxTime /\ events \in 0..MaxEvents /\ restarts \in 0..events
  /\ svc \in UnitStates /\ (listening => running)
  /\ listening \in BOOLEAN /\ reached \in BOOLEAN /\ journal \in SUBSET {"old", "new"}
  /\ ran \in 0..now /\ since \in 0..now
  /\ lastUp \in -1..now /\ lastDown \in 0..now

\* install_config_unit has just restarted the unit (Type=simple), whose journal
\* may still show an earlier start.
UnitInit ==
  /\ now = 0 /\ svc = "running" /\ listening = FALSE /\ reached = TRUE
  /\ journal \in {{}, {"old"}}
  /\ ran = 0 /\ since = 0 /\ lastUp = -1 /\ lastDown = 0
  /\ restarts = 0 /\ events = 0

\* Something happens to the unit at this moment.
Event ==
  /\ events < MaxEvents /\ events' = events + 1
  /\ lastUp'   = IF Up' THEN now ELSE lastUp
  /\ lastDown' = IF Up' THEN lastDown ELSE now
  /\ since'    = IF svc' # svc THEN now ELSE since
  /\ UNCHANGED now

\* The process logs that it has started, or so much else that the line is gone.
Logs ==
  /\ running
  /\ \/ ~listening /\ listening' = TRUE /\ journal' = journal \cup {"new"}
     \/ journal # {} /\ journal' = {} /\ UNCHANGED listening
  /\ UNCHANGED <<svc, reached, ran, restarts>>
  /\ Event

\* It ends by itself, well or not, is stopped, or waits for Restart=.
Ends ==
  /\ svc \in {"running", "activating"}
  /\ svc' \in UnitStates \ {"running", svc}
  /\ listening' = FALSE
  /\ UNCHANGED <<reached, journal, ran, restarts>>
  /\ Event

\* Somebody else, or Restart=, starts it.
Starts ==
  /\ ~running
  /\ svc' = "running" /\ listening' = FALSE /\ ran' = 0
  /\ journal' = IF journal = {} THEN {} ELSE {"old"}
  /\ restarts' = restarts + 1
  /\ UNCHANGED reached
  /\ Event

\* The network between the probe and the service breaks or heals.
NetworkChanges ==
  /\ reached' = ~reached
  /\ UNCHANGED <<svc, listening, journal, ran, restarts>>
  /\ Event

UnitNext == Logs \/ Ends \/ Starts \/ NetworkChanges

Tick ==
  /\ now < MaxTime /\ now' = now + 1
  /\ ran' = IF running THEN ran + 1 ELSE ran
  /\ lastUp'   = IF Up THEN now' ELSE lastUp
  /\ lastDown' = IF Up THEN lastDown ELSE now'
  /\ UNCHANGED <<unitState, since, restarts, events>>

=============================================================================
