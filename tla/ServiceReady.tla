---------------------------- MODULE ServiceReady ----------------------------
(***************************************************************************)
(* wait_for_service_ready (infrastructure/vpn/service_ready.py): after a   *)
(* restart the build waits in chunks until the unit is up, through         *)
(* systemctl itself or through vpn-systemctl wait-ready.                   *)
(* A look at systemctl or the journal takes no time in this model, unless  *)
(* it does not answer at all.                                              *)
(***************************************************************************)
EXTENDS VpnUnit

CONSTANTS
  Chunk,       \* service_ready_timeout_seconds
  Settle,      \* service_ready_settle_seconds
  MaxWait      \* service_ready_max_wait_seconds

ASSUME ServiceReadyAssumption == Chunk \in Nat \ {0} /\ Settle \in Nat /\ MaxWait \in Nat \ {0}

VARIABLES
  wrapper,     \* VPN_SYSTEMCTL_CMD is vpn-systemctl
  pc,          \* where the wait is; "none" long after a build
  chunkEnd,    \* when the chunk is over
  maxEnd,      \* when the wait is over
  wake         \* when the sleep is over

readyVars == <<wrapper, pc, chunkEnd, maxEnd, wake>>

Waiting == {"chunk", "poll", "settle", "journal", "sleep", "over", "caught"}
Asleep  == pc \in {"settle", "sleep"} /\ now < wake

ReadyTypeOK ==
  /\ wrapper \in BOOLEAN /\ pc \in Waiting \cup {"ready", "raised", "none"}
  /\ maxEnd = MaxWait /\ chunkEnd \in 0..(now + Chunk) /\ wake \in 0..(now + Settle + 1)

ReadyInit ==
  /\ wrapper \in BOOLEAN
  /\ pc \in {"chunk", "none"} /\ chunkEnd = 0 /\ maxEnd = MaxWait /\ wake = 0

Goto(step) == pc' = step

Sleep(step, seconds) == pc' = step /\ wake' = now + seconds

\* The loop over chunks: ServiceNotReadyError at the deadline or for a unit
\* that has failed.
BeginChunk ==
  /\ pc = "chunk"
  /\ IF now >= maxEnd \/ failed
       THEN Goto("raised") /\ UNCHANGED chunkEnd
       ELSE Goto("poll") /\ chunkEnd' = now + Chunk
  /\ UNCHANGED <<wrapper, maxEnd, wake>>

\* Mutant: a chunk does not look for a failure, as in the wrapper.
Poll_NoFailure ==
  /\ pc = "poll"
  /\ \/ now >= chunkEnd /\ Goto("over") /\ UNCHANGED wake
     \/ now < chunkEnd /\ running /\ Sleep("settle", Settle)
     \/ now < chunkEnd /\ ~running /\ Sleep("sleep", 1)
  /\ UNCHANGED <<wrapper, chunkEnd, maxEnd>>

\* One round of a chunk; only _wait_direct_once looks for a failure, and its
\* ServiceNotReadyError is caught outside.
Poll ==
  /\ pc = "poll"
  /\ \/ now >= chunkEnd /\ Goto("over") /\ UNCHANGED wake
     \/ now < chunkEnd /\ ~wrapper /\ failed /\ Goto("caught") /\ UNCHANGED wake
     \/ now < chunkEnd /\ running /\ Sleep("settle", Settle)
     \/ now < chunkEnd /\ ~running /\ (wrapper \/ ~failed) /\ Sleep("sleep", 1)
  /\ UNCHANGED <<wrapper, chunkEnd, maxEnd>>

\* Mutant: the journal is asked without a second look at systemctl.
Recheck_Once ==
  /\ pc = "settle" /\ now >= wake
  /\ \/ ~wrapper /\ failed /\ Goto("caught") /\ UNCHANGED wake
     \/ (wrapper \/ ~failed) /\ Goto("journal") /\ UNCHANGED wake
  /\ UNCHANGED <<wrapper, chunkEnd, maxEnd>>

\* After the settle time: still running?
Recheck ==
  /\ pc = "settle" /\ now >= wake
  /\ \/ ~wrapper /\ failed /\ Goto("caught") /\ UNCHANGED wake
     \/ running /\ Goto("journal") /\ UNCHANGED wake
     \/ ~running /\ (wrapper \/ ~failed) /\ Sleep("sleep", 1)
  /\ UNCHANGED <<wrapper, chunkEnd, maxEnd>>

\* _journal_has_startup_marker: any start in the last lines will do.
AskJournal ==
  /\ pc = "journal"
  /\ IF journal # {} THEN Goto("ready") /\ UNCHANGED wake ELSE Sleep("sleep", 1)
  /\ UNCHANGED <<wrapper, chunkEnd, maxEnd>>

WakeUp ==
  /\ pc = "sleep" /\ now >= wake
  /\ Goto("poll")
  /\ UNCHANGED <<wrapper, chunkEnd, maxEnd, wake>>

\* Mutant: every chunk has the whole time before it.
EndChunk_Renews ==
  /\ pc \in {"over", "caught"}
  /\ Goto(IF failed \/ now >= maxEnd THEN "raised" ELSE "chunk")
  /\ maxEnd' = now + MaxWait
  /\ UNCHANGED <<wrapper, chunkEnd, wake>>

\* The chunk was not enough: _wait_direct_once is False, or an error was caught,
\* the wrapper's or a unit's that had failed, which may run again by now.
EndChunk ==
  /\ pc \in {"over", "caught"}
  /\ Goto(IF ((wrapper \/ pc = "caught") /\ failed) \/ now >= maxEnd THEN "raised" ELSE "chunk")
  /\ UNCHANGED <<wrapper, chunkEnd, maxEnd, wake>>

\* A systemctl or journalctl that does not answer: TimeoutExpired.
CommandTimesOut ==
  /\ pc \in Waiting /\ ~Asleep
  /\ Goto("raised")
  /\ UNCHANGED <<wrapper, chunkEnd, maxEnd, wake>>

WaitStep ==
  \/ BeginChunk \/ Poll \/ Recheck \/ AskJournal \/ WakeUp \/ EndChunk
  \/ CommandTimesOut

=============================================================================
