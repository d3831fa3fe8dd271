---------------------------- MODULE WatchProofs ----------------------------
(***************************************************************************)
(* ServiceWatch for every choice of its timeouts, lifetimes and readers.   *)
(* WatchSafety is inductive; the six properties of the runs follow.        *)
(***************************************************************************)
EXTENDS ServiceWatch, TLAPS

USE VpnUnitAssumption, ServiceReadyAssumption, StatusProbeAssumption, ServiceWatchAssumption

\* What the unit's own steps leave alone, and what every step of it keeps.
LEMMA UnitSteps ==
  ASSUME UnitTypeOK, UnitNext \/ Tick
  PROVE  /\ UnitTypeOK'
         /\ now' \in {now, now + 1} /\ lastUp' >= lastUp /\ lastDown' >= lastDown
         /\ IF Up' THEN lastUp' = now' ELSE lastDown' = now'
<1> USE DEF UnitTypeOK, UnitNext, Event, running, Up
<1>1. CASE Logs
  <2>1. svc' \in UnitStates /\ (listening' => running') /\ listening' \in BOOLEAN /\ reached' \in BOOLEAN
    BY <1>1 DEF UnitStates, Logs
  <2>2. journal' \in SUBSET {"old", "new"}
    BY <1>1 DEF Logs
  <2>3. /\ now' \in 0..MaxTime /\ events' \in 0..MaxEvents /\ restarts' \in 0..events'
        /\ ran' \in 0..now' /\ since' \in 0..now' /\ lastUp' \in -1..now' /\ lastDown' \in 0..now'
    BY <1>1 DEF Logs
  <2>4. /\ now' \in {now, now + 1} /\ lastUp' >= lastUp /\ lastDown' >= lastDown
        /\ IF Up' THEN lastUp' = now' ELSE lastDown' = now'
    BY <1>1 DEF Logs
  <2> QED
    BY <2>1, <2>2, <2>3, <2>4
<1>2. CASE Ends
  <2>1. svc' \in UnitStates /\ (listening' => running') /\ listening' \in BOOLEAN /\ reached' \in BOOLEAN
    BY <1>2 DEF UnitStates, Ends
  <2>2. journal' \in SUBSET {"old", "new"}
    BY <1>2 DEF Ends
  <2>3. /\ now' \in 0..MaxTime /\ events' \in 0..MaxEvents /\ restarts' \in 0..events'
        /\ ran' \in 0..now' /\ since' \in 0..now' /\ lastUp' \in -1..now' /\ lastDown' \in 0..now'
    BY <1>2 DEF Ends
  <2>4. /\ now' \in {now, now + 1} /\ lastUp' >= lastUp /\ lastDown' >= lastDown
        /\ IF Up' THEN lastUp' = now' ELSE lastDown' = now'
    BY <1>2 DEF Ends
  <2> QED
    BY <2>1, <2>2, <2>3, <2>4
<1>3. CASE Starts
  <2>1. svc' \in UnitStates /\ (listening' => running') /\ listening' \in BOOLEAN /\ reached' \in BOOLEAN
    BY <1>3 DEF UnitStates, Starts
  <2>2. journal' \in SUBSET {"old", "new"}
    BY <1>3 DEF Starts
  <2>3. /\ now' \in 0..MaxTime /\ events' \in 0..MaxEvents /\ restarts' \in 0..events'
        /\ ran' \in 0..now' /\ since' \in 0..now' /\ lastUp' \in -1..now' /\ lastDown' \in 0..now'
    BY <1>3 DEF Starts
  <2>4. /\ now' \in {now, now + 1} /\ lastUp' >= lastUp /\ lastDown' >= lastDown
        /\ IF Up' THEN lastUp' = now' ELSE lastDown' = now'
    BY <1>3 DEF Starts
  <2> QED
    BY <2>1, <2>2, <2>3, <2>4
<1>4. CASE NetworkChanges
  <2>1. svc' \in UnitStates /\ (listening' => running') /\ listening' \in BOOLEAN /\ reached' \in BOOLEAN
    BY <1>4 DEF UnitStates, NetworkChanges
  <2>2. journal' \in SUBSET {"old", "new"}
    BY <1>4 DEF NetworkChanges
  <2>3. /\ now' \in 0..MaxTime /\ events' \in 0..MaxEvents /\ restarts' \in 0..events'
        /\ ran' \in 0..now' /\ since' \in 0..now' /\ lastUp' \in -1..now' /\ lastDown' \in 0..now'
    BY <1>4 DEF NetworkChanges
  <2>4. /\ now' \in {now, now + 1} /\ lastUp' >= lastUp /\ lastDown' >= lastDown
        /\ IF Up' THEN lastUp' = now' ELSE lastDown' = now'
    BY <1>4 DEF NetworkChanges
  <2> QED
    BY <2>1, <2>2, <2>3, <2>4
<1>5. CASE Tick
  <2>1. svc' \in UnitStates /\ (listening' => running') /\ listening' \in BOOLEAN /\ reached' \in BOOLEAN
    BY <1>5 DEF UnitStates, Tick, unitState
  <2>2. journal' \in SUBSET {"old", "new"}
    BY <1>5 DEF Tick, unitState
  <2>3. /\ now' \in 0..MaxTime /\ events' \in 0..MaxEvents /\ restarts' \in 0..events'
        /\ ran' \in 0..now' /\ since' \in 0..now' /\ lastUp' \in -1..now' /\ lastDown' \in 0..now'
    BY <1>5 DEF Tick, unitState
  <2>4. /\ now' \in {now, now + 1} /\ lastUp' >= lastUp /\ lastDown' >= lastDown
        /\ IF Up' THEN lastUp' = now' ELSE lastDown' = now'
    BY <1>5 DEF Tick, unitState
  <2> QED
    BY <2>1, <2>2, <2>3, <2>4
<1> QED
  BY <1>1, <1>2, <1>3, <1>4, <1>5

\* A moment's event: time stands still, and what is failed now has been or has
\* just become so.
LEMMA UnitEvents ==
  ASSUME UnitTypeOK, UnitNext
  PROVE  /\ now' = now
         /\ failed' => since' = now \/ (failed /\ since' = since)
         /\ running' /\ restarts' = 0 => running /\ restarts = 0 /\ ran' = ran
         /\ restarts' = 0 => restarts = 0 /\ ran' = ran
                             /\ (running' \/ since' = now \/ (~running /\ since' = since))
<1>1. CASE Logs
  BY <1>1 DEF UnitTypeOK, UnitStates, Logs, Event, running, failed
<1>2. CASE Ends
  BY <1>2 DEF UnitTypeOK, UnitStates, Ends, Event, running, failed
<1>3. CASE Starts
  BY <1>3 DEF UnitTypeOK, UnitStates, Starts, Event, running, failed
<1>4. CASE NetworkChanges
  BY <1>4 DEF UnitTypeOK, UnitStates, NetworkChanges, Event, running, failed
<1> QED
  BY <1>1, <1>2, <1>3, <1>4 DEF UnitNext

\* Neither a wait nor a status request has looked yet.
LEMMA WatchInit == Init => WatchSafety
<1> SUFFICES ASSUME Init PROVE WatchSafety
  OBVIOUS
<1>0. UnitInit /\ ReadyInit /\ ProbeInit
  BY DEF Init
<1>1. UnitTypeOK
  <2>1. svc \in UnitStates /\ (listening => running) /\ journal \in SUBSET {"old", "new"}
    BY <1>0 DEF UnitInit, UnitStates, running
  <2>2. listening \in BOOLEAN /\ reached \in BOOLEAN
    BY <1>0 DEF UnitInit
  <2>3. now \in 0..MaxTime /\ events \in 0..MaxEvents /\ restarts \in 0..events
    BY <1>0 DEF UnitInit
  <2>4. ran \in 0..now /\ since \in 0..now /\ lastUp \in -1..now /\ lastDown \in 0..now
    BY <1>0 DEF UnitInit
  <2> QED
    BY <2>1, <2>2, <2>3, <2>4 DEF UnitTypeOK
<1>2. ReadyTypeOK
  BY <1>0 DEF UnitInit, ReadyInit, ReadyTypeOK, Waiting
<1>3. ProbeTypeOK
  BY <1>0 DEF UnitInit, ProbeInit, ProbeTypeOK, NoEntry
<1>4. WaitOnTime
  BY <1>0 DEF UnitInit, ReadyInit, WaitOnTime
<1>5. FailureIsYoung
  BY <1>0 DEF UnitInit, FailureIsYoung, failed
<1>6. RanAllAlong
  BY <1>0 DEF UnitInit, ReadyInit, RanAllAlong
<1>7. ProbesHonest
  BY <1>0 DEF UnitInit, ProbeInit, ProbesHonest, NoEntry, Up
<1> QED
  BY <1>1, <1>2, <1>3, <1>4, <1>5, <1>6, <1>7 DEF WatchSafety, WatchTypeOK

\* Something happens to the unit, at whatever point the wait or the probes are.
LEMMA WatchEvent ==
  ASSUME WatchSafety, UnitNext, UNCHANGED <<readyVars, probeVars>>
  PROVE  WatchSafety'
<1> USE DEF WatchSafety, WatchTypeOK, readyVars, probeVars
<1>1. UnitTypeOK'
  BY UnitSteps
<1>2. now' = now /\ now \in Nat
  BY UnitEvents DEF UnitTypeOK
<1>3. ReadyTypeOK' /\ ProbeTypeOK' /\ WaitOnTime'
  BY <1>2 DEF ReadyTypeOK, ProbeTypeOK, WaitOnTime
<1>4. FailureIsYoung'
  BY <1>2, UnitEvents DEF FailureIsYoung, ReadyTypeOK, UnitTypeOK, Waiting
<1>5. RanAllAlong'
  BY <1>2, UnitEvents DEF RanAllAlong
<1>6. ProbesHonest'
  BY <1>2, UnitSteps DEF ProbesHonest, ProbeTypeOK, UnitTypeOK
<1> QED
  BY <1>1, <1>3, <1>4, <1>5, <1>6

\* Time passes only while the wait sleeps.
LEMMA WatchTick ==
  ASSUME WatchSafety, TimePasses, Observed, UNCHANGED <<readyVars, probeVars>>
  PROVE  WatchSafety'
<1> USE DEF WatchSafety, WatchTypeOK, readyVars, probeVars
<1>1. UnitTypeOK'
  BY UnitSteps DEF TimePasses
<1>2. /\ now' = now + 1 /\ now \in Nat
      /\ UNCHANGED <<unitState, since, restarts>>
      /\ ran' = IF running THEN ran + 1 ELSE ran
      /\ pc # "none" => pc \in {"settle", "sleep"} /\ now < wake
  BY DEF TimePasses, Tick, UnitTypeOK, Asleep
<1>3. ReadyTypeOK' /\ ProbeTypeOK'
  BY <1>2 DEF ReadyTypeOK, ProbeTypeOK
<1>4. WaitOnTime'
  BY <1>2 DEF ReadyTypeOK, WaitOnTime
<1>5. FailureIsYoung'
  BY <1>2 DEF FailureIsYoung, failed, Waiting, unitState
<1>6. RanAllAlong'
  BY <1>2 DEF RanAllAlong, running, unitState, UnitTypeOK
<1>7. ProbesHonest'
  BY <1>2, UnitSteps DEF TimePasses, ProbesHonest, ProbeTypeOK, UnitTypeOK
<1> QED
  BY <1>1, <1>3, <1>4, <1>5, <1>6, <1>7

\* A step of the wait.
LEMMA WatchWait ==
  ASSUME WatchSafety, WaitStep, UNCHANGED <<unitVars, probeVars>>
  PROVE  WatchSafety'
<1> USE DEF WatchSafety, WatchTypeOK, unitVars, unitState, probeVars
<1>1. UnitTypeOK' /\ ProbeTypeOK' /\ ProbesHonest'
  BY DEF UnitTypeOK, ProbeTypeOK, ProbesHonest, running, Up
<1>2. now \in Nat /\ since \in 0..now /\ chunkEnd \in Int /\ wake \in Int /\ maxEnd = MaxWait
  BY DEF UnitTypeOK, ReadyTypeOK
<1> USE DEF Goto, Sleep, Waiting
<1>3. CASE BeginChunk
  <2>1. ReadyTypeOK' /\ WaitOnTime'
    BY <1>2, <1>3 DEF BeginChunk, ReadyTypeOK, WaitOnTime
  <2>2. FailureIsYoung' /\ RanAllAlong'
    BY <1>2, <1>3 DEF BeginChunk, FailureIsYoung, RanAllAlong, failed, running
  <2> QED BY <1>1, <2>1, <2>2
<1>4. CASE Poll
  <2>1. ReadyTypeOK' /\ WaitOnTime'
    BY <1>2, <1>4 DEF Poll, ReadyTypeOK, WaitOnTime
  <2>2. FailureIsYoung' /\ RanAllAlong'
    BY <1>2, <1>4 DEF Poll, FailureIsYoung, RanAllAlong, failed, running
  <2> QED BY <1>1, <2>1, <2>2
<1>5. CASE Recheck
  <2>1. ReadyTypeOK' /\ WaitOnTime'
    BY <1>2, <1>5 DEF Recheck, ReadyTypeOK, WaitOnTime
  <2>2. FailureIsYoung' /\ RanAllAlong'
    BY <1>2, <1>5 DEF Recheck, FailureIsYoung, RanAllAlong, WaitOnTime, failed, running
  <2> QED BY <1>1, <2>1, <2>2
<1>6. CASE AskJournal
  <2>1. ReadyTypeOK' /\ WaitOnTime'
    BY <1>2, <1>6 DEF AskJournal, ReadyTypeOK, WaitOnTime
  <2>2. FailureIsYoung' /\ RanAllAlong'
    BY <1>2, <1>6 DEF AskJournal, FailureIsYoung, RanAllAlong, failed, running
  <2> QED BY <1>1, <2>1, <2>2
<1>7. CASE WakeUp
  <2>1. ReadyTypeOK' /\ WaitOnTime'
    BY <1>2, <1>7 DEF WakeUp, ReadyTypeOK, WaitOnTime
  <2>2. FailureIsYoung' /\ RanAllAlong'
    BY <1>2, <1>7 DEF WakeUp, FailureIsYoung, RanAllAlong, WaitOnTime, failed, running
  <2> QED BY <1>1, <2>1, <2>2
<1>8. CASE EndChunk
  <2>1. ReadyTypeOK' /\ WaitOnTime'
    BY <1>2, <1>8 DEF EndChunk, ReadyTypeOK, WaitOnTime
  <2>2. FailureIsYoung' /\ RanAllAlong'
    BY <1>2, <1>8 DEF EndChunk, FailureIsYoung, RanAllAlong, failed, running
  <2> QED BY <1>1, <2>1, <2>2
<1>9. CASE CommandTimesOut
  <2>1. ReadyTypeOK' /\ WaitOnTime' /\ FailureIsYoung' /\ RanAllAlong'
    BY <1>2, <1>9 DEF CommandTimesOut, ReadyTypeOK, WaitOnTime, FailureIsYoung, RanAllAlong, running
  <2> QED BY <1>1, <2>1
<1> QED
  BY <1>3, <1>4, <1>5, <1>6, <1>7, <1>8, <1>9 DEF WaitStep

\* A step of a status request: what it answers or stores is as old as the probe
\* behind it.
LEMMA WatchProbe ==
  ASSUME WatchSafety, NEW r \in Readers, ProbeStep(r), UNCHANGED <<unitVars, readyVars>>
  PROVE  WatchSafety'
<1> USE DEF WatchSafety, WatchTypeOK, unitVars, unitState, readyVars
<1>1. UnitTypeOK' /\ ReadyTypeOK' /\ WaitOnTime' /\ FailureIsYoung' /\ RanAllAlong'
  BY DEF UnitTypeOK, ReadyTypeOK, WaitOnTime, FailureIsYoung, RanAllAlong, running, failed
<1>2. now \in Nat /\ lastUp \in Int /\ lastDown \in Int
  BY DEF UnitTypeOK
<1>3. ProbeTypeOK' /\ ProbesHonest'
  <2> USE DEF Step, Answer
  <2>1. CASE Ask(r)
    BY <1>2, <2>1 DEF Ask, ProbeTypeOK, ProbesHonest, running, Up
  <2>2. CASE CheckRuntime(r)
    BY <1>2, <2>2 DEF CheckRuntime, ProbeTypeOK, ProbesHonest, running, Up
  <2>3. CASE LookUp(r)
    BY <1>2, <2>3 DEF LookUp, ProbeTypeOK, ProbesHonest, running, Up
  <2>4. CASE Probe(r)
    BY <1>2, <2>4 DEF Probe, ProbeTypeOK, ProbesHonest, running, Up, UnitTypeOK
  <2>5. CASE Store(r)
    BY <1>2, <2>5 DEF Store, ProbeTypeOK, ProbesHonest, running, Up
  <2> QED
    BY <2>1, <2>2, <2>3, <2>4, <2>5 DEF ProbeStep
<1> QED
  BY <1>1, <1>3

\* The unit, the wait and the status requests each keep the invariant.
LEMMA WatchStep == WatchSafety /\ [Next]_vars => WatchSafety'
<1> SUFFICES ASSUME WatchSafety, [Next]_vars PROVE WatchSafety'
  OBVIOUS
<1>1. CASE Observed /\ UnitNext /\ UNCHANGED <<readyVars, probeVars>>
  BY <1>1, WatchEvent
<1>2. CASE Observed /\ TimePasses /\ UNCHANGED <<readyVars, probeVars>>
  BY <1>2, WatchTick
<1>3. CASE WaitStep /\ UNCHANGED <<unitVars, probeVars>>
  BY <1>3, WatchWait
<1>4. CASE pc = "none" /\ (\E r \in Readers : ProbeStep(r)) /\ UNCHANGED <<unitVars, readyVars>>
  BY <1>4, WatchProbe
<1>5. CASE UNCHANGED vars
  BY <1>5 DEF vars, unitVars, unitState, readyVars, probeVars, WatchSafety, WatchTypeOK,
              UnitTypeOK, ReadyTypeOK, ProbeTypeOK, WaitOnTime, FailureIsYoung, RanAllAlong,
              ProbesHonest, running, failed, Up
<1> QED
  BY <1>1, <1>2, <1>3, <1>4, <1>5 DEF Next

\* WatchSafety is inductive.
LEMMA WatchSafe == Spec => []WatchSafety
  BY WatchInit, WatchStep, PTL DEF Spec

----------------------------------------------------------------------------

\* Every variable keeps its kind, deadlines and recorded times included.
THEOREM WatchTypes == Spec => []WatchTypeOK
<1>1. WatchSafety => WatchTypeOK
  BY DEF WatchSafety
<1> QED
  BY <1>1, WatchSafe, PTL

\* service_ready.py:177.  The wait holds the worker no longer than the settings
\* say, whatever the unit does meanwhile.
THEOREM WaitEnds == Spec => []WaitEndsInTime
<1>1. WatchSafety => WaitEndsInTime
  BY DEF WatchSafety, WatchTypeOK, UnitTypeOK, ReadyTypeOK, WaitOnTime, Waiting, WaitEndsInTime
<1> QED
  BY <1>1, WatchSafe, PTL

\* service_ready.py:187.  A unit that has failed for good ends the wait.
THEOREM FailureEnds == Spec => []FailureEndsWait
<1>1. WatchSafety => FailureEndsWait
  BY DEF WatchSafety, WatchTypeOK, UnitTypeOK, ReadyTypeOK, WaitOnTime, FailureIsYoung, Waiting,
         FailureEndsWait
<1> QED
  BY <1>1, WatchSafe, PTL

\* service_ready.py:122.  What is called ready has run through the settle time.
THEOREM ReadyRan == Spec => ReadyMeansUp
<1>1. ASSUME WatchSafety, [Next]_vars
      PROVE  [BecomesReady /\ restarts = 0 => ran >= Settle /\ (running \/ since = now)]_vars
  <2>1. SUFFICES ASSUME BecomesReady, restarts = 0
                 PROVE  ran >= Settle /\ (running \/ since = now)
    OBVIOUS
  <2>2. pc = "journal"
    BY <1>1, <2>1 DEF BecomesReady, Next, vars, readyVars, WaitStep, BeginChunk, Poll, Recheck,
                      AskJournal, WakeUp, EndChunk, CommandTimesOut, Goto, Sleep
  <2> QED
    BY <1>1, <2>1, <2>2 DEF WatchSafety, RanAllAlong
<1> QED
  BY <1>1, WatchSafe, PTL DEF Spec, ReadyMeansUp

\* The step of a request that answers, and the time of what it answers from.
LEMMA WhoAnswers ==
  ASSUME WatchSafety, [Next]_vars, NEW r \in Readers, NEW what, Answers(r, what)
  PROVE  what # "none" =>
           \/ what = "offline" /\ ~(running /\ listening)
           \/ /\ cache.at # -1 /\ cache.reachable = (what = "online")
              /\ now - cache.at < (IF cache.reachable THEN SuccessTtl ELSE FailureTtl)
           \/ asks[r] = "probed" /\ found[r] = (what = "online")
<1> SUFFICES ASSUME what # "none"
             PROVE  \/ what = "offline" /\ ~(running /\ listening)
                    \/ /\ cache.at # -1 /\ cache.reachable = (what = "online")
                       /\ now - cache.at < (IF cache.reachable THEN SuccessTtl ELSE FailureTtl)
                    \/ asks[r] = "probed" /\ found[r] = (what = "online")
  OBVIOUS
<1>0. ProbeTypeOK /\ answer'[r] # answer[r]
  BY DEF Answers, WatchSafety, WatchTypeOK
<1>1. PICK q \in Readers : ProbeStep(q)
  BY <1>0 DEF Next, vars, probeVars
<1> USE DEF Step, Answer, Answers, ProbeTypeOK
<1>2. q = r
  BY <1>0, <1>1 DEF ProbeStep, Ask, CheckRuntime, LookUp, Probe, Store
<1>3. CASE Ask(r)
  BY <1>0, <1>3 DEF Ask
<1>4. CASE CheckRuntime(r)
  BY <1>0, <1>4 DEF CheckRuntime
<1>5. CASE LookUp(r)
  BY <1>0, <1>5 DEF LookUp, Fresh
<1>6. CASE Probe(r)
  BY <1>0, <1>6 DEF Probe
<1>7. CASE Store(r)
  BY <1>0, <1>7 DEF Store
<1> QED
  BY <1>1, <1>2, <1>3, <1>4, <1>5, <1>6, <1>7 DEF ProbeStep

\* vpn_connectivity.py:510.  Whatever requests overlap, no success is shown that
\* is older than the cache may keep one or than the request itself.
THEOREM OnlineHonest == Spec => OnlineIsRecent
<1>1. ASSUME WatchSafety, [Next]_vars
      PROVE  [\A r \in Readers : Answers(r, "online") =>
                \/ now - lastUp < SuccessTtl
                \/ asks[r] = "probed" /\ lastUp >= began[r]]_vars
  <2>1. SUFFICES ASSUME NEW r \in Readers, Answers(r, "online")
                 PROVE  \/ now - lastUp < SuccessTtl
                        \/ asks[r] = "probed" /\ lastUp >= began[r]
    OBVIOUS
  <2>2. \/ cache.at # -1 /\ cache.reachable /\ now - cache.at < SuccessTtl
        \/ asks[r] = "probed" /\ found[r]
    BY <1>1, <2>1, WhoAnswers
  <2> QED
    BY <1>1, <2>2 DEF WatchSafety, WatchTypeOK, UnitTypeOK, ProbeTypeOK, ProbesHonest
<1> QED
  BY <1>1, WatchSafe, PTL DEF Spec, OnlineIsRecent

\* vpn_connectivity.py:516.  Nor a failure, whose time is shorter.
THEOREM OfflineHonest == Spec => OfflineIsRecent
<1>1. ASSUME WatchSafety, [Next]_vars
      PROVE  [\A r \in Readers : Answers(r, "offline") =>
                \/ now - lastDown < FailureTtl
                \/ asks[r] = "probed" /\ lastDown >= began[r]
                \/ ~(running /\ listening)]_vars
  <2>1. SUFFICES ASSUME NEW r \in Readers, Answers(r, "offline")
                 PROVE  \/ now - lastDown < FailureTtl
                        \/ asks[r] = "probed" /\ lastDown >= began[r]
                        \/ ~(running /\ listening)
    OBVIOUS
  <2>2. \/ ~(running /\ listening)
        \/ cache.at # -1 /\ ~cache.reachable /\ now - cache.at < FailureTtl
        \/ asks[r] = "probed" /\ ~found[r]
    BY <1>1, <2>1, WhoAnswers DEF WatchSafety, WatchTypeOK, ProbeTypeOK
  <2> QED
    BY <1>1, <2>2 DEF WatchSafety, WatchTypeOK, UnitTypeOK, ProbeTypeOK, ProbesHonest
<1> QED
  BY <1>1, WatchSafe, PTL DEF Spec, OfflineIsRecent

=============================================================================
