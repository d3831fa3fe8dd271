---------------------------- MODULE ServiceWatch ----------------------------
(***************************************************************************)
(* One unit and what looks at it: the worker that waits for it after a     *)
(* restart, or status requests when no build is under way.  Neither has    *)
(* any effect on the other, so they are not combined.                      *)
(***************************************************************************)
EXTENDS ServiceReady, StatusProbe

CONSTANT MaxStatusTime    \* bound: the clock, where no wait is

ASSUME ServiceWatchAssumption == MaxStatusTime \in Nat

vars == <<unitVars, readyVars, probeVars>>

\* A setting the part in question does not look at is off.
Init ==
  /\ UnitInit /\ ReadyInit /\ ProbeInit
  /\ IF pc = "none" THEN ~wrapper ELSE ~udp

\* Time passes while the wait sleeps, and while probes run.
TimePasses ==
  /\ Tick
  /\ pc = "none" => now < MaxStatusTime /\ \A r \in Readers : Patient(r)
  /\ pc # "none" => Asleep

\* The unit matters as long as somebody looks at it.
Observed == pc \in Waiting \cup {"none"}

Next ==
  \/ Observed /\ (UnitNext \/ TimePasses) /\ UNCHANGED <<readyVars, probeVars>>
  \/ WaitStep /\ UNCHANGED <<unitVars, probeVars>>
  \/ pc = "none" /\ (\E r \in Readers : ProbeStep(r)) /\ UNCHANGED <<unitVars, readyVars>>

Spec == Init /\ [][Next]_vars

----------------------------------------------------------------------------

\* Every variable is of its kind, and no deadline is further away than the
\* settings allow.
WatchTypeOK == UnitTypeOK /\ ReadyTypeOK /\ ProbeTypeOK

\* The end of the wait with the unit called ready.
BecomesReady == pc # "ready" /\ pc' = "ready"

\* docs/DEPLOY.md:282.  A unit that nobody else starts is called ready only
\* after it has run for the settle time, and it still ran when it was looked at
\* last, whatever it did in between.
ReadyMeansUp ==
  [][BecomesReady /\ restarts = 0 => ran >= Settle /\ (running \/ since = now)]_vars

\* docs/DEPLOY.md:285.  A unit that has failed and stays so ends the wait after
\* the sleep in progress; through the wrapper when its chunk is over.
FailureEndsWait ==
  pc \in Waiting /\ failed => now - since <= (IF wrapper THEN Chunk + Settle ELSE Settle + 1)

\* The wait, during which the worker holds the row lock and its task, is over
\* at its deadline or with the chunk in progress, for a unit that keeps coming
\* and going too.
WaitEndsInTime == pc \in Waiting => now <= MaxWait + Chunk + Settle

Answers(r, what) == answer[r] = "none" /\ answer'[r] = what

\* Requests that overlap, and probes that took long, leave no old success
\* behind: what is shown online runs now and was reached, during the request or
\* no longer ago than a success may be kept.
OnlineIsRecent ==
  [][\A r \in Readers : Answers(r, "online") =>
       \/ now - lastUp < SuccessTtl
       \/ asks[r] = "probed" /\ lastUp >= began[r]]_vars

\* Nor an old failure: one is forgotten sooner than a success.
OfflineIsRecent ==
  [][\A r \in Readers : Answers(r, "offline") =>
       \/ now - lastDown < FailureTtl
       \/ asks[r] = "probed" /\ lastDown >= began[r]
       \/ ~(running /\ listening)]_vars

----------------------------------------------------------------------------
(* What these rest on                                                       *)

\* How late each step of the wait may be.
WaitOnTime ==
  /\ pc = "chunk" => now <= MaxWait
  /\ pc \in {"poll", "settle", "journal", "sleep", "over", "caught"} => chunkEnd < MaxWait + Chunk
  /\ pc \in {"poll", "over", "caught"} => now <= chunkEnd + Settle
  /\ pc = "settle"  => now <= wake /\ wake < chunkEnd + Settle
  /\ pc = "journal" => now < chunkEnd + Settle
  /\ pc = "sleep"   => now <= wake /\ wake <= chunkEnd + Settle

\* A failure is younger than the chunk, and without the wrapper than the sleep
\* in progress.
FailureIsYoung ==
  pc \in Waiting /\ failed =>
    /\ pc = "journal" => since = now
    /\ wrapper => (IF pc = "chunk" THEN since = now ELSE chunkEnd <= since + Chunk)
    /\ ~wrapper => (IF pc \in {"settle", "sleep"} THEN wake ELSE now) <= since + Settle + 1

\* A process nobody has restarted runs from the beginning of the wait.
RanAllAlong ==
  /\ running /\ restarts = 0 => ran = now
  /\ pc = "settle" => wake >= Settle
  /\ pc = "journal" /\ restarts = 0 => ran >= Settle /\ (running \/ since = now)

\* The two clocks tell when clients were served last, and the cache and the
\* probes under way are no younger than what they say.
ProbesHonest ==
  /\ IF Up THEN lastUp = now ELSE lastDown = now
  /\ cache.at # -1 => cache.at <= (IF cache.reachable THEN lastUp ELSE lastDown)
  /\ \A r \in Readers : asks[r] = "probed" =>
       began[r] <= (IF found[r] THEN lastUp ELSE lastDown)

\* The inductive invariant.
WatchSafety == WatchTypeOK /\ WaitOnTime /\ FailureIsYoung /\ RanAllAlong /\ ProbesHonest

=============================================================================
