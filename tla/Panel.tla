------------------------------- MODULE Panel -------------------------------
(***************************************************************************)
(* The life of a config: the admin API, the broker, the workers, the       *)
(* database and the host together.                                         *)
(***************************************************************************)
EXTENDS ConfigApi, ConfigWorker

vars == <<dbVars, hostVars, brokerVars, clientVars, workerVars, faultsLeft>>

Init ==
  /\ StoreInit /\ HostInit /\ BrokerInit /\ ClientInit /\ WorkerInit
  /\ faultsLeft = MaxFaults

ApiNext ==
  /\ \E a \in Clients :
       \/ \E c \in Configs : ApiRequest(a, c)
       \/ ApiStep(a)
       \/ ApiFault(a)
  /\ UNCHANGED workerVars

WorkerNext ==
  /\ \/ \E w \in Workers :
          \/ \E t \in Tasks : Pull(w, t)
          \/ WorkerStep(w)
          \/ WorkerFault(w)
     \/ \E t \in Tasks : LeaseExpires(t)
  /\ UNCHANGED clientVars

Next == ApiNext \/ WorkerNext

Spec == Init /\ [][Next]_vars

\* Requests and workers do not stop by themselves (uvicorn and asyncio keep
\* running them, systemd restarts what dies), an idle worker pulls, and the
\* broker lets a lease that nobody renews run out.  Nobody owes a request.
Fairness ==
  /\ \A a \in Clients : WF_vars(ApiStep(a) /\ UNCHANGED workerVars)
  /\ \A w \in Workers :
       /\ WF_vars(WorkerStep(w) /\ UNCHANGED clientVars)
       /\ WF_vars(\E t \in Tasks : Pull(w, t) /\ UNCHANGED clientVars)
  /\ \A t \in Tasks : WF_vars(LeaseExpires(t) /\ UNCHANGED clientVars)

FairSpec == Spec /\ Fairness

----------------------------------------------------------------------------
(* Invariants                                                               *)

\* Every variable holds what the code can store in it; a task in hand or in
\* the broker names a config and a version.
TypeOK ==
  /\ StoreTypeOK /\ HostTypeOK /\ BrokerTypeOK /\ ClientTypeOK /\ WorkerTypeOK
  /\ faultsLeft \in 0..MaxFaults

Exists(c) == status[c] # "none"

\* The version numbers of a config have no gap: build_and_persist_version can
\* always read the previous snapshot a regenerate carries keys and ports from.
VersionsContiguous ==
  \A c \in Configs : \A u, v \in Versions :
    u <= v /\ has_version(c, v) => has_version(c, u)

\* current_version never names a version that is not stored, whatever mix of
\* rollbacks, redeliveries and stale flushes led to it.
CurrentExists ==
  \A c \in Configs : current[c] # 0 => has_version(c, current[c])

\* An active config has a current version, although mark_active writes the
\* two columns only where they differ from a row that may be stale.
ActiveHasVersion ==
  \A c \in Configs : status[c] = "active" => current[c] # 0

\* A task that the broker counts as done left its version behind: no order of
\* crashes, lost leases and retries acks work that was rolled back.
CompletedHasVersion ==
  \A t \in Tasks :
    taskState[t] = "COMPLETED" => has_version(taskConfig[t], taskTarget[t])

\* Sessions that may be writing the live files of c, with the lock or not.
Writers(c) ==
  {w \in Workers : wpc[w] \in Building /\ Config(w) = c} \cup
  {a \in Clients : apc[a] \in EditLocked /\ aconfig[a] = c}

\* The live files of a config are written by one session at a time, although
\* nothing but the row lock of an early UPDATE keeps two workers and the
\* config_data editor apart.
OneWriter ==
  \A c \in Configs : \A s1, s2 \in Writers(c) : s1 = s2

\* Nobody else waits for a lock its holder has forgotten: a taken row lock is
\* held by a session that is still building or editing that very config.
LockIsHeld ==
  \A c \in Configs : rowLock[c] # NoOne => rowLock[c] \in Writers(c)

\* No worker is busy with c and no request on c is in flight.
Quiet(c) ==
  /\ \A w \in Workers : wpc[w] # "idle" => Config(w) # c
  /\ \A a \in Clients : aconfig[a] # c

\* Every version of c was asked for by one task at most.  The busy check of
\* regenerate is meant to see to it and does not always, for two requests may
\* both pass it before either takes the lock.
TargetsDistinct(c) ==
  \A t1, t2 \in 1..ntasks :
    taskConfig[t1] = c /\ taskConfig[t2] = c /\ taskTarget[t1] = taskTarget[t2] => t1 = t2

\* A config that is shown as active runs exactly the snapshot its current
\* version stores, so the share links handed out fit the process that listens.
\* Stated for configs no version of which was asked for twice, and checked
\* where no lease is lost and nobody edits config_data: each of the three
\* makes the code break it.
ServesWhatItStores ==
  \A c \in Configs :
    (isActive[c] /\ status[c] = "active" /\ Quiet(c) /\ TargetsDistinct(c))
      => /\ proc[c] = <<current[c], versions[c][current[c]]>>
         /\ live[c] = proc[c]

\* README.md:131.  A config that is stored as pending has a task, or a request
\* that is about to publish one: otherwise it is busy for ever.  Checked where
\* no process dies, the broker answers and mark_failed gets through.
PendingIsQueued ==
  \A c \in Configs : status[c] = "pending" =>
    \/ \E a \in Clients : apc[a] = "publish" /\ aconfig[a] = c
    \/ \E t \in Tasks : taskState[t] \in {"PENDING", "PROCESSING"} /\ taskConfig[t] = c

----------------------------------------------------------------------------
(* What these invariants rest on, conjunct by conjunct                      *)

\* The version before the one a task asks for exists, or none is before it.
TargetsFollow ==
  \A t \in 1..ntasks :
    taskTarget[t] > 1 => has_version(taskConfig[t], taskTarget[t] - 1)

\* So does the version before the one a request is about to ask for.
RequestsFollow ==
  \A a \in Clients :
    apc[a] = "publish" /\ aversion[a] > 1 => has_version(aconfig[a], aversion[a] - 1)

\* The version being edited exists.
EditsExist ==
  \A a \in Clients :
    apc[a] \in {"edit"} \cup EditLocked => has_version(aconfig[a], aversion[a])

\* A worker reactivates or acks only what is stored.
DoneIsStored ==
  \A w \in Workers :
    wpc[w] \in {"reactivate", "ack"} => has_version(Config(w), Target(w))

\* A current_version that the loaded row has is still there to be kept.
LoadedCurrentStays ==
  \A w \in Workers :
    wpc[w] = "reactivate" /\ wrow[w].current # 0 => current[Config(w)] # 0

\* The row lock of a config is held by exactly the session that builds or edits it.
LockOwned ==
  \A c \in Configs, s \in Sessions : rowLock[c] = s <=> s \in Writers(c)

\* The inductive invariant.
Safety ==
  /\ TypeOK
  /\ VersionsContiguous /\ CurrentExists /\ ActiveHasVersion /\ CompletedHasVersion
  /\ TargetsFollow /\ RequestsFollow /\ EditsExist /\ DoneIsStored
  /\ LoadedCurrentStays /\ LockOwned

----------------------------------------------------------------------------
(* What PendingIsQueued rests on                                            *)

\* The worker is yet to write a status over "pending", or to hand the task back
\* for another try.  A flush of a row that already had the new status leaves the
\* stored one alone.
Settles(w) ==
  \/ wpc[w] \in {"check", "lock", "failing"} \cup Building
  \/ wpc[w] = "reactivate" /\ wrow[w].status # "active"
  \/ wpc[w] = "markFailed" /\ wrow[w].status # "failed"
  \/ wpc[w] \in {"markFailed", "nack"} /\ taskRetries[wtask[w]] < MaxRetries

\* The task will be handed out, or whoever has it in hand settles the config.
Outstanding(t) ==
  \/ taskState[t] = "PENDING"
  \/ /\ taskState[t] = "PROCESSING"
     /\ \A w \in Workers : taskHolder[t] = w /\ wtask[w] = t => Settles(w)

\* A pending config is settled by a task that is outstanding or will be.
PendingIsSettled ==
  \A c \in Configs : status[c] = "pending" =>
    \/ \E a \in Clients : apc[a] = "publish" /\ aconfig[a] = c
    \/ \E t \in Tasks : Outstanding(t) /\ taskConfig[t] = c

\* Two kinds of step leave a config pending for ever.  A request dies between
\* its commit and its call to the broker ...
DiesBeforePublish == \E a \in Clients : apc[a] = "publish" /\ RequestDies(a)

\* ... or the last try of a task fails and mark_failed fails too: the nack makes
\* the task DEAD and nobody has written "failed".
FailureIsLost ==
  \E w \in Workers :
    /\ MarkFailedRaises(w)
    /\ Holds(w, wtask[w]) /\ taskRetries[wtask[w]] = MaxRetries

----------------------------------------------------------------------------
(* What ServesWhatItStores rests on                                         *)

\* No process has died, no call to the broker has broken and mark_failed has
\* not raised so far.
Undisturbed == faultsLeft = MaxFaults

\* Then a task in hand is leased to the worker that has it, which renews the
\* lease, and every leased task is in hand: no lease runs out.
LeasesAreKept ==
  /\ \A w \in Workers : wpc[w] # "idle" => Holds(w, wtask[w]) /\ wbeats[w]
  /\ \A t \in Tasks : taskState[t] = "PROCESSING" =>
       \E w \in Workers : wpc[w] # "idle" /\ wtask[w] = t

\* No request edits config_data.
NobodyEdits == \A a \in Clients : apc[a] \notin {"edit"} \cup EditLocked

\* A stored version was asked for by a task.
VersionsHaveTasks ==
  \A c \in Configs : \A v \in Versions : has_version(c, v) =>
    \E t \in 1..ntasks : taskConfig[t] = c /\ taskTarget[t] = v

\* Nothing is asked of a config before create_pending.
NothingBeforeCreate ==
  \A c \in Configs : status[c] = "none" =>
    /\ \A t \in 1..ntasks : taskConfig[t] # c
    /\ \A a \in Clients : apc[a] = "publish" => aconfig[a] # c

\* The current version is the last one, and what is asked for follows it.
InTurn(c) ==
  /\ \A v \in Versions : has_version(c, v) <=> v <= current[c]
  /\ \A t \in 1..ntasks : taskConfig[t] = c => taskTarget[t] <= current[c] + 1
  /\ \A a \in Clients : apc[a] = "publish" /\ aconfig[a] = c => aversion[a] <= current[c] + 1

\* A version that is stored is neither queued nor being built.
BuiltOnce(c) ==
  /\ \A t \in Tasks :
       taskState[t] = "PENDING" /\ taskConfig[t] = c => ~has_version(c, taskTarget[t])
  /\ \A w \in Workers :
       wpc[w] \notin {"idle", "ack"} /\ Config(w) = c => ~has_version(c, Target(w))

\* While the config is active everything asked for is stored.
ActiveIsUpToDate(c) == status[c] = "active" =>
  /\ \A t \in 1..ntasks : taskConfig[t] = c => has_version(c, taskTarget[t])
  /\ \A a \in Clients : apc[a] = "publish" /\ aconfig[a] = c => has_version(c, aversion[a])

\* A request has removed the unit of c and not yet marked c as deleted.
Deleting(c) == \E a \in Clients : apc[a] \in {"deleteLive", "delete"} /\ aconfig[a] = c

\* Until c is deleted, its files and its process are those of the current
\* version, or of the build that has written and installed its own.
HostFollows(c) == isActive[c] /\ ~Deleting(c) =>
  /\ status[c] = "active" => live[c] = <<current[c], versions[c][current[c]]>> /\ proc[c] = live[c]
  /\ \A w \in Workers : wpc[w] \in {"written", "installed"} /\ Config(w) = c =>
       /\ live[c] = <<Target(w), w>>
       /\ wpc[w] = "installed" => proc[c] = live[c]

\* The inductive invariant, on top of Safety, where nobody edits config_data.
Serving ==
  /\ NobodyEdits /\ VersionsHaveTasks /\ NothingBeforeCreate
  /\ Undisturbed =>
       /\ LeasesAreKept
       /\ \A c \in Configs : TargetsDistinct(c) =>
            InTurn(c) /\ BuiltOnce(c) /\ ActiveIsUpToDate(c) /\ HostFollows(c)

----------------------------------------------------------------------------
(* Action properties                                                        *)

\* A stored snapshot is never removed and never written by a second build:
\* a share link to (config, version) survives every regenerate and retry.
SnapshotsSurvive ==
  [][\A c \in Configs, v \in Versions :
       has_version(c, v) => /\ has_version(c, v)'
                            /\ versions'[c][v] # versions[c][v] => versions'[c][v] \in Edits]_vars

----------------------------------------------------------------------------
(* Refinement                                                               *)

Log == INSTANCE VersionLog WITH
         log  <- [c \in Configs |-> {v \in Versions : has_version(c, v)}],
         head <- current

\* The panel implements the version log: versions are appended one by one and
\* current_version moves inside them.
ImplementsVersionLog == Log!LogSpec

----------------------------------------------------------------------------
(* Liveness, under FairSpec                                                 *)

\* A task that waits in the broker ends: acked, or dead after its retries.
TasksSettle ==
  \A t \in Tasks : taskState[t] = "PENDING" ~> taskState[t] \in {"COMPLETED", "DEAD"}

\* A config with a task in the queue does not stay pending.
QueuedLeadsOutOfPending ==
  \A t \in Tasks : \A c \in Configs :
    taskState[t] = "PENDING" /\ taskConfig[t] = c ~> status[c] # "pending"

\* Whoever waits for the row of a config gets it: no request and no worker is
\* left behind a session that never ends.
RequestsEnd ==
  \A a \in Clients : apc[a] # "idle" ~> apc[a] = "idle"

----------------------------------------------------------------------------
(* What the documents say and the code does not do                          *)

\* docs/DEPLOY.md:278, deleting a config removes its unit.
DeletedHasNoUnit ==
  \A c \in Configs : Exists(c) /\ ~isActive[c] => ~unit[c]

=============================================================================
