---------------------------- MODULE ConfigWorker ----------------------------
(***************************************************************************)
(* The worker processes: worker/main.py pulls a task, keeps its lease      *)
(* alive, runs the handler and acks or nacks; the handlers of              *)
(* config.initialize and config.regenerate are _run_config_task            *)
(* (worker/services/config_task.py) with build_and_persist_version.        *)
(* Several workers run at once and share only the database, the broker and *)
(* the host's files.                                                       *)
(***************************************************************************)
EXTENDS Broker, HostFiles

VARIABLES
  wpc,         \* where the worker is
  wtask,       \* the task it pulled; 0 when it waits in broker.pull
  wrow,        \* the vpn_configs row its open session has loaded
  wbeats       \* the heartbeat loop of the task still runs

workerVars == <<wpc, wtask, wrow, wbeats>>

WorkerStates == {"idle", "check", "lock", "locked", "stopped", "written", "installed",
                 "reactivate", "failing", "markFailed", "nack", "ack"}

\* The transaction of build_and_persist_version is open and holds the row lock.
Building == {"locked", "stopped", "written", "installed"}

NoRow == [status |-> "none", current |-> 0, errmsg |-> FALSE]

WorkerTypeOK ==
  /\ wpc    \in [Workers -> WorkerStates]
  /\ wtask  \in [Workers -> 0..MaxTasks]
  /\ wrow   \in [Workers -> LoadedRow]
  /\ wbeats \in [Workers -> BOOLEAN]
  /\ \A w \in Workers : wpc[w] # "idle" => wtask[w] \in 1..ntasks

WorkerInit ==
  /\ wpc    = [w \in Workers |-> "idle"]
  /\ wtask  = [w \in Workers |-> 0]
  /\ wrow   = [w \in Workers |-> NoRow]
  /\ wbeats = [w \in Workers |-> FALSE]

\* payload["config_id"] and payload["target_version"] of the task in hand.
Config(w) == taskConfig[wtask[w]]
Target(w) == taskTarget[wtask[w]]

\* Move on inside the handler, forgetting the loaded row.
Continue(w, state) ==
  /\ wpc'  = [wpc  EXCEPT ![w] = state]
  /\ wrow' = [wrow EXCEPT ![w] = NoRow]
  /\ UNCHANGED <<wtask, wbeats>>

\* The same, keeping the row a SELECT has just loaded.
ContinueWith(w, state, row) ==
  /\ wpc'  = [wpc  EXCEPT ![w] = state]
  /\ wrow' = [wrow EXCEPT ![w] = row]
  /\ UNCHANGED <<wtask, wbeats>>

\* Back to broker.pull, by the loop or through a restart of the process.
Release(w) ==
  /\ wpc'    = [wpc    EXCEPT ![w] = "idle"]
  /\ wtask'  = [wtask  EXCEPT ![w] = 0]
  /\ wrow'   = [wrow   EXCEPT ![w] = NoRow]
  /\ wbeats' = [wbeats EXCEPT ![w] = FALSE]

----------------------------------------------------------------------------

\* run_worker: broker.pull answered with a task; _process_task starts the
\* heartbeat loop.
Pull(w, t) ==
  /\ wpc[w] = "idle"
  /\ pull(w, t)
  /\ wpc'    = [wpc    EXCEPT ![w] = "check"]
  /\ wtask'  = [wtask  EXCEPT ![w] = t]
  /\ wbeats' = [wbeats EXCEPT ![w] = TRUE]
  /\ UNCHANGED <<wrow, dbVars, hostVars, faultsLeft>>

\* has_version answers.  When the row is there mark_active loads the config row (the
\* version cannot go away in between); otherwise the handler goes on to
\* mark_processing, whose UPDATE waits for the row lock.
CheckVersion(w) ==
  /\ wpc[w] = "check"
  /\ IF has_version(Config(w), Target(w))
       THEN ContinueWith(w, "reactivate", Loaded(Config(w)))
       ELSE Continue(w, "lock")
  /\ UNCHANGED <<dbVars, hostVars, brokerVars, faultsLeft>>

\* The idempotent path: mark_active is flushed by the commit.
Reactivate(w) ==
  /\ wpc[w] = "reactivate" /\ rowLock[Config(w)] = NoOne
  /\ mark_active(Config(w), Target(w), wrow[w])
  /\ Continue(w, "ack")
  /\ UNCHANGED <<hostVars, brokerVars, faultsLeft>>

\* mark_processing is flushed by the first SELECT of build_and_persist_version.
\* It is never committed by itself: "processing" stays inside the transaction.
MarkProcessing(w) ==
  /\ wpc[w] = "lock"
  /\ LockRow(Config(w), w)
  /\ Continue(w, "locked")
  /\ UNCHANGED <<hostVars, brokerVars, faultsLeft>>

\* A regenerate stops the running unit before it builds.
StopUnit(w) ==
  /\ wpc[w] = "locked"
  /\ IF Target(w) > 1 THEN stop_config_unit(Config(w)) ELSE UNCHANGED hostVars
  /\ Continue(w, "stopped")
  /\ UNCHANGED <<dbVars, brokerVars, faultsLeft>>

\* builder.build with new keys, and write_files up to the live file.
BuildAndWrite(w) ==
  /\ wpc[w] = "stopped"
  /\ WriteLive(Config(w), Target(w), w)
  /\ Continue(w, "written")
  /\ UNCHANGED <<dbVars, brokerVars, faultsLeft>>

\* install_config_unit saw the service come up.
InstallUnit(w) ==
  /\ wpc[w] = "written"
  /\ install_config_unit(Config(w))
  /\ Continue(w, "installed")
  /\ UNCHANGED <<dbVars, brokerVars, faultsLeft>>

\* install_config_unit raised (ServiceNotReadyError).
InstallRaises(w) ==
  /\ wpc[w] = "written"
  /\ install_config_unit_raises(Config(w))
  /\ Rollback(w)
  /\ Continue(w, "failing")
  /\ UNCHANGED <<brokerVars, faultsLeft>>

\* insert_version, mark_active and the commit.
Persist(w) ==
  /\ wpc[w] = "installed"
  /\ ~has_version(Config(w), Target(w))
  /\ commit_version(Config(w), Target(w), w)
  /\ Continue(w, "ack")
  /\ UNCHANGED <<hostVars, brokerVars, faultsLeft>>

\* Mutant: insert_version overwrites the row that is there.
PersistConflict_Overwrites(w) ==
  /\ wpc[w] = "installed"
  /\ has_version(Config(w), Target(w))
  /\ commit_version(Config(w), Target(w), w)
  /\ Continue(w, "ack")
  /\ UNCHANGED <<hostVars, brokerVars, faultsLeft>>

\* insert_version hits the unique constraint on (config_id, version).
PersistConflict(w) ==
  /\ wpc[w] = "installed"
  /\ has_version(Config(w), Target(w))
  /\ Rollback(w)
  /\ Continue(w, "failing")
  /\ UNCHANGED <<hostVars, brokerVars, faultsLeft>>

\* Inside the try of _run_config_task.
Handling == {"check", "reactivate", "lock"} \cup Building

\* Mutant: the handler swallows the exception.
HandlerRaises_Swallowed(w) ==
  /\ wpc[w] \in Handling
  /\ Rollback(w)
  /\ Continue(w, "ack")
  /\ UNCHANGED <<hostVars, brokerVars, faultsLeft>>

\* Mutant: the handler raises without mark_failed.
HandlerRaises_Unmarked(w) ==
  /\ wpc[w] \in Handling
  /\ Rollback(w)
  /\ Continue(w, "nack")
  /\ UNCHANGED <<hostVars, brokerVars, faultsLeft>>

\* Any other exception inside the try, as often as it likes: a database call
\* before the lock or under it, no free port, a write error, a command that
\* fails, the nginx sync after the unit is up.
HandlerRaises(w) ==
  /\ wpc[w] \in Handling
  /\ Rollback(w)
  /\ Continue(w, "failing")
  /\ UNCHANGED <<hostVars, brokerVars, faultsLeft>>

\* mark_failed in a session of its own: the SELECT ...
LoadForMarkFailed(w) ==
  /\ wpc[w] = "failing"
  /\ ContinueWith(w, "markFailed", Loaded(Config(w)))
  /\ UNCHANGED <<dbVars, hostVars, brokerVars, faultsLeft>>

\* ... and the UPDATE its commit flushes.
MarkFailed(w) ==
  /\ wpc[w] = "markFailed" /\ rowLock[Config(w)] = NoOne
  /\ \E sameMessage \in BOOLEAN : mark_failed(Config(w), wrow[w], sameMessage)
  /\ Continue(w, "nack")
  /\ UNCHANGED <<hostVars, brokerVars, faultsLeft>>

\* mark_failed or its commit raises, as does the rollback before it: the error
\* leaves the handler in place of the first one, and run_worker nacks the task
\* all the same.
MarkFailedRaises(w) ==
  /\ wpc[w] \in {"failing", "markFailed"}
  /\ Fault
  /\ Continue(w, "nack")
  /\ UNCHANGED <<dbVars, hostVars, brokerVars>>

\* The handler returned.  When the lease is gone the broker refuses, the error
\* ends run_worker and systemd restarts the process: idle again either way.
Ack(w) ==
  /\ wpc[w] = "ack"
  /\ IF Holds(w, wtask[w]) THEN ack(w, wtask[w]) ELSE UNCHANGED brokerVars
  /\ Release(w)
  /\ UNCHANGED <<dbVars, hostVars, faultsLeft>>

\* The handler raised.
Nack(w) ==
  /\ wpc[w] = "nack"
  /\ IF Holds(w, wtask[w]) THEN nack(w, wtask[w]) ELSE UNCHANGED brokerVars
  /\ Release(w)
  /\ UNCHANGED <<dbVars, hostVars, faultsLeft>>

----------------------------------------------------------------------------

\* The process is killed, or ack/nack fails on the wire and ends it: the open
\* transaction is rolled back, the lease is left to run out.
WorkerDies(w) ==
  /\ wpc[w] # "idle"
  /\ Fault
  /\ Rollback(w)
  /\ Release(w)
  /\ UNCHANGED <<hostVars, brokerVars>>

\* One heartbeat fails: the exception ends heartbeat_loop, the handler goes on.
HeartbeatFails(w) ==
  /\ wpc[w] # "idle" /\ wbeats[w]
  /\ Fault
  /\ wbeats' = [wbeats EXCEPT ![w] = FALSE]
  /\ UNCHANGED <<wpc, wtask, wrow, dbVars, hostVars, brokerVars>>

\* Somebody still renews the lease of t.
Renewed(t) == \E w \in Workers : wtask[w] = t /\ wbeats[w] /\ taskHolder[t] = w

\* The lease runs out once nobody renews it.
LeaseExpires(t) ==
  /\ ~Renewed(t)
  /\ LeaseRunsOut(t)
  /\ UNCHANGED <<workerVars, dbVars, hostVars, faultsLeft>>

WorkerStep(w) ==
  \/ CheckVersion(w) \/ Reactivate(w) \/ MarkProcessing(w) \/ StopUnit(w)
  \/ BuildAndWrite(w) \/ InstallUnit(w) \/ InstallRaises(w)
  \/ Persist(w) \/ PersistConflict(w) \/ HandlerRaises(w)
  \/ LoadForMarkFailed(w) \/ MarkFailed(w) \/ Ack(w) \/ Nack(w)

WorkerFault(w) == WorkerDies(w) \/ HeartbeatFails(w) \/ MarkFailedRaises(w)

=============================================================================
