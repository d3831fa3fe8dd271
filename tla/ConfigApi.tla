------------------------------ MODULE ConfigApi ------------------------------
(***************************************************************************)
(* The requests of the admin API that change a config: create, regenerate, *)
(* edit config_data, delete (application/*.py with the routers that commit *)
(* for them).  A request runs in a database session of its own; the steps  *)
(* below end where the request awaits something others can change.         *)
(***************************************************************************)
EXTENDS Broker, HostFiles, FiniteSets

CONSTANT Requests    \* the kinds of request that arrive

RequestKinds == {"create", "regenerate", "edit", "delete"}

ASSUME RequestsAssumption == Requests \subseteq RequestKinds

VARIABLES
  apc,         \* where the request is
  aconfig,     \* the config it is about
  aversion,    \* target_version of the task, or the version being edited
  atask,       \* the published task
  asawError,   \* error_message IS NOT NULL in the row prepare_regenerate loaded
  abody        \* the submitted config_data

clientVars == <<apc, aconfig, aversion, atask, asawError, abody>>

ClientStates == {"idle", "regenerate", "publish", "setLast", "saveLast",
                 "edit", "editLocked", "editWritten", "editInstalled", "deleteLive", "delete"}

\* The request has flushed an UPDATE of the row and not committed.
EditLocked == {"editLocked", "editWritten", "editInstalled"}

ClientTypeOK ==
  /\ apc       \in [Clients -> ClientStates]
  /\ aconfig   \in [Clients -> Configs \cup {NoOne}]
  /\ aversion  \in [Clients -> 0..MaxVersion]
  /\ atask     \in [Clients -> 0..MaxTasks]
  /\ asawError \in [Clients -> BOOLEAN]
  /\ abody     \in [Clients -> Edits \cup {NoOne}]
  /\ \A a \in Clients :
       /\ apc[a] # "idle" => aconfig[a] \in Configs
       /\ apc[a] \in {"publish", "edit"} \cup EditLocked => aversion[a] \in Versions
       /\ apc[a] \in {"edit"} \cup EditLocked => abody[a] \in Edits

ClientInit ==
  /\ apc       = [a \in Clients |-> "idle"]
  /\ aconfig   = [a \in Clients |-> NoOne]
  /\ aversion  = [a \in Clients |-> 0]
  /\ atask     = [a \in Clients |-> 0]
  /\ asawError = [a \in Clients |-> FALSE]
  /\ abody     = [a \in Clients |-> NoOne]

\* Move on inside the request.
Goto(a, state) ==
  /\ apc' = [apc EXCEPT ![a] = state]
  /\ UNCHANGED <<aconfig, aversion, atask, asawError, abody>>

\* The response is sent; the session is closed and forgets what it loaded.
Respond(a) ==
  /\ apc'       = [apc       EXCEPT ![a] = "idle"]
  /\ aconfig'   = [aconfig   EXCEPT ![a] = NoOne]
  /\ aversion'  = [aversion  EXCEPT ![a] = 0]
  /\ atask'     = [atask     EXCEPT ![a] = 0]
  /\ asawError' = [asawError EXCEPT ![a] = FALSE]
  /\ abody'     = [abody     EXCEPT ![a] = NoOne]

\* Bound: a task is only asked for while MaxTasks leaves room to publish it.
RoomForTask ==
  ntasks + Cardinality({a \in Clients : apc[a] \in {"regenerate", "publish"}}) < MaxTasks

----------------------------------------------------------------------------
(* POST /configs and POST /configs/{id}/regenerate                          *)

\* CreateConfigUseCase up to its first commit; the id is fresh.
CreateConfig(a, c) ==
  /\ "create" \in Requests
  /\ apc[a] = "idle" /\ status[c] = "none" /\ RoomForTask
  /\ create_pending(c)
  /\ apc'      = [apc      EXCEPT ![a] = "publish"]
  /\ aconfig'  = [aconfig  EXCEPT ![a] = c]
  /\ aversion' = [aversion EXCEPT ![a] = 1]
  /\ UNCHANGED <<atask, asawError, abody, hostVars, brokerVars, faultsLeft>>

\* RegenerateConfigUseCase: the checks of execute, and the SELECT and the
\* checks of prepare_regenerate.  The row is changed in memory only.
RegenerateCheck(a, c) ==
  /\ "regenerate" \in Requests
  /\ apc[a] = "idle" /\ RoomForTask
  /\ Visible(c) /\ current[c] # 0 /\ ~Busy(c)
  /\ current[c] < MaxVersion
  /\ apc'       = [apc       EXCEPT ![a] = "regenerate"]
  /\ aconfig'   = [aconfig   EXCEPT ![a] = c]
  /\ asawError' = [asawError EXCEPT ![a] = errmsg[c]]
  /\ UNCHANGED <<aversion, atask, abody, dbVars, hostVars, brokerVars, faultsLeft>>

\* Mutant: the target version is counted up twice.
RegenerateCommit_SkipsOne(a) ==
  LET c == aconfig[a] IN
  /\ apc[a] = "regenerate" /\ rowLock[c] = NoOne
  /\ \/ /\ Visible(c) /\ current[c] + 1 < MaxVersion
        /\ prepare_regenerate(c, asawError[a])
        /\ apc'      = [apc      EXCEPT ![a] = "publish"]
        /\ aversion' = [aversion EXCEPT ![a] = current[c] + 2]
        /\ UNCHANGED <<aconfig, atask, asawError, abody>>
     \/ /\ ~Visible(c) \/ current[c] + 1 >= MaxVersion
        /\ Respond(a)
        /\ UNCHANGED dbVars
  /\ UNCHANGED <<hostVars, brokerVars, faultsLeft>>

\* get_regenerate_context: its SELECT first flushes the UPDATE, which waits
\* for the row lock, then reads current_version under the lock; commit.  A row
\* that was deleted meanwhile is not found and the ValueError ends the request.
\* (A request that would pass MaxVersion ends the same way: the bound.)
RegenerateCommit(a) ==
  LET c == aconfig[a] IN
  /\ apc[a] = "regenerate" /\ rowLock[c] = NoOne
  /\ \/ /\ Visible(c) /\ current[c] < MaxVersion
        /\ prepare_regenerate(c, asawError[a])
        /\ apc'      = [apc      EXCEPT ![a] = "publish"]
        /\ aversion' = [aversion EXCEPT ![a] = current[c] + 1]
        /\ UNCHANGED <<aconfig, atask, asawError, abody>>
     \/ /\ ~Visible(c) \/ current[c] = MaxVersion
        /\ Respond(a)
        /\ UNCHANGED dbVars
  /\ UNCHANGED <<hostVars, brokerVars, faultsLeft>>

\* broker.publish_task
PublishTask(a) ==
  /\ apc[a] = "publish"
  /\ publish_task(aconfig[a], aversion[a])
  /\ apc'   = [apc   EXCEPT ![a] = "setLast"]
  /\ atask' = [atask EXCEPT ![a] = ntasks + 1]
  /\ UNCHANGED <<aconfig, aversion, asawError, abody, dbVars, hostVars, faultsLeft>>

\* The broker stored the task and its answer was lost: httpx raises, the
\* request ends with an error and last_task_id is not set.
PublishAnswerLost(a) ==
  /\ apc[a] = "publish"
  /\ Fault
  /\ publish_task(aconfig[a], aversion[a])
  /\ Respond(a)
  /\ UNCHANGED <<dbVars, hostVars>>

\* The SELECT of set_last_task_id, which does not find a deleted config.
SetLastTask(a) ==
  /\ apc[a] = "setLast"
  /\ IF Visible(aconfig[a]) THEN Goto(a, "saveLast") ELSE Respond(a)
  /\ UNCHANGED <<dbVars, hostVars, brokerVars, faultsLeft>>

\* The commit that flushes it: the UPDATE waits for the row lock.
SaveLastTask(a) ==
  /\ apc[a] = "saveLast" /\ rowLock[aconfig[a]] = NoOne
  /\ set_last_task_id(aconfig[a], atask[a])
  /\ Respond(a)
  /\ UNCHANGED <<hostVars, brokerVars, faultsLeft>>

----------------------------------------------------------------------------
(* PUT /configs/{id}/config-data                                            *)

\* UpdateConfigDataUseCase up to update_version_config_data: the busy check
\* and the version to edit come from this read.
EditCheck(a, c, body) ==
  /\ "edit" \in Requests
  /\ apc[a] = "idle"
  /\ Visible(c) /\ current[c] # 0 /\ ~Busy(c)
  /\ has_version(c, current[c])
  /\ apc'      = [apc      EXCEPT ![a] = "edit"]
  /\ aconfig'  = [aconfig  EXCEPT ![a] = c]
  /\ aversion' = [aversion EXCEPT ![a] = current[c]]
  /\ abody'    = [abody    EXCEPT ![a] = body]
  /\ UNCHANGED <<atask, asawError, dbVars, hostVars, brokerVars, faultsLeft>>

\* update_version_config_data flushes both rows.
EditFlush(a) ==
  /\ apc[a] = "edit"
  /\ LockRow(aconfig[a], a)
  /\ Goto(a, "editLocked")
  /\ UNCHANGED <<hostVars, brokerVars, faultsLeft>>

\* _get_model inside update_version_config_data no longer finds the config.
EditGone(a) ==
  /\ apc[a] = "edit" /\ ~Visible(aconfig[a])
  /\ Respond(a)
  /\ UNCHANGED <<dbVars, hostVars, brokerVars, faultsLeft>>

\* write_files in a thread: the live file ...
EditWrite(a) ==
  /\ apc[a] = "editLocked"
  /\ WriteLive(aconfig[a], aversion[a], abody[a])
  /\ Goto(a, "editWritten")
  /\ UNCHANGED <<dbVars, brokerVars, faultsLeft>>

\* ... and the unit.
EditInstall(a) ==
  /\ apc[a] = "editWritten"
  /\ install_config_unit(aconfig[a])
  /\ Goto(a, "editInstalled")
  /\ UNCHANGED <<dbVars, brokerVars, faultsLeft>>

\* install_config_unit raises: the session is closed without a commit.
EditInstallRaises(a) ==
  /\ apc[a] = "editWritten"
  /\ install_config_unit_raises(aconfig[a])
  /\ Rollback(a)
  /\ Respond(a)
  /\ UNCHANGED <<brokerVars, faultsLeft>>

\* session.commit() in the router.
EditCommit(a) ==
  /\ apc[a] = "editInstalled"
  /\ update_version_config_data(aconfig[a], aversion[a], abody[a])
  /\ Respond(a)
  /\ UNCHANGED <<hostVars, brokerVars, faultsLeft>>

----------------------------------------------------------------------------
(* DELETE /configs/{id}                                                     *)

\* get_by_id and remove_config_unit.  It runs without an await, which keeps
\* other requests out but not the workers.
DeleteRemoveUnit(a, c) ==
  /\ "delete" \in Requests
  /\ apc[a] = "idle" /\ Visible(c)
  /\ \/ remove_config_unit(c) /\ apc' = [apc EXCEPT ![a] = "deleteLive"]
     \/ ~unit[c] /\ UNCHANGED hostVars /\ apc' = [apc EXCEPT ![a] = "delete"]
  /\ aconfig' = [aconfig EXCEPT ![a] = c]
  /\ UNCHANGED <<aversion, atask, asawError, abody, dbVars, brokerVars, faultsLeft>>

DeleteRemoveLive(a) ==
  /\ apc[a] = "deleteLive"
  /\ remove_live_dir(aconfig[a])
  /\ Goto(a, "delete")
  /\ UNCHANGED <<dbVars, brokerVars, faultsLeft>>

\* soft_delete and the commit in the router; ConfigNotFound when another
\* request deleted it first.
DeleteCommit(a) ==
  LET c == aconfig[a] IN
  /\ apc[a] = "delete"
  /\ \/ Visible(c) /\ rowLock[c] = NoOne /\ soft_delete(c)
     \/ ~Visible(c) /\ UNCHANGED dbVars
  /\ Respond(a)
  /\ UNCHANGED <<hostVars, brokerVars, faultsLeft>>

----------------------------------------------------------------------------

\* The request dies: the API process is killed, or a call it makes (the
\* broker, the database, systemctl) raises.  The session is rolled back.
RequestDies(a) ==
  /\ apc[a] # "idle"
  /\ Fault
  /\ Rollback(a)
  /\ Respond(a)
  /\ UNCHANGED <<hostVars, brokerVars>>

ApiStep(a) ==
  \/ RegenerateCommit(a) \/ PublishTask(a) \/ SetLastTask(a) \/ SaveLastTask(a)
  \/ EditFlush(a) \/ EditGone(a) \/ EditWrite(a) \/ EditInstall(a)
  \/ EditInstallRaises(a) \/ EditCommit(a)
  \/ DeleteRemoveLive(a) \/ DeleteCommit(a)

ApiRequest(a, c) ==
  \/ CreateConfig(a, c) \/ RegenerateCheck(a, c) \/ DeleteRemoveUnit(a, c)
  \/ \E body \in Edits : EditCheck(a, c, body)

ApiFault(a) == PublishAnswerLost(a) \/ RequestDies(a)

=============================================================================
