----------------------------- MODULE PanelProofs -----------------------------
(***************************************************************************)
(* Type correctness of Panel for every value of the constants: each        *)
(* component keeps its own part of TypeOK, and the composed steps keep all *)
(* of it because they are made of the components' operations.  Then, from  *)
(* the types alone, that a pending config has a task or is about to.       *)
(***************************************************************************)
EXTENDS Panel, TLAPS

USE StoreAssumption, BrokerAssumption, RequestsAssumption

\* The database and the broker are empty, the host has no unit, every process
\* is idle.
LEMMA InitTypeOK == Init => TypeOK
<1> SUFFICES ASSUME Init PROVE TypeOK
  OBVIOUS
<1>1. StoreTypeOK
  BY DEF Init, StoreInit, StoreTypeOK, Statuses
<1>2. HostTypeOK
  BY DEF Init, HostInit, HostTypeOK, Content, Nothing
<1>3. BrokerTypeOK
  BY DEF Init, BrokerInit, BrokerTypeOK, Tasks, TaskStates
<1>4. ClientTypeOK
  BY DEF Init, ClientInit, ClientTypeOK, ClientStates, EditLocked
<1>5. WorkerTypeOK
  BY DEF Init, WorkerInit, WorkerTypeOK, WorkerStates, LoadedRow, NoRow, Statuses
<1> QED
  BY <1>1, <1>2, <1>3, <1>4, <1>5 DEF Init, TypeOK

----------------------------------------------------------------------------
(* Type correctness, component by component                                 *)

\* Every database operation of the repository leaves the tables well typed.
LEMMA StoreTypes ==
  ASSUME StoreTypeOK, NEW c \in Configs
  PROVE  /\ UNCHANGED dbVars => StoreTypeOK'
         /\ create_pending(c) => StoreTypeOK'
         /\ \A e \in BOOLEAN : prepare_regenerate(c, e) => StoreTypeOK'
         /\ \A v \in Versions, row \in LoadedRow : mark_active(c, v, row) => StoreTypeOK'
         /\ \A v \in Versions, w \in Workers : commit_version(c, v, w) => StoreTypeOK'
         /\ \A row \in LoadedRow, m \in BOOLEAN : mark_failed(c, row, m) => StoreTypeOK'
         /\ \A t \in Nat : set_last_task_id(c, t) => StoreTypeOK'
         /\ soft_delete(c) => StoreTypeOK'
         /\ \A v \in Versions, b \in Edits : update_version_config_data(c, v, b) => StoreTypeOK'
         /\ \A s \in Sessions : LockRow(c, s) => StoreTypeOK'
         /\ \A s \in Sessions : Rollback(s) => StoreTypeOK'
<1> USE DEF StoreTypeOK, dbVars, Statuses
<1>1. UNCHANGED dbVars => StoreTypeOK'
  OBVIOUS
<1>2. create_pending(c) => StoreTypeOK'
  BY DEF create_pending
<1>3. ASSUME NEW e \in BOOLEAN, prepare_regenerate(c, e) PROVE StoreTypeOK'
  BY <1>3 DEF prepare_regenerate, Written
<1>4. ASSUME NEW v \in Versions, NEW row \in LoadedRow, mark_active(c, v, row) PROVE StoreTypeOK'
  <2>1. Written(row.status, "active", status[c]) \in Statuses
    BY DEF Written
  <2>2. Written(row.current, v, current[c]) \in 0..MaxVersion
    BY DEF Written, Versions
  <2>3. Written(row.errmsg, FALSE, errmsg[c]) \in BOOLEAN
    BY DEF Written
  <2> QED
    BY <1>4, <2>1, <2>2, <2>3 DEF mark_active
<1>5. ASSUME NEW v \in Versions, NEW w \in Workers, commit_version(c, v, w) PROVE StoreTypeOK'
  BY <1>5 DEF commit_version, Versions, Authors
<1>6. ASSUME NEW row \in LoadedRow, NEW m \in BOOLEAN, mark_failed(c, row, m) PROVE StoreTypeOK'
  BY <1>6 DEF mark_failed, Written, LoadedRow
<1>7. ASSUME NEW t \in Nat, set_last_task_id(c, t) PROVE StoreTypeOK'
  BY <1>7 DEF set_last_task_id
<1>8. soft_delete(c) => StoreTypeOK'
  BY DEF soft_delete
<1>9. ASSUME NEW v \in Versions, NEW b \in Edits, update_version_config_data(c, v, b) PROVE StoreTypeOK'
  BY <1>9 DEF update_version_config_data, Authors
<1>10. ASSUME NEW s \in Sessions, LockRow(c, s) PROVE StoreTypeOK'
  BY <1>10 DEF LockRow
<1>11. ASSUME NEW s \in Sessions, Rollback(s) PROVE StoreTypeOK'
  BY <1>11 DEF Rollback
<1> QED
  BY <1>1, <1>2, <1>3, <1>4, <1>5, <1>6, <1>7, <1>8, <1>9, <1>10, <1>11

\* Every operation on the host's files leaves them well typed.
LEMMA HostTypes ==
  ASSUME HostTypeOK, NEW c \in Configs
  PROVE  /\ UNCHANGED hostVars => HostTypeOK'
         /\ \A v \in Versions, x \in Authors : WriteLive(c, v, x) => HostTypeOK'
         /\ install_config_unit(c) => HostTypeOK'
         /\ install_config_unit_raises(c) => HostTypeOK'
         /\ stop_config_unit(c) => HostTypeOK'
         /\ remove_config_unit(c) => HostTypeOK'
         /\ remove_live_dir(c) => HostTypeOK'
<1> USE DEF HostTypeOK, hostVars
<1>0. Nothing \in Content /\ \A v \in Versions, x \in Authors : <<v, x>> \in Content
  BY DEF Content, Nothing, Versions
<1>1. UNCHANGED hostVars => HostTypeOK'
  OBVIOUS
<1>2. \A v \in Versions, x \in Authors : WriteLive(c, v, x) => HostTypeOK'
  BY <1>0 DEF WriteLive
<1>3. install_config_unit(c) => HostTypeOK'
  BY DEF install_config_unit
<1>4. install_config_unit_raises(c) => HostTypeOK'
  BY <1>0 DEF install_config_unit_raises
<1>5. stop_config_unit(c) => HostTypeOK'
  BY <1>0 DEF stop_config_unit
<1>6. remove_config_unit(c) => HostTypeOK'
  BY <1>0 DEF remove_config_unit
<1>7. remove_live_dir(c) => HostTypeOK'
  BY <1>0 DEF remove_live_dir
<1> QED
  BY <1>1, <1>2, <1>3, <1>4, <1>5, <1>6, <1>7

\* Every broker call keeps the task table well typed, loses no task and
\* changes no payload.
LEMMA BrokerTypes ==
  ASSUME BrokerTypeOK
  PROVE  /\ UNCHANGED brokerVars => BrokerTypeOK' 
         /\ \A c \in Configs, v \in Versions : publish_task(c, v) => BrokerTypeOK'
         /\ \A w \in Workers, t \in Tasks : pull(w, t) => BrokerTypeOK'
         /\ \A w \in Workers, t \in Tasks : Holds(w, t) /\ ack(w, t) => BrokerTypeOK'
         /\ \A w \in Workers, t \in Tasks : Holds(w, t) /\ nack(w, t) => BrokerTypeOK'
         /\ \A t \in Tasks : LeaseRunsOut(t) => BrokerTypeOK'
<1> USE DEF BrokerTypeOK, brokerVars, Tasks, TaskStates
<1>1. UNCHANGED brokerVars => BrokerTypeOK'
  OBVIOUS
<1>2. ASSUME NEW c \in Configs, NEW v \in Versions, publish_task(c, v) PROVE BrokerTypeOK'
  BY <1>2 DEF publish_task, Versions
<1>3. ASSUME NEW w \in Workers, NEW t \in Tasks, pull(w, t) PROVE BrokerTypeOK'
  BY <1>3 DEF pull
<1>4. ASSUME NEW w \in Workers, NEW t \in Tasks, Holds(w, t), ack(w, t) PROVE BrokerTypeOK'
  BY <1>4 DEF ack, Holds
<1>5. ASSUME NEW w \in Workers, NEW t \in Tasks, Holds(w, t), nack(w, t) PROVE BrokerTypeOK'
  <2>1. CASE taskRetries[t] < MaxRetries
    <3>1. taskRetries[t] + 1 \in 0..MaxRetries
      BY <2>1
    <3>2. /\ taskState' = [taskState EXCEPT ![t] = "PENDING"]
          /\ taskRetries' = [taskRetries EXCEPT ![t] = taskRetries[t] + 1]
          /\ taskHolder' = [taskHolder EXCEPT ![t] = NoOne]
          /\ UNCHANGED <<ntasks, taskConfig, taskTarget>>
      BY <1>5, <2>1 DEF nack
    <3>3. taskRetries' \in [Tasks -> 0..MaxRetries]
      BY <3>1, <3>2
    <3>4. taskHolder' \in [Tasks -> Workers \cup {NoOne}]
      BY <3>2
    <3> QED
      BY <1>5, <3>2, <3>3, <3>4 DEF Holds
  <2>2. CASE ~(taskRetries[t] < MaxRetries)
    BY <1>5, <2>2 DEF nack, Holds
  <2> QED
    BY <2>1, <2>2
<1>6. ASSUME NEW t \in Tasks, LeaseRunsOut(t) PROVE BrokerTypeOK'
  BY <1>6 DEF LeaseRunsOut
<1> QED
  BY <1>1, <1>2, <1>3, <1>4, <1>5, <1>6

\* What a request keeps between its steps stays well typed.
LEMMA ClientTypes ==
  ASSUME ClientTypeOK, NEW a \in Clients
  PROVE  /\ UNCHANGED clientVars => ClientTypeOK'
         /\ Respond(a) => ClientTypeOK'
         /\ \A s \in ClientStates :
              /\ Goto(a, s)
              /\ aconfig[a] \in Configs
              /\ s \in EditLocked => aversion[a] \in Versions /\ abody[a] \in Edits
              /\ s \notin {"publish", "edit"}
              => ClientTypeOK'
<1> USE DEF ClientTypeOK, clientVars, ClientStates, EditLocked
<1>1. UNCHANGED clientVars => ClientTypeOK'
  OBVIOUS
<1>2. Respond(a) => ClientTypeOK'
  BY DEF Respond
<1>3. ASSUME NEW s \in ClientStates, Goto(a, s), aconfig[a] \in Configs,
             s \in EditLocked => aversion[a] \in Versions /\ abody[a] \in Edits,
             s \notin {"publish", "edit"}
      PROVE  ClientTypeOK'
  BY <1>3 DEF Goto
<1> QED
  BY <1>1, <1>2, <1>3

\* What a worker keeps between its steps stays well typed; the task in hand
\* stays a published one because the broker forgets none.
LEMMA WorkerTypes ==
  ASSUME WorkerTypeOK, BrokerTypeOK, NEW w \in Workers
  PROVE  /\ UNCHANGED workerVars /\ ntasks' \in Nat /\ ntasks' >= ntasks => WorkerTypeOK'
         /\ Release(w) /\ ntasks' = ntasks => WorkerTypeOK'
         /\ \A s \in WorkerStates, row \in LoadedRow :
              ContinueWith(w, s, row) /\ wpc[w] # "idle" /\ ntasks' = ntasks => WorkerTypeOK'
         /\ \A s \in WorkerStates :
              Continue(w, s) /\ wpc[w] # "idle" /\ ntasks' = ntasks => WorkerTypeOK'
<1> USE DEF WorkerTypeOK, BrokerTypeOK, workerVars
<1>0. NoRow \in LoadedRow
  BY DEF NoRow, LoadedRow, Statuses
<1>1. UNCHANGED workerVars /\ ntasks' \in Nat /\ ntasks' >= ntasks => WorkerTypeOK'
  OBVIOUS
<1>2. Release(w) /\ ntasks' = ntasks => WorkerTypeOK'
  BY <1>0 DEF Release, WorkerStates
<1>3. ASSUME NEW s \in WorkerStates, NEW row \in LoadedRow,
             ContinueWith(w, s, row), wpc[w] # "idle", ntasks' = ntasks
      PROVE  WorkerTypeOK'
  BY <1>3 DEF ContinueWith
<1>4. ASSUME NEW s \in WorkerStates, Continue(w, s), wpc[w] # "idle", ntasks' = ntasks
      PROVE  WorkerTypeOK'
  BY <1>0, <1>4 DEF Continue
<1> QED
  BY <1>1, <1>2, <1>3, <1>4

\* A request step is typed when each part of the state is.
LEMMA ApiTypeOK == TypeOK /\ ApiNext => TypeOK'
<1> SUFFICES ASSUME TypeOK, ApiNext PROVE TypeOK'
  OBVIOUS
<1> USE DEF TypeOK
<1>a. PICK a \in Clients : \/ \E c \in Configs : ApiRequest(a, c)
                           \/ ApiStep(a)
                           \/ ApiFault(a)
  BY DEF ApiNext
<1>b. /\ aconfig[a] \in Configs \cup {NoOne}
      /\ apc[a] # "idle" => aconfig[a] \in Configs
      /\ aversion[a] \in 0..MaxVersion
      /\ apc[a] \in {"publish", "edit"} \cup EditLocked => aversion[a] \in Versions
      /\ apc[a] \in {"edit"} \cup EditLocked => abody[a] \in Edits
      /\ atask[a] \in Nat /\ asawError[a] \in BOOLEAN
      /\ a \in Sessions
  BY DEF ClientTypeOK, Sessions
<1>c. /\ UNCHANGED dbVars => StoreTypeOK'
      /\ UNCHANGED hostVars => HostTypeOK'
      /\ UNCHANGED brokerVars => BrokerTypeOK' /\ ntasks' = ntasks
  BY DEF StoreTypeOK, HostTypeOK, BrokerTypeOK, dbVars, hostVars, brokerVars
<1>d. ntasks \in Nat /\ UNCHANGED workerVars
  BY DEF ApiNext, BrokerTypeOK
<1>e. ntasks' \in Nat /\ ntasks' >= ntasks => WorkerTypeOK'
  BY <1>d DEF WorkerTypeOK, workerVars
<1>f. UNCHANGED ntasks => WorkerTypeOK'
  BY <1>d, <1>e
<1>g. Fault \/ UNCHANGED faultsLeft => faultsLeft' \in 0..MaxFaults
  BY DEF Fault
<1>1. ASSUME NEW c \in Configs, CreateConfig(a, c) PROVE TypeOK'
  <2>1. StoreTypeOK'
    BY <1>1, StoreTypes DEF CreateConfig
  <2>2. ClientTypeOK'
    BY <1>1 DEF CreateConfig, ClientTypeOK, ClientStates, Versions, EditLocked
  <2> QED
    BY <1>1, <1>c, <1>f, <1>g, <2>1, <2>2 DEF CreateConfig
<1>2. ASSUME NEW c \in Configs, RegenerateCheck(a, c) PROVE TypeOK'
  <2>0. errmsg[c] \in BOOLEAN
    BY DEF StoreTypeOK
  <2>1. ClientTypeOK'
    BY <1>2, <2>0 DEF RegenerateCheck, ClientTypeOK, ClientStates, EditLocked
  <2> QED
    BY <1>2, <1>c, <1>f, <1>g, <2>1 DEF RegenerateCheck
<1>3. ASSUME NEW c \in Configs, DeleteRemoveUnit(a, c) PROVE TypeOK'
  <2>1. HostTypeOK'
    BY <1>3, <1>c, HostTypes DEF DeleteRemoveUnit
  <2>2. ClientTypeOK'
    BY <1>3 DEF DeleteRemoveUnit, ClientTypeOK, ClientStates, EditLocked
  <2> QED
    BY <1>3, <1>c, <1>f, <1>g, <2>1, <2>2 DEF DeleteRemoveUnit
<1>4. ASSUME NEW c \in Configs, NEW body \in Edits, EditCheck(a, c, body) PROVE TypeOK'
  <2>1. ClientTypeOK'
    BY <1>4 DEF EditCheck, ClientTypeOK, ClientStates, EditLocked, StoreTypeOK, Versions
  <2> QED
    BY <1>4, <1>c, <1>f, <1>g, <2>1 DEF EditCheck
<1>5. CASE RegenerateCommit(a)
  <2>1. aconfig[a] \in Configs
    BY <1>b, <1>5 DEF RegenerateCommit
  <2>2. StoreTypeOK'
    BY <1>b, <1>5, <2>1, StoreTypes DEF RegenerateCommit
  <2>3. ClientTypeOK'
    <3>1. CASE Respond(a)
      BY <3>1, ClientTypes
    <3>2. CASE current[aconfig[a]] + 1 \in Versions /\ apc' = [apc EXCEPT ![a] = "publish"]
               /\ aversion' = [aversion EXCEPT ![a] = current[aconfig[a]] + 1]
               /\ UNCHANGED <<aconfig, atask, asawError, abody>>
      BY <2>1, <3>2 DEF ClientTypeOK, ClientStates, EditLocked, Versions
    <3> QED
      BY <1>5, <2>1, <3>1, <3>2 DEF RegenerateCommit, StoreTypeOK, Versions
  <2> QED
    BY <1>5, <1>c, <1>f, <1>g, <2>2, <2>3 DEF RegenerateCommit
<1>6. CASE PublishTask(a)
  <2>1. BrokerTypeOK'
    BY <1>b, <1>6, BrokerTypes DEF PublishTask
  <2>0. ntasks' \in Nat /\ ntasks' >= ntasks
    BY <1>d, <1>6 DEF PublishTask, publish_task
  <2>2. ClientTypeOK'
    BY <1>b, <1>d, <1>6 DEF PublishTask, publish_task, ClientTypeOK, ClientStates, EditLocked
  <2> QED
    BY <1>6, <1>c, <1>e, <1>g, <2>0, <2>1, <2>2 DEF PublishTask
<1>7. CASE PublishAnswerLost(a)
  <2>1. BrokerTypeOK'
    BY <1>b, <1>7, BrokerTypes DEF PublishAnswerLost
  <2>0. ntasks' \in Nat /\ ntasks' >= ntasks
    BY <1>d, <1>7 DEF PublishAnswerLost, publish_task
  <2> QED
    BY <1>7, <1>c, <1>e, <1>g, <2>0, <2>1, ClientTypes DEF PublishAnswerLost
<1>8. CASE SetLastTask(a)
  <2>1. ClientTypeOK'
    BY <1>b, <1>8, ClientTypes DEF SetLastTask, ClientStates, EditLocked
  <2> QED
    BY <1>8, <1>c, <1>f, <1>g, <2>1 DEF SetLastTask
<1>9. CASE SaveLastTask(a)
  <2>1. StoreTypeOK'
    BY <1>b, <1>9, StoreTypes DEF SaveLastTask
  <2> QED
    BY <1>9, <1>c, <1>f, <1>g, <2>1, ClientTypes DEF SaveLastTask
<1>10. CASE EditFlush(a)
  <2>1. StoreTypeOK'
    BY <1>b, <1>10, StoreTypes DEF EditFlush
  <2>2. ClientTypeOK'
    BY <1>b, <1>10, ClientTypes DEF EditFlush, ClientStates, EditLocked
  <2> QED
    BY <1>10, <1>c, <1>f, <1>g, <2>1, <2>2 DEF EditFlush
<1>11. CASE EditGone(a)
  BY <1>11, <1>c, <1>f, <1>g, ClientTypes DEF EditGone
<1>12. CASE EditWrite(a)
  <2>1. HostTypeOK'
    BY <1>b, <1>12, HostTypes DEF EditWrite, EditLocked, Authors
  <2>2. ClientTypeOK'
    BY <1>b, <1>12, ClientTypes DEF EditWrite, ClientStates, EditLocked
  <2> QED
    BY <1>12, <1>c, <1>f, <1>g, <2>1, <2>2 DEF EditWrite
<1>13. CASE EditInstall(a)
  <2>1. HostTypeOK'
    BY <1>b, <1>13, HostTypes DEF EditInstall
  <2>2. ClientTypeOK'
    BY <1>b, <1>13, ClientTypes DEF EditInstall, ClientStates, EditLocked
  <2> QED
    BY <1>13, <1>c, <1>f, <1>g, <2>1, <2>2 DEF EditInstall
<1>14. CASE EditInstallRaises(a)
  <2>1. StoreTypeOK'
    BY <1>b, <1>14, StoreTypes DEF EditInstallRaises
  <2>2. HostTypeOK'
    BY <1>b, <1>14, HostTypes DEF EditInstallRaises
  <2> QED
    BY <1>14, <1>c, <1>f, <1>g, <2>1, <2>2, ClientTypes DEF EditInstallRaises
<1>15. CASE EditCommit(a)
  <2>1. StoreTypeOK'
    BY <1>b, <1>15, StoreTypes DEF EditCommit, EditLocked
  <2> QED
    BY <1>15, <1>c, <1>f, <1>g, <2>1, ClientTypes DEF EditCommit
<1>16. CASE DeleteCommit(a)
  <2>1. StoreTypeOK'
    BY <1>b, <1>c, <1>16, StoreTypes DEF DeleteCommit
  <2> QED
    BY <1>16, <1>c, <1>f, <1>g, <2>1, ClientTypes DEF DeleteCommit
<1>17. CASE RequestDies(a)
  <2>1. StoreTypeOK'
    BY <1>b, <1>17, StoreTypes DEF RequestDies
  <2> QED
    BY <1>17, <1>c, <1>f, <1>g, <2>1, ClientTypes DEF RequestDies
<1>18. CASE DeleteRemoveLive(a)
  <2>1. HostTypeOK'
    BY <1>b, <1>18, HostTypes DEF DeleteRemoveLive
  <2>2. ClientTypeOK'
    BY <1>b, <1>18, ClientTypes DEF DeleteRemoveLive, ClientStates, EditLocked
  <2> QED
    BY <1>18, <1>c, <1>f, <1>g, <2>1, <2>2 DEF DeleteRemoveLive
<1> QED
  BY <1>a, <1>1, <1>2, <1>3, <1>4, <1>5, <1>6, <1>7, <1>8, <1>9, <1>10, <1>11, <1>12, <1>13,
     <1>14, <1>15, <1>16, <1>17, <1>18 DEF ApiRequest, ApiStep, ApiFault

\* A worker step is typed when each part of the state is.
LEMMA WorkerTypeStep == TypeOK /\ WorkerNext => TypeOK'
<1> SUFFICES ASSUME TypeOK, WorkerNext PROVE TypeOK'
  OBVIOUS
<1> USE DEF TypeOK
<1>c. /\ UNCHANGED dbVars => StoreTypeOK'
      /\ UNCHANGED hostVars => HostTypeOK'
      /\ UNCHANGED brokerVars => BrokerTypeOK' /\ ntasks' = ntasks
  BY DEF StoreTypeOK, HostTypeOK, BrokerTypeOK, dbVars, hostVars, brokerVars
<1>d. ClientTypeOK'
  BY DEF WorkerNext, ClientTypeOK, clientVars
<1>g. Fault \/ UNCHANGED faultsLeft => faultsLeft' \in 0..MaxFaults
  BY DEF Fault
<1>0. ASSUME NEW t \in Tasks, LeaseExpires(t) PROVE TypeOK'
  <2>1. BrokerTypeOK'
    BY <1>0, BrokerTypes DEF LeaseExpires
  <2>2. WorkerTypeOK'
    BY <1>0 DEF LeaseExpires, LeaseRunsOut, WorkerTypeOK, workerVars
  <2> QED
    BY <1>0, <1>c, <1>d, <1>g, <2>1, <2>2 DEF LeaseExpires
<1>w. ASSUME NEW w \in Workers,
             (\E t \in Tasks : Pull(w, t)) \/ WorkerStep(w) \/ WorkerFault(w)
      PROVE  TypeOK'
  <2>a. /\ w \in Sessions /\ w \in Authors
        /\ wrow[w] \in LoadedRow
        /\ wpc[w] # "idle" => /\ wtask[w] \in Tasks
                              /\ Config(w) \in Configs
                              /\ Target(w) \in Versions
    BY DEF Sessions, Authors, WorkerTypeOK, BrokerTypeOK, Tasks, Config, Target
  <2>b. \A c \in Configs : Loaded(c) \in LoadedRow
    BY DEF Loaded, LoadedRow, StoreTypeOK
  <2>c. UNCHANGED ntasks =>
          /\ Release(w) => WorkerTypeOK'
          /\ \A s \in WorkerStates : wpc[w] # "idle" /\ Continue(w, s) => WorkerTypeOK'
          /\ \A s \in WorkerStates, row \in LoadedRow :
               wpc[w] # "idle" /\ ContinueWith(w, s, row) => WorkerTypeOK'
    BY WorkerTypes
  <2>1. ASSUME NEW t \in Tasks, Pull(w, t) PROVE TypeOK'
    <3>1. BrokerTypeOK'
      BY <2>1, BrokerTypes DEF Pull
    <3>2. t \in 1..ntasks /\ ntasks' = ntasks
      BY <2>1 DEF Pull, pull, BrokerTypeOK, Tasks
    <3>3. WorkerTypeOK'
      BY <2>1, <3>2 DEF Pull, WorkerTypeOK, WorkerStates, BrokerTypeOK
    <3> QED
      BY <2>1, <1>c, <1>d, <1>g, <3>1, <3>3 DEF Pull
  <2>2. CASE CheckVersion(w)
    <3>1. WorkerTypeOK'
      BY <2>2, <2>a, <2>b, <2>c, <1>c DEF CheckVersion, WorkerStates
    <3> QED
      BY <2>2, <1>c, <1>d, <1>g, <3>1 DEF CheckVersion
  <2>3. CASE Reactivate(w)
    <3>1. WorkerTypeOK'
      BY <2>3, <2>c, <1>c DEF Reactivate, WorkerStates
    <3>2. StoreTypeOK'
      BY <2>3, <2>a, StoreTypes DEF Reactivate
    <3> QED
      BY <2>3, <1>c, <1>d, <1>g, <3>1, <3>2 DEF Reactivate
  <2>4. CASE MarkProcessing(w)
    <3>1. WorkerTypeOK'
      BY <2>4, <2>c, <1>c DEF MarkProcessing, WorkerStates
    <3>2. StoreTypeOK'
      BY <2>4, <2>a, StoreTypes DEF MarkProcessing
    <3> QED
      BY <2>4, <1>c, <1>d, <1>g, <3>1, <3>2 DEF MarkProcessing
  <2>5. CASE StopUnit(w)
    <3>1. WorkerTypeOK'
      BY <2>5, <2>c, <1>c DEF StopUnit, WorkerStates
    <3>2. HostTypeOK'
      BY <2>5, <2>a, <1>c, HostTypes DEF StopUnit
    <3> QED
      BY <2>5, <1>c, <1>d, <1>g, <3>1, <3>2 DEF StopUnit
  <2>6. CASE BuildAndWrite(w)
    <3>1. WorkerTypeOK'
      BY <2>6, <2>c, <1>c DEF BuildAndWrite, WorkerStates
    <3>2. HostTypeOK'
      BY <2>6, <2>a, HostTypes DEF BuildAndWrite
    <3> QED
      BY <2>6, <1>c, <1>d, <1>g, <3>1, <3>2 DEF BuildAndWrite
  <2>7. CASE InstallUnit(w)
    <3>1. WorkerTypeOK'
      BY <2>7, <2>c, <1>c DEF InstallUnit, WorkerStates
    <3>2. HostTypeOK'
      BY <2>7, <2>a, HostTypes DEF InstallUnit
    <3> QED
      BY <2>7, <1>c, <1>d, <1>g, <3>1, <3>2 DEF InstallUnit
  <2>8. CASE InstallRaises(w)
    <3>1. WorkerTypeOK'
      BY <2>8, <2>c, <1>c DEF InstallRaises, WorkerStates
    <3>2. HostTypeOK' /\ StoreTypeOK'
      BY <2>8, <2>a, HostTypes, StoreTypes DEF InstallRaises
    <3> QED
      BY <2>8, <1>c, <1>d, <1>g, <3>1, <3>2 DEF InstallRaises
  <2>9. CASE Persist(w)
    <3>1. WorkerTypeOK'
      BY <2>9, <2>c, <1>c DEF Persist, WorkerStates
    <3>2. StoreTypeOK'
      BY <2>9, <2>a, StoreTypes DEF Persist
    <3> QED
      BY <2>9, <1>c, <1>d, <1>g, <3>1, <3>2 DEF Persist
  <2>10. CASE PersistConflict(w)
    <3>1. WorkerTypeOK'
      BY <2>10, <2>c, <1>c DEF PersistConflict, WorkerStates
    <3>2. StoreTypeOK'
      BY <2>10, <2>a, StoreTypes DEF PersistConflict
    <3> QED
      BY <2>10, <1>c, <1>d, <1>g, <3>1, <3>2 DEF PersistConflict
  <2>11. CASE HandlerRaises(w)
    <3>0. wpc[w] # "idle"
      BY <2>11 DEF HandlerRaises, Handling, Building
    <3>1. WorkerTypeOK'
      BY <2>11, <3>0, <2>c, <1>c DEF HandlerRaises, WorkerStates
    <3>2. StoreTypeOK'
      BY <2>11, <3>0, <2>a, StoreTypes DEF HandlerRaises
    <3> QED
      BY <2>11, <1>c, <1>d, <1>g, <3>1, <3>2 DEF HandlerRaises
  <2>12. CASE LoadForMarkFailed(w)
    <3>1. WorkerTypeOK'
      BY <2>12, <2>a, <2>b, <2>c, <1>c DEF LoadForMarkFailed, WorkerStates
    <3> QED
      BY <2>12, <1>c, <1>d, <1>g, <3>1 DEF LoadForMarkFailed
  <2>13. CASE MarkFailed(w)
    <3>1. WorkerTypeOK'
      BY <2>13, <2>c, <1>c DEF MarkFailed, WorkerStates
    <3>2. StoreTypeOK'
      BY <2>13, <2>a, StoreTypes DEF MarkFailed
    <3> QED
      BY <2>13, <1>c, <1>d, <1>g, <3>1, <3>2 DEF MarkFailed
  <2>14. CASE Ack(w)
    <3>1. BrokerTypeOK'
      BY <2>14, <2>a, <1>c, BrokerTypes DEF Ack
    <3>2. UNCHANGED ntasks
      BY <2>14 DEF Ack, ack, brokerVars
    <3> QED
      BY <2>14, <2>c, <1>c, <1>d, <1>g, <3>1, <3>2 DEF Ack
  <2>15. CASE Nack(w)
    <3>1. BrokerTypeOK'
      BY <2>15, <2>a, <1>c, BrokerTypes DEF Nack
    <3>2. UNCHANGED ntasks
      BY <2>15 DEF Nack, nack, brokerVars
    <3> QED
      BY <2>15, <2>c, <1>c, <1>d, <1>g, <3>1, <3>2 DEF Nack
  <2>16. CASE WorkerDies(w)
    <3>1. StoreTypeOK'
      BY <2>16, <2>a, StoreTypes DEF WorkerDies
    <3> QED
      BY <2>16, <2>c, <1>c, <1>d, <1>g, <3>1 DEF WorkerDies
  <2>17. CASE HeartbeatFails(w)
    <3>1. WorkerTypeOK'
      BY <2>17, <1>c DEF HeartbeatFails, WorkerTypeOK
    <3> QED
      BY <2>17, <1>c, <1>d, <1>g, <3>1 DEF HeartbeatFails
  <2>18. CASE MarkFailedRaises(w)
    <3>1. WorkerTypeOK'
      BY <2>18, <2>c, <1>c DEF MarkFailedRaises, WorkerStates
    <3> QED
      BY <2>18, <1>c, <1>d, <1>g, <3>1 DEF MarkFailedRaises
  <2> QED
    BY <1>w, <2>1, <2>2, <2>3, <2>4, <2>5, <2>6, <2>7, <2>8, <2>9, <2>10, <2>11, <2>12, <2>13,
       <2>14, <2>15, <2>16, <2>17, <2>18 DEF WorkerStep, WorkerFault
<1> QED
  BY <1>0, <1>w DEF WorkerNext

\* Whatever requests, workers and faults do, every column, payload and local
\* holds a value of its type, and a worker's task is a published one.
THEOREM TypeCorrect == Spec => []TypeOK
<1>1. Init => TypeOK
  BY InitTypeOK
<1>2. TypeOK /\ [Next]_vars => TypeOK'
  <2>1. TypeOK /\ UNCHANGED vars => TypeOK'
    BY DEF vars, TypeOK, StoreTypeOK, HostTypeOK, BrokerTypeOK, ClientTypeOK, WorkerTypeOK,
       dbVars, hostVars, brokerVars, clientVars, workerVars
  <2> QED
    BY <2>1, ApiTypeOK, WorkerTypeStep DEF Next
<1> QED
  BY <1>1, <1>2, PTL DEF Spec

----------------------------------------------------------------------------
(* Pending configs, while no publish and no failure is lost                 *)

\* What a step of a request does to pending configs: who makes a config pending
\* publishes next, and who was about to publish still is or has.
RequestPends ==
  /\ UNCHANGED <<wpc, wtask, wrow, taskRetries>>
  /\ \A c \in Configs : status'[c] = "pending" =>
       status[c] = "pending" \/ \E a \in Clients : apc'[a] = "publish" /\ aconfig'[a] = c
  /\ \A a \in Clients : apc[a] = "publish" =>
       \/ apc'[a] = "publish" /\ aconfig'[a] = aconfig[a]
       \/ \E t \in Tasks : taskState'[t] = "PENDING" /\ taskConfig'[t] = aconfig[a]
  /\ \A t \in 1..ntasks : /\ taskState'[t] = taskState[t] /\ taskConfig'[t] = taskConfig[t]
                          /\ taskHolder'[t] = taskHolder[t]

\* Create and regenerate commit "pending" and then publish; nothing else an
\* administrator asks for makes a config pending or takes a task away.
LEMMA RequestsPend == TypeOK /\ ApiNext /\ ~DiesBeforePublish => RequestPends
<1> SUFFICES ASSUME TypeOK, ApiNext, ~DiesBeforePublish PROVE RequestPends
  OBVIOUS
<1>a. PICK a \in Clients : (\E c \in Configs : ApiRequest(a, c)) \/ ApiStep(a) \/ ApiFault(a)
  BY DEF ApiNext
<1>t. /\ apc \in [Clients -> ClientStates] /\ aconfig \in [Clients -> Configs \cup {NoOne}]
      /\ status \in [Configs -> Statuses]
      /\ \A b \in Clients : apc[b] # "idle" => aconfig[b] \in Configs
  <2>1. ClientTypeOK /\ StoreTypeOK
    BY DEF TypeOK
  <2> QED BY <2>1 DEF ClientTypeOK, StoreTypeOK
<1>b. /\ taskState \in [Tasks -> TaskStates] /\ taskConfig \in [Tasks -> Configs \cup {NoOne}]
      /\ taskHolder \in [Tasks -> Workers \cup {NoOne}] /\ ntasks \in 0..MaxTasks
  BY DEF TypeOK, BrokerTypeOK
<1>w. UNCHANGED <<wpc, wtask, wrow, taskRetries>>
  <2>1. UNCHANGED <<wpc, wtask, wrow>>
    BY DEF ApiNext, workerVars
  <2>2. UNCHANGED taskRetries
    BY <1>a DEF ApiRequest, ApiStep, ApiFault, CreateConfig, RegenerateCheck, DeleteRemoveUnit, EditCheck,
       RegenerateCommit, PublishTask, PublishAnswerLost, SetLastTask, SaveLastTask, EditFlush, EditGone,
       EditWrite, EditInstall, EditInstallRaises, EditCommit, DeleteRemoveLive, DeleteCommit,
       RequestDies, publish_task, brokerVars
  <2> QED BY <2>1, <2>2
<1> DEFINE Pends == \A c \in Configs : status'[c] = "pending" =>
                      status[c] = "pending" \/ \E b \in Clients : apc'[b] = "publish" /\ aconfig'[b] = c
           Stays == \A b \in Clients : apc[b] = "publish" => apc'[b] = "publish" /\ aconfig'[b] = aconfig[b]
           Asks  == \A b \in Clients : apc[b] = "publish" =>
                      \/ apc'[b] = "publish" /\ aconfig'[b] = aconfig[b]
                      \/ \E t \in Tasks : taskState'[t] = "PENDING" /\ taskConfig'[t] = aconfig[b]
           Tabled == \A t \in 1..ntasks : /\ taskState'[t] = taskState[t] /\ taskConfig'[t] = taskConfig[t]
                                          /\ taskHolder'[t] = taskHolder[t]
<1>s. UNCHANGED status => Pends
  OBVIOUS
<1>k. UNCHANGED <<taskState, taskConfig, taskHolder>> => Tabled
  OBVIOUS
<1>d. UNCHANGED dbVars => UNCHANGED status
  BY DEF dbVars
<1>e. UNCHANGED brokerVars => UNCHANGED <<taskState, taskConfig, taskHolder>>
  BY DEF brokerVars
<1> USE DEF Goto, Respond
<1>1. ASSUME NEW c \in Configs, CreateConfig(a, c) PROVE Pends /\ Stays /\ Tabled
  BY <1>1, <1>t, <1>e DEF CreateConfig, create_pending
<1>2. ASSUME NEW c \in Configs, RegenerateCheck(a, c) PROVE Pends /\ Stays /\ Tabled
  BY <1>2, <1>t, <1>e, <1>d DEF RegenerateCheck
<1>3. ASSUME NEW c \in Configs, DeleteRemoveUnit(a, c) PROVE Pends /\ Stays /\ Tabled
  BY <1>3, <1>t, <1>e, <1>d DEF DeleteRemoveUnit
<1>4. ASSUME NEW c \in Configs, NEW body \in Edits, EditCheck(a, c, body) PROVE Pends /\ Stays /\ Tabled
  BY <1>4, <1>t, <1>e, <1>d DEF EditCheck
<1>5. CASE RegenerateCommit(a)
  <2>1. Stays /\ Tabled
    BY <1>5, <1>t, <1>e DEF RegenerateCommit
  <2>2. CASE UNCHANGED dbVars
    BY <2>2, <2>1, <1>d, <1>w DEF RequestPends
  <2>3. CASE ~UNCHANGED dbVars
    <3>1. /\ prepare_regenerate(aconfig[a], asawError[a])
          /\ apc' = [apc EXCEPT ![a] = "publish"] /\ aconfig' = aconfig
      BY <1>5, <2>3 DEF RegenerateCommit
    <3>2. apc'[a] = "publish" /\ aconfig'[a] = aconfig[a]
      BY <3>1, <1>t
    <3>3. \A c \in Configs \ {aconfig[a]} : status'[c] = status[c]
      BY <3>1, <1>t DEF prepare_regenerate
    <3>4. Pends
      BY <3>2, <3>3
    <3> QED BY <3>4, <2>1, <1>w DEF RequestPends
  <2> QED BY <2>2, <2>3
<1>6. ASSUME PublishTask(a) \/ PublishAnswerLost(a) PROVE RequestPends
  <2>1. apc[a] = "publish" /\ publish_task(aconfig[a], aversion[a]) /\ UNCHANGED status
    BY <1>6, <1>d DEF PublishTask, PublishAnswerLost
  <2>2. ntasks + 1 \in Tasks /\ ntasks + 1 \notin 1..ntasks
    BY <2>1, <1>b DEF publish_task, Tasks
  <2>3. taskState'[ntasks + 1] = "PENDING" /\ taskConfig'[ntasks + 1] = aconfig[a]
    BY <2>1, <2>2, <1>b DEF publish_task
  <2>4. Tabled
    BY <2>1, <2>2, <1>b DEF publish_task, Tasks
  <2>5. Asks
    <3>1. \A b \in Clients \ {a} : apc'[b] = apc[b] /\ aconfig'[b] = aconfig[b]
      BY <1>6, <1>t DEF PublishTask, PublishAnswerLost
    <3> QED BY <3>1, <2>2, <2>3
  <2> QED BY <2>1, <2>4, <2>5, <1>s, <1>w DEF RequestPends
<1>7. CASE SetLastTask(a)
  BY <1>7, <1>t, <1>e, <1>d, <1>w DEF SetLastTask, RequestPends
<1>8. CASE SaveLastTask(a)
  BY <1>8, <1>t, <1>e, <1>w DEF SaveLastTask, set_last_task_id, RequestPends
<1>9. CASE EditFlush(a)
  BY <1>9, <1>t, <1>e, <1>w DEF EditFlush, LockRow, RequestPends
<1>10. CASE EditGone(a)
  BY <1>10, <1>t, <1>e, <1>d, <1>w DEF EditGone, RequestPends
<1>11. CASE EditWrite(a)
  BY <1>11, <1>t, <1>e, <1>d, <1>w DEF EditWrite, RequestPends
<1>12. CASE EditInstall(a)
  BY <1>12, <1>t, <1>e, <1>d, <1>w DEF EditInstall, RequestPends
<1>13. CASE EditInstallRaises(a)
  BY <1>13, <1>t, <1>e, <1>w DEF EditInstallRaises, Rollback, RequestPends
<1>14. CASE EditCommit(a)
  BY <1>14, <1>t, <1>e, <1>w DEF EditCommit, update_version_config_data, RequestPends
<1>15. CASE DeleteRemoveLive(a)
  BY <1>15, <1>t, <1>e, <1>d, <1>w DEF DeleteRemoveLive, RequestPends
<1>16. CASE DeleteCommit(a)
  BY <1>16, <1>t, <1>e, <1>d, <1>w DEF DeleteCommit, soft_delete, RequestPends
<1>17. CASE RequestDies(a)
  <2>1. apc[a] # "publish"
    BY <1>17 DEF DiesBeforePublish
  <2> QED BY <2>1, <1>17, <1>t, <1>e, <1>w DEF RequestDies, Rollback, RequestPends
<1>r. (\E c \in Configs : ApiRequest(a, c)) => Pends /\ Stays /\ Tabled
  BY <1>1, <1>2, <1>3, <1>4 DEF ApiRequest
<1> QED
  BY <1>a, <1>r, <1>w, <1>5, <1>6, <1>7, <1>8, <1>9, <1>10, <1>11, <1>12, <1>13, <1>14, <1>15,
     <1>16, <1>17 DEF ApiStep, ApiFault, RequestPends

\* What a step of worker w does to pending configs: it hands a task over or
\* back, and gives up settling a config only by writing its status.  The tries
\* of a task are counted by whoever has it in hand.
WorkerPends(w) ==
  /\ UNCHANGED taskConfig
  /\ \A c \in Configs : status'[c] = "pending" => status[c] = "pending"
  /\ \A u \in Workers \ {w} : wpc'[u] = wpc[u] /\ wtask'[u] = wtask[u] /\ wrow'[u] = wrow[u]
  /\ \A t \in Tasks : taskState[t] = "PENDING" =>
       \/ taskState'[t] = "PENDING"
       \/ /\ taskState'[t] = "PROCESSING" /\ taskHolder'[t] = w
          /\ Settles(w)'
  /\ \A t \in Tasks : taskState[t] = "PROCESSING" =>
       \/ taskState'[t] = "PENDING"
       \/ taskState'[t] = "PROCESSING" /\ taskHolder'[t] = taskHolder[t]
       \/ taskHolder[t] = w /\ wtask[w] = t /\ ~Settles(w)
  /\ \A t \in Tasks : taskHolder[t] = w /\ taskState[t] = "PROCESSING" /\ wtask'[w] = t =>
       \/ wtask[w] = t /\ ~Settles(w)
       \/ Settles(w)'
       \/ status'[taskConfig[t]] # "pending"
  /\ \A t \in Tasks : taskHolder[t] # w /\ taskState[t] = "PROCESSING" => taskRetries'[t] = taskRetries[t]

\* A worker hands a task back, or writes the config's status, unless it fails to
\* write it on the last try.
LEMMA WorkersPend ==
  ASSUME TypeOK, NEW w \in Workers,
         (\E t \in Tasks : Pull(w, t)) \/ WorkerStep(w) \/ WorkerFault(w),
         ~FailureIsLost
  PROVE  WorkerPends(w)
<1>t. /\ wpc \in [Workers -> WorkerStates] /\ wtask \in [Workers -> 0..MaxTasks]
      /\ wrow \in [Workers -> LoadedRow] /\ status \in [Configs -> Statuses]
      /\ taskState \in [Tasks -> TaskStates] /\ taskHolder \in [Tasks -> Workers \cup {NoOne}]
      /\ 0 \notin Tasks
  BY DEF TypeOK, WorkerTypeOK, StoreTypeOK, BrokerTypeOK, Tasks
<1>d. UNCHANGED dbVars => UNCHANGED status
  BY DEF dbVars
<1>b. UNCHANGED brokerVars => UNCHANGED <<taskState, taskConfig, taskHolder, taskRetries>>
  BY DEF brokerVars
<1>r. Rollback(w) => UNCHANGED status
  BY DEF Rollback
<1>f. LET row == Loaded(Config(w)) IN row.status = status[Config(w)]
  BY DEF Loaded
\* While the broker stays as it is, only the handler's own place matters.
<1>h. ASSUME UNCHANGED <<taskState, taskConfig, taskHolder, taskRetries>>,
             \A u \in Workers \ {w} : wpc'[u] = wpc[u] /\ wtask'[u] = wtask[u] /\ wrow'[u] = wrow[u],
             \A c \in Configs : status'[c] = "pending" => status[c] = "pending",
             \/ wtask'[w] = 0
             \/ /\ wtask'[w] = wtask[w]
                /\ Settles(w) => Settles(w)' \/ status'[Config(w)] # "pending"
      PROVE  WorkerPends(w)
  BY <1>h, <1>t DEF WorkerPends, Config
<1> DEFINE Others == \A u \in Workers \ {w} : wpc'[u] = wpc[u] /\ wtask'[u] = wtask[u] /\ wrow'[u] = wrow[u]
<1>c. ASSUME NEW s, Continue(w, s)
      PROVE  wpc'[w] = s /\ wtask'[w] = wtask[w] /\ Others
  BY <1>c, <1>t DEF Continue
<1>l. ASSUME NEW s, NEW row, ContinueWith(w, s, row)
      PROVE  wpc'[w] = s /\ wtask'[w] = wtask[w] /\ wrow'[w] = row /\ Others
  BY <1>l, <1>t DEF ContinueWith
<1>e. Release(w) => wtask'[w] = 0 /\ Others
  BY <1>t DEF Release
<1>1. ASSUME NEW t \in Tasks, Pull(w, t) PROVE WorkerPends(w)
  <2>1. /\ wpc'[w] = "check" /\ wtask'[w] = t /\ taskState'[t] = "PROCESSING" /\ taskHolder'[t] = w
        /\ \A u \in Tasks \ {t} : taskState'[u] = taskState[u] /\ taskHolder'[u] = taskHolder[u]
        /\ taskState[t] = "PENDING" /\ UNCHANGED <<taskConfig, taskRetries, status>> /\ Others
    BY <1>1, <1>t, <1>d DEF Pull, pull
  <2>2. Settles(w)'
    BY <2>1 DEF Settles
  <2> QED
    BY <2>1, <2>2 DEF WorkerPends
<1>2. CASE CheckVersion(w)
  <2>1. CASE has_version(Config(w), Target(w))
    <3>1. /\ wpc'[w] = "reactivate" /\ wtask'[w] = wtask[w] /\ Others
          /\ wrow'[w].status = status[Config(w)] /\ UNCHANGED status
          /\ UNCHANGED <<taskState, taskConfig, taskHolder, taskRetries>>
      BY <2>1, <1>2, <1>l, <1>f, <1>b, <1>d DEF CheckVersion
    <3>2. Settles(w)' \/ status'[Config(w)] # "pending"
      BY <3>1 DEF Settles
    <3> QED
      BY <3>1, <3>2, <1>h
  <2>2. CASE ~has_version(Config(w), Target(w))
    <3>1. /\ wpc'[w] = "lock" /\ wtask'[w] = wtask[w] /\ Others /\ UNCHANGED status
          /\ UNCHANGED <<taskState, taskConfig, taskHolder, taskRetries>>
      BY <2>2, <1>2, <1>c, <1>b, <1>d DEF CheckVersion
    <3> QED
      BY <3>1, <1>h DEF Settles
  <2> QED BY <2>1, <2>2
<1>3. CASE Reactivate(w)
  <2>1. /\ wpc[w] = "reactivate" /\ mark_active(Config(w), Target(w), wrow[w])
        /\ wtask'[w] = wtask[w] /\ Others /\ UNCHANGED <<taskState, taskConfig, taskHolder, taskRetries>>
    BY <1>3, <1>c, <1>b DEF Reactivate
  <2>2. \A c \in Configs : status'[c] = "pending" => status[c] = "pending"
    BY <2>1, <1>t DEF mark_active, Written
  <2>3. Settles(w) => status'[Config(w)] # "pending"
    <3>1. Settles(w) => wrow[w].status # "active"
      BY <2>1 DEF Settles, Building
    <3>2. wrow[w].status # "active" /\ Config(w) \in Configs => status'[Config(w)] = "active"
      BY <2>1, <1>t DEF mark_active, Written
    <3>3. Config(w) \in Configs
      BY <2>1 DEF TypeOK, WorkerTypeOK, BrokerTypeOK, Config, Tasks
    <3> QED BY <3>1, <3>2, <3>3
  <2> QED BY <2>1, <2>2, <2>3, <1>h
<1>4. CASE MarkProcessing(w) \/ StopUnit(w) \/ BuildAndWrite(w) \/ InstallUnit(w)
           \/ InstallRaises(w) \/ PersistConflict(w) \/ HandlerRaises(w)
  <2>1. /\ wpc'[w] \in {"failing"} \cup Building /\ wtask'[w] = wtask[w] /\ Others
        /\ UNCHANGED status /\ UNCHANGED <<taskState, taskConfig, taskHolder, taskRetries>>
    BY <1>4, <1>c, <1>b, <1>d, <1>r
       DEF MarkProcessing, StopUnit, BuildAndWrite, InstallUnit, InstallRaises, PersistConflict,
           HandlerRaises, Building, LockRow
  <2> QED BY <2>1, <1>h DEF Settles
<1>5. CASE Persist(w)
  <2>1. /\ wpc[w] # "idle" /\ commit_version(Config(w), Target(w), w)
        /\ wtask'[w] = wtask[w] /\ Others /\ UNCHANGED <<taskState, taskConfig, taskHolder, taskRetries>>
    BY <1>5, <1>c, <1>b DEF Persist
  <2>2. Config(w) \in Configs
    BY <2>1 DEF TypeOK, WorkerTypeOK, BrokerTypeOK, Config, Tasks
  <2>3. /\ \A c \in Configs : status'[c] = "pending" => status[c] = "pending"
        /\ status'[Config(w)] # "pending"
    BY <2>1, <2>2, <1>t DEF commit_version
  <2> QED BY <2>1, <2>3, <1>h
<1>6. CASE LoadForMarkFailed(w)
  <2>1. /\ wpc'[w] = "markFailed" /\ wtask'[w] = wtask[w] /\ Others
        /\ wrow'[w].status = status[Config(w)] /\ UNCHANGED status
        /\ UNCHANGED <<taskState, taskConfig, taskHolder, taskRetries>>
    BY <1>6, <1>l, <1>f, <1>b, <1>d DEF LoadForMarkFailed
  <2>2. Settles(w)' \/ status'[Config(w)] # "pending"
    BY <2>1 DEF Settles
  <2> QED BY <2>1, <2>2, <1>h
<1>7. CASE MarkFailed(w)
  <2>1. PICK m \in BOOLEAN : mark_failed(Config(w), wrow[w], m)
    BY <1>7 DEF MarkFailed
  <2>2. /\ wpc[w] = "markFailed" /\ wtask'[w] = wtask[w] /\ Others
        /\ UNCHANGED <<taskState, taskConfig, taskHolder, taskRetries>>
    BY <1>7, <1>c, <1>b DEF MarkFailed
  <2>3. status' = [status EXCEPT ![Config(w)] = IF "failed" = wrow[w].status THEN @ ELSE "failed"]
    BY <2>1 DEF mark_failed, Written
  <2>4. \A c \in Configs : status'[c] = "pending" => status[c] = "pending"
    BY <2>3, <1>t
  <2>5. Settles(w) => Settles(w)' \/ status'[Config(w)] # "pending"
    <3>0. wpc'[w] = "nack"
      BY <1>7, <1>c DEF MarkFailed
    <3>4. taskRetries[wtask[w]] < MaxRetries => Settles(w)'
      BY <3>0, <2>2 DEF Settles
    <3>1. Settles(w) => wrow[w].status # "failed" \/ taskRetries[wtask[w]] < MaxRetries
      BY <2>2 DEF Settles, Building
    <3>2. wrow[w].status # "failed" /\ Config(w) \in Configs => status'[Config(w)] = "failed"
      BY <2>3, <1>t
    <3>3. Config(w) \in Configs
      <4>1. wtask[w] \in 1..ntasks /\ wtask[w] \in Tasks
        BY <2>2 DEF TypeOK, WorkerTypeOK, BrokerTypeOK, Tasks
      <4> QED BY <4>1 DEF TypeOK, BrokerTypeOK, Config
    <3> QED BY <3>1, <3>2, <3>3, <3>4
  <2> QED BY <2>2, <2>4, <2>5, <1>h
<1>8. CASE Ack(w) \/ Nack(w)
  <2>0. wtask[w] \in Tasks /\ taskRetries \in [Tasks -> 0..MaxRetries]
    BY <1>8 DEF Ack, Nack, TypeOK, WorkerTypeOK, BrokerTypeOK, Tasks
  <2>1. /\ wtask'[w] = 0 /\ Others /\ UNCHANGED status
        /\ \/ UNCHANGED brokerVars /\ (Ack(w) \/ ~Holds(w, wtask[w]))
           \/ Holds(w, wtask[w]) /\ ack(w, wtask[w]) /\ Ack(w)
           \/ Holds(w, wtask[w]) /\ nack(w, wtask[w])
    BY <1>8, <1>e, <1>d DEF Ack, Nack
  <2>2. CASE UNCHANGED brokerVars
    BY <2>1, <2>2, <1>b, <1>h DEF WorkerPends
  <2>3. CASE Holds(w, wtask[w]) /\ ack(w, wtask[w]) /\ Ack(w)
    <3>1. ~Settles(w)
      BY <2>3 DEF Ack, Settles, Building
    <3>2. /\ UNCHANGED <<taskConfig, taskRetries>>
          /\ \A t \in Tasks : \/ taskState'[t] = taskState[t] /\ taskHolder'[t] = taskHolder[t]
                              \/ taskHolder[t] = w /\ wtask[w] = t /\ taskState[t] = "PROCESSING"
      BY <2>3, <1>t DEF ack, Holds
    <3> QED BY <2>1, <3>1, <3>2, <1>t DEF WorkerPends
  <2>4. CASE Holds(w, wtask[w]) /\ nack(w, wtask[w])
    <3>1. /\ UNCHANGED taskConfig
          /\ taskRetries[wtask[w]] < MaxRetries => taskState'[wtask[w]] = "PENDING"
          /\ taskHolder[wtask[w]] = w /\ taskState[wtask[w]] = "PROCESSING"
          /\ \A t \in Tasks \ {wtask[w]} : /\ taskState'[t] = taskState[t]
                                          /\ taskHolder'[t] = taskHolder[t]
                                          /\ taskRetries'[t] = taskRetries[t]
      BY <2>4, <2>0, <1>t DEF nack, Holds
    <3>2. Settles(w) => taskRetries[wtask[w]] < MaxRetries \/ Ack(w)
      BY <1>8 DEF Ack, Nack, Settles, Building
    <3>3. Settles(w) => ~Ack(w)
      BY DEF Ack, Settles, Building
    <3> QED BY <2>0, <2>1, <3>1, <3>2, <3>3, <1>t DEF WorkerPends
  <2> QED BY <2>1, <2>2, <2>3, <2>4
<1>9. CASE WorkerDies(w)
  BY <1>9, <1>e, <1>b, <1>r, <1>h DEF WorkerDies
<1>10. CASE HeartbeatFails(w)
  <2>1. UNCHANGED <<wpc, wtask, wrow, status, taskState, taskConfig, taskHolder, taskRetries>>
    BY <1>10, <1>b, <1>d DEF HeartbeatFails
  <2>2. Settles(w)' <=> Settles(w)
    BY <2>1 DEF Settles, Building
  <2> QED BY <2>1, <2>2, <1>h
<1>11. CASE MarkFailedRaises(w)
  <2>1. /\ wpc[w] \in {"failing", "markFailed"} /\ wpc'[w] = "nack" /\ wtask'[w] = wtask[w] /\ Others
        /\ UNCHANGED status /\ UNCHANGED <<taskState, taskConfig, taskHolder, taskRetries>>
    BY <1>11, <1>c, <1>b, <1>d DEF MarkFailedRaises
  <2>2. CASE Holds(w, wtask[w])
    <3>1. taskRetries[wtask[w]] < MaxRetries
      <4>1. wtask[w] \in Tasks
        BY <2>1 DEF TypeOK, WorkerTypeOK, BrokerTypeOK, Tasks
      <4>2. taskRetries[wtask[w]] # MaxRetries
        BY <1>11, <2>2 DEF FailureIsLost
      <4> QED BY <4>1, <4>2 DEF TypeOK, BrokerTypeOK
    <3>2. Settles(w)'
      BY <2>1, <3>1 DEF Settles
    <3> QED BY <2>1, <3>2, <1>h
  <2>3. CASE ~Holds(w, wtask[w])
    BY <2>1, <2>3, <1>t DEF WorkerPends, Holds
  <2> QED BY <2>2, <2>3
<1> QED
  BY <1>1, <1>2, <1>3, <1>4, <1>5, <1>6, <1>7, <1>8, <1>9, <1>10, <1>11 DEF WorkerStep, WorkerFault

\* No step strands a pending config but the death of a request between commit
\* and publish, and a failure that is lost on the last try.
LEMMA SettledStep ==
  TypeOK /\ PendingIsSettled /\ Next /\ ~DiesBeforePublish /\ ~FailureIsLost => PendingIsSettled'
<1> SUFFICES ASSUME TypeOK, PendingIsSettled, Next, ~DiesBeforePublish, ~FailureIsLost,
                    NEW c \in Configs, status'[c] = "pending"
             PROVE  \/ \E a \in Clients : apc'[a] = "publish" /\ aconfig'[a] = c
                    \/ \E t \in Tasks : Outstanding(t)' /\ taskConfig'[t] = c
  BY DEF PendingIsSettled
<1>t. \A t \in Tasks : Outstanding(t) => t \in 1..ntasks
  BY DEF TypeOK, BrokerTypeOK, Outstanding, Tasks
<1>1. CASE ApiNext
  <2>1. RequestPends
    BY <1>1, RequestsPend
  <2>2. \A t \in Tasks : Outstanding(t) => Outstanding(t)' /\ taskConfig'[t] = taskConfig[t]
    BY <2>1, <1>t DEF RequestPends, Outstanding, Settles, Building
  <2>3. \A t \in Tasks : taskState'[t] = "PENDING" => Outstanding(t)'
    BY DEF Outstanding
  <2> QED
    BY <2>1, <2>2, <2>3 DEF RequestPends, PendingIsSettled
<1>2. ASSUME NEW w \in Workers,
             (\E t \in Tasks : Pull(w, t)) \/ WorkerStep(w) \/ WorkerFault(w)
      PROVE  /\ UNCHANGED taskConfig /\ status[c] = "pending"
             /\ \A t \in Tasks : taskConfig[t] = c /\ Outstanding(t) => Outstanding(t)'
  <2>1. WorkerPends(w)
    BY <1>2, WorkersPend
  <2>2. ASSUME NEW u \in Workers \ {w}, NEW t \in Tasks,
               taskState[t] = "PROCESSING", taskHolder[t] = u, wtask[u] = t
        PROVE  Settles(u)' <=> Settles(u)
    BY <2>1, <2>2 DEF WorkerPends, Settles, Building
  <2>3. ASSUME NEW t \in Tasks, taskConfig[t] = c, taskState[t] = "PENDING" PROVE Outstanding(t)'
    <3>1. CASE taskState'[t] = "PENDING"
      BY <3>1 DEF Outstanding
    <3>2. CASE taskState'[t] = "PROCESSING" /\ taskHolder'[t] = w /\ Settles(w)'
      BY <3>2 DEF Outstanding
    <3> QED BY <2>1, <2>3, <3>1, <3>2 DEF WorkerPends
  <2>4. ASSUME NEW t \in Tasks, taskConfig[t] = c, taskState[t] = "PROCESSING", Outstanding(t)
        PROVE  Outstanding(t)'
    <3>1. CASE taskState'[t] = "PENDING"
      BY <3>1 DEF Outstanding
    <3>2. \A u \in Workers : taskHolder[t] = u /\ wtask[u] = t => Settles(u)
      BY <2>4 DEF Outstanding
    <3>3. CASE taskState'[t] = "PROCESSING" /\ taskHolder'[t] = taskHolder[t]
      <4>1. ASSUME NEW u \in Workers \ {w}, taskHolder[t] = u, wtask'[u] = t PROVE Settles(u)'
        BY <4>1, <3>2, <2>1, <2>2, <2>4 DEF WorkerPends
      <4>2. taskHolder[t] = w /\ wtask'[w] = t => Settles(w)'
        BY <2>1, <2>4, <3>2 DEF WorkerPends
      <4> QED BY <3>3, <4>1, <4>2 DEF Outstanding
    <3> QED BY <2>1, <2>4, <3>1, <3>2, <3>3 DEF WorkerPends
  <2> QED
    BY <2>1, <2>3, <2>4 DEF WorkerPends, Outstanding
<1>3. ASSUME NEW e \in Tasks, LeaseExpires(e)
      PROVE  /\ UNCHANGED taskConfig /\ status[c] = "pending"
             /\ \A t \in Tasks : taskConfig[t] = c /\ Outstanding(t) => Outstanding(t)'
  <2>1. /\ UNCHANGED <<taskConfig, taskRetries, status, wpc, wtask, wrow>>
        /\ taskState' = [taskState EXCEPT ![e] = "PENDING"]
        /\ taskHolder' = [taskHolder EXCEPT ![e] = NoOne]
    BY <1>3 DEF LeaseExpires, LeaseRunsOut, workerVars, dbVars
  <2>2. /\ \A t \in Tasks \ {e} : taskState'[t] = taskState[t] /\ taskHolder'[t] = taskHolder[t]
        /\ taskState'[e] = "PENDING"
    BY <2>1 DEF TypeOK, BrokerTypeOK
  <2>3. \A w \in Workers : Settles(w)' <=> Settles(w)
    BY <2>1 DEF Settles, Building
  <2> QED
    BY <2>1, <2>2, <2>3 DEF Outstanding
<1>4. CASE WorkerNext
  <2>1. UNCHANGED <<apc, aconfig>>
    BY <1>4 DEF WorkerNext, clientVars
  <2>2. /\ UNCHANGED taskConfig /\ status[c] = "pending"
        /\ \A t \in Tasks : taskConfig[t] = c /\ Outstanding(t) => Outstanding(t)'
    BY <1>4, <1>2, <1>3 DEF WorkerNext
  <2> QED
    BY <2>1, <2>2 DEF PendingIsSettled
<1> QED
  BY <1>1, <1>4 DEF Next

\* README.md:131.  A pending config has a task, or a request about to publish
\* one, in every behaviour in which no request dies between its commit and its
\* call to the broker and no last try loses its failure because mark_failed
\* raises: lost leases, retries, dead workers, lost answers of the broker and
\* a mark_failed that raises on an earlier try do not strand it.
THEOREM PendingQueued ==
  Spec /\ [][~DiesBeforePublish /\ ~FailureIsLost]_vars => []PendingIsQueued
<1>1. Init => PendingIsSettled
  BY DEF Init, StoreInit, PendingIsSettled
<1>2. TypeOK /\ PendingIsSettled /\ [Next]_vars /\ [~DiesBeforePublish /\ ~FailureIsLost]_vars => PendingIsSettled'
  <2>1. PendingIsSettled /\ UNCHANGED vars => PendingIsSettled'
    BY DEF PendingIsSettled, Outstanding, Settles, Building, vars, dbVars, brokerVars, clientVars,
       workerVars
  <2> QED
    BY <2>1, SettledStep
<1>3. PendingIsSettled => PendingIsQueued
  BY DEF PendingIsSettled, PendingIsQueued, Outstanding
<1> QED
  BY <1>1, <1>2, <1>3, TypeCorrect, PTL DEF Spec

\* The same where no process dies and the broker answers, as the run has it.
THEOREM PendingQueuedWithoutFaults ==
  ASSUME MaxFaults = 0 PROVE Spec => []PendingIsQueued
<1>1. TypeOK /\ [Next]_vars => [~DiesBeforePublish /\ ~FailureIsLost]_vars
  BY DEF TypeOK, DiesBeforePublish, FailureIsLost, RequestDies, MarkFailedRaises, Fault
<1> QED
  BY <1>1, PendingQueued, TypeCorrect, PTL DEF Spec

=============================================================================
