---------------------------- MODULE PanelSafety ----------------------------
(***************************************************************************)
(* That Safety is inductive, and what follows from it, for every value of  *)
(* the constants; then that an active config serves what is stored while   *)
(* nothing breaks.                                                         *)
(*                                                                         *)
(* The forty actions are read three times: once for the versions (the      *)
(* Frames: which of the actions can change what the data invariants speak  *)
(* of), once for the row lock (LockMoves: how an action moves the lock and *)
(* its own place among the writers), once for the leases and the host's    *)
(* files (WorkerLeases, ServeFrames).  The conjuncts of Safety and of      *)
(* Serving are then proved from the frames, without looking at the actions *)
(* again.                                                                  *)
(***************************************************************************)
EXTENDS PanelProofs

USE StoreAssumption, BrokerAssumption, RequestsAssumption
USE DEF Goto, Respond, Continue, ContinueWith, Release

\* Versions and current_version move in these three steps only.
StoreFrame ==
  \/ UNCHANGED <<versions, current>>
  \/ \E w \in Workers : Persist(w) \/ Reactivate(w)
  \/ \E a \in Clients : EditCommit(a)

\* Only the two steps of a worker that write current_version make a config active.
StatusFrame ==
  \/ \A c \in Configs : status'[c] = "active" => status[c] = "active"
  \/ \E w \in Workers : Persist(w) \/ Reactivate(w)

\* A published task never changes what it asks for.
PayloadFrame ==
  \/ UNCHANGED <<ntasks, taskConfig, taskTarget>>
  \/ \E a \in Clients : apc[a] = "publish" /\ publish_task(aconfig[a], aversion[a])

\* A task is completed by the worker that has it in hand and acks it.
CompletedFrame ==
  \A t \in Tasks : taskState'[t] = "COMPLETED" =>
    \/ taskState[t] = "COMPLETED"
    \/ \E w \in Workers : wpc[w] = "ack" /\ wtask[w] = t

\* Where a request that is about to publish has its target version from.
PublishFrame ==
  \A a \in Clients : apc'[a] = "publish" =>
    \/ apc[a] = "publish" /\ aconfig'[a] = aconfig[a] /\ aversion'[a] = aversion[a]
    \/ aversion'[a] = 1
    \/ aversion'[a] = current[aconfig'[a]] + 1

\* Where the editor has the version it edits from.
EditFrame ==
  \A a \in Clients : apc'[a] \in {"edit"} \cup EditLocked =>
    \/ apc[a] \in {"edit"} \cup EditLocked /\ aconfig'[a] = aconfig[a] /\ aversion'[a] = aversion[a]
    \/ has_version(aconfig'[a], aversion'[a])

\* How a worker comes to reactivate or to ack.
DoneFrame ==
  \A w \in Workers : wpc'[w] \in {"reactivate", "ack"} =>
    /\ wpc[w] # "idle" /\ wtask'[w] = wtask[w]
    /\ \/ wpc[w] \in {"reactivate", "ack"}
       \/ has_version(Config(w), Target(w))
       \/ Persist(w)

\* The row a worker is about to flush: the one it has loaded in this step or kept.
LoadedFrame ==
  \A w \in Workers : wpc'[w] = "reactivate" =>
    \/ wpc[w] = "reactivate" /\ wrow'[w] = wrow[w]
    \/ wrow'[w].current = current[Config(w)] /\ UNCHANGED current

\* All of them: what a step of the panel may do to the data.
Frames ==
  /\ StoreFrame /\ StatusFrame /\ PayloadFrame /\ CompletedFrame /\ PublishFrame
  /\ EditFrame /\ DoneFrame /\ LoadedFrame

\* What one step of a request can change, frame by frame: the handlers of
\* create, regenerate, edit and delete, and the faults that end them.
LEMMA ApiFrames == TypeOK /\ ApiNext => Frames
<1> SUFFICES ASSUME TypeOK, ApiNext PROVE Frames
  OBVIOUS
<1>w. DoneFrame /\ LoadedFrame
  BY DEF ApiNext, workerVars, DoneFrame, LoadedFrame
<1> DEFINE Rest == StoreFrame /\ StatusFrame /\ PayloadFrame /\ CompletedFrame /\ PublishFrame /\ EditFrame
<1>a. PICK a \in Clients : (\E c \in Configs : ApiRequest(a, c)) \/ ApiStep(a) \/ ApiFault(a)
  BY DEF ApiNext
<1>t. /\ apc \in [Clients -> ClientStates] /\ aconfig \in [Clients -> Configs \cup {NoOne}]
      /\ aversion \in [Clients -> 0..MaxVersion]
      /\ status \in [Configs -> Statuses]
      /\ taskState \in [Tasks -> TaskStates]
      /\ ntasks \in 0..MaxTasks
  <2>1. ClientTypeOK /\ StoreTypeOK /\ BrokerTypeOK
    BY DEF TypeOK
  <2> QED BY <2>1 DEF ClientTypeOK, StoreTypeOK, BrokerTypeOK
<1>n. ntasks < MaxTasks => ntasks + 1 \in Tasks
  BY DEF TypeOK, BrokerTypeOK, Tasks
<1>s. ASSUME UNCHANGED <<status, current, versions>>
      PROVE  StoreFrame /\ StatusFrame
  BY <1>s DEF StoreFrame, StatusFrame
<1>p. ASSUME UNCHANGED <<ntasks, taskState, taskConfig, taskTarget>>
      PROVE  PayloadFrame /\ CompletedFrame
  BY <1>p DEF PayloadFrame, CompletedFrame
<1> USE DEF dbVars, brokerVars
<1>1. ASSUME NEW c \in Configs, CreateConfig(a, c) PROVE Rest
  <2>1. StoreFrame /\ StatusFrame
    BY <1>1, <1>t DEF CreateConfig, create_pending, StoreFrame, StatusFrame
  <2>2. PublishFrame /\ EditFrame
    BY <1>1, <1>t DEF CreateConfig, create_pending, PublishFrame, EditFrame, EditLocked
  <2> QED BY <1>1, <1>p, <2>1, <2>2 DEF CreateConfig
<1>2. ASSUME NEW c \in Configs, RegenerateCheck(a, c) PROVE Rest
  <2>2. PublishFrame /\ EditFrame
    BY <1>2, <1>t DEF RegenerateCheck, PublishFrame, EditFrame, EditLocked
  <2> QED BY <1>2, <1>s, <1>p, <2>2 DEF RegenerateCheck
<1>3. ASSUME NEW c \in Configs, DeleteRemoveUnit(a, c) PROVE Rest
  <2>2. PublishFrame /\ EditFrame
    BY <1>3, <1>t DEF DeleteRemoveUnit, PublishFrame, EditFrame, EditLocked
  <2> QED BY <1>3, <1>s, <1>p, <2>2 DEF DeleteRemoveUnit
<1>4. ASSUME NEW c \in Configs, NEW body \in Edits, EditCheck(a, c, body) PROVE Rest
  <2>2. PublishFrame /\ EditFrame
    BY <1>4, <1>t DEF EditCheck, PublishFrame, EditFrame, EditLocked
  <2> QED BY <1>4, <1>s, <1>p, <2>2 DEF EditCheck
<1>5. ASSUME RegenerateCommit(a) PROVE Rest
  <2>1. StoreFrame /\ StatusFrame
    BY <1>5, <1>t DEF RegenerateCommit, prepare_regenerate, StoreFrame, StatusFrame
  <2>2. PublishFrame /\ EditFrame
    BY <1>5, <1>t DEF RegenerateCommit, PublishFrame, EditFrame, EditLocked
  <2> QED BY <1>5, <1>p, <2>1, <2>2 DEF RegenerateCommit
<1>6. ASSUME PublishTask(a) PROVE Rest
  <2>1. PayloadFrame /\ CompletedFrame
    BY <1>6, <1>t, <1>n DEF PublishTask, publish_task, PayloadFrame, CompletedFrame
  <2>2. PublishFrame /\ EditFrame
    BY <1>6, <1>t DEF PublishTask, PublishFrame, EditFrame, EditLocked
  <2> QED BY <1>6, <1>s, <2>1, <2>2 DEF PublishTask
<1>7. ASSUME PublishAnswerLost(a) PROVE Rest
  <2>1. PayloadFrame /\ CompletedFrame
    BY <1>7, <1>t, <1>n DEF PublishAnswerLost, publish_task, PayloadFrame, CompletedFrame
  <2>2. PublishFrame /\ EditFrame
    BY <1>7, <1>t DEF PublishAnswerLost, PublishFrame, EditFrame, EditLocked
  <2> QED BY <1>7, <1>s, <2>1, <2>2 DEF PublishAnswerLost
<1>8. ASSUME SetLastTask(a) PROVE Rest
  <2>2. PublishFrame /\ EditFrame
    BY <1>8, <1>t DEF SetLastTask, PublishFrame, EditFrame, EditLocked
  <2> QED BY <1>8, <1>s, <1>p, <2>2 DEF SetLastTask
<1>9. ASSUME SaveLastTask(a) PROVE Rest
  <2>1. StoreFrame /\ StatusFrame
    BY <1>9, <1>t DEF SaveLastTask, set_last_task_id, StoreFrame, StatusFrame
  <2>2. PublishFrame /\ EditFrame
    BY <1>9, <1>t DEF SaveLastTask, PublishFrame, EditFrame, EditLocked
  <2> QED BY <1>9, <1>s, <1>p, <2>1, <2>2 DEF SaveLastTask
<1>10. ASSUME EditFlush(a) PROVE Rest
  <2>1. StoreFrame /\ StatusFrame
    BY <1>10, <1>t DEF EditFlush, LockRow, StoreFrame, StatusFrame
  <2>2. PublishFrame /\ EditFrame
    BY <1>10, <1>t DEF EditFlush, PublishFrame, EditFrame, EditLocked
  <2> QED BY <1>10, <1>p, <2>1, <2>2 DEF EditFlush
<1>11. ASSUME EditGone(a) PROVE Rest
  <2>2. PublishFrame /\ EditFrame
    BY <1>11, <1>t DEF EditGone, PublishFrame, EditFrame, EditLocked
  <2> QED BY <1>11, <1>s, <1>p, <2>2 DEF EditGone
<1>12. ASSUME EditWrite(a) PROVE Rest
  <2>2. PublishFrame /\ EditFrame
    BY <1>12, <1>t DEF EditWrite, PublishFrame, EditFrame, EditLocked
  <2> QED BY <1>12, <1>s, <1>p, <2>2 DEF EditWrite
<1>13. ASSUME EditInstall(a) PROVE Rest
  <2>2. PublishFrame /\ EditFrame
    BY <1>13, <1>t DEF EditInstall, PublishFrame, EditFrame, EditLocked
  <2> QED BY <1>13, <1>s, <1>p, <2>2 DEF EditInstall
<1>14. ASSUME EditInstallRaises(a) PROVE Rest
  <2>1. StoreFrame /\ StatusFrame
    BY <1>14, <1>t DEF EditInstallRaises, Rollback, StoreFrame, StatusFrame
  <2>2. PublishFrame /\ EditFrame
    BY <1>14, <1>t DEF EditInstallRaises, PublishFrame, EditFrame, EditLocked
  <2> QED BY <1>14, <1>p, <2>1, <2>2 DEF EditInstallRaises
<1>15. ASSUME EditCommit(a) PROVE Rest
  <2>1. StoreFrame /\ StatusFrame
    BY <1>15, <1>t DEF EditCommit, update_version_config_data, StoreFrame, StatusFrame
  <2>2. PublishFrame /\ EditFrame
    BY <1>15, <1>t DEF EditCommit, PublishFrame, EditFrame, EditLocked
  <2> QED BY <1>15, <1>p, <2>1, <2>2 DEF EditCommit
<1>16. ASSUME DeleteCommit(a) PROVE Rest
  <2>1. StoreFrame /\ StatusFrame
    BY <1>16, <1>t DEF DeleteCommit, soft_delete, StoreFrame, StatusFrame
  <2>2. PublishFrame /\ EditFrame
    BY <1>16, <1>t DEF DeleteCommit, PublishFrame, EditFrame, EditLocked
  <2> QED BY <1>16, <1>p, <2>1, <2>2 DEF DeleteCommit
<1>17. ASSUME RequestDies(a) PROVE Rest
  <2>1. StoreFrame /\ StatusFrame
    BY <1>17, <1>t DEF RequestDies, Rollback, StoreFrame, StatusFrame
  <2>2. PublishFrame /\ EditFrame
    BY <1>17, <1>t DEF RequestDies, PublishFrame, EditFrame, EditLocked
  <2> QED BY <1>17, <1>p, <2>1, <2>2 DEF RequestDies
<1>18. ASSUME DeleteRemoveLive(a) PROVE Rest
  <2>2. PublishFrame /\ EditFrame
    BY <1>18, <1>t DEF DeleteRemoveLive, PublishFrame, EditFrame, EditLocked
  <2> QED BY <1>18, <1>s, <1>p, <2>2 DEF DeleteRemoveLive
<1>r. Rest
  BY <1>a, <1>1, <1>2, <1>3, <1>4, <1>5, <1>6, <1>7, <1>8, <1>9, <1>10, <1>11, <1>12, <1>13,
     <1>14, <1>15, <1>16, <1>17, <1>18 DEF ApiRequest, ApiStep, ApiFault
<1> QED
  BY <1>w, <1>r DEF Frames

\* What one step of a worker, or a lease that runs out, can change.
LEMMA WorkerFrames == TypeOK /\ WorkerNext => Frames
<1> SUFFICES ASSUME TypeOK, WorkerNext PROVE Frames
  OBVIOUS
<1> DEFINE Rest == StoreFrame /\ StatusFrame /\ PayloadFrame /\ CompletedFrame /\ DoneFrame /\ LoadedFrame
<1>c. PublishFrame /\ EditFrame
  BY DEF WorkerNext, clientVars, PublishFrame, EditFrame
<1>t. /\ wpc \in [Workers -> WorkerStates] /\ wtask \in [Workers -> 0..MaxTasks]
      /\ wrow \in [Workers -> LoadedRow]
      /\ status \in [Configs -> Statuses]
      /\ current \in [Configs -> 0..MaxVersion]
      /\ taskState \in [Tasks -> TaskStates]
  <2>1. WorkerTypeOK /\ StoreTypeOK /\ BrokerTypeOK
    BY DEF TypeOK
  <2> QED BY <2>1 DEF WorkerTypeOK, StoreTypeOK, BrokerTypeOK
<1>s. ASSUME UNCHANGED <<status, current, versions>>
      PROVE  StoreFrame /\ StatusFrame
  BY <1>s DEF StoreFrame, StatusFrame
<1>p. ASSUME UNCHANGED <<ntasks, taskState, taskConfig, taskTarget>>
      PROVE  PayloadFrame /\ CompletedFrame
  BY <1>p DEF PayloadFrame, CompletedFrame
<1>q. ASSUME UNCHANGED <<wpc, wtask, wrow>>
      PROVE  DoneFrame /\ LoadedFrame
  BY <1>q, <1>t DEF DoneFrame, LoadedFrame
<1> USE DEF dbVars, brokerVars
<1>0. ASSUME NEW t \in Tasks, LeaseExpires(t) PROVE Rest
  <2>1. PayloadFrame /\ CompletedFrame
    BY <1>0, <1>t DEF LeaseExpires, LeaseRunsOut, PayloadFrame, CompletedFrame
  <2> QED BY <1>0, <1>s, <1>q, <2>1 DEF LeaseExpires, workerVars
<1>w. ASSUME NEW w \in Workers,
             (\E t \in Tasks : Pull(w, t)) \/ WorkerStep(w) \/ WorkerFault(w)
      PROVE  Rest
  <2>1. ASSUME NEW t \in Tasks, Pull(w, t) PROVE Rest
    <3>1. PayloadFrame /\ CompletedFrame
      BY <2>1, <1>t DEF Pull, pull, PayloadFrame, CompletedFrame
    <3>2. DoneFrame /\ LoadedFrame
      BY <2>1, <1>t DEF Pull, DoneFrame, LoadedFrame
    <3> QED BY <2>1, <1>s, <3>1, <3>2 DEF Pull
  <2>2. ASSUME CheckVersion(w) PROVE Rest
    <3>2. DoneFrame /\ LoadedFrame
      BY <2>2, <1>t DEF CheckVersion, Loaded, DoneFrame, LoadedFrame
    <3> QED BY <2>2, <1>s, <1>p, <3>2 DEF CheckVersion
  <2>3. ASSUME Reactivate(w) PROVE Rest
    <3>1. StoreFrame /\ StatusFrame
      BY <2>3 DEF StoreFrame, StatusFrame
    <3>2. DoneFrame /\ LoadedFrame
      BY <2>3, <1>t DEF Reactivate, DoneFrame, LoadedFrame
    <3> QED BY <2>3, <1>p, <3>1, <3>2 DEF Reactivate
  <2>4. ASSUME MarkProcessing(w) PROVE Rest
    <3>1. StoreFrame /\ StatusFrame
      BY <2>4, <1>t DEF MarkProcessing, LockRow, StoreFrame, StatusFrame
    <3>2. DoneFrame /\ LoadedFrame
      BY <2>4, <1>t DEF MarkProcessing, DoneFrame, LoadedFrame
    <3> QED BY <2>4, <1>p, <3>1, <3>2 DEF MarkProcessing
  <2>5. ASSUME StopUnit(w) PROVE Rest
    <3>2. DoneFrame /\ LoadedFrame
      BY <2>5, <1>t DEF StopUnit, DoneFrame, LoadedFrame
    <3> QED BY <2>5, <1>s, <1>p, <3>2 DEF StopUnit
  <2>6. ASSUME BuildAndWrite(w) PROVE Rest
    <3>2. DoneFrame /\ LoadedFrame
      BY <2>6, <1>t DEF BuildAndWrite, DoneFrame, LoadedFrame
    <3> QED BY <2>6, <1>s, <1>p, <3>2 DEF BuildAndWrite
  <2>7. ASSUME InstallUnit(w) PROVE Rest
    <3>2. DoneFrame /\ LoadedFrame
      BY <2>7, <1>t DEF InstallUnit, DoneFrame, LoadedFrame
    <3> QED BY <2>7, <1>s, <1>p, <3>2 DEF InstallUnit
  <2>8. ASSUME InstallRaises(w) PROVE Rest
    <3>1. StoreFrame /\ StatusFrame
      BY <2>8, <1>t DEF InstallRaises, Rollback, StoreFrame, StatusFrame
    <3>2. DoneFrame /\ LoadedFrame
      BY <2>8, <1>t DEF InstallRaises, DoneFrame, LoadedFrame
    <3> QED BY <2>8, <1>p, <3>1, <3>2 DEF InstallRaises
  <2>9. ASSUME Persist(w) PROVE Rest
    <3>1. StoreFrame /\ StatusFrame
      BY <2>9 DEF StoreFrame, StatusFrame
    <3>2. DoneFrame /\ LoadedFrame
      BY <2>9, <1>t DEF Persist, DoneFrame, LoadedFrame
    <3> QED BY <2>9, <1>p, <3>1, <3>2 DEF Persist
  <2>10. ASSUME PersistConflict(w) PROVE Rest
    <3>1. StoreFrame /\ StatusFrame
      BY <2>10, <1>t DEF PersistConflict, Rollback, StoreFrame, StatusFrame
    <3>2. DoneFrame /\ LoadedFrame
      BY <2>10, <1>t DEF PersistConflict, DoneFrame, LoadedFrame
    <3> QED BY <2>10, <1>p, <3>1, <3>2 DEF PersistConflict
  <2>11. ASSUME HandlerRaises(w) PROVE Rest
    <3>1. StoreFrame /\ StatusFrame
      BY <2>11, <1>t DEF HandlerRaises, Rollback, StoreFrame, StatusFrame
    <3>2. DoneFrame /\ LoadedFrame
      BY <2>11, <1>t DEF HandlerRaises, Handling, Building, DoneFrame, LoadedFrame
    <3> QED BY <2>11, <1>p, <3>1, <3>2 DEF HandlerRaises
  <2>12. ASSUME LoadForMarkFailed(w) PROVE Rest
    <3>2. DoneFrame /\ LoadedFrame
      BY <2>12, <1>t DEF LoadForMarkFailed, DoneFrame, LoadedFrame
    <3> QED BY <2>12, <1>s, <1>p, <3>2 DEF LoadForMarkFailed
  <2>13. ASSUME MarkFailed(w) PROVE Rest
    <3>1. StoreFrame /\ StatusFrame
      BY <2>13, <1>t DEF MarkFailed, mark_failed, Written, StoreFrame, StatusFrame
    <3>2. DoneFrame /\ LoadedFrame
      BY <2>13, <1>t DEF MarkFailed, DoneFrame, LoadedFrame
    <3> QED BY <2>13, <1>p, <3>1, <3>2 DEF MarkFailed
  <2>14. ASSUME Ack(w) PROVE Rest
    <3>1. PayloadFrame /\ CompletedFrame
      BY <2>14, <1>t DEF Ack, ack, brokerVars, PayloadFrame, CompletedFrame
    <3>2. DoneFrame /\ LoadedFrame
      BY <2>14, <1>t DEF Ack, DoneFrame, LoadedFrame
    <3> QED BY <2>14, <1>s, <3>1, <3>2 DEF Ack
  <2>15. ASSUME Nack(w) PROVE Rest
    <3>1. PayloadFrame /\ CompletedFrame
      BY <2>15, <1>t DEF Nack, nack, brokerVars, PayloadFrame, CompletedFrame
    <3>2. DoneFrame /\ LoadedFrame
      BY <2>15, <1>t DEF Nack, DoneFrame, LoadedFrame
    <3> QED BY <2>15, <1>s, <3>1, <3>2 DEF Nack
  <2>16. ASSUME WorkerDies(w) PROVE Rest
    <3>1. StoreFrame /\ StatusFrame
      BY <2>16, <1>t DEF WorkerDies, Rollback, StoreFrame, StatusFrame
    <3>2. DoneFrame /\ LoadedFrame
      BY <2>16, <1>t DEF WorkerDies, DoneFrame, LoadedFrame
    <3> QED BY <2>16, <1>p, <3>1, <3>2 DEF WorkerDies
  <2>17. ASSUME HeartbeatFails(w) PROVE Rest
    BY <2>17, <1>s, <1>p, <1>q DEF HeartbeatFails
  <2>18. ASSUME MarkFailedRaises(w) PROVE Rest
    <3>2. DoneFrame /\ LoadedFrame
      BY <2>18, <1>t DEF MarkFailedRaises, DoneFrame, LoadedFrame
    <3> QED BY <2>18, <1>s, <1>p, <3>2 DEF MarkFailedRaises
  <2> QED
    BY <1>w, <2>1, <2>2, <2>3, <2>4, <2>5, <2>6, <2>7, <2>8, <2>9, <2>10, <2>11, <2>12, <2>13, <2>14, <2>15, <2>16, <2>17, <2>18
       DEF WorkerStep, WorkerFault
<1>r. Rest
  BY <1>0, <1>w DEF WorkerNext
<1> QED
  BY <1>c, <1>r DEF Frames


----------------------------------------------------------------------------
(* What each conjunct of Safety rests on                                    *)

\* Persist adds the target of the task it has in hand, the version after it is
\* not there, the one before it is.
LEMMA StoreSteps ==
  ASSUME Safety, StoreFrame
  PROVE  \/ UNCHANGED <<versions, current>>
         \/ \E c \in Configs, v \in Versions, s \in Authors :
              /\ ~has_version(c, v)
              /\ v > 1 => has_version(c, v - 1)
              /\ versions' = [versions EXCEPT ![c][v] = s]
              /\ current' = [current EXCEPT ![c] = v]
         \/ \E c \in Configs, v \in Versions :
              /\ has_version(c, v)
              /\ UNCHANGED versions
              /\ \/ current' = [current EXCEPT ![c] = v]
                 \/ UNCHANGED current
         \/ \E c \in Configs, v \in Versions, s \in Authors :
              /\ has_version(c, v)
              /\ versions' = [versions EXCEPT ![c][v] = s]
              /\ UNCHANGED current
<1>t. StoreTypeOK /\ BrokerTypeOK /\ ClientTypeOK /\ WorkerTypeOK
  BY DEF Safety, TypeOK
<1>1. ASSUME NEW w \in Workers, Persist(w)
      PROVE  \E c \in Configs, v \in Versions, s \in Authors :
              /\ ~has_version(c, v)
              /\ v > 1 => has_version(c, v - 1)
              /\ versions' = [versions EXCEPT ![c][v] = s]
              /\ current' = [current EXCEPT ![c] = v]
  <2>1. wtask[w] \in 1..ntasks /\ wtask[w] \in Tasks
    BY <1>1, <1>t DEF Persist, WorkerTypeOK, BrokerTypeOK, Tasks
  <2>2. Config(w) \in Configs /\ Target(w) \in Versions /\ w \in Authors
    BY <2>1, <1>t DEF BrokerTypeOK, Config, Target, Authors, Tasks
  <2>3. Target(w) > 1 => has_version(Config(w), Target(w) - 1)
    BY <2>1 DEF Safety, TargetsFollow, Config, Target
  <2> QED
    BY <1>1, <2>2, <2>3 DEF Persist, commit_version
<1>2. ASSUME NEW w \in Workers, Reactivate(w)
      PROVE  \E c \in Configs, v \in Versions :
              /\ has_version(c, v)
              /\ UNCHANGED versions
              /\ \/ current' = [current EXCEPT ![c] = v]
                 \/ UNCHANGED current
  <2>1. wtask[w] \in 1..ntasks /\ wtask[w] \in Tasks
    BY <1>2, <1>t DEF Reactivate, WorkerTypeOK, BrokerTypeOK, Tasks
  <2>2. Config(w) \in Configs /\ Target(w) \in Versions
    BY <2>1, <1>t DEF BrokerTypeOK, Config, Target, Tasks
  <2>3. has_version(Config(w), Target(w))
    BY <1>2 DEF Safety, DoneIsStored, Reactivate
  <2>4. current \in [Configs -> 0..MaxVersion]
    BY <1>t DEF StoreTypeOK
  <2>5. UNCHANGED versions
    BY <1>2 DEF Reactivate, mark_active
  <2>6. \/ current' = [current EXCEPT ![Config(w)] = Target(w)]
        \/ UNCHANGED current
    BY <1>2, <2>4 DEF Reactivate, mark_active, Written
  <2> QED
    BY <2>2, <2>3, <2>5, <2>6
<1>3. ASSUME NEW a \in Clients, EditCommit(a)
      PROVE  \E c \in Configs, v \in Versions, s \in Authors :
              /\ has_version(c, v)
              /\ versions' = [versions EXCEPT ![c][v] = s]
              /\ UNCHANGED current
  <2>1. aconfig[a] \in Configs /\ aversion[a] \in Versions /\ abody[a] \in Authors
    BY <1>3, <1>t DEF EditCommit, ClientTypeOK, EditLocked, Authors
  <2>2. has_version(aconfig[a], aversion[a])
    BY <1>3 DEF Safety, EditsExist, EditCommit, EditLocked
  <2> QED
    BY <1>3, <2>1, <2>2 DEF EditCommit, update_version_config_data
<1> QED
  BY <1>1, <1>2, <1>3 DEF StoreFrame

\* No step takes a version away.
LEMMA VersionsStay ==
  ASSUME Safety, StoreFrame, NEW c \in Configs, NEW v \in Versions, has_version(c, v)
  PROVE  has_version(c, v)'
<1>1. versions \in [Configs -> [Versions -> Authors \cup {NoOne}]] /\ NoOne \notin Authors
  BY DEF Safety, TypeOK, StoreTypeOK, Authors
<1> QED
  BY <1>1, StoreSteps DEF has_version

\* No step makes a current_version NULL again.
LEMMA CurrentStays ==
  ASSUME Safety, StoreFrame, NEW c \in Configs, current[c] # 0
  PROVE  current'[c] # 0
<1>1. current \in [Configs -> 0..MaxVersion]
  BY DEF Safety, TypeOK, StoreTypeOK
<1> QED
  BY <1>1, StoreSteps DEF Versions

\* insert_version adds the version after the last one, so no hole appears.
LEMMA ContiguousStep ==
  ASSUME Safety, StoreFrame PROVE VersionsContiguous' /\ CurrentExists'
<1>1. /\ versions \in [Configs -> [Versions -> Authors \cup {NoOne}]] /\ NoOne \notin Authors
      /\ current \in [Configs -> 0..MaxVersion]
  BY DEF Safety, TypeOK, StoreTypeOK, Authors
<1>2. VersionsContiguous /\ CurrentExists
  BY DEF Safety
<1>3. VersionsContiguous'
  <2> SUFFICES ASSUME NEW c \in Configs, NEW u \in Versions, NEW v \in Versions,
                      u <= v, has_version(c, v)'
               PROVE  has_version(c, u)'
    BY DEF VersionsContiguous, has_version
  <2>1. CASE has_version(c, v)
    BY <2>1, <1>2, VersionsStay DEF VersionsContiguous
  <2>2. CASE ~has_version(c, v)
    <3>1. v > 1 => has_version(c, v - 1)
      BY <2>2, <1>1, StoreSteps DEF has_version
    <3>2. u = v \/ (v - 1 \in Versions /\ u <= v - 1 /\ v > 1)
      BY DEF Versions
    <3> QED
      BY <3>1, <3>2, <1>2, VersionsStay DEF VersionsContiguous
  <2> QED
    BY <2>1, <2>2
<1>4. CurrentExists'
  <2> SUFFICES ASSUME NEW c \in Configs, current'[c] # 0
               PROVE  has_version(c, current[c])'
    BY DEF CurrentExists, has_version
  <2>1. CASE current'[c] = current[c]
    <3>1. current[c] \in Versions
      BY <1>1, <2>1 DEF Versions
    <3>2. has_version(c, current[c])'
      BY <2>1, <3>1, <1>2, VersionsStay DEF CurrentExists, has_version
    <3> QED
      BY <3>2
  <2>2. CASE current'[c] # current[c]
    BY <2>2, <1>1, StoreSteps DEF has_version
  <2> QED
    BY <2>1, <2>2
<1> QED
  BY <1>3, <1>4


\* A config is made active by a step that writes current_version or keeps one
\* the loaded row had.
LEMMA ActiveStep ==
  ASSUME Safety, StoreFrame, StatusFrame PROVE ActiveHasVersion'
<1>t. StoreTypeOK /\ BrokerTypeOK /\ ClientTypeOK /\ WorkerTypeOK
  BY DEF Safety, TypeOK
<1>1. CASE \A c \in Configs : status'[c] = "active" => status[c] = "active"
  BY <1>1, CurrentStays DEF Safety, ActiveHasVersion
<1>2. ASSUME NEW w \in Workers, Persist(w) \/ Reactivate(w)
      PROVE  ActiveHasVersion'
  <2>1. wtask[w] \in 1..ntasks /\ wtask[w] \in Tasks
    BY <1>2, <1>t DEF Persist, Reactivate, WorkerTypeOK, BrokerTypeOK, Tasks
  <2>2. Config(w) \in Configs /\ Target(w) # 0
    BY <2>1, <1>t DEF BrokerTypeOK, Config, Target, Tasks, Versions
  <2>3. current'[Config(w)] # 0
    <3>1. CASE Persist(w)
      BY <3>1, <2>2, <1>t DEF Persist, commit_version, StoreTypeOK
    <3>2. CASE Reactivate(w)
      <4>1. wrow[w].current # 0 => current[Config(w)] # 0
        BY <3>2 DEF Reactivate, Safety, LoadedCurrentStays
      <4> QED
        BY <3>2, <4>1, <2>2, <1>t DEF Reactivate, mark_active, Written, StoreTypeOK
    <3> QED
      BY <1>2, <3>1, <3>2
  <2>4. \A c \in Configs \ {Config(w)} : status'[c] = status[c]
    BY <1>2, <1>t DEF Persist, Reactivate, commit_version, mark_active, StoreTypeOK
  <2> QED
    BY <2>3, <2>4, CurrentStays DEF Safety, ActiveHasVersion
<1> QED
  BY <1>1, <1>2 DEF StatusFrame

\* What a published task asks for stays what it is.
LEMMA PayloadStays ==
  ASSUME Safety, PayloadFrame, NEW t \in 1..ntasks
  PROVE  /\ t \in 1..ntasks' /\ t \in Tasks
         /\ taskConfig'[t] = taskConfig[t] /\ taskTarget'[t] = taskTarget[t]
         /\ taskConfig[t] \in Configs /\ taskTarget[t] \in Versions
<1>1. BrokerTypeOK
  BY DEF Safety, TypeOK
<1>2. /\ t \in Tasks /\ ntasks \in Nat
      /\ taskConfig[t] \in Configs /\ taskTarget[t] \in Versions
  BY <1>1 DEF BrokerTypeOK, Tasks
<1>3. ASSUME NEW a \in Clients, publish_task(aconfig[a], aversion[a])
      PROVE  t \in 1..ntasks' /\ taskConfig'[t] = taskConfig[t] /\ taskTarget'[t] = taskTarget[t]
  BY <1>1, <1>2, <1>3 DEF publish_task, BrokerTypeOK
<1> QED
  BY <1>2, <1>3 DEF PayloadFrame

\* A task is completed only by a worker whose version is stored.
LEMMA CompletedStep ==
  ASSUME Safety, StoreFrame, PayloadFrame, CompletedFrame PROVE CompletedHasVersion'
<1> SUFFICES ASSUME NEW t \in Tasks, taskState'[t] = "COMPLETED"
             PROVE  has_version(taskConfig[t], taskTarget[t])'
  BY DEF CompletedHasVersion, has_version
<1>t. BrokerTypeOK /\ WorkerTypeOK
  BY DEF Safety, TypeOK
<1>1. t \in 1..ntasks /\ has_version(taskConfig[t], taskTarget[t])
  <2>1. CASE taskState[t] = "COMPLETED"
    BY <2>1, <1>t DEF Safety, CompletedHasVersion, BrokerTypeOK, Tasks
  <2>2. ASSUME NEW w \in Workers, wpc[w] = "ack", wtask[w] = t
        PROVE  t \in 1..ntasks /\ has_version(taskConfig[t], taskTarget[t])
    BY <2>2, <1>t DEF Safety, DoneIsStored, WorkerTypeOK, Config, Target
  <2> QED
    BY <2>1, <2>2 DEF CompletedFrame
<1>2. has_version(taskConfig[t], taskTarget[t])'
  BY <1>1, PayloadStays, VersionsStay DEF has_version
<1> QED
  BY <1>2

\* A task published by create or regenerate asks for a version whose
\* predecessor is stored.
LEMMA TargetsStep ==
  ASSUME Safety, StoreFrame, PayloadFrame, TypeOK' PROVE TargetsFollow'
<1> SUFFICES ASSUME NEW t \in 1..ntasks', taskTarget'[t] > 1
             PROVE  has_version(taskConfig[t], taskTarget[t] - 1)'
  BY DEF TargetsFollow, has_version
<1>t. BrokerTypeOK /\ BrokerTypeOK' /\ ClientTypeOK
  BY DEF Safety, TypeOK
<1>1. t \in Tasks /\ taskConfig'[t] \in Configs /\ taskTarget'[t] - 1 \in Versions
  <2>1. t \in Tasks /\ t <= ntasks'
    BY <1>t DEF BrokerTypeOK, Tasks
  <2>2. taskConfig'[t] \in Configs /\ taskTarget'[t] \in Versions
    BY <2>1, <1>t DEF BrokerTypeOK
  <2> QED
    BY <2>1, <2>2 DEF Versions
<1>2. has_version(taskConfig'[t], taskTarget'[t] - 1)
  <2>1. CASE t \in 1..ntasks
    BY <2>1, PayloadStays DEF Safety, TargetsFollow
  <2>2. CASE t \notin 1..ntasks
    <3>1. PICK a \in Clients : apc[a] = "publish" /\ publish_task(aconfig[a], aversion[a])
      BY <2>2 DEF PayloadFrame
    <3>2. t = ntasks + 1
      BY <2>2, <3>1, <1>t DEF publish_task, BrokerTypeOK
    <3>3. taskConfig'[t] = aconfig[a] /\ taskTarget'[t] = aversion[a]
      BY <3>1, <3>2, <1>1, <1>t DEF publish_task, BrokerTypeOK
    <3> QED
      BY <3>1, <3>3 DEF Safety, RequestsFollow
  <2> QED
    BY <2>1, <2>2
<1> QED
  BY <1>1, <1>2, VersionsStay DEF has_version

\* A request that is about to publish asks for version 1, or for the one after
\* the current_version read under the row lock; the version an edit was
\* checked against stays stored.
LEMMA RequestsStep ==
  ASSUME Safety, StoreFrame, PublishFrame, EditFrame, TypeOK'
  PROVE  RequestsFollow' /\ EditsExist'
<1>t. ClientTypeOK /\ ClientTypeOK' /\ StoreTypeOK
  BY DEF Safety, TypeOK
<1>1. RequestsFollow'
  <2> SUFFICES ASSUME NEW a \in Clients, apc'[a] = "publish", aversion'[a] > 1
               PROVE  has_version(aconfig[a], aversion[a] - 1)'
    BY DEF RequestsFollow, has_version
  <2>1. aconfig'[a] \in Configs /\ aversion'[a] - 1 \in Versions
    BY <1>t DEF ClientTypeOK, Versions
  <2>2. has_version(aconfig'[a], aversion'[a] - 1)
    <3>1. CASE aversion'[a] = current[aconfig'[a]] + 1
      <4>1. current[aconfig'[a]] \in Nat
        BY <2>1, <1>t DEF StoreTypeOK
      <4>2. current[aconfig'[a]] = aversion'[a] - 1 /\ current[aconfig'[a]] # 0
        BY <3>1, <4>1
      <4> QED
        BY <2>1, <4>2 DEF Safety, CurrentExists
    <3>2. CASE apc[a] = "publish" /\ aconfig'[a] = aconfig[a] /\ aversion'[a] = aversion[a]
      BY <3>2 DEF Safety, RequestsFollow
    <3> QED
      BY <3>1, <3>2 DEF PublishFrame
  <2> QED
    BY <2>1, <2>2, VersionsStay DEF has_version
<1>2. EditsExist'
  <2> SUFFICES ASSUME NEW a \in Clients, apc'[a] \in {"edit"} \cup EditLocked
               PROVE  has_version(aconfig[a], aversion[a])'
    BY DEF EditsExist, has_version, EditLocked
  <2>1. aconfig'[a] \in Configs /\ aversion'[a] \in Versions
    BY <1>t DEF ClientTypeOK, EditLocked
  <2>2. has_version(aconfig'[a], aversion'[a])
    BY DEF EditFrame, Safety, EditsExist
  <2> QED
    BY <2>1, <2>2, VersionsStay DEF has_version
<1> QED
  BY <1>1, <1>2

\* A worker goes on to reactivate or ack only with the version stored, and it
\* stays stored while it does.
LEMMA WorkersStep ==
  ASSUME Safety, StoreFrame, PayloadFrame, DoneFrame, LoadedFrame
  PROVE  DoneIsStored' /\ LoadedCurrentStays'
<1>t. WorkerTypeOK /\ StoreTypeOK /\ BrokerTypeOK
  BY DEF Safety, TypeOK
<1>1. ASSUME NEW w \in Workers, wpc'[w] \in {"reactivate", "ack"}
      PROVE  /\ Config(w)' = Config(w) /\ Target(w)' = Target(w)
             /\ Config(w) \in Configs /\ Target(w) \in Versions
  <2>1. wtask[w] \in 1..ntasks /\ wtask'[w] = wtask[w]
    BY <1>1, <1>t DEF DoneFrame, WorkerTypeOK
  <2> QED
    BY <2>1, PayloadStays DEF Config, Target
<1>2. DoneIsStored'
  <2> SUFFICES ASSUME NEW w \in Workers, wpc'[w] \in {"reactivate", "ack"}
               PROVE  has_version(Config(w), Target(w))'
    BY DEF DoneIsStored
  <2>1. CASE wpc[w] \in {"reactivate", "ack"} \/ has_version(Config(w), Target(w))
    <3>1. has_version(Config(w), Target(w))
      BY <2>1 DEF Safety, DoneIsStored
    <3> QED
      BY <3>1, <1>1, VersionsStay DEF has_version
  <2>2. CASE Persist(w)
    <3>1. versions'[Config(w)][Target(w)] = w
      BY <2>2, <1>1, <1>t DEF Persist, commit_version, StoreTypeOK
    <3> QED
      BY <3>1, <1>1 DEF has_version
  <2> QED
    BY <2>1, <2>2 DEF DoneFrame
<1>3. LoadedCurrentStays'
  <2> SUFFICES ASSUME NEW w \in Workers, wpc'[w] = "reactivate", wrow'[w].current # 0
               PROVE  current'[Config(w)'] # 0
    BY DEF LoadedCurrentStays
  <2>1. current[Config(w)] # 0
    BY DEF LoadedFrame, Safety, LoadedCurrentStays
  <2> QED
    BY <2>1, <1>1, CurrentStays
<1> QED
  BY <1>2, <1>3


----------------------------------------------------------------------------
(* The row lock                                                             *)

\* What it is for a worker or a request to be a writer, now and after a step.
LEMMA WhoWrites ==
  ASSUME NEW c \in Configs
  PROVE  /\ \A w \in Workers : w \in Writers(c) <=> wpc[w] \in Building /\ Config(w) = c
         /\ \A a \in Clients : a \in Writers(c) <=> apc[a] \in EditLocked /\ aconfig[a] = c
         /\ \A w \in Workers : w \in Writers(c)' <=> wpc'[w] \in Building /\ Config(w)' = c
         /\ \A a \in Clients : a \in Writers(c)' <=> apc'[a] \in EditLocked /\ aconfig'[a] = c
  BY DEF Writers, Building, EditLocked

\* A step moves the lock right when at most one session starts or ends writing,
\* and takes or gives back its lock as it does.
LockMoves(s) ==
  /\ \A r \in Sessions \ {s}, c \in Configs : r \in Writers(c)' <=> r \in Writers(c)
  /\ \/ /\ UNCHANGED rowLock
        /\ \A c \in Configs : s \in Writers(c)' <=> s \in Writers(c)
     \/ \E k \in Configs :
          /\ LockRow(k, s)
          /\ \A c \in Configs : s \notin Writers(c) /\ (s \in Writers(c)' <=> c = k)
     \/ /\ Rollback(s)
        /\ \A c \in Configs : s \notin Writers(c)'
     \/ \E k \in Configs :
          /\ rowLock' = [rowLock EXCEPT ![k] = NoOne]
          /\ \A c \in Configs : (s \in Writers(c) <=> c = k) /\ s \notin Writers(c)'

\* When one session takes the lock, gives it back or leaves it alone, and nobody
\* else becomes or ceases to be a writer, the lock stays with the writers.
LEMMA LockStep ==
  ASSUME Safety, NEW s \in Sessions, LockMoves(s) PROVE LockOwned'
<1>1. rowLock \in [Configs -> Sessions \cup {NoOne}] /\ NoOne \notin Sessions
  BY DEF Safety, TypeOK, StoreTypeOK, Sessions
<1>2. \A c \in Configs, r \in Sessions : rowLock[c] = r <=> r \in Writers(c)
  BY DEF Safety, LockOwned
<1> SUFFICES ASSUME NEW c \in Configs, NEW r \in Sessions
             PROVE  rowLock'[c] = r <=> r \in Writers(c)'
  BY DEF LockOwned
<1> DEFINE Same(q) == q \in Writers(c)' <=> q \in Writers(c)
<1>3. r # s => Same(r)
  BY DEF LockMoves
<1>4. CASE UNCHANGED rowLock /\ \A d \in Configs : s \in Writers(d)' <=> s \in Writers(d)
  BY <1>2, <1>3, <1>4
<1>5. ASSUME NEW k \in Configs, LockRow(k, s),
             \A d \in Configs : s \notin Writers(d) /\ (s \in Writers(d)' <=> d = k)
      PROVE  rowLock'[c] = r <=> r \in Writers(c)'
  BY <1>1, <1>2, <1>3, <1>5 DEF LockRow
<1>6. CASE Rollback(s) /\ \A d \in Configs : s \notin Writers(d)'
  BY <1>1, <1>2, <1>3, <1>6 DEF Rollback
<1>7. ASSUME NEW k \in Configs, rowLock' = [rowLock EXCEPT ![k] = NoOne],
             \A d \in Configs : (s \in Writers(d) <=> d = k) /\ s \notin Writers(d)'
      PROVE  rowLock'[c] = r <=> r \in Writers(c)'
  BY <1>1, <1>2, <1>3, <1>7
<1> QED
  BY <1>4, <1>5, <1>6, <1>7 DEF LockMoves


\* How a request treats the row lock.
RequestLocks(a) ==
  /\ \A b \in Clients \ {a} : apc'[b] = apc[b] /\ aconfig'[b] = aconfig[b]
  /\ \/ /\ UNCHANGED rowLock
        /\ apc[a] \in EditLocked <=> apc'[a] \in EditLocked
        /\ apc'[a] \in EditLocked => aconfig'[a] = aconfig[a]
     \/ /\ apc[a] = "edit" /\ apc'[a] \in EditLocked /\ aconfig'[a] = aconfig[a]
        /\ LockRow(aconfig[a], a)
     \/ Rollback(a) /\ apc'[a] \notin EditLocked
     \/ /\ apc[a] \in EditLocked /\ apc'[a] \notin EditLocked
        /\ rowLock' = [rowLock EXCEPT ![aconfig[a]] = NoOne]

\* How one step of a request moves the row lock together with its own place
\* among the writers: takes it on the flush, gives it back on commit or rollback.
LEMMA RequestsLock ==
  ASSUME TypeOK, NEW a \in Clients,
         (\E c \in Configs : ApiRequest(a, c)) \/ ApiStep(a) \/ ApiFault(a)
  PROVE  RequestLocks(a)
<1>t. apc \in [Clients -> ClientStates] /\ aconfig \in [Clients -> Configs \cup {NoOne}]
  <2>1. ClientTypeOK
    BY DEF TypeOK
  <2> QED BY <2>1 DEF ClientTypeOK
<1> USE DEF RequestLocks, EditLocked, dbVars
<1>1. ASSUME NEW c \in Configs, CreateConfig(a, c) PROVE RequestLocks(a)
  BY <1>1, <1>t DEF CreateConfig, create_pending
<1>2. ASSUME NEW c \in Configs, RegenerateCheck(a, c) PROVE RequestLocks(a)
  BY <1>2, <1>t DEF RegenerateCheck
<1>3. ASSUME NEW c \in Configs, DeleteRemoveUnit(a, c) PROVE RequestLocks(a)
  BY <1>3, <1>t DEF DeleteRemoveUnit
<1>4. ASSUME NEW c \in Configs, NEW body \in Edits, EditCheck(a, c, body) PROVE RequestLocks(a)
  BY <1>4, <1>t DEF EditCheck
<1>5. CASE RegenerateCommit(a)
  BY <1>5, <1>t DEF RegenerateCommit, prepare_regenerate
<1>6. CASE PublishTask(a)
  BY <1>6, <1>t DEF PublishTask
<1>7. CASE PublishAnswerLost(a)
  BY <1>7, <1>t DEF PublishAnswerLost
<1>8. CASE SetLastTask(a)
  BY <1>8, <1>t DEF SetLastTask
<1>9. CASE SaveLastTask(a)
  BY <1>9, <1>t DEF SaveLastTask, set_last_task_id
<1>10. CASE EditFlush(a)
  BY <1>10, <1>t DEF EditFlush
<1>11. CASE EditGone(a)
  BY <1>11, <1>t DEF EditGone
<1>12. CASE EditWrite(a)
  BY <1>12, <1>t DEF EditWrite
<1>13. CASE EditInstall(a)
  BY <1>13, <1>t DEF EditInstall
<1>14. CASE EditInstallRaises(a)
  BY <1>14, <1>t DEF EditInstallRaises
<1>15. CASE EditCommit(a)
  BY <1>15, <1>t DEF EditCommit, update_version_config_data
<1>16. CASE DeleteCommit(a)
  BY <1>16, <1>t DEF DeleteCommit, soft_delete
<1>17. CASE RequestDies(a)
  BY <1>17, <1>t DEF RequestDies
<1>18. CASE DeleteRemoveLive(a)
  BY <1>18, <1>t DEF DeleteRemoveLive
<1> QED
  BY <1>1, <1>2, <1>3, <1>4, <1>5, <1>6, <1>7, <1>8, <1>9, <1>10, <1>11, <1>12, <1>13, <1>14, <1>15, <1>16, <1>17, <1>18
     DEF ApiRequest, ApiStep, ApiFault

\* After a step of the API the row lock still is where the writers are.
LEMMA ApiLockStep ==
  ASSUME Safety, ApiNext, PayloadFrame PROVE LockOwned'
<1>t. TypeOK /\ ClientTypeOK /\ WorkerTypeOK
  BY DEF Safety, TypeOK
<1>a. PICK a \in Clients : (\E c \in Configs : ApiRequest(a, c)) \/ ApiStep(a) \/ ApiFault(a)
  BY DEF ApiNext
<1>1. RequestLocks(a)
  BY <1>a, <1>t, RequestsLock
<1>2. a \in Sessions /\ a \notin Workers
  BY DEF Sessions
<1>3. ASSUME NEW w \in Workers
      PROVE  wpc'[w] = wpc[w] /\ (wpc[w] \in Building => Config(w)' = Config(w))
  <2>1. wpc' = wpc /\ wtask' = wtask
    BY DEF ApiNext, workerVars
  <2>2. wpc[w] \in Building => wtask[w] \in 1..ntasks
    BY <1>t DEF WorkerTypeOK, Building
  <2> QED
    BY <2>1, <2>2, PayloadStays DEF Config
<1>4. \A r \in Sessions \ {a}, c \in Configs : r \in Writers(c)' <=> r \in Writers(c)
  BY <1>1, <1>3, WhoWrites DEF RequestLocks, Sessions
<1>5. apc[a] \in {"edit"} \cup EditLocked => aconfig[a] \in Configs
  BY <1>t DEF ClientTypeOK, EditLocked
<1>6. LockMoves(a)
  <2>1. CASE /\ UNCHANGED rowLock
             /\ apc[a] \in EditLocked <=> apc'[a] \in EditLocked
             /\ apc'[a] \in EditLocked => aconfig'[a] = aconfig[a]
    BY <2>1, <1>4, WhoWrites DEF LockMoves
  <2>2. CASE /\ apc[a] = "edit" /\ apc'[a] \in EditLocked /\ aconfig'[a] = aconfig[a]
             /\ LockRow(aconfig[a], a)
    BY <2>2, <1>4, <1>5, WhoWrites DEF LockMoves, EditLocked
  <2>3. CASE Rollback(a) /\ apc'[a] \notin EditLocked
    BY <2>3, <1>4, WhoWrites DEF LockMoves
  <2>4. CASE /\ apc[a] \in EditLocked /\ apc'[a] \notin EditLocked
             /\ rowLock' = [rowLock EXCEPT ![aconfig[a]] = NoOne]
    <3>1. \A c \in Configs : (a \in Writers(c) <=> c = aconfig[a]) /\ a \notin Writers(c)'
      BY <2>4, WhoWrites
    <3>2. aconfig[a] \in Configs /\ rowLock' = [rowLock EXCEPT ![aconfig[a]] = NoOne]
      BY <2>4, <1>5
    <3> QED
      BY <3>1, <3>2, <1>4 DEF LockMoves
  <2> QED
    BY <1>1, <2>1, <2>2, <2>3, <2>4 DEF RequestLocks
<1> QED
  BY <1>2, <1>6, LockStep

\* How a worker treats the row lock.
WorkerLocks(w) ==
  /\ \A u \in Workers \ {w} : wpc'[u] = wpc[u] /\ wtask'[u] = wtask[u]
  /\ \/ /\ UNCHANGED rowLock
        /\ wpc[w] \in Building <=> wpc'[w] \in Building
        /\ wpc'[w] \in Building => wtask'[w] = wtask[w]
     \/ /\ wpc[w] = "lock" /\ wpc'[w] \in Building /\ wtask'[w] = wtask[w]
        /\ LockRow(Config(w), w)
     \/ Rollback(w) /\ wpc'[w] \notin Building
     \/ /\ wpc[w] \in Building /\ wpc'[w] \notin Building
        /\ rowLock' = [rowLock EXCEPT ![Config(w)] = NoOne]

\* How one step of a worker moves the row lock together with its own place
\* among the writers: taken by mark_processing, given back on commit or rollback.
LEMMA WorkersLock ==
  ASSUME TypeOK, NEW w \in Workers,
         (\E t \in Tasks : Pull(w, t)) \/ WorkerStep(w) \/ WorkerFault(w)
  PROVE  WorkerLocks(w)
<1>t. wpc \in [Workers -> WorkerStates] /\ wtask \in [Workers -> 0..MaxTasks]
  <2>1. WorkerTypeOK
    BY DEF TypeOK
  <2> QED BY <2>1 DEF WorkerTypeOK
<1> USE DEF WorkerLocks, Building, dbVars
<1>1. ASSUME NEW t \in Tasks, Pull(w, t) PROVE WorkerLocks(w)
  BY <1>1, <1>t DEF Pull
<1>2. CASE CheckVersion(w)
  BY <1>2, <1>t DEF CheckVersion
<1>3. CASE Reactivate(w)
  BY <1>3, <1>t DEF Reactivate, mark_active
<1>4. CASE MarkProcessing(w)
  BY <1>4, <1>t DEF MarkProcessing
<1>5. CASE StopUnit(w)
  BY <1>5, <1>t DEF StopUnit
<1>6. CASE BuildAndWrite(w)
  BY <1>6, <1>t DEF BuildAndWrite
<1>7. CASE InstallUnit(w)
  BY <1>7, <1>t DEF InstallUnit
<1>8. CASE InstallRaises(w)
  BY <1>8, <1>t DEF InstallRaises
<1>9. CASE Persist(w)
  BY <1>9, <1>t DEF Persist, commit_version
<1>10. CASE PersistConflict(w)
  BY <1>10, <1>t DEF PersistConflict
<1>11. CASE HandlerRaises(w)
  BY <1>11, <1>t DEF HandlerRaises, Handling
<1>12. CASE LoadForMarkFailed(w)
  BY <1>12, <1>t DEF LoadForMarkFailed
<1>13. CASE MarkFailed(w)
  BY <1>13, <1>t DEF MarkFailed, mark_failed
<1>14. CASE Ack(w)
  BY <1>14, <1>t DEF Ack
<1>15. CASE Nack(w)
  BY <1>15, <1>t DEF Nack
<1>16. CASE WorkerDies(w)
  BY <1>16, <1>t DEF WorkerDies
<1>17. CASE HeartbeatFails(w)
  BY <1>17, <1>t DEF HeartbeatFails
<1>18. CASE MarkFailedRaises(w)
  BY <1>18, <1>t DEF MarkFailedRaises
<1> QED
  BY <1>1, <1>2, <1>3, <1>4, <1>5, <1>6, <1>7, <1>8, <1>9, <1>10, <1>11, <1>12, <1>13, <1>14, <1>15, <1>16, <1>17,
     <1>18 DEF WorkerStep, WorkerFault

\* After a step of the workers the row lock still is where the writers are.
LEMMA WorkerLockStep ==
  ASSUME Safety, WorkerNext, PayloadFrame PROVE LockOwned'
<1>t. TypeOK /\ WorkerTypeOK /\ BrokerTypeOK
  BY DEF Safety, TypeOK
<1>c. UNCHANGED <<apc, aconfig>>
  BY DEF WorkerNext, clientVars
<1>p. ASSUME NEW u \in Workers, wpc[u] # "idle", wtask'[u] = wtask[u]
      PROVE  Config(u)' = Config(u) /\ Config(u) \in Configs
  <2>1. wtask[u] \in 1..ntasks
    BY <1>p, <1>t DEF WorkerTypeOK
  <2> QED
    BY <1>p, <2>1, PayloadStays DEF Config
<1>0. ASSUME NEW t \in Tasks, LeaseExpires(t) PROVE LockOwned'
  <2>1. UNCHANGED <<rowLock, wpc, wtask>>
    BY <1>0 DEF LeaseExpires, workerVars, dbVars
  <2>2. \A c \in Configs, r \in Sessions : r \in Writers(c)' <=> r \in Writers(c)
    BY <2>1, <1>c, <1>p, WhoWrites DEF Sessions, Building
  <2> QED
    BY <2>1, <2>2 DEF Safety, LockOwned
<1>w. ASSUME NEW w \in Workers,
             (\E t \in Tasks : Pull(w, t)) \/ WorkerStep(w) \/ WorkerFault(w)
      PROVE  LockOwned'
  <2>1. WorkerLocks(w)
    BY <1>w, <1>t, WorkersLock
  <2>2. w \in Sessions /\ w \notin Clients
    BY DEF Sessions
  <2>3. ASSUME NEW u \in Workers \ {w}
        PROVE  wpc'[u] = wpc[u] /\ (wpc[u] \in Building => Config(u)' = Config(u))
    BY <2>1, <1>p DEF WorkerLocks, Building
  <2>4. \A r \in Sessions \ {w}, c \in Configs : r \in Writers(c)' <=> r \in Writers(c)
    BY <1>c, <2>3, WhoWrites DEF Sessions
  <2>5. LockMoves(w)
    <3>1. CASE /\ UNCHANGED rowLock
               /\ wpc[w] \in Building <=> wpc'[w] \in Building
               /\ wpc'[w] \in Building => wtask'[w] = wtask[w]
      <4>1. wpc[w] \in Building => Config(w)' = Config(w)
        BY <3>1, <1>p DEF Building
      <4> QED
        BY <3>1, <4>1, <2>4, WhoWrites DEF LockMoves
    <3>2. CASE /\ wpc[w] = "lock" /\ wpc'[w] \in Building /\ wtask'[w] = wtask[w]
               /\ LockRow(Config(w), w)
      <4>1. wpc[w] \notin Building /\ Config(w)' = Config(w) /\ Config(w) \in Configs
        BY <3>2, <1>p DEF Building
      <4> QED
        BY <3>2, <4>1, <2>4, WhoWrites DEF LockMoves
    <3>3. CASE Rollback(w) /\ wpc'[w] \notin Building
      BY <3>3, <2>4, WhoWrites DEF LockMoves
    <3>4. CASE /\ wpc[w] \in Building /\ wpc'[w] \notin Building
               /\ rowLock' = [rowLock EXCEPT ![Config(w)] = NoOne]
      <4>1. wtask[w] \in 1..ntasks
        BY <3>4, <1>t DEF WorkerTypeOK, Building
      <4>2. Config(w) \in Configs
        BY <4>1, PayloadStays DEF Config
      <4>3. \A c \in Configs : (w \in Writers(c) <=> c = Config(w)) /\ w \notin Writers(c)'
        BY <3>4, WhoWrites
      <4>4. rowLock' = [rowLock EXCEPT ![Config(w)] = NoOne]
        BY <3>4
      <4> QED
        BY <4>2, <4>3, <4>4, <2>4 DEF LockMoves
    <3> QED
      BY <2>1, <3>1, <3>2, <3>3, <3>4 DEF WorkerLocks
  <2> QED
    BY <2>2, <2>5, LockStep
<1> QED
  BY <1>0, <1>w DEF WorkerNext


----------------------------------------------------------------------------
(* The theorems                                                             *)

\* A freshly migrated database with an empty queue satisfies the invariant.
LEMMA InitSafety == Init => Safety
<1> SUFFICES ASSUME Init PROVE Safety
  OBVIOUS
<1>1. TypeOK
  BY InitTypeOK
<1>2. VersionsContiguous /\ CurrentExists
  BY DEF Init, StoreInit, VersionsContiguous, CurrentExists, has_version
<1>3. ActiveHasVersion
  BY DEF Init, StoreInit, ActiveHasVersion
<1>4. CompletedHasVersion /\ TargetsFollow
  BY DEF Init, BrokerInit, CompletedHasVersion, TargetsFollow
<1>5. RequestsFollow /\ EditsExist
  BY DEF Init, ClientInit, RequestsFollow, EditsExist, EditLocked
<1>6. DoneIsStored /\ LoadedCurrentStays
  BY DEF Init, WorkerInit, DoneIsStored, LoadedCurrentStays
<1>7. LockOwned
  <2>1. \A c \in Configs, s \in Sessions : rowLock[c] # s
    BY DEF Init, StoreInit, Sessions
  <2>2. \A c \in Configs, s \in Sessions : s \notin Writers(c)
    BY DEF Init, ClientInit, WorkerInit, Writers, Building, EditLocked
  <2> QED
    BY <2>1, <2>2 DEF LockOwned
<1> QED
  BY <1>1, <1>2, <1>3, <1>4, <1>5, <1>6, <1>7 DEF Safety

\* The invariant is inductive: every handler, step and fault of the API, the
\* workers and the broker preserves it.
LEMMA NextSafety == Safety /\ Next => Safety' /\ StoreFrame
<1> SUFFICES ASSUME Safety, Next PROVE Safety' /\ StoreFrame
  OBVIOUS
<1>1. TypeOK /\ TypeOK'
  BY ApiTypeOK, WorkerTypeStep DEF Safety, Next
<1>2. Frames
  BY <1>1, ApiFrames, WorkerFrames DEF Next
<1>3. /\ StoreFrame /\ StatusFrame /\ PayloadFrame /\ CompletedFrame /\ PublishFrame
      /\ EditFrame /\ DoneFrame /\ LoadedFrame
  BY <1>2 DEF Frames
<1>4. VersionsContiguous' /\ CurrentExists'
  BY <1>3, ContiguousStep
<1>5. ActiveHasVersion' /\ CompletedHasVersion'
  BY <1>3, ActiveStep, CompletedStep
<1>6. TargetsFollow' /\ RequestsFollow' /\ EditsExist'
  BY <1>1, <1>3, TargetsStep, RequestsStep
<1>7. DoneIsStored' /\ LoadedCurrentStays'
  BY <1>3, WorkersStep
<1>8. LockOwned'
  BY <1>3, ApiLockStep, WorkerLockStep DEF Next
<1> QED
  BY <1>1, <1>3, <1>4, <1>5, <1>6, <1>7, <1>8 DEF Safety

\* Nothing is lost while nothing happens.
LEMMA StutterSafety == Safety /\ UNCHANGED vars => Safety'
  BY DEF Safety, vars, dbVars, hostVars, brokerVars, clientVars, workerVars,
     TypeOK, StoreTypeOK, HostTypeOK, BrokerTypeOK, ClientTypeOK, WorkerTypeOK,
     VersionsContiguous, CurrentExists, ActiveHasVersion, CompletedHasVersion,
     TargetsFollow, RequestsFollow, EditsExist, DoneIsStored, LoadedCurrentStays,
     LockOwned, Writers, has_version, Config, Target, EditLocked, Building

\* The inductive invariant holds in every state the panel reaches.
THEOREM SafetyHolds == Spec => []Safety
<1>1. Safety /\ [Next]_vars => Safety'
  BY NextSafety, StutterSafety
<1> QED
  BY <1>1, InitSafety, PTL DEF Spec

\* Every config has the versions 1..n: no interleaving of builds, rollbacks,
\* redelivered tasks and edits leaves a hole.
THEOREM VersionsSound == Spec => []VersionsContiguous
<1>1. Safety => VersionsContiguous
  BY DEF Safety
<1> QED
  BY <1>1, SafetyHolds, PTL

\* A task the broker shows as COMPLETED has its version in the database.
THEOREM CompletedIsDone == Spec => []CompletedHasVersion
<1>1. Safety => CompletedHasVersion
  BY DEF Safety
<1> QED
  BY <1>1, SafetyHolds, PTL

\* No mix of rollbacks, redeliveries and stale flushes makes current_version
\* name a version that is not stored.
THEOREM CurrentIsStored == Spec => []CurrentExists
<1>1. Safety => CurrentExists
  BY DEF Safety
<1> QED
  BY <1>1, SafetyHolds, PTL

\* Nor does mark_active leave a config active without a current version.
THEOREM ActiveIsBuilt == Spec => []ActiveHasVersion
<1>1. Safety => ActiveHasVersion
  BY DEF Safety
<1> QED
  BY <1>1, SafetyHolds, PTL

\* Two workers, or a worker and the config_data editor, never write the live
\* files of one config at the same time.
THEOREM WritersExclude == Spec => []OneWriter
<1>1. Safety => OneWriter
  <2> SUFFICES ASSUME Safety, NEW c \in Configs, NEW s1 \in Writers(c), NEW s2 \in Writers(c)
               PROVE  s1 = s2
    BY DEF OneWriter
  <2>1. s1 \in Sessions /\ s2 \in Sessions
    BY DEF Writers, Sessions
  <2> QED
    BY <2>1 DEF Safety, LockOwned
<1> QED
  BY <1>1, SafetyHolds, PTL

\* A row lock is never left behind by a session that has stopped writing.
THEOREM LocksHeld == Spec => []LockIsHeld
<1>1. Safety => LockIsHeld
  <2> SUFFICES ASSUME Safety, NEW c \in Configs, rowLock[c] # NoOne
               PROVE  rowLock[c] \in Writers(c)
    BY DEF LockIsHeld
  <2>1. rowLock[c] \in Sessions
    BY DEF Safety, TypeOK, StoreTypeOK
  <2> QED
    BY <2>1 DEF Safety, LockOwned
<1> QED
  BY <1>1, SafetyHolds, PTL

\* The snapshot a share link names is there for good, and only an edit of
\* config_data ever rewrites it.
THEOREM SnapshotsStay == Spec => SnapshotsSurvive
<1> DEFINE Kept == \A c \in Configs, v \in Versions :
       has_version(c, v) => /\ has_version(c, v)'
                            /\ versions'[c][v] # versions[c][v] => versions'[c][v] \in Edits
<1>1. Safety /\ [Next]_vars => [Kept]_vars
  <2> SUFFICES ASSUME Safety, Next, NEW c \in Configs, NEW v \in Versions, has_version(c, v)
               PROVE  /\ has_version(c, v)'
                      /\ versions'[c][v] # versions[c][v] => versions'[c][v] \in Edits
    OBVIOUS
  <2>1. StoreFrame
    BY NextSafety
  <2>2. has_version(c, v)'
    BY <2>1, VersionsStay
  <2>t. StoreTypeOK /\ ClientTypeOK
    BY DEF Safety, TypeOK
  <2>3. ASSUME NEW w \in Workers, Persist(w) \/ Reactivate(w)
        PROVE  versions'[c][v] = versions[c][v]
    <3>1. CASE Reactivate(w)
      BY <3>1 DEF Reactivate, mark_active
    <3>2. CASE Persist(w)
      <4>1. versions' = [versions EXCEPT ![Config(w)][Target(w)] = w]
        BY <3>2 DEF Persist, commit_version
      <4>2. ~(Config(w) = c /\ Target(w) = v)
        BY <3>2 DEF Persist
      <4> QED
        BY <4>1, <4>2, <2>t DEF StoreTypeOK
    <3> QED
      BY <2>3, <3>1, <3>2
  <2>4. ASSUME NEW a \in Clients, EditCommit(a)
        PROVE  versions'[c][v] = versions[c][v] \/ versions'[c][v] \in Edits
    <3>1. abody[a] \in Edits
      BY <2>4, <2>t DEF EditCommit, ClientTypeOK, EditLocked
    <3> QED
      BY <2>4, <2>t, <3>1 DEF EditCommit, update_version_config_data, StoreTypeOK
  <2> QED
    BY <2>1, <2>2, <2>3, <2>4 DEF StoreFrame
<1> QED
  BY <1>1, SafetyHolds, PTL DEF Spec, SnapshotsSurvive

\* The panel implements the version log: whoever reads versions and
\* current_version sees versions appended one by one and a pointer into them.
THEOREM Implements == Spec => ImplementsVersionLog
<1> DEFINE L == [c \in Configs |-> {v \in Versions : has_version(c, v)}]
<1>1. Init => Log!LogInit
  BY DEF Init, StoreInit, Log!LogInit, has_version
<1>2. Safety /\ [Next]_vars => [Log!LogNext]_(Log!logVars)
  <2> SUFFICES ASSUME Safety, Next PROVE Log!LogNext \/ UNCHANGED Log!logVars
    <3>1. UNCHANGED vars => UNCHANGED Log!logVars
      BY DEF vars, dbVars, Log!logVars, has_version
    <3> QED
      BY <3>1
  <2>t. /\ versions \in [Configs -> [Versions -> Authors \cup {NoOne}]] /\ NoOne \notin Authors
        /\ current \in [Configs -> 0..MaxVersion]
    BY DEF Safety, TypeOK, StoreTypeOK, Authors
  <2>s. StoreFrame
    BY NextSafety
  <2>1. CASE UNCHANGED <<versions, current>>
    BY <2>1 DEF Log!logVars, has_version
  <2>2. ASSUME NEW c \in Configs, NEW v \in Versions, NEW s \in Authors,
               ~has_version(c, v), v > 1 => has_version(c, v - 1),
               versions' = [versions EXCEPT ![c][v] = s],
               current' = [current EXCEPT ![c] = v]
        PROVE  Log!LogNext
    <3>1. L[c] = 1..(v - 1)
      <4>1. ASSUME NEW u \in L[c] PROVE u \in 1..(v - 1)
        BY <2>2, <4>1 DEF Safety, VersionsContiguous, Versions
      <4>2. ASSUME NEW u \in 1..(v - 1) PROVE u \in L[c]
        <5>1. v > 1 /\ v - 1 \in Versions /\ u \in Versions /\ u <= v - 1
          BY <4>2 DEF Versions
        <5> QED
          BY <5>1, <2>2 DEF Safety, VersionsContiguous
      <4> QED
        BY <4>1, <4>2
    <3>2. v \notin L[c]
      BY <2>2
    <3>3. L' = [L EXCEPT ![c] = @ \cup {v}]
      <4>1. \A d \in Configs, u \in Versions :
              has_version(d, u)' <=> has_version(d, u) \/ (d = c /\ u = v)
        BY <2>2, <2>t DEF has_version
      <4>2. L'[c] = L[c] \cup {v} /\ \A d \in Configs \ {c} : L'[d] = L[d]
        BY <4>1
      <4> QED
        BY <4>2
    <3> QED
      BY <2>2, <3>1, <3>2, <3>3 DEF Log!LogNext, Log!Append, Versions
  <2>3. ASSUME NEW c \in Configs, NEW v \in Versions, has_version(c, v), UNCHANGED versions,
               current' = [current EXCEPT ![c] = v] \/ UNCHANGED current
        PROVE  Log!LogNext \/ UNCHANGED Log!logVars
    <3>1. L' = L /\ v \in L[c]
      BY <2>3 DEF has_version
    <3> QED
      BY <2>3, <3>1 DEF Log!LogNext, Log!Repoint, Log!logVars, Versions
  <2>4. ASSUME NEW c \in Configs, NEW v \in Versions, NEW s \in Authors, has_version(c, v),
               versions' = [versions EXCEPT ![c][v] = s], UNCHANGED current
        PROVE  UNCHANGED Log!logVars
    <3>1. L' = L
      BY <2>4, <2>t DEF has_version
    <3> QED
      BY <2>4, <3>1 DEF Log!logVars
  <2> QED
    BY <2>s, <2>1, <2>2, <2>3, <2>4, StoreSteps
<1> QED
  BY <1>1, <1>2, SafetyHolds, PTL DEF Spec, ImplementsVersionLog, Log!LogSpec

----------------------------------------------------------------------------
(* The undisturbed panel: the steps once more, for leases, the host's files *)
(* and what is asked for                                                    *)

\* How a worker deals with its task and its lease when nothing breaks.
WorkerLeases(w) ==
  /\ \A u \in Workers \ {w} : wpc'[u] = wpc[u] /\ wtask'[u] = wtask[u] /\ wbeats'[u] = wbeats[u]
  /\ \/ /\ wpc[w] # "idle" /\ wpc'[w] # "idle"
        /\ UNCHANGED <<wtask, wbeats, taskState, taskHolder>>
     \/ \E t \in Tasks : Pull(w, t)
     \/ Ack(w) \/ Nack(w)

\* Only pull, ack and nack touch the lease.
LEMMA WorkersLease ==
  ASSUME TypeOK, NEW w \in Workers, (\E t \in Tasks : Pull(w, t)) \/ WorkerStep(w)
  PROVE  WorkerLeases(w)
<1>t. wpc \in [Workers -> WorkerStates] /\ wtask \in [Workers -> 0..MaxTasks]
      /\ wbeats \in [Workers -> BOOLEAN]
  BY DEF TypeOK, WorkerTypeOK
<1>b. UNCHANGED brokerVars => UNCHANGED <<taskState, taskHolder>>
  BY DEF brokerVars
<1> DEFINE Others == \A u \in Workers \ {w} : wpc'[u] = wpc[u] /\ wtask'[u] = wtask[u] /\ wbeats'[u] = wbeats[u]
<1>1. ASSUME NEW s \in WorkerStates \ {"idle"}, NEW row, wpc[w] # "idle", UNCHANGED brokerVars,
             Continue(w, s) \/ ContinueWith(w, s, row)
      PROVE  WorkerLeases(w)
  BY <1>1, <1>t, <1>b DEF WorkerLeases
<1>2. (\E t \in Tasks : Pull(w, t)) \/ Ack(w) \/ Nack(w) => WorkerLeases(w)
  <2>1. (\E t \in Tasks : Pull(w, t)) => Others
    BY <1>t DEF Pull
  <2>2. Ack(w) \/ Nack(w) => Others
    BY <1>t DEF Ack, Nack
  <2> QED BY <2>1, <2>2 DEF WorkerLeases
<1>3. /\ {"reactivate", "lock", "ack", "locked", "stopped", "written", "installed", "failing",
          "markFailed", "nack"} \subseteq WorkerStates \ {"idle"}
      /\ "idle" \notin Building
  BY DEF WorkerStates, Building
<1>4. CheckVersion(w) => WorkerLeases(w)
  BY <1>1, <1>3 DEF CheckVersion
<1>5. Reactivate(w) \/ MarkProcessing(w) \/ StopUnit(w) \/ BuildAndWrite(w) \/ InstallUnit(w)
      => WorkerLeases(w)
  BY <1>1, <1>3 DEF Reactivate, MarkProcessing, StopUnit, BuildAndWrite, InstallUnit
<1>6. InstallRaises(w) \/ Persist(w) \/ PersistConflict(w) \/ HandlerRaises(w)
      \/ LoadForMarkFailed(w) \/ MarkFailed(w) => WorkerLeases(w)
  BY <1>1, <1>3 DEF InstallRaises, Persist, PersistConflict, HandlerRaises, Handling, LoadForMarkFailed,
     MarkFailed
<1> QED
  BY <1>2, <1>4, <1>5, <1>6 DEF WorkerStep

\* The faults, and only they, use up one of the faults that are left.
LEMMA FaultsAreCounted ==
  /\ \A a \in Clients : /\ (\E c \in Configs : ApiRequest(a, c)) \/ ApiStep(a) => UNCHANGED faultsLeft
                        /\ ApiFault(a) => Fault
  /\ \A w \in Workers : /\ (\E t \in Tasks : Pull(w, t)) \/ WorkerStep(w) => UNCHANGED faultsLeft
                        /\ WorkerFault(w) => Fault
  /\ \A t \in Tasks : LeaseExpires(t) => UNCHANGED faultsLeft
<1>1. \A a \in Clients, c \in Configs : ApiRequest(a, c) => UNCHANGED faultsLeft
  BY DEF ApiRequest, CreateConfig, RegenerateCheck, DeleteRemoveUnit, EditCheck
<1>2. \A a \in Clients : ApiStep(a) => UNCHANGED faultsLeft
  BY DEF ApiStep, RegenerateCommit, PublishTask, SetLastTask, SaveLastTask, EditFlush, EditGone,
     EditWrite, EditInstall, EditInstallRaises, EditCommit, DeleteRemoveLive, DeleteCommit
<1>3. \A w \in Workers : WorkerStep(w) => UNCHANGED faultsLeft
  BY DEF WorkerStep, CheckVersion, Reactivate, MarkProcessing, StopUnit, BuildAndWrite, InstallUnit,
     InstallRaises, Persist, PersistConflict, HandlerRaises, LoadForMarkFailed, MarkFailed, Ack, Nack
<1>4. \A w \in Workers, t \in Tasks : Pull(w, t) => UNCHANGED faultsLeft
  BY DEF Pull
<1>5. \A t \in Tasks : LeaseExpires(t) => UNCHANGED faultsLeft
  BY DEF LeaseExpires
<1>6. /\ \A a \in Clients : ApiFault(a) => Fault
      /\ \A w \in Workers : WorkerFault(w) => Fault
  BY DEF ApiFault, WorkerFault, PublishAnswerLost, RequestDies, WorkerDies, HeartbeatFails,
     MarkFailedRaises
<1> QED
  BY <1>1, <1>2, <1>3, <1>4, <1>5, <1>6

\* A step that breaks nothing is a step of a request or a worker that is not
\* one of the faults.
LEMMA NoFault ==
  ASSUME TypeOK, UNCHANGED faultsLeft
  PROVE  /\ \A a \in Clients : ~ApiFault(a)
         /\ \A w \in Workers : ~WorkerFault(w)
         /\ ~DiesBeforePublish /\ ~FailureIsLost
<1>1. ~Fault
  BY DEF Fault, TypeOK
<1> QED
  BY <1>1 DEF ApiFault, WorkerFault, PublishAnswerLost, RequestDies, WorkerDies, HeartbeatFails,
     MarkFailedRaises, DiesBeforePublish, FailureIsLost

\* While every task in hand is renewed, no lease runs out.
LEMMA NoLeaseExpires ==
  ASSUME TypeOK, LeasesAreKept, NEW t \in Tasks PROVE ~LeaseExpires(t)
<1> SUFFICES ASSUME LeaseExpires(t) PROVE FALSE
  OBVIOUS
<1>1. taskState[t] = "PROCESSING" /\ ~Renewed(t)
  BY DEF LeaseExpires, LeaseRunsOut
<1>2. PICK w \in Workers : wpc[w] # "idle" /\ wtask[w] = t
  BY <1>1 DEF LeasesAreKept
<1>3. taskHolder[t] = w /\ wbeats[w]
  BY <1>2 DEF LeasesAreKept, Holds
<1> QED
  BY <1>1, <1>2, <1>3 DEF Renewed

\* Two workers never have the same task in hand.
LEMMA OneInHand ==
  ASSUME LeasesAreKept, NEW u \in Workers, NEW w \in Workers,
         wpc[u] # "idle", wpc[w] # "idle", wtask[u] = wtask[w]
  PROVE  u = w
  BY DEF LeasesAreKept, Holds

\* Pull takes the lease, ack and nack give it back, and nobody else's lease
\* moves.
LEMMA LeasesStep ==
  ASSUME TypeOK, LeasesAreKept, Next, UNCHANGED faultsLeft PROVE LeasesAreKept'
<1>t. /\ wtask \in [Workers -> 0..MaxTasks] /\ wpc \in [Workers -> WorkerStates]
      /\ wbeats \in [Workers -> BOOLEAN]
      /\ taskState \in [Tasks -> TaskStates] /\ taskHolder \in [Tasks -> Workers \cup {NoOne}]
      /\ ntasks \in 0..MaxTasks
      /\ \A w \in Workers : wpc[w] # "idle" => wtask[w] \in 1..ntasks /\ wtask[w] \in Tasks
      /\ \A t \in Tasks : taskState[t] # "NONE" => t \in 1..ntasks
  BY DEF TypeOK, WorkerTypeOK, BrokerTypeOK, Tasks
<1>1. CASE ApiNext
  <2>1. RequestPends /\ UNCHANGED workerVars
    BY <1>1, NoFault, RequestsPend DEF ApiNext
  <2>2. \A t \in Tasks : taskState'[t] = "PROCESSING" => taskState[t] = "PROCESSING"
    <3>a. PICK a \in Clients : (\E c \in Configs : ApiRequest(a, c)) \/ ApiStep(a)
      BY <1>1, NoFault DEF ApiNext
    <3>1. UNCHANGED brokerVars \/ PublishTask(a)
      BY <3>a DEF ApiRequest, ApiStep, CreateConfig, RegenerateCheck, DeleteRemoveUnit, EditCheck,
         RegenerateCommit, SetLastTask, SaveLastTask, EditFlush, EditGone, EditWrite, EditInstall,
         EditInstallRaises, EditCommit, DeleteRemoveLive, DeleteCommit
    <3>2. CASE PublishTask(a)
      BY <3>2, <1>t DEF PublishTask, publish_task
    <3> QED BY <3>1, <3>2 DEF brokerVars
  <2>3. \A w \in Workers : wpc[w] # "idle" => Holds(w, wtask[w])' /\ wbeats'[w]
    BY <2>1, <1>t DEF RequestPends, LeasesAreKept, Holds, workerVars
  <2>4. ASSUME NEW t \in Tasks, taskState'[t] = "PROCESSING"
        PROVE  \E w \in Workers : wpc'[w] # "idle" /\ wtask'[w] = t
    BY <2>1, <2>2, <2>4 DEF LeasesAreKept, workerVars
  <2> QED
    BY <2>1, <2>3, <2>4 DEF LeasesAreKept, workerVars
<1>2. ASSUME NEW w \in Workers, (\E t \in Tasks : Pull(w, t)) \/ WorkerStep(w) PROVE LeasesAreKept'
  <2>0. WorkerLeases(w)
    BY <1>2, WorkersLease
  <2>o. \A u \in Workers \ {w} : wpc'[u] = wpc[u] /\ wtask'[u] = wtask[u] /\ wbeats'[u] = wbeats[u]
    BY <2>0 DEF WorkerLeases
  <2>1. CASE wpc[w] # "idle" /\ wpc'[w] # "idle" /\ UNCHANGED <<wtask, wbeats, taskState, taskHolder>>
    BY <2>1, <2>o DEF LeasesAreKept, Holds
  <2>2. ASSUME NEW t \in Tasks, Pull(w, t) PROVE LeasesAreKept'
    <3>1. /\ taskState[t] = "PENDING" /\ taskState'[t] = "PROCESSING" /\ taskHolder'[t] = w
          /\ \A s \in Tasks \ {t} : taskState'[s] = taskState[s] /\ taskHolder'[s] = taskHolder[s]
          /\ wpc[w] = "idle" /\ wpc'[w] = "check" /\ wtask'[w] = t /\ wbeats'[w]
      BY <2>2, <1>t DEF Pull, pull
    <3>2. \A u \in Workers \ {w} : wpc[u] # "idle" => wtask[u] \in Tasks \ {t}
      BY <3>1, <1>t DEF LeasesAreKept, Holds
    <3>3. ASSUME NEW u \in Workers, wpc'[u] # "idle" PROVE Holds(u, wtask[u])' /\ wbeats'[u]
      BY <3>1, <3>2, <3>3, <2>o DEF LeasesAreKept, Holds
    <3>4. ASSUME NEW s \in Tasks, taskState'[s] = "PROCESSING"
          PROVE  \E u \in Workers : wpc'[u] # "idle" /\ wtask'[u] = s
      <4>1. CASE s = t
        BY <4>1, <3>1
      <4>2. CASE s # t
        <5>1. PICK u \in Workers : wpc[u] # "idle" /\ wtask[u] = s
          BY <4>2, <3>1, <3>4 DEF LeasesAreKept
        <5> QED BY <5>1, <3>1, <2>o
      <4> QED BY <4>1, <4>2
    <3> QED BY <3>3, <3>4 DEF LeasesAreKept
  <2>3. CASE Ack(w) \/ Nack(w)
    <3> DEFINE t == wtask[w]
    <3>1. wpc[w] # "idle" /\ Holds(w, t) /\ (ack(w, t) \/ nack(w, t)) /\ wpc'[w] = "idle"
      BY <2>3, <1>t DEF Ack, Nack, LeasesAreKept
    <3>2. /\ t \in Tasks /\ taskState'[t] # "PROCESSING"
          /\ \A s \in Tasks \ {t} : taskState'[s] = taskState[s] /\ taskHolder'[s] = taskHolder[s]
      BY <3>1, <1>t DEF ack, nack
    <3>3. \A u \in Workers \ {w} : wpc[u] # "idle" => wtask[u] \in Tasks \ {t}
      BY <3>1, <1>t, OneInHand
    <3>4. ASSUME NEW u \in Workers, wpc'[u] # "idle" PROVE Holds(u, wtask[u])' /\ wbeats'[u]
      BY <3>1, <3>2, <3>3, <3>4, <2>o DEF LeasesAreKept, Holds
    <3>5. ASSUME NEW s \in Tasks, taskState'[s] = "PROCESSING"
          PROVE  \E u \in Workers : wpc'[u] # "idle" /\ wtask'[u] = s
      <4>1. s # t /\ taskState[s] = "PROCESSING"
        BY <3>2, <3>5
      <4>2. PICK u \in Workers : wpc[u] # "idle" /\ wtask[u] = s
        BY <4>1 DEF LeasesAreKept
      <4> QED BY <4>1, <4>2, <2>o
    <3> QED BY <3>4, <3>5 DEF LeasesAreKept
  <2> QED
    BY <2>0, <2>1, <2>2, <2>3 DEF WorkerLeases
<1> QED
  BY <1>1, <1>2, NoFault, NoLeaseExpires DEF Next, WorkerNext
\* A task becomes pending when it is published or handed back.
QueueFrame ==
  \A t \in 1..ntasks : taskState'[t] = "PENDING" =>
    taskState[t] = "PENDING" \/ \E w \in Workers : wpc[w] = "nack" /\ wtask[w] = t

\* A worker is at work on the task it had, or on one that was pending.
BusyFrame ==
  \A w \in Workers : wpc'[w] \notin {"idle", "ack"} =>
    \/ wpc[w] \notin {"idle", "ack"} /\ wtask'[w] = wtask[w]
    \/ wtask'[w] \in Tasks /\ taskState[wtask'[w]] = "PENDING"

\* Who comes to publish has just made the config pending; no config is forgotten.
AskFrame ==
  /\ \A a \in Clients : apc'[a] = "publish" =>
       \/ apc[a] = "publish" /\ aconfig'[a] = aconfig[a] /\ aversion'[a] = aversion[a]
       \/ status'[aconfig'[a]] = "pending"
  /\ \A c \in Configs : status'[c] = "none" => status[c] = "none"

\* The steps of a build that write the host's files.
HostOp(w) == StopUnit(w) \/ BuildAndWrite(w) \/ InstallUnit(w) \/ InstallRaises(w)

\* The host of c is touched by the build of c, or by a request that deletes c.
HostFrame ==
  \A c \in Configs :
    \/ live'[c] = live[c] /\ proc'[c] = proc[c]
    \/ Deleting(c)'
    \/ \E w \in Workers : Config(w) = c /\ HostOp(w)

\* Where the live file of the build in hand has come from.
WriteFrame ==
  \A w \in Workers : wpc'[w] \in {"written", "installed"} =>
    \/ wpc'[w] = wpc[w] /\ wtask'[w] = wtask[w]
    \/ BuildAndWrite(w) \/ InstallUnit(w)

\* Who starts to delete ends with the config deleted, and only a new config is active again.
DeleteFrame ==
  \A c \in Configs : isActive'[c] /\ ~Deleting(c)' =>
    (isActive[c] /\ ~Deleting(c)) \/ status[c] = "none"

ServeFrames ==
  QueueFrame /\ BusyFrame /\ AskFrame /\ HostFrame /\ WriteFrame /\ DeleteFrame

\* What a request does of all this when nobody edits config_data.
LEMMA ApiServes ==
  ASSUME TypeOK, NobodyEdits, "edit" \notin Requests, ApiNext, UNCHANGED faultsLeft
  PROVE  ServeFrames /\ NobodyEdits'
<1>a. PICK a \in Clients : (\E c \in Configs : ApiRequest(a, c)) \/ ApiStep(a)
  BY NoFault DEF ApiNext
<1>t. /\ apc \in [Clients -> ClientStates] /\ aconfig \in [Clients -> Configs \cup {NoOne}]
      /\ aversion \in [Clients -> 0..MaxVersion]
      /\ status \in [Configs -> Statuses] /\ isActive \in [Configs -> BOOLEAN]
      /\ live \in [Configs -> Content] /\ proc \in [Configs -> Content]
      /\ \A b \in Clients : apc[b] # "idle" => aconfig[b] \in Configs
  BY DEF TypeOK, ClientTypeOK, StoreTypeOK, HostTypeOK
<1>w. UNCHANGED <<wpc, wtask>>
  BY DEF ApiNext, workerVars
<1>1. QueueFrame
  BY NoFault, RequestsPend DEF QueueFrame, RequestPends
<1>2. BusyFrame /\ WriteFrame
  BY <1>w DEF BusyFrame, WriteFrame
<1>n. apc[a] \notin {"edit", "editLocked", "editWritten", "editInstalled"}
  BY DEF NobodyEdits, EditLocked
<1> DEFINE Del(b) == apc[b] \in {"deleteLive", "delete"}
           Keeps == \A b \in Clients : Del(b) => Del(b)' /\ aconfig'[b] = aconfig[b]
           Rest == AskFrame /\ HostFrame /\ DeleteFrame /\ NobodyEdits'
\* A request that does not delete leaves the host alone and those that do.
<1>k. ASSUME Keeps, UNCHANGED <<live, proc>>,
             \A c \in Configs : isActive'[c] => isActive[c] \/ status[c] = "none"
      PROVE  HostFrame /\ DeleteFrame
  BY <1>k DEF HostFrame, DeleteFrame, Deleting
<1>d. UNCHANGED dbVars => UNCHANGED <<status, isActive>>
  BY DEF dbVars
<1>h. UNCHANGED hostVars => UNCHANGED <<live, proc>>
  BY DEF hostVars
<1> USE DEF EditLocked
<1>3. ASSUME NEW c \in Configs, CreateConfig(a, c) PROVE Rest
  <2>1. AskFrame
    BY <1>3, <1>t DEF CreateConfig, create_pending, AskFrame
  <2>2. Keeps /\ NobodyEdits'
    BY <1>3, <1>t DEF CreateConfig, NobodyEdits
  <2>3. \A d \in Configs : isActive'[d] => isActive[d] \/ status[d] = "none"
    BY <1>3, <1>t DEF CreateConfig, create_pending
  <2> QED BY <1>3, <2>1, <2>2, <2>3, <1>k, <1>h DEF CreateConfig
<1>4. ASSUME NEW c \in Configs, RegenerateCheck(a, c) PROVE Rest
  <2>1. AskFrame
    BY <1>4, <1>t, <1>d DEF RegenerateCheck, AskFrame
  <2>2. Keeps /\ NobodyEdits'
    BY <1>4, <1>t DEF RegenerateCheck, NobodyEdits
  <2> QED BY <1>4, <2>1, <2>2, <1>k, <1>h, <1>d DEF RegenerateCheck
<1>5. ASSUME NEW c \in Configs, NEW body \in Edits, EditCheck(a, c, body) PROVE Rest
  BY <1>5 DEF EditCheck
<1>6. ASSUME NEW c \in Configs, DeleteRemoveUnit(a, c) PROVE Rest
  <2>1. AskFrame
    BY <1>6, <1>t, <1>d DEF DeleteRemoveUnit, AskFrame
  <2>2. Keeps /\ NobodyEdits'
    BY <1>6, <1>t DEF DeleteRemoveUnit, NobodyEdits
  <2>3. Deleting(c)'
    BY <1>6, <1>t DEF DeleteRemoveUnit, Deleting
  <2>4. \A d \in Configs \ {c} : live'[d] = live[d] /\ proc'[d] = proc[d]
    BY <1>6, <1>t, <1>h DEF DeleteRemoveUnit, remove_config_unit
  <2>5. HostFrame
    BY <2>3, <2>4 DEF HostFrame
  <2>6. DeleteFrame
    BY <1>6, <2>2, <1>d DEF DeleteRemoveUnit, DeleteFrame, Deleting
  <2> QED BY <2>1, <2>2, <2>5, <2>6
<1>7. ASSUME RegenerateCommit(a) PROVE Rest
  <2>1. Keeps /\ NobodyEdits'
    BY <1>7, <1>t DEF RegenerateCommit, NobodyEdits
  <2>2. AskFrame /\ UNCHANGED isActive
    <3>1. CASE UNCHANGED dbVars /\ Respond(a)
      BY <3>1, <1>t, <1>d DEF AskFrame
    <3>2. CASE /\ prepare_regenerate(aconfig[a], asawError[a])
               /\ apc' = [apc EXCEPT ![a] = "publish"] /\ UNCHANGED aconfig
               /\ \A b \in Clients \ {a} : aversion'[b] = aversion[b]
      <4>1. aconfig[a] \in Configs
        BY <1>7, <1>t DEF RegenerateCommit
      <4>2. status' = [status EXCEPT ![aconfig[a]] = "pending"] /\ UNCHANGED isActive
        BY <3>2 DEF prepare_regenerate
      <4>3. apc'[a] = "publish" /\ status'[aconfig'[a]] = "pending"
        BY <3>2, <4>1, <4>2, <1>t
      <4> QED BY <3>2, <4>1, <4>2, <4>3, <1>t DEF AskFrame
    <3> QED BY <1>7, <3>1, <3>2, <1>t DEF RegenerateCommit
  <2> QED BY <1>7, <2>1, <2>2, <1>k, <1>h DEF RegenerateCommit
<1>8. ASSUME PublishTask(a) PROVE Rest
  <2>1. AskFrame
    BY <1>8, <1>t, <1>d DEF PublishTask, AskFrame
  <2>2. Keeps /\ NobodyEdits'
    BY <1>8, <1>t DEF PublishTask, NobodyEdits
  <2> QED BY <1>8, <2>1, <2>2, <1>k, <1>h, <1>d DEF PublishTask
<1>9. ASSUME SetLastTask(a) PROVE Rest
  <2>1. AskFrame
    BY <1>9, <1>t, <1>d DEF SetLastTask, AskFrame
  <2>2. Keeps /\ NobodyEdits'
    BY <1>9, <1>t DEF SetLastTask, NobodyEdits
  <2> QED BY <1>9, <2>1, <2>2, <1>k, <1>h, <1>d DEF SetLastTask
<1>10. ASSUME SaveLastTask(a) PROVE Rest
  <2>1. UNCHANGED <<status, isActive>>
    BY <1>10 DEF SaveLastTask, set_last_task_id
  <2>2. AskFrame
    BY <1>10, <2>1, <1>t DEF SaveLastTask, AskFrame
  <2>3. Keeps /\ NobodyEdits'
    BY <1>10, <1>t DEF SaveLastTask, NobodyEdits
  <2> QED BY <1>10, <2>1, <2>2, <2>3, <1>k, <1>h DEF SaveLastTask
<1>11. ASSUME DeleteRemoveLive(a) PROVE Rest
  <2>1. AskFrame
    BY <1>11, <1>t, <1>d DEF DeleteRemoveLive, AskFrame
  <2>2. Keeps /\ NobodyEdits'
    BY <1>11, <1>t DEF DeleteRemoveLive, NobodyEdits
  <2>c. PICK c \in Configs : c = aconfig[a]
    BY <1>11, <1>t DEF DeleteRemoveLive
  <2>3. Deleting(c)'
    BY <1>11, <1>t, <2>c DEF DeleteRemoveLive, Deleting
  <2>4. \A d \in Configs \ {c} : live'[d] = live[d] /\ proc'[d] = proc[d]
    BY <1>11, <1>t, <2>c DEF DeleteRemoveLive, remove_live_dir
  <2>5. HostFrame
    BY <2>3, <2>4 DEF HostFrame
  <2>6. DeleteFrame
    BY <1>11, <2>2, <1>d DEF DeleteRemoveLive, DeleteFrame, Deleting
  <2> QED BY <2>1, <2>2, <2>5, <2>6
<1>12. ASSUME DeleteCommit(a) PROVE Rest
  <2>1. UNCHANGED status /\ ~isActive'[aconfig[a]] /\ \A d \in Configs : isActive'[d] => isActive[d]
    <3>1. aconfig[a] \in Configs
      BY <1>12, <1>t DEF DeleteCommit
    <3> QED BY <1>12, <3>1, <1>t, <1>d DEF DeleteCommit, soft_delete, Visible
  <2>2. AskFrame
    BY <1>12, <2>1, <1>t DEF DeleteCommit, AskFrame
  <2>3. NobodyEdits' /\ \A b \in Clients \ {a} : Del(b) => Del(b)' /\ aconfig'[b] = aconfig[b]
    BY <1>12, <1>t DEF DeleteCommit, NobodyEdits
  <2>4. DeleteFrame
    <3> SUFFICES ASSUME NEW c \in Configs, isActive'[c], ~Deleting(c)'
                 PROVE  isActive[c] /\ ~Deleting(c)
      BY DEF DeleteFrame
    <3>1. c # aconfig[a] /\ isActive[c]
      BY <2>1
    <3> QED BY <3>1, <2>3 DEF Deleting
  <2>5. HostFrame
    BY <1>12, <1>h DEF DeleteCommit, HostFrame
  <2> QED BY <2>2, <2>3, <2>4, <2>5
<1>13. ~(\/ EditFlush(a) \/ EditGone(a) \/ EditWrite(a) \/ EditInstall(a)
         \/ EditInstallRaises(a) \/ EditCommit(a))
  BY <1>n DEF EditFlush, EditGone, EditWrite, EditInstall, EditInstallRaises, EditCommit
<1>r. Rest
  BY <1>a, <1>3, <1>4, <1>5, <1>6, <1>7, <1>8, <1>9, <1>10, <1>11, <1>12, <1>13 DEF ApiRequest, ApiStep
<1> QED
  BY <1>1, <1>2, <1>r DEF ServeFrames

\* What a step of a worker does of it.
LEMMA WorkerServes ==
  ASSUME TypeOK, NEW w \in Workers, (\E t \in Tasks : Pull(w, t)) \/ WorkerStep(w),
         UNCHANGED clientVars
  PROVE  ServeFrames
<1>t. /\ wpc \in [Workers -> WorkerStates] /\ wtask \in [Workers -> 0..MaxTasks]
      /\ taskState \in [Tasks -> TaskStates] /\ status \in [Configs -> Statuses]
      /\ live \in [Configs -> Content] /\ proc \in [Configs -> Content]
      /\ \A t \in 1..ntasks : t \in Tasks
  BY DEF TypeOK, WorkerTypeOK, BrokerTypeOK, StoreTypeOK, HostTypeOK, Tasks
<1>c. UNCHANGED <<apc, aconfig, aversion>>
  BY DEF clientVars
<1>b. UNCHANGED brokerVars => UNCHANGED taskState
  BY DEF brokerVars
<1>d. UNCHANGED dbVars => UNCHANGED <<status, isActive>>
  BY DEF dbVars
<1>h. UNCHANGED hostVars => UNCHANGED <<live, proc>>
  BY DEF hostVars
<1>r. Rollback(w) => UNCHANGED <<status, isActive>>
  BY DEF Rollback
<1> DEFINE Rows == UNCHANGED isActive /\ \A c \in Configs : status'[c] = "none" => status[c] = "none"
<1>s. ASSUME Rows PROVE AskFrame /\ DeleteFrame
  BY <1>s, <1>c DEF AskFrame, DeleteFrame, Deleting
<1>q. ASSUME UNCHANGED taskState PROVE QueueFrame
  BY <1>q DEF QueueFrame
<1>p. ASSUME UNCHANGED <<live, proc>> PROVE HostFrame
  BY <1>p DEF HostFrame
<1>1. ASSUME NEW t \in Tasks, Pull(w, t) PROVE ServeFrames
  <2>1. QueueFrame
    BY <1>1, <1>t DEF Pull, pull, QueueFrame
  <2>2. BusyFrame
    BY <1>1, <1>t DEF Pull, pull, BusyFrame
  <2>3. WriteFrame
    BY <1>1, <1>t DEF Pull, WriteFrame
  <2> QED BY <1>1, <2>1, <2>2, <2>3, <1>d, <1>h, <1>s, <1>p DEF Pull, ServeFrames
<1>2. ASSUME NEW s \in WorkerStates, NEW row, Continue(w, s) \/ ContinueWith(w, s, row),
             wpc[w] \notin {"idle", "ack"}, UNCHANGED brokerVars
      PROVE  BusyFrame /\ QueueFrame
  <2>1. BusyFrame
    BY <1>2, <1>t DEF BusyFrame
  <2> QED BY <2>1, <1>2, <1>b, <1>q
<1>3. ASSUME NEW s \in WorkerStates, NEW row, Continue(w, s) \/ ContinueWith(w, s, row),
             s \notin {"written", "installed"}
      PROVE  WriteFrame
  BY <1>3, <1>t DEF WriteFrame
<1>m. {"reactivate", "lock", "ack", "locked", "stopped", "written", "installed", "failing",
       "markFailed", "nack"} \subseteq WorkerStates
  BY DEF WorkerStates
<1>4. CASE CheckVersion(w) \/ LoadForMarkFailed(w)
  BY <1>4, <1>2, <1>3, <1>m, <1>d, <1>h, <1>s, <1>p DEF CheckVersion, LoadForMarkFailed, ServeFrames
<1>5. CASE Reactivate(w)
  <2>1. Rows
    BY <1>5, <1>t DEF Reactivate, mark_active, Written
  <2> QED BY <1>5, <2>1, <1>2, <1>3, <1>m, <1>h, <1>s, <1>p DEF Reactivate, ServeFrames
<1>6. CASE MarkProcessing(w)
  BY <1>6, <1>2, <1>3, <1>m, <1>h, <1>s, <1>p DEF MarkProcessing, LockRow, ServeFrames
<1>7. CASE HostOp(w)
  <2>1. HostFrame
    <3>1. \A c \in Configs \ {Config(w)} : live'[c] = live[c] /\ proc'[c] = proc[c]
      BY <1>7, <1>t, <1>h DEF HostOp, StopUnit, BuildAndWrite, InstallUnit, InstallRaises,
         stop_config_unit, WriteLive, install_config_unit, install_config_unit_raises
    <3> QED BY <3>1, <1>7 DEF HostFrame
  <2>2. Rows
    BY <1>7, <1>d, <1>r DEF HostOp, StopUnit, BuildAndWrite, InstallUnit, InstallRaises
  <2>3. BusyFrame /\ QueueFrame
    BY <1>7, <1>2, <1>m DEF HostOp, StopUnit, BuildAndWrite, InstallUnit, InstallRaises
  <2>4. WriteFrame
    <3>1. StopUnit(w) \/ InstallRaises(w) => WriteFrame
      BY <1>3, <1>m DEF StopUnit, InstallRaises
    <3>2. BuildAndWrite(w) \/ InstallUnit(w) => \A u \in Workers \ {w} : wpc'[u] = wpc[u] /\ wtask'[u] = wtask[u]
      BY <1>t DEF BuildAndWrite, InstallUnit
    <3> QED BY <3>1, <3>2, <1>7 DEF HostOp, WriteFrame
  <2> QED BY <2>1, <2>2, <2>3, <2>4, <1>s DEF ServeFrames
<1>8. CASE Persist(w)
  <2>1. Rows
    BY <1>8, <1>t DEF Persist, commit_version
  <2> QED BY <1>8, <2>1, <1>2, <1>3, <1>m, <1>h, <1>s, <1>p DEF Persist, ServeFrames
<1>9. CASE PersistConflict(w) \/ HandlerRaises(w)
  BY <1>9, <1>2, <1>3, <1>m, <1>h, <1>r, <1>s, <1>p DEF PersistConflict, HandlerRaises, Handling, Building, ServeFrames
<1>10. CASE MarkFailed(w)
  <2>0. PICK m \in BOOLEAN : mark_failed(Config(w), wrow[w], m)
    BY <1>10 DEF MarkFailed
  <2>1. /\ status' = [status EXCEPT ![Config(w)] = IF "failed" = wrow[w].status THEN @ ELSE "failed"]
        /\ UNCHANGED isActive
    BY <2>0 DEF mark_failed, Written
  <2>2. Rows
    BY <2>1, <1>t
  <2> QED BY <1>10, <2>2, <1>2, <1>3, <1>m, <1>h, <1>s, <1>p DEF MarkFailed, ServeFrames
<1>11. CASE Ack(w) \/ Nack(w)
  <2>1. QueueFrame
    <3>1. CASE UNCHANGED brokerVars
      BY <3>1, <1>b, <1>q
    <3>2. CASE Ack(w) /\ ack(w, wtask[w])
      BY <3>2, <1>t DEF ack, QueueFrame
    <3>3. CASE Nack(w) /\ nack(w, wtask[w])
      <4>1. wpc[w] = "nack" /\ \A t \in Tasks \ {wtask[w]} : taskState'[t] = taskState[t]
        BY <3>3, <1>t DEF Nack, nack
      <4> QED BY <4>1, <1>t DEF QueueFrame
    <3> QED BY <1>11, <3>1, <3>2, <3>3 DEF Ack, Nack
  <2>2. BusyFrame /\ WriteFrame
    BY <1>11, <1>t DEF Ack, Nack, BusyFrame, WriteFrame
  <2> QED BY <1>11, <2>1, <2>2, <1>d, <1>h, <1>s, <1>p DEF Ack, Nack, ServeFrames
<1> QED
  BY <1>1, <1>4, <1>5, <1>6, <1>7, <1>8, <1>9, <1>10, <1>11 DEF WorkerStep, HostOp


\* What the faults do of it, too: nobody comes to edit, and who comes to publish
\* has just made the config pending.
LEMMA EditsExcluded ==
  ASSUME TypeOK, NobodyEdits, "edit" \notin Requests, Next PROVE NobodyEdits' /\ AskFrame
<1>t. /\ apc \in [Clients -> ClientStates] /\ aconfig \in [Clients -> Configs \cup {NoOne}]
      /\ aversion \in [Clients -> 0..MaxVersion]
  BY DEF TypeOK, ClientTypeOK
<1>k. ASSUME UNCHANGED <<apc, aconfig, aversion, status>> PROVE NobodyEdits' /\ AskFrame
  BY <1>k DEF NobodyEdits, AskFrame
<1>1. CASE ApiNext
  <2>a. PICK a \in Clients : (\E c \in Configs : ApiRequest(a, c)) \/ ApiStep(a) \/ ApiFault(a)
    BY <1>1 DEF ApiNext
  <2>1. CASE (\E c \in Configs : ApiRequest(a, c)) \/ ApiStep(a)
    BY <1>1, <2>1, FaultsAreCounted, ApiServes DEF ServeFrames
  <2>2. CASE ApiFault(a)
    <3>1. Respond(a) /\ UNCHANGED status
      BY <2>2 DEF ApiFault, PublishAnswerLost, RequestDies, Rollback, dbVars
    <3> QED BY <3>1, <1>t DEF NobodyEdits, EditLocked, AskFrame
  <2> QED BY <2>a, <2>1, <2>2
<1>2. CASE WorkerNext
  <2>c. UNCHANGED <<apc, aconfig, aversion, clientVars>>
    BY <1>2 DEF WorkerNext, clientVars
  <2>1. ASSUME NEW w \in Workers, (\E t \in Tasks : Pull(w, t)) \/ WorkerStep(w)
        PROVE  NobodyEdits' /\ AskFrame
    BY <2>1, <2>c, WorkerServes DEF ServeFrames, NobodyEdits
  <2>2. ASSUME NEW w \in Workers, WorkerFault(w) PROVE NobodyEdits' /\ AskFrame
    BY <2>2, <2>c, <1>k DEF WorkerFault, WorkerDies, HeartbeatFails, MarkFailedRaises, Rollback, dbVars
  <2>3. ASSUME NEW t \in Tasks, LeaseExpires(t) PROVE NobodyEdits' /\ AskFrame
    BY <2>3, <2>c, <1>k DEF LeaseExpires, dbVars
  <2> QED BY <1>2, <2>1, <2>2, <2>3 DEF WorkerNext
<1> QED
  BY <1>1, <1>2 DEF Next

----------------------------------------------------------------------------
(* What each conjunct of Serving rests on                                   *)

\* A busy worker has a published task in hand, whose payload does not change.
LEMMA TaskInHand ==
  ASSUME Safety, PayloadFrame, NEW w \in Workers, wpc[w] # "idle"
  PROVE  /\ wtask[w] \in 1..ntasks /\ wtask[w] \in Tasks
         /\ Config(w) \in Configs /\ Target(w) \in Versions
         /\ taskConfig'[wtask[w]] = Config(w) /\ taskTarget'[wtask[w]] = Target(w)
<1>1. wtask[w] \in 1..ntasks
  BY DEF Safety, TypeOK, WorkerTypeOK
<1> QED
  BY <1>1, PayloadStays DEF Config, Target

\* Where a published task has its payload from.
LEMMA PayloadFrom ==
  ASSUME Safety, PayloadFrame, NEW t \in 1..ntasks', t \notin 1..ntasks
  PROVE  \E a \in Clients : /\ apc[a] = "publish"
                            /\ taskConfig'[t] = aconfig[a] /\ taskTarget'[t] = aversion[a]
<1>t. BrokerTypeOK
  BY DEF Safety, TypeOK
<1>1. PICK a \in Clients : apc[a] = "publish" /\ publish_task(aconfig[a], aversion[a])
  BY DEF PayloadFrame
<1>2. t = ntasks + 1 /\ t \in Tasks
  BY <1>1, <1>t DEF publish_task, BrokerTypeOK, Tasks
<1> QED
  BY <1>1, <1>2, <1>t DEF publish_task, BrokerTypeOK

\* Targets that are distinct after a step were so before it.
LEMMA DistinctBefore ==
  ASSUME Safety, PayloadFrame, NEW c \in Configs, TargetsDistinct(c)' PROVE TargetsDistinct(c)
<1> SUFFICES ASSUME NEW t1 \in 1..ntasks, NEW t2 \in 1..ntasks,
                    taskConfig[t1] = c, taskConfig[t2] = c, taskTarget[t1] = taskTarget[t2]
             PROVE  t1 = t2
  BY DEF TargetsDistinct
<1>1. /\ t1 \in 1..ntasks' /\ taskConfig'[t1] = c /\ taskTarget'[t1] = taskTarget[t1]
      /\ t2 \in 1..ntasks' /\ taskConfig'[t2] = c /\ taskTarget'[t2] = taskTarget[t2]
  BY PayloadStays
<1> QED
  BY <1>1 DEF TargetsDistinct

\* Persist stores the version its task asks for, and no step stores another.
LEMMA TasksOfVersions ==
  ASSUME Safety, VersionsHaveTasks, StoreFrame, PayloadFrame PROVE VersionsHaveTasks'
<1> SUFFICES ASSUME NEW c \in Configs, NEW v \in Versions, has_version(c, v)'
             PROVE  \E t \in 1..ntasks' : taskConfig'[t] = c /\ taskTarget'[t] = v
  BY DEF VersionsHaveTasks, has_version
<1>1. \E t \in 1..ntasks : taskConfig[t] = c /\ taskTarget[t] = v
  <2>1. CASE has_version(c, v)
    BY <2>1 DEF VersionsHaveTasks
  <2>2. CASE ~has_version(c, v)
    <3>t. versions \in [Configs -> [Versions -> Authors \cup {NoOne}]] /\ NoOne \notin Authors
      BY DEF Safety, TypeOK, StoreTypeOK, Authors
    <3>1. PICK w \in Workers : Persist(w)
      <4>1. ~UNCHANGED versions
        BY <2>2 DEF has_version
      <4>2. ASSUME NEW w \in Workers, Reactivate(w) PROVE UNCHANGED versions
        BY <4>2 DEF Reactivate, mark_active
      <4>3. ASSUME NEW a \in Clients, EditCommit(a) PROVE FALSE
        <5>1. versions' = [versions EXCEPT ![aconfig[a]][aversion[a]] = abody[a]]
          BY <4>3 DEF EditCommit, update_version_config_data
        <5>2. has_version(aconfig[a], aversion[a])
          BY <4>3 DEF Safety, EditsExist, EditCommit, EditLocked
        <5> QED
          BY <5>1, <5>2, <2>2, <3>t DEF has_version
      <4> QED BY <4>1, <4>2, <4>3 DEF StoreFrame
    <3>2. wpc[w] # "idle" /\ versions' = [versions EXCEPT ![Config(w)][Target(w)] = w]
      BY <3>1 DEF Persist, commit_version
    <3>3. Config(w) = c /\ Target(w) = v
      BY <3>2, <2>2, <3>t DEF has_version
    <3> QED
      BY <3>2, <3>3, TaskInHand DEF Config, Target
  <2> QED BY <2>1, <2>2
<1>2. PICK t \in 1..ntasks : taskConfig[t] = c /\ taskTarget[t] = v
  BY <1>1
<1> QED
  BY <1>2, PayloadStays

\* A config exists before anything is asked of it.
LEMMA CreateComesFirst ==
  ASSUME Safety, NothingBeforeCreate, PayloadFrame, AskFrame PROVE NothingBeforeCreate'
<1> SUFFICES ASSUME NEW c \in Configs, status'[c] = "none"
             PROVE  /\ \A t \in 1..ntasks' : taskConfig'[t] # c
                    /\ \A a \in Clients : apc'[a] = "publish" => aconfig'[a] # c
  BY DEF NothingBeforeCreate
<1>1. /\ \A t \in 1..ntasks : taskConfig[t] # c
      /\ \A a \in Clients : apc[a] = "publish" => aconfig[a] # c
  BY DEF AskFrame, NothingBeforeCreate
<1>2. \A t \in 1..ntasks' : taskConfig'[t] # c
  BY <1>1, PayloadStays, PayloadFrom
<1>3. \A a \in Clients : apc'[a] = "publish" => aconfig'[a] # c
  BY <1>1 DEF AskFrame
<1> QED
  BY <1>2, <1>3

\* Every version of c is built by one task, and so reactivated by none.
LEMMA NeverReactivated ==
  ASSUME Safety, NEW c \in Configs, BuiltOnce(c), NEW w \in Workers, Reactivate(w)
  PROVE  Config(w) # c
<1>1. wpc[w] = "reactivate"
  BY DEF Reactivate
<1>2. has_version(Config(w), Target(w))
  BY <1>1 DEF Safety, DoneIsStored
<1> QED
  BY <1>1, <1>2 DEF BuiltOnce

\* How the rows of c change: not at all, or by a build that stores the version
\* after the current one.
LEMMA RowsInTurn ==
  ASSUME Safety, StoreFrame, NobodyEdits, NEW c \in Configs, InTurn(c), BuiltOnce(c)
  PROVE  \/ versions'[c] = versions[c] /\ current'[c] = current[c]
         \/ \E w \in Workers :
              /\ Persist(w) /\ Config(w) = c /\ Target(w) = current[c] + 1
              /\ current'[c] = Target(w)
              /\ versions'[c] = [versions[c] EXCEPT ![Target(w)] = w]
<1>t. /\ versions \in [Configs -> [Versions -> Authors \cup {NoOne}]]
      /\ current \in [Configs -> 0..MaxVersion]
      /\ \A w \in Workers : wpc[w] # "idle" =>
           wtask[w] \in 1..ntasks /\ Config(w) \in Configs /\ Target(w) \in Versions
  <2>1. StoreTypeOK /\ BrokerTypeOK /\ WorkerTypeOK
    BY DEF Safety, TypeOK
  <2>2. \A t \in 1..ntasks : taskConfig[t] \in Configs /\ taskTarget[t] \in Versions
    BY <2>1 DEF BrokerTypeOK, Tasks
  <2> QED
    BY <2>1, <2>2 DEF StoreTypeOK, WorkerTypeOK, Config, Target
<1>1. ASSUME NEW w \in Workers, Persist(w)
      PROVE  \/ versions'[c] = versions[c] /\ current'[c] = current[c]
             \/ /\ Config(w) = c /\ Target(w) = current[c] + 1
                /\ current'[c] = Target(w)
                /\ versions'[c] = [versions[c] EXCEPT ![Target(w)] = w]
  <2>1. /\ wpc[w] = "installed" /\ ~has_version(Config(w), Target(w))
        /\ versions' = [versions EXCEPT ![Config(w)][Target(w)] = w]
        /\ current' = [current EXCEPT ![Config(w)] = Target(w)]
    BY <1>1 DEF Persist, commit_version
  <2>2. CASE Config(w) # c
    BY <2>1, <2>2, <1>t
  <2>3. CASE Config(w) = c
    <3>1. Target(w) <= current[c] + 1 /\ ~(Target(w) <= current[c])
      BY <2>1, <2>3, <1>t DEF InTurn, Config, Target
    <3>2. Target(w) = current[c] + 1
      BY <3>1, <1>t, <2>1 DEF Versions
    <3> QED
      BY <2>1, <2>3, <3>2, <1>t
  <2> QED BY <2>2, <2>3
<1>2. ASSUME NEW w \in Workers, Reactivate(w)
      PROVE  versions'[c] = versions[c] /\ current'[c] = current[c]
  <2>1. Config(w) # c
    BY <1>2, NeverReactivated
  <2> QED
    BY <1>2, <2>1, <1>t DEF Reactivate, mark_active
<1>3. ASSUME NEW a \in Clients, EditCommit(a) PROVE FALSE
  BY <1>3 DEF EditCommit, NobodyEdits, EditLocked
<1> QED
  BY <1>1, <1>2, <1>3 DEF StoreFrame

\* Requests ask for the version after the current one, and builds store it.
LEMMA InTurnStep ==
  ASSUME Safety, TypeOK', StoreFrame, PayloadFrame, PublishFrame, NobodyEdits,
         NEW c \in Configs, InTurn(c), BuiltOnce(c)
  PROVE  InTurn(c)'
<1>t. /\ versions \in [Configs -> [Versions -> Authors \cup {NoOne}]] /\ NoOne \notin Authors
      /\ NoOne \notin Workers
      /\ current[c] \in Nat /\ current'[c] \in Nat
      /\ \A a \in Clients : aversion[a] \in Nat /\ aversion'[a] \in Nat
      /\ \A t \in 1..ntasks : taskTarget[t] \in Nat
  <2>1. StoreTypeOK /\ StoreTypeOK' /\ ClientTypeOK /\ ClientTypeOK'
    BY DEF Safety, TypeOK
  <2> QED
    BY <2>1, PayloadStays DEF StoreTypeOK, ClientTypeOK, Authors, Versions
<1>1. current[c] <= current'[c] /\ \A v \in Versions : has_version(c, v)' <=> v <= current'[c]
  <2>1. CASE versions'[c] = versions[c] /\ current'[c] = current[c]
    BY <2>1, <1>t DEF InTurn, has_version
  <2>2. ASSUME NEW w \in Workers, Target(w) = current[c] + 1, current'[c] = Target(w),
               versions'[c] = [versions[c] EXCEPT ![Target(w)] = w]
        PROVE  current[c] <= current'[c] /\ \A v \in Versions : has_version(c, v)' <=> v <= current'[c]
    <3>1. \A v \in Versions : has_version(c, v)' <=> has_version(c, v) \/ v = current[c] + 1
      BY <2>2, <1>t DEF has_version
    <3>2. \A v \in Versions : v \in Int
      BY DEF Versions
    <3> QED
      BY <3>1, <3>2, <2>2, <1>t DEF InTurn
  <2> QED BY <2>1, <2>2, RowsInTurn
<1>2. ASSUME NEW t \in 1..ntasks', taskConfig'[t] = c PROVE taskTarget'[t] <= current'[c] + 1
  <2>1. CASE t \in 1..ntasks
    <3>1. taskTarget'[t] = taskTarget[t] /\ taskTarget[t] <= current[c] + 1
      BY <2>1, <1>2, PayloadStays DEF InTurn
    <3> QED BY <2>1, <3>1, <1>1, <1>t
  <2>2. CASE t \notin 1..ntasks
    <3>1. PICK a \in Clients : /\ apc[a] = "publish"
                               /\ taskConfig'[t] = aconfig[a] /\ taskTarget'[t] = aversion[a]
      BY <2>2, PayloadFrom
    <3>2. aversion[a] <= current[c] + 1
      BY <3>1, <1>2 DEF InTurn
    <3> QED BY <3>1, <3>2, <1>1, <1>t
  <2> QED BY <2>1, <2>2
<1>3. ASSUME NEW a \in Clients, apc'[a] = "publish", aconfig'[a] = c
      PROVE  aversion'[a] <= current'[c] + 1
  <2>1. \/ aversion'[a] = aversion[a] /\ aversion[a] <= current[c] + 1
        \/ aversion'[a] = 1
        \/ aversion'[a] = current[c] + 1
    BY <1>3 DEF PublishFrame, InTurn
  <2> QED BY <2>1, <1>1, <1>t
<1> QED
  BY <1>1, <1>2, <1>3 DEF InTurn

\* Where distinct versions were asked for, a version that comes to be stored is
\* the one a single busy worker builds.
LEMMA StoredByItsTask ==
  ASSUME Safety, StoreFrame, PayloadFrame, NobodyEdits, NEW c \in Configs, InTurn(c), BuiltOnce(c),
         TargetsDistinct(c), NEW t \in 1..ntasks, taskConfig[t] = c,
         ~has_version(c, taskTarget[t]), has_version(c, taskTarget[t])'
  PROVE  \E w \in Workers : Persist(w) /\ wtask[w] = t
<1>1. taskTarget'[t] = taskTarget[t] /\ taskTarget[t] \in Versions
  BY PayloadStays
<1>2. versions'[c] # versions[c]
  BY <1>1 DEF has_version
<1>3. PICK w \in Workers : /\ Persist(w) /\ Config(w) = c
                           /\ versions'[c] = [versions[c] EXCEPT ![Target(w)] = w]
  BY <1>2, RowsInTurn
<1>4. Target(w) = taskTarget[t]
  <2>1. versions[c] \in [Versions -> Authors \cup {NoOne}]
    BY DEF Safety, TypeOK, StoreTypeOK
  <2> QED
    BY <2>1, <1>1, <1>3 DEF has_version
<1>5. wtask[w] \in 1..ntasks
  BY <1>3, TaskInHand DEF Persist
<1> QED
  BY <1>3, <1>4, <1>5 DEF TargetsDistinct, Config, Target

\* A version that is stored is neither queued nor built again: its one task is
\* in the hand of the worker that stored it, and acked next.
LEMMA BuiltOnceStep ==
  ASSUME Safety, TypeOK', StoreFrame, PayloadFrame, NobodyEdits, VersionsHaveTasks, LeasesAreKept,
         QueueFrame, BusyFrame, NEW c \in Configs, InTurn(c), BuiltOnce(c), TargetsDistinct(c)'
  PROVE  BuiltOnce(c)'
<1>d. TargetsDistinct(c)
  BY DistinctBefore
<1>t. /\ \A t \in Tasks : taskState[t] # "NONE" => t \in 1..ntasks
      /\ \A t \in Tasks : taskState'[t] # "NONE" => t \in 1..ntasks'
      /\ \A t \in 1..ntasks' : taskTarget'[t] \in Versions
  <2>1. BrokerTypeOK /\ BrokerTypeOK'
    BY DEF Safety, TypeOK
  <2> QED
    BY <2>1 DEF BrokerTypeOK, Tasks
<1>p. ASSUME NEW w \in Workers, Persist(w) PROVE wpc[w] = "installed" /\ wpc'[w] = "ack" /\ wpc[w] # "idle"
  BY <1>p DEF Persist, Safety, TypeOK, WorkerTypeOK
<1>1. ASSUME NEW t \in 1..ntasks, taskConfig[t] = c, ~has_version(c, taskTarget[t]),
             \A w \in Workers : wpc[w] = "installed" => wtask[w] # t
      PROVE  ~has_version(c, taskTarget[t])'
  BY <1>1, <1>d, <1>p, StoredByItsTask
<1>2. ASSUME NEW t \in Tasks, taskState'[t] = "PENDING", taskConfig'[t] = c
      PROVE  ~has_version(c, taskTarget[t])'
  <2>1. CASE t \notin 1..ntasks
    <3>1. t \in 1..ntasks' /\ taskTarget'[t] \in Versions
      BY <1>2, <1>t
    <3>2. SUFFICES ASSUME has_version(c, taskTarget[t])' PROVE FALSE
      OBVIOUS
    <3>3. VersionsHaveTasks' /\ \A v \in Versions : has_version(c, v) =>
            \E u \in 1..ntasks : taskConfig[u] = c /\ taskTarget[u] = v
      BY TasksOfVersions DEF VersionsHaveTasks
    <3>4. \E u \in 1..ntasks : taskConfig[u] = c /\ taskTarget[u] = taskTarget'[t]
      <4>1. CASE has_version(c, taskTarget'[t])
        BY <4>1, <3>1, <3>3
      <4>2. CASE ~has_version(c, taskTarget'[t])
        <5>1. versions'[c] # versions[c]
          BY <4>2, <3>2 DEF has_version
        <5>2. PICK w \in Workers : /\ Persist(w) /\ Config(w) = c
                                   /\ versions'[c] = [versions[c] EXCEPT ![Target(w)] = w]
          BY <5>1, RowsInTurn
        <5>3. Target(w) = taskTarget'[t]
          <6>1. versions[c] \in [Versions -> Authors \cup {NoOne}]
            BY DEF Safety, TypeOK, StoreTypeOK
          <6> QED
            BY <6>1, <5>2, <4>2, <3>1, <3>2 DEF has_version
        <5> QED
          BY <5>2, <5>3, <1>p, TaskInHand DEF Config, Target
      <4> QED BY <4>1, <4>2
    <3>5. PICK u \in 1..ntasks : taskConfig[u] = c /\ taskTarget[u] = taskTarget'[t]
      BY <3>4
    <3>6. u \in 1..ntasks' /\ taskConfig'[u] = c /\ taskTarget'[u] = taskTarget'[t]
      BY <3>5, PayloadStays
    <3> QED
      BY <1>2, <2>1, <3>1, <3>5, <3>6 DEF TargetsDistinct
  <2>2. CASE t \in 1..ntasks
    <3>1. taskConfig[t] = c
      BY <1>2, <2>2, PayloadStays
    <3>2. CASE taskState[t] = "PENDING"
      <4>1. ~has_version(c, taskTarget[t])
        BY <3>1, <3>2 DEF BuiltOnce
      <4>2. \A w \in Workers : wpc[w] = "installed" => wtask[w] # t
        BY <3>2 DEF LeasesAreKept, Holds
      <4> QED BY <2>2, <3>1, <4>1, <4>2, <1>1
    <3>3. ASSUME NEW w \in Workers, wpc[w] = "nack", wtask[w] = t
          PROVE  ~has_version(c, taskTarget[t])'
      <4>1. ~has_version(c, taskTarget[t])
        BY <3>1, <3>3 DEF BuiltOnce, Config, Target
      <4>2. \A u \in Workers : wpc[u] = "installed" => wtask[u] # t
        BY <3>3, OneInHand
      <4> QED BY <2>2, <3>1, <4>1, <4>2, <1>1
    <3> QED
      BY <1>2, <2>2, <3>2, <3>3 DEF QueueFrame
  <2> QED BY <2>1, <2>2
<1>3. ASSUME NEW w \in Workers, wpc'[w] \notin {"idle", "ack"}, Config(w)' = c
      PROVE  ~has_version(c, Target(w))'
  <2>1. PICK t \in 1..ntasks : /\ wtask'[w] = t /\ taskConfig[t] = c /\ ~has_version(c, taskTarget[t])
                               /\ \A u \in Workers : wpc[u] = "installed" /\ wtask[u] = t => u = w
    <3>1. CASE wpc[w] \notin {"idle", "ack"} /\ wtask'[w] = wtask[w]
      <4>1. wtask[w] \in 1..ntasks /\ Config(w) = c
        BY <3>1, <1>3, TaskInHand DEF Config
      <4>2. ~has_version(c, Target(w))
        BY <3>1, <4>1 DEF BuiltOnce
      <4> QED BY <3>1, <4>1, <4>2, OneInHand DEF Config, Target
    <3>2. CASE wtask'[w] \in Tasks /\ taskState[wtask'[w]] = "PENDING"
      <4>1. PICK t \in 1..ntasks : t \in Tasks /\ t = wtask'[w] /\ taskState[t] = "PENDING"
        BY <3>2, <1>t
      <4>2. taskConfig[t] = c
        BY <4>1, <1>3, PayloadStays DEF Config
      <4> QED BY <4>1, <4>2 DEF BuiltOnce, LeasesAreKept, Holds
    <3> QED BY <1>3, <3>1, <3>2 DEF BusyFrame
  <2>2. taskTarget'[t] = taskTarget[t]
    BY PayloadStays
  <2>3. ~has_version(c, taskTarget[t])'
    <3>1. SUFFICES ASSUME has_version(c, taskTarget[t])' PROVE FALSE
      OBVIOUS
    <3>2. PICK u \in Workers : Persist(u) /\ wtask[u] = t
      BY <2>1, <3>1, <1>d, StoredByItsTask
    <3> QED BY <3>2, <2>1, <1>3, <1>p
  <2> QED
    BY <2>1, <2>2, <2>3 DEF Target, has_version
<1> QED
  BY <1>2, <1>3 DEF BuiltOnce

\* How c becomes or stays active: by the build of the next version, or with its
\* rows unchanged.
LEMMA ActiveInTurn ==
  ASSUME Safety, StoreFrame, StatusFrame, NobodyEdits,
         NEW c \in Configs, InTurn(c), BuiltOnce(c), status'[c] = "active"
  PROVE  \/ \E w \in Workers :
              /\ Persist(w) /\ Config(w) = c /\ Target(w) = current[c] + 1
              /\ current'[c] = Target(w)
              /\ versions'[c] = [versions[c] EXCEPT ![Target(w)] = w]
         \/ status[c] = "active" /\ versions'[c] = versions[c] /\ current'[c] = current[c]
<1>t. /\ versions \in [Configs -> [Versions -> Authors \cup {NoOne}]]
      /\ current \in [Configs -> 0..MaxVersion] /\ status \in [Configs -> Statuses]
  BY DEF Safety, TypeOK, StoreTypeOK
<1>1. CASE versions'[c] = versions[c] /\ current'[c] = current[c]
  <2>1. ASSUME NEW w \in Workers, Persist(w) PROVE Config(w) # c
    <3>1. /\ ~has_version(Config(w), Target(w)) /\ wpc[w] # "idle"
          /\ versions' = [versions EXCEPT ![Config(w)][Target(w)] = w]
      BY <2>1 DEF Persist, commit_version
    <3>2. Target(w) \in Versions
      <4>1. wtask[w] \in 1..ntasks /\ wtask[w] \in Tasks
        BY <3>1 DEF Safety, TypeOK, WorkerTypeOK, BrokerTypeOK, Tasks
      <4> QED BY <4>1 DEF Safety, TypeOK, BrokerTypeOK, Target
    <3>3. NoOne \notin Workers
      OBVIOUS
    <3> QED BY <3>1, <3>2, <3>3, <1>1, <1>t DEF has_version
  <2>2. ASSUME NEW w \in Workers, Persist(w) \/ Reactivate(w) PROVE status'[c] = status[c]
    <3>1. Config(w) # c
      BY <2>1, <2>2, NeverReactivated
    <3> QED
      BY <2>2, <3>1, <1>t DEF Persist, Reactivate, commit_version, mark_active
  <2>3. status[c] = "active"
    BY <2>2 DEF StatusFrame
  <2> QED BY <1>1, <2>3
<1> QED
  BY <1>1, RowsInTurn

\* A build that makes c active has stored the last version asked for; who asks
\* for another makes it pending first.
LEMMA UpToDateStep ==
  ASSUME Safety, TypeOK', StoreFrame, StatusFrame, PayloadFrame, PublishFrame, AskFrame, NobodyEdits,
         NEW c \in Configs, InTurn(c), BuiltOnce(c), ActiveIsUpToDate(c)
  PROVE  ActiveIsUpToDate(c)'
<1> SUFFICES ASSUME status'[c] = "active"
             PROVE  /\ \A t \in 1..ntasks' : taskConfig'[t] = c => has_version(c, taskTarget[t])'
                    /\ \A a \in Clients : apc'[a] = "publish" /\ aconfig'[a] = c
                         => has_version(c, aversion[a])'
  BY DEF ActiveIsUpToDate
<1>t. /\ \A t \in 1..ntasks : taskTarget[t] \in Versions
      /\ \A a \in Clients : apc[a] = "publish" => aversion[a] \in Versions
  <2>1. ClientTypeOK
    BY DEF Safety, TypeOK
  <2> QED BY <2>1, PayloadStays DEF ClientTypeOK
\* What was asked for is stored after the step.
<1>1. /\ \A t \in 1..ntasks : taskConfig[t] = c => versions'[c][taskTarget[t]] # NoOne
      /\ \A a \in Clients : apc[a] = "publish" /\ aconfig[a] = c => versions'[c][aversion[a]] # NoOne
  <2>1. CASE status[c] = "active" /\ versions'[c] = versions[c]
    BY <2>1 DEF ActiveIsUpToDate, has_version
  <2>2. CASE current'[c] = current[c] + 1
    <3>1. \A v \in Versions : versions'[c][v] # NoOne <=> v <= current[c] + 1
      BY <2>2, InTurnStep DEF InTurn, has_version
    <3> QED
      BY <3>1, <1>t DEF InTurn
  <2> QED BY <2>1, <2>2, ActiveInTurn
<1>2. ASSUME NEW t \in 1..ntasks', taskConfig'[t] = c PROVE has_version(c, taskTarget[t])'
  <2>1. CASE t \in 1..ntasks
    BY <2>1, <1>1, <1>2, PayloadStays DEF has_version
  <2>2. CASE t \notin 1..ntasks
    <3>1. PICK a \in Clients : /\ apc[a] = "publish"
                               /\ taskConfig'[t] = aconfig[a] /\ taskTarget'[t] = aversion[a]
      BY <2>2, PayloadFrom
    <3> QED BY <3>1, <1>1, <1>2 DEF has_version
  <2> QED BY <2>1, <2>2
<1>3. ASSUME NEW a \in Clients, apc'[a] = "publish", aconfig'[a] = c PROVE has_version(c, aversion[a])'
  <2>1. apc[a] = "publish" /\ aconfig[a] = c /\ aversion'[a] = aversion[a]
    BY <1>3 DEF AskFrame
  <2> QED BY <2>1, <1>1 DEF has_version
<1> QED
  BY <1>2, <1>3

\* The live file and the process follow the build that writes them, and stay
\* what they are while the config is active.
LEMMA HostStep ==
  ASSUME Safety, StoreFrame, StatusFrame, PayloadFrame, NobodyEdits, NothingBeforeCreate,
         HostFrame, WriteFrame, DeleteFrame, BusyFrame,
         NEW c \in Configs, InTurn(c), BuiltOnce(c), ActiveIsUpToDate(c), HostFollows(c)
  PROVE  HostFollows(c)'
<1> SUFFICES ASSUME isActive'[c], ~Deleting(c)'
             PROVE  /\ status'[c] = "active" =>
                         /\ live'[c] = <<current'[c], versions'[c][current'[c]]>>
                         /\ proc'[c] = live'[c]
                    /\ \A w \in Workers : wpc'[w] \in {"written", "installed"} /\ Config(w)' = c =>
                         /\ live'[c] = <<Target(w)', w>>
                         /\ wpc'[w] = "installed" => proc'[c] = live'[c]
  BY DEF HostFollows
<1>t. /\ live \in [Configs -> Content] /\ proc \in [Configs -> Content]
      /\ versions \in [Configs -> [Versions -> Authors \cup {NoOne}]]
      /\ wpc \in [Workers -> WorkerStates] /\ Workers \subseteq Sessions
  BY DEF Safety, TypeOK, HostTypeOK, StoreTypeOK, WorkerTypeOK, Sessions
<1>h. \A w \in Workers : HostOp(w) => wpc[w] \in {"locked", "stopped", "written"}
  BY DEF HostOp, StopUnit, BuildAndWrite, InstallUnit, InstallRaises
\* The file and the process were right before the step, or c did not exist.
<1>b. \/ /\ status[c] = "active" => /\ live[c] = <<current[c], versions[c][current[c]]>>
                                    /\ proc[c] = live[c]
         /\ \A w \in Workers : wpc[w] \in {"written", "installed"} /\ Config(w) = c =>
              /\ live[c] = <<Target(w), w>>
              /\ wpc[w] = "installed" => proc[c] = live[c]
      \/ status[c] = "none"
  BY DEF DeleteFrame, HostFollows
\* Nobody works on a config that does not exist, and it is not active next.
<1>n. status[c] = "none" => \A w \in Workers : wpc[w] # "idle" => Config(w) # c
  BY TaskInHand DEF NothingBeforeCreate, Config
<1>m. ASSUME NEW w \in Workers, wpc'[w] \in {"written", "installed"}, Config(w)' = c
      PROVE  /\ \/ wpc'[w] = wpc[w] /\ wtask'[w] = wtask[w]
                \/ BuildAndWrite(w) \/ InstallUnit(w)
             /\ wpc[w] # "idle" /\ Config(w) = c /\ Target(w)' = Target(w)
  <2>1. \/ wpc'[w] = wpc[w] /\ wtask'[w] = wtask[w]
        \/ BuildAndWrite(w) \/ InstallUnit(w)
    BY <1>m DEF WriteFrame
  <2>2. wpc[w] # "idle" /\ wtask'[w] = wtask[w]
    BY <2>1, <1>m DEF BuildAndWrite, InstallUnit
  <2> QED
    BY <2>1, <2>2, <1>m, TaskInHand DEF Config, Target
<1>1. ASSUME status'[c] = "active"
      PROVE  live'[c] = <<current'[c], versions'[c][current'[c]]>> /\ proc'[c] = live'[c]
  <2>1. ASSUME NEW w \in Workers, Persist(w), Config(w) = c, current'[c] = Target(w),
               versions'[c] = [versions[c] EXCEPT ![Target(w)] = w]
        PROVE  live'[c] = <<current'[c], versions'[c][current'[c]]>> /\ proc'[c] = live'[c]
    <3>1. wpc[w] = "installed" /\ wpc[w] # "idle" /\ UNCHANGED <<live, proc>>
      BY <2>1 DEF Persist, hostVars
    <3>2. live[c] = <<Target(w), w>> /\ proc[c] = live[c]
      BY <1>b, <1>n, <2>1, <3>1
    <3>3. versions'[c][Target(w)] = w
      BY <2>1, <3>1, <1>t, TaskInHand
    <3> QED BY <2>1, <3>1, <3>2, <3>3
  <2>2. CASE status[c] = "active" /\ versions'[c] = versions[c] /\ current'[c] = current[c]
    <3>1. \A w \in Workers : HostOp(w) => Config(w) # c
      <4> SUFFICES ASSUME NEW w \in Workers, HostOp(w), Config(w) = c PROVE FALSE
        OBVIOUS
      <4>1. wpc[w] \notin {"idle", "ack"} /\ wpc[w] # "idle"
        BY <1>h
      <4>2. ~has_version(c, Target(w))
        BY <4>1 DEF BuiltOnce
      <4>3. wtask[w] \in 1..ntasks
        BY <4>1, TaskInHand
      <4> QED BY <2>2, <4>2, <4>3 DEF ActiveIsUpToDate, Config, Target
    <3>2. live'[c] = live[c] /\ proc'[c] = proc[c]
      BY <3>1 DEF HostFrame
    <3> QED BY <2>2, <3>2, <1>b
  <2> QED BY <1>1, <2>1, <2>2, ActiveInTurn
<1>2. ASSUME NEW w \in Workers, wpc'[w] \in {"written", "installed"}, Config(w)' = c
      PROVE  live'[c] = <<Target(w), w>> /\ (wpc'[w] = "installed" => proc'[c] = live'[c])
  <2>0. wpc[w] # "idle" /\ Config(w) = c /\ status[c] # "none"
    BY <1>2, <1>m, <1>n
  <2>1. CASE BuildAndWrite(w)
    BY <2>0, <2>1, <1>t DEF BuildAndWrite, WriteLive
  <2>2. CASE InstallUnit(w)
    <3>1. wpc[w] = "written" /\ live[c] = <<Target(w), w>>
      BY <2>0, <2>2, <1>b DEF InstallUnit
    <3> QED BY <2>0, <2>2, <3>1, <1>t DEF InstallUnit, install_config_unit
  <2>3. CASE wpc'[w] = wpc[w] /\ ~BuildAndWrite(w) /\ ~InstallUnit(w)
    <3>1. /\ live[c] = <<Target(w), w>>
          /\ wpc[w] = "installed" => proc[c] = live[c]
      BY <1>2, <2>0, <2>3, <1>b
    <3>2. ASSUME NEW u \in Workers, HostOp(u), Config(u) = c PROVE FALSE
      <4>1. wpc[u] \in Building /\ wpc[w] \in Building
        BY <1>2, <2>3, <3>2, <1>h DEF Building
      <4>2. u \in Writers(c) /\ w \in Writers(c)
        BY <4>1, <2>0, <3>2 DEF Writers
      <4>3. u = w
        BY <4>2, <1>t DEF Safety, LockOwned
      <4>4. StopUnit(w) \/ InstallRaises(w)
        BY <3>2, <4>3, <2>3 DEF HostOp
      <4> QED
        BY <4>4, <1>2, <1>t DEF StopUnit, InstallRaises
    <3>3. live'[c] = live[c] /\ proc'[c] = proc[c]
      BY <3>2 DEF HostFrame
    <3> QED BY <2>3, <3>1, <3>3
  <2> QED BY <1>2, <1>m, <2>1, <2>2, <2>3
<1> QED
  BY <1>1, <1>2, <1>m

----------------------------------------------------------------------------
(* The theorems about an undisturbed panel                                  *)

\* A fresh panel serves nothing.
LEMMA InitServing == Init => Serving
<1> SUFFICES ASSUME Init PROVE Serving
  OBVIOUS
<1>1. NobodyEdits
  BY DEF Init, ClientInit, NobodyEdits, EditLocked
<1>2. VersionsHaveTasks /\ NothingBeforeCreate
  BY DEF Init, StoreInit, BrokerInit, ClientInit, VersionsHaveTasks, NothingBeforeCreate, has_version
<1>3. LeasesAreKept
  BY DEF Init, WorkerInit, BrokerInit, LeasesAreKept
<1>4. ASSUME NEW c \in Configs PROVE InTurn(c) /\ BuiltOnce(c) /\ ActiveIsUpToDate(c) /\ HostFollows(c)
  <2>1. InTurn(c)
    BY DEF Init, StoreInit, BrokerInit, ClientInit, InTurn, has_version, Versions
  <2>2. BuiltOnce(c)
    BY DEF Init, StoreInit, BrokerInit, WorkerInit, BuiltOnce
  <2>3. ActiveIsUpToDate(c)
    BY DEF Init, StoreInit, ActiveIsUpToDate
  <2>4. HostFollows(c)
    BY DEF Init, StoreInit, HostFollows
  <2> QED BY <2>1, <2>2, <2>3, <2>4
<1> QED
  BY <1>1, <1>2, <1>3, <1>4 DEF Serving

\* Every step keeps it, when edits are not among the requests.
LEMMA NextServing ==
  ASSUME "edit" \notin Requests, Safety, Safety', Serving, Next PROVE Serving'
<1>t. TypeOK /\ TypeOK'
  BY DEF Safety
<1>f. /\ StoreFrame /\ StatusFrame /\ PayloadFrame /\ PublishFrame
  BY <1>t, ApiFrames, WorkerFrames DEF Next, Frames
<1>s. NobodyEdits /\ VersionsHaveTasks /\ NothingBeforeCreate
  BY DEF Serving
<1>e. NobodyEdits' /\ AskFrame
  BY <1>t, <1>s, EditsExcluded
<1>1. VersionsHaveTasks' /\ NothingBeforeCreate'
  BY <1>f, <1>s, <1>e, TasksOfVersions, CreateComesFirst
<1>2. ASSUME Undisturbed'
      PROVE  /\ LeasesAreKept'
             /\ \A c \in Configs : TargetsDistinct(c)' =>
                  InTurn(c)' /\ BuiltOnce(c)' /\ ActiveIsUpToDate(c)' /\ HostFollows(c)'
  <2>1. Undisturbed /\ UNCHANGED faultsLeft
    <3>1. UNCHANGED faultsLeft \/ Fault
      BY FaultsAreCounted DEF Next, ApiNext, WorkerNext
    <3> QED BY <1>2, <3>1, <1>t DEF Undisturbed, TypeOK, Fault
  <2>2. LeasesAreKept
    BY <2>1 DEF Serving
  <2>3. LeasesAreKept'
    BY <2>1, <2>2, <1>t, LeasesStep
  <2>4. ServeFrames
    <3>1. CASE ApiNext
      BY <3>1, <1>t, <1>s, <2>1, ApiServes
    <3>2. CASE WorkerNext
      BY <3>2, <1>t, <2>1, <2>2, NoFault, NoLeaseExpires, WorkerServes DEF WorkerNext
    <3> QED BY <3>1, <3>2 DEF Next
  <2>5. /\ QueueFrame /\ BusyFrame /\ AskFrame /\ HostFrame /\ WriteFrame /\ DeleteFrame
    BY <2>4 DEF ServeFrames
  <2>6. ASSUME NEW c \in Configs, TargetsDistinct(c)'
        PROVE  InTurn(c)' /\ BuiltOnce(c)' /\ ActiveIsUpToDate(c)' /\ HostFollows(c)'
    <3>1. TargetsDistinct(c)
      BY <2>6, <1>f, DistinctBefore
    <3>2. InTurn(c) /\ BuiltOnce(c) /\ ActiveIsUpToDate(c) /\ HostFollows(c)
      BY <3>1, <2>1 DEF Serving
    <3>3. InTurn(c)'
      BY <1>t, <1>f, <1>s, <3>2, InTurnStep
    <3>4. BuiltOnce(c)'
      BY <1>t, <1>f, <1>s, <2>2, <2>5, <2>6, <3>2, BuiltOnceStep
    <3>5. ActiveIsUpToDate(c)'
      BY <1>t, <1>f, <1>s, <2>5, <3>2, UpToDateStep
    <3>6. HostFollows(c)'
      BY <1>f, <1>s, <2>5, <3>2, HostStep
    <3> QED BY <3>3, <3>4, <3>5, <3>6
  <2> QED BY <2>3, <2>6
<1> QED
  BY <1>e, <1>1, <1>2 DEF Serving

\* What is served stays while nothing happens.
LEMMA StutterServing == Serving /\ UNCHANGED vars => Serving'
<1> SUFFICES ASSUME Serving, UNCHANGED vars PROVE Serving'
  OBVIOUS
<1>1. UNCHANGED <<dbVars, hostVars, brokerVars, clientVars, workerVars, faultsLeft>>
  BY DEF vars
<1>2. NobodyEdits' /\ VersionsHaveTasks' /\ NothingBeforeCreate'
  BY <1>1 DEF Serving, NobodyEdits, VersionsHaveTasks, NothingBeforeCreate, has_version,
     dbVars, brokerVars, clientVars
<1>3. (Undisturbed => LeasesAreKept)'
  BY <1>1 DEF Serving, Undisturbed, LeasesAreKept, Holds, brokerVars, workerVars
<1>4. ASSUME NEW c \in Configs
      PROVE  /\ TargetsDistinct(c)' <=> TargetsDistinct(c)
             /\ InTurn(c) => InTurn(c)'
             /\ BuiltOnce(c) => BuiltOnce(c)'
             /\ ActiveIsUpToDate(c) => ActiveIsUpToDate(c)'
             /\ HostFollows(c) => HostFollows(c)'
  BY <1>1 DEF TargetsDistinct, InTurn, BuiltOnce, ActiveIsUpToDate, HostFollows, Deleting,
     has_version, Config, Target, dbVars, hostVars, brokerVars, clientVars, workerVars
<1>5. Undisturbed' <=> Undisturbed
  BY <1>1 DEF Undisturbed
<1> QED
  BY <1>2, <1>3, <1>4, <1>5 DEF Serving

\* Until a process dies or a call to the broker breaks, and where nobody edits
\* config_data, an active config runs the snapshot its current version stores,
\* however its builds fail, its retries and requests interleave and however many
\* workers, requests and versions there are.
THEOREM ActiveIsServed ==
  ASSUME "edit" \notin Requests PROVE Spec => [](Undisturbed => ServesWhatItStores)
<1>1. Safety /\ Safety' /\ Serving /\ [Next]_vars => Serving'
  BY NextServing, StutterServing
<1>2. Serving => (Undisturbed => ServesWhatItStores)
  <2> SUFFICES ASSUME Serving, Undisturbed, NEW c \in Configs,
                      isActive[c], status[c] = "active", Quiet(c), TargetsDistinct(c)
               PROVE  /\ proc[c] = <<current[c], versions[c][current[c]]>>
                      /\ live[c] = proc[c]
    BY DEF ServesWhatItStores
  <2>1. HostFollows(c) /\ ~Deleting(c)
    BY DEF Serving, Quiet, Deleting
  <2> QED BY <2>1 DEF HostFollows
<1> QED
  BY <1>1, <1>2, InitServing, SafetyHolds, PTL DEF Spec

\* The same where nothing dies or breaks at all, as the run has it.
THEOREM ActiveIsServedWithoutFaults ==
  ASSUME "edit" \notin Requests, MaxFaults = 0 PROVE Spec => []ServesWhatItStores
<1>1. TypeOK => Undisturbed
  BY DEF TypeOK, Undisturbed
<1> QED
  BY <1>1, ActiveIsServed, TypeCorrect, PTL

=============================================================================
