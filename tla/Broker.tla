------------------------------- MODULE Broker -------------------------------
(***************************************************************************)
(* The task broker, seen through infrastructure/broker/http_client.py.     *)
(* The broker is the external library task-broker; broker_run/ only starts *)
(* it.  It keeps every task (PENDING, PROCESSING, COMPLETED, DEAD), leases *)
(* a pulled task to a worker for lock_ttl_seconds, and hands it out again  *)
(* when the lease is neither renewed nor released: delivery is at least    *)
(* once.                                                                   *)
(***************************************************************************)
EXTENDS ConfigStore

CONSTANTS
  MaxTasks,    \* bound: tasks ever published
  MaxRetries,  \* default_max_retries of broker.yaml
  MaxFaults    \* bound: faults in one behaviour (see faultsLeft)

ASSUME BrokerAssumption ==
  MaxTasks \in Nat \ {0} /\ MaxRetries \in Nat /\ MaxFaults \in Nat

VARIABLES
  ntasks,      \* tasks published so far; the ids are 1..ntasks
  taskState,
  taskConfig,  \* payload.config_id
  taskTarget,  \* payload.target_version
  taskHolder,  \* the worker that holds the lease
  taskRetries,
  faultsLeft   \* how many more times a process may die, a call to the broker
               \*   break, or the error path of a handler fail itself

brokerVars == <<ntasks, taskState, taskConfig, taskTarget, taskHolder, taskRetries>>

Tasks == 1..MaxTasks

TaskStates == {"NONE", "PENDING", "PROCESSING", "COMPLETED", "DEAD"}

BrokerTypeOK ==
  /\ ntasks      \in 0..MaxTasks
  /\ taskState   \in [Tasks -> TaskStates]
  /\ taskConfig  \in [Tasks -> Configs \cup {NoOne}]
  /\ taskTarget  \in [Tasks -> 0..MaxVersion]
  /\ taskHolder  \in [Tasks -> Workers \cup {NoOne}]
  /\ taskRetries \in [Tasks -> 0..MaxRetries]
  /\ \A t \in Tasks : /\ taskState[t] = "NONE" <=> t > ntasks
                      /\ t <= ntasks => /\ taskConfig[t] \in Configs
                                        /\ taskTarget[t] \in Versions

BrokerInit ==
  /\ ntasks      = 0
  /\ taskState   = [t \in Tasks |-> "NONE"]
  /\ taskConfig  = [t \in Tasks |-> NoOne]
  /\ taskTarget  = [t \in Tasks |-> 0]
  /\ taskHolder  = [t \in Tasks |-> NoOne]
  /\ taskRetries = [t \in Tasks |-> 0]

----------------------------------------------------------------------------

\* Processes die, answers get lost and mark_failed raises at any time,
\* MaxFaults times in all.
Fault == faultsLeft > 0 /\ faultsLeft' = faultsLeft - 1

\* POST /tasks: the task gets the next id.
publish_task(c, v) ==
  /\ ntasks < MaxTasks
  /\ ntasks' = ntasks + 1
  /\ taskState'  = [taskState  EXCEPT ![ntasks + 1] = "PENDING"]
  /\ taskConfig' = [taskConfig EXCEPT ![ntasks + 1] = c]
  /\ taskTarget' = [taskTarget EXCEPT ![ntasks + 1] = v]
  /\ UNCHANGED <<taskHolder, taskRetries>>

\* GET /tasks/pull: a pending task is leased to the worker that asks.  Which
\* pending task comes first is the broker's choice (retry delays reorder).
pull(w, t) ==
  /\ taskState[t] = "PENDING"
  /\ taskState'  = [taskState  EXCEPT ![t] = "PROCESSING"]
  /\ taskHolder' = [taskHolder EXCEPT ![t] = w]
  /\ UNCHANGED <<ntasks, taskConfig, taskTarget, taskRetries>>

\* The broker refuses (4xx, raised by raise_for_status) whoever does not hold
\* the lease.
Holds(w, t) == taskState[t] = "PROCESSING" /\ taskHolder[t] = w

\* POST /tasks/{id}/ack by the holder.
ack(w, t) ==
  /\ taskState'  = [taskState  EXCEPT ![t] = "COMPLETED"]
  /\ taskHolder' = [taskHolder EXCEPT ![t] = NoOne]
  /\ UNCHANGED <<ntasks, taskConfig, taskTarget, taskRetries>>

\* Mutant: one retry more than default_max_retries.
nack_OneMore(w, t) ==
  /\ IF taskRetries[t] <= MaxRetries
       THEN /\ taskState'   = [taskState   EXCEPT ![t] = "PENDING"]
            /\ taskRetries' = [taskRetries EXCEPT ![t] = @ + 1]
       ELSE /\ taskState'   = [taskState   EXCEPT ![t] = "DEAD"]
            /\ UNCHANGED taskRetries
  /\ taskHolder' = [taskHolder EXCEPT ![t] = NoOne]
  /\ UNCHANGED <<ntasks, taskConfig, taskTarget>>

\* Mutant: retries are not counted.
nack_Uncounted(w, t) ==
  /\ taskState'  = [taskState  EXCEPT ![t] = "PENDING"]
  /\ taskHolder' = [taskHolder EXCEPT ![t] = NoOne]
  /\ UNCHANGED <<ntasks, taskConfig, taskTarget, taskRetries>>

\* POST /tasks/{id}/nack by the holder: another try while retries are left.
nack(w, t) ==
  /\ IF taskRetries[t] < MaxRetries
       THEN /\ taskState'   = [taskState   EXCEPT ![t] = "PENDING"]
            /\ taskRetries' = [taskRetries EXCEPT ![t] = @ + 1]
       ELSE /\ taskState'   = [taskState   EXCEPT ![t] = "DEAD"]
            /\ UNCHANGED taskRetries
  /\ taskHolder' = [taskHolder EXCEPT ![t] = NoOne]
  /\ UNCHANGED <<ntasks, taskConfig, taskTarget>>

\* lock_ttl_seconds passed without a heartbeat: the task is up for pull again.
LeaseRunsOut(t) ==
  /\ taskState[t] = "PROCESSING"
  /\ taskState'  = [taskState  EXCEPT ![t] = "PENDING"]
  /\ taskHolder' = [taskHolder EXCEPT ![t] = NoOne]
  /\ UNCHANGED <<ntasks, taskConfig, taskTarget, taskRetries>>

=============================================================================
