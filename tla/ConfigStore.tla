---------------------------- MODULE ConfigStore ----------------------------
(***************************************************************************)
(* The tables vpn_configs and vpn_config_versions as PostgreSQL holds them *)
(* between transactions (models.py, repositories/vpn_config.py).  Every    *)
(* variable is COMMITTED state: what a SELECT of another session sees.     *)
(*                                                                         *)
(* Sessions run at READ COMMITTED.  A SELECT never waits.  An UPDATE of a  *)
(* vpn_configs row takes its row lock and keeps it until the transaction   *)
(* ends; every setter of the repository assigns updated_at, so every       *)
(* setter ends in an UPDATE.  The ORM writes only the columns whose new    *)
(* value differs from the value the session LOADED, which may no longer be *)
(* the value in the row: Written below.                                    *)
(***************************************************************************)
EXTENDS Integers

CONSTANTS
  Configs,     \* the config ids uuid4 can hand out
  Workers,     \* the vpn-worker@N instances
  Clients,     \* API requests that may be in flight together
  Edits,       \* config_data bodies an administrator may submit
  NoOne,       \* SQL NULL, a free lock, an absent row
  MaxVersion   \* bound: versions a config may reach

ASSUME StoreAssumption ==
  /\ MaxVersion \in Nat \ {0}
  /\ NoOne \notin Configs \cup Workers \cup Clients \cup Edits
  /\ Workers \cap Clients = {}
  /\ Workers \cap Edits = {}

VARIABLES
  status,      \* vpn_configs.status; "none" while the row does not exist
  current,     \* vpn_configs.current_version; 0 is NULL
  errmsg,      \* vpn_configs.error_message IS NOT NULL
  isActive,    \* vpn_configs.is_active (FALSE is soft-deleted)
  lastTask,    \* vpn_configs.last_task_id; 0 is NULL
  versions,    \* vpn_config_versions: who wrote the snapshot of version v,
               \*   NoOne where there is no such row
  rowLock      \* the open transaction that has updated the vpn_configs row

dbVars == <<status, current, errmsg, isActive, lastTask, versions, rowLock>>

Versions == 1..MaxVersion

\* A snapshot is identified by who wrote it: the builds of two workers differ
\* (keys are generated anew; two builds of one version by one worker are not
\* told apart), two edits agree when the same body was submitted.
Authors == Workers \cup Edits

Statuses == {"none", "pending", "processing", "active", "failed"}

Sessions == Workers \cup Clients

\* What a session remembers of the row it loaded.
LoadedRow == [status : Statuses, current : 0..MaxVersion, errmsg : BOOLEAN]

StoreTypeOK ==
  /\ status   \in [Configs -> Statuses]
  /\ current  \in [Configs -> 0..MaxVersion]
  /\ errmsg   \in [Configs -> BOOLEAN]
  /\ isActive \in [Configs -> BOOLEAN]
  /\ lastTask \in [Configs -> Nat]
  /\ versions \in [Configs -> [Versions -> Authors \cup {NoOne}]]
  /\ rowLock  \in [Configs -> Sessions \cup {NoOne}]

StoreInit ==
  /\ status   = [c \in Configs |-> "none"]
  /\ current  = [c \in Configs |-> 0]
  /\ errmsg   = [c \in Configs |-> FALSE]
  /\ isActive = [c \in Configs |-> FALSE]
  /\ lastTask = [c \in Configs |-> 0]
  /\ versions = [c \in Configs |-> [v \in Versions |-> NoOne]]
  /\ rowLock  = [c \in Configs |-> NoOne]

----------------------------------------------------------------------------

\* repo.has_version
has_version(c, v) == versions[c][v] # NoOne

\* "Config is busy" of regenerate and of the config_data editor, and the same
\* test in prepare_regenerate.
Busy(c) == status[c] \in {"pending", "processing"}

\* repo._get_model(..., active_only=True) finds the row.
Visible(c) == isActive[c]

\* The columns a later flush may have to compare with.
Loaded(c) == [status |-> status[c], current |-> current[c], errmsg |-> errmsg[c]]

\* The value of a column after a flush: the ORM issues the assignment only
\* when it changes the loaded value, otherwise the stored value stays.
Written(loaded, new, stored) == IF new = loaded THEN stored ELSE new

\* create_pending, flushed and committed.
create_pending(c) ==
  /\ status'   = [status   EXCEPT ![c] = "pending"]
  /\ isActive' = [isActive EXCEPT ![c] = TRUE]
  /\ UNCHANGED <<current, errmsg, lastTask, versions, rowLock>>

\* prepare_regenerate flushed by the SELECT of get_regenerate_context, then
\* committed.  The loaded status was "active" or "failed", so it is written.
prepare_regenerate(c, sawError) ==
  /\ status' = [status EXCEPT ![c] = "pending"]
  /\ errmsg' = [errmsg EXCEPT ![c] = Written(sawError, FALSE, @)]
  /\ UNCHANGED <<current, isActive, lastTask, versions, rowLock>>

\* mark_active of the idempotent path: a flush of the row loaded earlier.
mark_active(c, v, row) ==
  /\ status'  = [status  EXCEPT ![c] = Written(row.status, "active", @)]
  /\ current' = [current EXCEPT ![c] = Written(row.current, v, @)]
  /\ errmsg'  = [errmsg  EXCEPT ![c] = Written(row.errmsg, FALSE, @)]
  /\ UNCHANGED <<isActive, lastTask, versions, rowLock>>

\* Mutant: mark_active forgets current_version.
commit_version_NoCurrent(c, v, author) ==
  /\ versions' = [versions EXCEPT ![c][v] = author]
  /\ status'   = [status   EXCEPT ![c] = "active"]
  /\ errmsg'   = [errmsg   EXCEPT ![c] = FALSE]
  /\ rowLock'  = [rowLock  EXCEPT ![c] = NoOne]
  /\ UNCHANGED <<current, isActive, lastTask>>

\* insert_version and mark_active committed by a transaction that holds the
\* row lock: mark_active re-reads the row under the lock, so every column is
\* what it assigns.
commit_version(c, v, author) ==
  /\ versions' = [versions EXCEPT ![c][v] = author]
  /\ status'   = [status   EXCEPT ![c] = "active"]
  /\ current'  = [current  EXCEPT ![c] = v]
  /\ errmsg'   = [errmsg   EXCEPT ![c] = FALSE]
  /\ rowLock'  = [rowLock  EXCEPT ![c] = NoOne]
  /\ UNCHANGED <<isActive, lastTask>>

\* Mutant: a failure resets current_version.
mark_failed_ResetsCurrent(c, row, sameMessage) ==
  /\ status'  = [status  EXCEPT ![c] = Written(row.status, "failed", @)]
  /\ errmsg'  = [errmsg  EXCEPT ![c] = IF row.errmsg /\ sameMessage THEN @ ELSE TRUE]
  /\ current' = [current EXCEPT ![c] = 0]
  /\ UNCHANGED <<isActive, lastTask, versions, rowLock>>

\* mark_failed, flushed and committed.  The new message may equal the loaded
\* one, and is then not written.
mark_failed(c, row, sameMessage) ==
  /\ status' = [status EXCEPT ![c] = Written(row.status, "failed", @)]
  /\ errmsg' = [errmsg EXCEPT ![c] = IF row.errmsg /\ sameMessage THEN @ ELSE TRUE]
  /\ UNCHANGED <<current, isActive, lastTask, versions, rowLock>>

\* set_last_task_id, flushed and committed.
set_last_task_id(c, t) ==
  /\ lastTask' = [lastTask EXCEPT ![c] = t]
  /\ UNCHANGED <<status, current, errmsg, isActive, versions, rowLock>>

\* soft_delete, flushed and committed.
soft_delete(c) ==
  /\ isActive' = [isActive EXCEPT ![c] = FALSE]
  /\ UNCHANGED <<status, current, errmsg, lastTask, versions, rowLock>>

\* update_version_config_data, committed by the router while the row is locked.
update_version_config_data(c, v, body) ==
  /\ versions' = [versions EXCEPT ![c][v] = body]
  /\ rowLock'  = [rowLock  EXCEPT ![c] = NoOne]
  /\ UNCHANGED <<status, current, errmsg, isActive, lastTask>>

\* Mutant: nothing is flushed before the build, so nobody waits.
LockRow_NoWait(c, s) ==
  /\ rowLock' = [rowLock EXCEPT ![c] = s]
  /\ UNCHANGED <<status, current, errmsg, isActive, lastTask, versions>>

\* The first flushed UPDATE of a transaction that goes on to do more work.
LockRow(c, s) ==
  /\ rowLock[c] = NoOne
  /\ rowLock' = [rowLock EXCEPT ![c] = s]
  /\ UNCHANGED <<status, current, errmsg, isActive, lastTask, versions>>

\* Mutant: the session of a failed build is never closed.
Rollback_KeepsLock(s) == UNCHANGED dbVars

\* A rollback: nothing of the transaction is left but the lock it gives back.
Rollback(s) ==
  /\ rowLock' = [c \in Configs |-> IF rowLock[c] = s THEN NoOne ELSE rowLock[c]]
  /\ UNCHANGED <<status, current, errmsg, isActive, lastTask, versions>>

=============================================================================
