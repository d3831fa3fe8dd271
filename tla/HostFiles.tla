------------------------------ MODULE HostFiles ------------------------------
(***************************************************************************)
(* What a config owns on the host when systemd.per_config is set: the live *)
(* config file, the unit file vpn-{config_id}.service and the VPN process  *)
(* the unit runs (config_builder.write_files, systemd_unit.py).  None of   *)
(* it is transactional: a database rollback leaves it as it is.            *)
(***************************************************************************)
EXTENDS ConfigStore

VARIABLES
  live,        \* the snapshot in the live config file
  unit,        \* the unit file exists
  proc         \* the snapshot the running VPN process was started with

hostVars == <<live, unit, proc>>

\* A snapshot on the host: a version and who wrote it.
Content == (0..MaxVersion) \X (Authors \cup {NoOne})

Nothing == <<0, NoOne>>

HostTypeOK ==
  /\ live \in [Configs -> Content]
  /\ unit \in [Configs -> BOOLEAN]
  /\ proc \in [Configs -> Content]

HostInit ==
  /\ live = [c \in Configs |-> Nothing]
  /\ unit = [c \in Configs |-> FALSE]
  /\ proc = [c \in Configs |-> Nothing]

\* write_files up to and including atomic_write(live_path, body).
WriteLive(c, v, author) ==
  /\ live' = [live EXCEPT ![c] = <<v, author>>]
  /\ UNCHANGED <<unit, proc>>

\* Mutant: the unit that already runs is not restarted.
install_config_unit_NoRestart(c) ==
  /\ live[c] # Nothing
  /\ unit' = [unit EXCEPT ![c] = TRUE]
  /\ proc' = [proc EXCEPT ![c] = IF @ = Nothing THEN live[c] ELSE @]
  /\ UNCHANGED live

\* install_config_unit returns: the unit is written, enabled and restarted,
\* and wait_for_service_ready saw the service come up.  It cannot come up
\* without its config file.
install_config_unit(c) ==
  /\ live[c] # Nothing
  /\ unit' = [unit EXCEPT ![c] = TRUE]
  /\ proc' = [proc EXCEPT ![c] = live[c]]
  /\ UNCHANGED live

\* install_config_unit raises after the restart: the service did not come up.
install_config_unit_raises(c) ==
  /\ unit' = [unit EXCEPT ![c] = TRUE]
  /\ proc' = [proc EXCEPT ![c] = Nothing]
  /\ UNCHANGED live

\* stop_config_unit
stop_config_unit(c) ==
  /\ proc' = [proc EXCEPT ![c] = Nothing]
  /\ UNCHANGED <<live, unit>>

\* remove_config_unit up to daemon-reload: the unit is stopped and unlinked.
\* Without a unit file it returns at once and leaves the live directory.
remove_config_unit(c) ==
  /\ unit[c]
  /\ unit' = [unit EXCEPT ![c] = FALSE]
  /\ proc' = [proc EXCEPT ![c] = Nothing]
  /\ UNCHANGED live

\* Its last statement: rmtree of the live directory.
remove_live_dir(c) ==
  /\ live' = [live EXCEPT ![c] = Nothing]
  /\ UNCHANGED <<unit, proc>>

=============================================================================
