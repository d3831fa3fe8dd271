----------------------------- MODULE HostBuilds -----------------------------
(***************************************************************************)
(* Builds of several configs on one host: what build_and_persist_version   *)
(* (worker/services/config_build.py) and write_files (config_builder.py)   *)
(* read and write that is not of one config alone, the listening ports and *)
(* the stream map of port 443.  The row lock keeps two builds of a config  *)
(* apart; builds of different configs run in as many workers as there are. *)
(***************************************************************************)
EXTENDS Shared443, FiniteSets

CONSTANTS
  Configs,       \* numbers, in the order of the live paths
  Ports,         \* port_candidates
  PublicPorts,   \* what panel.yaml may have as Hysteria 2's share_public_port
  PanelPort,     \* the panel's own, server.port
  Hosts,         \* the host a TLS config is asked for by
  MaxWorkers, MaxBuilds, MaxFaults    \* bounds: workers, builds begun, deaths

ASSUME HostBuildsAssumption ==
  /\ Configs \subseteq Nat /\ IsFiniteSet(Configs)
  /\ Ports \subseteq Nat \ {NoPort} /\ IsFiniteSet(Ports)
  /\ PublicPorts \subseteq Nat /\ PanelPort \in Nat \ {NoPort}
  /\ Hosts \subseteq Snis
  /\ MaxWorkers \in Nat /\ MaxBuilds \in Nat /\ MaxFaults \in Nat

VARIABLES
  workers,       \* how many worker processes are installed
  profile, host, \* of each config, given when it is created
  status,        \* vpn_configs.status, "deleted" for is_active false
  stored,        \* the ports of the versions, the current one and those before
  current,       \* the port of the current version
  live, unit,    \* the live file, and whether the unit file exists
  proc,          \* the port the VPN process of the config is bound to
  mux,           \* the stream map nginx runs with
  at,            \* how far the build of the config is
  reads,         \* of a build: ports in use, the chosen port, the live files
  synced,        \* no live file has changed since the map was last made
  builds, faults

dbVars   == <<profile, host, status, stored, current>>
hostVars == <<live, unit, proc, mux, synced>>
vars     == <<workers, dbVars, hostVars, at, reads, builds, faults>>

Steps == {"idle", "start", "stop", "pick", "unit", "scan", "reload", "commit"}

NoReads == [used |-> {}, keep |-> NoPort, port |-> NoPort, seen |-> <<>>]

Init ==
  /\ workers \in 1..MaxWorkers
  /\ profile \in [Configs -> Profiles]
  /\ host    \in [Configs -> Hosts \cup {""}]
  /\ \A c \in Configs : host[c] = "" <=> profile[c] = Reality
  /\ status  = [c \in Configs |-> "absent"]
  /\ stored  = [c \in Configs |-> {}]
  /\ current = [c \in Configs |-> NoPort]
  /\ live    = [c \in Configs |-> NoFile]
  /\ unit    = [c \in Configs |-> FALSE]
  /\ proc    = [c \in Configs |-> NoPort]
  /\ mux     = [sni \in Snis |-> Panel]
  /\ at      = [c \in Configs |-> "idle"]
  /\ reads   = [c \in Configs |-> NoReads]
  /\ synced = TRUE /\ builds = 0 /\ faults = 0

Building(c) == at[c] # "idle"

Goto(c, step) == at' = [at EXCEPT ![c] = step]

\* Ports of one transport collide.
SameTransport(c, d) == profile[c] = Hysteria2 <=> profile[d] = Hysteria2

\* The ports bind() accepts for a socket of c's transport; the panel listens on
\* TCP.
Open(c) ==
  {p \in Ports : /\ p = PanelPort => profile[c] = Hysteria2
                 /\ \A d \in Configs : SameTransport(c, d) => proc[d] # p}

----------------------------------------------------------------------------
(* Requests and tasks                                                       *)

\* Mutant: a config that is regenerated stays active.
Start_StaysActive(c) ==
  /\ status[c] # "deleted" /\ ~Building(c)
  /\ Cardinality({d \in Configs : Building(d)}) < workers
  /\ builds < MaxBuilds /\ builds' = builds + 1
  /\ status' = [status EXCEPT ![c] = IF @ = "absent" THEN "pending" ELSE @]
  /\ Goto(c, "start")
  /\ UNCHANGED <<workers, profile, host, stored, current, hostVars, reads, faults>>

\* Create or regenerate is committed and published (create_pending,
\* prepare_regenerate) and a free worker takes the task; or the task of a build
\* that ended in an error, or with its worker, comes again (to find "failed",
\* which is as inactive as pending).
Start(c) ==
  /\ status[c] # "deleted" /\ ~Building(c)
  /\ Cardinality({d \in Configs : Building(d)}) < workers
  /\ builds < MaxBuilds /\ builds' = builds + 1
  /\ status' = [status EXCEPT ![c] = "pending"]
  /\ Goto(c, "start")
  /\ UNCHANGED <<workers, profile, host, stored, current, hostVars, reads, faults>>

\* DELETE: remove_config_unit stops and unlinks the unit and removes the live
\* directory; without a unit file it does neither.  The map is not made again.
\* (A delete during a build of the config is in Panel.)
Delete(c) ==
  /\ status[c] \in {"pending", "active", "failed"} /\ ~Building(c)
  /\ status' = [status EXCEPT ![c] = "deleted"]
  /\ IF unit[c]
       THEN /\ live'   = [live EXCEPT ![c] = NoFile]
            /\ unit'   = [unit EXCEPT ![c] = FALSE]
            /\ proc'   = [proc EXCEPT ![c] = NoPort]
            /\ synced' = (synced /\ profile[c] \notin MuxProfiles)
       ELSE UNCHANGED <<live, unit, proc, synced>>
  /\ UNCHANGED <<workers, profile, host, stored, current, mux, at, reads, builds, faults>>

----------------------------------------------------------------------------
(* One build                                                                *)

\* list_used_ports: the ports of every version of every other config, deleted
\* ones too.  The last port is kept or one more to avoid (rotate_port).
ReadPorts(c) ==
  /\ at[c] = "start"
  /\ \E rotate \in BOOLEAN :
       LET others == UNION {stored[d] : d \in Configs \ {c}}
       IN  reads' = [reads EXCEPT
                       ![c].used = IF rotate THEN others \cup {current[c]} ELSE others,
                       ![c].keep = IF rotate THEN NoPort ELSE current[c]]
  /\ Goto(c, "stop")
  /\ UNCHANGED <<workers, dbVars, hostVars, builds, faults>>

\* stop_config_unit, unless it is the first version.
StopUnit(c) ==
  /\ at[c] = "stop"
  /\ proc' = IF current[c] = NoPort THEN proc ELSE [proc EXCEPT ![c] = NoPort]
  /\ Goto(c, "pick")
  /\ UNCHANGED <<workers, dbVars, live, unit, mux, synced, reads, builds, faults>>

\* The live file of c on port p.
FileOf(c, p) == [profile |-> profile[c], port |-> p, sni |-> host[c]]

WriteFile(c, p) ==
  /\ live'   = [live EXCEPT ![c] = FileOf(c, p)]
  /\ synced' = (synced /\ profile[c] \notin MuxProfiles)

\* The port asked for: the last one if it is kept, else for Hysteria 2 the public
\* port of the profile, if there is one.
Preferred(c) ==
  IF profile[c] = Hysteria2 /\ reads[c].keep = NoPort
    THEN PublicPorts \cup {NoPort}
    ELSE {reads[c].keep}

\* The ports to avoid: only Hysteria 2 takes care of the panel's.
Excluded(c) == reads[c].used \cup {p \in {PanelPort} : profile[c] = Hysteria2}

\* builder.build and write_files up to atomic_write(live_path, body); with no
\* port to pick it raises.
BuildAndWrite(c) ==
  /\ at[c] = "pick"
  /\ \E wanted \in Preferred(c) : \E p \in pick_port(Ports, Excluded(c), Open(c), wanted) :
       /\ reads' = [reads EXCEPT ![c] = [NoReads EXCEPT !.port = p]]
       /\ WriteFile(c, p)
  /\ Goto(c, "unit")
  /\ UNCHANGED <<workers, dbVars, unit, proc, mux, builds, faults>>

\* Mutant: the shared 443 is only Reality's and xHTTP's, as its docstring says.
InstallUnit_NoGrpcSync(c) ==
  /\ at[c] = "unit" /\ reads[c].port \in Open(c) \cup {proc[c]}
  /\ unit' = [unit EXCEPT ![c] = TRUE]
  /\ proc' = [proc EXCEPT ![c] = reads[c].port]
  /\ Goto(c, IF profile[c] \in {Hysteria2, Grpc} THEN "commit" ELSE "scan")
  /\ UNCHANGED <<workers, dbVars, live, mux, synced, reads, builds, faults>>

\* install_config_unit: the restarted process binds the port and gets ready.
InstallUnit(c) ==
  /\ at[c] = "unit" /\ reads[c].port \in Open(c) \cup {proc[c]}
  /\ unit' = [unit EXCEPT ![c] = TRUE]
  /\ proc' = [proc EXCEPT ![c] = reads[c].port]
  /\ Goto(c, IF profile[c] = Hysteria2 THEN "commit" ELSE "scan")
  /\ UNCHANGED <<workers, dbVars, live, mux, synced, reads, builds, faults>>

\* sync_reality_shared_443 reads the live files ...
Scan(c) ==
  /\ at[c] = "scan"
  /\ reads' = [reads EXCEPT ![c].seen = live]
  /\ Goto(c, "reload")
  /\ UNCHANGED <<workers, dbVars, hostVars, builds, faults>>

\* ... and writes the map for nginx to reload.
Reload(c) ==
  /\ at[c] = "reload"
  /\ mux'    = StreamMap(reads[c].seen, c)
  /\ synced' = (reads[c].seen = live)
  /\ reads'  = [reads EXCEPT ![c].seen = <<>>]
  /\ Goto(c, "commit")
  /\ UNCHANGED <<workers, dbVars, live, unit, proc, builds, faults>>

\* insert_version, mark_active and the commit.
Commit(c) ==
  /\ at[c] = "commit"
  /\ status'  = [status  EXCEPT ![c] = "active"]
  /\ stored'  = [stored  EXCEPT ![c] = @ \cup {reads[c].port}]
  /\ current' = [current EXCEPT ![c] = reads[c].port]
  /\ reads'   = [reads   EXCEPT ![c] = NoReads]
  /\ Goto(c, "idle")
  /\ UNCHANGED <<workers, profile, host, hostVars, builds, faults>>

\* The build raises: no port, a service that does not get ready, a file or a
\* command that fails, before or after its effect.  mark_failed.
Raise(c) ==
  /\ at[c] \in {"pick", "unit", "scan", "reload", "commit"}
  /\ \/ UNCHANGED <<unit, proc>>
     \/ /\ at[c] = "unit"
        /\ unit' = [unit EXCEPT ![c] = TRUE]
        /\ proc' = [proc EXCEPT ![c] = NoPort]
  /\ status' = [status EXCEPT ![c] = "failed"]
  /\ reads'  = [reads EXCEPT ![c] = NoReads]
  /\ Goto(c, "idle")
  /\ UNCHANGED <<workers, profile, host, stored, current, live, mux, synced, builds, faults>>

Fault == faults < MaxFaults /\ faults' = faults + 1

\* The worker dies; its transaction is rolled back.
WorkerDies(c) ==
  /\ Building(c)
  /\ Fault
  /\ reads'  = [reads EXCEPT ![c] = NoReads]
  /\ Goto(c, "idle")
  /\ UNCHANGED <<workers, dbVars, hostVars, builds>>

\* The VPN process dies; the unit has no Restart=.
ServiceDies(c) ==
  /\ proc[c] # NoPort
  /\ Fault
  /\ proc' = [proc EXCEPT ![c] = NoPort]
  /\ UNCHANGED <<workers, dbVars, live, unit, mux, synced, at, reads, builds>>

Next ==
  \E c \in Configs :
    \/ Start(c) \/ Delete(c)
    \/ ReadPorts(c) \/ StopUnit(c) \/ BuildAndWrite(c) \/ InstallUnit(c)
    \/ Scan(c) \/ Reload(c) \/ Commit(c) \/ Raise(c)
    \/ WorkerDies(c) \/ ServiceDies(c)

Spec == Init /\ [][Next]_vars

----------------------------------------------------------------------------

\* list_used_ports is read without a lock and bind() is tried long before the
\* service binds, yet of an active config that runs, the port its links name is
\* its own: the process listens there and no other process of the transport.
ActiveOwnsItsPort ==
  \A c \in Configs : status[c] = "active" /\ proc[c] # NoPort =>
    /\ proc[c] = current[c]
    /\ \A d \in Configs \ {c} : SameTransport(c, d) => proc[d] # current[c]

\* Nothing but this config ever claimed its host or its backend.
Unrivalled(c) ==
  \A d \in Configs \ {c} :
    /\ profile[d] # Hysteria2 => host[d] # host[c] /\ live[d].port # live[c].port
    /\ profile[c] = Reality => profile[d] # Reality
    /\ profile[c] = Reality => host[d] \notin RealitySnis

\* The names a config is to be reached by.
NamesOf(c) == IF profile[c] = Reality THEN RealitySnis ELSE {host[c]}

\* Every config of a host is built, and one worker built them.
AllBuilt == workers = 1 /\ \A c \in Configs : status[c] \in {"absent", "active"}

\* The map routes every active config that nobody else claims the name or the
\* backend of, whichever was built last: when it was made of the live files as
\* they are, and always when one worker has built all there is.
RoutesCoverActive ==
  synced \/ AllBuilt =>
    \A c \in Configs :
      status[c] = "active" /\ profile[c] \in MuxProfiles /\ Unrivalled(c) =>
        \A sni \in NamesOf(c) \ PanelSnis : mux[sni] = current[c]

\* And whatever it routes it routes to a config that claims the name.
RoutesAreClaimed ==
  synced \/ AllBuilt =>
    \A sni \in Snis : mux[sni] # Panel =>
      /\ sni \notin PanelSnis
      /\ \E c \in Configs : live[c].port = mux[sni] /\ sni \in NamesOf(c)

----------------------------------------------------------------------------
(* What ActiveOwnsItsPort rests on                                          *)

\* Every variable a port goes through holds what the code can store in it.
HostTypeOK ==
  /\ profile \in [Configs -> Profiles]
  /\ status  \in [Configs -> {"absent", "pending", "active", "failed", "deleted"}]
  /\ stored  \in [Configs -> SUBSET Ports]
  /\ current \in [Configs -> Ports \cup {NoPort}]
  /\ proc    \in [Configs -> Ports \cup {NoPort}]
  /\ at      \in [Configs -> Steps]
  /\ DOMAIN reads = Configs
  /\ \A c \in Configs : /\ DOMAIN reads[c] = DOMAIN NoReads
                       /\ reads[c].keep \in Ports \cup {NoPort}

\* The build of c has written its live file.
Written(c) == at[c] \in {"unit", "scan", "reload", "commit"}

\* While a config is built it is pending, and once the file is written its port
\* is chosen.
BuildsArePending ==
  \A c \in Configs :
    /\ Building(c) => status[c] = "pending"
    /\ Written(c) => reads[c].port \in Ports

\* bind() gives a port of a transport to one process.
NoPortIsShared ==
  \A c, d \in Configs : c # d /\ SameTransport(c, d) /\ proc[c] # NoPort => proc[c] # proc[d]

\* A process that runs is of the version that is stored, or about to be.
ProcessIsCurrent ==
  \A c \in Configs : proc[c] # NoPort =>
    /\ status[c] = "active" => proc[c] = current[c]
    /\ at[c] \in {"scan", "reload", "commit"} => proc[c] = reads[c].port

\* The inductive invariant.
HostSafety == HostTypeOK /\ BuildsArePending /\ NoPortIsShared /\ ProcessIsCurrent

----------------------------------------------------------------------------
(* What RoutesCoverActive and RoutesAreClaimed rest on                      *)

\* A live file is of its config, on a candidate port; from the write to the
\* commit that of the build, of an active config that of its current version.
FilesAreOfConfigs ==
  /\ DOMAIN live = Configs /\ host \in [Configs -> Hosts \cup {""}]
  /\ \A c \in Configs :
       /\ profile[c] # Reality => host[c] \in Hosts
       /\ live[c] # NoFile => live[c].port \in Ports /\ live[c] = FileOf(c, live[c].port)
       /\ Written(c) => live[c] = FileOf(c, reads[c].port)
       /\ status[c] = "active" => current[c] \in Ports /\ live[c] = FileOf(c, current[c])

\* While no live file has changed since it was made, the map is the one the
\* files give; NoPort stands for the owner of the map of an empty host.
MapIsOfFiles == synced => \E owner \in Configs \cup {NoPort} : mux = StreamMap(live, owner)

SomeDeleted == \E d \in Configs : status[d] = "deleted"

\* A single worker reloads the files as it has read them, unless a config is
\* deleted meanwhile, and leaves a map that is behind the files only to a build
\* that has not come to its commit.
OneWorkerSyncs ==
  workers = 1 =>
    /\ \A c, d \in Configs : Building(c) /\ Building(d) => c = d
    /\ \A c \in Configs : at[c] = "reload" => reads[c].seen = live \/ SomeDeleted
    /\ \/ synced \/ SomeDeleted
       \/ \E c \in Configs : /\ profile[c] \in MuxProfiles /\ at[c] # "commit"
                            /\ status[c] \in {"pending", "failed"}

\* The inductive invariant.
HostRoutes == HostSafety /\ FilesAreOfConfigs /\ MapIsOfFiles /\ OneWorkerSyncs

----------------------------------------------------------------------------
(* What the documents say and the code does not do                          *)

\* nginx_shared_443.py:225, docs/DEPLOY.md:230: of configs that share a host
\* and nothing else the one that was just built gets it.
LastSyncWins ==
  workers = 1 =>
    \A c \in Configs :
      /\ at[c] = "commit" /\ profile[c] \in {Xhttp, Grpc} /\ host[c] \notin PanelSnis
      /\ \A d \in Configs \ {c} : /\ live[d].sni = host[c] => profile[d] = profile[c]
                                 /\ live[d].port # live[c].port
      => mux[host[c]] = reads[c].port

=============================================================================
