----------------------------- MODULE HostProofs -----------------------------
(***************************************************************************)
(* HostBuilds for any number of configs, ports and workers: of an active   *)
(* config that runs, the port its links name is its own; while no live     *)
(* file has changed since the map of port 443 was made, the map leads to   *)
(* every active config of a mux profile and nowhere else.                  *)
(***************************************************************************)
EXTENDS HostBuilds, NumberSets

USE HostBuildsAssumption

\* A host without any build.
LEMMA HostInit == Init => HostSafety
<1> SUFFICES ASSUME Init PROVE HostSafety
  OBVIOUS
<1>1. HostTypeOK
  BY DEF Init, HostTypeOK, Steps, NoReads
<1>2. BuildsArePending
  BY DEF Init, BuildsArePending, Building, Written
<1>3. NoPortIsShared /\ ProcessIsCurrent
  BY DEF Init, NoPortIsShared, ProcessIsCurrent
<1> QED
  BY <1>1, <1>2, <1>3 DEF HostSafety

\* Every port pick_port returns is a candidate.
LEMMA PickedIsCandidate ==
  ASSUME NEW used, NEW open, NEW keep, NEW p \in pick_port(Ports, used, open, keep)
  PROVE  p \in Ports
  BY DEF pick_port

\* No two processes share a port, whichever step is taken: only InstallUnit
\* starts one, and bind() has to accept its port.
LEMMA SharingStep ==
  ASSUME HostSafety, Next
  PROVE  NoPortIsShared'
<1> USE DEF HostSafety, HostTypeOK, NoPortIsShared, SameTransport
<1>1. PICK c \in Configs :
        \/ Start(c) \/ Delete(c)
        \/ ReadPorts(c) \/ StopUnit(c) \/ BuildAndWrite(c) \/ InstallUnit(c)
        \/ Scan(c) \/ Reload(c) \/ Commit(c) \/ Raise(c)
        \/ WorkerDies(c) \/ ServiceDies(c)
  BY DEF Next
<1>2. profile' = profile
  BY <1>1 DEF Start, Delete, ReadPorts, StopUnit, BuildAndWrite, InstallUnit, Scan, Reload, Commit,
              Raise, WorkerDies, ServiceDies, dbVars
<1>3. CASE proc' \in {proc, [proc EXCEPT ![c] = NoPort]}
  BY <1>2, <1>3
<1>4. CASE InstallUnit(c)
  <2>1. /\ proc' = [proc EXCEPT ![c] = reads[c].port]
        /\ reads[c].port \in Open(c) \cup {proc[c]} /\ reads[c].port # NoPort
    BY <1>4 DEF InstallUnit, BuildsArePending, Written
  <2>2. \A d \in Configs \ {c} : SameTransport(c, d) => proc[d] # reads[c].port
    BY <2>1 DEF Open
  <2> QED
    BY <1>2, <2>1, <2>2
<1> QED
  BY <1>1, <1>3, <1>4 DEF Start, Delete, ReadPorts, StopUnit, BuildAndWrite, Scan, Reload, Commit,
                          Raise, WorkerDies, ServiceDies, hostVars

\* The rest of the invariant, action by action.
LEMMA HostStep ==
  ASSUME HostSafety, Next
  PROVE  HostSafety'
<1> USE DEF HostSafety, HostTypeOK, BuildsArePending, ProcessIsCurrent, Building, Written, Goto, Steps,
            NoReads
<1>0. NoPortIsShared'
  BY SharingStep
<1>1. PICK c \in Configs :
        \/ Start(c) \/ Delete(c)
        \/ ReadPorts(c) \/ StopUnit(c) \/ BuildAndWrite(c) \/ InstallUnit(c)
        \/ Scan(c) \/ Reload(c) \/ Commit(c) \/ Raise(c)
        \/ WorkerDies(c) \/ ServiceDies(c)
  BY DEF Next
<1>2. CASE Start(c)
  BY <1>0, <1>2 DEF Start, hostVars
<1>3. CASE Delete(c)
  BY <1>0, <1>3 DEF Delete
<1>4. CASE ReadPorts(c)
  <2>1. UNCHANGED <<dbVars, hostVars>> /\ at' = [at EXCEPT ![c] = "stop"] /\ at[c] = "start"
    BY <1>4 DEF ReadPorts
  <2>2. /\ DOMAIN reads' = Configs /\ \A d \in Configs \ {c} : reads'[d] = reads[d]
        /\ reads'[c].keep \in Ports \cup {NoPort} /\ DOMAIN reads'[c] = DOMAIN reads[c]
    BY <1>4 DEF ReadPorts
  <2> QED
    BY <1>0, <2>1, <2>2 DEF dbVars, hostVars
<1>5. CASE StopUnit(c)
  BY <1>0, <1>5 DEF StopUnit, dbVars
<1>6. CASE BuildAndWrite(c)
  <2>1. PICK wanted \in Preferred(c) : \E p \in pick_port(Ports, Excluded(c), Open(c), wanted) :
          reads' = [reads EXCEPT ![c] = [NoReads EXCEPT !.port = p]]
    BY <1>6 DEF BuildAndWrite
  <2>2. PICK p \in Ports : reads' = [reads EXCEPT ![c] = [NoReads EXCEPT !.port = p]]
    BY <2>1, PickedIsCandidate
  <2>3. UNCHANGED <<dbVars, proc>> /\ at' = [at EXCEPT ![c] = "unit"] /\ at[c] = "pick"
    BY <1>6 DEF BuildAndWrite
  <2> QED
    BY <1>0, <2>1, <2>2, <2>3 DEF dbVars
<1>7. CASE InstallUnit(c)
  BY <1>0, <1>7 DEF InstallUnit, dbVars
<1>8. CASE Scan(c)
  BY <1>0, <1>8 DEF Scan, dbVars, hostVars
<1>9. CASE Reload(c)
  BY <1>0, <1>9 DEF Reload, dbVars
<1>10. CASE Commit(c)
  BY <1>0, <1>10 DEF Commit, hostVars
<1>11. CASE Raise(c)
  BY <1>0, <1>11 DEF Raise
<1>12. CASE WorkerDies(c)
  BY <1>0, <1>12 DEF WorkerDies, dbVars, hostVars
<1>13. CASE ServiceDies(c)
  BY <1>0, <1>13 DEF ServiceDies, dbVars
<1> QED
  BY <1>1, <1>2, <1>3, <1>4, <1>5, <1>6, <1>7, <1>8, <1>9, <1>10, <1>11, <1>12, <1>13

LEMMA HostStutters == HostSafety /\ UNCHANGED vars => HostSafety'
  BY DEF HostSafety, HostTypeOK, BuildsArePending, NoPortIsShared, ProcessIsCurrent,
         SameTransport, Building, Written, vars, dbVars, hostVars

\* HostSafety is inductive.
LEMMA HostSafe == Spec => []HostSafety
  BY HostInit, HostStep, HostStutters, PTL DEF Spec

\* Rows, processes and the reads of a build keep their kinds; a port is always a
\* candidate.
THEOREM HostTypes == Spec => []HostTypeOK
<1>1. HostSafety => HostTypeOK
  BY DEF HostSafety
<1> QED
  BY <1>1, HostSafe, PTL

\* config_build.py:79.  The ports in use are read without a lock and the chosen
\* one is stored after the build, yet no links lead to another config's process.
THEOREM PortsAreOwned == Spec => []ActiveOwnsItsPort
<1>1. HostSafety => ActiveOwnsItsPort
  BY DEF HostSafety, HostTypeOK, NoPortIsShared, ProcessIsCurrent, ActiveOwnsItsPort,
         SameTransport
<1> QED
  BY <1>1, HostSafe, PTL

----------------------------------------------------------------------------
(* The map, as a function of the files                                      *)

\* The four profiles are different values.
LEMMA ProfilesDiffer ==
  /\ Reality # Xhttp /\ Reality # Grpc /\ Reality # Hysteria2 /\ Xhttp # Grpc
  /\ Xhttp # Hysteria2 /\ Grpc # Hysteria2
  /\ "" # Reality /\ "" # Xhttp /\ "" # Grpc
  BY DEF Reality, Xhttp, Grpc, Hysteria2

\* A TLS profile routes a name to the one file that asks for it.
LEMMA OneTlsRoute ==
  ASSUME NEW files, DOMAIN files = Configs, NEW p, NEW sni,
         NEW c \in Configs, files[c].profile = p, files[c].sni = sni,
         \A d \in Configs \ {c} :
           files[d].profile = p => files[d].sni # sni /\ files[d].port # files[c].port
  PROVE  TlsRoute(files, p, sni) = {files[c].port}
<1>1. c \in RoutedTls(files, p)
  <2>1. c <= c
    OBVIOUS
  <2>2. \A d \in LiveOf(files, p) : files[d].port = files[c].port => d = c
    BY DEF LiveOf
  <2> QED
    BY <2>1, <2>2 DEF RoutedTls, LiveOf
<1>2. {d \in RoutedTls(files, p) : files[d].sni = sni} = {c}
  BY <1>1 DEF RoutedTls, LiveOf
<1> QED
  BY <1>2, MaxOfOne DEF TlsRoute

\* And a name that no file of it asks for nowhere.
LEMMA NoTlsRoute ==
  ASSUME NEW files, DOMAIN files = Configs, NEW p, NEW sni,
         \A d \in Configs : files[d].profile = p => files[d].sni # sni
  PROVE  TlsRoute(files, p, sni) = {}
<1>1. {d \in RoutedTls(files, p) : files[d].sni = sni} = {}
  BY DEF RoutedTls, LiveOf
<1> QED
  BY <1>1 DEF TlsRoute

\* Where it routes a name to, a file of it asks for the name.
LEMMA TlsRouteIsClaimed ==
  ASSUME NEW files, DOMAIN files = Configs, NEW p, NEW sni, TlsRoute(files, p, sni) # {}
  PROVE  \E c \in Configs : /\ files[c].profile = p /\ files[c].sni = sni
                            /\ (CHOOSE port \in TlsRoute(files, p, sni) : TRUE) = files[c].port
<1> DEFINE items == {c \in RoutedTls(files, p) : files[c].sni = sni}
<1>1. items # {} /\ TlsRoute(files, p, sni) = {files[Max(items)].port}
  BY DEF TlsRoute
<1>2. items \in SUBSET Configs
  BY DEF RoutedTls, LiveOf
<1>3. IsFiniteSet(items) /\ items \in SUBSET Nat
  <2> HIDE DEF items
  <2> QED
    BY <1>2, FS_Subset
<1>4. Max(items) \in items
  <2> HIDE DEF items
  <2> QED
    BY <1>1, <1>3, MaxOf
<1> QED
  BY <1>1, <1>2, <1>4 DEF RoutedTls, LiveOf

\* Reality's names go to the one inbound of Reality, or to one of its files.
LEMMA OneRealityRoute ==
  ASSUME NEW files, DOMAIN files = Configs, NEW owner, NEW sni \in RealitySnis,
         NEW c \in Configs, files[c].profile = Reality,
         \A d \in Configs \ {c} : files[d].profile # Reality
  PROVE  RealityRoute(files, owner, sni) = {files[c].port}
<1>1. LiveOf(files, Reality) = {c}
  BY DEF LiveOf
<1> QED
  BY <1>1, MaxOfOne DEF RealityRoute

\* A route to Reality leads to the live file of a config that claims the name.
LEMMA RealityRouteIsClaimed ==
  ASSUME NEW files, DOMAIN files = Configs, NEW owner, NEW sni,
         RealityRoute(files, owner, sni) # {}
  PROVE  /\ sni \in RealitySnis
         /\ \E c \in Configs : /\ files[c].profile = Reality
                               /\ (CHOOSE port \in RealityRoute(files, owner, sni) : TRUE)
                                    = files[c].port
<1> DEFINE items == LiveOf(files, Reality)
           chosen == IF owner \in items THEN owner ELSE Min(items)
<1>1. /\ items # {} /\ sni \in RealitySnis
      /\ RealityRoute(files, owner, sni) = {files[chosen].port}
  BY DEF RealityRoute
<1>2. items \in SUBSET Configs /\ \A c \in items : files[c].profile = Reality
  BY DEF LiveOf
<1>3. chosen \in items
  <2> HIDE DEF items
  <2> QED
    BY <1>1, <1>2, MinOf
<1> HIDE DEF items, chosen
<1> QED
  BY <1>1, <1>2, <1>3

\* On an empty host every name is the panel's.
LEMMA EmptyMap ==
  ASSUME NEW files, DOMAIN files = Configs, \A c \in Configs : files[c] = NoFile, NEW owner
  PROVE  StreamMap(files, owner) = [sni \in Snis |-> Panel]
<1>0. \A p \in MuxProfiles, d \in Configs : files[d].profile # p
  <2>1. \A p \in MuxProfiles : p # ""
    BY ProfilesDiffer, Zenon DEF MuxProfiles
  <2>2. NoFile.profile = ""
    BY DEF NoFile
  <2> QED
    BY <2>1, <2>2
<1>1. \A p \in MuxProfiles, sni \in Snis : TlsRoute(files, p, sni) = {}
  BY <1>0, NoTlsRoute
<1>2. \A sni \in Snis : RealityRoute(files, owner, sni) = {}
  <2>1. LiveOf(files, Reality) = {}
    BY <1>0 DEF LiveOf, MuxProfiles
  <2> QED
    BY <2>1 DEF RealityRoute
<1> QED
  BY <1>1, <1>2 DEF StreamMap, MuxProfiles

\* The map is not of the files of Hysteria.
LEMMA SameMap ==
  ASSUME NEW f, NEW g, DOMAIN f = Configs, DOMAIN g = Configs, NEW c \in Configs,
         \A d \in Configs \ {c} : g[d] = f[d],
         f[c].profile \notin MuxProfiles, g[c].profile \notin MuxProfiles, NEW owner
  PROVE  StreamMap(g, owner) = StreamMap(f, owner)
<1>1. \A p \in MuxProfiles : LiveOf(g, p) = LiveOf(f, p) /\ c \notin LiveOf(f, p)
                             /\ LiveOf(f, p) \in SUBSET Configs
  BY DEF LiveOf
<1>2. \A p \in MuxProfiles, sni \in Snis : TlsRoute(g, p, sni) = TlsRoute(f, p, sni)
  <2> SUFFICES ASSUME NEW p \in MuxProfiles, NEW sni \in Snis
               PROVE  TlsRoute(g, p, sni) = TlsRoute(f, p, sni)
    OBVIOUS
  <2>1. RoutedTls(g, p) = RoutedTls(f, p)
    BY <1>1 DEF RoutedTls
  <2>2. RoutedTls(f, p) \in SUBSET (Configs \ {c})
    BY <1>1 DEF RoutedTls
  <2> DEFINE items == {d \in RoutedTls(f, p) : f[d].sni = sni}
  <2>3. items = {d \in RoutedTls(g, p) : g[d].sni = sni}
    BY <2>1, <2>2
  <2>4. items \in SUBSET (Configs \ {c})
    BY <2>2
  <2>5. CASE items = {}
    BY <2>3, <2>5 DEF TlsRoute
  <2>6. CASE items # {}
    <3>1. Max(items) \in items
      <4> HIDE DEF items
      <4> QED
        BY <2>4, <2>6, FS_Subset, MaxOf
    <3>2. f[Max(items)] = g[Max(items)]
      BY <3>1, <2>4
    <3>3. TlsRoute(f, p, sni) = {f[Max(items)].port}
      BY <2>6 DEF TlsRoute
    <3>4. TlsRoute(g, p, sni) = {g[Max(items)].port}
      BY <2>3, <2>6 DEF TlsRoute
    <3> QED
      BY <3>2, <3>3, <3>4
  <2> QED
    BY <2>5, <2>6
<1>3. \A sni \in Snis : RealityRoute(g, owner, sni) = RealityRoute(f, owner, sni)
  <2> DEFINE items == LiveOf(f, Reality)
             chosen == IF owner \in items THEN owner ELSE Min(items)
  <2>1. items = LiveOf(g, Reality) /\ items \in SUBSET (Configs \ {c})
    BY <1>1 DEF MuxProfiles
  <2>2. items # {} => f[chosen] = g[chosen]
    <3> HIDE DEF items
    <3> QED
      BY <2>1, MinOf
  <2>3. ASSUME NEW sni \in Snis
        PROVE  /\ RealityRoute(f, owner, sni) =
                    IF items # {} /\ sni \in RealitySnis THEN {f[chosen].port} ELSE {}
               /\ RealityRoute(g, owner, sni) =
                    IF items # {} /\ sni \in RealitySnis THEN {g[chosen].port} ELSE {}
    BY <2>1 DEF RealityRoute
  <2> HIDE DEF items, chosen
  <2> QED
    BY <2>2, <2>3
<1>4. /\ \A sni \in Snis : TlsRoute(g, Grpc, sni) = TlsRoute(f, Grpc, sni)
      /\ \A sni \in Snis : TlsRoute(g, Xhttp, sni) = TlsRoute(f, Xhttp, sni)
  BY <1>2 DEF MuxProfiles
<1>5. ASSUME NEW sni \in Snis PROVE StreamMap(g, owner)[sni] = StreamMap(f, owner)[sni]
  <2>1. /\ TlsRoute(g, Grpc, sni) = TlsRoute(f, Grpc, sni)
        /\ TlsRoute(g, Xhttp, sni) = TlsRoute(f, Xhttp, sni)
        /\ RealityRoute(g, owner, sni) = RealityRoute(f, owner, sni)
    BY <1>3, <1>4
  <2>2. ASSUME NEW h
        PROVE  StreamMap(h, owner)[sni] =
                 IF sni \in PanelSnis THEN Panel
                 ELSE IF TlsRoute(h, Grpc, sni) # {}  THEN CHOOSE p \in TlsRoute(h, Grpc, sni) : TRUE
                 ELSE IF TlsRoute(h, Xhttp, sni) # {} THEN CHOOSE p \in TlsRoute(h, Xhttp, sni) : TRUE
                 ELSE IF RealityRoute(h, owner, sni) # {}
                   THEN CHOOSE p \in RealityRoute(h, owner, sni) : TRUE
                 ELSE Panel
    BY DEF StreamMap
  <2> QED
    BY <2>1, <2>2, Zenon
<1>6. /\ StreamMap(g, owner) = [sni \in Snis |-> StreamMap(g, owner)[sni]]
      /\ StreamMap(f, owner) = [sni \in Snis |-> StreamMap(f, owner)[sni]]
  BY DEF StreamMap
<1> QED
  BY <1>5, <1>6, Zenon

----------------------------------------------------------------------------
(* HostRoutes is inductive                                                  *)

\* There is no live file, and the map is empty.
LEMMA RoutesInit == Init => HostRoutes
<1> SUFFICES ASSUME Init PROVE HostRoutes
  OBVIOUS
<1>1. FilesAreOfConfigs
  BY ProfilesDiffer DEF Init, FilesAreOfConfigs, Written
<1>2. MapIsOfFiles
  BY EmptyMap DEF Init, MapIsOfFiles
<1>3. OneWorkerSyncs
  BY DEF Init, OneWorkerSyncs, Building
<1> QED
  BY <1>1, <1>2, <1>3, HostInit DEF HostRoutes

\* A step that writes no file, makes no config active and brings no build past
\* its write keeps what is said of the files.
LEMMA FilesStay ==
  ASSUME FilesAreOfConfigs, UNCHANGED <<profile, host, live>>,
         \A d \in Configs : status'[d] = "active" => status[d] = "active" /\ current'[d] = current[d],
         \A d \in Configs : Written(d)' => Written(d) /\ reads'[d].port = reads[d].port
  PROVE  FilesAreOfConfigs'
<1>1. \A d \in Configs :
        /\ profile'[d] # Reality => host'[d] \in Hosts
        /\ live'[d] # NoFile => live'[d].port \in Ports /\ live'[d] = FileOf(d, live'[d].port)
        /\ status'[d] = "active" => current'[d] \in Ports /\ live'[d] = FileOf(d, current'[d])
  BY DEF FilesAreOfConfigs
<1>2. \A d \in Configs : Written(d)' => live'[d] = FileOf(d, reads'[d].port)
  BY DEF FilesAreOfConfigs
<1>3. DOMAIN live' = Configs /\ host' \in [Configs -> Hosts \cup {""}]
  BY DEF FilesAreOfConfigs
<1> QED
  BY <1>1, <1>2, <1>3 DEF FilesAreOfConfigs, FileOf

\* A file is written by the build of its config and removed with it.
LEMMA FilesStep ==
  ASSUME HostRoutes, Next
  PROVE  FilesAreOfConfigs'
<1>0. /\ FilesAreOfConfigs /\ DOMAIN reads = Configs
      /\ \A d \in Configs : DOMAIN reads[d] = DOMAIN NoReads
      /\ at \in [Configs -> Steps] /\ DOMAIN status = Configs /\ DOMAIN current = Configs
      /\ \A d \in Configs : Written(d) => status[d] = "pending" /\ reads[d].port \in Ports
  BY DEF HostRoutes, HostSafety, HostTypeOK, BuildsArePending, Written, Building
<1>1. PICK c \in Configs :
        \/ Start(c) \/ Delete(c)
        \/ ReadPorts(c) \/ StopUnit(c) \/ BuildAndWrite(c) \/ InstallUnit(c)
        \/ Scan(c) \/ Reload(c) \/ Commit(c) \/ Raise(c)
        \/ WorkerDies(c) \/ ServiceDies(c)
  BY DEF Next
<1> USE DEF Goto, Written
<1>2. CASE Start(c)
  BY <1>0, <1>2, FilesStay DEF Start, hostVars
<1>3. CASE Delete(c)
  <2>1. /\ UNCHANGED <<profile, host, current, at, reads>> /\ at[c] = "idle"
        /\ status' = [status EXCEPT ![c] = "deleted"]
    BY <1>3 DEF Delete, Building
  <2>2. live' = live \/ live' = [live EXCEPT ![c] = NoFile]
    BY <1>3 DEF Delete
  <2>3. /\ DOMAIN live' = Configs
        /\ \A d \in Configs : live'[d] \in {live[d], NoFile} /\ (d # c => live'[d] = live[d])
    BY <1>0, <2>2 DEF FilesAreOfConfigs
  <2>4. \A d \in Configs :
          /\ status'[d] = "active" => d # c /\ status[d] = "active"
          /\ Written(d)' => d # c /\ Written(d)
    BY <1>0, <2>1
  <2> HIDE DEF Written
  <2>5. \A d \in Configs :
          /\ live'[d] # NoFile => live'[d].port \in Ports /\ live'[d] = FileOf(d, live'[d].port)
          /\ Written(d)' => live'[d] = FileOf(d, reads[d].port)
          /\ status'[d] = "active" => current[d] \in Ports /\ live'[d] = FileOf(d, current[d])
    BY <1>0, <2>3, <2>4 DEF FilesAreOfConfigs
  <2> QED
    BY <1>0, <2>1, <2>3, <2>5 DEF FilesAreOfConfigs, FileOf
<1>4. CASE ReadPorts(c)
  <2>1. /\ UNCHANGED <<profile, host, live, status, current>>
        /\ at' = [at EXCEPT ![c] = "stop"]
    BY <1>4 DEF ReadPorts, dbVars, hostVars
  <2>2. \A d \in Configs \ {c} : reads'[d] = reads[d]
    BY <1>0, <1>4 DEF ReadPorts
  <2> QED
    BY <1>0, <2>1, <2>2, FilesStay
<1>5. CASE StopUnit(c)
  BY <1>0, <1>5, FilesStay DEF StopUnit, dbVars
<1>6. CASE BuildAndWrite(c)
  <2>1. PICK wanted \in Preferred(c) : \E p \in pick_port(Ports, Excluded(c), Open(c), wanted) :
          /\ reads' = [reads EXCEPT ![c] = [NoReads EXCEPT !.port = p]]
          /\ WriteFile(c, p)
    BY <1>6 DEF BuildAndWrite
  <2>2. PICK p \in Ports : /\ reads' = [reads EXCEPT ![c] = [NoReads EXCEPT !.port = p]]
                           /\ WriteFile(c, p)
    BY <2>1, PickedIsCandidate
  <2>3. p \in Ports /\ reads'[c].port = p /\ \A d \in Configs \ {c} : reads'[d] = reads[d]
    BY <1>0, <2>2 DEF NoReads
  <2>4. UNCHANGED <<profile, host, status, current>> /\ at' = [at EXCEPT ![c] = "unit"]
    BY <1>6 DEF BuildAndWrite, dbVars
  <2>5. live' = [live EXCEPT ![c] = FileOf(c, p)]
    BY <2>2 DEF WriteFile
  <2>6. FileOf(c, p).port = p /\ status[c] = "pending"
    BY <1>6 DEF FileOf, BuildAndWrite, HostRoutes, HostSafety, BuildsArePending, Building
  <2> QED
    BY <1>0, <2>3, <2>4, <2>5, <2>6 DEF FilesAreOfConfigs, FileOf
<1>7. CASE InstallUnit(c)
  BY <1>0, <1>7, FilesStay DEF InstallUnit, dbVars
<1>8. CASE Scan(c)
  <2>1. UNCHANGED <<profile, host, live, status, current>> /\ at[c] = "scan"
    BY <1>8 DEF Scan, dbVars, hostVars
  <2>2. at' = [at EXCEPT ![c] = "reload"] /\ reads' = [reads EXCEPT ![c].seen = live]
    BY <1>8 DEF Scan
  <2>3. \A d \in Configs : reads'[d].port = reads[d].port
    BY <1>0, <2>2 DEF NoReads
  <2> QED
    BY <1>0, <2>1, <2>2, <2>3, FilesStay
<1>9. CASE Reload(c)
  <2>1. UNCHANGED <<profile, host, live, status, current>> /\ at[c] = "reload"
    BY <1>9 DEF Reload, dbVars
  <2>2. at' = [at EXCEPT ![c] = "commit"] /\ reads' = [reads EXCEPT ![c].seen = <<>>]
    BY <1>9 DEF Reload
  <2>3. \A d \in Configs : reads'[d].port = reads[d].port
    BY <1>0, <2>2 DEF NoReads
  <2> QED
    BY <1>0, <2>1, <2>2, <2>3, FilesStay
<1>10. CASE Commit(c)
  <2>1. UNCHANGED <<profile, host, live>> /\ at[c] = "commit" /\ at' = [at EXCEPT ![c] = "idle"]
    BY <1>10 DEF Commit, hostVars
  <2>2. /\ status' = [status EXCEPT ![c] = "active"]
        /\ current' = [current EXCEPT ![c] = reads[c].port]
        /\ \A d \in Configs \ {c} : reads'[d] = reads[d]
    BY <1>10 DEF Commit
  <2> QED
    BY <1>0, <2>1, <2>2 DEF FilesAreOfConfigs, FileOf
<1>11. CASE Raise(c)
  BY <1>0, <1>11, FilesStay DEF Raise
<1>12. CASE WorkerDies(c)
  BY <1>0, <1>12, FilesStay DEF WorkerDies, dbVars, hostVars
<1>13. CASE ServiceDies(c)
  BY <1>0, <1>13, FilesStay DEF ServiceDies, dbVars
<1> QED
  BY <1>1, <1>2, <1>3, <1>4, <1>5, <1>6, <1>7, <1>8, <1>9, <1>10, <1>11, <1>12, <1>13

\* A live file of a profile that has no route leaves the map as it is; any
\* other change, and every reload, settles whether the map is made anew.
LEMMA MapStep ==
  ASSUME HostRoutes, Next
  PROVE  MapIsOfFiles'
<1>0. /\ DOMAIN live = Configs /\ MapIsOfFiles
      /\ \A d \in Configs : live[d] = NoFile \/ live[d] = FileOf(d, live[d].port)
  BY DEF HostRoutes, FilesAreOfConfigs
<1>1. \A d \in Configs : profile[d] \notin MuxProfiles => live[d].profile \notin MuxProfiles
  <2>1. NoFile.profile \notin MuxProfiles
    <3>1. \A p \in MuxProfiles : p # ""
      BY ProfilesDiffer, Zenon DEF MuxProfiles
    <3> QED
      BY <3>1 DEF NoFile
  <2> QED
    BY <1>0, <2>1 DEF FileOf
<1>2. PICK c \in Configs :
        \/ Start(c) \/ Delete(c)
        \/ ReadPorts(c) \/ StopUnit(c) \/ BuildAndWrite(c) \/ InstallUnit(c)
        \/ Scan(c) \/ Reload(c) \/ Commit(c) \/ Raise(c)
        \/ WorkerDies(c) \/ ServiceDies(c)
  BY DEF Next
<1>3. CASE UNCHANGED <<live, mux, synced>>
  BY <1>0, <1>3 DEF MapIsOfFiles
<1>4. ASSUME NEW f, live' = [live EXCEPT ![c] = f], mux' = mux,
             f.profile = profile[c] \/ f = NoFile,
             synced' = (synced /\ profile[c] \notin MuxProfiles), synced'
      PROVE  MapIsOfFiles'
  <2>1. synced /\ profile[c] \notin MuxProfiles
    BY <1>4
  <2>2. DOMAIN live' = Configs /\ \A d \in Configs \ {c} : live'[d] = live[d]
    BY <1>0, <1>4
  <2>3. live'[c] = f /\ f.profile \notin MuxProfiles
    <3>1. NoFile.profile = "" /\ "" \notin MuxProfiles
      <4>1. \A p \in MuxProfiles : p # ""
        BY ProfilesDiffer, Zenon DEF MuxProfiles
      <4> QED
        BY <4>1 DEF NoFile
    <3> QED
      BY <1>0, <1>4, <2>1, <3>1
  <2>4. PICK owner \in Configs \cup {NoPort} : mux = StreamMap(live, owner)
    BY <1>0, <2>1 DEF MapIsOfFiles
  <2>5. StreamMap(live', owner) = StreamMap(live, owner)
    BY <1>0, <1>1, <2>1, <2>2, <2>3, SameMap
  <2> QED
    BY <1>4, <2>4, <2>5 DEF MapIsOfFiles
<1>5. CASE Delete(c)
  <2>1. CASE unit[c] /\ synced'
    BY <1>4, <1>5, <2>1 DEF Delete
  <2>2. CASE ~ unit[c]
    BY <1>3, <1>5, <2>2 DEF Delete
  <2> QED
    BY <2>1, <2>2 DEF MapIsOfFiles
<1>6. CASE BuildAndWrite(c)
  <2>1. PICK p : WriteFile(c, p) /\ mux' = mux
    BY <1>6 DEF BuildAndWrite
  <2>2. FileOf(c, p).profile = profile[c]
    BY DEF FileOf
  <2> QED
    BY <1>4, <2>1, <2>2 DEF WriteFile, MapIsOfFiles
<1>7. CASE Reload(c)
  <2>1. /\ mux' = StreamMap(reads[c].seen, c) /\ live' = live
        /\ synced' = (reads[c].seen = live)
    BY <1>7 DEF Reload
  <2> QED
    BY <2>1 DEF MapIsOfFiles
<1>8. CASE \/ Start(c) \/ ReadPorts(c) \/ StopUnit(c) \/ InstallUnit(c) \/ Scan(c) \/ Commit(c)
           \/ Raise(c) \/ WorkerDies(c) \/ ServiceDies(c)
  BY <1>3, <1>8 DEF Start, ReadPorts, StopUnit, InstallUnit, Scan, Commit, Raise, WorkerDies,
                    ServiceDies, hostVars
<1> QED
  BY <1>2, <1>5, <1>6, <1>7, <1>8

\* One worker has one build at a time: nothing is written between the scan and
\* the reload, and what was written before is in the map at the commit.
LEMMA WorkerStep ==
  ASSUME HostRoutes, Next
  PROVE  OneWorkerSyncs'
<1>0. /\ OneWorkerSyncs /\ DOMAIN reads = Configs
      /\ \A d \in Configs : DOMAIN reads[d] = DOMAIN NoReads
      /\ at \in [Configs -> Steps] /\ DOMAIN status = Configs
      /\ \A d \in Configs : Building(d) => status[d] = "pending"
  BY DEF HostRoutes, HostSafety, HostTypeOK, BuildsArePending
<1>1. PICK c \in Configs :
        \/ Start(c) \/ Delete(c)
        \/ ReadPorts(c) \/ StopUnit(c) \/ BuildAndWrite(c) \/ InstallUnit(c)
        \/ Scan(c) \/ Reload(c) \/ Commit(c) \/ Raise(c)
        \/ WorkerDies(c) \/ ServiceDies(c)
  BY DEF Next
<1>2. workers' = workers
  BY <1>1 DEF Start, Delete, ReadPorts, StopUnit, BuildAndWrite, InstallUnit, Scan, Reload, Commit,
              Raise, WorkerDies, ServiceDies
<1> SUFFICES ASSUME workers = 1 PROVE OneWorkerSyncs'
  BY <1>2 DEF OneWorkerSyncs
<1> USE DEF Goto, Building, SomeDeleted
<1>3. CASE Start(c)
  <2>1. {d \in Configs : Building(d)} = {}
    <3>1. IsFiniteSet({d \in Configs : Building(d)})
      BY FS_Subset
    <3>2. Cardinality({d \in Configs : Building(d)}) = 0
      BY <1>3, <3>1, FS_CardinalityType DEF Start
    <3> HIDE DEF Building
    <3> QED
      BY <3>1, <3>2, FS_EmptySet
  <2>2. /\ \A d \in Configs : at[d] = "idle"
        /\ at' = [at EXCEPT ![c] = "start"] /\ status' = [status EXCEPT ![c] = "pending"]
        /\ status[c] # "deleted" /\ UNCHANGED <<profile, live, synced, reads>>
    BY <1>3, <2>1 DEF Start, hostVars
  <2> QED
    BY <1>0, <2>2 DEF OneWorkerSyncs
<1>4. CASE Delete(c)
  <2>1. status' = [status EXCEPT ![c] = "deleted"] /\ UNCHANGED <<at, reads>>
    BY <1>4 DEF Delete
  <2> QED
    BY <1>0, <2>1 DEF OneWorkerSyncs
<1>5. CASE ReadPorts(c)
  <2>1. /\ UNCHANGED <<status, profile, live, synced>> /\ at[c] = "start"
        /\ at' = [at EXCEPT ![c] = "stop"] /\ \A d \in Configs \ {c} : reads'[d] = reads[d]
    BY <1>0, <1>5 DEF ReadPorts, dbVars, hostVars
  <2> QED
    BY <1>0, <2>1 DEF OneWorkerSyncs
<1>6. CASE StopUnit(c)
  BY <1>0, <1>6 DEF StopUnit, dbVars, OneWorkerSyncs
<1>7. CASE BuildAndWrite(c)
  <2>1. PICK p : WriteFile(c, p)
    BY <1>7 DEF BuildAndWrite
  <2>2. /\ UNCHANGED <<status, profile>> /\ at[c] = "pick" /\ at' = [at EXCEPT ![c] = "unit"]
        /\ synced' = (synced /\ profile[c] \notin MuxProfiles)
    BY <1>7, <2>1 DEF BuildAndWrite, WriteFile, dbVars
  <2>3. \A d \in Configs : at'[d] # "reload"
    BY <1>0, <2>2 DEF OneWorkerSyncs
  <2> QED
    BY <1>0, <2>2, <2>3 DEF OneWorkerSyncs
<1>8. CASE InstallUnit(c)
  <2>1. /\ UNCHANGED <<status, profile, live, synced, reads>> /\ at[c] = "unit"
        /\ at' = [at EXCEPT ![c] = IF profile[c] = Hysteria2 THEN "commit" ELSE "scan"]
    BY <1>8 DEF InstallUnit, dbVars
  <2>2. profile[c] \in MuxProfiles => profile[c] # Hysteria2
    BY ProfilesDiffer, Zenon DEF MuxProfiles
  <2> QED
    BY <1>0, <2>1, <2>2 DEF OneWorkerSyncs
<1>9. CASE Scan(c)
  <2>1. /\ UNCHANGED <<status, profile, live, synced>> /\ at[c] = "scan"
        /\ at' = [at EXCEPT ![c] = "reload"] /\ reads' = [reads EXCEPT ![c].seen = live]
    BY <1>9 DEF Scan, dbVars, hostVars
  <2>2. reads'[c].seen = live /\ \A d \in Configs \ {c} : reads'[d] = reads[d]
    BY <1>0, <2>1 DEF NoReads
  <2> QED
    BY <1>0, <2>1, <2>2 DEF OneWorkerSyncs
<1>10. CASE Reload(c)
  <2>1. /\ UNCHANGED <<status, profile, live>> /\ at[c] = "reload"
        /\ at' = [at EXCEPT ![c] = "commit"] /\ synced' = (reads[c].seen = live)
        /\ \A d \in Configs \ {c} : reads'[d] = reads[d]
    BY <1>0, <1>10 DEF Reload, dbVars
  <2> QED
    BY <1>0, <2>1 DEF OneWorkerSyncs
<1>11. CASE Commit(c)
  <2>1. /\ UNCHANGED <<profile, live, synced>> /\ at[c] = "commit" /\ status[c] = "pending"
        /\ at' = [at EXCEPT ![c] = "idle"] /\ status' = [status EXCEPT ![c] = "active"]
        /\ \A d \in Configs \ {c} : reads'[d] = reads[d]
    BY <1>0, <1>11 DEF Commit, hostVars
  <2> QED
    BY <1>0, <2>1 DEF OneWorkerSyncs
<1>12. CASE Raise(c)
  <2>1. /\ UNCHANGED <<profile, live, synced>> /\ status[c] = "pending"
        /\ at' = [at EXCEPT ![c] = "idle"] /\ status' = [status EXCEPT ![c] = "failed"]
        /\ \A d \in Configs \ {c} : reads'[d] = reads[d]
    BY <1>0, <1>12 DEF Raise
  <2> QED
    BY <1>0, <2>1 DEF OneWorkerSyncs
<1>13. CASE WorkerDies(c)
  <2>1. /\ UNCHANGED <<status, profile, live, synced>> /\ at' = [at EXCEPT ![c] = "idle"]
        /\ \A d \in Configs \ {c} : reads'[d] = reads[d]
    BY <1>0, <1>13 DEF WorkerDies, dbVars, hostVars
  <2> QED
    BY <1>0, <2>1 DEF OneWorkerSyncs
<1>14. CASE ServiceDies(c)
  BY <1>0, <1>14 DEF ServiceDies, dbVars, OneWorkerSyncs
<1> QED
  BY <1>1, <1>3, <1>4, <1>5, <1>6, <1>7, <1>8, <1>9, <1>10, <1>11, <1>12, <1>13, <1>14

\* HostRoutes is inductive.
LEMMA HostRoutesInv == Spec => []HostRoutes
<1>1. HostRoutes /\ [Next]_vars => HostRoutes'
  <2> SUFFICES ASSUME HostRoutes, [Next]_vars PROVE HostRoutes'
    OBVIOUS
  <2>1. CASE Next
    BY <2>1, HostStep, FilesStep, MapStep, WorkerStep DEF HostRoutes
  <2>2. CASE UNCHANGED vars
    <3>1. UNCHANGED <<workers, profile, host, status, stored, current, live, unit, proc, mux,
                      synced, at, reads>>
      BY <2>2 DEF vars, dbVars, hostVars
    <3>2. HostSafety'
      BY <2>2, HostStutters DEF HostRoutes
    <3>3. FilesAreOfConfigs'
      BY <3>1, FilesStay DEF HostRoutes, HostSafety, HostTypeOK, Written
    <3>4. MapIsOfFiles' /\ OneWorkerSyncs'
      BY <3>1 DEF HostRoutes, MapIsOfFiles, OneWorkerSyncs, SomeDeleted, Building
    <3> QED
      BY <3>2, <3>3, <3>4 DEF HostRoutes
  <2> QED
    BY <2>1, <2>2
<1> QED
  BY <1>1, RoutesInit, PTL DEF Spec

----------------------------------------------------------------------------
(* What the map routes                                                      *)

\* In the words of the proofs below: the file of c has its profile, or none.
LEMMA FileOfConfig ==
  ASSUME HostRoutes, NEW c \in Configs, NEW p \in MuxProfiles, live[c].profile = p
  PROVE  profile[c] = p /\ live[c].sni = host[c]
<1>1. live[c] # NoFile
  <2>1. NoFile.profile = "" /\ p # ""
    <3>1. p # ""
      BY ProfilesDiffer, Zenon DEF MuxProfiles
    <3> QED
      BY <3>1 DEF NoFile
  <2> QED
    BY <2>1
<1>2. live[c] = FileOf(c, live[c].port)
  BY <1>1 DEF HostRoutes, FilesAreOfConfigs
<1> QED
  BY <1>2 DEF FileOf

\* The last worker that was to build synced the map it had changed.
LEMMA AllBuiltIsSynced ==
  ASSUME HostRoutes, AllBuilt
  PROVE  synced
<1>1. /\ workers = 1 /\ OneWorkerSyncs
      /\ \A c \in Configs : status[c] \in {"absent", "active"}
  BY DEF HostRoutes, AllBuilt
<1> QED
  BY <1>1 DEF OneWorkerSyncs, SomeDeleted

\* nginx_shared_443.py:245.  When the map is of the files as they are, and when
\* one worker has built all there is, an active config that nobody else claims
\* the name or the backend of gets every name it is to be reached by.
LEMMA CoverOfMap ==
  ASSUME HostRoutes, synced
  PROVE  \A c \in Configs :
           status[c] = "active" /\ profile[c] \in MuxProfiles /\ Unrivalled(c) =>
             \A sni \in NamesOf(c) \ PanelSnis : mux[sni] = current[c]
<1> SUFFICES ASSUME NEW c \in Configs, status[c] = "active", profile[c] \in MuxProfiles,
                    Unrivalled(c), NEW sni \in NamesOf(c) \ PanelSnis
             PROVE  mux[sni] = current[c]
  OBVIOUS
<1>1. PICK owner \in Configs \cup {NoPort} : mux = StreamMap(live, owner)
  BY DEF HostRoutes, MapIsOfFiles
<1>2. /\ DOMAIN live = Configs /\ live[c] = FileOf(c, current[c])
      /\ profile[c] # Reality => host[c] \in Hosts
  BY DEF HostRoutes, FilesAreOfConfigs
<1>3. live[c].profile = profile[c] /\ live[c].sni = host[c] /\ live[c].port = current[c]
  BY <1>2 DEF FileOf
<1>4. sni \in Snis \ PanelSnis
  BY <1>2, Shared443Assumption DEF NamesOf
<1>5. mux[sni] = IF TlsRoute(live, Grpc, sni) # {}  THEN CHOOSE p \in TlsRoute(live, Grpc, sni) : TRUE
                 ELSE IF TlsRoute(live, Xhttp, sni) # {}
                   THEN CHOOSE p \in TlsRoute(live, Xhttp, sni) : TRUE
                 ELSE IF RealityRoute(live, owner, sni) # {}
                   THEN CHOOSE p \in RealityRoute(live, owner, sni) : TRUE
                 ELSE Panel
  BY <1>1, <1>4 DEF StreamMap
<1>6. ASSUME NEW d \in Configs \ {c}, NEW p \in {Xhttp, Grpc}, live[d].profile = p,
             profile[c] # Reality
      PROVE  live[d].sni # sni /\ live[d].port # live[c].port
  <2>1. profile[d] = p /\ live[d].sni = host[d] /\ profile[d] # Hysteria2
    BY <1>6, FileOfConfig, ProfilesDiffer DEF MuxProfiles
  <2> QED
    BY <1>6, <2>1 DEF Unrivalled, NamesOf
<1>7. CASE profile[c] = Grpc
  <2>1. sni = host[c]
    BY <1>7, ProfilesDiffer DEF NamesOf
  <2>2. TlsRoute(live, Grpc, sni) = {current[c]}
    <3>1. \A d \in Configs \ {c} :
            live[d].profile = Grpc => live[d].sni # sni /\ live[d].port # live[c].port
      <4>1. Grpc \in {Xhttp, Grpc} /\ profile[c] # Reality
        BY <1>7, ProfilesDiffer
      <4> SUFFICES ASSUME NEW d \in Configs \ {c}, live[d].profile = Grpc
                   PROVE  live[d].sni # sni /\ live[d].port # live[c].port
        OBVIOUS
      <4> QED
        BY <4>1, <1>6
    <3>2. DOMAIN live = Configs /\ live[c].profile = Grpc /\ live[c].sni = sni
      BY <1>2, <1>3, <1>7, <2>1
    <3>3. TlsRoute(live, Grpc, sni) = {live[c].port}
      BY <3>1, <3>2, OneTlsRoute
    <3> QED
      BY <1>3, <3>3
  <2> QED
    BY <1>5, <2>2
<1>8. CASE profile[c] = Xhttp
  <2>1. sni = host[c]
    BY <1>8, ProfilesDiffer DEF NamesOf
  <2>2. TlsRoute(live, Xhttp, sni) = {current[c]}
    <3>1. \A d \in Configs \ {c} :
            live[d].profile = Xhttp => live[d].sni # sni /\ live[d].port # live[c].port
      <4>1. Xhttp \in {Xhttp, Grpc} /\ profile[c] # Reality
        BY <1>8, ProfilesDiffer
      <4> SUFFICES ASSUME NEW d \in Configs \ {c}, live[d].profile = Xhttp
                   PROVE  live[d].sni # sni /\ live[d].port # live[c].port
        OBVIOUS
      <4> QED
        BY <4>1, <1>6
    <3>2. DOMAIN live = Configs /\ live[c].profile = Xhttp /\ live[c].sni = sni
      BY <1>2, <1>3, <1>8, <2>1
    <3>3. TlsRoute(live, Xhttp, sni) = {live[c].port}
      BY <3>1, <3>2, OneTlsRoute
    <3> QED
      BY <1>3, <3>3
  <2>3. TlsRoute(live, Grpc, sni) = {}
    BY <1>2, <1>3, <1>6, <1>8, ProfilesDiffer, NoTlsRoute
  <2> QED
    BY <1>5, <2>2, <2>3
<1>9. CASE profile[c] = Reality
  <2>1. sni \in RealitySnis
    BY <1>9 DEF NamesOf
  <2>2. ASSUME NEW d \in Configs, NEW p \in {Xhttp, Grpc}, live[d].profile = p
        PROVE  live[d].sni # sni
    <3>1. profile[d] = p /\ live[d].sni = host[d] /\ d # c
      BY <1>9, <2>2, FileOfConfig, ProfilesDiffer DEF MuxProfiles
    <3> QED
      BY <1>9, <2>1, <3>1 DEF Unrivalled
  <2>3. TlsRoute(live, Grpc, sni) = {} /\ TlsRoute(live, Xhttp, sni) = {}
    BY <1>2, <2>2, NoTlsRoute
  <2>4. \A d \in Configs \ {c} : live[d].profile # Reality
    BY <1>9, FileOfConfig DEF Unrivalled, MuxProfiles
  <2>5. RealityRoute(live, owner, sni) = {current[c]}
    BY <1>2, <1>3, <1>9, <2>1, <2>4, OneRealityRoute
  <2> QED
    BY <1>5, <2>3, <2>5
<1> QED
  BY <1>7, <1>8, <1>9 DEF MuxProfiles

\* And whatever the map routes, a live file of a config claims.
LEMMA ClaimsOfMap ==
  ASSUME HostRoutes, synced, NEW sni \in Snis, mux[sni] # Panel
  PROVE  /\ sni \notin PanelSnis
         /\ \E c \in Configs : live[c].port = mux[sni] /\ sni \in NamesOf(c)
<1>1. PICK owner \in Configs \cup {NoPort} : mux = StreamMap(live, owner)
  BY DEF HostRoutes, MapIsOfFiles
<1>2. DOMAIN live = Configs
  BY DEF HostRoutes, FilesAreOfConfigs
<1>3. sni \notin PanelSnis
  BY <1>1 DEF StreamMap
<1>4. mux[sni] = IF TlsRoute(live, Grpc, sni) # {}  THEN CHOOSE p \in TlsRoute(live, Grpc, sni) : TRUE
                 ELSE IF TlsRoute(live, Xhttp, sni) # {}
                   THEN CHOOSE p \in TlsRoute(live, Xhttp, sni) : TRUE
                 ELSE IF RealityRoute(live, owner, sni) # {}
                   THEN CHOOSE p \in RealityRoute(live, owner, sni) : TRUE
                 ELSE Panel
  BY <1>1, <1>3 DEF StreamMap
<1>5. ASSUME NEW p \in {Xhttp, Grpc}, TlsRoute(live, p, sni) # {},
             mux[sni] = CHOOSE port \in TlsRoute(live, p, sni) : TRUE
      PROVE  \E c \in Configs : live[c].port = mux[sni] /\ sni \in NamesOf(c)
  <2>1. PICK c \in Configs : /\ live[c].profile = p /\ live[c].sni = sni
                            /\ (CHOOSE port \in TlsRoute(live, p, sni) : TRUE) = live[c].port
    BY <1>2, <1>5, TlsRouteIsClaimed
  <2>2. profile[c] = p /\ live[c].sni = host[c] /\ p # Reality
    BY <2>1, FileOfConfig, ProfilesDiffer DEF MuxProfiles
  <2> QED
    BY <1>5, <2>1, <2>2 DEF NamesOf
<1>6. ASSUME RealityRoute(live, owner, sni) # {},
             mux[sni] = CHOOSE port \in RealityRoute(live, owner, sni) : TRUE
      PROVE  \E c \in Configs : live[c].port = mux[sni] /\ sni \in NamesOf(c)
  <2>1. sni \in RealitySnis
    BY <1>2, <1>6, RealityRouteIsClaimed
  <2>2. PICK c \in Configs : /\ live[c].profile = Reality
                            /\ (CHOOSE port \in RealityRoute(live, owner, sni) : TRUE)
                                 = live[c].port
    BY <1>2, <1>6, RealityRouteIsClaimed
  <2>3. profile[c] = Reality
    BY <2>2, FileOfConfig DEF MuxProfiles
  <2> QED
    BY <1>6, <2>1, <2>2, <2>3 DEF NamesOf
<1> QED
  BY <1>3, <1>4, <1>5, <1>6

\* nginx_shared_443.py:209, config_build.py:142.  An active config that nobody
\* else claims the name or the backend of has every name it is to be reached by
\* routed to its current port, whenever the map is of the files as they are,
\* and always when one worker has built all there is.
THEOREM RoutesCover == Spec => []RoutesCoverActive
<1>1. HostRoutes => RoutesCoverActive
  BY CoverOfMap, AllBuiltIsSynced DEF RoutesCoverActive
<1> QED
  BY <1>1, HostRoutesInv, PTL

\* nginx_shared_443.py:245.  The map sends no name of the panel anywhere else,
\* and any other name only to a config whose live file claims it.
THEOREM RoutesClaimed == Spec => []RoutesAreClaimed
<1>1. HostRoutes => RoutesAreClaimed
  BY ClaimsOfMap, AllBuiltIsSynced DEF RoutesAreClaimed
<1> QED
  BY <1>1, HostRoutesInv, PTL

\* config_build.py:121-160.  With one worker no order of builds, failures and
\* deaths leaves a map behind the files once every config of the host is built:
\* the last sync was after the last write.
THEOREM OneWorkerCatchesUp == Spec => [](AllBuilt => synced)
<1>1. HostRoutes => (AllBuilt => synced)
  BY AllBuiltIsSynced
<1> QED
  BY <1>1, HostRoutesInv, PTL

====
