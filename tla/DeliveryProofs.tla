---------------------------- MODULE DeliveryProofs ----------------------------
(***************************************************************************)
(* Delivery for any numbers of versions, ports, hosts and changes by hand: *)
(* whom the links of a config let in after every sequence of builds.       *)
(***************************************************************************)
EXTENDS Delivery, SequenceTheorems, TLAPS

\* What the assumptions say, part by part.
LEMMA BoundsAreNumbers == MaxVersion \in Nat /\ MaxChanges \in Nat
  BY DeliveryAssumption

\* No candidate port is 0.
LEMMA PortsAreReal == NoPort \notin Ports
  BY ConfigBuilderAssumption

\* The panel has a name, and no share host is empty or the loopback.
LEMMA HostsAreNamed == PublicHost # "" /\ "" \notin GrpcSnis /\ Loopback \notin ShareHosts
  BY DeliveryAssumption, ConfigBuilderAssumption

----------------------------------------------------------------------------
(* What a build makes of the previous snapshot                              *)

\* The four profiles differ.
LEMMA ProfilesDiffer ==
  /\ Reality # Xhttp /\ Reality # Grpc /\ Reality # Hysteria2
  /\ Xhttp # Grpc /\ Xhttp # Hysteria2 /\ Grpc # Hysteria2
  BY DEF Reality, Xhttp, Grpc, Hysteria2

\* The branches of the definitions by profile.
LEMMA UiFieldsOf ==
  /\ UiFields(Reality)   = {"port", "client_id", "reality_keys", "short_ids", "dest"}
  /\ UiFields(Xhttp)     = {"port", "client_id", "path", "tls"}
  /\ UiFields(Grpc)      = {"port", "client_id", "service_name", "tls"}
  /\ UiFields(Hysteria2) = {"port", "tls", "auth", "obfs"}
  BY ProfilesDiffer, Zenon DEF UiFields

\* A policy is a set of flags.
LEMMA PolicyIsSet ==
  ASSUME NEW candidates, NEW publicPort, NEW externalTls,
         profile \in Profiles, NEW stored \in StoredPolicies
  PROVE  from_stored(stored, for_profile(profile, candidates, publicPort, externalTls))
           \in SUBSET Flags
<1>1. \A p, c, e : for_profile(profile, p, c, e) \in SUBSET Flags
  <2> TAKE p, c, e
  <2> DEFINE port == IF c \in p THEN {} ELSE {"port"}
             tls  == IF e THEN {} ELSE {"tls"}
  <2>1. port \in SUBSET Flags /\ tls \in SUBSET Flags
    BY DEF Flags
  <2>2. /\ for_profile(Reality, p, c, e)
             = {"port"} \cup {"client_id", "reality_keys", "short_ids", "dest", "path", "tls"}
        /\ for_profile(Xhttp, p, c, e) = {"port"} \cup tls \cup {"client_id", "path"}
        /\ for_profile(Grpc, p, c, e) = {"port"} \cup tls \cup {"client_id"}
        /\ for_profile(Hysteria2, p, c, e) = port \cup tls
    BY ProfilesDiffer, Zenon DEF for_profile
  <2> HIDE DEF port, tls
  <2> QED
    BY <2>1, <2>2 DEF Profiles, Flags
<1>2. UiFields(profile) \in SUBSET Flags
  BY UiFieldsOf DEF Profiles, Flags
<1>3. stored = NoPolicy \/ stored \in SUBSET Flags
  <2> DEFINE default == for_profile(profile, Ports, settings.publicPort, settings.externalTls)
  <2>1. default \in SUBSET Flags
    BY <1>1
  <2>2. stored = NoPolicy \/ \E ticked \in SUBSET UiFields(profile) :
                               stored = (default \ UiFields(profile)) \cup ticked
    BY DEF StoredPolicies
  <2> HIDE DEF default
  <2> QED
    BY <1>2, <2>1, <2>2
<1> QED
  BY <1>1, <1>3 DEF from_stored

\* The port of a build: one that stays stays, and a Hysteria that may choose
\* takes its public one.
LEMMA PortOfBuild ==
  ASSUME Sensible(settings), NEW prev \in Snapshots \cup {NoSnapshot}, NEW policy,
         NEW port \in PortsOf(settings, profile, prev, policy, {}, Open)
  PROVE  /\ port \in Ports
         /\ prev # NoSnapshot /\ "port" \notin policy => port = prev.port
         /\ profile = Hysteria2 /\ settings.publicPort # NoPort
              /\ (prev = NoSnapshot \/ "port" \in policy) => port = settings.publicPort
<1>1. profile = Hysteria2 => settings.publicPort \in Ports \cup {NoPort}
  BY DEF Sensible
<1>2. prev # NoSnapshot => prev.port \in Ports
  BY DEF Snapshots
<1> QED
  BY PortsAreReal, <1>1, <1>2 DEF PortsOf, pick_port, Keeps, NoPort

\* The files of a profile hold a certificate, whichever it is.
LEMMA DiskIsReal ==
  ASSUME settings \in Settings
  PROVE  settings.disk \in Certificates /\ settings.disk # NoCert
<1>1. PICK k \in 0..MaxChanges : settings.disk = Issued(k)
  BY DEF Settings
<1>2. 2 * MaxVersion + 1 + k \in Nat /\ 2 * MaxVersion + 1 + k # 0
  BY BoundsAreNumbers
<1>3. ShareHosts \cup {PublicHost} \in SUBSET HostNames
  BY DEF HostNames
<1>4. settings.disk \in Certificates
  BY <1>1, <1>2, <1>3 DEF Issued, Certificates
<1>5. settings.disk.key # 0 /\ NoCert.key = 0
  BY <1>1, <1>2 DEF Issued, NoCert
<1> QED
  BY <1>4, <1>5

\* The certificate of a build names the host, comes from the profile's files
\* exactly when they are used, and is kept when nothing asks for another one.
LEMMA TlsOfBuild ==
  ASSUME settings \in Settings, NEW prev \in Snapshots \cup {NoSnapshot}, NEW policy,
         NEW name \in HostNames, NEW n \in Nat,
         NEW tls, tls = resolve_tls(settings, prev, policy, name, n)
  PROVE  /\ tls.cert \in Certificates /\ tls.own \in BOOLEAN
         /\ tls.own => name \in tls.cert.san
         /\ ~tls.own => tls.cert = settings.disk /\ settings.externalTls /\ settings.files = "there"
         /\ "tls" \notin policy =>
              /\ ExternalCert(settings) # NoCert => ~tls.own
              /\ ExternalCert(settings) = NoCert /\ prev # NoSnapshot /\ name \in prev.cert.san
                   /\ prev.privateKey = prev.cert.key
                   => tls.own /\ tls.cert = prev.cert
<1>1. settings.disk \in Certificates /\ settings.disk # NoCert
  BY DiskIsReal
<1>2. prev # NoSnapshot => prev.cert \in Certificates
  BY DEF Snapshots
<1>3. SelfSigned(name, n) \in Certificates /\ name \in SelfSigned(name, n).san
  BY DEF SelfSigned, Certificates
<1>4. CASE "tls" \notin policy /\ ExternalCert(settings) # NoCert
  <2>1. ExternalCert(settings) = settings.disk /\ settings.externalTls /\ settings.files = "there"
    BY <1>4 DEF ExternalCert
  <2>2. tls.cert = settings.disk /\ tls.own = FALSE
    BY <1>4, <2>1 DEF resolve_tls
  <2> QED
    BY <1>1, <1>4, <2>1, <2>2
<1>5. CASE "tls" \notin policy /\ ExternalCert(settings) = NoCert /\ try_reuse_tls(prev, name)
  <2>1. tls.cert = prev.cert /\ tls.own = TRUE
    BY <1>5 DEF resolve_tls
  <2> QED
    BY <1>2, <1>5, <2>1 DEF try_reuse_tls
<1>6. CASE "tls" \in policy \/ (ExternalCert(settings) = NoCert /\ ~try_reuse_tls(prev, name))
  <2>1. tls.cert = SelfSigned(name, n) /\ tls.own = TRUE
    BY <1>6 DEF resolve_tls
  <2> QED
    BY <1>3, <1>6, <2>1 DEF try_reuse_tls
<1> QED
  BY <1>4, <1>5, <1>6

\* What a build has kept and what it has made anew.
BuiltFrom(s, prev, policy, n) ==
  LET kept(flag) == prev # NoSnapshot /\ flag \notin policy
  IN  /\ s \in Snapshots
      /\ s.client = (IF kept(ClientFlag) THEN prev.client ELSE n)
      /\ s.privateKey = (IF profile = Reality THEN s.pair ELSE s.cert.key)
      /\ s.pair = (IF profile # Reality THEN 0 ELSE IF kept("reality_keys") THEN prev.pair ELSE n)
      /\ s.sids = (IF profile # Reality THEN 0 ELSE IF kept("short_ids") THEN prev.sids ELSE n)
      /\ s.obfs = (IF profile # Hysteria2 THEN 0 ELSE IF kept("obfs") THEN prev.obfs ELSE n)
      /\ profile = Reality => IF kept("dest") THEN s.dest = prev.dest /\ s.names = prev.names
                                              ELSE s.names = {dest_hostname(s.dest)}
      /\ profile = Xhttp /\ kept("path") => s.path = prev.path
      /\ profile = Grpc => s.service \in Among(Services)
      /\ profile = Grpc /\ kept("service_name") /\ prev.service \in Among(Services)
           => s.service = prev.service
      /\ kept("port") => s.port = prev.port
      /\ profile = Hysteria2 /\ settings.publicPort # NoPort /\ ~kept("port")
           => s.port = settings.publicPort
      /\ s.sni \in SniNow
      /\ prev # NoSnapshot /\ prev.sni \in SniNow => s.sni = prev.sni
      /\ IF profile = Reality
           THEN s.own
           ELSE /\ s.own => s.sni \in s.cert.san
                /\ ~s.own => s.cert = settings.disk /\ settings.externalTls /\ settings.files = "there"
                /\ "tls" \notin policy =>
                     /\ ExternalCert(settings) # NoCert => ~s.own
                     /\ ExternalCert(settings) = NoCert /\ prev # NoSnapshot
                          /\ s.sni \in prev.cert.san /\ prev.privateKey = prev.cert.key
                          => s.own /\ s.cert = prev.cert

\* The name the builds of a profile give their snapshots.
LEMMA SniOf ==
  /\ profile = Reality => SniNow = {""}
  /\ profile \in {Xhttp, Hysteria2} => SniNow = {TlsServerName(shareHost, settings.profileHost)}
  /\ profile = Grpc => SniNow = IF shareHost = "" /\ settings.profileHost = "" /\ GrpcSnis # {}
                                  THEN GrpcSnis
                                  ELSE {TlsServerName(shareHost, settings.profileHost)}
<1>1. profile = Reality => SniNow = {""}
  BY ProfilesDiffer, Zenon DEF SniNow
<1>2. profile \in {Xhttp, Hysteria2} => SniNow = {TlsServerName(shareHost, settings.profileHost)}
  BY ProfilesDiffer, Zenon DEF SniNow
<1>3. profile = Grpc /\ (shareHost = "" /\ settings.profileHost = "" /\ GrpcSnis # {})
        => SniNow = GrpcSnis
  BY ProfilesDiffer, Zenon DEF SniNow
<1>4. profile = Grpc /\ ~(shareHost = "" /\ settings.profileHost = "" /\ GrpcSnis # {})
        => SniNow = {TlsServerName(shareHost, settings.profileHost)}
  BY ProfilesDiffer, Zenon DEF SniNow
<1> QED
  BY <1>1, <1>2, <1>3, <1>4

\* The fields of the previous snapshot, also when there is none.
LEMMA PrevFields ==
  ASSUME NEW prev \in Snapshots \cup {NoSnapshot}
  PROVE  /\ prev.client \in Nat /\ prev.pair \in Nat /\ prev.sids \in Nat /\ prev.obfs \in Nat
         /\ prev.dest \in Dests \cup {NoSnapshot.dest}
         /\ prev.names \in SUBSET {dest_hostname(d) : d \in Dests}
         /\ prev.path \in Paths \cup {""} /\ prev.service \in Services \cup {""}
<1>1. CASE prev \in Snapshots
  BY <1>1 DEF Snapshots
<1>2. CASE prev = NoSnapshot
  BY <1>2 DEF NoSnapshot
<1> QED
  BY <1>1, <1>2

\* One profile after the other.
LEMMA RealityBuilt ==
  ASSUME Sensible(settings), profile = Reality, NEW prev \in Snapshots \cup {NoSnapshot},
         NEW policy, NEW n \in Nat,
         NEW port \in PortsOf(settings, profile, prev, policy, {}, Open),
         NEW s \in BuildReality(prev, policy, port, n)
  PROVE  BuiltFrom(s, prev, policy, n)
<1>1. /\ port \in Ports
      /\ prev # NoSnapshot /\ "port" \notin policy => port = prev.port
  BY PortOfBuild
<1> DEFINE keeps(flag) == Keeps(prev, policy, flag)
           client == IF keeps("client_id") THEN prev.client ELSE n
           pair == IF keeps("reality_keys") THEN prev.pair ELSE n
           sids == IF keeps("short_ids") THEN prev.sids ELSE n
           names(dest) == IF keeps("dest") THEN prev.names ELSE {dest_hostname(dest)}
<1>2. PICK dest \in IF keeps("dest") THEN {prev.dest} ELSE Dests :
        s = [NoSnapshot EXCEPT
               !.port = port, !.client = client, !.privateKey = pair, !.pair = pair,
               !.sids = sids, !.dest = dest, !.names = names(dest)]
  BY DEF BuildReality
<1>3. s = [port |-> port, client |-> client, privateKey |-> pair, pair |-> pair,
           sids |-> sids, dest |-> dest, names |-> names(dest), path |-> "",
           service |-> "", sni |-> "", obfs |-> 0, cert |-> NoCert, own |-> TRUE]
  <2> HIDE DEF client, pair, sids, names
  <2> QED
    BY <1>2 DEF NoSnapshot
<1>4. client \in Nat /\ pair \in Nat /\ sids \in Nat
  BY PrevFields
<1>5. dest \in Dests \cup {NoSnapshot.dest}
  BY PrevFields, <1>2
<1>6. names(dest) \in SUBSET {dest_hostname(d) : d \in Dests}
  BY PrevFields, <1>2
<1>7. NoCert \in Certificates /\ "" \in HostNames
  BY DEF NoCert, Certificates, HostNames
<1>8. s \in Snapshots
  <2> HIDE DEF client, pair, sids, names
  <2>1. 0 \in Nat /\ TRUE \in BOOLEAN /\ "" \in Paths \cup {""} /\ "" \in Services \cup {""}
    OBVIOUS
  <2> QED
    BY <1>1, <1>3, <1>4, <1>5, <1>6, <1>7, <2>1 DEF Snapshots
<1>9. SniNow = {""} /\ (prev # NoSnapshot /\ prev.sni \in SniNow => prev.sni = "")
  BY SniOf
<1>10. \A flag : keeps(flag) <=> prev # NoSnapshot /\ flag \notin policy
  BY DEF Keeps
<1>11. keeps("dest") => dest = prev.dest
  BY <1>2
<1> QED
  BY <1>1, <1>3, <1>8, <1>9, <1>10, <1>11, ProfilesDiffer DEF BuiltFrom, ClientFlag

\* A TLS profile names its host after the share host, the profile or the panel.
LEMMA NameIsHost ==
  ASSUME settings \in Settings, shareHost \in ShareHosts
  PROVE  TlsServerName(shareHost, settings.profileHost) \in HostNames
  BY DEF Settings, TlsServerName, HostNames

\* What a build of VLESS XHTTP makes of the previous snapshot.
LEMMA XhttpBuilt ==
  ASSUME settings \in Settings, Sensible(settings), shareHost \in ShareHosts, profile = Xhttp,
         NEW prev \in Snapshots \cup {NoSnapshot}, NEW policy, NEW n \in Nat,
         NEW port \in PortsOf(settings, profile, prev, policy, {}, Open),
         NEW s \in BuildXhttp(settings, shareHost, prev, policy, port, n)
  PROVE  BuiltFrom(s, prev, policy, n)
<1>1. /\ port \in Ports
      /\ prev # NoSnapshot /\ "port" \notin policy => port = prev.port
  BY PortOfBuild
<1> DEFINE keeps(flag) == Keeps(prev, policy, flag)
           client == IF keeps("client_id") THEN prev.client ELSE n
           name == TlsServerName(shareHost, settings.profileHost)
           cert == resolve_tls(settings, prev, policy, name, n).cert
           own == resolve_tls(settings, prev, policy, name, n).own
           key == cert.key
<1>2. PICK path :
        /\ path \in IF keeps("path") THEN {prev.path} ELSE Among(Paths)
        /\ s = [NoSnapshot EXCEPT
                  !.port = port, !.privateKey = key, !.client = client,
                  !.sni = name, !.path = path,
                  !.cert = cert, !.own = own]
  BY DEF BuildXhttp
<1>3. name \in HostNames
  BY NameIsHost
<1>4. /\ cert \in Certificates /\ own \in BOOLEAN
      /\ own => name \in cert.san
      /\ ~own => cert = settings.disk /\ settings.externalTls /\ settings.files = "there"
      /\ "tls" \notin policy =>
           /\ ExternalCert(settings) # NoCert => ~own
           /\ ExternalCert(settings) = NoCert /\ prev # NoSnapshot /\ name \in prev.cert.san
                /\ prev.privateKey = prev.cert.key
                => own /\ cert = prev.cert
  BY <1>3, TlsOfBuild
<1>5. client \in Nat
  BY PrevFields
<1>6. path \in Paths \cup {""}
  BY PrevFields, <1>2 DEF Among
<1>7. keeps("path") => path = prev.path
  BY <1>2
<1>8. SniNow = {name}
  BY SniOf
<1>9. \A flag : keeps(flag) <=> prev # NoSnapshot /\ flag \notin policy
  BY DEF Keeps
<1>10. client = IF keeps("client_id") THEN prev.client ELSE n
  OBVIOUS
<1> HIDE DEF client, keeps, name, cert, own, key
<1>11. s = [port |-> port, client |-> client, privateKey |-> key, pair |-> 0,
            sids |-> 0, dest |-> NoSnapshot.dest, names |-> {}, path |-> path,
            service |-> "", sni |-> name, obfs |-> 0, cert |-> cert, own |-> own]
  BY <1>2 DEF NoSnapshot
<1>12. s \in Snapshots
  <2>1. 0 \in Nat /\ {} \in SUBSET {dest_hostname(d) : d \in Dests} /\ "" \in Services \cup {""}
        /\ NoSnapshot.dest \in Dests \cup {NoSnapshot.dest}
    OBVIOUS
  <2>2. cert \in Certificates /\ key \in Nat /\ own \in BOOLEAN /\ port \in Ports
    BY <1>1, <1>4 DEF Certificates, key
  <2> QED
    BY <1>3, <1>5, <1>6, <1>11, <2>1, <2>2 DEF Snapshots
<1>13. s.privateKey = s.cert.key
  BY <1>11 DEF key
<1> QED
  BY <1>1, <1>4, <1>7, <1>8, <1>9, <1>10, <1>11, <1>12, <1>13, ProfilesDiffer
     DEF BuiltFrom, ClientFlag

\* What a build of Hysteria 2 makes of it.
LEMMA Hysteria2Built ==
  ASSUME settings \in Settings, Sensible(settings), shareHost \in ShareHosts, profile = Hysteria2,
         NEW prev \in Snapshots \cup {NoSnapshot}, NEW policy, NEW n \in Nat,
         NEW port \in PortsOf(settings, profile, prev, policy, {}, Open),
         NEW s \in BuildHysteria2(settings, shareHost, prev, policy, port, n)
  PROVE  BuiltFrom(s, prev, policy, n)
<1>1. /\ port \in Ports
      /\ prev # NoSnapshot /\ "port" \notin policy => port = prev.port
      /\ settings.publicPort # NoPort /\ ~(prev # NoSnapshot /\ "port" \notin policy)
           => port = settings.publicPort
  BY PortOfBuild
<1> DEFINE keeps(flag) == Keeps(prev, policy, flag)
           client == IF keeps("auth") THEN prev.client ELSE n
           obfs == IF keeps("obfs") THEN prev.obfs ELSE n
           name == TlsServerName(shareHost, settings.profileHost)
           cert == resolve_tls(settings, prev, policy, name, n).cert
           own == resolve_tls(settings, prev, policy, name, n).own
           key == cert.key
<1>2. s = [NoSnapshot EXCEPT
             !.port = port, !.privateKey = key, !.client = client, !.obfs = obfs,
             !.sni = name,
             !.cert = cert, !.own = own]
  BY DEF BuildHysteria2
<1>3. name \in HostNames
  BY NameIsHost
<1>4. /\ cert \in Certificates /\ own \in BOOLEAN
      /\ own => name \in cert.san
      /\ ~own => cert = settings.disk /\ settings.externalTls /\ settings.files = "there"
      /\ "tls" \notin policy =>
           /\ ExternalCert(settings) # NoCert => ~own
           /\ ExternalCert(settings) = NoCert /\ prev # NoSnapshot /\ name \in prev.cert.san
                /\ prev.privateKey = prev.cert.key
                => own /\ cert = prev.cert
  BY <1>3, TlsOfBuild
<1>5. client \in Nat /\ obfs \in Nat
  BY PrevFields
<1>6. SniNow = {name}
  BY SniOf
<1>7. \A flag : keeps(flag) <=> prev # NoSnapshot /\ flag \notin policy
  BY DEF Keeps
<1>8. /\ client = IF keeps("auth") THEN prev.client ELSE n
      /\ obfs = IF keeps("obfs") THEN prev.obfs ELSE n
  OBVIOUS
<1> HIDE DEF client, obfs, keeps, name, cert, own, key
<1>9. s = [port |-> port, client |-> client, privateKey |-> key, pair |-> 0,
           sids |-> 0, dest |-> NoSnapshot.dest, names |-> {}, path |-> "",
           service |-> "", sni |-> name, obfs |-> obfs, cert |-> cert, own |-> own]
  BY <1>2 DEF NoSnapshot
<1>10. s \in Snapshots
  <2>1. 0 \in Nat /\ {} \in SUBSET {dest_hostname(d) : d \in Dests} /\ "" \in Services \cup {""}
        /\ "" \in Paths \cup {""} /\ NoSnapshot.dest \in Dests \cup {NoSnapshot.dest}
    OBVIOUS
  <2>2. cert \in Certificates /\ key \in Nat /\ own \in BOOLEAN
    BY <1>4 DEF Certificates, key
  <2> QED
    BY <1>1, <1>3, <1>5, <1>9, <2>1, <2>2 DEF Snapshots
<1>11. s.privateKey = s.cert.key
  BY <1>9 DEF key
<1> QED
  BY <1>1, <1>4, <1>6, <1>7, <1>8, <1>9, <1>10, <1>11, ProfilesDiffer DEF BuiltFrom, ClientFlag

\* What a build of VLESS gRPC makes of it.
LEMMA GrpcBuilt ==
  ASSUME settings \in Settings, Sensible(settings), shareHost \in ShareHosts, profile = Grpc,
         NEW prev \in Snapshots \cup {NoSnapshot}, NEW policy, NEW n \in Nat,
         NEW port \in PortsOf(settings, profile, prev, policy, {}, Open),
         NEW s \in BuildGrpc(settings, shareHost, prev, policy, port, n)
  PROVE  BuiltFrom(s, prev, policy, n)
<1>1. /\ port \in Ports
      /\ prev # NoSnapshot /\ "port" \notin policy => port = prev.port
  BY PortOfBuild
<1> DEFINE keeps(flag) == Keeps(prev, policy, flag)
           client == IF keeps("client_id") THEN prev.client ELSE n
           pinned == shareHost # "" \/ settings.profileHost # ""
           names == IF pinned \/ GrpcSnis = {}
                      THEN {TlsServerName(shareHost, settings.profileHost)}
                      ELSE IF prev.sni \in GrpcSnis THEN {prev.sni} ELSE GrpcSnis
           keepService == keeps("service_name") /\ prev.service \in Services
           services == IF keepService THEN {prev.service} ELSE Among(Services)
           cert(name) == resolve_tls(settings, prev, policy, name, n).cert
           own(name) == resolve_tls(settings, prev, policy, name, n).own
           key(name) == cert(name).key
           made(name, service) ==
             [NoSnapshot EXCEPT
                !.port = port, !.privateKey = key(name), !.client = client,
                !.sni = name, !.service = service,
                !.cert = cert(name), !.own = own(name)]
<1>2. PICK name \in names, service \in services : s = made(name, service)
  <2>1. BuildGrpc(settings, shareHost, prev, policy, port, n)
          = UNION {{made(name, service) : service \in services} : name \in names}
    BY DEF BuildGrpc
  <2> HIDE DEF made, names, services
  <2> QED
    BY <2>1
<1>3. name \in SniNow /\ (prev.sni \in SniNow => name = prev.sni)
  <2>1. CASE pinned \/ GrpcSnis = {}
    BY <1>2, <2>1, SniOf
  <2>2. CASE ~(pinned \/ GrpcSnis = {})
    BY <1>2, <2>2, SniOf
  <2> QED
    BY <2>1, <2>2
<1>4. name \in HostNames
  <2>1. GrpcSnis \subseteq HostNames
    BY DEF HostNames
  <2>2. TlsServerName(shareHost, settings.profileHost) \in HostNames
    BY NameIsHost
  <2> QED
    BY <1>3, <2>1, <2>2, SniOf
<1>5. /\ cert(name) \in Certificates /\ own(name) \in BOOLEAN
      /\ own(name) => name \in cert(name).san
      /\ ~own(name) =>
           cert(name) = settings.disk /\ settings.externalTls /\ settings.files = "there"
      /\ "tls" \notin policy =>
           /\ ExternalCert(settings) # NoCert => ~own(name)
           /\ ExternalCert(settings) = NoCert /\ prev # NoSnapshot /\ name \in prev.cert.san
                /\ prev.privateKey = prev.cert.key
                => own(name) /\ cert(name) = prev.cert
  BY <1>4, TlsOfBuild
<1>6. client \in Nat
  BY PrevFields
<1>7. service \in Services \cup {""} /\ service \in Among(Services)
  BY PrevFields, <1>2 DEF Among
<1>8. keeps("service_name") /\ prev.service \in Among(Services) => service = prev.service
  BY <1>2 DEF Among
<1>9. \A flag : keeps(flag) <=> prev # NoSnapshot /\ flag \notin policy
  BY DEF Keeps
<1>10. client = IF keeps("client_id") THEN prev.client ELSE n
  OBVIOUS
<1> HIDE DEF client, keeps, names, keepService, cert, own, key
<1>11. s = [port |-> port, client |-> client, privateKey |-> key(name), pair |-> 0,
            sids |-> 0, dest |-> NoSnapshot.dest, names |-> {}, path |-> "",
            service |-> service, sni |-> name, obfs |-> 0, cert |-> cert(name),
            own |-> own(name)]
  BY <1>2 DEF NoSnapshot
<1>12. s \in Snapshots
  <2>1. 0 \in Nat /\ {} \in SUBSET {dest_hostname(d) : d \in Dests} /\ "" \in Paths \cup {""}
        /\ NoSnapshot.dest \in Dests \cup {NoSnapshot.dest}
    OBVIOUS
  <2>2. cert(name) \in Certificates /\ key(name) \in Nat /\ own(name) \in BOOLEAN
    BY <1>5 DEF Certificates, key
  <2> QED
    BY <1>1, <1>4, <1>6, <1>7, <1>11, <2>1, <2>2 DEF Snapshots
<1>13. s.privateKey = s.cert.key
  BY <1>11 DEF key
<1> QED
  BY <1>1, <1>3, <1>5, <1>7, <1>8, <1>9, <1>10, <1>11, <1>12, <1>13, ProfilesDiffer
     DEF BuiltFrom, ClientFlag

\* The four together: a build of any profile, and the shape of its snapshot.
LEMMA Built ==
  ASSUME settings \in Settings, Sensible(settings), shareHost \in ShareHosts, profile \in Profiles,
         NEW prev \in Snapshots \cup {NoSnapshot}, NEW policy, NEW n \in Nat,
         NEW s \in build(settings, profile, shareHost, prev, policy, {}, Open, n)
  PROVE  BuiltFrom(s, prev, policy, n)
<1> DEFINE ports == PortsOf(settings, profile, prev, policy, {}, Open)
           made(port) ==
             CASE profile = Reality   -> BuildReality(prev, policy, port, n)
               [] profile = Xhttp     -> BuildXhttp(settings, shareHost, prev, policy, port, n)
               [] profile = Grpc      -> BuildGrpc(settings, shareHost, prev, policy, port, n)
               [] profile = Hysteria2 -> BuildHysteria2(settings, shareHost, prev, policy, port, n)
<1>1. PICK port \in ports : s \in made(port)
  <2>1. s \in UNION {made(port) : port \in ports}
    BY DEF build
  <2> HIDE DEF made, ports
  <2> QED
    BY <2>1
<1>2. CASE profile = Reality
  <2>1. made(port) = BuildReality(prev, policy, port, n)
    BY <1>2, ProfilesDiffer, Zenon
  <2> QED
    BY <1>1, <1>2, <2>1, RealityBuilt
<1>3. CASE profile = Xhttp
  <2>1. made(port) = BuildXhttp(settings, shareHost, prev, policy, port, n)
    BY <1>3, ProfilesDiffer, Zenon
  <2> QED
    BY <1>1, <1>3, <2>1, XhttpBuilt
<1>4. CASE profile = Grpc
  <2>1. made(port) = BuildGrpc(settings, shareHost, prev, policy, port, n)
    BY <1>4, ProfilesDiffer, Zenon
  <2> QED
    BY <1>1, <1>4, <2>1, GrpcBuilt
<1>5. CASE profile = Hysteria2
  <2>1. made(port) = BuildHysteria2(settings, shareHost, prev, policy, port, n)
    BY <1>5, ProfilesDiffer, Zenon
  <2> QED
    BY <1>1, <1>5, <2>1, Hysteria2Built
<1> QED
  BY <1>2, <1>3, <1>4, <1>5 DEF Profiles

----------------------------------------------------------------------------
(* What the actions do to the history                                       *)

Previous == IF history = <<>> THEN NoSnapshot ELSE Latest.s

\* The length of the history is a number that counts its versions.
LEMMA LenIsNat ==
  ASSUME HistoryTypeOK
  PROVE  /\ Len(history) \in Nat
         /\ \A v \in 1..Len(history) : history[v] \in Versions
         /\ history # <<>> <=> Len(history) # 0
  BY DEF HistoryTypeOK

\* A build starts from a snapshot or from none.
LEMMA PreviousIsSnapshot == HistoryTypeOK => Previous \in Snapshots \cup {NoSnapshot}
<1> SUFFICES ASSUME HistoryTypeOK, history # <<>> PROVE Latest.s \in Snapshots
  BY DEF Previous
<1>1. Len(history) \in 1..Len(history)
  BY LenIsNat
<1>2. Latest \in Versions
  BY <1>1, LenIsNat DEF Latest
<1> QED
  BY <1>2 DEF Versions

\* A build appends a version and marks in the others what it has rotated.
LEMMA BuildShape ==
  ASSUME HistoryTypeOK, Build
  PROVE  \E policy \in SUBSET Flags, s \in Snapshots :
           /\ BuiltFrom(s, Previous, policy, Len(history) + 1)
           /\ history' \in Seq(Versions) /\ Len(history') = Len(history) + 1
           /\ history'[Len(history) + 1] = Version(s)
           /\ \A v \in 1..Len(history) :
                history'[v] = [history[v] EXCEPT !.rotated = @ \cup policy]
<1> DEFINE H == Len(history)
           older(policy) == [v \in 1..H |-> [history[v] EXCEPT !.rotated = @ \cup policy]]
<1>1. PICK stored \in StoredPolicies :
        LET policy == from_stored(stored, for_profile(profile, Ports, settings.publicPort,
                                                      settings.externalTls))
        IN  \E s \in build(settings, profile, shareHost, Previous, policy, {}, Open, H + 1) :
              history' = Append(older(policy), Version(s))
  BY DEF Build, Previous
<1> DEFINE policy == from_stored(stored, for_profile(profile, Ports, settings.publicPort,
                                                     settings.externalTls))
<1>2. PICK s \in build(settings, profile, shareHost, Previous, policy, {}, Open, H + 1) :
        history' = Append(older(policy), Version(s))
  BY <1>1
<1>3. policy \in SUBSET Flags
  BY PolicyIsSet DEF HistoryTypeOK
<1>4. H \in Nat /\ \A v \in 1..H : history[v] \in Versions
  BY LenIsNat
<1> HIDE DEF policy
<1>5. BuiltFrom(s, Previous, policy, H + 1)
  <2>1. H + 1 \in Nat
    BY <1>4
  <2>2. Previous \in Snapshots \cup {NoSnapshot}
    BY PreviousIsSnapshot
  <2>3. /\ settings \in Settings /\ Sensible(settings)
        /\ shareHost \in ShareHosts /\ profile \in Profiles
    BY DEF HistoryTypeOK
  <2> HIDE DEF H
  <2> QED
    BY <1>2, <2>1, <2>2, <2>3, Built
<1>6. s \in Snapshots
  BY <1>5 DEF BuiltFrom
<1>7. older(policy) \in [1..H -> Versions]
  BY <1>3, <1>4 DEF Versions
<1>8. older(policy) \in Seq(Versions) /\ Len(older(policy)) = H
  BY <1>4, <1>7, SeqDef
<1>9. Version(s) \in Versions
  BY <1>6 DEF Version, Versions
<1>10. /\ Append(older(policy), Version(s)) \in Seq(Versions)
       /\ Len(Append(older(policy), Version(s))) = H + 1
       /\ Append(older(policy), Version(s))[H + 1] = Version(s)
       /\ \A v \in 1..H : Append(older(policy), Version(s))[v] = older(policy)[v]
  <2> HIDE DEF older, H
  <2> QED
    BY <1>4, <1>8, <1>9
<1> QED
  BY <1>2, <1>3, <1>5, <1>6, <1>10

\* What an edit leaves of a snapshot.
EditedFrom(s, old, field) ==
  /\ s \in Snapshots
  /\ s.client = (IF field = "client" THEN MaxVersion + Len(history) ELSE old.client)
  /\ s.privateKey = (IF field = "key" THEN MaxVersion + Len(history) ELSE old.privateKey)
  /\ field # "port" => s.port = old.port
  /\ s.pair = old.pair /\ s.sids = old.sids /\ s.obfs = old.obfs /\ s.dest = old.dest
  /\ s.names = old.names /\ s.path = old.path /\ s.service = old.service
  /\ s.sni = old.sni /\ s.cert = old.cert /\ s.own = old.own

\* An edit leaves every field alone but the one it is about.
LEMMA EditedFields ==
  ASSUME HistoryTypeOK, NEW old \in Snapshots, NEW field \in {"client", "port", "key"},
         NEW s \in Edited(old, field)
  PROVE  EditedFrom(s, old, field)
<1> DEFINE fresh == MaxVersion + Len(history)
<1>1. fresh \in Nat
  BY LenIsNat, BoundsAreNumbers
<1>2. "client" # "port" /\ "client" # "key" /\ "port" # "key"
  OBVIOUS
<1>3. CASE field = "client"
  <2>1. Edited(old, field) = {[old EXCEPT !.client = fresh]}
    BY <1>2, <1>3, Zenon DEF Edited
  <2> HIDE DEF fresh
  <2>2. s = [old EXCEPT !.client = fresh]
    BY <2>1
  <2>3. s \in Snapshots
    BY <1>1, <2>2 DEF Snapshots
  <2> USE DEF fresh
  <2> QED
    BY <1>3, <2>2, <2>3 DEF EditedFrom, Snapshots
<1>4. CASE field = "port"
  <2>1. Edited(old, field) = {[old EXCEPT !.port = port] : port \in Ports \ {old.port}}
    BY <1>2, <1>4, Zenon DEF Edited
  <2>2. PICK port \in Ports : s = [old EXCEPT !.port = port]
    BY <2>1
  <2>3. s \in Snapshots
    BY <2>2 DEF Snapshots
  <2> QED
    BY <1>4, <2>2, <2>3 DEF EditedFrom, Snapshots
<1>5. CASE field = "key"
  <2>1. Edited(old, field) = {[old EXCEPT !.privateKey = fresh]}
    BY <1>2, <1>5, Zenon DEF Edited
  <2> HIDE DEF fresh
  <2>2. s = [old EXCEPT !.privateKey = fresh]
    BY <2>1
  <2>3. s \in Snapshots
    BY <1>1, <2>2 DEF Snapshots
  <2> USE DEF fresh
  <2> QED
    BY <1>5, <2>2, <2>3 DEF EditedFrom, Snapshots
<1> QED
  BY <1>3, <1>4, <1>5

\* EditConfigData replaces the last snapshot by one such edit.
LEMMA EditShape ==
  ASSUME HistoryTypeOK, EditConfigData
  PROVE  \E field \in {"client", "port", "key"}, s \in Snapshots :
           /\ Len(history) \in 1..Len(history) /\ Latest.edits = {}
           /\ field = "key" => profile = Reality
           /\ EditedFrom(s, Latest.s, field)
           /\ history' \in Seq(Versions) /\ Len(history') = Len(history)
           /\ history'[Len(history)] = [Latest EXCEPT !.s = s, !.edits = {field}]
           /\ \A v \in 1..Len(history) : v # Len(history) =>
                history'[v] = [history[v] EXCEPT !.disturbed = TRUE]
<1> DEFINE H == Len(history)
           edited(field, s) == [v \in 1..H |-> IF v = H
                                  THEN [history[v] EXCEPT !.s = s, !.edits = {field}]
                                  ELSE [history[v] EXCEPT !.disturbed = TRUE]]
<1>1. history # <<>> /\ Latest.edits = {}
  BY Zenon DEF EditConfigData
<1>2. PICK field \in {"client", "port"} \cup (IF profile = Reality THEN {"key"} ELSE {}) :
        \E s \in Edited(Latest.s, field) : history' = edited(field, s)
  BY Zenon DEF EditConfigData
<1>3. field \in {"client", "port", "key"} /\ (field = "key" => profile = Reality)
  BY <1>2
<1>4. PICK s \in Edited(Latest.s, field) : history' = edited(field, s)
  BY <1>2
<1>5. H \in Nat /\ H \in 1..H
  BY <1>1, LenIsNat
<1>6. \A v \in 1..H : history[v] \in Versions
  BY LenIsNat
<1>7. Latest \in Versions /\ Latest.s \in Snapshots
  BY <1>5, <1>6 DEF Latest, Versions
<1>8. EditedFrom(s, Latest.s, field)
  BY <1>3, <1>4, <1>7, EditedFields
<1>9. s \in Snapshots
  BY <1>8 DEF EditedFrom
<1>10. edited(field, s) \in [1..H -> Versions]
  BY <1>3, <1>6, <1>9 DEF Versions
<1>11. edited(field, s) \in Seq(Versions) /\ Len(edited(field, s)) = H
  <2> HIDE DEF edited, H
  <2> QED
    BY <1>5, <1>10, SeqDef
<1>12. /\ history'[H] = [Latest EXCEPT !.s = s, !.edits = {field}]
       /\ \A v \in 1..H : v # H => history'[v] = [history[v] EXCEPT !.disturbed = TRUE]
  BY <1>4, <1>5 DEF Latest
<1> QED
  BY <1>1, <1>3, <1>4, <1>5, <1>8, <1>9, <1>11, <1>12

\* A change of the surroundings leaves the snapshots and marks them all as disturbed.
LEMMA DisturbShape ==
  ASSUME HistoryTypeOK, Disturb
  PROVE  /\ history' \in Seq(Versions) /\ Len(history') = Len(history)
         /\ \A v \in 1..Len(history) : history'[v] = [history[v] EXCEPT !.disturbed = TRUE]
<1> DEFINE H == Len(history)
<1>1. H \in Nat /\ \A v \in 1..H : history[v] \in Versions
  BY LenIsNat
<1>2. history' = [v \in 1..H |-> [history[v] EXCEPT !.disturbed = TRUE]]
  BY DEF Disturb
<1>3. history' \in [1..H -> Versions]
  BY <1>1, <1>2 DEF Versions
<1>4. history' \in Seq(Versions) /\ Len(history') = H
  BY <1>1, <1>3, SeqDef
<1> QED
  BY <1>2, <1>4

----------------------------------------------------------------------------
(* The invariant                                                            *)

\* A version fits as long as it and those before it stay what they are.
LEMMA FitsFrame ==
  ASSUME NEW v \in Nat, VersionFits(v), profile' = profile,
         settings'.externalTls = settings.externalTls, settings'.publicPort = settings.publicPort,
         history'[v].s = history[v].s, history'[v].edits = history[v].edits,
         \A w \in 1..v : history'[w].edits = history[w].edits
  PROVE  VersionFits(v)'
  BY DEF VersionFits

\* Build appends one snapshot made of the previous one under some policy.
LEMMA BuildFields ==
  ASSUME HistoryTypeOK, Build
  PROVE  \E policy \in SUBSET Flags, s \in Snapshots :
           /\ BuiltFrom(s, Previous, policy, Len(history) + 1)
           /\ history' \in Seq(Versions) /\ Len(history') = Len(history) + 1
           /\ Latest' = history'[Len(history) + 1] /\ history'[Len(history) + 1] = Version(s)
           /\ \A v \in 1..Len(history) :
                /\ history'[v].s = history[v].s
                /\ history'[v].rotated = history[v].rotated \cup policy
                /\ history'[v].disturbed = history[v].disturbed
                /\ history'[v].edits = history[v].edits
<1>1. PICK policy \in SUBSET Flags, s \in Snapshots :
        /\ BuiltFrom(s, Previous, policy, Len(history) + 1)
        /\ history' \in Seq(Versions) /\ Len(history') = Len(history) + 1
        /\ history'[Len(history) + 1] = Version(s)
        /\ \A v \in 1..Len(history) :
             history'[v] = [history[v] EXCEPT !.rotated = @ \cup policy]
  BY BuildShape
<1>2. \A v \in 1..Len(history) : history[v] \in Versions
  BY LenIsNat
<1>3. \A v \in 1..Len(history) :
        /\ history'[v].s = history[v].s
        /\ history'[v].rotated = history[v].rotated \cup policy
        /\ history'[v].disturbed = history[v].disturbed
        /\ history'[v].edits = history[v].edits
  BY <1>1, <1>2 DEF Versions
<1>4. Latest' = history'[Len(history) + 1]
  BY <1>1 DEF Latest
<1> QED
  BY <1>1, <1>3, <1>4

\* The settings, the profile and the hosts of a step that builds or edits.
LEMMA SniFrame ==
  ASSUME UNCHANGED <<profile, shareHost, settings>>
  PROVE  SniNow' = SniNow /\ ExternalCert(settings)' = ExternalCert(settings)
  BY DEF SniNow, ExternalCert, TlsServerName

\* Which flag rotates the client depends on the profile alone.
LEMMA ClientFlagFrame == profile' = profile => ClientFlag' = ClientFlag
  BY DEF ClientFlag

\* A build leaves the earlier versions fitting and appends one that fits.
LEMMA BuildFits ==
  ASSUME DeliverySafety, Build
  PROVE  HistoryTypeOK' /\ \A v \in 1..Len(history') : VersionFits(v)' /\ UndisturbedFits(v)'
<1> DEFINE H == Len(history)
<1>1. HistoryTypeOK /\ \A v \in 1..H : VersionFits(v) /\ UndisturbedFits(v)
  BY DEF DeliverySafety
<1>2. H \in Nat /\ MaxVersion \in Nat /\ H < MaxVersion
  BY <1>1, LenIsNat, BoundsAreNumbers DEF Build
<1>3. UNCHANGED <<profile, shareHost, settings>>
  BY DEF Build
<1>4. PICK policy \in SUBSET Flags, s \in Snapshots :
        /\ BuiltFrom(s, Previous, policy, H + 1)
        /\ history' \in Seq(Versions) /\ Len(history') = H + 1
        /\ Latest' = history'[H + 1] /\ history'[H + 1] = Version(s)
        /\ \A v \in 1..H :
             /\ history'[v].s = history[v].s
             /\ history'[v].rotated = history[v].rotated \cup policy
             /\ history'[v].disturbed = history[v].disturbed
             /\ history'[v].edits = history[v].edits
  BY <1>1, BuildFields
<1>5. /\ history'[H + 1].s = s /\ history'[H + 1].rotated = {}
      /\ history'[H + 1].disturbed = FALSE /\ history'[H + 1].edits = {}
  BY <1>4 DEF Version
<1>6. HistoryTypeOK'
  <2>1. Latest'.rotated = {}
    BY <1>4, <1>5
  <2> QED
    BY <1>1, <1>2, <1>3, <1>4, <2>1 DEF HistoryTypeOK, Sensible
<1>7. ASSUME NEW v \in 1..H PROVE VersionFits(v)' /\ UndisturbedFits(v)'
  <2>1. VersionFits(v)'
    BY <1>1, <1>2, <1>3, <1>4, FitsFrame
  <2>2. \A w \in (v + 1)..(H + 1) : w = H + 1 \/ w \in (v + 1)..H
    BY <1>2
  <2>3. UndisturbedFits(v)'
    BY <1>1, <1>2, <1>3, <1>4, <1>5, <2>2, SniFrame DEF UndisturbedFits
  <2> QED
    BY <2>1, <2>3
<1>8. Previous # NoSnapshot => H \in 1..H /\ Previous = history[H].s
  BY <1>1, <1>2, LenIsNat DEF Previous, Latest
<1>9. Previous # NoSnapshot =>
        /\ Previous.client \in Minted(H)
        /\ Previous.sids \in 0..H /\ Previous.obfs \in 0..H /\ Previous.pair \in 0..H
        /\ profile = Reality => dest_hostname(Previous.dest) \in Previous.names
        /\ profile = Hysteria2 /\ settings.publicPort # NoPort
             /\ (\A w \in 1..H : "port" \notin history[w].edits) => Previous.port = settings.publicPort
  BY <1>1, <1>8 DEF VersionFits
<1>10. ASSUME NEW v, v = H + 1 PROVE VersionFits(v)'
  <2>1. /\ s.client \in Minted(H + 1) /\ s.sids \in 0..(H + 1)
        /\ s.obfs \in 0..(H + 1) /\ s.pair \in 0..(H + 1)
    BY <1>2, <1>4, <1>9 DEF BuiltFrom, Minted
  <2>2. profile = Reality => s.own /\ dest_hostname(s.dest) \in s.names
    BY <1>4, <1>9 DEF BuiltFrom
  <2>3. profile = Grpc => s.service \in Among(Services)
    BY <1>4 DEF BuiltFrom
  <2>4. s.privateKey = (IF profile = Reality THEN s.pair ELSE s.cert.key)
        /\ (s.own \/ settings.externalTls) /\ (s.own /\ profile # Reality => s.sni \in s.cert.san)
    BY <1>4 DEF BuiltFrom
  <2>5. profile = Hysteria2 /\ settings.publicPort # NoPort
          /\ (\A w \in 1..(H + 1) : "port" \notin history'[w].edits) => s.port = settings.publicPort
    <3>1. (\A w \in 1..(H + 1) : "port" \notin history'[w].edits)
            => \A w \in 1..H : "port" \notin history[w].edits
      BY <1>2, <1>4
    <3> QED
      BY <1>4, <1>9, <3>1 DEF BuiltFrom
  <2> QED
    BY <1>3, <1>5, <1>10, <2>1, <2>2, <2>3, <2>4, <2>5 DEF VersionFits
<1>11. ASSUME NEW v, v = H + 1 PROVE UndisturbedFits(v)'
  <2>1. s.sni \in SniNow
        /\ (~s.own => s.cert = settings.disk /\ settings.externalTls /\ settings.files = "there")
    BY <1>4 DEF BuiltFrom
  <2>2. (v + 1)..(H + 1) = {}
    BY <1>2, <1>11
  <2> QED
    BY <1>3, <1>4, <1>5, <1>11, <2>1, <2>2, SniFrame DEF UndisturbedFits
<1>12. \A v \in 1..Len(history') : v \in 1..H \/ v = H + 1
  BY <1>2, <1>4
<1> QED
  BY <1>6, <1>7, <1>10, <1>11, <1>12

\* Once there is a version, the next build has it as its previous one.
LEMMA PreviousOfLater ==
  ASSUME HistoryTypeOK, Len(history) # 0
  PROVE  Len(history) \in 1..Len(history) /\ Previous = Latest.s /\ Previous # NoSnapshot
<1>1. Len(history) \in 1..Len(history) /\ history # <<>>
  BY LenIsNat
<1>2. Previous = Latest.s
  BY <1>1 DEF Previous
<1>3. Latest.s \in Snapshots
  BY <1>1, LenIsNat DEF Latest, Versions
<1>4. NoSnapshot.port = NoPort
  BY DEF NoSnapshot
<1> QED
  BY <1>1, <1>2, <1>3, <1>4, PortsAreReal DEF Snapshots

\* What the appended version shares with each earlier one, and what it has rotated.
LEMMA BuildRevokes ==
  ASSUME DeliverySafety, Build
  PROVE  \A v \in 1..Len(history') : Revoked(v)' /\ Kept(v)'
<1> DEFINE H == Len(history)
<1>1. /\ HistoryTypeOK
      /\ \A v \in 1..H : VersionFits(v) /\ UndisturbedFits(v) /\ Revoked(v) /\ Kept(v)
  BY DEF DeliverySafety
<1>2. H \in Nat /\ MaxVersion \in Nat /\ H < MaxVersion
  BY <1>1, LenIsNat, BoundsAreNumbers DEF Build
<1>3. UNCHANGED <<profile, shareHost, settings>>
  BY DEF Build
<1>4. PICK policy \in SUBSET Flags, s \in Snapshots :
        /\ BuiltFrom(s, Previous, policy, H + 1)
        /\ history' \in Seq(Versions) /\ Len(history') = H + 1
        /\ Latest' = history'[H + 1] /\ history'[H + 1] = Version(s)
        /\ \A v \in 1..H :
             /\ history'[v].s = history[v].s
             /\ history'[v].rotated = history[v].rotated \cup policy
             /\ history'[v].disturbed = history[v].disturbed
             /\ history'[v].edits = history[v].edits
  BY <1>1, BuildFields
<1>5. Latest'.s = s /\ history'[H + 1].s = s /\ history'[H + 1].rotated = {}
  BY <1>4 DEF Version
<1>6. ClientFlag' = ClientFlag
  BY <1>3, ClientFlagFrame
<1>7. ASSUME NEW u \in 1..H PROVE Revoked(u)' /\ Kept(u)'
  <2> DEFINE old == history[u].s
  <2>1. Previous = Latest.s /\ Previous # NoSnapshot /\ H \in 1..H
    BY <1>1, <1>2, PreviousOfLater
  <2>2. VersionFits(u) /\ UndisturbedFits(u) /\ Revoked(u) /\ Kept(u) /\ VersionFits(H)
    BY <1>1, <2>1
  <2>3. /\ H + 1 \notin Minted(u) /\ H + 1 \notin 0..u
        /\ old.client \in Minted(u) /\ old.sids \in 0..u /\ old.obfs \in 0..u /\ old.pair \in 0..u
    BY <1>2, <2>2 DEF VersionFits, Minted
  <2>4. /\ ClientFlag \in policy => old.client # s.client
        /\ profile = Reality /\ "reality_keys" \in policy => old.pair # s.pair
        /\ profile = Reality /\ "short_ids" \in policy => old.sids # s.sids
        /\ profile = Hysteria2 /\ "obfs" \in policy => old.obfs # s.obfs
    BY <1>4, <2>3 DEF BuiltFrom
  <2>5. /\ ClientFlag \notin policy => s.client = Latest.s.client
        /\ "port" \notin policy => s.port = Latest.s.port
        /\ profile = Reality /\ "reality_keys" \notin policy => s.pair = Latest.s.pair
        /\ profile = Reality /\ "short_ids" \notin policy => s.sids = Latest.s.sids
        /\ profile = Reality /\ "dest" \notin policy => s.dest = Latest.s.dest
        /\ profile = Xhttp /\ "path" \notin policy => s.path = Latest.s.path
        /\ profile = Hysteria2 /\ "obfs" \notin policy => s.obfs = Latest.s.obfs
        /\ Latest.s.sni \in SniNow => s.sni = Latest.s.sni
    BY <1>4, <2>1 DEF BuiltFrom
  <2>6. profile = Grpc /\ "service_name" \notin policy => s.service = Latest.s.service
    <3>1. profile = Grpc => Latest.s.service \in Among(Services)
      BY <2>2 DEF VersionFits, Latest
    <3> QED
      BY <1>4, <2>1, <3>1 DEF BuiltFrom
  <2>7. Revoked(u)'
    BY <1>3, <1>4, <1>5, <1>6, <2>2, <2>4, <2>5 DEF Revoked
  <2>8. ASSUME ~history[u].disturbed PROVE old.sni = s.sni
    BY <2>2, <2>5, <2>8 DEF UndisturbedFits, Kept
  <2>9. ASSUME ~history[u].disturbed, profile # Reality, "tls" \notin history[u].rotated \cup policy,
               old.own => ExternalCert(settings) = NoCert
        PROVE  old.cert = s.cert /\ old.own = s.own
    <3>1. old \in Snapshots /\ old.own \in BOOLEAN /\ s.own \in BOOLEAN
      BY <1>1, LenIsNat DEF Versions, Snapshots
    <3>2. settings.disk # NoCert
      BY <1>1, DiskIsReal DEF HistoryTypeOK
    <3>3. ~old.own => old.cert = settings.disk /\ settings.externalTls /\ settings.files = "there"
      BY <2>2, <2>9 DEF UndisturbedFits
    <3>4. CASE ExternalCert(settings) # NoCert
      <4>1. s.own = FALSE /\ s.cert = settings.disk
        BY <1>4, <2>9, <3>1, <3>4 DEF BuiltFrom
      <4> QED
        BY <2>9, <3>1, <3>3, <3>4, <4>1
    <3>5. CASE ExternalCert(settings) = NoCert
      <4>1. old.own = TRUE
        BY <3>1, <3>2, <3>3, <3>5 DEF ExternalCert
      <4>2. old.sni \in old.cert.san
        BY <2>2, <2>9, <4>1 DEF VersionFits
      <4>3. old.cert = Latest.s.cert
        BY <2>2, <2>9 DEF Kept
      <4>4. Latest.s.privateKey = Latest.s.cert.key
        BY <2>2, <2>9 DEF VersionFits, Latest
      <4>5. s.own /\ s.cert = Latest.s.cert
        BY <1>4, <2>1, <2>8, <2>9, <3>5, <4>2, <4>3, <4>4 DEF BuiltFrom
      <4> QED
        BY <3>1, <4>1, <4>3, <4>5
    <3> QED
      BY <3>4, <3>5
  <2>10. Kept(u)'
    BY <1>3, <1>4, <1>5, <1>6, <2>2, <2>5, <2>6, <2>8, <2>9, SniFrame DEF Kept
  <2> QED
    BY <2>7, <2>10
<1>8. ASSUME NEW u, u = H + 1 PROVE Revoked(u)' /\ Kept(u)'
  BY <1>4, <1>5, <1>8 DEF Revoked, Kept
<1>9. \A u \in 1..Len(history') : u \in 1..H \/ u = H + 1
  BY <1>2, <1>4
<1> QED
  BY <1>7, <1>8, <1>9

LEMMA BuildKeeps == DeliverySafety /\ Build => DeliverySafety'
  BY BuildFits, BuildRevokes DEF DeliverySafety

\* An edit of the last version disturbs it; the earlier ones keep what is said of them.
LEMMA EditKeeps ==
  ASSUME DeliverySafety, EditConfigData
  PROVE  DeliverySafety'
<1> DEFINE H == Len(history)
<1>1. /\ HistoryTypeOK
      /\ \A v \in 1..H : VersionFits(v) /\ UndisturbedFits(v) /\ Revoked(v) /\ Kept(v)
  BY DEF DeliverySafety
<1>2. UNCHANGED <<profile, shareHost, settings>>
  BY DEF EditConfigData
<1>3. PICK field \in {"client", "port", "key"}, s \in Snapshots :
        /\ H \in 1..H /\ Latest.edits = {}
        /\ field = "key" => profile = Reality
        /\ EditedFrom(s, Latest.s, field)
        /\ history' \in Seq(Versions) /\ Len(history') = H
        /\ history'[H] = [Latest EXCEPT !.s = s, !.edits = {field}]
        /\ \A v \in 1..H : v # H => history'[v] = [history[v] EXCEPT !.disturbed = TRUE]
  BY <1>1, EditShape
<1>4. H \in Nat /\ MaxVersion \in Nat /\ \A v \in 1..H : history[v] \in Versions
  BY <1>1, LenIsNat, BoundsAreNumbers
<1>5. Latest = history[H] /\ Latest' = history'[H]
  BY <1>3 DEF Latest
<1>6. /\ history'[H].s = s /\ history'[H].edits = {field}
      /\ history'[H].rotated = Latest.rotated /\ history'[H].disturbed = Latest.disturbed
  BY <1>3, <1>4, <1>5 DEF Versions
<1>7. \A v \in 1..H : v # H =>
        /\ history'[v].s = history[v].s /\ history'[v].edits = history[v].edits
        /\ history'[v].rotated = history[v].rotated /\ history'[v].disturbed = TRUE
  <2> TAKE v \in 1..H
  <2> HAVE v # H
  <2>1. history[v] \in Versions
    BY <1>4
  <2>2. history'[v] = [history[v] EXCEPT !.disturbed = TRUE]
    BY <1>3
  <2> QED
    BY <2>1, <2>2 DEF Versions
<1>8. Latest.rotated = {}
  BY <1>1, <1>3, LenIsNat DEF HistoryTypeOK
<1>9. HistoryTypeOK'
  <2>1. Latest'.rotated = {}
    BY <1>5, <1>6, <1>8
  <2> QED
    BY <1>1, <1>2, <1>3, <2>1 DEF HistoryTypeOK, Sensible
<1>10. ASSUME NEW v \in 1..H, v # H
       PROVE  VersionFits(v)' /\ UndisturbedFits(v)' /\ Revoked(v)' /\ Kept(v)'
  <2>1. \A w \in 1..v : w \in 1..H /\ w # H
    BY <1>4, <1>10
  <2>2. VersionFits(v)'
    BY <1>1, <1>2, <1>4, <1>7, <1>10, <2>1, FitsFrame
  <2>3. Revoked(v)'
    <3>1. history[v].s.client \in Minted(v) /\ MaxVersion + H \notin Minted(v)
      BY <1>1, <1>4, <1>10 DEF VersionFits, Minted
    <3>2. /\ s.client \in {Latest.s.client, MaxVersion + H}
          /\ s.pair = Latest.s.pair /\ s.sids = Latest.s.sids /\ s.obfs = Latest.s.obfs
      BY <1>3 DEF EditedFrom
    <3> QED
      BY <1>1, <1>2, <1>5, <1>6, <1>7, <1>10, <3>1, <3>2, ClientFlagFrame DEF Revoked
  <2>4. history'[v].disturbed = TRUE
    BY <1>7, <1>10
  <2> QED
    BY <2>2, <2>3, <2>4 DEF UndisturbedFits, Kept
<1>11. ASSUME NEW v, v = H
       PROVE  VersionFits(v)' /\ UndisturbedFits(v)' /\ Revoked(v)' /\ Kept(v)'
  <2>1. VersionFits(H) /\ UndisturbedFits(H)
    BY <1>1, <1>3
  <2>2. Revoked(v)' /\ Kept(v)'
    BY <1>5, <1>6, <1>8, <1>11 DEF Revoked, Kept
  <2>3. VersionFits(v)'
    <3> DEFINE old == history[H].s
    <3>1. EditedFrom(s, old, field) /\ history[H].edits = {}
      BY <1>3, <1>5
    <3>2. s.client \in Minted(H) /\ s.sids \in 0..H /\ s.obfs \in 0..H /\ s.pair \in 0..H
      BY <1>3, <1>4, <2>1, <3>1 DEF VersionFits, EditedFrom, Minted
    <3>3. IF profile = Reality
            THEN s.privateKey = s.pair \/ (field = "key" /\ s.privateKey > MaxVersion)
            ELSE s.privateKey = s.cert.key
      <4>1. old.privateKey = (IF profile = Reality THEN old.pair ELSE old.cert.key)
        BY <2>1, <3>1 DEF VersionFits
      <4>2. MaxVersion + H > MaxVersion
        BY <1>3, <1>4
      <4> QED
        BY <1>3, <3>1, <4>1, <4>2 DEF EditedFrom
    <3>4. /\ profile = Reality => s.own /\ dest_hostname(s.dest) \in s.names
          /\ profile = Grpc => s.service \in Among(Services)
          /\ s.own \/ settings.externalTls
          /\ s.own /\ profile # Reality => s.sni \in s.cert.san
      BY <2>1, <3>1 DEF VersionFits, EditedFrom
    <3>5. profile = Hysteria2 /\ settings.publicPort # NoPort
            /\ (\A w \in 1..H : "port" \notin history'[w].edits) => s.port = settings.publicPort
      <4>1. (\A w \in 1..H : "port" \notin history'[w].edits)
              => field # "port" /\ \A w \in 1..H : "port" \notin history[w].edits
        BY <1>3, <1>6, <1>7, <3>1
      <4> QED
        BY <2>1, <3>1, <4>1 DEF VersionFits, EditedFrom
    <3> QED
      BY <1>2, <1>6, <1>11, <3>2, <3>3, <3>4, <3>5 DEF VersionFits
  <2>4. (v + 1)..Len(history') = {}
    BY <1>3, <1>4, <1>11
  <2>5. s.sni = history[H].s.sni /\ s.own = history[H].s.own /\ s.cert = history[H].s.cert
    BY <1>3, <1>5 DEF EditedFrom
  <2>6. UndisturbedFits(v)'
    BY <1>2, <1>5, <1>6, <1>11, <2>1, <2>4, <2>5, SniFrame DEF UndisturbedFits
  <2> QED
    BY <2>2, <2>3, <2>6
<1> QED
  BY <1>3, <1>9, <1>10, <1>11 DEF DeliverySafety

\* A change of hosts or certificate files keeps the invariant: it disturbs every version.
LEMMA DisturbKeeps ==
  ASSUME DeliverySafety, Disturb, UNCHANGED <<profile, shareHost>>,
         settings' \in Settings, settings'.publicPort = settings.publicPort,
         settings'.externalTls = settings.externalTls
  PROVE  DeliverySafety'
<1> DEFINE H == Len(history)
<1>1. /\ HistoryTypeOK
      /\ \A v \in 1..H : VersionFits(v) /\ Revoked(v)
  BY DEF DeliverySafety
<1>2. /\ history' \in Seq(Versions) /\ Len(history') = H
      /\ \A v \in 1..H : history'[v] = [history[v] EXCEPT !.disturbed = TRUE]
  BY <1>1, DisturbShape
<1>3. H \in Nat /\ \A v \in 1..H : history[v] \in Versions
  BY <1>1, LenIsNat
<1>4. \A v \in 1..H :
        /\ history'[v].s = history[v].s /\ history'[v].edits = history[v].edits
        /\ history'[v].rotated = history[v].rotated /\ history'[v].disturbed = TRUE
  BY <1>2, <1>3 DEF Versions
<1>5. H # 0 => H \in 1..H /\ Latest = history[H] /\ Latest' = history'[H]
  BY <1>2, <1>3 DEF Latest
<1>6. HistoryTypeOK'
  <2>1. history' # <<>> => Latest'.rotated = {}
    BY <1>1, <1>2, <1>3, <1>4, <1>5, LenIsNat DEF HistoryTypeOK
  <2> QED
    BY <1>1, <1>2, <2>1 DEF HistoryTypeOK, Sensible
<1>7. ASSUME NEW v \in 1..H
      PROVE  VersionFits(v)' /\ UndisturbedFits(v)' /\ Revoked(v)' /\ Kept(v)'
  <2>1. VersionFits(v)'
    BY <1>1, <1>3, <1>4, FitsFrame
  <2>2. Revoked(v)'
    BY <1>1, <1>3, <1>4, <1>5, ClientFlagFrame DEF Revoked
  <2> QED
    BY <1>4, <2>1, <2>2 DEF UndisturbedFits, Kept
<1> QED
  BY <1>2, <1>6, <1>7 DEF DeliverySafety

\* Nothing is built yet.
LEMMA SafetyInit == Init => DeliverySafety
<1> SUFFICES ASSUME Init PROVE DeliverySafety
  OBVIOUS
<1>1. history = <<>> /\ history \in Seq(Versions) /\ Len(history) = 0
  BY DEF Init
<1>2. profile \in Profiles /\ shareHost \in ShareHosts
  BY DEF Init
<1>3. settings \in Settings /\ Sensible(settings)
  BY DEF Init
<1>4. 1..Len(history) = {} /\ Len(history) <= MaxVersion
  BY <1>1, BoundsAreNumbers
<1> QED
  BY <1>1, <1>2, <1>3, <1>4 DEF DeliverySafety, HistoryTypeOK

\* A new share host of the profile is such a change.
LEMMA HostChangeKeeps == DeliverySafety /\ ProfileHostChanges => DeliverySafety'
<1> SUFFICES ASSUME DeliverySafety, ProfileHostChanges PROVE DeliverySafety'
  OBVIOUS
<1>1. Disturb /\ UNCHANGED <<profile, shareHost>>
  BY DEF ProfileHostChanges
<1>2. PICK host \in ShareHosts : settings' = [settings EXCEPT !.profileHost = host]
  BY DEF ProfileHostChanges
<1>3. settings \in Settings
  BY DEF DeliverySafety, HistoryTypeOK
<1>4. /\ settings' \in Settings /\ settings'.publicPort = settings.publicPort
      /\ settings'.externalTls = settings.externalTls
  BY <1>2, <1>3 DEF Settings
<1> QED
  BY <1>1, <1>4, DisturbKeeps

\* So are renewed, missing and unreadable certificate files.
LEMMA CertificateChangeKeeps == DeliverySafety /\ CertificateChanges => DeliverySafety'
<1> SUFFICES ASSUME DeliverySafety, CertificateChanges PROVE DeliverySafety'
  OBVIOUS
<1>1. Disturb /\ UNCHANGED <<profile, shareHost>>
  BY DEF CertificateChanges
<1>2. \/ \E n \in 1..MaxChanges : settings' = [settings EXCEPT !.disk = Issued(n)]
      \/ \E files \in {"there", "missing", "unreadable"} :
           settings' = [settings EXCEPT !.files = files]
  BY DEF CertificateChanges
<1>3. settings \in Settings
  BY DEF DeliverySafety, HistoryTypeOK
<1>4. \A n \in 1..MaxChanges : n \in 0..MaxChanges
  BY BoundsAreNumbers
<1>5. /\ settings' \in Settings /\ settings'.publicPort = settings.publicPort
      /\ settings'.externalTls = settings.externalTls
  BY <1>2, <1>3, <1>4 DEF Settings
<1> QED
  BY <1>1, <1>5, DisturbKeeps

\* Each action keeps the invariant.
LEMMA SafetyStep == DeliverySafety /\ [Next]_vars => DeliverySafety'
<1> SUFFICES ASSUME DeliverySafety, [Next]_vars PROVE DeliverySafety'
  OBVIOUS
<1>1. CASE UNCHANGED vars
  <2>1. UNCHANGED <<profile, shareHost, settings, history>>
    BY <1>1 DEF vars
  <2>2. SniNow' = SniNow /\ ExternalCert(settings)' = ExternalCert(settings)
        /\ ClientFlag' = ClientFlag /\ Latest' = Latest
    BY <2>1, SniFrame, ClientFlagFrame DEF Latest
  <2>3. HistoryTypeOK'
    BY <2>1, <2>2 DEF DeliverySafety, HistoryTypeOK, Sensible
  <2>4. ASSUME NEW v \in 1..Len(history)
        PROVE  VersionFits(v)' /\ UndisturbedFits(v)' /\ Revoked(v)' /\ Kept(v)'
    <3>1. VersionFits(v) /\ UndisturbedFits(v) /\ Revoked(v) /\ Kept(v)
      BY DEF DeliverySafety
    <3>2. VersionFits(v)'
      BY <2>1, <3>1 DEF VersionFits
    <3>3. UndisturbedFits(v)'
      BY <2>1, <2>2, <3>1 DEF UndisturbedFits
    <3>4. Revoked(v)'
      BY <2>1, <2>2, <3>1 DEF Revoked
    <3>5. Kept(v)'
      BY <2>1, <2>2, <3>1 DEF Kept
    <3> QED
      BY <3>2, <3>3, <3>4, <3>5
  <2> QED
    BY <2>1, <2>3, <2>4 DEF DeliverySafety
<1> QED
  BY <1>1, BuildKeeps, EditKeeps, HostChangeKeeps, CertificateChangeKeeps DEF Next

\* What every version is, what tells the last one from those whose secrets were
\* rotated, and what it shares with those left alone, in every reachable state.
THEOREM AlwaysSafe == Spec => []DeliverySafety
<1> QED
  BY SafetyInit, SafetyStep, PTL DEF Spec

----------------------------------------------------------------------------
(* What follows from it                                                     *)

\* Versions are of their kind, only an edit parts a Reality key pair, and
\* nothing parts a certificate from its key.
LEMMA TypesFollow == DeliverySafety => DeliveryTypeOK
<1> SUFFICES ASSUME DeliverySafety PROVE DeliveryTypeOK
  OBVIOUS
<1>1. HistoryTypeOK /\ \A v \in 1..Len(history) : VersionFits(v)
  BY DEF DeliverySafety
<1>2. \A v \in 1..Len(history) : history[v].s.port \in Ports
  BY <1>1, LenIsNat DEF Versions, Snapshots
<1>3. \A v \in 1..Len(history) :
        /\ IF profile = Reality
             THEN history[v].s.privateKey = history[v].s.pair \/ "key" \in history[v].edits
             ELSE history[v].s.privateKey = history[v].s.cert.key
        /\ history[v].s.own \/ settings.externalTls
  BY <1>1 DEF VersionFits
<1> QED
  BY <1>1, <1>2, <1>3 DEF DeliveryTypeOK, HistoryTypeOK

\* Every version of every config is of its kind, however often it is built and
\* edited (build, UpdateConfigDataUseCase).
THEOREM DeliveryTyped == Spec => []DeliveryTypeOK
  BY AlwaysSafe, TypesFollow, PTL

\* A certificate the panel made names the host that clients ask for, through
\* every reuse (_try_reuse_tls).
THEOREM OwnCertsCover == Spec => []OwnCertCoversSni
<1>1. DeliverySafety => OwnCertCoversSni
  BY DEF DeliverySafety, OwnCertCoversSni, VersionFits
<1> QED
  BY <1>1, AlwaysSafe, PTL

----------------------------------------------------------------------------
(* Links, and the server's answer to them                                   *)

\* What a link carries, profile by profile.
LEMMA LinkCarries ==
  ASSUME profile \in Profiles, NEW s, NEW secure \in BOOLEAN,
         NEW p, p = LinkParams(profile, s, secure)
  PROVE  /\ p.client = s.client
         /\ profile = Reality => /\ p.pbk = s.pair /\ p.sid = s.sids /\ p.pin = NoCert
                                 /\ p.sni = dest_hostname(s.dest)
         /\ profile = Xhttp => p.xhost = s.sni /\ p.path = s.path
         /\ profile = Grpc => p.service = s.service
         /\ profile = Hysteria2 => p.obfs = s.obfs
         /\ profile # Reality => p.pin = IF secure THEN s.cert ELSE NoCert
<1> DEFINE pin == IF secure THEN s.cert ELSE NoCert
<1>1. CASE profile = Reality
  <2>1. p = [NoParams EXCEPT !.client = s.client, !.pbk = s.pair, !.sid = s.sids,
                             !.sni = reality_share_sni(s)]
    BY <1>1, ProfilesDiffer, Zenon DEF LinkParams
  <2> QED
    BY <1>1, <2>1, ProfilesDiffer DEF NoParams, reality_share_sni
<1>2. CASE profile = Xhttp
  <2>1. p = [NoParams EXCEPT !.client = s.client, !.xhost = s.sni, !.path = s.path,
                             !.sni = s.sni, !.pin = pin]
    BY <1>2, ProfilesDiffer, Zenon DEF LinkParams
  <2> QED
    BY <1>2, <2>1, ProfilesDiffer DEF NoParams
<1>3. CASE profile = Grpc
  <2>1. p = [NoParams EXCEPT !.client = s.client, !.service = s.service,
                             !.sni = s.sni, !.pin = pin]
    BY <1>3, ProfilesDiffer, Zenon DEF LinkParams
  <2> QED
    BY <1>3, <2>1, ProfilesDiffer DEF NoParams
<1>4. CASE profile = Hysteria2
  <2>1. p = [NoParams EXCEPT !.client = s.client, !.obfs = s.obfs,
                             !.sni = s.sni, !.pin = pin]
    BY <1>4, ProfilesDiffer, Zenon DEF LinkParams
  <2> QED
    BY <1>4, <2>1, ProfilesDiffer DEF NoParams
<1> QED
  BY <1>1, <1>2, <1>3, <1>4 DEF Profiles

\* What a server asks of a client, profile by profile.
LEMMA ServerAsks ==
  ASSUME profile \in Profiles, NEW s, NEW served, NEW p
  PROVE  Admits(profile, s, served, p) <=>
           /\ p.client = s.client
           /\ p.pin = NoCert \/ p.pin = served
           /\ profile = Reality => p.pbk = s.privateKey /\ p.sid = s.sids /\ p.sni \in s.names
           /\ profile = Xhttp => p.xhost = s.sni /\ p.path = s.path
           /\ profile = Grpc => p.service = s.service
           /\ profile = Hysteria2 => p.obfs = s.obfs
<1> DEFINE asked ==
      CASE profile = Reality   -> /\ p.pbk = s.privateKey
                                  /\ p.sid = s.sids
                                  /\ p.sni \in s.names
        [] profile = Xhttp     -> p.xhost = s.sni /\ p.path = s.path
        [] profile = Grpc      -> p.service = s.service
        [] profile = Hysteria2 -> p.obfs = s.obfs
<1>1. profile = Reality =>
        (asked <=> p.pbk = s.privateKey /\ p.sid = s.sids /\ p.sni \in s.names)
  BY ProfilesDiffer, Zenon
<1>2. profile = Xhttp => (asked <=> p.xhost = s.sni /\ p.path = s.path)
  BY ProfilesDiffer, Zenon
<1>3. profile = Grpc => (asked <=> p.service = s.service)
  BY ProfilesDiffer, Zenon
<1>4. profile = Hysteria2 => (asked <=> p.obfs = s.obfs)
  BY ProfilesDiffer, Zenon
<1>5. Admits(profile, s, served, p) <=>
        p.client = s.client /\ (p.pin = NoCert \/ p.pin = served) /\ asked
  BY Zenon DEF Admits
<1> HIDE DEF asked
<1> QED
  BY <1>1, <1>2, <1>3, <1>4, <1>5, ProfilesDiffer DEF Profiles

\* The secrets of a profile.
LEMMA SecretsOf ==
  /\ profile = Reality => Secrets = {"client_id", "reality_keys", "short_ids"}
  /\ profile \in {Xhttp, Grpc} => Secrets = {"client_id"}
  /\ profile = Hysteria2 => Secrets = {"auth", "obfs"}
<1>1. profile = Reality => Secrets = {"client_id", "reality_keys", "short_ids"}
  BY ProfilesDiffer, Zenon DEF Secrets
<1>2. profile \in {Xhttp, Grpc} => Secrets = {"client_id"}
  BY ProfilesDiffer, Zenon DEF Secrets
<1>3. profile = Hysteria2 => Secrets = {"auth", "obfs"}
  BY ProfilesDiffer, Zenon DEF Secrets
<1> QED
  BY <1>1, <1>2, <1>3

\* A link of a version whose secret was rotated since fails on that secret.
LEMMA RevocationFollows == DeliverySafety => RotationRevokes
<1> SUFFICES ASSUME DeliverySafety, NEW u \in 1..Len(history), NEW secure \in BOOLEAN,
                    history[u].rotated \cap Secrets # {}
             PROVE  ~AcceptsNow(Latest, LinkOf(history[u], secure))
  BY DEF RotationRevokes
<1> DEFINE old == history[u].s
           p == LinkParams(profile, old, secure)
<1>1. HistoryTypeOK /\ VersionFits(u) /\ Revoked(u) /\ profile \in Profiles
  BY DEF DeliverySafety, HistoryTypeOK
<1>2. VersionFits(Len(history)) /\ Latest = history[Len(history)]
  BY <1>1, LenIsNat DEF DeliverySafety, Latest
<1>3. /\ p.client = old.client
      /\ profile = Reality => p.pbk = old.pair /\ p.sid = old.sids
      /\ profile = Hysteria2 => p.obfs = old.obfs
  BY <1>1, LinkCarries
<1>4. LinkOf(history[u], secure).params = p
  BY DEF LinkOf, Link
<1> HIDE DEF p
<1>5. AcceptsNow(Latest, LinkOf(history[u], secure)) => Admits(profile, Latest.s, Served(Latest), p)
  BY <1>4 DEF AcceptsNow, Accepts
<1>6. Admits(profile, Latest.s, Served(Latest), p) =>
        /\ p.client = Latest.s.client
        /\ profile = Reality => p.pbk = Latest.s.privateKey /\ p.sid = Latest.s.sids
        /\ profile = Hysteria2 => p.obfs = Latest.s.obfs
  BY <1>1, ServerAsks
<1>7. \/ ClientFlag \in history[u].rotated
      \/ profile = Reality /\ "reality_keys" \in history[u].rotated
      \/ profile = Reality /\ "short_ids" \in history[u].rotated
      \/ profile = Hysteria2 /\ "obfs" \in history[u].rotated
  BY <1>1, SecretsOf, ProfilesDiffer DEF ClientFlag, Profiles
<1>8. profile = Reality /\ old.pair # Latest.s.pair => old.pair # Latest.s.privateKey
  <2>1. old.pair \in 0..u /\ u <= MaxVersion
    BY <1>1, LenIsNat, BoundsAreNumbers DEF VersionFits, HistoryTypeOK
  <2>2. profile = Reality =>
          Latest.s.privateKey = Latest.s.pair \/ Latest.s.privateKey > MaxVersion
    BY <1>2 DEF VersionFits
  <2> QED
    BY <2>1, <2>2, BoundsAreNumbers
<1> QED
  BY <1>1, <1>3, <1>5, <1>6, <1>7, <1>8 DEF Revoked

\* No link of before a rotation is ever let in again: whatever later builds
\* keep, a number a build has minted does not come back.
THEOREM RotatedIsRevoked == Spec => []RotationRevokes
  BY AlwaysSafe, RevocationFollows, PTL

\* What a server has to be asked for, and by whom.
LEMMA ReachesBy ==
  ASSUME NEW s, NEW dial
  PROVE  /\ settings.publicPort = NoPort => (Reaches(settings, profile, s, dial) <=> dial.port = s.port)
         /\ settings.publicPort # NoPort /\ profile # Hysteria2 /\ dial.port = settings.publicPort
              => Reaches(settings, profile, s, dial)
         /\ profile = Hysteria2 => (Reaches(settings, profile, s, dial) <=> dial.port = s.port)
  BY DEF Reaches

\* What a link dials, field by field.
LEMMA LinkDials ==
  ASSUME NEW version, NEW secure
  PROVE  LET link == LinkOf(version, secure)
         IN  /\ link.host = TlsServerName(shareHost, settings.profileHost)
             /\ link.port = IF settings.publicPort # NoPort THEN settings.publicPort
                                                           ELSE version.s.port
             /\ link.params = LinkParams(profile, version.s, secure)
  BY DEF LinkOf, Link, LinkPort

\* The links of the last version connect.
LEMMA ConnectionFollows == DeliverySafety => LinksConnect
<1> DEFINE H == Len(history)
           moved == profile = Hysteria2 /\ settings.publicPort # NoPort
                      /\ Latest.s.port # settings.publicPort
<1> SUFFICES ASSUME DeliverySafety, history # <<>>, NEW secure \in BOOLEAN,
                    ~(secure /\ ~Latest.s.own /\ Latest.s.cert # settings.disk),
                    "key" \notin Latest.edits,
                    ~(moved /\ \E v \in 1..H : "port" \in history[v].edits)
             PROVE  AcceptsNow(Latest, LinkOf(Latest, secure))
  BY Zenon DEF LinksConnect
<1> DEFINE s == Latest.s
           link == LinkOf(Latest, secure)
           p == LinkParams(profile, s, secure)
<1>1. HistoryTypeOK /\ profile \in Profiles /\ H \in 1..H /\ Latest = history[H]
  BY LenIsNat DEF DeliverySafety, HistoryTypeOK, Latest
<1>2. VersionFits(H)
  BY <1>1 DEF DeliverySafety
<1>3. link.params = p /\ link.port = IF settings.publicPort # NoPort THEN settings.publicPort
                                                                     ELSE s.port
  BY LinkDials
<1>4. Reaches(settings, profile, s, link)
  <2>1. profile = Hysteria2 /\ settings.publicPort # NoPort => s.port = settings.publicPort
    BY <1>1, <1>2 DEF VersionFits
  <2> QED
    BY <1>3, <2>1, ReachesBy
<1>5. /\ p.client = s.client
      /\ profile = Reality => /\ p.pbk = s.pair /\ p.sid = s.sids /\ p.pin = NoCert
                              /\ p.sni = dest_hostname(s.dest)
      /\ profile = Xhttp => p.xhost = s.sni /\ p.path = s.path
      /\ profile = Grpc => p.service = s.service
      /\ profile = Hysteria2 => p.obfs = s.obfs
      /\ profile # Reality => p.pin = IF secure THEN s.cert ELSE NoCert
  BY <1>1, LinkCarries
<1>6. p.pin = NoCert \/ p.pin = Served(Latest)
  BY <1>5 DEF Served
<1>7. profile = Reality => s.pair = s.privateKey /\ dest_hostname(s.dest) \in s.names
  BY <1>1, <1>2 DEF VersionFits
<1> HIDE DEF p, link
<1>8. Admits(profile, s, Served(Latest), link.params)
  BY <1>1, <1>3, <1>5, <1>6, <1>7, ServerAsks
<1> QED
  BY <1>4, <1>8 DEF AcceptsNow, Accepts, link

\* Whoever is handed a link of the running version gets in, however it came to
\* be (build_client_uris and what the builds write for the server).
THEOREM LinksAlwaysConnect == Spec => []LinksConnect
  BY AlwaysSafe, ConnectionFollows, PTL

\* What a probe's client carries is what a secure link does.
LEMMA ProbeCarries ==
  ASSUME profile \in Profiles, NEW s
  PROVE  ProbeParams(profile, s) = LinkParams(profile, s, TRUE)
<1>1. CASE profile = Reality
  BY <1>1, ProfilesDiffer, Zenon DEF ProbeParams, LinkParams
<1>2. CASE profile = Xhttp
  <2>1. ProbeParams(profile, s) = [NoParams EXCEPT !.client = s.client, !.sni = s.sni, !.pin = s.cert,
                                                   !.xhost = s.sni, !.path = s.path]
    BY <1>2, ProfilesDiffer, Zenon DEF ProbeParams
  <2>2. LinkParams(profile, s, TRUE) =
          [NoParams EXCEPT !.client = s.client, !.xhost = s.sni, !.path = s.path,
                           !.sni = s.sni, !.pin = IF TRUE THEN s.cert ELSE NoCert]
    BY <1>2, ProfilesDiffer, Zenon DEF LinkParams
  <2> QED
    BY <2>1, <2>2 DEF NoParams
<1>3. CASE profile = Grpc
  <2>1. ProbeParams(profile, s) = [NoParams EXCEPT !.client = s.client, !.sni = s.sni, !.pin = s.cert,
                                                   !.service = s.service]
    BY <1>3, ProfilesDiffer, Zenon DEF ProbeParams
  <2>2. LinkParams(profile, s, TRUE) =
          [NoParams EXCEPT !.client = s.client, !.service = s.service,
                           !.sni = s.sni, !.pin = IF TRUE THEN s.cert ELSE NoCert]
    BY <1>3, ProfilesDiffer, Zenon DEF LinkParams
  <2> QED
    BY <2>1, <2>2 DEF NoParams
<1>4. CASE profile = Hysteria2
  <2>1. ProbeParams(profile, s) = [NoParams EXCEPT !.client = s.client, !.sni = s.sni, !.pin = s.cert,
                                                   !.obfs = s.obfs]
    BY <1>4, ProfilesDiffer, Zenon DEF ProbeParams
  <2>2. LinkParams(profile, s, TRUE) =
          [NoParams EXCEPT !.client = s.client, !.obfs = s.obfs,
                           !.sni = s.sni, !.pin = IF TRUE THEN s.cert ELSE NoCert]
    BY <1>4, ProfilesDiffer, Zenon DEF LinkParams
  <2> QED
    BY <2>1, <2>2 DEF NoParams
<1> QED
  BY <1>1, <1>2, <1>3, <1>4 DEF Profiles

\* A probe of a config behind the mux dials its clients' address only.
LEMMA ProbeFollows == DeliverySafety => ProbeActsAsClient
<1> SUFFICES ASSUME DeliverySafety, history # <<>>,
                    NEW dial \in ProbeDials(settings, profile, shareHost, Latest.s)
             PROVE  LET link == LinkOf(Latest, TRUE)
                    IN  /\ settings.publicPort # NoPort => dial.host = link.host /\ dial.port = link.port
                        /\ AcceptsNow(Latest, dial) <=> AcceptsNow(Latest, link)
  BY DEF ProbeActsAsClient
<1> DEFINE s == Latest.s
           link == LinkOf(Latest, TRUE)
<1>1. profile \in Profiles /\ settings \in Settings /\ shareHost \in ShareHosts
  BY DEF DeliverySafety, HistoryTypeOK
<1>2. PICK host \in ProbeHosts(settings, shareHost) :
        dial = [host |-> host, port |-> ProbePort(settings, s, host), params |-> ProbeParams(profile, s)]
  BY DEF ProbeDials
<1>3. /\ link.host = TlsServerName(shareHost, settings.profileHost)
      /\ link.port = IF settings.publicPort # NoPort THEN settings.publicPort ELSE s.port
      /\ link.params = LinkParams(profile, s, TRUE)
  BY LinkDials
<1>4. ProbeParams(profile, s) = LinkParams(profile, s, TRUE)
  BY <1>1, ProbeCarries
<1> HIDE DEF link, s
<1>5. dial.params = link.params /\ dial.host = host /\ dial.port = ProbePort(settings, s, host)
  BY <1>2, <1>3, <1>4
<1>6. CASE settings.publicPort = NoPort
  <2>1. dial.port = s.port /\ link.port = s.port
    BY <1>3, <1>5, <1>6 DEF ProbePort
  <2> QED
    BY <1>5, <1>6, <2>1, ReachesBy DEF AcceptsNow, Accepts, link, s
<1>7. CASE settings.publicPort # NoPort
  <2>1. host = TlsServerName(shareHost, settings.profileHost)
        /\ host \in {shareHost, settings.profileHost}
    BY <1>7 DEF ProbeHosts, PreferHost, AllowLoopback, TlsServerName
  <2>2. host # Loopback
    BY <1>1, <2>1, HostsAreNamed DEF Settings
  <2>3. dial.port = settings.publicPort
    BY <1>5, <1>7, <2>2 DEF ProbePort
  <2>4. dial.host = link.host /\ dial.port = link.port
    BY <1>3, <1>5, <1>7, <2>1, <2>3
  <2>5. Reaches(settings, profile, s, dial) <=> Reaches(settings, profile, s, link)
    BY <2>4 DEF Reaches
  <2> QED
    BY <1>5, <2>4, <2>5 DEF AcceptsNow, Accepts, link, s
<1> QED
  BY <1>6, <1>7

\* docs/DEPLOY.md:236 for any hosts and ports (_probe_connect_hosts and
\* _probe_dial_port).
THEOREM ProbesAreClients == Spec => []ProbeActsAsClient
  BY AlwaysSafe, ProbeFollows, PTL

\* The flags a link depends on.
LEMMA CarriedOf ==
  ASSUME NEW secure \in BOOLEAN
  PROVE  /\ profile = Reality => Carried(secure) = {"client_id", "reality_keys", "short_ids", "dest"}
         /\ profile = Xhttp =>
              Carried(secure) = {"client_id", "path"} \cup (IF secure THEN {"tls"} ELSE {})
         /\ profile = Grpc =>
              Carried(secure) = {"client_id", "service_name"} \cup (IF secure THEN {"tls"} ELSE {})
         /\ profile = Hysteria2 =>
              Carried(secure) = {"auth", "obfs"} \cup (IF secure THEN {"tls"} ELSE {})
<1>1. profile = Reality => Carried(secure) = {"client_id", "reality_keys", "short_ids", "dest"}
  BY ProfilesDiffer, Zenon DEF Carried
<1>2. profile = Xhttp =>
        Carried(secure) = {"client_id", "path"} \cup (IF secure THEN {"tls"} ELSE {})
  BY ProfilesDiffer, Zenon DEF Carried
<1>3. profile = Grpc =>
        Carried(secure) = {"client_id", "service_name"} \cup (IF secure THEN {"tls"} ELSE {})
  BY ProfilesDiffer, Zenon DEF Carried
<1>4. profile = Hysteria2 =>
        Carried(secure) = {"auth", "obfs"} \cup (IF secure THEN {"tls"} ELSE {})
  BY ProfilesDiffer, Zenon DEF Carried
<1> QED
  BY <1>1, <1>2, <1>3, <1>4

\* A link connects to every later version that has rotated nothing it carries.
LEMMA KeepingFollows == DeliverySafety => UnrotatedKeepsLinks
<1> DEFINE H == Len(history)
<1> SUFFICES ASSUME DeliverySafety, NEW u \in 1..H, NEW secure \in BOOLEAN,
                    ~history[u].disturbed,
                    history[u].rotated \cap (Carried(secure) \cup CarriedPort) = {},
                    history[u].s.own => ExternalCert(settings) = NoCert,
                    "key" \notin history[u].edits,
                    profile = Hysteria2 => \A v \in 1..u : "port" \notin history[v].edits
             PROVE  AcceptsNow(Latest, LinkOf(history[u], secure))
  BY Zenon DEF UnrotatedKeepsLinks
<1> DEFINE old == history[u].s
           s == Latest.s
           r == history[u].rotated
           link == LinkOf(history[u], secure)
           p == LinkParams(profile, old, secure)
<1>1. HistoryTypeOK /\ profile \in Profiles /\ H \in 1..H /\ Latest = history[H]
  BY LenIsNat DEF DeliverySafety, HistoryTypeOK, Latest
<1>2. VersionFits(u) /\ VersionFits(H) /\ UndisturbedFits(u) /\ Kept(u)
  BY <1>1 DEF DeliverySafety
<1>3. link.params = p /\ link.port = IF settings.publicPort # NoPort THEN settings.publicPort
                                                                     ELSE old.port
  BY LinkDials
<1>4. /\ p.client = old.client
      /\ profile = Reality => /\ p.pbk = old.pair /\ p.sid = old.sids /\ p.pin = NoCert
                              /\ p.sni = dest_hostname(old.dest)
      /\ profile = Xhttp => p.xhost = old.sni /\ p.path = old.path
      /\ profile = Grpc => p.service = old.service
      /\ profile = Hysteria2 => p.obfs = old.obfs
      /\ profile # Reality => p.pin = IF secure THEN old.cert ELSE NoCert
  BY <1>1, LinkCarries
<1>5. /\ ClientFlag \notin r
      /\ profile = Reality => "reality_keys" \notin r /\ "short_ids" \notin r /\ "dest" \notin r
      /\ profile = Xhttp => "path" \notin r
      /\ profile = Grpc => "service_name" \notin r
      /\ profile = Hysteria2 => "obfs" \notin r
      /\ profile # Reality /\ secure => "tls" \notin r
  BY <1>1, CarriedOf, ProfilesDiffer DEF ClientFlag, Profiles
<1>6. settings.publicPort = NoPort \/ profile = Hysteria2 => "port" \notin r
  BY DEF CarriedPort
<1>7. Reaches(settings, profile, s, link)
  <2>1. "port" \notin r => old.port = s.port
    BY <1>2 DEF Kept
  <2>2. profile = Hysteria2 /\ settings.publicPort # NoPort => old.port = settings.publicPort
    BY <1>2 DEF VersionFits
  <2> QED
    BY <1>3, <1>6, <2>1, <2>2, ReachesBy
<1>8. /\ old.client = s.client /\ old.sni = s.sni
      /\ profile = Reality => old.pair = s.pair /\ old.sids = s.sids /\ old.dest = s.dest
      /\ profile = Xhttp => old.path = s.path
      /\ profile = Grpc => old.service = s.service
      /\ profile = Hysteria2 => old.obfs = s.obfs
      /\ profile # Reality /\ secure => old.cert = s.cert /\ old.own = s.own
  BY <1>2, <1>5 DEF Kept
<1>9. profile = Reality => s.pair = s.privateKey /\ dest_hostname(s.dest) \in s.names
  <2>1. "key" \notin history[H].edits
    <3>1. CASE u = H
      BY <3>1
    <3>2. CASE u # H
      <4>1. H \in (u + 1)..H
        BY <1>1, <3>2, LenIsNat
      <4> QED
        BY <1>2, <4>1 DEF UndisturbedFits
    <3> QED
      BY <3>1, <3>2
  <2> QED
    BY <1>1, <1>2, <2>1 DEF VersionFits
<1>10. profile # Reality /\ secure => old.cert = Served(Latest)
  BY <1>2, <1>8 DEF Served, UndisturbedFits
<1>11. p.pin = NoCert \/ p.pin = Served(Latest)
  BY <1>4, <1>10
<1> HIDE DEF p, link
<1>12. Admits(profile, s, Served(Latest), link.params)
  BY <1>1, <1>3, <1>4, <1>8, <1>9, <1>11, ServerAsks
<1> QED
  BY <1>7, <1>12 DEF AcceptsNow, Accepts, link

\* Links survive every regenerate that rotates nothing they carry, over any
\* number of builds.
THEOREM UnrotatedStays == Spec => []UnrotatedKeepsLinks
  BY AlwaysSafe, KeepingFollows, PTL

=============================================================================
