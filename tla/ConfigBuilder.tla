---------------------------- MODULE ConfigBuilder ----------------------------
(***************************************************************************)
(* ProfileConfigBuilder (infrastructure/vpn/config_builder.py): the        *)
(* snapshot a build makes from the previous one, the policy and the        *)
(* profile's settings.  A fresh secret is named by the number n of the     *)
(* build that mints it; a random choice is the set of its outcomes.        *)
(***************************************************************************)
EXTENDS RegeneratePolicy, PortPicker

CONSTANTS
  Ports,       \* port_candidates
  PanelPort,   \* server.port
  PublicHost,  \* vpn.public_host
  Dests,       \* reality_dest_hosts, pairs of a hostname and a port
  Paths,       \* xhttp_paths
  Services,    \* grpc_service_names
  GrpcSnis     \* grpc_sni_hosts

ASSUME ConfigBuilderAssumption ==
  /\ Ports \subseteq Nat \ {NoPort} /\ PanelPort \in Nat
  /\ PublicHost # "" /\ "" \notin GrpcSnis /\ Dests # {}

NoCert == [key |-> 0, san |-> {}]

\* The version row and its config_data.  client is the client id, for Hysteria
\* the password.  The column private_key is the Reality private key or that of
\* the certificate; public_key holds the Reality key pair's public half (pair)
\* or the certificate (cert); cert_fingerprint is that of cert.
\* own: the inbound reads the certificate from the config's own directory.
NoSnapshot == [port |-> NoPort, client |-> 0, privateKey |-> 0, pair |-> 0, sids |-> 0,
               dest |-> <<"", 0>>, names |-> {}, path |-> "", service |-> "",
               sni |-> "", obfs |-> 0, cert |-> NoCert, own |-> TRUE]

dest_hostname(dest) == dest[1]

\* _tls_server_name and _effective_share_host: the first host that is set.
TlsServerName(shareHost, profileHost) ==
  IF shareHost # "" THEN shareHost
  ELSE IF profileHost # "" THEN profileHost ELSE PublicHost

\* Mutant: a policy that rotates nothing.
Keeps_Always(prev, policy, flag) == prev # NoSnapshot

\* Every secret is kept under the same condition: there is one, and the policy
\* does not rotate it.
Keeps(prev, policy, flag) == prev # NoSnapshot /\ flag \notin policy

\* One of what the profile's list offers, or what the template holds.
Among(list) == IF list = {} THEN {""} ELSE list

----------------------------------------------------------------------------
(* TLS                                                                      *)

\* _load_external_tls: the profile's PEM pair, when it is there and matches.
ExternalCert(settings) ==
  IF settings.externalTls /\ settings.files = "there" THEN settings.disk ELSE NoCert

\* Its PermissionError: the pair may be there, and nobody lets the worker look.
CannotLoadTls(settings, policy) ==
  "tls" \notin policy /\ settings.externalTls /\ settings.files = "unreadable"

\* Mutant: the name the certificate is for is not looked at.
try_reuse_tls_AnyName(prev, name) == prev # NoSnapshot /\ prev.privateKey = prev.cert.key

\* _try_reuse_tls: the previous certificate still names the host, and the stored
\* private key is its own.
try_reuse_tls(prev, name) ==
  prev # NoSnapshot /\ name \in prev.cert.san /\ prev.privateKey = prev.cert.key

\* generate_self_signed_cert
SelfSigned(name, n) == [key |-> n, san |-> {name}]

\* Mutant: without the profile's files a new certificate is minted every time.
resolve_tls_NoReuse(settings, prev, policy, name, n) ==
  IF "tls" \notin policy /\ ExternalCert(settings) # NoCert
    THEN [cert |-> ExternalCert(settings), own |-> FALSE]
    ELSE [cert |-> SelfSigned(name, n), own |-> TRUE]

\* _resolve_tls: the profile's certificate, else the previous one, written to
\* the config's own directory, else a new one.
resolve_tls(settings, prev, policy, name, n) ==
  IF "tls" \notin policy /\ ExternalCert(settings) # NoCert
    THEN [cert |-> ExternalCert(settings), own |-> FALSE]
  ELSE IF "tls" \notin policy /\ try_reuse_tls(prev, name)
    THEN [cert |-> prev.cert, own |-> TRUE]
  ELSE [cert |-> SelfSigned(name, n), own |-> TRUE]

----------------------------------------------------------------------------
(* The builds of the four profiles                                          *)

\* Mutant: serverNames stay what the template says.
BuildReality_OldNames(prev, policy, port, n) ==
  LET keepDest == Keeps(prev, policy, "dest")
      pair     == IF Keeps(prev, policy, "reality_keys") THEN prev.pair ELSE n
  IN  {[NoSnapshot EXCEPT
          !.port       = port,
          !.client     = IF Keeps(prev, policy, "client_id") THEN prev.client ELSE n,
          !.privateKey = pair,
          !.pair       = pair,
          !.sids       = IF Keeps(prev, policy, "short_ids") THEN prev.sids ELSE n,
          !.dest       = dest,
          !.names      = IF prev # NoSnapshot THEN prev.names ELSE {dest_hostname(dest)}] :
       dest \in IF keepDest THEN {prev.dest} ELSE Dests}

\* Mutant: a kept key pair loses its public half.
BuildReality_NewPair(prev, policy, port, n) ==
  LET keepDest == Keeps(prev, policy, "dest")
      pair     == IF Keeps(prev, policy, "reality_keys") THEN prev.pair ELSE n
  IN  {[NoSnapshot EXCEPT
          !.port       = port,
          !.client     = IF Keeps(prev, policy, "client_id") THEN prev.client ELSE n,
          !.privateKey = pair,
          !.pair       = n,
          !.sids       = IF Keeps(prev, policy, "short_ids") THEN prev.sids ELSE n,
          !.dest       = dest,
          !.names      = IF keepDest THEN prev.names ELSE {dest_hostname(dest)}] :
       dest \in IF keepDest THEN {prev.dest} ELSE Dests}

\* _build_xray_reality
BuildReality(prev, policy, port, n) ==
  LET keepDest == Keeps(prev, policy, "dest")
      pair     == IF Keeps(prev, policy, "reality_keys") THEN prev.pair ELSE n
  IN  {[NoSnapshot EXCEPT
          !.port       = port,
          !.client     = IF Keeps(prev, policy, "client_id") THEN prev.client ELSE n,
          !.privateKey = pair,
          !.pair       = pair,
          !.sids       = IF Keeps(prev, policy, "short_ids") THEN prev.sids ELSE n,
          !.dest       = dest,
          !.names      = IF keepDest THEN prev.names ELSE {dest_hostname(dest)}] :
       dest \in IF keepDest THEN {prev.dest} ELSE Dests}

\* _build_xray_xhttp; tlsSettings.serverName and xhttpSettings.host are the same.
BuildXhttp(settings, shareHost, prev, policy, port, n) ==
  LET name == TlsServerName(shareHost, settings.profileHost)
      tls  == resolve_tls(settings, prev, policy, name, n)
  IN  {[NoSnapshot EXCEPT
          !.port       = port,
          !.privateKey = tls.cert.key,
          !.client     = IF Keeps(prev, policy, "client_id") THEN prev.client ELSE n,
          !.sni        = name,
          !.path       = path,
          !.cert       = tls.cert,
          !.own        = tls.own] :
       path \in IF Keeps(prev, policy, "path") THEN {prev.path} ELSE Among(Paths)}

\* _build_xray_grpc.  The SNI follows the share host; without one it is of the
\* pool, and no flag rotates it.
BuildGrpc(settings, shareHost, prev, policy, port, n) ==
  LET pinned == shareHost # "" \/ settings.profileHost # ""
      names  == IF pinned \/ GrpcSnis = {}
                  THEN {TlsServerName(shareHost, settings.profileHost)}
                  ELSE IF prev.sni \in GrpcSnis THEN {prev.sni} ELSE GrpcSnis
      keepService == Keeps(prev, policy, "service_name") /\ prev.service \in Services
  IN  UNION {LET tls == resolve_tls(settings, prev, policy, name, n)
             IN  {[NoSnapshot EXCEPT
                     !.port       = port,
                     !.privateKey = tls.cert.key,
                     !.client     = IF Keeps(prev, policy, "client_id") THEN prev.client ELSE n,
                     !.sni        = name,
                     !.service    = service,
                     !.cert       = tls.cert,
                     !.own        = tls.own] :
                  service \in IF keepService THEN {prev.service} ELSE Among(Services)} :
             name \in names}

\* _build_hysteria2
BuildHysteria2(settings, shareHost, prev, policy, port, n) ==
  LET name == TlsServerName(shareHost, settings.profileHost)
      tls  == resolve_tls(settings, prev, policy, name, n)
  IN  {[NoSnapshot EXCEPT
          !.port       = port,
          !.privateKey = tls.cert.key,
          !.client     = IF Keeps(prev, policy, "auth") THEN prev.client ELSE n,
          !.obfs       = IF Keeps(prev, policy, "obfs") THEN prev.obfs ELSE n,
          !.sni        = name,
          !.cert       = tls.cert,
          !.own        = tls.own]}

\* The port arguments of build_and_persist_version and of the builds: a port
\* that rotates is excluded, one that stays is preferred; a Hysteria avoids the
\* panel's port and prefers its public one.
PortsOf(settings, profile, prev, policy, used, open) ==
  LET stays     == Keeps(prev, policy, "port")
      rotated   == IF prev # NoSnapshot /\ ~stays THEN {prev.port} ELSE {}
      panel     == IF profile = Hysteria2 THEN {PanelPort} ELSE {}
      preferred == IF stays THEN prev.port
                   ELSE IF profile = Hysteria2 THEN settings.publicPort ELSE NoPort
  IN  pick_port(Ports, used \cup rotated \cup panel, open, preferred)

\* build: every snapshot it may return; none is an exception, for want of a port
\* or of the right to read the profile's files.
build(settings, profile, shareHost, prev, policy, used, open, n) ==
  IF profile # Reality /\ CannotLoadTls(settings, policy)
    THEN {}
    ELSE UNION {CASE profile = Reality   -> BuildReality(prev, policy, port, n)
                  [] profile = Xhttp     -> BuildXhttp(settings, shareHost, prev, policy, port, n)
                  [] profile = Grpc      -> BuildGrpc(settings, shareHost, prev, policy, port, n)
                  [] profile = Hysteria2 ->
                       BuildHysteria2(settings, shareHost, prev, policy, port, n) :
                port \in PortsOf(settings, profile, prev, policy, used, open)}

=============================================================================
