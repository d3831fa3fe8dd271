------------------------------ MODULE Delivery ------------------------------
(***************************************************************************)
(* One config from its first build on: regenerates under changing          *)
(* policies, edits of its data, a profile whose share host and certificate *)
(* files change underneath.  What is handed out is compared with what the  *)
(* server that runs the last version admits.                               *)
(***************************************************************************)
EXTENDS ClientLinks, Sequences, FiniteSets

CONSTANTS
  ShareHosts,    \* the share_public_host a config or the profile may have; "" for none
  PublicPorts,   \* the share_public_port the profile may have; 0 for none
  MaxTicked,     \* how many flags are on at a time when not all or the default are
  MaxVersion,    \* how many versions are built
  MaxChanges     \* how often settings, files or config_data change by hand

ASSUME DeliveryAssumption ==
  /\ MaxTicked \in Nat /\ MaxVersion \in Nat /\ MaxChanges \in Nat
  \* A share host is one that clients can dial.
  /\ Loopback \notin ShareHosts

VARIABLES
  profile, shareHost,   \* columns of the config, set when it is created
  settings,             \* of the profile, and the certificate files it names
  history,              \* the versions, oldest first
  changes               \* what was changed by hand so far

vars == <<profile, shareHost, settings, history, changes>>

\* The certificate of the profile after n renewals.
Issued(n) == [key |-> 2 * MaxVersion + 1 + n, san |-> ShareHosts \cup {PublicHost}]

Settings ==
  [publicPort : PublicPorts, profileHost : ShareHosts, externalTls : BOOLEAN,
   files : {"there", "missing", "unreadable"}, disk : {Issued(n) : n \in 0..MaxChanges}]

\* A version: the snapshot, what the builds after it have rotated, whether the
\* hosts, the certificate files or a later version were changed meanwhile, and
\* what an administrator has changed in it by hand.
Version(s) == [s |-> s, rotated |-> {}, disturbed |-> FALSE, edits |-> {}]

Latest == history[Len(history)]

\* Reality has no certificate files; UDP passes no mux, so a Hysteria can only
\* be reached on a public port that is a candidate.
Sensible(x) ==
  /\ x.externalTls => profile # Reality
  /\ profile = Hysteria2 => x.publicPort \in Ports \cup {NoPort}

Init ==
  /\ profile \in Profiles
  /\ shareHost \in ShareHosts
  /\ settings \in {x \in Settings : x.disk = Issued(0) /\ Sensible(x)}
  /\ history = <<>> /\ changes = 0

\* The policies a config may have stored: NULL, the defaults, or what the
\* administrator ticked (PATCH .../regenerate-policy).
StoredPolicies ==
  LET default == for_profile(profile, Ports, settings.publicPort, settings.externalTls)
      chosen(ticked) == Cardinality(ticked) <= MaxTicked \/ ticked = UiFields(profile)
  IN  {NoPolicy} \cup {(default \ UiFields(profile)) \cup ticked :
                       ticked \in {x \in SUBSET UiFields(profile) : chosen(x)}}

\* Its unit is stopped, so the config's own port binds; nginx has the public one.
Open == Ports \ (IF profile = Hysteria2 THEN {} ELSE {settings.publicPort})

\* build_and_persist_version from the previous snapshot (previous_for_regenerate),
\* under the policy it finds stored.
Build ==
  /\ Len(history) < MaxVersion
  /\ \E stored \in StoredPolicies :
       LET policy == from_stored(stored, for_profile(profile, Ports, settings.publicPort,
                                                     settings.externalTls))
           prev   == IF history = <<>> THEN NoSnapshot ELSE Latest.s
       IN  \E s \in build(settings, profile, shareHost, prev, policy, {}, Open, Len(history) + 1) :
             history' = Append([v \in 1..Len(history) |->
                                  [history[v] EXCEPT !.rotated = @ \cup policy]], Version(s))
  /\ UNCHANGED <<profile, shareHost, settings, changes>>

Change == changes < MaxChanges /\ changes' = changes + 1

\* The current version after an edit: a new client id or password, another
\* port, or another Reality private key.  The columns public_key and
\* cert_fingerprint stay.
Edited(s, field) ==
  LET fresh == MaxVersion + Len(history)
  IN  CASE field = "client" -> {[s EXCEPT !.client = fresh]}
        [] field = "port"   -> {[s EXCEPT !.port = port] : port \in Ports \ {s.port}}
        [] field = "key"    -> {[s EXCEPT !.privateKey = fresh]}

\* UpdateConfigDataUseCase on the current version, once per version.
EditConfigData ==
  /\ history # <<>> /\ Latest.edits = {}
  /\ Change
  /\ \E field \in {"client", "port"} \cup (IF profile = Reality THEN {"key"} ELSE {}) :
       \E s \in Edited(Latest.s, field) :
         history' = [v \in 1..Len(history) |->
                       IF v = Len(history)
                         THEN [history[v] EXCEPT !.s = s, !.edits = {field}]
                         ELSE [history[v] EXCEPT !.disturbed = TRUE]]
  /\ UNCHANGED <<profile, shareHost, settings>>

\* What the versions were built with is no longer so.
Disturb == history' = [v \in 1..Len(history) |-> [history[v] EXCEPT !.disturbed = TRUE]]

\* panel.yaml names another share_public_host for the profile, after a restart.
ProfileHostChanges ==
  /\ Change
  /\ \E host \in ShareHosts \ {settings.profileHost} :
       settings' = [settings EXCEPT !.profileHost = host]
  /\ Disturb
  /\ UNCHANGED <<profile, shareHost>>

\* certbot renews, or the files of the profile come, go, or get permissions the
\* worker can or cannot read them with; a pair that does not match yet is as good
\* as none.
CertificateChanges ==
  /\ settings.externalTls
  /\ Change
  /\ \/ \E n \in 1..MaxChanges :
          settings.disk = Issued(n - 1) /\ settings' = [settings EXCEPT !.disk = Issued(n)]
     \/ \E files \in {"there", "missing", "unreadable"} \ {settings.files} :
          settings' = [settings EXCEPT !.files = files]
  /\ Disturb
  /\ UNCHANGED <<profile, shareHost>>

Next == Build \/ EditConfigData \/ ProfileHostChanges \/ CertificateChanges

Spec == Init /\ [][Next]_vars

----------------------------------------------------------------------------

\* The certificate the server shows: files of the profile are those on disk now.
Served(version) == IF version.s.own THEN version.s.cert ELSE settings.disk

\* The link that resolve_share makes of a version now.
LinkOf(version, secure) == Link(settings, profile, shareHost, version.s, secure)

AcceptsNow(version, dial) == Accepts(settings, profile, version.s, Served(version), dial)

\* Everything the builds make is of its kind, and keys match the certificates
\* and key columns they are stored with unless someone edited them.
DeliveryTypeOK ==
  /\ profile \in Profiles /\ shareHost \in ShareHosts /\ settings \in Settings
  /\ Len(history) <= MaxVersion
  /\ \A v \in 1..Len(history) :
       /\ history[v].s.port \in Ports
       /\ IF profile = Reality
            THEN history[v].s.privateKey = history[v].s.pair \/ "key" \in history[v].edits
            ELSE history[v].s.privateKey = history[v].s.cert.key
       /\ history[v].s.own \/ settings.externalTls

\* Whatever was rotated, kept, edited or moved to another share host, the links
\* handed out for the running version let their holder in.  A secure link of a
\* TLS profile pins the certificate of the build: it does not outlive a renewal
\* of the profile's files.  A hand-edited Reality key has no public half to put
\* into a link until the next build, a hand-edited Hysteria port no place in one
\* that names the public port until a build picks it anew.
LinksConnect ==
  history # <<>> =>
    LET moved == profile = Hysteria2 /\ settings.publicPort # NoPort
                   /\ Latest.s.port # settings.publicPort
    IN  \A secure \in BOOLEAN :
          \/ AcceptsNow(Latest, LinkOf(Latest, secure))
          \/ secure /\ ~Latest.s.own /\ Latest.s.cert # settings.disk
          \/ "key" \in Latest.edits
          \/ moved /\ \E v \in 1..Len(history) : "port" \in history[v].edits

\* The flags whose values a link carries.
Carried(secure) ==
  CASE profile = Reality   -> {"client_id", "reality_keys", "short_ids", "dest"}
    [] profile = Xhttp     -> {"client_id", "path"} \cup (IF secure THEN {"tls"} ELSE {})
    [] profile = Grpc      -> {"client_id", "service_name"} \cup (IF secure THEN {"tls"} ELSE {})
    [] profile = Hysteria2 -> {"auth", "obfs"} \cup (IF secure THEN {"tls"} ELSE {})

CarriedPort == IF settings.publicPort = NoPort \/ profile = Hysteria2 THEN {"port"} ELSE {}

\* Links survive every regenerate whose policy leaves alone what they carry,
\* over any number of versions and hand edits of the version they were made of,
\* as long as hosts and certificate files stay.  A version that was self-signed
\* instead of using the profile's files moves to those files when the flag goes.
UnrotatedKeepsLinks ==
  \A u \in 1..Len(history), secure \in BOOLEAN :
    /\ ~history[u].disturbed
    /\ history[u].rotated \cap (Carried(secure) \cup CarriedPort) = {}
    /\ history[u].s.own => ExternalCert(settings) = NoCert
    /\ "key" \notin history[u].edits
    /\ profile = Hysteria2 => \A v \in 1..u : "port" \notin history[v].edits
    => AcceptsNow(Latest, LinkOf(history[u], secure))

\* What a rotation is for: once a build has rotated a client's secret, no link
\* of an earlier version is let in again, whatever later builds keep.
Secrets ==
  CASE profile = Reality        -> {"client_id", "reality_keys", "short_ids"}
    [] profile \in {Xhttp, Grpc} -> {"client_id"}
    [] profile = Hysteria2      -> {"auth", "obfs"}

RotationRevokes ==
  \A u \in 1..Len(history), secure \in BOOLEAN :
    history[u].rotated \cap Secrets # {} => ~AcceptsNow(Latest, LinkOf(history[u], secure))

\* A certificate of the panel's own making names the host its clients ask for,
\* although it may have been made for another one builds ago.
OwnCertCoversSni ==
  \A v \in 1..Len(history) :
    LET s == history[v].s IN s.own /\ profile # Reality => s.sni \in s.cert.san

\* docs/DEPLOY.md:236.  Behind the mux the probe dials what clients dial, and
\* everywhere it is let in exactly when a secure link is.
ProbeActsAsClient ==
  history # <<>> =>
    \A dial \in ProbeDials(settings, profile, shareHost, Latest.s) :
      LET link == LinkOf(Latest, TRUE)
      IN  /\ settings.publicPort # NoPort => dial.host = link.host /\ dial.port = link.port
          /\ AcceptsNow(Latest, dial) <=> AcceptsNow(Latest, link)

----------------------------------------------------------------------------
(* What these rest on, conjunct by conjunct                                 *)

HostNames == ShareHosts \cup GrpcSnis \cup {PublicHost, ""}

Certificates == [key : Nat, san : SUBSET HostNames]

Snapshots ==
  [port : Ports, client : Nat, privateKey : Nat, pair : Nat, sids : Nat, obfs : Nat,
   dest : Dests \cup {NoSnapshot.dest}, names : SUBSET {dest_hostname(d) : d \in Dests},
   path : Paths \cup {""}, service : Services \cup {""}, sni : HostNames,
   cert : Certificates, own : BOOLEAN]

Versions == [s : Snapshots, rotated : SUBSET Flags, disturbed : BOOLEAN,
             edits : SUBSET {"client", "port", "key"}]

HistoryTypeOK ==
  /\ profile \in Profiles /\ shareHost \in ShareHosts
  /\ settings \in Settings /\ Sensible(settings)
  /\ history \in Seq(Versions) /\ Len(history) <= MaxVersion
  /\ history # <<>> => Latest.rotated = {}

\* The secrets that can be about once v versions are built: a build mints its
\* own number, an edit of version v the number MaxVersion + v.
Minted(v) == 0..v \cup (MaxVersion + 1)..(MaxVersion + v)

\* What holds of every version by itself.
VersionFits(v) ==
  LET s == history[v].s
  IN  /\ s.client \in Minted(v) /\ s.sids \in 0..v /\ s.obfs \in 0..v /\ s.pair \in 0..v
      /\ IF profile = Reality
           THEN s.privateKey = s.pair \/ ("key" \in history[v].edits /\ s.privateKey > MaxVersion)
           ELSE s.privateKey = s.cert.key
      /\ profile = Reality => s.own /\ dest_hostname(s.dest) \in s.names
      /\ profile = Grpc => s.service \in Among(Services)
      /\ s.own \/ settings.externalTls
      /\ s.own /\ profile # Reality => s.sni \in s.cert.san
      /\ profile = Hysteria2 /\ settings.publicPort # NoPort
           /\ (\A w \in 1..v : "port" \notin history[w].edits) => s.port = settings.publicPort

\* The names a build may give a TLS config under the settings of now.
SniNow ==
  CASE profile = Reality -> {""}
    [] profile = Grpc /\ shareHost = "" /\ settings.profileHost = "" /\ GrpcSnis # {} -> GrpcSnis
    [] OTHER -> {TlsServerName(shareHost, settings.profileHost)}

\* An undisturbed version is as it would be built now, and nobody has edited a
\* later one.
UndisturbedFits(v) ==
  ~history[v].disturbed =>
    /\ history[v].s.sni \in SniNow
    /\ ~history[v].s.own =>
         history[v].s.cert = settings.disk /\ settings.externalTls /\ settings.files = "there"
    /\ \A w \in (v + 1)..Len(history) : history[w].edits = {}

ClientFlag == IF profile = Hysteria2 THEN "auth" ELSE "client_id"

\* What was rotated since version u differs in the last one.
Revoked(u) ==
  LET r == history[u].rotated
      old == history[u].s
  IN  /\ ClientFlag \in r => old.client # Latest.s.client
      /\ profile = Reality /\ "reality_keys" \in r => old.pair # Latest.s.pair
      /\ profile = Reality /\ "short_ids" \in r => old.sids # Latest.s.sids
      /\ profile = Hysteria2 /\ "obfs" \in r => old.obfs # Latest.s.obfs

\* What was not is the same, if version u is undisturbed.
Kept(u) ==
  LET r == history[u].rotated
      old == history[u].s
  IN  ~history[u].disturbed =>
        /\ ClientFlag \notin r => old.client = Latest.s.client
        /\ "port" \notin r => old.port = Latest.s.port
        /\ profile = Reality /\ "reality_keys" \notin r => old.pair = Latest.s.pair
        /\ profile = Reality /\ "short_ids" \notin r => old.sids = Latest.s.sids
        /\ profile = Reality /\ "dest" \notin r => old.dest = Latest.s.dest
        /\ profile = Xhttp /\ "path" \notin r => old.path = Latest.s.path
        /\ profile = Grpc /\ "service_name" \notin r => old.service = Latest.s.service
        /\ profile = Hysteria2 /\ "obfs" \notin r => old.obfs = Latest.s.obfs
        /\ old.sni = Latest.s.sni
        /\ profile # Reality /\ "tls" \notin r /\ (old.own => ExternalCert(settings) = NoCert) =>
             old.cert = Latest.s.cert /\ old.own = Latest.s.own

\* The inductive invariant.
DeliverySafety ==
  /\ HistoryTypeOK
  /\ \A v \in 1..Len(history) : VersionFits(v) /\ UndisturbedFits(v) /\ Revoked(v) /\ Kept(v)

=============================================================================
