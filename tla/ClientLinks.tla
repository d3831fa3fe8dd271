----------------------------- MODULE ClientLinks -----------------------------
(***************************************************************************)
(* What a snapshot is turned into for those who dial it: the share URIs    *)
(* (infrastructure/vpn/client_uri.py), the client the connectivity probe   *)
(* starts (vpn_connectivity.py), and what the VPN server answers to them.  *)
(***************************************************************************)
EXTENDS ConfigBuilder

Loopback == "127.0.0.1"

\* The parameters of a link or of a probe client; those the profile has not
\* are left empty.  pin is the certificate that pcs= or pinSHA256= names,
\* NoCert stands for insecure=1.
NoParams == [client |-> 0, pbk |-> 0, sid |-> 0, sni |-> "", xhost |-> "", path |-> "",
             service |-> "", obfs |-> 0, pin |-> NoCert]

\* reality_share_sni: the hostname of dest.  Every built snapshot has a dest.
reality_share_sni(s) == dest_hostname(s.dest)

\* The query of _build_reality_uri, _build_xhttp_uri, _build_grpc_uri and
\* _build_hysteria2_uri.
LinkParams(profile, s, secure) ==
  LET pin == IF secure THEN s.cert ELSE NoCert
  IN  CASE profile = Reality ->
             [NoParams EXCEPT !.client = s.client, !.pbk = s.pair, !.sid = s.sids,
                              !.sni = reality_share_sni(s)]
        [] profile = Xhttp ->
             [NoParams EXCEPT !.client = s.client, !.xhost = s.sni, !.path = s.path,
                              !.sni = s.sni, !.pin = pin]
        [] profile = Grpc ->
             [NoParams EXCEPT !.client = s.client, !.service = s.service,
                              !.sni = s.sni, !.pin = pin]
        [] profile = Hysteria2 ->
             [NoParams EXCEPT !.client = s.client, !.obfs = s.obfs,
                              !.sni = s.sni, !.pin = pin]

\* build_share_uris: the public port when the profile has one.
LinkPort(settings, profile, s) ==
  IF settings.publicPort # NoPort THEN settings.publicPort ELSE s.port

\* build_client_uris
Link(settings, profile, shareHost, s, secure) ==
  [host   |-> TlsServerName(shareHost, settings.profileHost),
   port   |-> LinkPort(settings, profile, s),
   params |-> LinkParams(profile, s, secure)]

----------------------------------------------------------------------------
(* The probe                                                                *)

\* _probe_allow_loopback: nothing says that clients come from outside.
AllowLoopback(settings, shareHost) ==
  settings.publicPort = NoPort /\ shareHost = "" /\ settings.profileHost = ""

\* _probe_prefer_host
PreferHost(settings, shareHost) ==
  IF shareHost # "" THEN shareHost
  ELSE IF settings.profileHost # "" THEN settings.profileHost
  ELSE IF AllowLoopback(settings, shareHost) THEN PublicHost ELSE ""

\* Mutant: the panel's own host and the loopback are always tried.
ProbeHosts_Fallback(settings, shareHost) ==
  {PreferHost(settings, shareHost), PublicHost, Loopback} \ {""}

\* _probe_connect_hosts
ProbeHosts(settings, shareHost) ==
  ({PreferHost(settings, shareHost)} \ {""}) \cup
  (IF AllowLoopback(settings, shareHost) THEN {PublicHost, Loopback} ELSE {})

\* _probe_dial_port
ProbePort(settings, s, host) ==
  IF host # Loopback /\ settings.publicPort # NoPort THEN settings.publicPort ELSE s.port

\* _build_xray_client_config and _build_hysteria_client_config.
ProbeParams(profile, s) ==
  CASE profile = Reality ->
         [NoParams EXCEPT !.client = s.client, !.pbk = s.pair, !.sid = s.sids,
                          !.sni = reality_share_sni(s)]
    [] profile = Grpc ->
         [NoParams EXCEPT !.client = s.client, !.sni = s.sni, !.pin = s.cert,
                          !.service = s.service]
    [] profile = Xhttp ->
         [NoParams EXCEPT !.client = s.client, !.sni = s.sni, !.pin = s.cert,
                          !.xhost = s.sni, !.path = s.path]
    [] profile = Hysteria2 ->
         [NoParams EXCEPT !.client = s.client, !.sni = s.sni, !.pin = s.cert,
                          !.obfs = s.obfs]

\* _probe_via_xray and _probe_via_hysteria: every dial of a probe.
ProbeDials(settings, profile, shareHost, s) ==
  {[host |-> host, port |-> ProbePort(settings, s, host), params |-> ProbeParams(profile, s)] :
     host \in ProbeHosts(settings, shareHost)}

----------------------------------------------------------------------------
(* The VPN server that runs snapshot s, with certificate served             *)

\* TCP to the public port reaches the inbound through the nginx stream map;
\* UDP does not.
Reaches(settings, profile, s, dial) ==
  \/ dial.port = s.port /\ (settings.publicPort = NoPort \/ profile = Hysteria2 \/ dial.host = Loopback)
  \/ dial.port = settings.publicPort /\ settings.publicPort # NoPort /\ profile # Hysteria2

\* What Xray and Hysteria check of a client.
Admits(profile, s, served, params) ==
  /\ params.client = s.client
  /\ params.pin \in {NoCert, served}
  /\ CASE profile = Reality   -> /\ params.pbk = s.privateKey
                                 /\ params.sid = s.sids
                                 /\ params.sni \in s.names
       [] profile = Xhttp     -> params.xhost = s.sni /\ params.path = s.path
       [] profile = Grpc      -> params.service = s.service
       [] profile = Hysteria2 -> params.obfs = s.obfs

Accepts(settings, profile, s, served, dial) ==
  Reaches(settings, profile, s, dial) /\ Admits(profile, s, served, dial.params)

=============================================================================
