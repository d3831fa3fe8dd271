------------------------------ MODULE Shared443 ------------------------------
(***************************************************************************)
(* The nginx stream map on the shared port 443, made from the live config  *)
(* files (infrastructure/vpn/nginx_shared_443.py).  A config is a number,  *)
(* in the order of the paths of the live directories; a backend is the     *)
(* loopback port of an inbound.                                            *)
(***************************************************************************)
EXTENDS RegeneratePolicy, PortPicker, FiniteSetsExt

CONSTANTS
  Snis,          \* every server name a client may ask for
  PanelSnis,     \* vpn.public_host and its aliases
  RealitySnis    \* the names of reality_dest_hosts and reality_server_names

ASSUME Shared443Assumption == PanelSnis \subseteq Snis /\ RealitySnis \subseteq Snis

\* The backend of the panel, and the default of the map.
Panel == NoPort

MuxProfiles == {Reality, Xhttp, Grpc}

\* A live file: the profile whose inbound it has, that inbound's port and the
\* host it is asked for by; NoFile when there is none.
NoFile == [profile |-> "", port |-> NoPort, sni |-> ""]

\* _load_live_configs_for_profile
LiveOf(live, profile) == {c \in DOMAIN live : live[c].profile = profile}

\* Mutant: the scan ends at the first file of a profile.
RoutedTls_First(live, profile) ==
  LET items == LiveOf(live, profile) IN IF items = {} THEN {} ELSE {Min(items)}

\* The live files of a TLS profile that get a route: of two with one backend
\* the first.  The just-written config is appended once more to be the last,
\* but its backend has been seen in its live file by then.
RoutedTls(live, profile) ==
  {c \in LiveOf(live, profile) :
     \A d \in LiveOf(live, profile) : live[d].port = live[c].port => c <= d}

\* by_host of _routes_for_mux_profile: the last of one host wins.
TlsRoute(live, profile, sni) ==
  LET items == {c \in RoutedTls(live, profile) : live[c].sni = sni}
  IN  IF items = {} THEN {} ELSE {live[Max(items)].port}

\* The one Reality inbound that gets routes: the config being built when it is
\* of Reality, else the first live one.
RealityRoute(live, owner, sni) ==
  LET items == LiveOf(live, Reality)
      chosen == IF owner \in items THEN owner ELSE Min(items)
  IN  IF items # {} /\ sni \in RealitySnis THEN {live[chosen].port} ELSE {}

\* Mutant: routes are rendered in the order xHTTP, gRPC, Reality, panel names too.
StreamMap_PanelToo(live, owner) ==
  [sni \in Snis |->
     CASE TlsRoute(live, Grpc, sni) # {}       -> Max(TlsRoute(live, Grpc, sni))
       [] TlsRoute(live, Xhttp, sni) # {}      -> Max(TlsRoute(live, Xhttp, sni))
       [] RealityRoute(live, owner, sni) # {}  -> Max(RealityRoute(live, owner, sni))
       [] OTHER                                -> Panel]

\* render_shared_443_stream_conf over the routes of Reality, xHTTP and gRPC in
\* this order: names of the panel are its own, else the last route wins.
StreamMap(live, owner) ==
  [sni \in Snis |->
     IF sni \in PanelSnis THEN Panel
     ELSE IF TlsRoute(live, Grpc, sni) # {}  THEN CHOOSE p \in TlsRoute(live, Grpc, sni) : TRUE
     ELSE IF TlsRoute(live, Xhttp, sni) # {} THEN CHOOSE p \in TlsRoute(live, Xhttp, sni) : TRUE
     ELSE IF RealityRoute(live, owner, sni) # {}
       THEN CHOOSE p \in RealityRoute(live, owner, sni) : TRUE
     ELSE Panel]

=============================================================================
