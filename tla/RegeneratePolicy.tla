-------------------------- MODULE RegeneratePolicy --------------------------
(***************************************************************************)
(* What a regenerate may change: the rotate_* flags of a config            *)
(* (domain/value_objects/regenerate_policy.py), as the set of those on.    *)
(***************************************************************************)
EXTENDS Integers

Reality   == "xray-reality"
Xhttp     == "xray-xhttp"
Grpc      == "xray-grpc"
Hysteria2 == "hysteria2"

Profiles == {Reality, Xhttp, Grpc, Hysteria2}

Flags == {"port", "client_id", "reality_keys", "short_ids", "dest", "path",
          "service_name", "tls", "auth", "obfs"}

\* regenerate_policy is NULL: the config was made before policies were.
NoPolicy == {"none"}

\* The defaults of a profile.  A Hysteria that has its public port among its
\* candidates stays on it, a TLS profile with a certificate of its own keeps it.
for_profile(profile, candidates, publicPort, externalTls) ==
  LET port == IF profile = Hysteria2 /\ publicPort \in candidates THEN {} ELSE {"port"}
      tls  == IF externalTls THEN {} ELSE {"tls"}
  IN  CASE profile = Reality   -> port \cup {"client_id", "reality_keys", "short_ids", "dest", "path", "tls"}
        [] profile = Xhttp     -> port \cup tls \cup {"client_id", "path"}
        [] profile = Grpc      -> port \cup tls \cup {"client_id"}
        [] profile = Hysteria2 -> port \cup tls

\* from_stored
from_stored(stored, default) == IF stored = NoPolicy THEN default ELSE stored

\* The flags the admin UI offers for a profile; the others keep their defaults.
UiFields(profile) ==
  CASE profile = Reality   -> {"port", "client_id", "reality_keys", "short_ids", "dest"}
    [] profile = Xhttp     -> {"port", "client_id", "path", "tls"}
    [] profile = Grpc      -> {"port", "client_id", "service_name", "tls"}
    [] profile = Hysteria2 -> {"port", "tls", "auth", "obfs"}

=============================================================================
