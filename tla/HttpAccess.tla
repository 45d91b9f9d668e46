----------------------------- MODULE HttpAccess ------------------------------
(***************************************************************************)
(* What stands between an HTTP request and the MCP service                 *)
(* (crates/cli/src/http.rs, crates/config/src/origin.rs): the CORS layer   *)
(* outside, which answers preflights itself, the bearer check inside it,   *)
(* and in the service the Host and Origin checks of rmcp.                  *)
(*                                                                         *)
(* A request is [origin, host, auth]: the Origin header, if any, the Host, *)
(* and the token of a well-formed Bearer header, if any.                   *)
(***************************************************************************)
EXTENDS ConfigBuild

DefaultPort(scheme) == CASE scheme = "http" -> 80 [] scheme = "https" -> 443 [] OTHER -> AnyPort
PortOf(origin) == IF origin.port # AnyPort THEN origin.port ELSE DefaultPort(origin.scheme)

(* An entry without a port matches any port, one with a port also an       *)
(* origin that leaves out its scheme's default.                            *)
Matches(entry, origin) ==
  /\ entry.scheme = origin.scheme
  /\ entry.host = origin.host
  /\ entry.port # AnyPort => PortOf(origin) = entry.port

Allows(entries, origin) ==
  \E i \in DOMAIN entries : entries[i].scheme # "malformed" /\ Matches(entries[i], origin)

(* Mutant: as in rmcp, an empty list lets every origin through. *)
PreflightGrantedOpen(http, origin) ==
  http.allowed_origins = <<>> \/ Allows(http.allowed_origins, origin)

(* The CORS layer's answer to a preflight, before any authentication. *)
PreflightGranted(http, origin) == Allows(http.allowed_origins, origin)

(* Whatever is not a preflight passes the CORS layer.  Without a token     *)
(* there is no bearer layer.                                               *)
BearerPasses(http, request) ==
  \A token \in http.auth_token : \E presented \in request.auth : Trim(presented) = Trim(token)

HostPasses(http, request) == \E i \in DOMAIN http.allowed_hosts : http.allowed_hosts[i] = request.host

OriginPasses(http, request) ==
  http.allowed_origins # <<>> =>
    \A origin \in request.origin : Allows(http.allowed_origins, origin)

ReachesService(http, request) ==
  BearerPasses(http, request) /\ HostPasses(http, request) /\ OriginPasses(http, request)
=============================================================================
