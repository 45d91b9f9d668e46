-------------------------------- MODULE Serve --------------------------------
(***************************************************************************)
(* One run of the server (crates/cli/src/server.rs, stdio.rs, http.rs;     *)
(* crates/server/src/tool.rs, server.rs): the settings become a            *)
(* configuration or are refused, the tunnel starts, the handler is built   *)
(* towards it, the transport serves, tool errors are annotated with the    *)
(* tunnel's last error and redacted, and on the way out the pools are      *)
(* closed before the tunnel is dropped.                                    *)
(*                                                                         *)
(* The pools are one pool here (PoolCache has the cache) and the tunnel is *)
(* whether it runs and whether it has an unresolved error (SshTunnel has   *)
(* the rest).  Each call is made once.                                     *)
(***************************************************************************)
EXTENDS HttpAccess

CONSTANTS Calls,      \* the tool calls of the run
          Settings,   \* the settings the run may find
          Homes,      \* whether there is a home directory: a set of BOOLEANs
          Requests    \* the HTTP requests clients may send

ASSUME SettingsAssumption ==
  \A s \in Settings :
    /\ \A x \in SettingNames : \A v, w \in s[x] : v = w
    /\ s["http.allow_unauthenticated"] \subseteq BOOLEAN
ASSUME HomesAssumption == Homes \subseteq BOOLEAN

VARIABLES
  settings,  \* what the sources hold
  home,      \* whether there is a home directory
  phase,     \* where serve stands
  config,    \* the configuration: an option
  exit,      \* why the process ends
  tunnel,    \* "none", "up" or "dropped"
  unresolved,\* LastError: whether the tunnel's last failure is unresolved
  dial,      \* the address the handler was given: "direct" or "tunnel"
  pool,      \* "none", "open" or "closed"
  stage,     \* of each call
  asked,     \* the HTTP request of each call: an option
  failure,   \* how its query failed, or "none"
  answer,    \* what the client read: an option
  left,      \* the calls whose transport is gone
  granted,   \* the origins whose preflight was granted
  failing    \* of each call: the tunnel had an unresolved error meanwhile

startVars == <<settings, home, config, dial>>
callVars == <<stage, asked, failure, answer, left, failing>>
vars == <<startVars, phase, exit, tunnel, unresolved, pool, callVars, granted>>

Live == {"running", "querying", "ended"}
Working == phase \notin {"loading", "exited"}
Http == The(The(config).http)
Database == The(config).database

Init ==
  /\ settings \in Settings
  /\ home \in Homes
  /\ phase = "loading"
  /\ config = None
  /\ exit = "none"
  /\ tunnel = "none"
  /\ unresolved = FALSE
  /\ dial = "direct"
  /\ pool = "none"
  /\ stage = [c \in Calls |-> "idle"]
  /\ asked = [c \in Calls |-> None]
  /\ failure = [c \in Calls |-> "none"]
  /\ answer = [c \in Calls |-> None]
  /\ left = {}
  /\ granted = {}
  /\ failing = [c \in Calls |-> FALSE]

Goto(next) == phase' = next
Leave(next, reason) == Goto(next) /\ exit' = reason

-----------------------------------------------------------------------------
(* Start.                                                                  *)

Load ==
  /\ phase = "loading"
  /\ IF BuildErrors(settings, home) = {}
       THEN Goto("starting") /\ config' = Some(ConfigOf(settings, home)) /\ UNCHANGED exit
       ELSE Leave("exited", "invalid") /\ UNCHANGED config
  /\ UNCHANGED <<settings, home, dial, tunnel, unresolved, pool, callVars, granted>>

(* Tunnel::start: a key that does not load or a port that is taken.        *)
(* Without SSH settings there is nothing to start.                         *)
StartTunnel ==
  /\ phase = "starting"
  /\ \/ The(config).ssh = None /\ Goto("building") /\ UNCHANGED <<exit, tunnel, dial>>
     \/ /\ The(config).ssh # None
        /\ Goto("building")
        /\ tunnel' = "up"
        /\ dial' = "tunnel"
        /\ UNCHANGED exit
     \/ The(config).ssh # None /\ Leave("exited", "init") /\ UNCHANGED <<tunnel, dial>>
  /\ UNCHANGED <<settings, home, config, unresolved, pool, callVars, granted>>

(* build_server: only the NER model can fail to load.  The `?` drops the   *)
(* tunnel, and no pool exists yet.                                         *)
BuildServer ==
  /\ phase = "building"
  /\ \/ Goto("binding") /\ UNCHANGED exit
     \/ /\ \E pii \in The(config).pii : pii.ner_enabled
        /\ Leave("unwinding", "init")
  /\ UNCHANGED <<startVars, tunnel, unresolved, pool, callVars, granted>>

(* The TCP bind, or the handshake over stdio. *)
Bind ==
  /\ phase = "binding"
  /\ \/ Goto("serving") /\ UNCHANGED exit
     \/ Leave("closing", "transport")
  /\ UNCHANGED <<startVars, tunnel, unresolved, pool, callVars, granted>>

-----------------------------------------------------------------------------
(* Requests.                                                               *)

(* A browser asks before it posts JSON across origins. *)
Preflight(origin) ==
  /\ phase = "serving"
  /\ The(config).transport = "http"
  /\ granted' = IF PreflightGranted(Http, origin) THEN granted \cup {origin} ELSE granted
  /\ UNCHANGED <<startVars, phase, exit, tunnel, unresolved, pool, callVars>>

Begin(c) ==
  /\ stage' = [stage EXCEPT ![c] = "running"]
  /\ failing' = [failing EXCEPT ![c] = unresolved]

Post(c, request) ==
  /\ phase = "serving"
  /\ The(config).transport = "http"
  /\ stage[c] = "idle"
  /\ request.origin \subseteq granted
  /\ asked' = [asked EXCEPT ![c] = Some(request)]
  /\ IF ReachesService(Http, request)
       THEN Begin(c)
       ELSE stage' = [stage EXCEPT ![c] = "rejected"] /\ UNCHANGED failing
  /\ UNCHANGED <<startVars, phase, exit, tunnel, unresolved, pool, failure, answer, left, granted>>

StdioCall(c) ==
  /\ phase = "serving"
  /\ The(config).transport = "stdio"
  /\ stage[c] = "idle"
  /\ Begin(c)
  /\ UNCHANGED <<startVars, phase, exit, tunnel, unresolved, pool, asked, failure, answer, left,
                 granted>>

(* The query takes the pool, which is created on first use; a closed one   *)
(* stays in the cache and refuses.                                         *)
UsePool(c) ==
  /\ Working
  /\ stage[c] = "running"
  /\ IF pool = "closed"
       THEN /\ stage' = [stage EXCEPT ![c] = "ended"]
            /\ failure' = [failure EXCEPT ![c] = "connection"]
            /\ UNCHANGED pool
       ELSE /\ stage' = [stage EXCEPT ![c] = "querying"]
            /\ pool' = "open"
            /\ UNCHANGED failure
  /\ UNCHANGED <<startVars, phase, exit, tunnel, unresolved, asked, answer, left, failing, granted>>

QueryEnds(c, f) ==
  /\ Working
  /\ stage[c] = "querying"
  /\ stage' = [stage EXCEPT ![c] = "ended"]
  /\ failure' = [failure EXCEPT ![c] = f]
  /\ UNCHANGED <<startVars, phase, exit, tunnel, unresolved, pool, asked, answer, left, failing,
                 granted>>

(* Mutant: the timeout is never applied. *)
QueryTimeoutNever(c) == FALSE /\ QueryEnds(c, "timeout")

(* query_timeout = 0 turns the timeout off. *)
QueryTimeout(c) ==
  /\ phase # "loading" /\ config # None
  /\ Database.query_timeout > 0
  /\ QueryEnds(c, "timeout")

(* The answer: which texts it holds, and which of them were not redacted.  *)
Answer(parts, raw) == [parts |-> parts, raw |-> raw]

(* Mutant: the cause is appended to every error. *)
CausesOfAll(c) == IF tunnel # "none" /\ unresolved THEN {"cause"} ELSE {}

(* The cause is read now, not when the query failed. *)
Causes(c) == IF tunnel # "none" /\ failure[c] = "connection" /\ unresolved THEN {"cause"} ELSE {}

(* Mutant: the cause is appended after the redaction. *)
ReportRedactedFirst(c) ==
  Answer({"error"} \cup Causes(c), IF The(config).pii = None THEN {"error"} \cup Causes(c) ELSE Causes(c))

(* annotate, then redact_error; without PII redaction the text is sent as  *)
(* it is.                                                                  *)
Report(c) ==
  LET parts == {"error"} \cup Causes(c) IN
    Answer(parts, IF The(config).pii = None THEN parts ELSE {})

Reply(c) ==
  /\ Working
  /\ stage[c] = "ended"
  /\ stage' = [stage EXCEPT ![c] = "done"]
  /\ answer' = [answer EXCEPT ![c] =
                  IF c \in left THEN None
                  ELSE IF failure[c] = "none" THEN Some(Answer({"rows"}, {}))
                  ELSE Some(Report(c))]
  /\ UNCHANGED <<startVars, phase, exit, tunnel, unresolved, pool, asked, failure, left, failing,
                 granted>>

(* The tunnel fails, or works again. *)
TunnelFails ==
  /\ tunnel = "up"
  /\ ~unresolved
  /\ unresolved' = TRUE
  /\ failing' = [c \in Calls |-> failing[c] \/ stage[c] \in Live]
  /\ UNCHANGED <<startVars, phase, exit, tunnel, pool, stage, asked, failure, answer, left, granted>>

TunnelRecovers ==
  /\ tunnel = "up"
  /\ unresolved
  /\ unresolved' = FALSE
  /\ UNCHANGED <<startVars, phase, exit, tunnel, pool, callVars, granted>>

-----------------------------------------------------------------------------
(* Stop.                                                                   *)

LiveCalls == {c \in Calls : stage[c] \in Live}

(* Over HTTP the requests in flight are waited for ... *)
SignalHttp ==
  /\ phase = "serving"
  /\ The(config).transport = "http"
  /\ Leave("stopping", "signal")
  /\ UNCHANGED <<startVars, tunnel, unresolved, pool, callVars, granted>>

(* ... unless the cancelled service gives one up: its task goes on.        *)
Cut(c) ==
  /\ phase = "stopping"
  /\ c \in LiveCalls \ left
  /\ left' = left \cup {c}
  /\ UNCHANGED <<startVars, phase, exit, tunnel, unresolved, pool, stage, asked, failure, answer,
                 failing, granted>>

HttpStops ==
  /\ phase = "stopping"
  /\ LiveCalls \subseteq left
  /\ Goto("closing")
  /\ UNCHANGED <<startVars, exit, tunnel, unresolved, pool, callVars, granted>>

(* Over stdio a signal or the end of the input leaves them behind. *)
StdioStops ==
  /\ phase = "serving"
  /\ The(config).transport = "stdio"
  /\ \E reason \in {"signal", "eof"} : Leave("closing", reason)
  /\ left' = LiveCalls
  /\ UNCHANGED <<startVars, tunnel, unresolved, pool, stage, asked, failure, answer, failing, granted>>

(* Mutant: serve returns with the transport's result at once. *)
ShutdownPoolsSkipped ==
  /\ phase = "closing"
  /\ Goto("unwinding")
  /\ UNCHANGED <<startVars, exit, tunnel, unresolved, pool, callVars, granted>>

(* server.shutdown(): the pool is closed ... *)
ShutdownPools ==
  /\ phase = "closing"
  /\ Goto("draining")
  /\ pool' = IF pool = "open" THEN "closed" ELSE pool
  /\ UNCHANGED <<startVars, exit, tunnel, unresolved, callVars, granted>>

(* ... and close() returns when its connections are back. *)
PoolsDrained ==
  /\ phase = "draining"
  /\ pool = "closed" => \A c \in Calls : stage[c] # "querying"
  /\ Goto("unwinding")
  /\ UNCHANGED <<startVars, exit, tunnel, unresolved, pool, callVars, granted>>

(* serve returns: the server is dropped, then the tunnel. *)
Unwind ==
  /\ phase = "unwinding"
  /\ tunnel' = IF tunnel = "up" THEN "dropped" ELSE tunnel
  /\ Goto("exited")
  /\ UNCHANGED <<startVars, exit, unresolved, pool, callVars, granted>>

Exited == phase = "exited" /\ UNCHANGED vars

-----------------------------------------------------------------------------
Main ==
  \/ Load \/ StartTunnel \/ BuildServer \/ Bind
  \/ HttpStops \/ ShutdownPools \/ PoolsDrained \/ Unwind
Serving(c) ==
  \/ StdioCall(c)
  \/ \E r \in Requests : Post(c, r)
  \/ UsePool(c)
  \/ \E f \in {"none", "query", "connection"} : QueryEnds(c, f)
  \/ QueryTimeout(c)
  \/ Reply(c)
  \/ Cut(c)

Next ==
  \/ Main
  \/ \E c \in Calls : Serving(c)
  \/ \E r \in Requests : \E origin \in r.origin : Preflight(origin)
  \/ TunnelFails \/ TunnelRecovers
  \/ SignalHttp \/ StdioStops
  \/ Exited

Spec == Init /\ [][Next]_vars

(* The runtime runs the main task and the calls; a query ends only when    *)
(* its timeout is on.                                                      *)
Fairness ==
  /\ WF_vars(Main)
  /\ \A c \in Calls : WF_vars(UsePool(c)) /\ WF_vars(QueryTimeout(c)) /\ WF_vars(Reply(c))
FairSpec == Spec /\ Fairness

-----------------------------------------------------------------------------
(* Every variable keeps its type. *)
TypeOK ==
  /\ settings \in Settings /\ home \in Homes
  /\ phase \in {"loading", "starting", "building", "binding", "serving", "stopping", "closing",
                "draining", "unwinding", "exited"}
  /\ config = None => phase \in {"loading", "exited"}
  /\ exit \in {"none", "invalid", "init", "transport", "signal", "eof"}
  /\ tunnel \in {"none", "up", "dropped"}
  /\ unresolved \in BOOLEAN
  /\ dial \in {"direct", "tunnel"}
  /\ pool \in {"none", "open", "closed"}
  /\ stage \in [Calls -> Live \cup {"idle", "rejected", "done"}]
  /\ asked \in [Calls -> SUBSET Requests]
  /\ failure \in [Calls -> {"none", "query", "connection", "timeout"}]
  /\ answer \in [Calls -> SUBSET [parts : SUBSET {"rows", "error", "cause"}, raw : SUBSET {"error", "cause"}]]
  /\ left \subseteq Calls
  /\ failing \in [Calls -> BOOLEAN]

Reached(c) == stage[c] \in Live \cup {"done"}

(* A call that reached a tool over a bind other machines can reach came    *)
(* with the configured token, which is not blank, or the operator allowed  *)
(* unauthenticated calls by name (http.rs validate, BearerAuth).           *)
NoOpenDoor ==
  \A c \in Calls : \A r \in asked[c] :
    Reached(c) /\ settings["http.host"] \notin {None, Some("loopback")} =>
      \/ settings["http.allow_unauthenticated"] = Some(TRUE)
      \/ \E token \in r.auth : Trim(token) # "" /\ Some(token) = settings["http.auth_token"]

(* "An empty list disables rmcp's validator but grants no CORS access, so  *)
(* browsers stay blocked": a page of an origin that is not listed reaches  *)
(* no tool, whatever the list (http.rs build_http_router).                 *)
BrowsersStayBlocked ==
  \A c \in Calls : \A r \in asked[c] : \A origin \in r.origin :
    Reached(c) =>
      LET entries == UnwrapOr(settings["http.allowed_origins"], DefaultOrigins) IN
        \E i \in DOMAIN entries :
          /\ entries[i].scheme = origin.scheme
          /\ entries[i].host = origin.host
          /\ entries[i].port \in {AnyPort, PortOf(origin)}

(* A database is never reached around the tunnel when any SSH setting is   *)
(* made (loader.rs missing_ssh_host, server.rs tunnelled).                 *)
TunnelNeverBypassed ==
  pool # "none" /\ (\E x \in SshSettings : settings[x] # None) => dial = "tunnel"

(* The tunnel is dropped on every path that started it, and by then the    *)
(* pool is closed, unless a call that the transport left behind opened it  *)
(* after the shutdown (server.rs:51-52).                                   *)
PoolsCloseThroughTunnel ==
  phase = "exited" =>
    /\ tunnel # "up"
    /\ pool = "open" => \E c \in left : Reached(c)

(* An answer blames the tunnel only for an unreachable database, and only  *)
(* when the tunnel had an unresolved failure during that very call         *)
(* (server.rs:71-76 reads the cause late).                                 *)
BlameIsDeserved ==
  \A c \in Calls : \A a \in answer[c] :
    "cause" \in a.parts => failure[c] = "connection" /\ failing[c]

(* With redaction on, no text of an error leaves unredacted, the tunnel's  *)
(* cause included: so say tool.rs:11-13 and features.mdx:451, and so does  *)
(* tool.rs:163-169. security.mdx:88-91 says the opposite, that "error      *)
(* messages returned to the client" are not redacted.                      *)
ErrorsLeaveRedacted ==
  \A c \in Calls : \A a \in answer[c] :
    settings["pii.enable"] = Some(TRUE) => a.raw = {}

(* A stop ends in the exit of the process, if queries have a timeout. *)
StopsInTheEnd ==
  (phase \in {"stopping", "closing"} /\ Database.query_timeout > 0) ~> (phase = "exited")
=============================================================================
