----------------------------- MODULE ServeProofs -----------------------------
(***************************************************************************)
(* The promises of a run of the server, whatever settings it finds, for    *)
(* any number of calls and any requests; and, before them, of the load of  *)
(* a setting, whatever the sources hold.                                   *)
(***************************************************************************)
EXTENDS Serve, ConfigSettings, FiniteSetTheorems, SequenceTheorems, WellFoundedInduction, TLAPS

-----------------------------------------------------------------------------
(* The run of the server. *)

Configured == config = Some(ConfigOf(settings, home)) /\ BuildErrors(settings, home) = {}

(* The handler was built for the configuration: towards the tunnel when    *)
(* there is one.                                                           *)
Routed == Configured /\ (The(config).ssh # None => dial = "tunnel")

(* Nothing is served before the start is through, and whatever is served   *)
(* is served under a configuration that passed every rule.                 *)
RouteInv ==
  /\ phase = "starting" => Configured
  /\ phase \in {"building", "binding", "serving"} => Routed
  /\ phase \in {"loading", "starting"} => tunnel = "none"
  /\ phase \in {"loading", "starting", "building", "binding"} =>
       pool = "none" /\ \A c \in Calls : stage[c] = "idle"
  /\ \A c \in Calls : stage[c] # "idle" => Routed
  /\ pool # "none" => Routed

(* Once the transport is gone, a call that still runs was left behind by   *)
(* it, and only such a call can open a pool again.                         *)
StopInv ==
  /\ phase \in {"closing", "draining", "unwinding"} => LiveCalls \subseteq left
  /\ \A c \in left : Reached(c)
  /\ phase \in {"draining", "unwinding", "exited"} /\ pool = "open" => left # {}
  /\ phase = "exited" => tunnel # "up"

Served == Configured /\ The(config).http # None

(* Who is in was let in, by a configuration that has not changed since.    *)
AccessInv ==
  /\ \A c \in Calls : stage[c] = "idle" => asked[c] = None
  /\ \A c \in Calls : \A r \in asked[c] :
       Reached(c) => Served /\ ReachesService(Http, r) /\ r.origin \subseteq granted
  /\ \A origin \in granted : Served /\ PreflightGranted(Http, origin)

(* A call that runs while the tunnel's failure is unresolved has met it.   *)
ReportInv ==
  /\ \A c \in Calls : stage[c] # "done" => answer[c] = None
  /\ unresolved => \A c \in Calls : stage[c] \in Live => failing[c]
  /\ BlameIsDeserved
  /\ ErrorsLeaveRedacted

Inv == TypeOK /\ RouteInv /\ StopInv /\ AccessInv /\ ReportInv

(* What is in Some(v) is v. *)
LEMMA TheOfSome == \A v : The(Some(v)) = v
BY DEF The, Some

(* An option whose default is not what it yields holds what it yields. *)
LEMMA Unwrapped ==
  ASSUME NEW s \in Settings, NEW x \in SettingNames, NEW default, UnwrapOr(s[x], default) # default
  PROVE  s[x] = Some(UnwrapOr(s[x], default))
BY SettingsAssumption DEF UnwrapOr, The, Some, None

(* What an HTTP transport is served with. *)
LEMMA HttpIsServed ==
  ASSUME Routed, The(config).transport = "http"
  PROVE  Served
<1>1. Configured /\ The(config) = ConfigOf(settings, home)
  BY TheOfSome DEF Routed, Configured
<1>2. ConfigOf(settings, home).http # None
  BY <1>1 DEF ConfigOf, Some, None
<1> QED
  BY <1>1, <1>2 DEF Served

(* An answer is the rows or an error, and an error with redaction on is    *)
(* redacted whole.                                                         *)
LEMMA ReportIs ==
  ASSUME NEW c
  PROVE  /\ Report(c).parts = {"error"} \cup Causes(c)
         /\ The(config).pii # None => Report(c).raw = {}
BY DEF Report, Answer

(* Redaction that is on in the settings is on in the configuration.        *)
LEMMA RedactionIsOn ==
  ASSUME Routed, settings["pii.enable"] = Some(TRUE)
  PROVE  The(config).pii # None
<1>1. The(config) = ConfigOf(settings, home)
  BY TheOfSome DEF Routed, Configured
<1>2. UnwrapOr(settings["pii.enable"], FALSE) = TRUE
  BY TheOfSome DEF UnwrapOr, Some, None
<1> QED
  BY <1>1, <1>2 DEF ConfigOf, Some, None

(* Every action preserves the types. *)
LEMMA TypeStep == TypeOK /\ [Next]_vars => TypeOK'
<1> SUFFICES ASSUME TypeOK, [Next]_vars PROVE TypeOK'
  OBVIOUS
<1> USE SettingsAssumption, HomesAssumption DEF TypeOK, Live, None, Some
<1>1. CASE Load
  BY <1>1 DEF Load, Leave, Goto, startVars, callVars
<1>2. CASE StartTunnel
  BY <1>2 DEF StartTunnel, Leave, Goto, startVars, callVars
<1>3. CASE BuildServer
  BY <1>3 DEF BuildServer, Leave, Goto, startVars, callVars
<1>4. CASE Bind
  BY <1>4 DEF Bind, Leave, Goto, startVars, callVars
<1>5. ASSUME NEW o, Preflight(o) PROVE TypeOK'
  BY <1>5 DEF Preflight, startVars, callVars
<1>6. ASSUME NEW c \in Calls, NEW r \in Requests, Post(c, r) PROVE TypeOK'
  BY <1>6 DEF Post, Begin, startVars, callVars
<1>7. ASSUME NEW c \in Calls, StdioCall(c) PROVE TypeOK'
  BY <1>7 DEF StdioCall, Begin, startVars, callVars
<1>8. ASSUME NEW c \in Calls, UsePool(c) PROVE TypeOK'
  BY <1>8 DEF UsePool, startVars, callVars
<1>9. ASSUME NEW c \in Calls, NEW f \in {"none", "query", "connection", "timeout"}, QueryEnds(c, f)
      PROVE  TypeOK'
  BY <1>9 DEF QueryEnds, startVars, callVars
<1>10. ASSUME NEW c \in Calls, Reply(c) PROVE TypeOK'
  BY <1>10 DEF Reply, Report, Answer, Causes, startVars, callVars
<1>11. CASE TunnelFails
  BY <1>11 DEF TunnelFails, startVars, callVars
<1>12. CASE TunnelRecovers
  BY <1>12 DEF TunnelRecovers, startVars, callVars
<1>13. CASE SignalHttp
  BY <1>13 DEF SignalHttp, Leave, Goto, startVars, callVars
<1>14. ASSUME NEW c \in Calls, Cut(c) PROVE TypeOK'
  BY <1>14 DEF Cut, startVars, callVars
<1>15. CASE HttpStops
  BY <1>15 DEF HttpStops, Goto, startVars, callVars
<1>16. CASE StdioStops
  BY <1>16 DEF StdioStops, Leave, Goto, LiveCalls, startVars, callVars
<1>17. CASE ShutdownPools
  BY <1>17 DEF ShutdownPools, Goto, startVars, callVars
<1>18. CASE PoolsDrained
  BY <1>18 DEF PoolsDrained, Goto, startVars, callVars
<1>19. CASE Unwind
  BY <1>19 DEF Unwind, Goto, startVars, callVars
<1>20. CASE UNCHANGED vars
  BY <1>20 DEF vars, startVars, callVars
<1> QED
  BY <1>1, <1>2, <1>3, <1>4, <1>5, <1>6, <1>7, <1>8, <1>9, <1>10,
     <1>11, <1>12, <1>13, <1>14, <1>15, <1>16, <1>17, <1>18, <1>19, <1>20
  DEF Next, Main, Serving, QueryTimeout, Exited

(* The start comes before the service. *)
LEMMA RouteStep == TypeOK /\ RouteInv /\ [Next]_vars => RouteInv'
<1> SUFFICES ASSUME TypeOK /\ RouteInv, [Next]_vars PROVE RouteInv'
  OBVIOUS
<1> USE DEF TypeOK, RouteInv, Routed, Configured, Live, Working
<1>1. CASE Load
  BY <1>1 DEF Load, Leave, Goto, startVars, callVars
<1>2. CASE StartTunnel
  BY <1>2 DEF StartTunnel, Leave, Goto, startVars, callVars
<1>3. CASE BuildServer
  BY <1>3 DEF BuildServer, Leave, Goto, startVars, callVars
<1>4. CASE Bind
  BY <1>4 DEF Bind, Leave, Goto, startVars, callVars
<1>5. ASSUME NEW o, Preflight(o) PROVE RouteInv'
  BY <1>5 DEF Preflight, startVars, callVars
<1>6. ASSUME NEW c \in Calls, NEW r \in Requests, Post(c, r) PROVE RouteInv'
  BY <1>6 DEF Post, Begin, startVars, callVars
<1>7. ASSUME NEW c \in Calls, StdioCall(c) PROVE RouteInv'
  BY <1>7 DEF StdioCall, Begin, startVars, callVars
<1>8. ASSUME NEW c \in Calls, UsePool(c) PROVE RouteInv'
  BY <1>8 DEF UsePool, startVars, callVars
<1>9. ASSUME NEW c \in Calls, NEW f \in {"none", "query", "connection", "timeout"}, QueryEnds(c, f)
      PROVE  RouteInv'
  BY <1>9 DEF QueryEnds, startVars, callVars
<1>10. ASSUME NEW c \in Calls, Reply(c) PROVE RouteInv'
  BY <1>10 DEF Reply, startVars, callVars
<1>11. CASE TunnelFails
  BY <1>11 DEF TunnelFails, startVars, callVars
<1>12. CASE TunnelRecovers
  BY <1>12 DEF TunnelRecovers, startVars, callVars
<1>13. CASE SignalHttp
  BY <1>13 DEF SignalHttp, Leave, Goto, startVars, callVars
<1>14. ASSUME NEW c \in Calls, Cut(c) PROVE RouteInv'
  BY <1>14 DEF Cut, startVars, callVars
<1>15. CASE HttpStops
  BY <1>15 DEF HttpStops, Goto, startVars, callVars
<1>16. CASE StdioStops
  BY <1>16 DEF StdioStops, Leave, Goto, startVars, callVars
<1>17. CASE ShutdownPools
  BY <1>17 DEF ShutdownPools, Goto, startVars, callVars
<1>18. CASE PoolsDrained
  BY <1>18 DEF PoolsDrained, Goto, startVars, callVars
<1>19. CASE Unwind
  BY <1>19 DEF Unwind, Goto, startVars, callVars
<1>20. CASE UNCHANGED vars
  BY <1>20 DEF vars, startVars, callVars
<1> QED
  BY <1>1, <1>2, <1>3, <1>4, <1>5, <1>6, <1>7, <1>8, <1>9, <1>10,
     <1>11, <1>12, <1>13, <1>14, <1>15, <1>16, <1>17, <1>18, <1>19, <1>20
  DEF Next, Main, Serving, QueryTimeout, Exited

(* The pool is closed before the tunnel goes. *)
LEMMA StopStep == TypeOK /\ RouteInv /\ StopInv /\ [Next]_vars => StopInv'
<1> SUFFICES ASSUME TypeOK /\ RouteInv /\ StopInv, [Next]_vars PROVE StopInv'
  OBVIOUS
<1> USE DEF TypeOK, RouteInv, StopInv, LiveCalls, Reached, Live, Working
<1>1. CASE Load
  BY <1>1 DEF Load, Leave, Goto, startVars, callVars
<1>2. CASE StartTunnel
  BY <1>2 DEF StartTunnel, Leave, Goto, startVars, callVars
<1>3. CASE BuildServer
  BY <1>3 DEF BuildServer, Leave, Goto, startVars, callVars
<1>4. CASE Bind
  BY <1>4 DEF Bind, Leave, Goto, startVars, callVars
<1>5. ASSUME NEW o, Preflight(o) PROVE StopInv'
  BY <1>5 DEF Preflight, startVars, callVars
<1>6. ASSUME NEW c \in Calls, NEW r \in Requests, Post(c, r) PROVE StopInv'
  BY <1>6 DEF Post, Begin, startVars, callVars
<1>7. ASSUME NEW c \in Calls, StdioCall(c) PROVE StopInv'
  BY <1>7 DEF StdioCall, Begin, startVars, callVars
<1>8. ASSUME NEW c \in Calls, UsePool(c) PROVE StopInv'
  BY <1>8 DEF UsePool, startVars, callVars
<1>9. ASSUME NEW c \in Calls, NEW f \in {"none", "query", "connection", "timeout"}, QueryEnds(c, f)
      PROVE  StopInv'
  BY <1>9 DEF QueryEnds, startVars, callVars
<1>10. ASSUME NEW c \in Calls, Reply(c) PROVE StopInv'
  BY <1>10 DEF Reply, startVars, callVars
<1>11. CASE TunnelFails
  BY <1>11 DEF TunnelFails, startVars, callVars
<1>12. CASE TunnelRecovers
  BY <1>12 DEF TunnelRecovers, startVars, callVars
<1>13. CASE SignalHttp
  BY <1>13 DEF SignalHttp, Leave, Goto, startVars, callVars
<1>14. ASSUME NEW c \in Calls, Cut(c) PROVE StopInv'
  BY <1>14 DEF Cut, startVars, callVars
<1>15. CASE HttpStops
  BY <1>15 DEF HttpStops, Goto, startVars, callVars
<1>16. CASE StdioStops
  BY <1>16 DEF StdioStops, Leave, Goto, startVars, callVars
<1>17. CASE ShutdownPools
  BY <1>17 DEF ShutdownPools, Goto, startVars, callVars
<1>18. CASE PoolsDrained
  BY <1>18 DEF PoolsDrained, Goto, startVars, callVars
<1>19. CASE Unwind
  BY <1>19 DEF Unwind, Goto, startVars, callVars
<1>20. CASE UNCHANGED vars
  BY <1>20 DEF vars, startVars, callVars
<1> QED
  BY <1>1, <1>2, <1>3, <1>4, <1>5, <1>6, <1>7, <1>8, <1>9, <1>10,
     <1>11, <1>12, <1>13, <1>14, <1>15, <1>16, <1>17, <1>18, <1>19, <1>20
  DEF Next, Main, Serving, QueryTimeout, Exited

(* Nothing lets a request in but the checks. *)
LEMMA AccessStep == TypeOK /\ RouteInv /\ AccessInv /\ [Next]_vars => AccessInv'
<1> SUFFICES ASSUME TypeOK /\ RouteInv /\ AccessInv, [Next]_vars PROVE AccessInv'
  OBVIOUS
<1> USE DEF TypeOK, RouteInv, AccessInv, Reached, Served, Configured, Routed, Live, Http
<1>1. CASE Load
  BY <1>1 DEF Load, Leave, Goto, None, startVars, callVars
<1>2. CASE StartTunnel
  BY <1>2 DEF StartTunnel, Leave, Goto, startVars, callVars
<1>3. CASE BuildServer
  BY <1>3 DEF BuildServer, Leave, Goto, startVars, callVars
<1>4. CASE Bind
  BY <1>4 DEF Bind, Leave, Goto, startVars, callVars
<1>5. ASSUME NEW o, Preflight(o) PROVE AccessInv'
  BY <1>5, HttpIsServed DEF Preflight, startVars, callVars
<1>6. ASSUME NEW c \in Calls, NEW r \in Requests, Post(c, r) PROVE AccessInv'
  <2>1. Served /\ r.origin \subseteq granted /\ granted' = granted
    BY <1>6, HttpIsServed DEF Post
  <2>2. /\ config' = config /\ settings' = settings /\ home' = home
        /\ asked' = [asked EXCEPT ![c] = Some(r)]
        /\ \/ stage' = [stage EXCEPT ![c] = "running"] /\ ReachesService(Http, r)
           \/ stage' = [stage EXCEPT ![c] = "rejected"]
    BY <1>6 DEF Post, Begin, startVars
  <2>3. ASSUME NEW d \in Calls, NEW q \in asked'[d], Reached(d)'
        PROVE  (Served /\ ReachesService(Http, q) /\ q.origin \subseteq granted)'
    <3>1. CASE d = c
      BY <2>1, <2>2, <2>3, <3>1 DEF Some
    <3>2. CASE d # c
      BY <2>1, <2>2, <2>3, <3>2
    <3> QED
      BY <3>1, <3>2
  <2>4. \A d \in Calls : stage'[d] = "idle" => asked'[d] = None
    BY <2>2
  <2>5. \A origin \in granted' : (Served /\ PreflightGranted(Http, origin))'
    BY <2>1, <2>2
  <2> QED
    BY <2>3, <2>4, <2>5
<1>7. ASSUME NEW c \in Calls, StdioCall(c) PROVE AccessInv'
  BY <1>7 DEF StdioCall, Begin, None, startVars, callVars
<1>8. ASSUME NEW c \in Calls, UsePool(c) PROVE AccessInv'
  BY <1>8 DEF UsePool, startVars, callVars
<1>9. ASSUME NEW c \in Calls, NEW f \in {"none", "query", "connection", "timeout"}, QueryEnds(c, f)
      PROVE  AccessInv'
  BY <1>9 DEF QueryEnds, startVars, callVars
<1>10. ASSUME NEW c \in Calls, Reply(c) PROVE AccessInv'
  BY <1>10 DEF Reply, startVars, callVars
<1>11. CASE TunnelFails
  BY <1>11 DEF TunnelFails, startVars, callVars
<1>12. CASE TunnelRecovers
  BY <1>12 DEF TunnelRecovers, startVars, callVars
<1>13. CASE SignalHttp
  BY <1>13 DEF SignalHttp, Leave, Goto, startVars, callVars
<1>14. ASSUME NEW c \in Calls, Cut(c) PROVE AccessInv'
  BY <1>14 DEF Cut, startVars, callVars
<1>15. CASE HttpStops
  BY <1>15 DEF HttpStops, Goto, startVars, callVars
<1>16. CASE StdioStops
  BY <1>16 DEF StdioStops, Leave, Goto, startVars, callVars
<1>17. CASE ShutdownPools
  BY <1>17 DEF ShutdownPools, Goto, startVars, callVars
<1>18. CASE PoolsDrained
  BY <1>18 DEF PoolsDrained, Goto, startVars, callVars
<1>19. CASE Unwind
  BY <1>19 DEF Unwind, Goto, startVars, callVars
<1>20. CASE UNCHANGED vars
  BY <1>20 DEF vars, startVars, callVars
<1> QED
  BY <1>1, <1>2, <1>3, <1>4, <1>5, <1>6, <1>7, <1>8, <1>9, <1>10,
     <1>11, <1>12, <1>13, <1>14, <1>15, <1>16, <1>17, <1>18, <1>19, <1>20
  DEF Next, Main, Serving, QueryTimeout, Exited

(* What an answer says is true and redacted. *)
LEMMA ReportStep == TypeOK /\ RouteInv /\ ReportInv /\ [Next]_vars => ReportInv'
<1> SUFFICES ASSUME TypeOK /\ RouteInv /\ ReportInv, [Next]_vars PROVE ReportInv'
  OBVIOUS
<1> USE DEF TypeOK, ReportInv, Live, None, BlameIsDeserved, ErrorsLeaveRedacted
<1>1. CASE Load
  BY <1>1 DEF Load, Leave, Goto, startVars, callVars
<1>2. CASE StartTunnel
  BY <1>2 DEF StartTunnel, Leave, Goto, startVars, callVars
<1>3. CASE BuildServer
  BY <1>3 DEF BuildServer, Leave, Goto, startVars, callVars
<1>4. CASE Bind
  BY <1>4 DEF Bind, Leave, Goto, startVars, callVars
<1>5. ASSUME NEW o, Preflight(o) PROVE ReportInv'
  BY <1>5 DEF Preflight, startVars, callVars
<1>6. ASSUME NEW c \in Calls, NEW r \in Requests, Post(c, r) PROVE ReportInv'
  BY <1>6 DEF Post, Begin, startVars, callVars
<1>7. ASSUME NEW c \in Calls, StdioCall(c) PROVE ReportInv'
  BY <1>7 DEF StdioCall, Begin, startVars, callVars
<1>8. ASSUME NEW c \in Calls, UsePool(c) PROVE ReportInv'
  BY <1>8 DEF UsePool, startVars, callVars
<1>9. ASSUME NEW c \in Calls, NEW f \in {"none", "query", "connection", "timeout"}, QueryEnds(c, f)
      PROVE  ReportInv'
  BY <1>9 DEF QueryEnds, startVars, callVars
<1>10. ASSUME NEW c \in Calls, Reply(c) PROVE ReportInv'
  <2>1. /\ stage' = [stage EXCEPT ![c] = "done"]
        /\ unresolved' = unresolved /\ failing' = failing /\ failure' = failure
        /\ settings' = settings /\ stage[c] = "ended"
    BY <1>10 DEF Reply, startVars
  <2>2. /\ \A d \in Calls \ {c} : answer'[d] = answer[d]
        /\ \A a \in answer'[c] : a = Answer({"rows"}, {}) \/ a = Report(c)
    BY <1>10 DEF Reply, Some, None
  <2>3. Routed
    BY <2>1 DEF RouteInv
  <2>4. ASSUME NEW a \in answer'[c], "cause" \in a.parts
        PROVE  failure[c] = "connection" /\ failing[c]
    <3>1. "cause" \in Causes(c)
      BY <2>2, <2>4, ReportIs DEF Answer
    <3> QED
      BY <2>1, <3>1 DEF Causes
  <2>5. ASSUME NEW a \in answer'[c], settings["pii.enable"] = Some(TRUE)
        PROVE  a.raw = {}
    BY <2>2, <2>3, <2>5, ReportIs, RedactionIsOn DEF Answer
  <2>6. BlameIsDeserved'
    <3> SUFFICES ASSUME NEW d \in Calls, NEW a \in answer'[d], "cause" \in a.parts
                 PROVE  failure[d] = "connection" /\ failing[d]
      BY <2>1
    <3> QED
      BY <2>2, <2>4
  <2>7. ErrorsLeaveRedacted'
    <3> SUFFICES ASSUME NEW d \in Calls, NEW a \in answer'[d], settings["pii.enable"] = Some(TRUE)
                 PROVE  a.raw = {}
      BY <2>1
    <3> QED
      BY <2>2, <2>5
  <2>8. /\ \A d \in Calls : stage'[d] # "done" => answer'[d] = None
        /\ unresolved' => \A d \in Calls : stage'[d] \in Live => failing'[d]
    BY <2>1, <2>2
  <2> QED
    BY <2>6, <2>7, <2>8
<1>11. CASE TunnelFails
  BY <1>11 DEF TunnelFails, startVars, callVars
<1>12. CASE TunnelRecovers
  BY <1>12 DEF TunnelRecovers, startVars, callVars
<1>13. CASE SignalHttp
  BY <1>13 DEF SignalHttp, Leave, Goto, startVars, callVars
<1>14. ASSUME NEW c \in Calls, Cut(c) PROVE ReportInv'
  BY <1>14 DEF Cut, startVars, callVars
<1>15. CASE HttpStops
  BY <1>15 DEF HttpStops, Goto, startVars, callVars
<1>16. CASE StdioStops
  BY <1>16 DEF StdioStops, Leave, Goto, startVars, callVars
<1>17. CASE ShutdownPools
  BY <1>17 DEF ShutdownPools, Goto, startVars, callVars
<1>18. CASE PoolsDrained
  BY <1>18 DEF PoolsDrained, Goto, startVars, callVars
<1>19. CASE Unwind
  BY <1>19 DEF Unwind, Goto, startVars, callVars
<1>20. CASE UNCHANGED vars
  BY <1>20 DEF vars, startVars, callVars
<1> QED
  BY <1>1, <1>2, <1>3, <1>4, <1>5, <1>6, <1>7, <1>8, <1>9, <1>10,
     <1>11, <1>12, <1>13, <1>14, <1>15, <1>16, <1>17, <1>18, <1>19, <1>20
  DEF Next, Main, Serving, QueryTimeout, Exited

(* From the start on. *)
THEOREM Invariant == Spec => []Inv
<1>1. Init => Inv
  <2> SUFFICES ASSUME Init PROVE Inv
    OBVIOUS
  <2>1. TypeOK
    BY DEF Init, TypeOK, Live, None
  <2>2. RouteInv /\ StopInv
    BY DEF Init, RouteInv, StopInv, LiveCalls, Live
  <2>3. AccessInv /\ ReportInv
    BY DEF Init, AccessInv, ReportInv, BlameIsDeserved, ErrorsLeaveRedacted, Live, None, Reached
  <2> QED
    BY <2>1, <2>2, <2>3 DEF Inv
<1>2. Inv /\ [Next]_vars => Inv'
  BY TypeStep, RouteStep, StopStep, AccessStep, ReportStep DEF Inv
<1> QED
  BY <1>1, <1>2, PTL DEF Spec

(* Every reachable state is well typed. *)
THEOREM TypeCorrect == Spec => []TypeOK
BY Invariant, PTL DEF Inv

(* No unauthenticated door stands open, unless it was asked for by name.   *)
THEOREM NoDoorOpens == Spec => []NoOpenDoor
<1>1. Inv => NoOpenDoor
  <2> SUFFICES ASSUME Inv, NEW c \in Calls, NEW r \in asked[c], Reached(c),
                      settings["http.host"] \notin {None, Some("loopback")},
                      settings["http.allow_unauthenticated"] # Some(TRUE)
               PROVE  \E token \in r.auth :
                        Trim(token) # "" /\ Some(token) = settings["http.auth_token"]
    BY DEF NoOpenDoor
  <2> DEFINE http == HttpOf(settings)
  <2>1. settings \in Settings
    BY DEF Inv, TypeOK
  <2>2. Served /\ ReachesService(Http, r)
    BY DEF Inv, AccessInv
  <2>3. The(config) = ConfigOf(settings, home) /\ Http = http
    BY <2>2, TheOfSome DEF Served, Configured, Http, ConfigOf
  <2>4. HttpErrors(http) = {}
    <3>1. ConfigOf(settings, home).http = Some(http)
      BY <2>2, <2>3 DEF Served, ConfigOf
    <3>2. Over(Some(http), HttpErrors) = {}
      BY <2>2, <3>1 DEF Served, Configured, BuildErrors, ValidateErrors
    <3>3. Some(http) = {http} /\ Over(Some(http), HttpErrors) = UNION {HttpErrors(x) : x \in Some(http)}
      BY DEF Over, Some
    <3>4. HttpErrors(http) \in {HttpErrors(x) : x \in Some(http)}
      BY <3>3
    <3>5. \A diagnostic \in HttpErrors(http) : diagnostic \in Over(Some(http), HttpErrors)
      BY <3>3, <3>4
    <3> QED
      BY <3>2, <3>5
  <2>5. http.host # "loopback"
    BY <2>1, Unwrapped, TheOfSome DEF HttpOf, UnwrapOr, None, Some, SettingNames
  <2>6. ~http.allow_unauthenticated
    <3> DEFINE allow == settings["http.allow_unauthenticated"]
    <3>1. allow \subseteq BOOLEAN /\ \A v, w \in allow : v = w
      BY <2>1, SettingsAssumption DEF SettingNames
    <3>2. TRUE \notin allow
      <4> HIDE DEF allow
      <4>1. TRUE \in allow => allow = {TRUE}
        BY <3>1, Zenon
      <4> QED
        BY <4>1, Zenon DEF Some, allow
    <3>3. allow \subseteq {FALSE}
      BY <3>1, <3>2, Zenon
    <3> QED
      BY <3>3, TheOfSome DEF HttpOf, UnwrapOr, None, Some
  <2>7. http.auth_token # None /\ \A token \in http.auth_token : Trim(token) # ""
    BY <2>4, <2>5, <2>6 DEF HttpErrors, When, IsLoopback
  <2>8. PICK token \in http.auth_token, presented \in r.auth : Trim(presented) = Trim(token)
    BY <2>2, <2>3, <2>7 DEF ReachesService, BearerPasses, None
  <2>9. presented = token
    BY <2>7, <2>8 DEF Trim
  <2>10. settings["http.auth_token"] = Some(token)
    BY <2>1, <2>8, SettingsAssumption DEF HttpOf, SettingNames, Some
  <2> QED
    BY <2>7, <2>8, <2>9, <2>10
<1> QED
  BY <1>1, Invariant, PTL

(* No page of an origin that is not listed reaches a tool.                 *)
THEOREM BrowsersAlwaysBlocked == Spec => []BrowsersStayBlocked
<1>1. Inv => BrowsersStayBlocked
  <2> SUFFICES ASSUME Inv, NEW c \in Calls, NEW r \in asked[c], NEW origin \in r.origin, Reached(c)
               PROVE  LET entries == UnwrapOr(settings["http.allowed_origins"], DefaultOrigins) IN
                        \E i \in DOMAIN entries :
                          /\ entries[i].scheme = origin.scheme
                          /\ entries[i].host = origin.host
                          /\ entries[i].port \in {AnyPort, PortOf(origin)}
    BY DEF BrowsersStayBlocked
  <2>1. Served /\ PreflightGranted(Http, origin)
    BY DEF Inv, AccessInv
  <2>2. Http = HttpOf(settings)
    BY <2>1, TheOfSome DEF Served, Configured, Http, ConfigOf
  <2> QED
    BY <2>1, <2>2 DEF PreflightGranted, Allows, Matches, HttpOf
<1> QED
  BY <1>1, Invariant, PTL

(* With any SSH setting made, whoever opens a pool goes through the tunnel.*)
THEOREM TunnelAlwaysTaken == Spec => []TunnelNeverBypassed
<1>1. Inv => TunnelNeverBypassed
  <2> SUFFICES ASSUME Inv, pool # "none", NEW x \in SshSettings, settings[x] # None
               PROVE  dial = "tunnel"
    BY DEF TunnelNeverBypassed
  <2>1. Routed /\ The(config) = ConfigOf(settings, home)
    BY TheOfSome DEF Inv, RouteInv, Routed, Configured
  <2>2. settings["ssh.host"] # None
    BY <2>1 DEF Routed, Configured, BuildErrors, When
  <2>3. The(config).ssh # None
    BY <2>1, <2>2 DEF ConfigOf, Some, None
  <2> QED
    BY <2>1, <2>3 DEF Routed
<1> QED
  BY <1>1, Invariant, PTL

(* However the run ends, the pool was closed first and the tunnel dropped. *)
THEOREM PoolsAlwaysCloseFirst == Spec => []PoolsCloseThroughTunnel
<1>1. Inv => PoolsCloseThroughTunnel
  BY DEF Inv, StopInv, PoolsCloseThroughTunnel
<1> QED
  BY <1>1, Invariant, PTL

(* The tunnel is only blamed for what it did during the call.              *)
THEOREM BlameAlwaysDeserved == Spec => []BlameIsDeserved
BY Invariant, PTL DEF Inv, ReportInv

(* No error leaves unredacted while redaction is on.                       *)
THEOREM ErrorsAlwaysRedacted == Spec => []ErrorsLeaveRedacted
BY Invariant, PTL DEF Inv, ReportInv

-----------------------------------------------------------------------------
(* Induction and recursion over the naturals in a form that first-order    *)
(* provers can use: with a set where the library's theorems have a         *)
(* predicate.                                                              *)

(* Some well-founded relation on the naturals has every n < m in it. *)
LEMMA LessWellFounded ==
  \E R : IsWellFoundedOn(R, Nat) /\ \A m, n \in Nat : m < n => <<m, n>> \in R
<1>1. \A m, n \in Nat : m < n => <<m, n>> \in OpToRel(<, Nat)
  BY DEF OpToRel
<1>2. IsWellFoundedOn(OpToRel(<, Nat), Nat)
  BY NatLessThanWellFounded
<1>3. QED BY <1>1, <1>2, Zenon

(* A set of naturals that is not empty has a least element. *)
LEMMA LeastElement ==
  ASSUME NEW S, S \subseteq Nat, S # {}
  PROVE  \E m \in S : \A n \in S : m <= n
<1>1. PICK R : IsWellFoundedOn(R, Nat) /\ \A m, n \in Nat : m < n => <<m, n>> \in R
  BY LessWellFounded
<1>2. IsWellFoundedOn(R, Nat)
  BY <1>1
<1>3. \E m \in S : \A n \in S : ~ (<<n, m>> \in R)
  BY <1>2, WFMin, Zenon
<1>4. PICK m \in S : \A n \in S : ~ (<<n, m>> \in R)
  BY <1>3
<1>5. ASSUME NEW n \in S PROVE m <= n
  <2>1. m \in Nat /\ n \in Nat
    OBVIOUS
  <2>2. ~(n < m)
    BY <2>1, <1>1, <1>4, Zenon
  <2>3. QED BY <2>1, <2>2
<1>6. QED BY <1>5

(* A set that holds 0 and the successor of each of its naturals holds all. *)
LEMMA SetInduction ==
  ASSUME NEW S, 0 \in S, \A n \in Nat : n \in S => n + 1 \in S
  PROVE  Nat \subseteq S
<1> SUFFICES ASSUME Nat \ S # {} PROVE FALSE
  OBVIOUS
<1>1. PICK m \in Nat \ S : \A n \in Nat \ S : m <= n
  <2> DEFINE T == Nat \ S
  <2>1. T \subseteq Nat /\ T # {}
    OBVIOUS
  <2>2. QED BY <2>1, LeastElement
<1>2. m - 1 \in Nat /\ m - 1 + 1 = m
  OBVIOUS
<1>3. m - 1 \in S
  BY <1>1, <1>2
<1>4. QED BY <1>1, <1>2, <1>3

(* A set of places of a sequence that is not empty has a last one. *)
LEMMA LastElement ==
  ASSUME NEW n \in Nat, NEW S, S \subseteq 1..n, S # {}
  PROVE  /\ (CHOOSE i \in S : \A j \in S : j <= i) \in S
         /\ \A j \in S : j <= (CHOOSE i \in S : \A k \in S : k <= i)
<1> DEFINE T == {n - i : i \in S}
<1>1. T \subseteq Nat /\ T # {}
  <2>1. \A i \in S : n - i \in Nat
    OBVIOUS
  <2>2. QED BY <2>1
<1>2. PICK m \in T : \A k \in T : m <= k
  BY <1>1, LeastElement
<1>3. PICK i \in S : m = n - i
  BY <1>2
<1>4. \A j \in S : j <= i
  <2>1. ASSUME NEW j \in S PROVE j <= i
    <3>1. n - j \in T /\ i \in 1..n /\ j \in 1..n
      OBVIOUS
    <3>2. n - i <= n - j
      BY <1>2, <1>3, <3>1
    <3>3. QED BY <3>1, <3>2
  <2>2. QED BY <2>1
<1>5. \E x \in S : \A j \in S : j <= x
  BY <1>4
<1>6. QED BY <1>5

(* A function defined from place to place. *)
Carries(f, n, first, step) == f = [i \in 0..n |-> IF i = 0 THEN first ELSE step[<<i, f[i - 1]>>]]

(* What is defined from place to place along a sequence exists.            *)
LEMMA Recursion ==
  ASSUME NEW n \in Nat, NEW V, NEW first \in V, NEW step \in [(1..n) \X V -> V]
  PROVE  \E f \in [0..n -> V] : Carries(f, n, first, step)
<1> DEFINE Body(f, i) == IF i = 0 THEN first ELSE step[<<i, f[i - 1]>>]
           Defines(f, k) == f \in [0..k -> V] /\ \A i \in 0..k : f[i] = Body(f, i)
           Defined == {k \in Nat : k <= n => \E f : Defines(f, k)}
<1>1. 0 \in Defined
  <2>1. Defines([i \in 0..0 |-> first], 0)
    OBVIOUS
  <2> HIDE DEF Defines
  <2>2. QED BY <2>1
<1>2. ASSUME NEW k \in Nat, k \in Defined PROVE k + 1 \in Defined
  <2> SUFFICES ASSUME k + 1 <= n PROVE \E f : Defines(f, k + 1)
    OBVIOUS
  <2>1. PICK f : Defines(f, k)
    BY <1>2
  <2> DEFINE new == step[<<k + 1, f[k]>>]
             g == [i \in 0..(k + 1) |-> IF i = k + 1 THEN new ELSE f[i]]
  <2>2. f[k] \in V /\ k + 1 \in 1..n
    BY <2>1
  <2>3. new \in V
    BY <2>2
  <2>4. g \in [0..(k + 1) -> V]
    BY <2>1, <2>3
  <2>5. ASSUME NEW i \in 0..(k + 1) PROVE g[i] = Body(g, i)
    <3>1. CASE i = k + 1
      <4>1. g[i] = new /\ g[i - 1] = f[k] /\ i # 0
        BY <3>1
      <4>2. QED BY <3>1, <4>1
    <3>2. CASE i \in 0..k
      <4>1. g[i] = f[i] /\ (i # 0 => g[i - 1] = f[i - 1])
        BY <3>2
      <4>2. f[i] = Body(f, i)
        BY <2>1, <3>2
      <4> HIDE DEF g
      <4>3. QED BY <4>1, <4>2
    <3>3. QED BY <3>1, <3>2
  <2> HIDE DEF g
  <2>6. Defines(g, k + 1)
    BY <2>4, <2>5
  <2> HIDE DEF Defines
  <2>7. QED BY <2>6
<1>3. n \in Defined
  <2> HIDE DEF Defined
  <2>1. QED BY <1>1, <1>2, SetInduction
<1>4. PICK f : Defines(f, n)
  BY <1>3
<1>5. f = [i \in 0..n |-> Body(f, i)]
  BY <1>4
<1>6. QED BY <1>4, <1>5 DEF Carries

-----------------------------------------------------------------------------
(* The places of the elements of a finite set in a strict order of it.     *)

StrictOrder(S, R) ==
  /\ \A a \in S : <<a, a>> \notin R
  /\ \A a, b \in S : a = b \/ <<a, b>> \in R \/ <<b, a>> \in R
  /\ \A a, b, c \in S : <<a, b>> \in R /\ <<b, c>> \in R => <<a, c>> \in R
Below(S, R, a) == {b \in S : <<b, a>> \in R}

Placed(S, R) ==
  /\ \A a \in S : Rank(S, R, a) \in 0..(Cardinality(S) - 1)
  /\ \A a, b \in S : <<a, b>> \in R => Rank(S, R, a) < Rank(S, R, b)
  /\ \A a, b \in S : Rank(S, R, a) = Rank(S, R, b) => a = b
  /\ \A k \in 0..(Cardinality(S) - 1) : \E a \in S : Rank(S, R, a) = k

(* Every element has a place of its own, and every place is taken.         *)
LEMMA Places ==
  ASSUME NEW S, NEW R, IsFiniteSet(S), StrictOrder(S, R)
  PROVE  Placed(S, R)
<1> DEFINE n == Cardinality(S)
           rank == [a \in S |-> Rank(S, R, a)]
<1>1. n \in Nat
  BY FS_CardinalityType
<1>2. ASSUME NEW a \in S PROVE Rank(S, R, a) \in 0..(n - 1)
  <2>1. Below(S, R, a) \in SUBSET S /\ Below(S, R, a) # S
    BY DEF Below, StrictOrder
  <2>2. IsFiniteSet(Below(S, R, a)) /\ Rank(S, R, a) <= n /\ Rank(S, R, a) # n
    BY <2>1, FS_Subset DEF Rank, Below
  <2>3. Rank(S, R, a) \in Nat
    BY <2>2, FS_CardinalityType DEF Rank, Below
  <2>4. QED BY <1>1, <2>2, <2>3
<1>3. ASSUME NEW a \in S, NEW b \in S, <<a, b>> \in R PROVE Rank(S, R, a) < Rank(S, R, b)
  <2>1. Below(S, R, a) \in SUBSET Below(S, R, b) /\ a \in Below(S, R, b) /\ a \notin Below(S, R, a)
    BY <1>3 DEF Below, StrictOrder
  <2>2. IsFiniteSet(Below(S, R, b))
    BY FS_Subset DEF Below
  <2>3. Rank(S, R, a) <= Rank(S, R, b) /\ Rank(S, R, a) # Rank(S, R, b)
    BY <2>1, <2>2, FS_Subset DEF Rank, Below
  <2>4. QED BY <1>2, <2>3
<1>4. ASSUME NEW a \in S, NEW b \in S, Rank(S, R, a) = Rank(S, R, b) PROVE a = b
  <2>1. ~(<<a, b>> \in R) /\ ~(<<b, a>> \in R)
    BY <1>2, <1>3, <1>4
  <2>2. QED BY <2>1 DEF StrictOrder
<1>5. rank \in Injection(S, 0..(n - 1))
  BY <1>2, <1>4 DEF Injection, IsInjective
<1>6. IsFiniteSet(0..(n - 1)) /\ Cardinality(0..(n - 1)) = n
  BY <1>1, FS_Interval
<1>7. rank \in Surjection(S, 0..(n - 1))
  BY <1>5, <1>6, FS_Injection
<1>8. \A k \in 0..(n - 1) : \E a \in S : Rank(S, R, a) = k
  BY <1>7 DEF Surjection
<1>9. QED BY <1>2, <1>3, <1>4, <1>8 DEF Placed

(* InOrder lists exactly the set. *)
LEMMA Ordered ==
  ASSUME NEW S, NEW R, IsFiniteSet(S), StrictOrder(S, R)
  PROVE  /\ InOrder(S, R) \in Seq(S)
         /\ {InOrder(S, R)[k] : k \in DOMAIN InOrder(S, R)} = S
<1> DEFINE n == Cardinality(S)
           F(k) == CHOOSE x \in S : Rank(S, R, x) = k - 1
<1>1. n \in Nat /\ Placed(S, R)
  BY FS_CardinalityType, Places
<1>2. ASSUME NEW k \in 1..n PROVE F(k) \in S /\ Rank(S, R, F(k)) = k - 1
  <2>1. k - 1 \in 0..(n - 1)
    BY <1>1
  <2>2. \E x \in S : Rank(S, R, x) = k - 1
    BY <1>1, <2>1 DEF Placed
  <2>3. QED BY <2>2
<1>3. InOrder(S, R) = [k \in 1..n |-> F(k)]
  BY DEF InOrder
<1>4. ASSUME NEW x \in S PROVE \E k \in 1..n : F(k) = x
  <2> DEFINE k == Rank(S, R, x) + 1
  <2>1. k \in 1..n /\ k - 1 = Rank(S, R, x)
    <3>1. Rank(S, R, x) \in 0..(n - 1)
      BY <1>1 DEF Placed
    <3>2. QED BY <1>1, <3>1
  <2>2. F(k) \in S /\ Rank(S, R, F(k)) = Rank(S, R, x)
    BY <1>2, <2>1
  <2>3. F(k) = x
    BY <1>1, <2>2 DEF Placed
  <2>4. QED BY <2>1, <2>3
<1> HIDE DEF F, n
<1>5. DOMAIN InOrder(S, R) = 1..n /\ \A k \in 1..n : InOrder(S, R)[k] = F(k)
  BY <1>3
<1>6. {InOrder(S, R)[k] : k \in DOMAIN InOrder(S, R)} = S
  BY <1>2, <1>4, <1>5
<1>7. InOrder(S, R) \in Seq(S)
  BY <1>1, <1>2, <1>3
<1>8. QED BY <1>6, <1>7

-----------------------------------------------------------------------------
(* Entries are functions from some of the names to texts.                  *)
LEMMA EntriesAre ==
  /\ \A e \in Entries : DOMAIN e \subseteq Names /\ e = [x \in DOMAIN e |-> e[x]]
                       /\ \A x \in DOMAIN e : e[x] \in Text
  /\ \A D \in SUBSET Names : \A e \in [D -> Text] : e \in Entries
<1>1. \A e \in Entries : \E D \in SUBSET Names : e \in [D -> Text]
  BY Zenon DEF Entries
<1>2. ASSUME NEW e \in Entries
      PROVE  DOMAIN e \subseteq Names /\ e = [x \in DOMAIN e |-> e[x]] /\ \A x \in DOMAIN e : e[x] \in Text
  <2>1. PICK D \in SUBSET Names : e \in [D -> Text]
    BY <1>1
  <2>2. QED BY <2>1
<1>3. \A D \in SUBSET Names : \A e \in [D -> Text] : e \in Entries
  BY Zenon DEF Entries
<1>4. QED BY <1>2, <1>3

(* What has been read. *)
LEMMA LayersAre ==
  ASSUME LoadTypeOK
  PROVE  /\ Len(layers) \in Nat /\ DOMAIN layers = 1..Len(layers)
         /\ \A i \in DOMAIN layers : layers[i].dir \in Dirs /\ layers[i].entries \in Entries
<1>1. layers \in Seq([dir : Dirs, entries : Entries])
  BY DEF LoadTypeOK
<1>2. Len(layers) \in Nat /\ DOMAIN layers = 1..Len(layers)
  BY <1>1, LenProperties
<1>3. \A i \in 1..Len(layers) : layers[i] \in [dir : Dirs, entries : Entries]
  BY <1>1, ElementOfSeq
<1>4. QED BY <1>2, <1>3

(* The config files that have been read. *)
LEMMA FilesAre ==
  ASSUME LoadTypeOK
  PROVE  /\ Len(files) \in Nat /\ DOMAIN files = 1..Len(files)
         /\ \A i \in DOMAIN files : files[i].dir \in Dirs /\ files[i].type \in Types /\ files[i].text \in Text
<1>1. files \in Seq([dir : Dirs, type : Types, text : Text])
  BY DEF LoadTypeOK
<1>2. Len(files) \in Nat /\ DOMAIN files = 1..Len(files)
  BY <1>1, LenProperties
<1>3. \A i \in 1..Len(files) : files[i] \in [dir : Dirs, type : Types, text : Text]
  BY <1>1, ElementOfSeq
<1>4. QED BY <1>2, <1>3

(* The options, the environment and the disk. *)
LEMMA InputIs ==
  ASSUME LoadTypeOK
  PROVE  /\ input.kind \in Kinds /\ input.sqliteName \in BOOLEAN
         /\ input.process \in [Names -> Text \cup {Unset}] /\ input.envList \in Text \cup {Unset}
         /\ input.envFlags \in Seq(STRING) /\ input.configFlags \in Seq(STRING)
         /\ \A file \in DOMAIN input.disk : input.disk[file] \in EnvFiles \cup ConfigFiles
<1>1. PICK i \in DOMAIN Inputs : input \in Inputs[i]
  BY DEF LoadTypeOK
<1>2. QED BY <1>1, InputsAssumption

-----------------------------------------------------------------------------
(* The layers: what a name is in the env files folded into one. *)

(* The places of the env files that set a name. *)
Setting(name) == {i \in DOMAIN layers : name \in DOMAIN layers[i].entries}

(* The latest env file that sets a name is the last of those places.       *)
LEMMA LatestIs ==
  ASSUME LoadTypeOK, NEW name, Setting(name) # {}
  PROVE  \E i \in Setting(name) :
           /\ Latest(layers, name) = layers[i].entries[name]
           /\ \A j \in Setting(name) : j <= i
<1>1. Len(layers) \in Nat /\ Setting(name) \subseteq 1..Len(layers)
  BY LayersAre DEF Setting
<1> DEFINE last == CHOOSE i \in Setting(name) : \A j \in Setting(name) : j <= i
<1>2. last \in Setting(name) /\ \A j \in Setting(name) : j <= last
  BY <1>1, LastElement
<1>3. Latest(layers, name) = layers[last].entries[name]
  BY DEF Latest, Setting
<1>4. QED BY <1>2, <1>3

(* Folding the env files from the first to the last leaves the same text.  *)
LEMMA FoldedIsLatest ==
  ASSUME LoadTypeOK, NEW name
  PROVE  Held(Folded, name) = IF Setting(name) = {} THEN Unset ELSE Latest(layers, name)
<1> DEFINE n == Len(layers)
           step == [x \in (1..n) \X Entries |-> Overlaid(layers[x[1]].entries, x[2])]
           fold == CHOOSE f : f = [i \in 0..n |-> IF i = 0 THEN NoEntries
                                                  ELSE Overlaid(layers[i].entries, f[i - 1])]
           Upto(k) == {i \in Setting(name) : i <= k}
<1>1. n \in Nat /\ \A i \in 1..n : layers[i].entries \in Entries
  BY LayersAre
<1>2. NoEntries \in Entries
  BY DEF NoEntries, Entries
<1>3. \A d, e \in Entries : Overlaid(d, e) \in Entries
  <2> SUFFICES ASSUME NEW d \in Entries, NEW e \in Entries PROVE Overlaid(d, e) \in Entries
    OBVIOUS
  <2>1. /\ DOMAIN d \cup DOMAIN e \in SUBSET Names
        /\ \A x \in DOMAIN d : d[x] \in Text
        /\ \A x \in DOMAIN e : e[x] \in Text
    BY EntriesAre
  <2>2. Overlaid(d, e) \in [DOMAIN d \cup DOMAIN e -> Text]
    BY <2>1 DEF Overlaid
  <2>3. QED BY <2>1, <2>2, EntriesAre
<1>4. step \in [(1..n) \X Entries -> Entries]
  BY <1>1, <1>3
<1>5. PICK f \in [0..n -> Entries] : Carries(f, n, NoEntries, step)
  <2> HIDE DEF step
  <2>1. n \in Nat
    BY <1>1
  <2> HIDE DEF n
  <2>2. QED BY <1>2, <1>4, <2>1, Recursion, Zenon
<1>6. f = [i \in 0..n |-> IF i = 0 THEN NoEntries ELSE Overlaid(layers[i].entries, f[i - 1])]
  <2>1. ASSUME NEW i \in 1..n PROVE step[<<i, f[i - 1]>>] = Overlaid(layers[i].entries, f[i - 1])
    <3>1. i - 1 \in 0..n
      BY <1>1
    <3>2. f[i - 1] \in Entries
      BY <1>5, <3>1
    <3>3. QED BY <3>2
  <2> HIDE DEF step
  <2>2. \A i \in 0..n : i = 0 \/ i \in 1..n
    BY <1>1
  <2> DEFINE G(i) == IF i = 0 THEN NoEntries ELSE step[<<i, f[i - 1]>>]
             H(i) == IF i = 0 THEN NoEntries ELSE Overlaid(layers[i].entries, f[i - 1])
  <2>3. \A i \in 0..n : G(i) = H(i)
    BY <2>1, <2>2
  <2>4. f = [i \in 0..n |-> G(i)]
    BY <1>5 DEF Carries
  <2> HIDE DEF G, H, n
  <2>5. f = [i \in 0..n |-> H(i)]
    BY <2>3, <2>4
  <2>6. QED BY <2>5 DEF H
<1>7. fold = [i \in 0..n |-> IF i = 0 THEN NoEntries ELSE Overlaid(layers[i].entries, fold[i - 1])]
  <2> HIDE DEF n
  <2>1. QED BY <1>6, Zenon
<1> HIDE DEF fold
<1>8. fold[0] = NoEntries /\ \A i \in 1..n : fold[i] = Overlaid(layers[i].entries, fold[i - 1])
  BY <1>1, <1>7
<1>9. Folded = fold[n]
  BY DEF Folded, fold
<1> DEFINE Agrees(k) == Held(fold[k], name) = IF Upto(k) = {} THEN Unset
                          ELSE layers[CHOOSE i \in Upto(k) : \A j \in Upto(k) : j <= i].entries[name]
           S == {k \in Nat : k <= n => Agrees(k)}
<1>10. 0 \in S
  <2>1. Upto(0) = {}
    BY <1>1, LayersAre DEF Setting
  <2>2. Held(fold[0], name) = Unset
    BY <1>8 DEF NoEntries, Held
  <2>3. QED BY <2>1, <2>2
<1>11. ASSUME NEW k \in Nat, k \in S PROVE k + 1 \in S
  <2> SUFFICES ASSUME k + 1 <= n PROVE Agrees(k + 1)
    OBVIOUS
  <2>1. k + 1 \in 1..n /\ k + 1 - 1 = k /\ DOMAIN layers = 1..n
    BY <1>1, LayersAre
  <2>2. fold[k + 1] = Overlaid(layers[k + 1].entries, fold[k])
    BY <1>8, <2>1
  <2>3. CASE name \in DOMAIN layers[k + 1].entries
    <3>1. k + 1 \in Upto(k + 1) /\ \A j \in Upto(k + 1) : j <= k + 1
      BY <2>1, <2>3 DEF Setting
    <3>2. (CHOOSE i \in Upto(k + 1) : \A j \in Upto(k + 1) : j <= i) = k + 1
      <4>1. \A i \in Upto(k + 1) : k + 1 <= i => i = k + 1
        BY <2>1 DEF Setting
      <4> HIDE DEF Upto
      <4>2. QED BY <3>1, <4>1
    <3>3. Held(fold[k + 1], name) = layers[k + 1].entries[name]
      BY <2>2, <2>3 DEF Held, Overlaid
    <3> HIDE DEF Upto
    <3>4. QED BY <3>1, <3>2, <3>3
  <2>4. CASE name \notin DOMAIN layers[k + 1].entries
    <3>1. Upto(k + 1) = Upto(k)
      BY <2>1, <2>4 DEF Setting
    <3>2. Held(fold[k + 1], name) = Held(fold[k], name)
      BY <2>2, <2>4 DEF Held, Overlaid
    <3>3. Agrees(k)
      BY <1>11
    <3> HIDE DEF Upto
    <3>4. QED BY <3>1, <3>2, <3>3
  <2>5. QED BY <2>3, <2>4
<1>12. Agrees(n)
  <2>1. n \in S
    <3> HIDE DEF S
    <3>1. QED BY <1>1, <1>10, <1>11, SetInduction
  <2> HIDE DEF Agrees
  <2>2. QED BY <2>1
<1>13. Upto(n) = Setting(name)
  BY <1>1, LayersAre DEF Setting
<1> HIDE DEF Upto
<1>14. QED BY <1>9, <1>12, <1>13 DEF Latest, Setting

-----------------------------------------------------------------------------
(* The candidates. *)

ProcessCandidate(name) == Candidate("process", 0, "str", Process(name), Empty, TRUE)
EnvCandidate(name, i) ==
  Candidate("envFile", i, "str", Held(layers[i].entries, name), layers[i].dir, MayWin(name, i))
FileCandidate(i) == Candidate("config", i, files[i].type, files[i].text, files[i].dir, TRUE)

(* The three kinds of candidates. *)
LEMMA EnvCandidatesAre ==
  ASSUME NEW name
  PROVE  /\ \A c \in EnvCandidates(name) :
              \/ c = ProcessCandidate(name) /\ Process(name) \notin {Unset, Empty}
              \/ \E i \in DOMAIN layers : /\ c = EnvCandidate(name, i)
                                          /\ Held(layers[i].entries, name) \notin {Unset, Empty}
         /\ Process(name) \notin {Unset, Empty} => ProcessCandidate(name) \in EnvCandidates(name)
         /\ \A i \in DOMAIN layers : Held(layers[i].entries, name) \notin {Unset, Empty} =>
              EnvCandidate(name, i) \in EnvCandidates(name)
<1> DEFINE all == {ProcessCandidate(name)} \cup {EnvCandidate(name, i) : i \in DOMAIN layers}
<1>1. EnvCandidates(name) = {c \in all : c.text \notin {Unset, Empty}}
  BY DEF EnvCandidates, ProcessCandidate, EnvCandidate
<1>2. ProcessCandidate(name).text = Process(name)
  BY DEF ProcessCandidate, Candidate
<1>3. \A i \in DOMAIN layers : EnvCandidate(name, i).text = Held(layers[i].entries, name)
  BY DEF EnvCandidate, Candidate
<1>4. \A c \in all : c = ProcessCandidate(name) \/ \E i \in DOMAIN layers : c = EnvCandidate(name, i)
  OBVIOUS
<1>5. ProcessCandidate(name) \in all /\ \A i \in DOMAIN layers : EnvCandidate(name, i) \in all
  OBVIOUS
<1> HIDE DEF all
<1>6. QED BY <1>1, <1>2, <1>3, <1>4, <1>5

(* A config file that has the setting is a candidate. *)
LEMMA FileCandidatesAre ==
  /\ \A c \in FileCandidates : \E i \in DOMAIN files : c = FileCandidate(i) /\ files[i].type # "absent"
  /\ \A i \in DOMAIN files : files[i].type # "absent" => FileCandidate(i) \in FileCandidates
BY DEF FileCandidates, FileCandidate

Sources == {"config", "envFile", "process"}
Sourced(S) == \A c \in S : c.from \in Sources /\ c.place \in Nat

(* What a candidate says of itself, and how high it stands.                *)
LEMMA CandidateIs ==
  /\ \A name : LET c == ProcessCandidate(name)
               IN /\ c.from = "process" /\ c.place = 0 /\ c.type = "str"
                  /\ c.text = Process(name) /\ c.dir = Empty /\ c.eligible
  /\ \A name, i : LET c == EnvCandidate(name, i)
                  IN /\ c.from = "envFile" /\ c.place = i /\ c.type = "str"
                     /\ c.text = Held(layers[i].entries, name) /\ c.dir = layers[i].dir
                     /\ (c.eligible <=> MayWin(name, i))
  /\ \A i : LET c == FileCandidate(i)
            IN /\ c.from = "config" /\ c.place = i /\ c.type = files[i].type
               /\ c.text = files[i].text /\ c.dir = files[i].dir /\ c.eligible
<1>1. ASSUME NEW name
      PROVE  LET c == ProcessCandidate(name)
             IN /\ c.from = "process" /\ c.place = 0 /\ c.type = "str"
                /\ c.text = Process(name) /\ c.dir = Empty /\ c.eligible
  BY DEF ProcessCandidate, Candidate
<1>2. ASSUME NEW name, NEW i
      PROVE  LET c == EnvCandidate(name, i)
             IN /\ c.from = "envFile" /\ c.place = i /\ c.type = "str"
                /\ c.text = Held(layers[i].entries, name) /\ c.dir = layers[i].dir
                /\ (c.eligible <=> MayWin(name, i))
  BY DEF EnvCandidate, Candidate
<1>3. ASSUME NEW i
      PROVE  LET c == FileCandidate(i)
             IN /\ c.from = "config" /\ c.place = i /\ c.type = files[i].type
                /\ c.text = files[i].text /\ c.dir = files[i].dir /\ c.eligible
  BY DEF FileCandidate, Candidate
<1>4. QED BY <1>1, <1>2, <1>3

(* The three levels of sources. *)
LEMMA LevelIs == Level["process"] = 3 /\ Level["envFile"] = 2 /\ Level["config"] = 1
BY DEF Level

(* Every candidate comes from a level and has a place on it. *)
LEMMA CandidatesSourced ==
  ASSUME LoadTypeOK, NEW name
  PROVE  Sourced(EnvCandidates(name) \cup FileCandidates)
<1>1. \A i \in DOMAIN layers : i \in Nat
  BY LayersAre
<1>2. \A i \in DOMAIN files : i \in Nat
  BY FilesAre
<1>3. ASSUME NEW c \in EnvCandidates(name) PROVE c.from \in Sources /\ c.place \in Nat
  BY <1>1, EnvCandidatesAre, CandidateIs DEF Sources
<1>4. ASSUME NEW c \in FileCandidates PROVE c.from \in Sources /\ c.place \in Nat
  BY <1>2, FileCandidatesAre, CandidateIs DEF Sources
<1>5. QED BY <1>3, <1>4 DEF Sourced

(* There is only one highest candidate. *)
LEMMA HighestIs ==
  ASSUME NEW S, Sourced(S), NEW c \in S, \A d \in S \ {c} : Above(c, d)
  PROVE  Highest(S) = c
<1>1. ASSUME NEW d \in S, NEW e \in S, Above(d, e), Above(e, d) PROVE FALSE
  <2>1. d.from \in Sources /\ e.from \in Sources /\ d.place \in Nat /\ e.place \in Nat
    BY DEF Sourced
  <2>2. Level[d.from] \in Nat /\ Level[e.from] \in Nat
    BY <2>1 DEF Level, Sources
  <2> HIDE DEF Level
  <2>3. QED BY <1>1, <2>1, <2>2 DEF Above
<1>2. \A e \in S : (\A d \in S \ {e} : Above(e, d)) => e = c
  BY <1>1
<1>3. QED BY <1>2 DEF Highest

(* Some candidate is the highest one, if there is one.                     *)
LEMMA SomeHighest ==
  ASSUME LoadTypeOK, NEW name, NEW S, S \subseteq EnvCandidates(name) \cup FileCandidates, S # {}
  PROVE  Highest(S) \in S /\ \A d \in S \ {Highest(S)} : Above(Highest(S), d)
<1> SUFFICES \E c \in S : \A d \in S \ {c} : Above(c, d)
  BY DEF Highest
<1>2. ASSUME NEW c \in S
      PROVE  \/ c = ProcessCandidate(name)
             \/ \E i \in DOMAIN layers : c = EnvCandidate(name, i)
             \/ \E i \in DOMAIN files : c = FileCandidate(i)
  BY EnvCandidatesAre, FileCandidatesAre
<1>3. CASE ProcessCandidate(name) \in S
  <2>1. ASSUME NEW d \in S \ {ProcessCandidate(name)} PROVE Above(ProcessCandidate(name), d)
    BY <1>2, CandidateIs, LevelIs DEF Above
  <2>2. QED BY <1>3, <2>1
<1> DEFINE env == {i \in DOMAIN layers : EnvCandidate(name, i) \in S}
           file == {i \in DOMAIN files : FileCandidate(i) \in S}
<1>4. CASE ProcessCandidate(name) \notin S /\ env # {}
  <2>1. PICK i \in env : \A j \in env : j <= i
    BY <1>4, LayersAre, LastElement
  <2>2. \A j \in env : j # i => i > j
    BY <2>1, LayersAre
  <2>3. ASSUME NEW d \in S \ {EnvCandidate(name, i)} PROVE Above(EnvCandidate(name, i), d)
    <3>1. CASE \E j \in DOMAIN layers : d = EnvCandidate(name, j)
      <4>1. PICK j \in DOMAIN layers : d = EnvCandidate(name, j)
        BY <3>1
      <4>2. j \in env /\ j # i
        BY <4>1
      <4>3. i > j
        BY <2>2, <4>2
      <4>4. QED BY <4>1, <4>3, CandidateIs, LevelIs DEF Above
    <3>2. CASE \E j \in DOMAIN files : d = FileCandidate(j)
      BY <3>2, CandidateIs, LevelIs DEF Above
    <3>3. QED BY <1>2, <1>4, <3>1, <3>2
  <2>4. QED BY <2>1, <2>3
<1>5. CASE ProcessCandidate(name) \notin S /\ env = {}
  <2>0. \A d \in S : \E j \in DOMAIN files : d = FileCandidate(j)
    BY <1>2, <1>5
  <2>1. PICK i \in file : \A j \in file : j <= i
    BY <2>0, FilesAre, LastElement
  <2>2. \A j \in file : j # i => i > j
    BY <2>1, FilesAre
  <2>3. ASSUME NEW d \in S \ {FileCandidate(i)} PROVE Above(FileCandidate(i), d)
    <3>1. PICK j \in DOMAIN files : d = FileCandidate(j)
      BY <2>0
    <3>2. j \in file /\ j # i
      BY <3>1
    <3>3. i > j
      BY <2>2, <3>2
    <3>4. QED BY <3>1, <3>3, CandidateIs, LevelIs DEF Above
  <2>4. QED BY <2>1, <2>3
<1>6. QED BY <1>3, <1>4, <1>5

(* Of the env files only the last that sets a name may win: with the text  *)
(* that they fold to, unless that is empty.                                *)
LEMMA EligibleEnv ==
  ASSUME LoadTypeOK, NEW name
  PROVE  /\ \A i \in DOMAIN layers :
              /\ MayWin(name, i) /\ Held(layers[i].entries, name) # Unset =>
                   /\ Latest(layers, name) = Held(layers[i].entries, name)
                   /\ Held(Folded, name) = Held(layers[i].entries, name)
                   /\ \A j \in DOMAIN layers :
                        MayWin(name, j) /\ Held(layers[j].entries, name) # Unset => j = i
         /\ Held(Folded, name) # Unset =>
              \E i \in DOMAIN layers : MayWin(name, i) /\ Held(layers[i].entries, name) = Held(Folded, name)
<1>1. \A i \in DOMAIN layers : i \in Nat
  BY LayersAre
<1>2. ASSUME NEW i \in DOMAIN layers
      PROVE  /\ i \in Setting(name) => layers[i].entries[name] = Held(layers[i].entries, name)
             /\ Held(layers[i].entries, name) # Unset => i \in Setting(name)
  BY DEF Held, Setting
<1>3. ASSUME NEW i \in DOMAIN layers, MayWin(name, i), Held(layers[i].entries, name) # Unset
      PROVE  /\ Latest(layers, name) = Held(layers[i].entries, name)
             /\ Held(Folded, name) = Held(layers[i].entries, name)
             /\ \A j \in DOMAIN layers :
                  MayWin(name, j) /\ Held(layers[j].entries, name) # Unset => j = i
  <2>1. i \in Setting(name)
    BY <1>2, <1>3
  <2>2. PICK j \in Setting(name) : Latest(layers, name) = layers[j].entries[name] /\ \A k \in Setting(name) : k <= j
    BY <2>1, LatestIs
  <2>3. j = i
    <3>1. i <= j /\ j <= i
      BY <1>3, <2>1, <2>2 DEF MayWin, Setting
    <3>2. i \in Nat /\ j \in Nat
      BY <1>1 DEF Setting
    <3>3. QED BY <3>1, <3>2
  <2>4. \A k \in DOMAIN layers : MayWin(name, k) /\ Held(layers[k].entries, name) # Unset => k = i
    <3>1. ASSUME NEW k \in DOMAIN layers, MayWin(name, k), Held(layers[k].entries, name) # Unset PROVE k = i
      <4>1. k \in Setting(name)
        BY <1>2, <3>1
      <4>2. i <= k /\ k <= i
        BY <1>3, <2>1, <3>1, <4>1 DEF MayWin, Setting
      <4>3. QED BY <1>1, <4>2
    <3>2. QED BY <3>1
  <2>5. QED BY <1>2, <2>1, <2>2, <2>3, <2>4, FoldedIsLatest
<1>4. ASSUME Held(Folded, name) # Unset
      PROVE  \E i \in DOMAIN layers : MayWin(name, i) /\ Held(layers[i].entries, name) = Held(Folded, name)
  <2>1. Setting(name) # {}
    BY <1>4, FoldedIsLatest
  <2>2. PICK i \in Setting(name) : Latest(layers, name) = layers[i].entries[name] /\ \A j \in Setting(name) : j <= i
    BY <2>1, LatestIs
  <2>3. i \in DOMAIN layers /\ MayWin(name, i)
    BY <2>2 DEF MayWin, Setting
  <2>4. Held(layers[i].entries, name) = Held(Folded, name)
    BY <1>2, <2>1, <2>2, <2>3, FoldedIsLatest
  <2>5. QED BY <2>3, <2>4
<1>5. QED BY <1>3, <1>4

(* A reference sees what the setting sees. *)
LEMMA ReferencesStep ==
  ASSUME LoadTypeOK
  PROVE  ReferencesSeeTheSetting
<1> DEFINE name == "SETTING"
           env == {c \in EnvCandidates(name) : c.eligible}
<1> SUFFICES ASSUME env # {}, Process(name) # Empty PROVE Var(name) = Highest(env).text
  BY DEF ReferencesSeeTheSetting
<1>1. Highest(env) \in env
  <2>1. env \subseteq EnvCandidates(name) \cup FileCandidates
    OBVIOUS
  <2> HIDE DEF env
  <2>2. QED BY <2>1, SomeHighest
<1>2. CASE Process(name) # Unset
  <2>1. ProcessCandidate(name) \in env
    BY <1>2, EnvCandidatesAre, CandidateIs
  <2>2. ASSUME NEW d \in env \ {ProcessCandidate(name)} PROVE Above(ProcessCandidate(name), d)
    <3>1. PICK i \in DOMAIN layers : d = EnvCandidate(name, i)
      BY EnvCandidatesAre
    <3>2. QED BY <3>1, CandidateIs, LevelIs DEF Above
  <2>3. Sourced(env)
    BY CandidatesSourced DEF Sourced
  <2>4. Highest(env) = ProcessCandidate(name)
    <3> HIDE DEF env
    <3>1. QED BY <2>1, <2>2, <2>3, HighestIs
  <2>5. QED BY <1>2, <2>4, CandidateIs DEF Var
<1>3. CASE Process(name) = Unset
  <2>1. PICK i \in DOMAIN layers : /\ Highest(env) = EnvCandidate(name, i)
                                   /\ Held(layers[i].entries, name) \notin {Unset, Empty}
    BY <1>1, <1>3, EnvCandidatesAre
  <2>2. MayWin(name, i)
    BY <1>1, <2>1, CandidateIs
  <2>3. Latest(layers, name) = Held(layers[i].entries, name)
    BY <2>1, <2>2, EligibleEnv
  <2>4. QED BY <1>3, <2>1, <2>3, CandidateIs DEF Var
<1>4. QED BY <1>2, <1>3

-----------------------------------------------------------------------------
(* What wins, and what is wrong. *)

AllCandidates == EnvCandidates("SETTING") \cup FileCandidates
Winners == {c \in AllCandidates : c.eligible /\ Value(c) \notin {Unset, Bad}}
WrongValues == {[what |-> "value", from |-> c.from, place |-> c.place] : c \in Wrong(AllCandidates)}
WrongStructures == {[what |-> "structure", from |-> "config", place |-> i] : i \in malformed}

(* A check yields the text, nothing, or that it is wrong.                  *)
LEMMA CheckIs ==
  ASSUME LoadTypeOK, NEW type, NEW given
  PROVE  /\ Check(input.kind, type, given) \in {Unset, Bad} \/ Check(input.kind, type, given) = given
         /\ Check(input.kind, type, given) = given /\ given \notin {Unset, Bad} => given \in Text
         /\ given \notin {Unset, Empty} =>
              /\ Check(input.kind, "str", given) = Bad <=> given \notin Accepts[input.kind]
              /\ Check(input.kind, "str", given) # Bad => Check(input.kind, "str", given) = given /\ given \in Text
<1>1. Accepts[input.kind] \subseteq Text /\ Unset \notin Text /\ Bad \notin Text
  BY InputIs, TextAssumption
<1>2. Check(input.kind, type, given) \in {Unset, Bad} \/ Check(input.kind, type, given) = given
  BY DEF Check
<1>3. ASSUME Check(input.kind, type, given) = given, given \notin {Unset, Bad} PROVE given \in Text
  BY <1>1, <1>3 DEF Check
<1>4. ASSUME given \notin {Unset, Empty}
      PROVE  Check(input.kind, "str", given) = IF given \in Accepts[input.kind] THEN given ELSE Bad
  BY <1>4 DEF Check
<1>5. QED BY <1>1, <1>2, <1>3, <1>4

(* With no value wrong, the highest of those that may win is the one that  *)
(* the documentation names.                                                *)
LEMMA WinnerIs ==
  ASSUME LoadTypeOK, Wrong(AllCandidates) = {}
  PROVE  /\ Winners = {} => Documented = Unset
         /\ Winners # {} => Highest(Winners) \in Winners /\ Value(Highest(Winners)) = Documented
<1> DEFINE name == "SETTING"
           folded == Held(Folded, name)
           File(i) == Check(input.kind, files[i].type, files[i].text)
           setting == {i \in DOMAIN files : files[i].type # "absent" /\ File(i) # Unset}
<1>1. \A c \in AllCandidates : Value(c) # Bad
  BY DEF Wrong
<1>2. ASSUME NEW c \in EnvCandidates(name) PROVE Value(c) = c.text /\ c.text \notin {Unset, Empty, Bad}
  <2>1. c.type = "str" /\ c.text \notin {Unset, Empty}
    BY EnvCandidatesAre, CandidateIs
  <2>2. c \in AllCandidates /\ Unset \notin Text /\ Bad \notin Text
    BY TextAssumption DEF AllCandidates
  <2>3. Value(c) = Check(input.kind, "str", c.text)
    BY <2>1 DEF Value
  <2>4. c.text \in Text /\ Value(c) = c.text
    BY <1>1, <2>1, <2>2, <2>3, CheckIs
  <2>5. QED BY <2>1, <2>2, <2>4
<1>3. \A i \in DOMAIN files : files[i].type # "absent" =>
        FileCandidate(i) \in AllCandidates /\ Value(FileCandidate(i)) = File(i) /\ File(i) # Bad
  BY <1>1, FileCandidatesAre, CandidateIs DEF AllCandidates, Value
<1>4. \A i \in setting : FileCandidate(i) \in Winners /\ Value(FileCandidate(i)) = files[i].text
  BY <1>3, CheckIs, CandidateIs DEF Winners
<1>5. Sourced(Winners)
  BY CandidatesSourced DEF Sourced, Winners, AllCandidates
<1>6. \A c \in Winners :
        \/ c = ProcessCandidate(name) /\ Process(name) \notin {Unset, Empty}
        \/ \E i \in DOMAIN layers : /\ c = EnvCandidate(name, i) /\ MayWin(name, i)
                                    /\ Held(layers[i].entries, name) \notin {Unset, Empty}
        \/ \E i \in setting : c = FileCandidate(i)
  <2> SUFFICES ASSUME NEW c \in Winners, c \notin EnvCandidates(name) PROVE \E i \in setting : c = FileCandidate(i)
    BY EnvCandidatesAre, CandidateIs DEF Winners
  <2>1. c \in FileCandidates /\ Value(c) # Unset
    BY DEF Winners, AllCandidates
  <2>2. PICK i \in DOMAIN files : c = FileCandidate(i) /\ files[i].type # "absent"
    BY <2>1, FileCandidatesAre
  <2>3. File(i) # Unset
    BY <1>3, <2>1, <2>2
  <2>4. QED BY <2>2, <2>3
<1> HIDE DEF File
<1>7. CASE Process(name) \notin {Unset, Empty}
  <2>1. ProcessCandidate(name) \in Winners /\ Value(ProcessCandidate(name)) = Process(name)
    BY <1>2, <1>7, EnvCandidatesAre, CandidateIs DEF Winners, AllCandidates
  <2>2. ASSUME NEW d \in Winners \ {ProcessCandidate(name)} PROVE Above(ProcessCandidate(name), d)
    BY <1>6, CandidateIs, LevelIs DEF Above
  <2>3. Highest(Winners) = ProcessCandidate(name)
    BY <1>5, <2>1, <2>2, HighestIs
  <2>4. QED BY <1>7, <2>1, <2>3 DEF Documented
<1>8. CASE Process(name) \in {Unset, Empty} /\ folded \notin {Unset, Empty}
  <2>1. PICK i \in DOMAIN layers : MayWin(name, i) /\ Held(layers[i].entries, name) = folded
    BY <1>8, EligibleEnv
  <2>2. EnvCandidate(name, i) \in Winners /\ Value(EnvCandidate(name, i)) = folded
    BY <1>2, <1>8, <2>1, EnvCandidatesAre, CandidateIs DEF Winners, AllCandidates
  <2>3. ASSUME NEW d \in Winners \ {EnvCandidate(name, i)} PROVE Above(EnvCandidate(name, i), d)
    <3>1. ASSUME NEW j \in DOMAIN layers, MayWin(name, j), Held(layers[j].entries, name) \notin {Unset, Empty}
          PROVE  j = i
      BY <1>8, <2>1, <3>1, EligibleEnv
    <3>2. QED BY <1>6, <1>8, <3>1, CandidateIs, LevelIs DEF Above
  <2>4. Highest(Winners) = EnvCandidate(name, i)
    BY <1>5, <2>2, <2>3, HighestIs
  <2>5. Folded[name] = folded
    BY <1>8 DEF Held
  <2>6. QED BY <1>8, <2>2, <2>4, <2>5 DEF Documented
<1>9. CASE Process(name) \in {Unset, Empty} /\ folded \in {Unset, Empty}
  <2>1. \A c \in Winners : \E i \in setting : c = FileCandidate(i)
    <3>1. ASSUME NEW i \in DOMAIN layers, MayWin(name, i), Held(layers[i].entries, name) \notin {Unset, Empty}
          PROVE  FALSE
      BY <1>9, <3>1, EligibleEnv
    <3>2. QED BY <1>6, <1>9, <3>1
  <2>2. Documented = IF setting = {} THEN Unset
                     ELSE files[CHOOSE i \in setting : \A j \in setting : j <= i].text
    BY <1>9 DEF Documented, File
  <2>3. CASE setting = {}
    BY <2>1, <2>2, <2>3
  <2>4. CASE setting # {}
    <3> DEFINE i == CHOOSE k \in setting : \A j \in setting : j <= k
    <3>1. i \in setting /\ \A j \in setting : j <= i
      <4>1. setting \subseteq 1..Len(files) /\ Len(files) \in Nat
        BY FilesAre
      <4> HIDE DEF setting
      <4>2. QED BY <2>4, <4>1, LastElement
    <3> HIDE DEF i
    <3>2. \A j \in setting : j # i => i > j
      <4>1. setting \subseteq Nat
        BY FilesAre
      <4> HIDE DEF setting
      <4>2. QED BY <3>1, <4>1
    <3>3. FileCandidate(i) \in Winners /\ Value(FileCandidate(i)) = files[i].text
      BY <1>4, <3>1
    <3>4. ASSUME NEW d \in Winners \ {FileCandidate(i)} PROVE Above(FileCandidate(i), d)
      <4>1. PICK j \in setting : d = FileCandidate(j)
        BY <2>1
      <4>2. i > j
        BY <3>2, <4>1
      <4>3. QED BY <4>1, <4>2, CandidateIs DEF Above
    <3>5. Highest(Winners) = FileCandidate(i)
      BY <1>5, <3>3, <3>4, HighestIs
    <3>6. Documented = files[i].text
      BY <2>2, <2>4 DEF i
    <3>7. QED BY <3>3, <3>5, <3>6
  <2>5. QED BY <2>3, <2>4
<1>10. QED BY <1>7, <1>8, <1>9

(* The candidates whose value is wrong are those of the wrong sources.     *)
LEMMA WrongAre ==
  ASSUME LoadTypeOK
  PROVE  {<<c.from, c.place>> : c \in Wrong(AllCandidates)} = WrongSources
<1> DEFINE name == "SETTING"
           accepted == Accepts[input.kind] \cup {Unset, Empty}
           File(i) == Check(input.kind, files[i].type, files[i].text)
<1>1. ASSUME NEW x
      PROVE  x \in WrongSources <=>
               \/ x = <<"process", 0>> /\ Process(name) \notin accepted
               \/ \E i \in DOMAIN layers : x = <<"envFile", i>> /\ Held(layers[i].entries, name) \notin accepted
               \/ \E i \in DOMAIN files : x = <<"config", i>> /\ files[i].type # "absent" /\ File(i) = Bad
  BY DEF WrongSources
<1>2. ASSUME NEW c \in Wrong(AllCandidates) PROVE <<c.from, c.place>> \in WrongSources
  <2>1. c \in AllCandidates /\ Value(c) = Bad
    BY DEF Wrong
  <2>2. CASE c \in EnvCandidates(name)
    <3>1. c.type = "str" /\ c.text \notin {Unset, Empty}
      BY <2>2, EnvCandidatesAre, CandidateIs
    <3>2. c.text \notin accepted
      BY <2>1, <3>1, CheckIs DEF Value
    <3> HIDE DEF accepted
    <3>3. QED BY <1>1, <2>2, <3>2, EnvCandidatesAre, CandidateIs
  <2>3. CASE c \in FileCandidates
    <3>1. PICK i \in DOMAIN files : c = FileCandidate(i) /\ files[i].type # "absent"
      BY <2>3, FileCandidatesAre
    <3>2. c.from = "config" /\ c.place = i /\ File(i) = Bad
      BY <2>1, <3>1, CandidateIs DEF Value
    <3> HIDE DEF accepted, File
    <3>3. QED BY <1>1, <3>1, <3>2
  <2>4. QED BY <2>1, <2>2, <2>3 DEF AllCandidates
<1>3. ASSUME NEW x \in WrongSources PROVE \E c \in Wrong(AllCandidates) : x = <<c.from, c.place>>
  <2>1. CASE x = <<"process", 0>> /\ Process(name) \notin accepted
    <3> DEFINE c == ProcessCandidate(name)
    <3>1. c \in AllCandidates
      BY <2>1, EnvCandidatesAre DEF AllCandidates
    <3>2. Value(c) = Bad
      BY <2>1, CheckIs, CandidateIs DEF Value
    <3>3. x = <<c.from, c.place>>
      BY <2>1, CandidateIs
    <3> HIDE DEF c
    <3>4. QED BY <3>1, <3>2, <3>3 DEF Wrong
  <2>2. ASSUME NEW i \in DOMAIN layers, x = <<"envFile", i>>, Held(layers[i].entries, name) \notin accepted
        PROVE  \E c \in Wrong(AllCandidates) : x = <<c.from, c.place>>
    <3> DEFINE c == EnvCandidate(name, i)
    <3>1. c \in AllCandidates
      BY <2>2, EnvCandidatesAre DEF AllCandidates
    <3>2. Value(c) = Bad
      BY <2>2, CheckIs, CandidateIs DEF Value
    <3>3. x = <<c.from, c.place>>
      BY <2>2, CandidateIs
    <3> HIDE DEF c
    <3>4. QED BY <3>1, <3>2, <3>3 DEF Wrong
  <2>3. ASSUME NEW i \in DOMAIN files, x = <<"config", i>>, files[i].type # "absent", File(i) = Bad
        PROVE  \E c \in Wrong(AllCandidates) : x = <<c.from, c.place>>
    <3> DEFINE c == FileCandidate(i)
    <3>1. c \in AllCandidates
      BY <2>3, FileCandidatesAre DEF AllCandidates
    <3>2. Value(c) = Bad
      BY <2>3, CandidateIs DEF Value
    <3>3. x = <<c.from, c.place>>
      BY <2>3, CandidateIs
    <3> HIDE DEF c
    <3>4. QED BY <3>1, <3>2, <3>3 DEF Wrong
  <2> HIDE DEF accepted, File
  <2>4. QED BY <1>1, <2>1, <2>2, <2>3
<1>4. QED BY <1>2, <1>3

(* Numbers that tell three small parts apart.                              *)
LEMMA Numbered ==
  ASSUME NEW p \in Nat, NEW l \in 1..3, NEW v \in 0..1, NEW q \in Nat, NEW k \in 1..3, NEW w \in 0..1,
         6 * p + 2 * l + v = 6 * q + 2 * k + w
  PROVE  p = q /\ l = k /\ v = w
OBVIOUS

(* What is wrong is finite and in a strict order, so it is reported whole. *)
LEMMA WrongReported ==
  ASSUME LoadTypeOK
  PROVE  LET wrong == WrongValues \cup WrongStructures
             reported == InOrder(wrong, {pair \in wrong \X wrong : Before(pair[1], pair[2])})
         IN reported \in Seq(wrong) /\ {reported[k] : k \in DOMAIN reported} = wrong
<1> DEFINE wrong == WrongValues \cup WrongStructures
           R == {pair \in wrong \X wrong : Before(pair[1], pair[2])}
           places == Len(layers) + Len(files)
           E == [what : {"value", "structure"}, from : Sources, place : 0..places]
           What(e) == IF e.what = "value" THEN 1 ELSE 0
           number == [e \in wrong |-> 6 * e.place + 2 * Level[e.from] + What(e)]
<1>1. Len(layers) \in Nat /\ Len(files) \in Nat /\ DOMAIN layers = 1..Len(layers) /\ DOMAIN files = 1..Len(files)
  BY LayersAre, FilesAre
<1>2. wrong \subseteq E
  <2>1. ASSUME NEW c \in AllCandidates PROVE c.from \in Sources /\ c.place \in 0..places
    BY <1>1, EnvCandidatesAre, FileCandidatesAre, CandidateIs DEF AllCandidates, Sources
  <2>2. malformed \subseteq 0..places
    <3>1. malformed \subseteq DOMAIN files
      BY DEF LoadTypeOK
    <3>2. QED BY <1>1, <3>1
  <2>3. "config" \in Sources
    BY DEF Sources
  <2>4. QED BY <2>1, <2>2, <2>3 DEF WrongValues, WrongStructures, Wrong
<1> HIDE DEF wrong
<1>3. \A from \in Sources : Level[from] \in 1..3
  BY LevelIs DEF Sources
<1>4. \A d, e \in Sources : Level[d] = Level[e] => d = e
  BY LevelIs DEF Sources
<1>5. \A e \in wrong : e.what \in {"value", "structure"} /\ e.from \in Sources /\ e.place \in 0..places
  BY <1>2
<1>6. \A d, e \in wrong : d.what = e.what /\ d.from = e.from /\ d.place = e.place => d = e
  BY <1>2
<1>7. IsFiniteSet(wrong)
  <2> DEFINE top == 6 * places + 7
  <2>0. ASSUME NEW e \in wrong
        PROVE  e.place \in 0..places /\ Level[e.from] \in 1..3 /\ What(e) \in 0..1
    BY <1>3, <1>5
  <2> HIDE DEF What
  <2>1. number \in [wrong -> 0..top]
    <3>1. ASSUME NEW e \in wrong PROVE 6 * e.place + 2 * Level[e.from] + What(e) \in 0..top
      <4>1. \A n \in Nat : \A p \in 0..n : \A l \in 1..3 : \A w \in 0..1 : 6 * p + 2 * l + w \in 0..(6 * n + 7)
        OBVIOUS
      <4>2. places \in Nat
        BY <1>1
      <4> HIDE DEF places
      <4>3. QED BY <2>0, <4>1, <4>2
    <3> HIDE DEF top
    <3>2. QED BY <3>1
  <2>2. ASSUME NEW d \in wrong, NEW e \in wrong, number[d] = number[e] PROVE d = e
    <3>2. /\ d.place \in Nat /\ Level[d.from] \in 1..3 /\ What(d) \in 0..1
          /\ e.place \in Nat /\ Level[e.from] \in 1..3 /\ What(e) \in 0..1
      BY <1>1, <2>0
    <3>3. 6 * d.place + 2 * Level[d.from] + What(d) = 6 * e.place + 2 * Level[e.from] + What(e)
      BY <2>2
    <3>4. d.place = e.place /\ Level[d.from] = Level[e.from] /\ What(d) = What(e)
      <4>1. PICK p \in Nat, q \in Nat : p = d.place /\ q = e.place
        BY <3>2
      <4>2. PICK l \in 1..3, k \in 1..3 : l = Level[d.from] /\ k = Level[e.from]
        BY <3>2
      <4>3. PICK v \in 0..1, w \in 0..1 : v = What(d) /\ w = What(e)
        BY <3>2
      <4>4. 6 * p + 2 * l + v = 6 * q + 2 * k + w
        BY <3>3, <4>1, <4>2, <4>3
      <4>5. p = q /\ l = k /\ v = w
        BY <4>4, Numbered
      <4>6. QED BY <4>1, <4>2, <4>3, <4>5
    <3>5. d.what = e.what
      BY <1>5, <3>4 DEF What
    <3>6. QED BY <1>4, <1>5, <1>6, <3>4, <3>5
  <2> HIDE DEF number
  <2>3. number \in Injection(wrong, 0..top)
    BY <2>1, <2>2 DEF Injection, IsInjective
  <2>4. IsFiniteSet(0..top)
    BY <1>1, FS_Interval
  <2>5. QED BY <2>3, <2>4, FS_Injection
<1>8. StrictOrder(wrong, R)
  <2>1. ASSUME NEW d \in wrong, NEW e \in wrong PROVE <<d, e>> \in R <=> Before(d, e)
    OBVIOUS
  <2>2. ASSUME NEW d \in wrong PROVE ~Before(d, d)
    BY <1>3, <1>5 DEF Before
  <2>3. ASSUME NEW d \in wrong, NEW e \in wrong PROVE d = e \/ Before(d, e) \/ Before(e, d)
    <3>1. Level[d.from] \in 1..3 /\ Level[e.from] \in 1..3 /\ d.place \in 0..places /\ e.place \in 0..places
      BY <1>3, <1>5
    <3>2. QED BY <1>1, <1>4, <1>5, <1>6, <3>1 DEF Before
  <2>4. ASSUME NEW d \in wrong, NEW e \in wrong, NEW f \in wrong, Before(d, e), Before(e, f) PROVE Before(d, f)
    <3>1. /\ Level[d.from] \in 1..3 /\ Level[e.from] \in 1..3 /\ Level[f.from] \in 1..3
          /\ d.place \in 0..places /\ e.place \in 0..places /\ f.place \in 0..places
      BY <1>3, <1>5
    <3>2. QED BY <1>1, <2>4, <3>1 DEF Before
  <2> HIDE DEF R
  <2>5. QED BY <2>1, <2>2, <2>3, <2>4 DEF StrictOrder
<1>9. InOrder(wrong, R) \in Seq(wrong) /\ {InOrder(wrong, R)[k] : k \in DOMAIN InOrder(wrong, R)} = wrong
  <2> HIDE DEF R
  <2>1. QED BY <1>7, <1>8, Ordered
<1>10. QED BY <1>9 DEF wrong

-----------------------------------------------------------------------------
(* What the reading yields. *)

Outcome == [text : Text, unset : SUBSET Names, ok : BOOLEAN]
Lookups == [Names -> Text \cup {Unset}]

(* A substitution yields a text: templates nest to a depth, so that it     *)
(* ends.                                                                   *)
LEMMA SubstituteTyped ==
  ASSUME NEW text \in Text, NEW lookup \in Lookups
  PROVE  Substitute(text, lookup) \in Outcome
<1> DEFINE V(t) == lookup[Parts[t].name]
           Kept(t) == [text |-> IF V(t) = Unset THEN Empty ELSE V(t), unset |-> {}, ok |-> TRUE]
           Absent(t) == IF Parts[t].op \in {":-", ":+", ":?"} THEN V(t) \in {Unset, Empty} ELSE V(t) = Unset
           Own(t, arg) ==
             CASE Parts[t].op = "literal" -> [text |-> t, unset |-> {}, ok |-> TRUE]
               [] Parts[t].op = "invalid" -> [text |-> Empty, unset |-> {}, ok |-> FALSE]
               [] Parts[t].op = "plain" -> [Kept(t) EXCEPT !.unset = IF V(t) = Unset THEN {Parts[t].name} ELSE {}]
               [] Parts[t].op \in {":-", "-"} -> IF Absent(t) THEN arg ELSE Kept(t)
               [] Parts[t].op \in {":+", "+"} -> IF Absent(t) THEN Kept(t) ELSE arg
               [] Parts[t].op \in {":?", "?"} -> IF Absent(t) THEN [arg EXCEPT !.ok = FALSE] ELSE Kept(t)
           Body(f, t) == Own(t, f[Parts[t].arg])
           Upto(n) == {t \in Text : Nesting[t] < n}
           Defines(f, S) == f \in [S -> Outcome] /\ \A t \in S : f[t] = Body(f, t)
           Defined == {n \in Nat : \E f : Defines(f, Upto(n))}
<1>1. \A t \in Text : /\ Parts[t].name \in Names /\ Parts[t].arg \in Text /\ Nesting[t] \in Nat
                      /\ Parts[t].op \in Ops /\ V(t) \in Text \cup {Unset}
  BY TextAssumption DEF Lookups
<1>2. \A t \in Text : Kept(t) \in Outcome
  BY <1>1, TextAssumption DEF Outcome
<1>3. ASSUME NEW t \in Text, NEW arg, Parts[t].op \in Taking => arg \in Outcome PROVE Own(t, arg) \in Outcome
  <2> DEFINE op == Parts[t].op
  <2>1. CASE op = "literal"
    BY <2>1 DEF Outcome
  <2>2. CASE op = "invalid"
    BY <2>2, TextAssumption DEF Outcome
  <2>3. CASE op = "plain"
    <3>1. Own(t, arg) = [Kept(t) EXCEPT !.unset = IF V(t) = Unset THEN {Parts[t].name} ELSE {}]
      BY <2>3
    <3>2. (IF V(t) = Unset THEN {Parts[t].name} ELSE {}) \in SUBSET Names
      BY <1>1
    <3> HIDE DEF Kept, Own, V
    <3>3. QED BY <1>2, <3>1, <3>2 DEF Outcome
  <2>4. CASE op \in Taking
    <3>1. arg \in Outcome /\ [arg EXCEPT !.ok = FALSE] \in Outcome
      BY <1>3, <2>4 DEF Outcome
    <3>2. Own(t, arg) \in {arg, Kept(t), [arg EXCEPT !.ok = FALSE]}
      <4> HIDE DEF Kept, Absent
      <4>1. QED BY <2>4 DEF Taking
    <3> HIDE DEF Own, Kept
    <3>3. QED BY <1>2, <3>1, <3>2
  <2>5. QED BY <1>1, <2>1, <2>2, <2>3, <2>4 DEF Ops
<1>4. \A t \in Text : \A a, b : (Parts[t].op \in Taking => a = b) => Own(t, a) = Own(t, b)
  <2> SUFFICES ASSUME NEW t \in Text, NEW a, NEW b, Parts[t].op \notin Taking PROVE Own(t, a) = Own(t, b)
    OBVIOUS
  <2>1. Parts[t].op \in {"literal", "invalid", "plain"}
    BY <1>1 DEF Ops
  <2> HIDE DEF Kept
  <2>2. QED BY <2>1
<1>5. \A t \in Text : Parts[t].op \in Taking => Nesting[Parts[t].arg] < Nesting[t]
  BY TextAssumption
<1> HIDE DEF V, Kept, Absent, Own
<1>6. 0 \in Defined
  <2> DEFINE f == [t \in {} |-> Empty]
  <2>1. Upto(0) = {}
    BY <1>1
  <2>2. Defines(f, {})
    OBVIOUS
  <2> HIDE DEF f, Defines, Upto
  <2>3. QED BY <2>1, <2>2
<1>7. ASSUME NEW n \in Nat, n \in Defined PROVE n + 1 \in Defined
  <2>1. PICK f : Defines(f, Upto(n))
    BY <1>7
  <2> DEFINE g == [t \in Upto(n + 1) |-> Body(f, t)]
  <2>2. ASSUME NEW t \in Upto(n + 1), Parts[t].op \in Taking PROVE Parts[t].arg \in Upto(n)
    BY <1>1, <1>5, <2>2
  <2>3. ASSUME NEW t \in Upto(n + 1) PROVE g[t] \in Outcome
    BY <1>3, <2>1, <2>2
  <2>4. ASSUME NEW t \in Upto(n) PROVE t \in Upto(n + 1) /\ g[t] = f[t]
    <3>1. t \in Upto(n + 1)
      BY <1>1
    <3> HIDE DEF Upto, Body
    <3>2. QED BY <2>1, <3>1
  <2>5. ASSUME NEW t \in Upto(n + 1) PROVE g[t] = Body(g, t)
    <3>1. Parts[t].op \in Taking => f[Parts[t].arg] = g[Parts[t].arg]
      BY <2>2, <2>4
    <3>2. t \in Text /\ g[t] = Body(f, t)
      OBVIOUS
    <3> HIDE DEF g
    <3>3. QED BY <1>4, <3>1, <3>2
  <2>6. g \in [Upto(n + 1) -> Outcome]
    <3> HIDE DEF Body, Upto
    <3>1. QED BY <2>3
  <2> HIDE DEF g, Body, Upto
  <2>7. QED BY <2>5, <2>6
<1>8. Nat \subseteq Defined
  <2> HIDE DEF Defined
  <2>1. QED BY <1>6, <1>7, SetInduction
(* They agree where two of them are defined. *)
<1>9. ASSUME NEW m \in Nat, NEW n \in Nat, NEW f, NEW g, Defines(f, Upto(m)), Defines(g, Upto(n))
      PROVE  \A t \in Upto(m) \cap Upto(n) : f[t] = g[t]
  <2> DEFINE S == {k \in Nat : \A t \in Upto(m) \cap Upto(n) : Nesting[t] < k => f[t] = g[t]}
  <2>1. 0 \in S
    BY <1>1
  <2>2. ASSUME NEW k \in Nat, k \in S PROVE k + 1 \in S
    <3> SUFFICES ASSUME NEW t \in Upto(m) \cap Upto(n), Nesting[t] < k + 1 PROVE f[t] = g[t]
      OBVIOUS
    <3>1. Parts[t].op \in Taking => f[Parts[t].arg] = g[Parts[t].arg]
      <4> SUFFICES ASSUME Parts[t].op \in Taking PROVE f[Parts[t].arg] = g[Parts[t].arg]
        OBVIOUS
      <4>1. Parts[t].arg \in Upto(m) \cap Upto(n) /\ Nesting[Parts[t].arg] < k
        BY <1>1, <1>5
      <4>2. QED BY <2>2, <4>1
    <3>2. t \in Text /\ f[t] = Body(f, t) /\ g[t] = Body(g, t)
      BY <1>9
    <3>3. QED BY <1>4, <3>1, <3>2
  <2>3. Nat \subseteq S
    <3> HIDE DEF S
    <3>1. QED BY <2>1, <2>2, SetInduction
  <2>4. ASSUME NEW t \in Upto(m) \cap Upto(n) PROVE f[t] = g[t]
    <3>1. Nesting[t] + 1 \in S /\ Nesting[t] < Nesting[t] + 1
      <4>1. Nesting[t] \in Nat
        BY <1>1
      <4> HIDE DEF S
      <4>2. QED BY <2>3, <4>1
    <3>2. QED BY <3>1
  <2>5. QED BY <2>4
(* So one function takes every text to its value. *)
<1> DEFINE F(n) == CHOOSE f : Defines(f, Upto(n))
           h == [t \in Text |-> F(Nesting[t] + 1)[t]]
<1>10. \A n \in Nat : Defines(F(n), Upto(n))
  <2> HIDE DEF Defines, Upto
  <2>1. QED BY <1>8
<1> HIDE DEF F
<1>11. ASSUME NEW t \in Text PROVE h[t] \in Outcome /\ h[t] = Body(h, t)
  <2> DEFINE n == Nesting[t] + 1
             a == Parts[t].arg
  <2>1. n \in Nat /\ t \in Upto(n)
    BY <1>1
  <2>2. h[t] = F(n)[t] /\ F(n)[t] \in Outcome /\ F(n)[t] = Body(F(n), t)
    BY <1>10, <2>1
  <2>3. Parts[t].op \in Taking => h[a] = F(n)[a]
    <3> SUFFICES ASSUME Parts[t].op \in Taking PROVE h[a] = F(n)[a]
      OBVIOUS
    <3> DEFINE m == Nesting[a] + 1
    <3>1. a \in Text /\ m \in Nat /\ a \in Upto(m) \cap Upto(n)
      BY <1>1, <1>5
    <3>2. h[a] = F(m)[a]
      BY <3>1
    <3>3. Defines(F(m), Upto(m)) /\ Defines(F(n), Upto(n))
      BY <1>10, <2>1, <3>1
    <3> HIDE DEF Defines, Upto, m, n, a, h
    <3>4. QED BY <1>9, <2>1, <3>1, <3>2, <3>3
  <2> HIDE DEF h
  <2>4. QED BY <1>4, <2>2, <2>3
<1> DEFINE value == CHOOSE f : f = [t \in Text |-> Body(f, t)]
<1>12. h = [t \in Text |-> Body(h, t)]
  <2>1. h = [t \in Text |-> h[t]]
    OBVIOUS
  <2> HIDE DEF h, Body
  <2>2. QED BY <1>11, <2>1
<1>13. value = [t \in Text |-> Body(value, t)]
  <2> HIDE DEF h, Body
  <2>1. QED BY <1>12, Zenon
<1>14. Substitute(text, lookup) = value[text]
  BY DEF Substitute, Own, V, Kept, Absent
<1> HIDE DEF value
<1>15. value[text] \in Outcome
  <2> DEFINE S == {k \in Nat : \A t \in Text : Nesting[t] < k => value[t] \in Outcome}
  <2>1. 0 \in S
    BY <1>1
  <2>2. ASSUME NEW k \in Nat, k \in S PROVE k + 1 \in S
    <3> SUFFICES ASSUME NEW t \in Text, Nesting[t] < k + 1 PROVE value[t] \in Outcome
      OBVIOUS
    <3>1. Parts[t].op \in Taking => value[Parts[t].arg] \in Outcome
      BY <1>1, <1>5, <2>2
    <3>2. value[t] = Body(value, t)
      <4> HIDE DEF Body
      <4>1. QED BY <1>13
    <3>3. QED BY <1>3, <3>1, <3>2
  <2>3. Nat \subseteq S
    <3> HIDE DEF S
    <3>1. QED BY <2>1, <2>2, SetInduction
  <2>4. Nesting[text] + 1 \in S /\ Nesting[text] < Nesting[text] + 1
    <3>1. Nesting[text] \in Nat
      BY <1>1
    <3> HIDE DEF S
    <3>2. QED BY <2>3, <3>1
  <2>5. QED BY <2>4
<1>16. QED BY <1>14, <1>15

(* What ${} may read. *)
LEMMA VarsAre ==
  ASSUME LoadTypeOK
  PROVE  /\ \A name \in Names : Process(name) \in Text \cup {Unset} /\ Var(name) \in Text \cup {Unset}
         /\ \A entries \in Entries : Lookup(entries) \in Lookups
<1>1. ASSUME NEW name \in Names PROVE Process(name) \in Text \cup {Unset} /\ Var(name) \in Text \cup {Unset}
  <2>1. Process(name) \in Text \cup {Unset}
    BY InputIs DEF Process
  <2>2. Latest(layers, name) \in Text \cup {Unset}
    <3>1. CASE Setting(name) = {}
      BY <3>1 DEF Latest, Setting
    <3>2. CASE Setting(name) # {}
      <4>1. PICK i \in Setting(name) : Latest(layers, name) = layers[i].entries[name]
        BY <3>2, LatestIs
      <4>2. layers[i].entries \in Entries /\ name \in DOMAIN layers[i].entries
        BY LayersAre DEF Setting
      <4>3. QED BY <4>1, <4>2, EntriesAre
    <3>3. QED BY <3>1, <3>2
  <2>3. QED BY <2>1, <2>2 DEF Var
<1>2. ASSUME NEW entries \in Entries PROVE Lookup(entries) \in Lookups
  <2>1. \A name \in Names : (IF Process(name) = Unset /\ name \in DOMAIN entries THEN entries[name] ELSE Var(name))
                              \in Text \cup {Unset}
    BY <1>1, EntriesAre
  <2>2. QED BY <2>1 DEF Lookup, Lookups
<1>3. QED BY <1>1, <1>2

(* Reading a statement, and a file of them. *)
Reading == [entries : Entries, unset : SUBSET Names, ok : BOOLEAN, stopped : BOOLEAN]

(* What is read of a file is entries and the names that were unset. *)
LEMMA ParseTyped ==
  ASSUME LoadTypeOK, NEW statements \in Seq(Statement)
  PROVE  ParseEnv(statements) \in Reading
<1>1. ASSUME NEW acc \in Reading, NEW s \in Statement PROVE ReadStatement(acc, s) \in Reading
  <2> DEFINE lookup == Lookup(acc.entries)
             new == Substitute(s.raw, lookup)
  <2>1. acc.entries \in Entries /\ s.key \in Names /\ s.raw \in Text /\ s.form \in Forms
    BY DEF Reading, Statement
  <2>2. lookup \in Lookups
    BY <2>1, VarsAre
  <2>3. new \in Outcome
    BY <2>1, <2>2, SubstituteTyped
  <2>4. ASSUME NEW t \in Text PROVE Put(acc.entries, s.key, t) \in Entries
    <3>1. DOMAIN acc.entries \cup {s.key} \in SUBSET Names /\ \A x \in DOMAIN acc.entries : acc.entries[x] \in Text
      BY <2>1, EntriesAre
    <3>2. Put(acc.entries, s.key, t) \in [DOMAIN acc.entries \cup {s.key} -> Text]
      BY <3>1 DEF Put
    <3>3. QED BY <3>1, <3>2, EntriesAre
  <2>5. Inherit(acc.entries, s.key, lookup[s.key]) \in Entries
    <3>1. lookup[s.key] \in Text \cup {Unset}
      BY <2>1, <2>2 DEF Lookups
    <3> HIDE DEF lookup
    <3>2. QED BY <2>1, <2>4, <3>1 DEF Inherit
  <2> HIDE DEF new
  <2>6. new.text \in Text /\ new.unset \in SUBSET Names
    BY <2>3 DEF Outcome
  <2>7. Put(acc.entries, s.key, new.text) \in Entries /\ Put(acc.entries, s.key, s.raw) \in Entries
    BY <2>1, <2>4, <2>6
  <2> HIDE DEF lookup
  <2>8. /\ acc \in Reading
        /\ [acc EXCEPT !.ok = FALSE] \in Reading
        /\ [acc EXCEPT !.ok = FALSE, !.stopped = TRUE] \in Reading
        /\ [acc EXCEPT !.entries = Inherit(@, s.key, lookup[s.key])] \in Reading
        /\ [acc EXCEPT !.entries = Put(@, s.key, s.raw)] \in Reading
        /\ [acc EXCEPT !.entries = Put(@, s.key, new.text), !.unset = @ \cup new.unset] \in Reading
    BY <2>5, <2>6, <2>7 DEF Reading
  <2>9. ReadStatement(acc, s) \in
          {acc, [acc EXCEPT !.ok = FALSE], [acc EXCEPT !.ok = FALSE, !.stopped = TRUE],
           [acc EXCEPT !.entries = Inherit(@, s.key, lookup[s.key])], [acc EXCEPT !.entries = Put(@, s.key, s.raw)],
           [acc EXCEPT !.entries = Put(@, s.key, new.text), !.unset = @ \cup new.unset]}
    <3> DEFINE c == [acc EXCEPT !.ok = FALSE]
               d == [acc EXCEPT !.ok = FALSE, !.stopped = TRUE]
               e == [acc EXCEPT !.entries = Inherit(@, s.key, lookup[s.key])]
               f == [acc EXCEPT !.entries = Put(@, s.key, s.raw)]
               g == [acc EXCEPT !.entries = Put(@, s.key, new.text), !.unset = @ \cup new.unset]
    <3>1. ReadStatement(acc, s) =
            CASE acc.stopped -> acc
              [] ~acc.stopped /\ s.form = "bad" -> c
              [] ~acc.stopped /\ s.form = "open" -> d
              [] ~acc.stopped /\ s.form = "bare" -> e
              [] ~acc.stopped /\ s.form = "quoted" -> f
              [] ~acc.stopped /\ s.form = "expand" -> IF new.ok THEN g ELSE c
      BY DEF ReadStatement, new, lookup
    <3> HIDE DEF c, d, e, f, g
    <3>2. ReadStatement(acc, s) \in {acc, c, d, e, f, g}
      BY <2>1, <3>1 DEF Forms
    <3>3. QED BY <3>2 DEF c, d, e, f, g
  <2>10. QED BY <2>8, <2>9
<1> DEFINE n == Len(statements)
           none == [entries |-> NoEntries, unset |-> {}, ok |-> TRUE, stopped |-> FALSE]
           step == [x \in (1..n) \X Reading |-> ReadStatement(x[2], statements[x[1]])]
           parsed == CHOOSE f : f = [i \in 0..n |-> IF i = 0 THEN none ELSE ReadStatement(f[i - 1], statements[i])]
<1>2. n \in Nat /\ \A i \in 1..n : statements[i] \in Statement
  BY LenProperties, ElementOfSeq
<1>3. none \in Reading
  <2>1. NoEntries \in Entries
    BY DEF NoEntries, Entries
  <2>2. QED BY <2>1 DEF Reading
<1>4. step \in [(1..n) \X Reading -> Reading]
  BY <1>1, <1>2
<1>5. PICK f \in [0..n -> Reading] : Carries(f, n, none, step)
  <2> HIDE DEF step, none
  <2>1. n \in Nat
    BY <1>2
  <2> HIDE DEF n
  <2>2. QED BY <1>3, <1>4, <2>1, Recursion, Zenon
<1>6. f = [i \in 0..n |-> IF i = 0 THEN none ELSE ReadStatement(f[i - 1], statements[i])]
  <2> DEFINE G(i) == IF i = 0 THEN none ELSE step[<<i, f[i - 1]>>]
             H(i) == IF i = 0 THEN none ELSE ReadStatement(f[i - 1], statements[i])
  <2>1. ASSUME NEW i \in 0..n PROVE G(i) = H(i)
    <3> SUFFICES ASSUME i # 0 PROVE step[<<i, f[i - 1]>>] = ReadStatement(f[i - 1], statements[i])
      OBVIOUS
    <3>1. i \in 1..n /\ i - 1 \in 0..n
      BY <1>2
    <3>2. f[i - 1] \in Reading
      BY <1>5, <3>1
    <3>3. QED BY <3>1, <3>2
  <2>2. f = [i \in 0..n |-> G(i)]
    BY <1>5 DEF Carries
  <2> HIDE DEF G, H, n
  <2>3. f = [i \in 0..n |-> H(i)]
    BY <2>1, <2>2
  <2>4. QED BY <2>3 DEF H
<1>7. parsed = [i \in 0..n |-> IF i = 0 THEN none ELSE ReadStatement(parsed[i - 1], statements[i])]
  <2> HIDE DEF n, none
  <2>1. QED BY <1>6, Zenon
<1>8. ParseEnv(statements) = parsed[n]
  BY DEF ParseEnv
<1> HIDE DEF parsed
<1>9. parsed[0] = none /\ \A i \in 1..n : parsed[i] = ReadStatement(parsed[i - 1], statements[i])
  <2>1. 0 \in 0..n /\ \A i \in 1..n : i \in 0..n /\ i # 0
    BY <1>2
  <2> HIDE DEF none, n
  <2>2. QED BY <1>7, <2>1
<1> DEFINE S == {k \in Nat : k <= n => parsed[k] \in Reading}
<1>10. 0 \in S
  BY <1>3, <1>9
<1>11. ASSUME NEW k \in Nat, k \in S PROVE k + 1 \in S
  <2> SUFFICES ASSUME k + 1 <= n PROVE parsed[k + 1] \in Reading
    OBVIOUS
  <2>1. k + 1 \in 1..n /\ k + 1 - 1 = k /\ parsed[k] \in Reading
    BY <1>2, <1>11
  <2>2. parsed[k + 1] = ReadStatement(parsed[k], statements[k + 1])
    BY <1>9, <2>1
  <2>3. QED BY <1>1, <1>2, <2>1, <2>2
<1>12. n \in S
  <2> HIDE DEF S
  <2>1. QED BY <1>2, <1>10, <1>11, SetInduction
<1>13. QED BY <1>8, <1>12

(* The picked files. *)
LEMMA PickedTyped ==
  ASSUME LoadTypeOK, NEW flags \in Seq(STRING), NEW list \in Text \cup {Unset}, NEW base \in Dirs
  PROVE  Picked(flags, list, base).paths \in Seq([dir : Dirs, name : STRING])
<1> DEFINE named == IF flags # <<>> THEN flags ELSE IF list \in {Unset, Empty, " "} THEN <<>> ELSE Items[list]
           dir == IF flags # <<>> THEN "cwd" ELSE base
           paths == [i \in DOMAIN named |-> Path(dir, named[i])]
           P == [dir : Dirs, name : STRING]
           last == {i \in DOMAIN paths : \A j \in DOMAIN paths : paths[j] = paths[i] => j <= i}
           R == {pair \in last \X last : pair[1] < pair[2]}
<1>1. named \in Seq(STRING)
  BY TextAssumption
<1>2. dir \in Dirs
  BY DEF Dirs
<1> HIDE DEF named, dir
<1>3. Len(named) \in Nat /\ DOMAIN named = 1..Len(named) /\ \A i \in DOMAIN named : named[i] \in STRING
  BY <1>1, LenProperties, ElementOfSeq
<1>4. \A i \in DOMAIN named : Path(dir, named[i]) \in P
  BY <1>2, <1>3 DEF Path, Dirs
<1>5. DOMAIN paths = 1..Len(named) /\ \A i \in DOMAIN paths : paths[i] \in P
  BY <1>3, <1>4
<1> HIDE DEF paths
<1>6. last \subseteq 1..Len(named) /\ IsFiniteSet(last)
  <2>1. last \in SUBSET (1..Len(named)) /\ IsFiniteSet(1..Len(named))
    BY <1>3, <1>5, FS_Interval
  <2> HIDE DEF last
  <2>2. QED BY <2>1, FS_Subset
<1>7. StrictOrder(last, R)
  <2>1. \A i \in last : i \in Nat
    BY <1>3, <1>5
  <2> HIDE DEF last
  <2>2. QED BY <2>1 DEF StrictOrder
<1>8. InOrder(last, R) \in Seq(last)
  <2> HIDE DEF last, R
  <2>1. QED BY <1>6, <1>7, Ordered
<1>9. LastPlaces(paths) \in Seq(P)
  <2> DEFINE order == InOrder(last, R)
  <2>1. DOMAIN order = 1..Len(order) /\ Len(order) \in Nat /\ \A k \in 1..Len(order) : order[k] \in last
    <3> HIDE DEF last, R
    <3>1. QED BY <1>8, LenProperties, ElementOfSeq
  <2>2. \A k \in 1..Len(order) : paths[order[k]] \in P
    BY <1>5, <1>6, <2>1
  <2>3. LastPlaces(paths) = [k \in 1..Len(order) |-> paths[order[k]]]
    BY <2>1 DEF LastPlaces
  <2> HIDE DEF order, P
  <2>4. QED BY <2>1, <2>2, <2>3
<1>10. QED BY <1>9 DEF Picked, named, dir, paths

-----------------------------------------------------------------------------
(* Every variable keeps its type. *)

(* At the start every variable has its type. *)
LEMMA LoadTypeInit == ASSUME LoadInit PROVE LoadTypeOK
<1>1. /\ todo = <<>> /\ layers = <<>> /\ files = <<>> /\ malformed = {} /\ warned = {} /\ errors = <<>>
      /\ winner = NoWinner /\ progress = "pickEnv" /\ \E i \in DOMAIN Inputs : input \in Inputs[i]
  BY DEF LoadInit
<1>2. winner \in [value : Text \cup {Unset}, base : Dirs \cup {Empty, "home"},
                  from : DOMAIN Level \cup {"default"}, place : Nat]
  BY <1>1 DEF NoWinner
<1>3. winner.from = "default"
  BY <1>1 DEF NoWinner
<1>4. QED BY <1>1, <1>2, <1>3 DEF LoadTypeOK

(* A failure of the reading: the load ends with errors. *)
Fails ==
  /\ progress' = "failed" /\ errors' # <<>>
  /\ errors' \in Seq([what : Wrongs, from : DOMAIN Level \cup {"file"}, place : Nat])

(* A reading that fails reports one error. *)
LEMMA AbortTyped ==
  /\ Abort("list") => Fails
  /\ Abort("read") => Fails
  /\ Abort("envFile") => Fails
  /\ Abort("parse") => Fails
  /\ Abort("interpolate") => Fails
<1> DEFINE Errors == [what : Wrongs, from : DOMAIN Level \cup {"file"}, place : Nat]
<1>1. ASSUME NEW what \in Wrongs PROVE [what |-> what, from |-> "file", place |-> 0] \in Errors
  OBVIOUS
<1> HIDE DEF Errors
<1>2. ASSUME NEW what \in Wrongs, progress' = "failed", errors' = <<[what |-> what, from |-> "file", place |-> 0]>>
      PROVE  progress' = "failed" /\ errors' # <<>> /\ errors' \in Seq(Errors)
  BY <1>1, <1>2
<1>3. QED BY <1>2 DEF Abort, Fails, Errors, Wrongs

(* Appending keeps the type of what has been read. *)
LEMMA AppendTyped ==
  ASSUME NEW A, NEW s \in Seq(A), NEW x \in A
  PROVE  Append(s, x) \in Seq(A) /\ DOMAIN s \subseteq DOMAIN Append(s, x) /\ Len(s) + 1 \in DOMAIN Append(s, x)
OBVIOUS

(* Taking the first keeps the type of the rest. *)
LEMMA TailTyped ==
  ASSUME NEW A, NEW s \in Seq(A), s # <<>>
  PROVE  Tail(s) \in Seq(A) /\ Head(s) \in A
OBVIOUS

(* A step of the load keeps the types. *)
LEMMA LoadTypeStep ==
  ASSUME LoadTypeOK, [LoadNext]_loadVars
  PROVE  LoadTypeOK'
<1> DEFINE Paths == [dir : Dirs, name : STRING]
           Errors == [what : Wrongs, from : DOMAIN Level \cup {"file"}, place : Nat]
<1>0. /\ todo \in Seq(Paths) /\ errors \in Seq(Errors) /\ warned \subseteq Names /\ malformed \subseteq DOMAIN files
      /\ layers \in Seq([dir : Dirs, entries : Entries]) /\ files \in Seq([dir : Dirs, type : Types, text : Text])
      /\ progress = "failed" <=> errors # <<>>
  BY DEF LoadTypeOK
<1> HIDE DEF Paths, Errors
<1>1. CASE PickEnvFiles
  <2> DEFINE picked == Picked(input.envFlags, input.envList, "cwd")
  <2>1. picked.paths \in Seq(Paths)
    BY InputIs, PickedTyped DEF Dirs, Paths
  <2> HIDE DEF picked
  <2>2. CASE Abort("list") /\ UNCHANGED todo
    <3>1. progress' = "failed" /\ errors' # <<>> /\ errors' \in Seq(Errors)
      BY <2>2, AbortTyped DEF Fails, Errors
    <3>2. QED BY <1>1, <2>2, <3>1 DEF PickEnvFiles, LoadTypeOK, Errors
  <2>3. CASE todo' = picked.paths /\ progress' = "readEnv" /\ UNCHANGED errors
    BY <1>0, <1>1, <2>1, <2>3 DEF PickEnvFiles, LoadTypeOK, Paths
  <2>4. QED BY <1>1, <2>2, <2>3 DEF PickEnvFiles, picked
<1>2. CASE ReadEnvFile
  <2> DEFINE file == Head(todo)
             parsed == ParseEnv(input.disk[file].statements)
  <2>1. todo # <<>> /\ Tail(todo) \in Seq(Paths) /\ file \in Paths
    BY <1>0, <1>2, TailTyped DEF ReadEnvFile
  <2>2. Exists(file, "env") => parsed \in Reading
    <3> SUFFICES ASSUME Exists(file, "env") PROVE parsed \in Reading
      OBVIOUS
    <3>1. input.disk[file] \in EnvFiles \cup ConfigFiles /\ input.disk[file].kind = "env"
      BY InputIs DEF Exists
    <3>2. input.disk[file].statements \in Seq(Statement)
      BY <3>1 DEF EnvFiles, ConfigFiles
    <3>3. QED BY <3>2, ParseTyped
  <2> HIDE DEF file, parsed
  <2>3. ASSUME Fails, UNCHANGED <<layers, warned>> PROVE LoadTypeOK'
    BY <1>0, <1>2, <2>1, <2>3 DEF Fails, ReadEnvFile, LoadTypeOK, Paths
  <2>4. ASSUME /\ Exists(file, "env") /\ layers' = Append(layers, [dir |-> file.dir, entries |-> parsed.entries])
               /\ warned' = warned \cup parsed.unset /\ UNCHANGED <<progress, errors>>
        PROVE  LoadTypeOK'
    <3>1. [dir |-> file.dir, entries |-> parsed.entries] \in [dir : Dirs, entries : Entries]
      BY <2>1, <2>2, <2>4 DEF Reading, Paths
    <3>2. layers' \in Seq([dir : Dirs, entries : Entries]) /\ DOMAIN layers \subseteq DOMAIN layers'
      BY <1>0, <2>4, <3>1, AppendTyped
    <3>3. warned' \subseteq Names
      BY <1>0, <2>2, <2>4 DEF Reading
    <3>4. QED BY <1>0, <1>2, <2>1, <2>4, <3>2, <3>3 DEF ReadEnvFile, LoadTypeOK, Paths
  <2>5. \/ Fails /\ UNCHANGED <<layers, warned>>
        \/ /\ Exists(file, "env") /\ layers' = Append(layers, [dir |-> file.dir, entries |-> parsed.entries])
           /\ warned' = warned \cup parsed.unset /\ UNCHANGED <<progress, errors>>
    BY <1>2, AbortTyped DEF ReadEnvFile, file, parsed
  <2>6. QED BY <2>3, <2>4, <2>5
<1>3. CASE PickConfigFiles
  <2> DEFINE lists == {c \in EnvCandidates("CONFIG") : c.eligible}
             list == IF lists = {} THEN Unset ELSE Highest(lists).text
             base == IF lists = {} \/ Highest(lists).from = "process" THEN "cwd" ELSE Highest(lists).dir
             picked == Picked(input.configFlags, list, base)
  <2>1. list \in Text \cup {Unset} /\ base \in Dirs
    <3>1. CASE lists = {}
      BY <3>1 DEF Dirs
    <3>2. CASE lists # {}
      <4>1. Highest(lists) \in EnvCandidates("CONFIG")
        <5>1. lists \subseteq EnvCandidates("CONFIG") \cup FileCandidates /\ lists \subseteq EnvCandidates("CONFIG")
          OBVIOUS
        <5> HIDE DEF lists
        <5>2. QED BY <3>2, <5>1, SomeHighest
      <4> HIDE DEF lists
      <4>2. CASE Highest(lists) = ProcessCandidate("CONFIG")
        BY <3>2, <4>2, VarsAre, CandidateIs DEF Names, Dirs
      <4>3. ASSUME NEW i \in DOMAIN layers, Highest(lists) = EnvCandidate("CONFIG", i)
            PROVE  list \in Text \cup {Unset} /\ base \in Dirs
        <5>1. Held(layers[i].entries, "CONFIG") \in Text \cup {Unset} /\ layers[i].dir \in Dirs
          BY LayersAre, EntriesAre DEF Held
        <5>2. QED BY <3>2, <4>3, <5>1, CandidateIs
      <4>4. QED BY <4>1, <4>2, <4>3, EnvCandidatesAre
    <3>3. QED BY <3>1, <3>2
  <2> HIDE DEF list, base
  <2>2. picked.paths \in Seq(Paths)
    BY <2>1, InputIs, PickedTyped DEF Paths
  <2> HIDE DEF picked
  <2>3. CASE Abort("list") /\ UNCHANGED todo
    <3>1. progress' = "failed" /\ errors' # <<>> /\ errors' \in Seq(Errors)
      BY <2>3, AbortTyped DEF Fails, Errors
    <3>2. QED BY <1>3, <2>3, <3>1 DEF PickConfigFiles, LoadTypeOK, Errors
  <2>4. CASE todo' = picked.paths /\ progress' = "readConfig" /\ UNCHANGED errors
    BY <1>0, <1>3, <2>2, <2>4 DEF PickConfigFiles, LoadTypeOK, Paths
  <2>5. QED BY <1>3, <2>3, <2>4 DEF PickConfigFiles, picked, list, base
<1>4. CASE ReadConfigFile
  <2> DEFINE path == Head(todo)
             file == input.disk[path]
             new == IF file.type = "str" THEN Substitute(file.text, [n \in Names |-> Var(n)])
                    ELSE [text |-> file.text, unset |-> {}, ok |-> TRUE]
  <2>1. todo # <<>> /\ Tail(todo) \in Seq(Paths) /\ <<>> \in Seq(Paths) /\ path \in Paths
    BY <1>0, <1>4, TailTyped DEF ReadConfigFile
  <2>2. Exists(path, "config") => new \in Outcome /\ file.type \in Types
    <3> SUFFICES ASSUME Exists(path, "config") PROVE new \in Outcome /\ file.type \in Types
      OBVIOUS
    <3>1. file \in EnvFiles \cup ConfigFiles /\ file.kind = "config"
      BY InputIs DEF Exists
    <3>2. file.text \in Text /\ file.type \in Types
      BY <3>1 DEF EnvFiles, ConfigFiles
    <3>3. [n \in Names |-> Var(n)] \in Lookups
      BY VarsAre DEF Lookups
    <3>4. [text |-> file.text, unset |-> {}, ok |-> TRUE] \in Outcome
      BY <3>2 DEF Outcome
    <3> HIDE DEF file
    <3>5. QED BY <3>2, <3>3, <3>4, SubstituteTyped
  <2> HIDE DEF path, file, new
  <2>3. ASSUME Fails, UNCHANGED <<todo, files, malformed>>, warned' \subseteq Names
        PROVE  LoadTypeOK'
    BY <1>0, <1>4, <2>1, <2>3 DEF Fails, ReadConfigFile, LoadTypeOK, Paths
  <2>4. ASSUME /\ Exists(path, "config") /\ warned' = warned \cup new.unset
               /\ files' = Append(files, [dir |-> path.dir, type |-> file.type, text |-> new.text])
               /\ malformed' = IF file.shape = "malformed" THEN {Len(files) + 1} ELSE {}
               /\ todo' = IF file.shape = "malformed" THEN <<>> ELSE Tail(todo)
               /\ UNCHANGED <<progress, errors>>
        PROVE  LoadTypeOK'
    <3>1. [dir |-> path.dir, type |-> file.type, text |-> new.text] \in [dir : Dirs, type : Types, text : Text]
      BY <2>1, <2>2, <2>4 DEF Outcome, Paths
    <3>2. files' \in Seq([dir : Dirs, type : Types, text : Text]) 
          /\ Len(files) + 1 \in DOMAIN files' /\ DOMAIN files \subseteq DOMAIN files'
      BY <1>0, <2>4, <3>1, AppendTyped
    <3>3. warned' \subseteq Names
      BY <1>0, <2>2, <2>4 DEF Outcome
    <3>4. malformed' \subseteq DOMAIN files' /\ todo' \in Seq(Paths)
      BY <2>1, <2>4, <3>2
    <3>5. QED BY <1>0, <1>4, <2>4, <3>2, <3>3, <3>4 DEF ReadConfigFile, LoadTypeOK, Paths
  <2>5. warned \cup new.unset \subseteq Names \/ ~Exists(path, "config")
    BY <1>0, <2>2 DEF Outcome
  <2>6. \/ Fails /\ UNCHANGED <<todo, files, malformed, warned>>
        \/ /\ Fails /\ Exists(path, "config")
           /\ warned' = warned \cup new.unset /\ UNCHANGED <<todo, files, malformed>>
        \/ /\ Exists(path, "config") /\ warned' = warned \cup new.unset
           /\ files' = Append(files, [dir |-> path.dir, type |-> file.type, text |-> new.text])
           /\ malformed' = IF file.shape = "malformed" THEN {Len(files) + 1} ELSE {}
           /\ todo' = IF file.shape = "malformed" THEN <<>> ELSE Tail(todo)
           /\ UNCHANGED <<progress, errors>>
    BY <1>4, AbortTyped DEF ReadConfigFile, path, file, new
  <2>7. CASE Fails /\ UNCHANGED <<todo, files, malformed, warned>>
    BY <1>0, <2>3, <2>7
  <2>8. CASE /\ Fails /\ Exists(path, "config")
             /\ warned' = warned \cup new.unset /\ UNCHANGED <<todo, files, malformed>>
    BY <2>3, <2>5, <2>8
  <2>9. QED BY <2>4, <2>6, <2>7, <2>8
<1>5. CASE CheckSettings
  <2> DEFINE wrong == WrongValues \cup WrongStructures
             reported == InOrder(wrong, {pair \in wrong \X wrong : Before(pair[1], pair[2])})
             Won == [value : Text \cup {Unset}, base : Dirs \cup {Empty, "home"},
                     from : DOMAIN Level \cup {"default"}, place : Nat]
             best == LET c == Highest(Winners)
                     IN [value |-> Value(c), base |-> Base(input.kind, c.from, c.text, c.dir),
                         from |-> c.from, place |-> c.place]
  <2>1. CASE wrong # {} /\ progress' = "failed" /\ errors' = reported /\ UNCHANGED winner
    <3>1. reported \in Seq(wrong) /\ {reported[k] : k \in DOMAIN reported} = wrong
      BY WrongReported
    <3>2. wrong \subseteq Errors
      <4>1. \A c \in Wrong(AllCandidates) : c.from \in DOMAIN Level /\ c.place \in Nat
        BY CandidatesSourced DEF Sourced, Sources, Wrong, AllCandidates, Level
      <4>2. \A i \in malformed : i \in Nat
        BY <1>0, FilesAre
      <4>3. "config" \in DOMAIN Level
        BY DEF Level
      <4> HIDE DEF Level
      <4>4. WrongValues \subseteq Errors
        <5> SUFFICES ASSUME NEW c \in Wrong(AllCandidates)
                     PROVE  [what |-> "value", from |-> c.from, place |-> c.place] \in Errors
          BY DEF WrongValues
        <5>1. QED BY <4>1 DEF Errors, Wrongs
      <4>5. WrongStructures \subseteq Errors
        <5> SUFFICES ASSUME NEW i \in malformed
                     PROVE  [what |-> "structure", from |-> "config", place |-> i] \in Errors
          BY DEF WrongStructures
        <5>1. QED BY <4>2, <4>3 DEF Errors, Wrongs
      <4>6. QED BY <4>4, <4>5
    <3> HIDE DEF wrong, reported
    <3>3. reported \in Seq(Errors) /\ reported # <<>>
      BY <2>1, <3>1, <3>2
    <3>4. QED BY <1>5, <2>1, <3>3 DEF CheckSettings, LoadTypeOK, Errors
  <2>2. CASE /\ wrong = {} /\ progress' = "build" /\ UNCHANGED errors
             /\ winner' = IF Winners = {} THEN NoWinner ELSE best
    <3>1. NoWinner \in Won
      BY DEF NoWinner
    <3>2. ASSUME Winners # {} PROVE best \in Won
      <4> DEFINE c == Highest(Winners)
      <4>1. c \in Winners /\ c \in AllCandidates
        BY <3>2, SomeHighest DEF Winners, AllCandidates
      <4>2. Value(c) \in Text
        <5>1. Value(c) \notin {Unset, Bad}
          BY <4>1 DEF Winners
        <5>2. QED BY <5>1, CheckIs DEF Value
      <4>3. c.from \in DOMAIN Level /\ c.place \in Nat
        BY <4>1, CandidatesSourced DEF Sourced, Sources, AllCandidates, Level
      <4>4. c.dir \in Dirs \cup {Empty}
        BY <4>1, LayersAre, FilesAre, EnvCandidatesAre, FileCandidatesAre, CandidateIs DEF AllCandidates
      <4> HIDE DEF c, Level
      <4>5. Base(input.kind, c.from, c.text, c.dir) \in Dirs \cup {Empty, "home"}
        BY <4>4 DEF Base
      <4>6. QED BY <4>2, <4>3, <4>5 DEF c
    <3>3. ASSUME Winners # {}
          PROVE  /\ best.from = "envFile" => best.place \in DOMAIN layers
                 /\ best.from = "config" => best.place \in DOMAIN files
      <4> DEFINE c == Highest(Winners)
      <4>1. c \in AllCandidates
        BY <3>3, SomeHighest DEF Winners, AllCandidates
      <4>2. /\ c.from = "envFile" => c.place \in DOMAIN layers
            /\ c.from = "config" => c.place \in DOMAIN files
        BY <4>1, EnvCandidatesAre, FileCandidatesAre, CandidateIs DEF AllCandidates
      <4> HIDE DEF c
      <4>3. QED BY <4>2 DEF c
    <3>4. winner' \in Won /\ NoWinner.from = "default"
      BY <2>2, <3>1, <3>2 DEF NoWinner
    <3> HIDE DEF best
    <3>5. /\ winner'.from = "envFile" => winner'.place \in DOMAIN layers
          /\ winner'.from = "config" => winner'.place \in DOMAIN files
      BY <2>2, <3>3, <3>4
    <3>6. QED BY <1>0, <1>5, <2>2, <3>4, <3>5 DEF CheckSettings, LoadTypeOK
  <2>3. QED BY <1>5, <2>1, <2>2 DEF CheckSettings, AllCandidates, Winners, WrongValues, WrongStructures
<1>6. CASE Build
  <2> DEFINE dir == IF winner.value = "~/k" THEN "home"
                    ELSE IF winner.from = "envFile" THEN layers[winner.place].dir ELSE files[winner.place].dir
             Won == [value : Text \cup {Unset}, base : Dirs \cup {Empty, "home"},
                     from : DOMAIN Level \cup {"default"}, place : Nat]
  <2>1. winner \in Won /\ (winner.from = "envFile" => winner.place \in DOMAIN layers)
        /\ (winner.from = "config" => winner.place \in DOMAIN files)
    BY DEF LoadTypeOK
  <2>2. winner.from \in {"envFile", "config"} => dir \in Dirs \cup {"home"}
    BY <2>1, LayersAre, FilesAre
  <2>3. \/ winner' = winner
        \/ winner' = [winner EXCEPT !.base = dir] /\ winner.from \in {"envFile", "config"}
    BY <1>6 DEF Build
  <2> HIDE DEF dir
  <2>4. winner' \in Won /\ winner'.from = winner.from /\ winner'.place = winner.place
    BY <2>1, <2>2, <2>3
  <2>5. QED BY <1>0, <1>6, <2>1, <2>4 DEF Build, LoadTypeOK
<1>7. CASE UNCHANGED loadVars
  BY <1>7 DEF loadVars, LoadTypeOK
<1>8. QED BY <1>1, <1>2, <1>3, <1>4, <1>5, <1>6, <1>7 DEF LoadNext

-----------------------------------------------------------------------------
(* The promises of the load. *)

BaseKept ==
  winner.base \notin {Empty, "home"} =>
    winner.base = IF winner.from = "envFile" THEN layers[winner.place].dir ELSE files[winner.place].dir
Named == {<<errors[i].from, errors[i].place>> : i \in {j \in DOMAIN errors : errors[j].what = "value"}}

(* What the checks found stands from then on. *)
OutcomeInv ==
  /\ progress \in {"build", "loaded"} => winner.value = Documented /\ BaseKept /\ WrongSources = {}
  /\ progress = "failed" => (\E i \in DOMAIN errors : errors[i].from = "file") \/ Named = WrongSources

(* What is documented, and what is wrong, changes only with the sources.   *)
LEMMA SourcesKept ==
  ASSUME UNCHANGED <<input, layers, files>>
  PROVE  Documented' = Documented /\ WrongSources' = WrongSources
<1>1. Folded' = Folded
  BY DEF Folded
<1>2. Process("SETTING")' = Process("SETTING")
  BY DEF Process
<1>3. Documented' = Documented
  BY <1>1, <1>2 DEF Documented
<1>4. WrongSources' = WrongSources
  BY <1>2 DEF WrongSources
<1>5. QED BY <1>3, <1>4

(* An aborted reading fails for a file. *)
LEMMA FailsFromFile ==
  ASSUME NEW what, Abort(what)
  PROVE  progress' = "failed" /\ \E i \in DOMAIN errors' : errors'[i].from = "file"
<1>1. errors' = <<[what |-> what, from |-> "file", place |-> 0]>> /\ progress' = "failed"
  BY DEF Abort
<1>2. 1 \in DOMAIN errors' /\ errors'[1].from = "file"
  BY <1>1
<1>3. QED BY <1>1, <1>2

(* A step of the load keeps what the checks found. *)
LEMMA OutcomeStep ==
  ASSUME LoadTypeOK, OutcomeInv, [LoadNext]_loadVars
  PROVE  OutcomeInv'
<1>1. ASSUME progress' \in {"pickEnv", "readEnv", "readConfig"} PROVE OutcomeInv'
  BY <1>1 DEF OutcomeInv
<1>2. ASSUME progress' = "failed", \E i \in DOMAIN errors' : errors'[i].from = "file" PROVE OutcomeInv'
  BY <1>2 DEF OutcomeInv
<1>3. CASE PickEnvFiles
  BY <1>1, <1>2, <1>3, FailsFromFile DEF PickEnvFiles
<1>4. CASE ReadEnvFile
  BY <1>1, <1>2, <1>4, FailsFromFile DEF ReadEnvFile
<1>5. CASE PickConfigFiles
  BY <1>1, <1>2, <1>5, FailsFromFile DEF PickConfigFiles
<1>6. CASE ReadConfigFile
  BY <1>1, <1>2, <1>6, FailsFromFile DEF ReadConfigFile
<1>7. CASE CheckSettings
  <2> DEFINE wrong == WrongValues \cup WrongStructures
             reported == InOrder(wrong, {pair \in wrong \X wrong : Before(pair[1], pair[2])})
             best == LET c == Highest(Winners)
                     IN [value |-> Value(c), base |-> Base(input.kind, c.from, c.text, c.dir),
                         from |-> c.from, place |-> c.place]
  <2>1. Documented' = Documented /\ WrongSources' = WrongSources /\ UNCHANGED <<input, layers, files>>
    BY <1>7, SourcesKept DEF CheckSettings
  <2>2. CASE progress' = "failed" /\ errors' = reported
    <3>1. {reported[k] : k \in DOMAIN reported} = wrong
      BY WrongReported
    <3>2. Named' = {<<e.from, e.place>> : e \in {d \in wrong : d.what = "value"}}
      <4> HIDE DEF reported, wrong
      <4>1. QED BY <2>2, <3>1 DEF Named
    <3>3. {<<e.from, e.place>> : e \in {d \in wrong : d.what = "value"}}
            = {<<c.from, c.place>> : c \in Wrong(AllCandidates)}
      <4> DEFINE E(c) == [what |-> "value", from |-> c.from, place |-> c.place]
      <4>1. \A c \in Wrong(AllCandidates) :
              /\ E(c) \in wrong /\ E(c).what = "value"
              /\ E(c).from = c.from /\ E(c).place = c.place
        BY DEF WrongValues
      <4>2. \A e \in wrong : e.what = "value" => \E c \in Wrong(AllCandidates) : e = E(c)
        BY DEF WrongValues, WrongStructures
      <4> HIDE DEF E, wrong
      <4>3. QED BY <4>1, <4>2
    <3>4. Named' = WrongSources'
      BY <2>1, <3>2, <3>3, WrongAre
    <3>5. QED BY <2>2, <3>4 DEF OutcomeInv
  <2>3. CASE wrong = {} /\ progress' = "build" /\ winner' = IF Winners = {} THEN NoWinner ELSE best
    <3>1. Wrong(AllCandidates) = {}
      BY <2>3 DEF WrongValues
    <3>2. WrongSources = {}
      BY <3>1, WrongAre
    <3>3. winner'.value = Documented
      <4>1. CASE Winners = {}
        BY <2>3, <3>1, <4>1, WinnerIs DEF NoWinner
      <4>2. CASE Winners # {}
        <5> DEFINE c == Highest(Winners)
        <5>1. Value(c) = Documented
          BY <3>1, <4>2, WinnerIs
        <5> HIDE DEF c
        <5>2. winner' = [value |-> Value(c), base |-> Base(input.kind, c.from, c.text, c.dir),
                         from |-> c.from, place |-> c.place]
          BY <2>3, <4>2 DEF c
        <5>3. QED BY <5>1, <5>2
      <4>3. QED BY <4>1, <4>2
    <3>4. BaseKept'
      <4>1. CASE Winners = {}
        BY <2>3, <4>1 DEF NoWinner, BaseKept
      <4>2. CASE Winners # {}
        <5> DEFINE c == Highest(Winners)
        <5>1. c \in AllCandidates
          BY <3>1, <4>2, WinnerIs DEF Winners
        <5>2. \/ c.dir = Empty
              \/ c.from = "envFile" /\ c.dir = layers[c.place].dir
              \/ c.from = "config" /\ c.dir = files[c.place].dir
          BY <5>1, EnvCandidatesAre, FileCandidatesAre, CandidateIs DEF AllCandidates
        <5> HIDE DEF c
        <5>3. Base(input.kind, c.from, c.text, c.dir) \in {Empty, "home", c.dir}
          BY DEF Base
        <5>4. winner' = [value |-> Value(c), base |-> Base(input.kind, c.from, c.text, c.dir),
                         from |-> c.from, place |-> c.place]
          BY <2>3, <4>2 DEF c
        <5>5. QED BY <2>1, <5>2, <5>3, <5>4 DEF BaseKept
      <4>3. QED BY <4>1, <4>2
    <3>5. QED BY <2>1, <2>3, <3>2, <3>3, <3>4 DEF OutcomeInv
  <2>4. QED BY <1>7, <2>2, <2>3 DEF CheckSettings, AllCandidates, Winners, WrongValues, WrongStructures
<1>8. CASE Build
  <2>1. Documented' = Documented /\ WrongSources' = WrongSources /\ UNCHANGED <<input, layers, files>>
    BY <1>8, SourcesKept DEF Build
  <2>2. winner.value = Documented /\ BaseKept /\ WrongSources = {} /\ progress' = "loaded"
    BY <1>8 DEF Build, OutcomeInv
  <2> DEFINE dir == IF winner.value = "~/k" THEN "home"
                    ELSE IF winner.from = "envFile" THEN layers[winner.place].dir ELSE files[winner.place].dir
  <2>3. \/ winner' = winner
        \/ winner' = [winner EXCEPT !.base = dir] /\ winner.from \in {"envFile", "config"}
    BY <1>8 DEF Build
  <2>4. winner \in [value : Text \cup {Unset}, base : Dirs \cup {Empty, "home"},
                    from : DOMAIN Level \cup {"default"}, place : Nat]
    BY DEF LoadTypeOK
  <2>5. winner'.value = winner.value /\ BaseKept'
    <3>1. CASE winner' = winner
      BY <2>1, <2>2, <3>1 DEF BaseKept
    <3>2. CASE winner' = [winner EXCEPT !.base = dir]
      <4>1. winner'.base = dir /\ winner'.value = winner.value /\ winner'.from = winner.from
            /\ winner'.place = winner.place
        BY <2>4, <3>2
      <4>2. QED BY <2>1, <4>1 DEF BaseKept
    <3>3. QED BY <2>3, <3>1, <3>2
  <2>6. QED BY <2>1, <2>2, <2>5 DEF OutcomeInv
<1>9. CASE UNCHANGED loadVars
  <2>1. Documented' = Documented /\ WrongSources' = WrongSources
    BY <1>9, SourcesKept DEF loadVars
  <2>2. QED BY <1>9, <2>1 DEF loadVars, OutcomeInv, BaseKept, Named
<1>10. QED BY <1>3, <1>4, <1>5, <1>6, <1>7, <1>8, <1>9 DEF LoadNext

(* The invariant of the load. *)
LEMMA LoadInvariant == LoadSpec => [](LoadTypeOK /\ OutcomeInv)
<1>1. LoadInit => LoadTypeOK /\ OutcomeInv
  BY LoadTypeInit DEF LoadInit, OutcomeInv
<1>2. LoadTypeOK /\ OutcomeInv /\ [LoadNext]_loadVars => (LoadTypeOK /\ OutcomeInv)'
  BY LoadTypeStep, OutcomeStep
<1>3. QED BY <1>1, <1>2, PTL DEF LoadSpec

(* Every variable of the load keeps its type. *)
THEOREM LoadTypeCorrect == LoadSpec => []LoadTypeOK
BY LoadInvariant, PTL

(* A setting has the value that the documentation says, whatever the files *)
(* hold, however many there are and whatever they refer to, and a path     *)
(* starts at the file that sets it (settings/, env.rs).                    *)
THEOREM DocumentedWins == LoadSpec => []WinnerAsDocumented
<1>1. OutcomeInv => WinnerAsDocumented
  BY DEF OutcomeInv, BaseKept, WinnerAsDocumented
<1>2. QED BY <1>1, LoadInvariant, PTL

(* Values that a later source overrides are checked as well: a load that   *)
(* succeeds read no value of the wrong kind, and one that fails for its    *)
(* values names exactly the sources that hold one.                         *)
THEOREM BadValuesReported == LoadSpec => []EveryBadValueReported
<1>1. OutcomeInv => EveryBadValueReported
  <2>1. OutcomeInv /\ progress = "loaded" => WrongSources = {}
    BY DEF OutcomeInv
  <2>2. OutcomeInv /\ progress = "failed" /\ (\A i \in DOMAIN errors : errors[i].from # "file") => Named = WrongSources
    BY DEF OutcomeInv
  <2>3. QED BY <2>1, <2>2 DEF EveryBadValueReported, Named
<1>2. QED BY <1>1, LoadInvariant, PTL

(* A reference to the variable of a setting sees what the setting sees     *)
(* (env.rs).                                                               *)
THEOREM ReferencesAgree == LoadSpec => []ReferencesSeeTheSetting
<1>1. LoadTypeOK => ReferencesSeeTheSetting
  BY ReferencesStep
<1>2. QED BY <1>1, LoadInvariant, PTL
=============================================================================
