------------------------------ MODULE Endpoints ------------------------------
(* How calls reach the server (servers/http_server.cc, grpc_server.cc,       *)
(* main.cc and core/server.cc): the ports given on the command line, the     *)
(* addresses a client builds and the server takes apart, and what the        *)
(* health, profile and status calls answer over both protocols.              *)
(*                                                                           *)
(* A path is the sequence of its segments; names are whole segments.         *)
EXTENDS ClientRequests, TLC

Word(text) == [text |-> text, digits |-> -1]
Number(n) == [text |-> ToString(n), digits |-> n]
Get(path, arg) == [method |-> "GET", path |-> path, arg |-> arg]
Post(path) == [method |-> "POST", path |-> path, arg |-> ""]

-----------------------------------------------------------------------------
(* The addresses of the HTTP client.  A version is named unless the latest   *)
(* is meant.                                                                 *)

HealthUrl(mode) == Get(<<Word("api"), Word("health"), Word(mode)>>, "")
StatusUrl(model) == Get(<<Word("api"), Word("status")>> \o model, "binary")
ProfileUrl(cmd) == Get(<<Word("api"), Word("profile")>>, cmd)
InferUrl(model, version) ==
  Post(<<Word("api"), Word("infer")>> \o model
         \o (IF version >= 0 THEN <<Number(version)>> ELSE <<>>))

-----------------------------------------------------------------------------
(* What the server answers: a status, and a value.                           *)

Outcome(good, x) == [status |-> IF good THEN "success" ELSE "failed", x |-> x]

HandleHealth(s, mode) ==
  IF s.state = "exiting" THEN Outcome(FALSE, FALSE)
  ELSE Outcome(mode \in {"live", "ready"},
              CASE mode = "live" -> s.state \notin {"invalid", "failed"}
                [] mode = "ready" -> s.state = "ready" /\ (s.strict => s.allready)
                [] OTHER -> FALSE)

HandleProfile(s, cmd) ==
  LET done == s.state = "ready" /\ s.profiling /\ cmd \in {"start", "stop"}
  IN  Outcome(done, IF done THEN cmd ELSE "nothing")

HandleStatus(s, model) ==
  LET known == s.state # "exiting" /\ (model = "" \/ model \in DOMAIN s.models)
  IN  Outcome(known, IF ~known THEN {} ELSE IF model = "" THEN DOMAIN s.models ELSE {model})

(* The version that an inference is given: -1 asks for the latest.           *)
AskInfer(s, model, version) ==
  LET serves == IF model \in DOMAIN s.models THEN s.models[model] ELSE {}
      ready == s.state = "ready"
                 /\ IF version = -1 THEN serves # {} ELSE version \in serves
  IN  Outcome(ready, IF ~ready THEN 0 ELSE IF version = -1 THEN Max(serves) ELSE version)

-----------------------------------------------------------------------------
(* Over HTTP: a code, and the status header where one is sent.               *)

Reply(code, a) == [code |-> code, header |-> a.status, x |-> a.x]
NoReply(code) == [code |-> code, header |-> "absent", x |-> "nothing"]
ByStatus(a) == Reply(IF a.status = "success" THEN 200 ELSE 400, a)

(* A model's name as the rest of an address gives it: none stands for all    *)
(* models, and no model is named with a slash.                               *)
NameOf(rest) ==
  IF rest = <<>> THEN "" ELSE IF Len(rest) = 1 THEN rest[1].text ELSE "/"

HttpHealth(s, req, rest) ==
  IF req.method # "GET" THEN NoReply(405)
  ELSE IF rest # <<>> /\ NameOf(rest) \notin {"live", "ready"} THEN NoReply(400)
  ELSE LET a == HandleHealth(s, NameOf(rest)) IN Reply(IF a.x THEN 200 ELSE 400, a)

HttpProfile(s, req, rest) ==
  IF req.method # "GET" THEN NoReply(405)
  ELSE IF NameOf(rest) # "" THEN NoReply(400)
  ELSE ByStatus(HandleProfile(s, req.arg))

HttpStatus(s, req, rest) ==
  IF req.method # "GET" THEN NoReply(405) ELSE ByStatus(HandleStatus(s, NameOf(rest)))

HttpInfer(s, req, rest) ==
  IF req.method # "POST" THEN NoReply(405)
  ELSE IF rest # <<>> /\ ~(/\ Len(rest) <= 2 /\ rest[1].text # ""
                           /\ Len(rest) = 2 => rest[2].digits >= 0)
  THEN NoReply(400)
  ELSE ByStatus(AskInfer(s, IF rest = <<>> THEN "" ELSE rest[1].text,
                         IF Len(rest) = 2 THEN rest[2].digits ELSE -1))

(* A server answers for the endpoints its port was given.                    *)
HttpHandle(endpoints, s, req) ==
  IF ~(/\ Len(req.path) >= 2 /\ req.path[1].text = "api" /\ req.path[2].text \in endpoints)
  THEN NoReply(400)
  ELSE LET rest == SubSeq(req.path, 3, Len(req.path))
       IN  CASE req.path[2].text = "status" -> HttpStatus(s, req, rest)
             [] req.path[2].text = "health" -> HttpHealth(s, req, rest)
             [] req.path[2].text = "profile" -> HttpProfile(s, req, rest)
             [] req.path[2].text = "infer" -> HttpInfer(s, req, rest)

(* Over gRPC the fields of the request are passed on as they are.            *)
GrpcHealth(s, mode) == HandleHealth(s, mode)
GrpcProfile(s, cmd) == HandleProfile(s, cmd)
GrpcStatus(s, model) == HandleStatus(s, NameOf(model))
GrpcInfer(s, model, version) == AskInfer(s, NameOf(model), version)

-----------------------------------------------------------------------------
(* The command line.                                                         *)

EndpointNames == <<"status", "health", "profile", "infer">>
Disabled == -1
Given ==
  [allow_http |-> TRUE, allow_grpc |-> TRUE, allow_metrics |-> TRUE, http_port |-> 8000,
   health_port |-> 8000, grpc_port |-> 8001, metrics_port |-> 8002]

(* One option: the HTTP port is also that of health, until that is given.    *)
Option(o, arg) ==
  IF arg[1] = "http_port" THEN [o EXCEPT !.http_port = arg[2], !.health_port = arg[2]]
  ELSE [o EXCEPT ![arg[1]] = arg[2]]

(* The ports of the endpoints, in the order of their names.                  *)
HttpPorts(o) == <<o.http_port, o.health_port, o.http_port, o.http_port>>

CheckPortCollision(o) ==
  LET http == ToSet(HttpPorts(o))
  IN  \/ /\ o.allow_http /\ o.allow_grpc /\ o.grpc_port # Disabled /\ o.grpc_port \in http
      \/ /\ o.allow_grpc /\ o.allow_metrics
         /\ o.metrics_port # Disabled /\ o.metrics_port = o.grpc_port
      \/ /\ o.allow_http /\ o.allow_metrics
         /\ o.metrics_port # Disabled /\ o.metrics_port \in http

Parse(args) ==
  LET all == FoldLeft(Option, Given, args)
      o == [all EXCEPT !.metrics_port = IF all.allow_metrics THEN @ ELSE Disabled]
  IN  IF ~o.allow_http /\ ~o.allow_grpc THEN Refused(Given)
      ELSE IF CheckPortCollision(o) THEN Refused(o) ELSE Done(o)

(* Endpoints that share a port share a server; there must be one.            *)
PortMap(o) ==
  [p \in ToSet(HttpPorts(o)) \ {Disabled} |->
     {EndpointNames[i] : i \in {k \in 1..4 : HttpPorts(o)[k] = p}}]
CreateHttp(port_map) == IF DOMAIN port_map = {} THEN Refused({}) ELSE Done(DOMAIN port_map)

(* Starting a server that runs, or stopping one that does not, is refused.   *)
(* That the port could not be bound is not noticed.                          *)
StartServer(server, free) ==
  IF server.running THEN Refused(server) ELSE Done([running |-> TRUE, bound |-> free])
StopServer(server) ==
  IF server.running THEN Done([running |-> FALSE, bound |-> FALSE]) ELSE Refused(server)

(* What listens where: pairs of a protocol and a port.                       *)
StartEndpoints(o) ==
  LET http == CreateHttp(PortMap(o))
      grpc == IF o.allow_grpc /\ o.grpc_port # Disabled THEN {<<"grpc", o.grpc_port>>} ELSE {}
      metrics == IF o.metrics_port # Disabled THEN {<<"metrics", o.metrics_port>>} ELSE {}
  IN  IF ~o.allow_http THEN Done(grpc \cup metrics)
      ELSE IF ~http.ok THEN Refused(grpc)
      ELSE Done({<<"http", p>> : p \in http.x} \cup grpc \cup metrics)

-----------------------------------------------------------------------------
(* What these definitions promise, for the command lines of three ports and  *)
(* the servers of two models.                                                *)

SomePorts == {Disabled, 1, 2}
SomeArgs ==
  {<<<<"allow_http", a>>, <<"allow_grpc", b>>, <<"allow_metrics", c>>, <<"http_port", h>>,
     <<"health_port", e>>, <<"grpc_port", g>>, <<"metrics_port", m>>>> :
     a, b, c \in BOOLEAN, h, e, g, m \in SomePorts}
SomeServers ==
  [state : {"invalid", "initializing", "ready", "exiting", "failed"}, strict : BOOLEAN,
   allready : BOOLEAN, profiling : BOOLEAN, models : {("m" :> {1, 2}) @@ ("7" :> {3})}]

(* Whatever command line is accepted, no port is given to two protocols.     *)
ASSUME PortsApart ==
  \A args \in SomeArgs :
    LET o == Parse(args)
        up == StartEndpoints(o.x)
    IN  o.ok => \A a, b \in up.x : a[2] = b[2] => a = b

(* Every HTTP endpoint answers at the port the command line gives it, and at *)
(* no other.                                                                 *)
Call(endpoint) ==
  CASE endpoint = "status" -> StatusUrl(<<>>)
    [] endpoint = "health" -> HealthUrl("live")
    [] endpoint = "profile" -> ProfileUrl("start")
    [] endpoint = "infer" -> InferUrl(<<Word("m")>>, 2)
ASSUME EndpointsReached ==
  LET s == [state |-> "ready", strict |-> FALSE, allready |-> TRUE, profiling |-> TRUE,
            models |-> ("m" :> {1, 2})]
  IN  \A args \in SomeArgs :
        LET o == Parse(args).x
            up == StartEndpoints(o)
        IN  Parse(args).ok /\ up.ok /\ o.allow_http =>
              \A i \in 1..4, p \in SomePorts :
                (/\ <<"http", p>> \in up.x
                 /\ HttpHandle(PortMap(o)[p], s, Call(EndpointNames[i])).code = 200)
                   <=> p = HttpPorts(o)[i] /\ p # Disabled

(* The order of two options matters: a health port given before the HTTP     *)
(* port is forgotten.                                                        *)
ASSUME HealthPortForgotten ==
  /\ Parse(<<<<"health_port", 1>>, <<"http_port", 2>>>>).x.health_port = 2
  /\ Parse(<<<<"http_port", 2>>, <<"health_port", 1>>>>).x.health_port = 1

(* A client is told the same over HTTP and over gRPC, except that a server   *)
(* which exits is unhealthy over HTTP and an error over gRPC.                *)
ASSUME TransportsAgree ==
  \A s \in SomeServers :
    /\ \A mode \in {"live", "ready"} :
         LET http == HttpHandle({"health"}, s, HealthUrl(mode))
             a == HttpGetHealth("ok", http.code)
             g == GrpcHealth(s, mode)
             b == GrpcGetHealth("ok", g.status, g.x)
         IN  a.x = b.x /\ (a.ok = b.ok <=> s.state # "exiting")
    /\ \A model \in {<<>>, <<Word("m")>>, <<Number(7)>>, <<Word("n")>>, <<Word("m"), Number(1)>>} :
         LET http == HttpHandle({"status"}, s, StatusUrl(model))
         IN  /\ HttpGetServerStatus("ok", http.code, http.header, TRUE)
                  = GrpcGetServerStatus("ok", GrpcStatus(s, model).status)
             /\ http.x = GrpcStatus(s, model).x
    /\ \A cmd \in {"start", "stop"} :
         HttpSendCommand("ok", HttpHandle({"profile"}, s, ProfileUrl(cmd)).header)
           = GrpcSendCommand("ok", GrpcProfile(s, cmd).status)

(* An inference reaches the same version of the same model over HTTP and     *)
(* over gRPC, for every version that can be asked for.                       *)
ASSUME SameModelAsked ==
  \A s \in SomeServers, version \in -1..4,
     model \in {<<Word("m")>>, <<Number(7)>>, <<Word("n")>>} :
    HttpHandle({"infer"}, s, InferUrl(model, version)) = ByStatus(GrpcInfer(s, model, version))
=============================================================================
