------------------------------- MODULE Serving -------------------------------
(***************************************************************************)
(* What the servers of one handle do between their bind and the end of     *)
(* their Tokio runtime: the router GrpcWebServer::new builds, the requests *)
(* that pass through its layers, the proxy's connection to the upstream,   *)
(* and the way GrpcWebServer::start gives the listener up (server/         *)
(* server.rs, server/proxy.rs).  It composes ServerHandle, whose servers   *)
(* these are, with the requests they have taken; every step of             *)
(* ServerHandle happens here, too.                                         *)
(*                                                                         *)
(* A request is what the layers tell apart: "preflight" (any OPTIONS),     *)
(* "call" (gRPC-Web, or anything over HTTP/2, which the gRPC-Web layer     *)
(* lets pass) and "other".  Its path starts with /api or not.  An answer   *)
(* is its head; the body follows and may break off.                        *)
(***************************************************************************)
EXTENDS SerialHost

CONSTANT Requests   \* identities of the requests, used once each

ASSUME HeadAssumption ==
  None \notin {"preflight", "refused", "upstream", "bad_gateway", "file", "not_found", "io_error"}

VARIABLES
  config,   \* the options that matter here: a static_dir, both HTTPS paths
  port,     \* each server's listener: "unbound", "bound" or "released"
  link,     \* has the server's proxy an HTTP/2 connection to the upstream?
  req       \* the requests

traffic == <<port, link, req>>
svars == <<vars, config, traffic>>

Kinds  == {"preflight", "call", "other"}
Heads  == {"preflight", "refused", "upstream", "bad_gateway", "file", "not_found", "io_error"}
Layers == {"trace", "cors", "handle_error", "grpc_web", "proxy", "web", "not_found"}

\* queued: in the HTTP client, not sent; forwarded: waiting for the upstream;
\* file: reading from static_dir; sending: the head is out, the body follows.
InFlight == {"queued", "forwarded", "file", "sending"}
Over     == {"done", "torn", "cut", "left"}

Request == [stage : {"unsent"} \cup InFlight \cup Over,
            kind : Kinds \cup {None},
            by : Servers \cup {None}, head : Heads \cup {None},
            layers : SUBSET Layers]

ServingTypeOK ==
  /\ config \in [static_dir : BOOLEAN, https : BOOLEAN]
  /\ port \in [Servers -> {"unbound", "bound", "released"}]
  /\ link \in [Servers -> BOOLEAN]
  /\ req \in [Requests -> Request]

ServingInit ==
  /\ Init
  /\ config \in [static_dir : BOOLEAN, https : BOOLEAN]
  /\ port = [s \in Servers |-> "unbound"]
  /\ link = [s \in Servers |-> FALSE]
  /\ req = [r \in Requests |-> [stage |-> "unsent", kind |-> None,
                                by |-> None, head |-> None, layers |-> {}]]

-----------------------------------------------------------------------------
(* The router: per route and kind of request, the layers the request meets. *)
(* The answer passes the same ones on its way out.                          *)

\* The layers that answer a request themselves: the CORS layer every OPTIONS,
\* the gRPC-Web layer what is not gRPC-Web.
Stops(layer, kind) ==
  \/ layer = "cors" /\ kind = "preflight"
  \/ layer = "grpc_web" /\ kind # "call"

Service(name) == [kind \in Kinds |-> {name}]

Around(layer, service) ==
  [kind \in Kinds |-> {layer} \cup IF Stops(layer, kind) THEN {} ELSE service[kind]]

\* Router::layer wraps the routes and the fallback there are, not later ones.
Wrapped(router, layer) ==
  [api |-> Around(layer, router.api), fallback |-> Around(layer, router.fallback)]

EmptyRouter == [api |-> Service("not_found"), fallback |-> Service("not_found")]

\* Mutants: the proxy is mounted without HandleError, or without GrpcWebLayer.
AddProxyBare(router)  == [router EXCEPT !.api = Around("grpc_web", Service("proxy"))]
AddProxyNoWeb(router) == [router EXCEPT !.api = Around("handle_error", Service("proxy"))]

AddProxy(router) ==
  [router EXCEPT !.api = Around("handle_error", Around("grpc_web", Service("proxy")))]

AddWeb(router) ==
  IF config.static_dir THEN [router EXCEPT !.fallback = Service("web")] ELSE router

AddCors(router) == Wrapped(router, "cors")

AddObservability(router) == Wrapped(router, "trace")

\* Mutant: the web files are added after the layers.
RouterWebLast == AddWeb(AddObservability(AddCors(AddProxy(EmptyRouter))))

Router == AddObservability(AddCors(AddWeb(AddProxy(EmptyRouter))))

-----------------------------------------------------------------------------
(* Requests                                                                 *)

Flying(r) == req[r].stage \in InFlight

Set(r, q) == req' = [req EXCEPT ![r] = q]

\* The answer's head leaves through the layers.
Answered(q, head) == [q EXCEPT !.stage = "sending", !.head = head]
Ended(q, how)     == [q EXCEPT !.stage = how]

Quiet == UNCHANGED <<vars, config, port>>

\* A client sends a request: over a new connection, or over one it opened
\* before the listener was released.
Arrive(r, s, kind, api) ==
  /\ req[r].stage = "unsent"
  /\ port[s] # "unbound"
  /\ phase[s] \in {"serving", "returned", "closing"}
  /\ LET layers == (IF api THEN Router.api ELSE Router.fallback)[kind]
         q == [req[r] EXCEPT !.by = s, !.kind = kind, !.layers = layers]
     IN \/ "proxy" \in layers /\ Set(r, Ended(q, "queued"))
        \/ "web" \in layers /\ Set(r, Ended(q, "file"))
        \/ "not_found" \in layers /\ Set(r, Answered(q, "not_found"))
        \/ /\ layers \cap {"grpc_web", "web"} # {} /\ "proxy" \notin layers
           /\ Set(r, Answered(q, "refused"))
        \/ layers \subseteq {"trace", "cors"} /\ Set(r, Answered(q, "preflight"))
  /\ Quiet /\ UNCHANGED link

\* Mutant: the error itself is the answer.
FailedRaw(q) == Answered(q, "error")

\* The error of a failed call: HandleError makes a 502 of it; where there is
\* no HandleError the connection dies with the error.
Failed(q) == IF "handle_error" \in q.layers THEN Answered(q, "bad_gateway") ELSE Ended(q, "torn")

\* GrpcWebProxy::call hands the request to the HTTP/2 client, which uses the
\* connection it has or dials; it does not give up by itself later on.
Forward(r) ==
  /\ req[r].stage = "queued"
  /\ link' = [link EXCEPT ![req[r].by] = TRUE]
  /\ Set(r, Ended(req[r], "forwarded"))
  /\ Quiet

DialFails(r) ==
  /\ req[r].stage = "queued"
  /\ ~link[req[r].by]
  /\ Set(r, Failed(req[r]))
  /\ Quiet /\ UNCHANGED link

UpstreamAnswers(r) ==
  /\ req[r].stage = "forwarded"
  /\ Set(r, Answered(req[r], "upstream"))
  /\ Quiet /\ UNCHANGED link

UpstreamRefuses(r) ==
  /\ req[r].stage = "forwarded"
  /\ Set(r, Failed(req[r]))
  /\ Quiet /\ UNCHANGED link

\* The one connection all calls of a server share is lost: those without an
\* answer fail, the answers under way break off.
LinkBreaks(s) ==
  /\ link[s]
  /\ link' = [link EXCEPT ![s] = FALSE]
  /\ req' = [r \in Requests |->
       IF req[r].by # s THEN req[r]
       ELSE IF req[r].stage = "forwarded" THEN Failed(req[r])
       ELSE IF req[r].stage = "sending" /\ req[r].head = "upstream" THEN Ended(req[r], "torn")
       ELSE req[r]]
  /\ Quiet

\* ServeDir answers with the file, or index.html, or says it has neither.
ReadFile(r) ==
  /\ req[r].stage = "file"
  /\ \E head \in {"file", "not_found", "io_error"} : Set(r, Answered(req[r], head))
  /\ Quiet /\ UNCHANGED link

Finish(r) ==
  /\ req[r].stage = "sending"
  /\ Set(r, Ended(req[r], "done"))
  /\ Quiet /\ UNCHANGED link

\* A body stops half-way: the upstream resets its stream, a file read fails.
BreakOff(r) ==
  /\ req[r].stage = "sending"
  /\ req[r].head \in {"upstream", "file"}
  /\ Set(r, Ended(req[r], "torn"))
  /\ Quiet /\ UNCHANGED link

ClientLeaves(r) ==
  /\ Flying(r)
  /\ Set(r, Ended(req[r], "left"))
  /\ Quiet /\ UNCHANGED link

\* The runtime is being dropped: its tasks are, at their next await.
CutOff(r) ==
  /\ Flying(r)
  /\ phase[req[r].by] = "closing"
  /\ Set(r, Ended(req[r], "cut"))
  /\ Quiet /\ UNCHANGED link

-----------------------------------------------------------------------------
(* The server thread, between its bind and its end                          *)

\* The address is taken while any listener of this process is bound to it.
Bind(s) ==
  /\ phase[s] = "serving"
  /\ port[s] = "unbound"
  /\ \A t \in Servers : port[t] # "bound"
  /\ port' = [port EXCEPT ![s] = "bound"]
  /\ UNCHANGED <<vars, config, link, req>>

Released(s) == [port EXCEPT ![s] = IF port[s] = "bound" THEN "released" ELSE port[s]]

\* Mutant: a graceful shutdown, that waits for the requests in flight.
StopServingDrained(s) ==
  /\ config.https \/ port[s] # "unbound"
  /\ \A r \in Requests : req[r].by = s => ~Flying(r)
  /\ ServeShutdown(s)
  /\ port' = Released(s)
  /\ UNCHANGED <<config, link, req>>

\* start returns: the serve future is dropped, the listener with it.  The
\* tasks of the connections it has accepted live on.  The plain listener is
\* bound before the select!, the HTTPS one inside the future it polls.
StopServing(s) ==
  /\ config.https \/ port[s] # "unbound"
  /\ ServeShutdown(s)
  /\ port' = Released(s)
  /\ UNCHANGED <<config, link, req>>

\* The bind or the accept loop fails.
ServingFails(s) ==
  /\ ServeEnds(s)
  /\ port' = Released(s)
  /\ UNCHANGED <<config, link, req>>

\* Mutant: the runtime is shut down in the background.
LastTaskDetached(s) ==
  /\ Exit(s)
  /\ link' = [link EXCEPT ![s] = FALSE]
  /\ UNCHANGED <<config, port, req>>

\* The runtime is dropped before the thread ends; dropping it waits until
\* every task is gone.
LastTaskGone(s) ==
  /\ \A r \in Requests : req[r].by = s => ~Flying(r)
  /\ Exit(s)
  /\ link' = [link EXCEPT ![s] = FALSE]
  /\ UNCHANGED <<config, port, req>>

Undisturbed(s) == BootOk(s) \/ BootFails(s) \/ BootPanics(s) \/ ClearFlag(s)

-----------------------------------------------------------------------------
RequestStep(r) ==
  \/ \E s \in Servers, kind \in Kinds, api \in BOOLEAN : Arrive(r, s, kind, api)
  \/ Forward(r) \/ DialFails(r) \/ UpstreamAnswers(r) \/ UpstreamRefuses(r)
  \/ ReadFile(r) \/ Finish(r) \/ BreakOff(r) \/ ClientLeaves(r) \/ CutOff(r)

ServingStep(s) ==
  \/ Bind(s) \/ StopServing(s) \/ ServingFails(s) \/ LastTaskGone(s) \/ LinkBreaks(s)

\* What ServerHandle does without touching the traffic.
HostOrBootStep ==
  /\ \/ \E c \in Callers : HostStep(c) \/ CallerStep(c)
     \/ \E s \in Servers : Undisturbed(s)
     \/ Terminated
  /\ UNCHANGED <<config, traffic>>

ServingNext ==
  \/ HostOrBootStep
  \/ \E s \in Servers : ServingStep(s)
  \/ \E r \in Requests : RequestStep(r)

ServingSpec == ServingInit /\ [][ServingNext]_svars

\* The same under a host that follows SerialHost's rule.
SerialServingSpec == ServingInit /\ [][ServingNext /\ OneDriver]_svars

(***************************************************************************)
(* As in ServerHandle, and: a bind ends, and the tasks of a runtime that   *)
(* is dropped are.  Clients and the upstream owe nothing: the code has no  *)
(* timeout on a dial, an answer or a body, so a request may take for ever. *)
(***************************************************************************)
ServingFairness ==
  /\ \A c \in Callers : WF_svars(CallerStep(c) /\ UNCHANGED <<config, traffic>>)
  /\ \A s \in Servers :
        /\ WF_svars((BootOk(s) \/ BootFails(s) \/ BootPanics(s)) /\ UNCHANGED <<config, traffic>>)
        /\ WF_svars(ClearFlag(s) /\ UNCHANGED <<config, traffic>>)
        /\ WF_svars(Bind(s) \/ (port[s] = "unbound" /\ ServingFails(s)))
        /\ WF_svars(StopServing(s))
        /\ WF_svars(LastTaskGone(s))
  /\ \A r \in Requests : WF_svars(CutOff(r))

FairServingSpec == ServingSpec /\ ServingFairness

-----------------------------------------------------------------------------
(* Properties                                                               *)

\* Every answer has passed the CORS and the tracing layer, so a browser can
\* read it and the log shows it: the 502 of an unreachable upstream, the page
\* and the 404 of the fallback included, whatever was added when.
AnswersPassedOuterLayers ==
  \A r \in Requests : req[r].head # None => {"trace", "cors"} \subseteq req[r].layers

\* The upstream only sees calls.  In particular no preflight reaches it, and a
\* preflight does not depend on its being up.
UpstreamSeesOnlyCalls ==
  \A r \in Requests :
    req[r].stage \in {"queued", "forwarded"} \/ req[r].head \in {"upstream", "bad_gateway"}
      => req[r].kind = "call"

\* When the join inside wait or destroy has returned, and after destroy, the
\* host may tear down what its requests depend on: none is in flight.
ReturnedMeansQuiet ==
  (handle = "freed" \/ \E c \in Callers : pc[c] \in {"wait_clear", "drop_clear"})
    => \A r \in Requests : ~Flying(r)

\* What the client has of a request.  Once an answer has begun, or when the
\* client left, it is over for it however it ends.
ClientView(q) ==
  IF q.stage = "unsent" THEN "none"
  ELSE IF q.stage = "sending" THEN "answered"
  ELSE IF q.stage \in InFlight THEN "open"
  ELSE IF q.stage \in {"torn", "cut"} /\ q.head = None THEN "lost"
  ELSE "over"

EX == INSTANCE Exchanges WITH
  exchange <- [r \in Requests |-> ClientView(req[r])],
  taker    <- [r \in Requests |-> req[r].by],
  winding  <- {s \in Servers : phase[s] = "closing"},
  gone     <- {s \in Servers : phase[s] \in Finished}

\* A request goes without an answer only while its server winds up, never
\* because of the upstream, and no server thread ends with one in flight.
ImplementsExchanges == EX!XSpec

\* stop "requests graceful shutdown".  A request in flight when the message
\* arrives at a server that still listens may yet be cut off: the select! drops
\* the serve future and the thread its runtime, nobody waits for requests.
StopIsGraceful ==
  \A r \in Requests :
    [](Flying(r) /\ signal[req[r].by] = "sent" /\ port[req[r].by] = "bound"
         => [](req[r].stage # "cut"))
=============================================================================
