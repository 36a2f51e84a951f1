---------------------------- MODULE ServingProofs ----------------------------
(***************************************************************************)
(* Theorems about Serving, for any number of callers, servers and requests. *)
(* The invariant TrafficInv says which layers each request has met, who    *)
(* serves it and that its server lives while it is in flight.              *)
(***************************************************************************)
EXTENDS Serving, SerialHostProofs

\* Where a layer puts the service it wraps.
LEMMA AroundMeets ==
  ASSUME NEW layer, NEW service, NEW kind \in Kinds
  PROVE  Around(layer, service)[kind] =
           {layer} \cup IF Stops(layer, kind) THEN {} ELSE service[kind]
BY DEF Around

\* The layers a request meets, by route and kind.
LEMMA RouterLayers ==
  ASSUME NEW kind \in Kinds
  PROVE  /\ Router.api[kind] =
              IF kind = "preflight" THEN {"trace", "cors"}
              ELSE IF kind = "other" THEN {"trace", "cors", "handle_error", "grpc_web"}
              ELSE {"trace", "cors", "handle_error", "grpc_web", "proxy"}
         /\ Router.fallback[kind] =
              IF kind = "preflight" THEN {"trace", "cors"}
              ELSE {"trace", "cors", IF config.static_dir THEN "web" ELSE "not_found"}
<1> DEFINE proxy == AddProxy(EmptyRouter)
           web   == AddWeb(proxy)
           layers(service) == Around("trace", Around("cors", service))
<1>1. /\ proxy.api = Around("handle_error", Around("grpc_web", Service("proxy")))
      /\ proxy.fallback = Service("not_found")
  <2> HIDE DEF Around, Service
  <2> QED BY DEF AddProxy, EmptyRouter
<1>2. web.api = proxy.api /\ web.fallback = Service(IF config.static_dir THEN "web" ELSE "not_found")
  <2>1. DOMAIN proxy = {"api", "fallback"}
    BY DEF AddProxy, EmptyRouter
  <2> HIDE DEF proxy
  <2> QED BY <1>1, <2>1 DEF AddWeb
<1>3. Router.api = layers(web.api) /\ Router.fallback = layers(web.fallback)
  <2> HIDE DEF web
  <2> QED BY DEF Router, AddObservability, AddCors, Wrapped, web
<1>4. \A name : Service(name)[kind] = {name}
  BY DEF Service
<1> HIDE DEF proxy, web
<1>5. /\ proxy.api[kind] = {"handle_error", "grpc_web"} \cup IF kind = "call" THEN {"proxy"} ELSE {}
      /\ \A service : layers(service)[kind] =
           {"trace", "cors"} \cup IF kind = "preflight" THEN {} ELSE service[kind]
  BY <1>1, <1>4, AroundMeets DEF Stops
<1>6. /\ Router.api[kind] = {"trace", "cors"} \cup IF kind = "preflight" THEN {} ELSE proxy.api[kind]
      /\ Router.fallback[kind] = {"trace", "cors"} \cup IF kind = "preflight" THEN {}
                                ELSE {IF config.static_dir THEN "web" ELSE "not_found"}
  <2> HIDE DEF layers
  <2> QED BY <1>2, <1>3, <1>4, <1>5
<1> QED BY <1>5, <1>6 DEF Kinds

-----------------------------------------------------------------------------
(* Serving is a ServerHandle                                                *)

\* What happens to requests is invisible to the handle, and what happens to
\* the server thread on account of them is a step the handle allows.
LEMMA HandleSide == ASSUME [ServingNext]_svars PROVE [Next]_vars
<1>1. CASE HostOrBootStep
  BY <1>1 DEF HostOrBootStep, Undisturbed, Next, ServerStep
<1>2. ASSUME NEW s \in Servers, ServingStep(s) PROVE [Next]_vars
  BY <1>2 DEF ServingStep, Bind, StopServing, ServingFails, LastTaskGone, LinkBreaks,
              Quiet, Next, ServerStep
<1>3. ASSUME NEW r \in Requests, RequestStep(r) PROVE UNCHANGED vars
  BY <1>3 DEF RequestStep, Arrive, Forward, DialFails, UpstreamAnswers, UpstreamRefuses,
              ReadFile, Finish, BreakOff, ClientLeaves, CutOff, Quiet
<1> QED BY <1>1, <1>2, <1>3 DEF ServingNext, svars

\* Everything proved of ServerHandle holds of the handle of a serving server.
THEOREM ServingIsAHandle == ServingSpec => Spec
<1>1. ServingInit => Init
  BY DEF ServingInit
<1>2. [ServingNext]_svars => [Next]_vars
  BY HandleSide
<1> QED BY <1>1, <1>2, PTL DEF ServingSpec, Spec

\* So does everything proved of a handle whose host follows the rule.
THEOREM SerialServingIsSerial == SerialServingSpec => SerialSpec
<1>1. ServingInit => Init
  BY DEF ServingInit
<1>2. [ServingNext /\ OneDriver]_svars => [SerialNext]_vars
  BY HandleSide DEF SerialNext, svars
<1> QED BY <1>1, <1>2, PTL DEF SerialServingSpec, SerialSpec

-----------------------------------------------------------------------------
(* The traffic                                                              *)

\* What every request satisfies.  In flight, it belongs to a server that serves
\* or winds up; what it has met fits how far it has come; only what has met
\* the proxy, which only calls do, waits for the upstream or tells of it.
Sound(q) ==
  /\ q \in Request
  /\ q.stage \in InFlight =>
       q.by \in Servers /\ phase[q.by] \in {"serving", "returned", "closing"}
  /\ q.stage \in {"unsent", "queued", "forwarded", "file"} => q.head = None
  /\ q.stage \in {"sending", "done", "torn"} => q.head # None
  /\ q.stage # "unsent" => {"trace", "cors"} \subseteq q.layers
  /\ q.stage \in {"queued", "forwarded"} => "handle_error" \in q.layers /\ q.kind = "call"
  /\ q.head \in {"upstream", "bad_gateway"} => q.kind = "call"

TrafficInv == ServingTypeOK /\ \A r \in Requests : Sound(req[r])

\* TrafficInv holds before any request.
LEMMA TrafficInit == ASSUME ServingInit PROVE TrafficInv
BY HeadAssumption DEF ServingInit, TrafficInv, ServingTypeOK, Sound, Request, InFlight

\* What may happen to a request keeps it sound.
LEMMA SoundSteps ==
  ASSUME NEW q, Sound(q)
  PROVE  /\ q.stage = "queued" => Sound(Ended(q, "forwarded"))
         /\ q.stage \in {"queued", "forwarded"} => Sound(Failed(q))
         /\ q.stage = "forwarded" => Sound(Answered(q, "upstream"))
         /\ \A head \in {"file", "not_found", "io_error"} :
              q.stage = "file" => Sound(Answered(q, head))
         /\ q.stage = "sending" => Sound(Ended(q, "done")) /\ Sound(Ended(q, "torn"))
         /\ q.stage \in InFlight => Sound(Ended(q, "left")) /\ Sound(Ended(q, "cut"))
<1> USE HeadAssumption DEF Sound, Request, InFlight, Over, Heads, Answered, Ended
<1>1. q.stage = "queued" => Sound(Ended(q, "forwarded"))
  OBVIOUS
<1>2. q.stage \in {"queued", "forwarded"} => Sound(Failed(q))
  BY DEF Failed
<1>3. q.stage = "forwarded" => Sound(Answered(q, "upstream"))
  OBVIOUS
<1>4. \A head \in {"file", "not_found", "io_error"} :
        q.stage = "file" => Sound(Answered(q, head))
  OBVIOUS
<1>5. q.stage = "sending" => Sound(Ended(q, "done")) /\ Sound(Ended(q, "torn"))
  OBVIOUS
<1>6. q.stage \in InFlight => Sound(Ended(q, "left")) /\ Sound(Ended(q, "cut"))
  OBVIOUS
<1> QED BY <1>1, <1>2, <1>3, <1>4, <1>5, <1>6

\* A request that arrives meets the layers of its route and is sound.
LEMMA SoundArrival ==
  ASSUME TrafficInv, NEW r \in Requests, NEW s \in Servers, NEW kind \in Kinds,
         NEW api \in BOOLEAN, Arrive(r, s, kind, api)
  PROVE  req' \in [Requests -> Request] /\ \A t \in Requests : Sound(req'[t])
<1> DEFINE layers == (IF api THEN Router.api ELSE Router.fallback)[kind]
           q      == [req[r] EXCEPT !.by = s, !.kind = kind, !.layers = layers]
<1>1. /\ {"trace", "cors"} \subseteq layers /\ layers \subseteq Layers
      /\ "proxy" \in layers => "handle_error" \in layers /\ kind = "call"
  BY RouterLayers DEF Layers, Kinds
<1> HIDE DEF layers
<1>2. /\ req[r] \in Request /\ req[r].stage = "unsent" /\ req[r].head = None
      /\ phase[s] \in {"serving", "returned", "closing"}
  BY DEF Arrive, TrafficInv, ServingTypeOK, Sound
<1>3. /\ "proxy" \in layers => Sound(Ended(q, "queued"))
      /\ Sound(Ended(q, "file"))
      /\ \A head \in {"not_found", "refused", "preflight"} : Sound(Answered(q, head))
  BY <1>1, <1>2, HeadAssumption DEF Sound, Request, InFlight, Over, Heads, Answered, Ended
<1> HIDE DEF q
<1>4. \E p : Sound(p) /\ req' = [req EXCEPT ![r] = p]
  BY <1>3 DEF Arrive, Set, q, layers
<1> QED BY <1>4 DEF TrafficInv, ServingTypeOK, Sound

\* Calls of the host and the boot of a server start servers, and change
\* nothing of one that serves or winds up, except for its flag.
LEMMA ServingPhasesKept ==
  ASSUME TypeOK, HostOrBootStep, NEW s \in Servers,
         phase[s] \in {"serving", "returned", "closing"}
  PROVE  phase'[s] \in {"serving", "returned", "closing"}
<1> USE DEF TypeOK, Phases, Alive, Finished
<1>1. ASSUME NEW c \in Callers, HostStep(c) \/ CallerStep(c)
      PROVE  \/ phase' = phase
             \/ \E t \in Unborn : phase' = [phase EXCEPT ![t] = "booting"]
  BY <1>1 DEF HostStep, CallerStep, CallStart, Call, IsRunning, Destroy, LockPoisoned, StartLock,
     StartRefused, StartMark, StartSpawn, StartSpawnPanics, WaitTake, WaitJoin, WaitClear, Stop,
     DropTake, DropPoisoned, DropJoin, DropClear
<1>2. ASSUME NEW t \in Servers, Undisturbed(t)
      PROVE  phase'[s] \in {"serving", "returned", "closing"}
  BY <1>2 DEF Undisturbed, BootOk, BootFails, BootPanics, ClearFlag, Advance
<1> QED BY <1>1, <1>2 DEF HostOrBootStep, Terminated, vars, Unborn

\* Every step keeps TrafficInv.
LEMMA TrafficStep ==
  ASSUME TrafficInv, TypeOK, [ServingNext]_svars
  PROVE  TrafficInv'
<1> USE DEF TrafficInv, ServingTypeOK, traffic
<1> DEFINE Winding == {"serving", "returned", "closing"}
\* Requests a step leaves alone stay sound when their servers do.
<1>k. ASSUME ServingTypeOK', req' = req,
             \A r \in Requests : Flying(r) => (phase[req[r].by] \in Winding)'
      PROVE  TrafficInv'
  BY <1>k DEF Sound, Flying
<1>1. CASE HostOrBootStep
  BY <1>1, <1>k, ServingPhasesKept DEF HostOrBootStep, Sound, Flying
<1>2. ASSUME NEW s \in Servers, ServingStep(s) PROVE TrafficInv'
  <2> USE DEF vars, state
  <2>1. CASE Bind(s)
    BY <2>1, <1>k DEF Bind, Sound, Flying
  <2>2. CASE StopServing(s)
    BY <2>2, <1>k DEF StopServing, ServeShutdown, Advance, Released, TypeOK, Sound, Flying
  <2>3. CASE ServingFails(s)
    BY <2>3, <1>k DEF ServingFails, ServeEnds, Advance, Released, TypeOK, Sound, Flying
  <2>4. CASE LastTaskGone(s)
    BY <2>4, <1>k DEF LastTaskGone, Exit, Advance, TypeOK, Sound, Flying
  <2>5. CASE LinkBreaks(s)
    <3>1. \A r \in Requests : Sound(req'[r])
      BY <2>5, SoundSteps DEF LinkBreaks
    <3>2. phase' = phase /\ req' \in [Requests -> Request]
      BY <2>5, <3>1 DEF LinkBreaks, Quiet, Sound
    <3> QED BY <2>5, <3>1, <3>2 DEF LinkBreaks, Quiet, Sound
  <2> QED BY <1>2, <2>1, <2>2, <2>3, <2>4, <2>5 DEF ServingStep
<1>3. ASSUME NEW r \in Requests, RequestStep(r) PROVE TrafficInv'
  \* One request changes, to one that is sound.
  <2>k. ASSUME Quiet, link' \in [Servers -> BOOLEAN], NEW q, Sound(q), Set(r, q)
        PROVE  TrafficInv'
    BY <2>k DEF Quiet, vars, Set, Sound
  <2>1. ASSUME NEW s \in Servers, NEW kind \in Kinds, NEW api \in BOOLEAN, Arrive(r, s, kind, api)
        PROVE  TrafficInv'
    BY <2>1, SoundArrival DEF Arrive, Quiet, vars, Sound
  <2>2. CASE Forward(r)
    BY <2>2, <2>k, SoundSteps DEF Forward
  <2>3. CASE DialFails(r)
    BY <2>3, <2>k, SoundSteps DEF DialFails
  <2>4. CASE UpstreamAnswers(r)
    BY <2>4, <2>k, SoundSteps DEF UpstreamAnswers
  <2>5. CASE UpstreamRefuses(r)
    BY <2>5, <2>k, SoundSteps DEF UpstreamRefuses
  <2>6. CASE ReadFile(r)
    BY <2>6, <2>k, SoundSteps DEF ReadFile
  <2>7. CASE Finish(r)
    BY <2>7, <2>k, SoundSteps DEF Finish
  <2>8. CASE BreakOff(r)
    BY <2>8, <2>k, SoundSteps DEF BreakOff
  <2>9. CASE ClientLeaves(r)
    BY <2>9, <2>k, SoundSteps DEF ClientLeaves, Flying
  <2>10. CASE CutOff(r)
    BY <2>10, <2>k, SoundSteps DEF CutOff, Flying
  <2> QED BY <1>3, <2>1, <2>2, <2>3, <2>4, <2>5, <2>6, <2>7, <2>8, <2>9, <2>10 DEF RequestStep
<1>4. CASE UNCHANGED svars
  BY <1>4 DEF svars, vars, Sound
<1> QED BY <1>1, <1>2, <1>3, <1>4 DEF ServingNext

\* Every request is Sound in every reachable state: in particular one in flight
\* belongs to a server that serves or winds up.
THEOREM TrafficInvariant == ServingSpec => [](TypeOK /\ TrafficInv)
<1>1. ServingInit => TrafficInv
  BY TrafficInit
<1>2. TrafficInv /\ TypeOK /\ [ServingNext]_svars => TrafficInv'
  BY TrafficStep
<1>3. ServingSpec => []TypeOK
  BY ServingIsAHandle, TypeCorrect, PTL
<1> QED BY <1>1, <1>2, <1>3, PTL DEF ServingSpec

\* The traffic is typed.
THEOREM ServingTyped == ServingSpec => []ServingTypeOK
<1>1. TrafficInv => ServingTypeOK
  BY DEF TrafficInv
<1> QED BY <1>1, TrafficInvariant, PTL

\* Every answer, the 502 of an upstream that is down included, has passed the
\* CORS and the tracing layer.
THEOREM EveryAnswerIsReadable == ServingSpec => []AnswersPassedOuterLayers
<1>1. TrafficInv => AnswersPassedOuterLayers
  BY DEF TrafficInv, Sound, AnswersPassedOuterLayers
<1> QED BY <1>1, TrafficInvariant, PTL

\* No preflight and nothing the gRPC-Web layer refuses reaches the upstream.
THEOREM OnlyCallsGoUpstream == ServingSpec => []UpstreamSeesOnlyCalls
<1>1. TrafficInv => UpstreamSeesOnlyCalls
  BY DEF TrafficInv, Sound, UpstreamSeesOnlyCalls
<1> QED BY <1>1, TrafficInvariant, PTL

\* The host rule only takes behaviours away.
LEMMA SerialServingIsServing == SerialServingSpec => ServingSpec
<1>1. [ServingNext /\ OneDriver]_svars => [ServingNext]_svars
  OBVIOUS
<1> QED BY <1>1, PTL DEF SerialServingSpec, ServingSpec

\* Under the host rule nothing is in flight once the join inside wait or
\* destroy has returned: a request keeps its server alive, the server keeps
\* its join handle in the thread field or with a joiner, and there is neither.
THEOREM ReturnsAreQuiet == SerialServingSpec => []ReturnedMeansQuiet
<1>1. SerialServingSpec => ServingSpec
  BY SerialServingIsServing
<1>2. SerialServingSpec => []SerialInv
  BY SerialServingIsSerial, SerialInvariant, PTL
<1>3. SerialServingSpec => []FreedMeansReclaimed
  BY ServingIsAHandle, DestroyReclaims, <1>1, PTL
<1>4. SerialInv /\ FreedMeansReclaimed /\ TrafficInv => ReturnedMeansQuiet
  <2> SUFFICES ASSUME SerialInv, FreedMeansReclaimed, TrafficInv,
                      \/ handle = "freed"
                      \/ \E c \in Callers : pc[c] \in {"wait_clear", "drop_clear"}
               PROVE  \A r \in Requests : ~Flying(r)
    BY DEF ReturnedMeansQuiet
  <2>1. CASE handle = "freed"
    BY <2>1 DEF FreedMeansReclaimed, TrafficInv, Sound, Flying, Live, Alive
  <2>2. ASSUME NEW c \in Callers, pc[c] \in {"wait_clear", "drop_clear"}
        PROVE  \A r \in Requests : ~Flying(r)
    <3>1. thread = None
      BY <2>2 DEF SerialInv, EmptyInv
    <3>2. \A d \in Callers : pc[d] \notin {"wait_join", "drop_join"}
      BY <2>2 DEF SerialInv, HandleInv, RuleInv, DropInv, WaitPcs, DropPcs
    <3>3. \A s \in Servers : ~Live(s)
      BY <3>1, <3>2, NobodyLives
    <3> QED BY <3>3 DEF TrafficInv, Sound, Flying, Live, Alive
  <2> QED BY <2>1, <2>2
<1> QED BY <1>1, <1>2, <1>3, <1>4, TrafficInvariant, PTL

\* Under the host rule the servers, with all their traffic, implement Lifecycle.
THEOREM ServingImplementsLifecycle == SerialServingSpec => ImplementsLifecycle
<1> QED BY SerialServingIsSerial, HandleRefinesLifecycle, PTL

-----------------------------------------------------------------------------
(* The listeners                                                            *)

\* Only a server that serves has a listener, and only one that has come to
\* serve has ever had one: it is given up before the flag goes down and before
\* the runtime, whose tasks it may outlast, is dropped.
ListenersServe ==
  \A s \in Servers : /\ port[s] = "bound" => phase[s] = "serving"
                     /\ phase[s] \in {"unborn", "booting"} => port[s] = "unbound"

ListenerInv == TypeOK /\ ServingTypeOK /\ ListenersServe

\* Every step keeps it.
LEMMA ListenerStep ==
  ASSUME ListenerInv, [ServingNext]_svars
  PROVE  ListenersServe'
<1> USE DEF ListenerInv, ListenersServe, TypeOK, ServingTypeOK, Phases, Alive, Finished
<1>1. CASE HostOrBootStep
  <2>1. port' = port
    BY <1>1 DEF HostOrBootStep, traffic
  <2>2. ASSUME NEW c \in Callers, HostStep(c) \/ CallerStep(c)
        PROVE  \/ phase' = phase
               \/ \E t \in Unborn : phase' = [phase EXCEPT ![t] = "booting"]
    BY <2>2 DEF HostStep, CallerStep, CallStart, Call, IsRunning, Destroy, LockPoisoned, StartLock,
       StartRefused, StartMark, StartSpawn, StartSpawnPanics, WaitTake, WaitJoin, WaitClear, Stop,
       DropTake, DropPoisoned, DropJoin, DropClear
  <2>3. ASSUME NEW t \in Servers, Undisturbed(t)
        PROVE  ListenersServe'
    BY <2>1, <2>3 DEF Undisturbed, BootOk, BootFails, BootPanics, ClearFlag, Advance
  <2> QED BY <1>1, <2>1, <2>2, <2>3 DEF HostOrBootStep, Terminated, vars, Unborn
<1>2. ASSUME NEW s \in Servers, ServingStep(s)
      PROVE  ListenersServe'
  BY <1>2 DEF ServingStep, Bind, StopServing, ServingFails, LastTaskGone, LinkBreaks, Quiet, vars,
     ServeShutdown, ServeEnds, Exit, Advance, Released
<1>3. ASSUME NEW r \in Requests, RequestStep(r)
      PROVE  UNCHANGED <<port, phase>>
  BY <1>3 DEF RequestStep, Arrive, Forward, DialFails, UpstreamAnswers, UpstreamRefuses,
     ReadFile, Finish, BreakOff, ClientLeaves, CutOff, Quiet, vars
<1>4. CASE UNCHANGED svars
  BY <1>4 DEF svars, vars, traffic
<1> QED BY <1>1, <1>2, <1>3, <1>4 DEF ServingNext

\* With any host, a listener is a serving server's.
THEOREM ListenersAreServed == ServingSpec => []ListenersServe
<1>1. ServingInit => ListenersServe
  BY DEF ServingInit, Init, ListenersServe
<1>2. TypeOK /\ TrafficInv /\ ListenersServe /\ [ServingNext]_svars => ListenersServe'
  BY ListenerStep DEF ListenerInv, TrafficInv
<1> QED BY <1>1, <1>2, TrafficInvariant, PTL DEF ServingSpec

\* A server that boots or serves finds no listener of a predecessor in its way.
RestartFindsTheAddress ==
  \A s, t \in Servers : s # t /\ phase[s] \in {"booting", "serving"} => port[t] # "bound"

\* Under the host rule a restart, however soon after a stop, never fails on the
\* address its predecessor had.
THEOREM RestartsFindTheAddress == SerialServingSpec => []RestartFindsTheAddress
<1>1. OneServerAtATime /\ ListenersServe => RestartFindsTheAddress
  BY DEF OneServerAtATime, ListenersServe, RestartFindsTheAddress, Live, Alive
<1>2. SerialServingSpec => []OneServerAtATime
  BY SerialServingIsSerial, OneServerOnly, PTL
<1> QED BY <1>1, <1>2, SerialServingIsServing, ListenersAreServed, PTL

-----------------------------------------------------------------------------
(* The refinement of Exchanges                                              *)

\* At first nothing is taken and no server is gone.
LEMMA ExchangeInit == ASSUME ServingInit PROVE EX!XInit
BY DEF ServingInit, Init, EX!XInit, Finished, ClientView

\* Requests q that may become p by a move that Exchanges allows.
Moves(q, p) ==
  \/ ClientView(p) = ClientView(q) /\ p.by = q.by
  \/ /\ ClientView(q) = "none" /\ ClientView(p) \in {"open", "answered"}
     /\ p.by \in Servers /\ phase[p.by] \notin Finished
  \/ /\ p.by = q.by
     /\ \/ ClientView(q) = "open" /\ ClientView(p) \in {"answered", "over"}
        \/ ClientView(q) = "answered" /\ ClientView(p) = "over"
        \/ /\ ClientView(q) = "open" /\ ClientView(p) = "lost"
           /\ q.by \in Servers /\ phase[q.by] = "closing"

\* A request that moves is one Exchanges lets move.
LEMMA MovesAllowed ==
  ASSUME NEW r \in Requests, Moves(req[r], req'[r])
  PROVE  EX!Keep(r) \/ EX!Take(r) \/ EX!Progress(r) \/ EX!Lose(r)
<1> DEFINE view == [t \in Requests |-> ClientView(req[t])]
<1>1. view[r] = ClientView(req[r]) /\ view'[r] = ClientView(req'[r])
  BY DEF ClientView
<1>2. /\ [t \in Requests |-> req[t].by][r] = req[r].by
      /\ [t \in Requests |-> req[t].by]'[r] = req'[r].by
  OBVIOUS
<1> QED BY <1>1, <1>2 DEF Moves, EX!Keep, EX!Take, EX!Progress, EX!Lose

\* The moves of a request that is sound.
LEMMA SoundMoves ==
  ASSUME NEW q, Sound(q)
  PROVE  /\ Moves(q, q)
         /\ q.stage = "queued" => Moves(q, Ended(q, "forwarded"))
         /\ q.stage \in {"queued", "forwarded"} => Moves(q, Failed(q))
         /\ \A head \in Heads :
              q.stage \in {"forwarded", "file"} => Moves(q, Answered(q, head))
         /\ q.stage = "sending" => Moves(q, Ended(q, "done")) /\ Moves(q, Ended(q, "torn"))
         /\ q.stage \in InFlight => Moves(q, Ended(q, "left"))
         /\ q.stage \in InFlight /\ phase[q.by] = "closing" => Moves(q, Ended(q, "cut"))
<1> USE HeadAssumption DEF Sound, Request, InFlight, Over, Answered, Ended, Moves, ClientView
<1>1. Moves(q, q)
  OBVIOUS
<1>2. q.stage = "queued" => Moves(q, Ended(q, "forwarded"))
  OBVIOUS
<1>3. q.stage \in {"queued", "forwarded"} => Moves(q, Failed(q))
  BY DEF Failed
<1>4. \A head \in Heads : q.stage \in {"forwarded", "file"} => Moves(q, Answered(q, head))
  OBVIOUS
<1>5. q.stage = "sending" => Moves(q, Ended(q, "done")) /\ Moves(q, Ended(q, "torn"))
  OBVIOUS
<1>6. q.stage \in InFlight => Moves(q, Ended(q, "left"))
  OBVIOUS
<1>7. q.stage \in InFlight /\ phase[q.by] = "closing" => Moves(q, Ended(q, "cut"))
  OBVIOUS
<1> QED BY <1>1, <1>2, <1>3, <1>4, <1>5, <1>6, <1>7

\* In every step every request keeps its place or moves as Exchanges allows.
LEMMA RequestsMove ==
  ASSUME TrafficInv, [ServingNext]_svars, NEW r \in Requests
  PROVE  Moves(req[r], req'[r])
<1>s. Sound(req[r]) /\ req \in [Requests -> Request]
  BY DEF TrafficInv, ServingTypeOK
<1>k. req'[r] = req[r] => Moves(req[r], req'[r])
  BY <1>s, SoundMoves
<1>1. CASE HostOrBootStep \/ UNCHANGED svars
  BY <1>1, <1>k DEF HostOrBootStep, traffic, svars
<1>2. ASSUME NEW s \in Servers, ServingStep(s) PROVE Moves(req[r], req'[r])
  BY <1>2, <1>k, <1>s, SoundMoves DEF ServingStep, Bind, StopServing, ServingFails, LastTaskGone,
     LinkBreaks
<1>3. ASSUME NEW t \in Requests, RequestStep(t) PROVE Moves(req[r], req'[r])
  <2>1. CASE r # t
    <3>1. \A q : Set(t, q) => req'[r] = req[r]
      BY <2>1, <1>s DEF Set
    <3>2. ASSUME NEW s \in Servers, NEW kind \in Kinds, NEW api \in BOOLEAN, Arrive(t, s, kind, api)
          PROVE  req'[r] = req[r]
      BY <3>1, <3>2 DEF Arrive
    <3>3. CASE Forward(t) \/ DialFails(t) \/ UpstreamAnswers(t) \/ UpstreamRefuses(t)
      BY <3>1, <3>3, <1>k DEF Forward, DialFails, UpstreamAnswers, UpstreamRefuses
    <3>4. CASE ReadFile(t) \/ Finish(t) \/ BreakOff(t) \/ ClientLeaves(t) \/ CutOff(t)
      BY <3>1, <3>4, <1>k DEF ReadFile, Finish, BreakOff, ClientLeaves, CutOff
    <3> QED BY <1>3, <3>2, <3>3, <3>4, <1>k DEF RequestStep
  <2>2. CASE r = t
    <3> USE <2>2, <1>s DEF Set
    <3>1. ASSUME NEW s \in Servers, NEW kind \in Kinds, NEW api \in BOOLEAN, Arrive(r, s, kind, api)
          PROVE  Moves(req[r], req'[r])
      <4> DEFINE q == [req[r] EXCEPT !.by = s, !.kind = kind,
                         !.layers = (IF api THEN Router.api ELSE Router.fallback)[kind]]
      <4>1. ClientView(req[r]) = "none" /\ phase[s] \notin Finished
        BY <3>1 DEF Arrive, ClientView, Finished
      <4>2. q.by = s /\ DOMAIN q = {"stage", "kind", "by", "head", "layers"}
        BY DEF Request
      <4> HIDE DEF q
      <4>3. \A how \in {"queued", "file"} : Moves(req[r], Ended(q, how))
        BY <4>1, <4>2 DEF Ended, Moves, ClientView, InFlight
      <4>4. \A head \in Heads : Moves(req[r], Answered(q, head))
        BY <4>1, <4>2 DEF Answered, Moves, ClientView, InFlight
      <4> QED BY <3>1, <4>3, <4>4 DEF Arrive, q, Heads
    <3>2. CASE Forward(r)
      BY <3>2, SoundMoves DEF Forward
    <3>3. CASE DialFails(r) \/ UpstreamRefuses(r)
      BY <3>3, SoundMoves DEF DialFails, UpstreamRefuses
    <3>4. CASE UpstreamAnswers(r) \/ ReadFile(r)
      BY <3>4, SoundMoves DEF UpstreamAnswers, ReadFile, Heads
    <3>5. CASE Finish(r) \/ BreakOff(r)
      BY <3>5, SoundMoves DEF Finish, BreakOff
    <3>6. CASE ClientLeaves(r) \/ CutOff(r)
      BY <3>6, SoundMoves DEF ClientLeaves, CutOff, Flying
    <3> QED BY <1>3, <3>1, <3>2, <3>3, <3>4, <3>5, <3>6 DEF RequestStep
  <2> QED BY <2>1, <2>2
<1> QED BY <1>1, <1>2, <1>3 DEF ServingNext

\* Every step is one of Exchanges, or invisible to it.
LEMMA ExchangeStep ==
  ASSUME TrafficInv, TrafficInv', TypeOK, [ServingNext]_svars
  PROVE  EX!XNext
<1>1. \A r \in Requests : EX!Keep(r) \/ EX!Take(r) \/ EX!Progress(r) \/ EX!Lose(r)
  BY RequestsMove, MovesAllowed
<1>2. \A s \in Servers : /\ phase[s] = "closing" => phase'[s] \in {"closing", "exited"}
                         /\ phase[s] \in Finished => phase'[s] = phase[s]
  BY HandleSide, PhaseOrder
<1>3. \A r \in Requests : ClientView(req[r])' \in {"open", "answered"} => phase'[req'[r].by] \notin Finished
  BY DEF TrafficInv, Sound, ClientView, InFlight, Finished
<1>4. {s \in Servers : phase[s] = "closing"} \subseteq
        {s \in Servers : phase'[s] = "closing"} \cup {s \in Servers : phase'[s] \in Finished}
  BY <1>2 DEF Finished
<1>5. {s \in Servers : phase[s] \in Finished} \subseteq {s \in Servers : phase'[s] \in Finished}
  BY <1>2
<1>6. \A r \in Requests :
        [t \in Requests |-> ClientView(req[t])]'[r] \in {"open", "answered"}
          => [t \in Requests |-> req[t].by]'[r] \notin {s \in Servers : phase[s] \in Finished}'
  BY <1>3
<1> QED BY <1>1, <1>4, <1>5, <1>6 DEF EX!XNext

\* Every request a server has taken is answered unless the client leaves or
\* the server winds up, and no server thread ends with one in flight.
THEOREM ServingRefinesExchanges == ServingSpec => ImplementsExchanges
<1>1. ServingInit => EX!XInit
  BY ExchangeInit
<1>2. TypeOK /\ TrafficInv /\ (TypeOK /\ TrafficInv)' /\ [ServingNext]_svars => [EX!XNext]_EX!xvars
  BY ExchangeStep
<1> QED BY <1>1, <1>2, TrafficInvariant, PTL DEF ServingSpec, ImplementsExchanges, EX!XSpec
=============================================================================
