------------------------------- MODULE Startup -------------------------------
(***************************************************************************)
(* From the options a host hands to create to a listening server: the      *)
(* conversion of the options (server/ffi.rs, utils.rs), their validation,  *)
(* the upstream proxy, the CORS layer and the bind (server/server.rs,      *)
(* server/proxy.rs), in the order and on the thread the code does them.    *)
(* create converts on the caller's thread; all the rest happens on the     *)
(* background thread, whose phases ServerHandle calls "booting" (up to the *)
(* CORS layer) and "serving" (from the bind on).                           *)
(*                                                                         *)
(* A string is "null", or text that parses ("addr") or not ("junk") as the *)
(* address it is used as; a path is given or not; what a file holds is a   *)
(* choice made when it is read.  An entry of a CORS list is "plain", the   *)
(* wildcard "star", or "bad": missing, not UTF-8, or not a legal token.    *)
(* Order and number of the entries are left out, but for one case: a "*"   *)
(* after the first of its list counts as "plain", because all that matters *)
(* is whether a list has a "*" and whether it has anything else.           *)
(***************************************************************************)
EXTENDS FiniteSets

CONSTANTS
  Handles,   \* the handles a host creates
  Options,   \* the option structs it may pass
  Levels,    \* log levels
  None       \* no level, no options

Address == {"null", "addr", "junk"}
Rule    == [any : BOOLEAN, list : SUBSET {"plain", "star", "bad"}]

\* GrpcWebServerOptions; static_dir is left out, adding the web files to the
\* router cannot fail.
OptionStruct ==
  [http_address : Address, grpc_address : Address,
   grpc_ca_cert : BOOLEAN, grpc_proxy_key : BOOLEAN, grpc_proxy_cert : BOOLEAN,
   http_key : BOOLEAN, http_cert : BOOLEAN,
   origins : Rule, methods : Rule, headers : Rule, credentials : BOOLEAN]

ASSUME OptionsAssumption == Options \subseteq OptionStruct
ASSUME NoneAssumption == None \notin Levels \cup OptionStruct

VARIABLES
  tracing,   \* the process-wide log level, None until TRACING_INIT has run
  given,     \* the struct create was called with, per handle
  options,   \* the options the handle stores, None if create returned null
  stage,     \* how far the handle's background thread has come
  upstream   \* the proxy's client: does it dial TLS, does it hold a client
             \* certificate (which it can only present over TLS)

vars == <<tracing, given, options, stage, upstream>>

Booting == {"runtime", "validate", "proxy", "cors"}
Serving == {"http", "https"}
Ended   == {"exited", "panicked"}
Stages  == {"off", "bind"} \cup Booting \cup Serving \cup Ended

TypeOK ==
  /\ tracing \in Levels \cup {None}
  /\ given \in [Handles -> OptionStruct \cup {None}]
  /\ options \in [Handles -> OptionStruct \cup {None}]
  /\ stage \in [Handles -> Stages]
  /\ upstream \in [Handles -> [tls : BOOLEAN, auth : BOOLEAN]]

Init ==
  /\ tracing = None
  /\ given = [h \in Handles |-> None]
  /\ options = [h \in Handles |-> None]
  /\ stage = [h \in Handles |-> "off"]
  /\ upstream = [h \in Handles |-> [tls |-> FALSE, auth |-> FALSE]]

-----------------------------------------------------------------------------
(* create                                                                   *)

\* Mutants: only the lists that will be used are parsed; the list goes away
\* with the flag, instead of becoming empty.
ConvertibleIfUsed(o) ==
  /\ o.http_address # "null" /\ o.grpc_address # "null"
  /\ \A r \in {o.origins, o.methods, o.headers} : r.any \/ "bad" \notin r.list
PolicyFlagOnly(r) == IF r.any THEN [any |-> TRUE] ELSE r

\* Both addresses must be there, and every entry of every list must be legal:
\* the lists are parsed before anyone looks at the allow_any flags.
Convertible(o) ==
  /\ o.http_address # "null"
  /\ o.grpc_address # "null"
  /\ \A r \in {o.origins, o.methods, o.headers} : "bad" \notin r.list

\* An allow_any flag discards its list.
Policy(r) == [r EXCEPT !.list = IF r.any THEN {} ELSE r.list]

Converted(o) ==
  [o EXCEPT !.origins = Policy(o.origins),
            !.methods = Policy(o.methods),
            !.headers = Policy(o.headers)]

\* init_tracing_once comes before the conversion.
Create(h, o, level) ==
  /\ given[h] = None
  /\ given' = [given EXCEPT ![h] = o]
  /\ tracing' = IF tracing = None THEN level ELSE tracing
  /\ options' = [options EXCEPT ![h] = IF Convertible(o) THEN Converted(o) ELSE None]
  /\ UNCHANGED <<stage, upstream>>

-----------------------------------------------------------------------------
(* The background thread                                                    *)

\* Mutants: one of the two key and certificate checks is missing.
ValidAnyHttp(o) ==
  /\ o.grpc_proxy_key = o.grpc_proxy_cert
  /\ ~(o.origins.any /\ o.credentials)
  /\ \A r \in {o.origins, o.methods, o.headers} : r.any \/ r.list # {}
ValidAnyGrpc(o) ==
  /\ o.http_key = o.http_cert
  /\ ~(o.origins.any /\ o.credentials)
  /\ \A r \in {o.origins, o.methods, o.headers} : r.any \/ r.list # {}

\* GrpcWebServerOptions::validate
Valid(o) ==
  /\ o.grpc_proxy_key = o.grpc_proxy_cert
  /\ o.http_key = o.http_cert
  /\ ~(o.origins.any /\ o.credentials)
  /\ \A r \in {o.origins, o.methods, o.headers} : r.any \/ r.list # {}

\* What tower-http's CorsLayer refuses, by a panic: a wildcard in a list of
\* origins, and credentials together with any header that reads "*".  A list of
\* methods or headers reads "*" if that is its one entry; one of ["*", "*"]
\* reads "*,*" and is {"star", "plain"} here.
ReadsStar(r) == r.any \/ r.list = {"star"}

LayerRefuses(o) ==
  \/ ~o.origins.any /\ "star" \in o.origins.list
  \/ o.credentials /\ \E r \in {o.origins, o.methods, o.headers} : ReadsStar(r)

\* The thread of a handle goes from one stage to the next.
Advance(h, from, to) ==
  /\ stage[h] = from
  /\ stage' = [stage EXCEPT ![h] = to]
  /\ UNCHANGED <<tracing, given, options>>

\* start spawns a thread when there is none or the last one is gone.
Start(h) ==
  /\ options[h] # None
  /\ \E from \in {"off"} \cup Ended : Advance(h, from, "runtime")
  /\ UNCHANGED upstream

BuildRuntime(h) ==
  /\ \E to \in {"validate", "exited"} : Advance(h, "runtime", to)
  /\ UNCHANGED upstream

Validate(h) ==
  /\ Advance(h, "validate", IF Valid(options[h]) THEN "proxy" ELSE "exited")
  /\ UNCHANGED upstream

\* GrpcWebProxy::new: without a CA the client dials plain HTTP, whatever else
\* it holds; the client certificate needs both paths.
AddProxy(h) ==
  /\ Advance(h, "proxy", "cors")
  /\ options[h].grpc_address # "junk"
  /\ upstream' = [upstream EXCEPT ![h] =
       [tls  |-> options[h].grpc_ca_cert,
        auth |-> options[h].grpc_proxy_cert /\ options[h].grpc_proxy_key]]

\* The authority does not parse, or a file that is needed cannot be read.
AddProxyFails(h) ==
  /\ Advance(h, "proxy", "exited")
  /\ \/ options[h].grpc_address = "junk"
     \/ options[h].grpc_ca_cert
     \/ options[h].grpc_proxy_cert /\ options[h].grpc_proxy_key
  /\ UNCHANGED upstream

\* Mutant: a layer that is attached without being checked.
AddCorsUnchecked(h) == Advance(h, "cors", "bind") /\ UNCHANGED upstream

AddCors(h) ==
  /\ Advance(h, "cors", IF LayerRefuses(options[h]) THEN "panicked" ELSE "bind")
  /\ UNCHANGED upstream

\* GrpcWebServer::start up to the select!: HTTPS with both paths, else HTTP.
Bind(h) ==
  /\ Advance(h, "bind", IF options[h].http_cert /\ options[h].http_key
                          THEN "https" ELSE "http")
  /\ options[h].http_address # "junk"
  /\ UNCHANGED upstream

\* The address does not parse or is taken, or a PEM file cannot be used.
BindFails(h) == Advance(h, "bind", "exited") /\ UNCHANGED upstream

\* A shutdown request or a server error.
ServeEnds(h) ==
  /\ \E from \in Serving : Advance(h, from, "exited")
  /\ UNCHANGED upstream

-----------------------------------------------------------------------------
Next ==
  \E h \in Handles :
    \/ \E o \in Options, level \in Levels : Create(h, o, level)
    \/ Start(h) \/ BuildRuntime(h) \/ Validate(h)
    \/ AddProxy(h) \/ AddProxyFails(h) \/ AddCors(h)
    \/ Bind(h) \/ BindFails(h) \/ ServeEnds(h)

Spec == Init /\ [][Next]_vars

-----------------------------------------------------------------------------
(* Properties                                                               *)

\* A browser never gets credentials together with a wildcard: validate only
\* looks at allow_any_origin, the conversion and the CORS layer have to cover
\* explicit wildcards, methods and headers.
NoCredentialsWithWildcard ==
  \A h \in Handles : stage[h] \in Serving /\ given[h].credentials =>
    /\ ~given[h].origins.any /\ "star" \notin given[h].origins.list
    /\ \A r \in {given[h].methods, given[h].headers} : ~ReadsStar(r)

\* Host and operator never get plain HTTP when they named any TLS file: the
\* bind takes HTTPS only with both, so validate must have refused just one.
PlainOnlyWhenUnasked ==
  \A h \in Handles : stage[h] = "http" => ~given[h].http_key /\ ~given[h].http_cert

\* A client certificate is presented only over TLS.
Presents(h) == upstream[h].tls /\ upstream[h].auth

\* A server that serves presents a client certificate upstream exactly if it
\* was given an authority together with any part of one: beside an authority no
\* key or certificate is passed over, because validate refuses half a pair.
\* Without an authority nothing is presented, not even a complete pair
\* (MtlsNeedsCa).
MtlsWithAuthority ==
  \A h \in Handles : stage[h] \in Serving =>
    (Presents(h) <=> /\ given[h].grpc_ca_cert
                     /\ given[h].grpc_proxy_key \/ given[h].grpc_proxy_cert)

\* A server never serves on a list that was empty, or partly illegal, as
\* given: not even a list that an allow_any flag makes irrelevant is illegal.
ListsAreSound ==
  \A h \in Handles : stage[h] \in Serving =>
    \A r \in {given[h].origins, given[h].methods, given[h].headers} :
      "bad" \notin r.list /\ (r.any \/ r.list # {})

\* validate errs when "grpc_ca_cert is missing when gRPC mTLS options are
\* partially set".  A key and a certificate without a CA pass, and the client
\* then dials plain HTTP.
MtlsNeedsCa ==
  \A h \in Handles : stage[h] \in {"proxy", "cors", "bind"} \cup Serving =>
    options[h].grpc_ca_cert \/ ~(options[h].grpc_proxy_key \/ options[h].grpc_proxy_cert)

\* GrpcWebServer::new builds "a configured server instance from validated
\* options".  Some options pass validate and then panic in the CORS layer.
ValidatedNeverPanics == \A h \in Handles : stage[h] # "panicked"
=============================================================================
