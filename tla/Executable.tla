----------------------------- MODULE Executable -----------------------------
(***************************************************************************)
(* The executable (bin/grpc-web-server.rs): a process per handle of        *)
(* Startup.  It has no create and no handle: main sets up tracing, turns   *)
(* its arguments into options with the default CORS policy, and runs the   *)
(* server in a runtime that exists already, under a shutdown future that   *)
(* never resolves.  What ends the server ends the process.                 *)
(***************************************************************************)
EXTENDS Startup

CONSTANT Arguments   \* what clap may have parsed

ArgumentRecord ==
  [http_address : Address \ {"null"}, grpc_address : Address \ {"null"},
   grpc_ca_cert : BOOLEAN, grpc_proxy_key : BOOLEAN, grpc_proxy_cert : BOOLEAN,
   http_key : BOOLEAN, http_cert : BOOLEAN]

ASSUME ArgumentsAssumption == Arguments \subseteq ArgumentRecord

VARIABLE status   \* the exit status of each process, "none" while it runs

evars == <<vars, status>>

ExecTypeOK == TypeOK /\ status \in [Handles -> {"none", "ok", "error"}]

ExecInit == Init /\ status = [h \in Handles |-> "none"]

-----------------------------------------------------------------------------
AnyRule == [any |-> TRUE, list |-> {}]

\* Mutant: any origin, spelt as a list.
DefaultPolicyListed ==
  [origins |-> [any |-> FALSE, list |-> {"star"}], methods |-> AnyRule, headers |-> AnyRule,
   credentials |-> FALSE]

\* CorsPolicy::default
DefaultPolicy ==
  [origins |-> AnyRule, methods |-> AnyRule, headers |-> AnyRule, credentials |-> FALSE]

\* Args into GrpcWebServerOptions
Into(a) ==
  [x \in DOMAIN a \cup DOMAIN DefaultPolicy |->
     IF x \in DOMAIN a THEN a[x] ELSE DefaultPolicy[x]]

Main(h, a, level) ==
  /\ given[h] = None
  /\ given' = [given EXCEPT ![h] = Into(a)]
  /\ options' = [options EXCEPT ![h] = Into(a)]
  /\ tracing' = level
  /\ stage' = [stage EXCEPT ![h] = "validate"]
  /\ UNCHANGED <<upstream, status>>

Exit(h, code) == status' = [status EXCEPT ![h] = code]

\* Mutant: the error of a failed start is logged and forgotten.
BootForgiving(h) ==
  /\ \/ Validate(h) \/ AddProxy(h) \/ AddProxyFails(h) \/ AddCors(h)
     \/ Bind(h) \/ BindFails(h)
  /\ IF stage'[h] \in Ended THEN Exit(h, "ok") ELSE UNCHANGED status

\* new or start up to the select!; an error of either is the process's.
Boot(h) ==
  /\ \/ Validate(h) \/ AddProxy(h) \/ AddProxyFails(h) \/ AddCors(h)
     \/ Bind(h) \/ BindFails(h)
  /\ IF stage'[h] \in Ended THEN Exit(h, "error") ELSE UNCHANGED status

\* No request can end the serve future: it returns by itself, Ok or Err.
ServeReturns(h) ==
  /\ ServeEnds(h)
  /\ \E code \in {"ok", "error"} : Exit(h, code)

ExecNext ==
  \E h \in Handles :
    \/ \E a \in Arguments, level \in Levels : Main(h, a, level)
    \/ Boot(h) \/ ServeReturns(h)

ExecSpec == ExecInit /\ [][ExecNext]_evars

\* The runtime polls main's future: a boot goes on until it listens or fails.
ExecFairSpec == ExecSpec /\ \A h \in Handles : WF_evars(Boot(h))

-----------------------------------------------------------------------------
(* Properties                                                               *)

\* A supervisor that restarts the process on failure is never told "success"
\* by one that did not come to listen.
SuccessMeansItListened ==
  [][\A h \in Handles : status[h] = "none" /\ status'[h] = "ok" => stage[h] \in Serving]_evars

\* Every process that main has started comes to listen or exits with an error
\* status: no choice of arguments leaves it hanging or makes it panic.
ListensOrFails ==
  \A h \in Handles :
    options[h] # None ~>
      \/ stage[h] \in Serving
      \/ stage[h] = "exited" /\ status[h] # "none"
=============================================================================
