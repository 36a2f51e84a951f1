--------------------------- MODULE ExecutableProofs ---------------------------
(***************************************************************************)
(* Proofs about Executable for every set of arguments.  A process's boot   *)
(* is Startup's, so its invariant holds of it; what ProcessInv adds is     *)
(* that main's policy is one the CORS layer takes, and that a process has  *)
(* an exit status exactly when its boot or its server has ended.           *)
(***************************************************************************)
EXTENDS Executable, StartupProofs

\* The stages of a boot.
Starting == {"validate", "proxy", "cors", "bind"}

ProcessInv ==
  /\ ExecTypeOK
  /\ \A h \in Handles :
       /\ given[h] = None <=> stage[h] = "off"
       /\ given[h] # None => options[h] # None /\ ~LayerRefuses(options[h])
       /\ stage[h] \in {"off", "exited"} \cup Starting \cup Serving
       /\ status[h] # "none" <=> stage[h] = "exited"

ExecInv == BootInv /\ ProcessInv

-----------------------------------------------------------------------------
\* main's options are a struct that converts to itself and that the CORS layer
\* takes: the default policy has no list.
LEMMA MainOptions ==
  ASSUME NEW a \in Arguments
  PROVE  /\ Into(a) \in OptionStruct
         /\ Convertible(Into(a))
         /\ Converted(Into(a)) = Into(a)
         /\ ~LayerRefuses(Into(a))
<1>1. a \in ArgumentRecord
  BY ArgumentsAssumption
<1>2. AnyRule \in Rule /\ AnyRule.any = TRUE /\ AnyRule.list = {}
  BY DEF AnyRule, Rule
<1>3. /\ Into(a) \in OptionStruct
      /\ Into(a).http_address # "null" /\ Into(a).grpc_address # "null"
      /\ Into(a).origins = AnyRule /\ Into(a).methods = AnyRule /\ Into(a).headers = AnyRule
      /\ Into(a).credentials = FALSE
  BY <1>1, <1>2 DEF Into, ArgumentRecord, DefaultPolicy, OptionStruct, Address
<1>4. Policy(AnyRule) = AnyRule
  BY DEF Policy, AnyRule
<1>5. Converted(Into(a)) = Into(a)
  BY <1>3, <1>4 DEF Converted, OptionStruct
<1> QED BY <1>2, <1>3, <1>5 DEF Convertible, LayerRefuses

\* Nothing holds before main has run.
LEMMA ExecStart == ASSUME ExecInit PROVE ExecInv
<1>1. BootInv
  BY BootInit DEF ExecInit
<1> QED BY <1>1 DEF ExecInit, Init, ExecInv, ProcessInv, ExecTypeOK, BootInv, Serving, Starting

\* main leaves a process that is about to validate.
LEMMA MainStep ==
  ASSUME ExecInv, NEW h \in Handles, NEW a \in Arguments, NEW level \in Levels, Main(h, a, level)
  PROVE  ExecInv'
<1> DEFINE o == Into(a)
<1>1. /\ o \in OptionStruct /\ o # None
      /\ Convertible(o) /\ Converted(o) = o /\ ~LayerRefuses(o)
  BY MainOptions, NoneAssumption
<1>2. BootInv'
  BY <1>1 DEF Main, ExecInv, BootInv, TypeOK, Stages, Booting, Serving, Ended, Validated,
     Proxied, Layered
<1>3. status[h] = "none"
  BY DEF Main, ExecInv, ProcessInv, ExecTypeOK
<1>4. /\ given' = [given EXCEPT ![h] = o]
      /\ options' = [options EXCEPT ![h] = o]
      /\ stage' = [stage EXCEPT ![h] = "validate"]
      /\ status' = status
  BY DEF Main
<1> HIDE DEF o
<1>5. ProcessInv'
  BY <1>1, <1>2, <1>3, <1>4
     DEF ExecInv, ProcessInv, ExecTypeOK, BootInv, TypeOK, Starting, Serving
<1> QED BY <1>2, <1>5 DEF ExecInv

\* A step of the boot, or of the server's end, is one of Startup's; it gives
\* the process a status exactly if it ends it.
LEMMA BootMoves ==
  ASSUME ExecInv, NEW h \in Handles, Boot(h) \/ ServeReturns(h)
  PROVE  /\ ExecInv'
         /\ given' = given /\ options' = options
         /\ \A g \in Handles \ {h} : stage'[g] = stage[g] /\ status'[g] = status[g]
         /\ stage[h] = "validate" => stage'[h] \in {"proxy", "exited"}
         /\ stage[h] = "proxy" => stage'[h] \in {"cors", "exited"}
         /\ stage[h] = "cors" => stage'[h] = "bind"
         /\ stage[h] = "bind" => stage'[h] \in Serving \cup {"exited"}
         /\ stage[h] \in Serving => stage'[h] = "exited"
         /\ stage[h] \in Starting \cup Serving
         /\ status'[h] = "ok" => stage[h] \in Serving
<1>1. /\ BootInv /\ TypeOK /\ stage \in [Handles -> Stages]
      /\ status \in [Handles -> {"none", "ok", "error"}]
  BY DEF ExecInv, ProcessInv, ExecTypeOK, TypeOK
<1>2. [Next]_vars
  BY DEF Boot, ServeReturns, Next
<1>3. BootInv'
  BY <1>1, <1>2, BootStep
<1>4. /\ given' = given /\ options' = options
      /\ stage[h] = "validate" => stage'[h] \in {"proxy", "exited"}
      /\ stage[h] = "proxy" => stage'[h] \in {"cors", "exited"}
      /\ stage[h] = "cors" => stage'[h] = "bind"
      /\ stage[h] = "bind" => stage'[h] \in Serving \cup {"exited"}
      /\ stage[h] \in Serving => stage'[h] = "exited"
      /\ stage[h] \in Starting \cup Serving
      /\ \A g \in Handles \ {h} : stage'[g] = stage[g]
  <2>1. stage[h] = "cors" => ~LayerRefuses(options[h])
    BY DEF ExecInv, ProcessInv
  <2> QED
    BY <1>1, <2>1 DEF Boot, ServeReturns, Validate, AddProxy, AddProxyFails, AddCors, Bind,
       BindFails, ServeEnds, Advance, Starting, Serving
<1>5. /\ status' \in [Handles -> {"none", "ok", "error"}]
      /\ \A g \in Handles \ {h} : status'[g] = status[g]
      /\ status'[h] # "none" <=> stage'[h] = "exited"
      /\ status'[h] = "ok" => stage[h] \in Serving
  <2>1. status[h] = "none"
    BY <1>4 DEF ExecInv, ProcessInv, Starting, Serving
  <2>2. CASE Boot(h)
    <3>1. stage[h] \in Starting
      BY <2>2, <1>1 DEF Boot, Validate, AddProxy, AddProxyFails, AddCors, Bind, BindFails,
         Advance, Starting
    <3>2. stage'[h] \in Ended <=> stage'[h] = "exited"
      BY <1>4, <3>1 DEF Starting, Serving, Ended
    <3> QED BY <1>1, <2>1, <2>2, <3>2 DEF Boot, Exit
  <2>3. CASE ServeReturns(h)
    BY <1>1, <1>4, <2>3 DEF ServeReturns, ServeEnds, Advance, Exit, Serving
  <2> QED BY <2>2, <2>3
<1>6. ProcessInv'
  BY <1>3, <1>4, <1>5 DEF ExecInv, ProcessInv, ExecTypeOK, BootInv, Starting, Serving
<1> QED BY <1>3, <1>4, <1>5, <1>6 DEF ExecInv

\* Every step of a process keeps the invariant.
LEMMA ExecStep == ASSUME ExecInv, [ExecNext]_evars PROVE ExecInv'
<1>1. CASE UNCHANGED evars
  BY <1>1 DEF evars, vars, ExecInv, BootInv, ProcessInv, ExecTypeOK, TypeOK
<1> QED BY <1>1, MainStep, BootMoves DEF ExecNext

\* What a process's boot has established, and what its status says.
THEOREM ProcessInvariant == ExecSpec => []ExecInv
<1> QED BY ExecStart, ExecStep, PTL DEF ExecSpec

\* Types, for any arguments and any number of processes.
THEOREM ExecutableTyped == ExecSpec => []ExecTypeOK
<1>1. ExecInv => ExecTypeOK
  BY DEF ExecInv, ProcessInv
<1> QED BY <1>1, ProcessInvariant, PTL

\* No arguments make the executable panic: its policy is always the default.
THEOREM DefaultsNeverPanic == ExecSpec => []ValidatedNeverPanics
<1>1. ExecInv => ValidatedNeverPanics
  BY DEF ExecInv, ProcessInv, ValidatedNeverPanics, Starting, Serving
<1> QED BY <1>1, ProcessInvariant, PTL

\* A process never falls back to plain HTTP, nor leaves its client certificate
\* out, any more than a handle does.
THEOREM ProcessesServeAsTold == ExecSpec => [](PlainOnlyWhenUnasked /\ MtlsWithAuthority)
<1>1. ExecInv => PlainOnlyWhenUnasked /\ MtlsWithAuthority
  BY PlainUnasked, AuthorityNeeded DEF ExecInv
<1> QED BY <1>1, ProcessInvariant, PTL

\* A status of success is only ever given by a process that listened.
THEOREM SuccessIsServed == ExecSpec => SuccessMeansItListened
<1>1. ASSUME ExecInv, [ExecNext]_evars
      PROVE  [\A h \in Handles :
                status[h] = "none" /\ status'[h] = "ok" => stage[h] \in Serving]_evars
  <2> SUFFICES ASSUME ExecNext, NEW h \in Handles, status[h] = "none", status'[h] = "ok"
               PROVE  stage[h] \in Serving
    BY <1>1
  <2>1. ASSUME NEW g \in Handles, Boot(g) \/ ServeReturns(g)
        PROVE  stage[h] \in Serving
    BY <1>1, <2>1, BootMoves
  <2>2. ASSUME NEW g \in Handles, NEW a \in Arguments, NEW level \in Levels, Main(g, a, level)
        PROVE  stage[h] \in Serving
    BY <2>2 DEF Main
  <2> QED BY <2>1, <2>2 DEF ExecNext
<1> QED BY <1>1, ProcessInvariant, PTL DEF ExecSpec, SuccessMeansItListened

-----------------------------------------------------------------------------
(* Liveness.  The prover has no rules for ENABLED; GuardedFairness is the    *)
(* fairness of ExecFairSpec with the guards of Boot in its place: at every   *)
(* stage of Starting one of the actions of the boot can be taken.            *)

\* The stages of a process come in one order.
LEMMA StageOrder ==
  ASSUME ExecInv, [ExecNext]_evars, NEW h \in Handles
  PROVE  /\ stage[h] = "validate" => stage'[h] \in {"validate", "proxy", "exited"}
         /\ stage[h] = "proxy" => stage'[h] \in {"proxy", "cors", "exited"}
         /\ stage[h] = "cors" => stage'[h] \in {"cors", "bind"}
         /\ stage[h] = "bind" => stage'[h] \in {"bind", "exited"} \cup Serving
<1>1. CASE UNCHANGED evars
  BY <1>1 DEF evars, vars
<1>2. ASSUME NEW g \in Handles, Boot(g) \/ ServeReturns(g)
      PROVE  stage'[h] = stage[h] \/ g = h
  BY <1>2, BootMoves
<1>3. ASSUME NEW g \in Handles, NEW a \in Arguments, NEW level \in Levels, Main(g, a, level)
      PROVE  stage'[h] = stage[h] \/ stage[h] = "off"
  BY <1>3, NoneAssumption DEF Main, ExecInv, ProcessInv, ExecTypeOK, TypeOK
<1> QED BY <1>1, <1>2, <1>3, BootMoves DEF ExecNext

\* main's future is polled until it listens or returns.
GuardedFairness ==
  \A h \in Handles : <>[](stage[h] \in Starting) => []<><<Boot(h)>>_evars

\* Every process main has started comes to listen or exits with a status.
THEOREM ProcessesListenOrFail == ExecSpec /\ GuardedFairness => ListensOrFails
<1>1. ASSUME NEW h \in Handles
      PROVE  ExecSpec /\ GuardedFairness
               => (options[h] # None ~>
                     \/ stage[h] \in Serving
                     \/ stage[h] = "exited" /\ status[h] # "none")
  <2> DEFINE Started    == options[h] # None
             Validating == stage[h] = "validate"
             Proxying   == stage[h] = "proxy"
             Layering   == stage[h] = "cors"
             Binding    == stage[h] = "bind"
             Over  == \/ stage[h] \in Serving
                      \/ stage[h] = "exited" /\ status[h] # "none"
             Ready == stage[h] \in Starting
             Steps == Boot(h)
             Fair  == <>[]Ready => []<><<Steps>>_evars
  <2>1. ExecInv => (Started => Validating \/ Proxying \/ Layering \/ Binding \/ Over)
    BY NoneAssumption DEF ExecInv, ProcessInv, BootInv, Starting
  <2>2. Validating \/ Proxying \/ Layering \/ Binding => Ready
    BY DEF Starting
  <2>3. ExecInv /\ ExecInv' /\ [ExecNext]_evars =>
          /\ Validating => Validating' \/ Proxying' \/ Over'
          /\ Proxying => Proxying' \/ Layering' \/ Over'
          /\ Layering => Layering' \/ Binding'
          /\ Binding => Binding' \/ Over'
    BY StageOrder DEF ExecInv, ProcessInv
  <2>4. ExecInv /\ Steps =>
          /\ Validating => ~Validating'
          /\ Proxying => ~Proxying'
          /\ Layering => ~Layering'
          /\ Binding => ~Binding'
    BY BootMoves DEF Serving
  <2>5. ExecSpec => []ExecInv
    BY ProcessInvariant
  <2>6. GuardedFairness => Fair
    BY DEF GuardedFairness
  <2> HIDE DEF Started, Validating, Proxying, Layering, Binding, Over, Ready, Steps
  <2>7. ExecSpec /\ Fair => (Binding ~> Over)
    BY <2>2, <2>3, <2>4, <2>5, PTL DEF ExecSpec
  <2>8. ExecSpec /\ Fair => (Layering ~> Binding)
    BY <2>2, <2>3, <2>4, <2>5, PTL DEF ExecSpec
  <2>9. ExecSpec /\ Fair => (Proxying ~> Layering \/ Over)
    BY <2>2, <2>3, <2>4, <2>5, PTL DEF ExecSpec
  <2>10. ExecSpec /\ Fair => (Validating ~> Proxying \/ Over)
    BY <2>2, <2>3, <2>4, <2>5, PTL DEF ExecSpec
  <2>11. ExecSpec /\ GuardedFairness => (Started ~> Over)
    BY <2>1, <2>5, <2>6, <2>7, <2>8, <2>9, <2>10, PTL
  <2> QED BY <2>11 DEF Started, Over
<1> QED BY <1>1 DEF ListensOrFails
=============================================================================
