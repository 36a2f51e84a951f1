---------------------------- MODULE StartupProofs ----------------------------
(***************************************************************************)
(* Proofs about Startup for every set of option structs: what a serving    *)
(* handle guarantees about the options it was created with.  BootInv says  *)
(* what each stage has established; options never change once stored, so a *)
(* fact about them survives every later step.                              *)
(***************************************************************************)
EXTENDS Startup, TLAPS

Validated == {"proxy", "cors", "bind"} \cup Serving
Proxied   == {"cors", "bind"} \cup Serving
Layered   == {"bind"} \cup Serving

BootInv ==
  /\ TypeOK
  /\ \A h \in Handles :
       /\ options[h] # None =>
            /\ given[h] \in OptionStruct
            /\ Convertible(given[h])
            /\ options[h] = Converted(given[h])
       /\ stage[h] # "off" => options[h] # None
       /\ stage[h] \in Validated => Valid(options[h])
       /\ stage[h] \in Proxied =>
            /\ upstream[h].tls = options[h].grpc_ca_cert
            /\ upstream[h].auth = (options[h].grpc_proxy_cert /\ options[h].grpc_proxy_key)
       /\ stage[h] \in Layered => ~LayerRefuses(options[h])
       /\ stage[h] = "panicked" => Valid(options[h]) /\ LayerRefuses(options[h])
       /\ stage[h] = "http" => ~(options[h].http_cert /\ options[h].http_key)

-----------------------------------------------------------------------------
\* The conversion returns an option struct and changes nothing but the lists
\* an allow_any flag discards.
LEMMA ConvertedType ==
  ASSUME NEW o \in OptionStruct
  PROVE  /\ Converted(o) \in OptionStruct
         /\ Converted(o) # None
         /\ Converted(o).grpc_ca_cert = o.grpc_ca_cert
         /\ Converted(o).grpc_proxy_key = o.grpc_proxy_key
         /\ Converted(o).grpc_proxy_cert = o.grpc_proxy_cert
         /\ Converted(o).http_key = o.http_key
         /\ Converted(o).http_cert = o.http_cert
         /\ Converted(o).credentials = o.credentials
         /\ Converted(o).origins = Policy(o.origins)
         /\ Converted(o).methods = Policy(o.methods)
         /\ Converted(o).headers = Policy(o.headers)
<1>1. \A r \in Rule : Policy(r) \in Rule
  BY DEF Policy, Rule
<1>2. Converted(o) \in OptionStruct
  BY <1>1 DEF Converted, OptionStruct
<1> QED BY <1>2, NoneAssumption DEF Converted, OptionStruct

\* A rule keeps its flag, and keeps its list unless the flag is set.
LEMMA PolicyKeeps ==
  ASSUME NEW r \in Rule
  PROVE  /\ Policy(r).any = r.any
         /\ ~r.any => Policy(r).list = r.list
         /\ r.any => Policy(r).list = {}
BY DEF Policy, Rule

-----------------------------------------------------------------------------
\* BootInv holds before create.
LEMMA BootInit == ASSUME Init PROVE BootInv
BY DEF Init, BootInv, TypeOK, Stages, Booting, Validated, Proxied, Layered, Serving

\* Every step of the boot keeps BootInv.
LEMMA BootStep == ASSUME BootInv, [Next]_vars PROVE BootInv'
<1> USE DEF BootInv, TypeOK, Stages, Booting, Serving, Ended, Validated, Proxied, Layered
<1>1. ASSUME NEW h \in Handles, NEW o \in Options, NEW level \in Levels, Create(h, o, level)
      PROVE  BootInv'
  <2>1. o \in OptionStruct
    BY OptionsAssumption
  <2>2. Converted(o) \in OptionStruct /\ Converted(o) # None
    BY <2>1, ConvertedType
  <2>3. options[h] = None /\ stage[h] = "off"
    BY <1>1, NoneAssumption DEF Create
  <2> QED BY <1>1, <2>1, <2>2, <2>3, NoneAssumption DEF Create
<1> USE DEF Advance
<1>2. ASSUME NEW h \in Handles, Start(h) PROVE BootInv'
  BY <1>2 DEF Start
<1>3. ASSUME NEW h \in Handles, BuildRuntime(h) PROVE BootInv'
  BY <1>3 DEF BuildRuntime
<1>4. ASSUME NEW h \in Handles, Validate(h) PROVE BootInv'
  BY <1>4 DEF Validate
<1>5. ASSUME NEW h \in Handles, AddProxy(h) PROVE BootInv'
  <2>1. options[h] \in OptionStruct
    BY <1>5 DEF AddProxy
  <2> QED BY <1>5, <2>1 DEF AddProxy, OptionStruct
<1>6. ASSUME NEW h \in Handles, AddProxyFails(h) PROVE BootInv'
  BY <1>6 DEF AddProxyFails
<1>7. ASSUME NEW h \in Handles, AddCors(h) PROVE BootInv'
  BY <1>7 DEF AddCors
<1>8. ASSUME NEW h \in Handles, Bind(h) PROVE BootInv'
  BY <1>8 DEF Bind
<1>9. ASSUME NEW h \in Handles, BindFails(h) PROVE BootInv'
  BY <1>9 DEF BindFails
<1>10. ASSUME NEW h \in Handles, ServeEnds(h) PROVE BootInv'
  BY <1>10 DEF ServeEnds
<1>11. CASE UNCHANGED vars
  BY <1>11 DEF vars
<1> QED
  BY <1>1, <1>2, <1>3, <1>4, <1>5, <1>6, <1>7, <1>8, <1>9, <1>10, <1>11 DEF Next

\* Every stage of the boot has established what the next ones rely on.
THEOREM BootInvariant == Spec => []BootInv
<1> QED BY BootInit, BootStep, PTL DEF Spec

\* Type correctness.
THEOREM StartupTyped == Spec => []TypeOK
<1>1. BootInv => TypeOK
  BY DEF BootInv
<1> QED BY <1>1, BootInvariant, PTL

-----------------------------------------------------------------------------
\* What a serving handle's options are, in terms of the struct it was given.
LEMMA ServingFacts ==
  ASSUME BootInv, NEW h \in Handles, stage[h] \in Serving
  PROVE  /\ given[h] \in OptionStruct
         /\ Convertible(given[h])
         /\ options[h] = Converted(given[h])
         /\ Valid(options[h])
         /\ ~LayerRefuses(options[h])
         /\ upstream[h].auth = (options[h].grpc_proxy_cert /\ options[h].grpc_proxy_key)
         /\ stage[h] = "http" => ~(options[h].http_cert /\ options[h].http_key)
BY DEF BootInv, Serving, Validated, Proxied, Layered

\* A serving handle that sends credentials names everything it allows.
LEMMA NamedOnly == ASSUME BootInv PROVE NoCredentialsWithWildcard
<1> SUFFICES ASSUME NEW h \in Handles, stage[h] \in Serving, given[h].credentials
             PROVE  /\ ~given[h].origins.any /\ "star" \notin given[h].origins.list
                    /\ \A r \in {given[h].methods, given[h].headers} : ~ReadsStar(r)
  BY DEF NoCredentialsWithWildcard
<1> DEFINE o == given[h]
<1>1. o \in OptionStruct /\ o.origins \in Rule /\ o.methods \in Rule /\ o.headers \in Rule
  BY ServingFacts DEF OptionStruct
<1>2. /\ ~LayerRefuses(Converted(o))
      /\ Converted(o).credentials
      /\ Converted(o).origins = Policy(o.origins)
      /\ Converted(o).methods = Policy(o.methods)
      /\ Converted(o).headers = Policy(o.headers)
  BY <1>1, ServingFacts, ConvertedType
<1>3. \A r \in {Policy(o.origins), Policy(o.methods), Policy(o.headers)} : ~ReadsStar(r)
  BY <1>2 DEF LayerRefuses
<1>4. \A r \in {o.origins, o.methods, o.headers} : ~ReadsStar(r)
  BY <1>1, <1>3, PolicyKeeps DEF ReadsStar
<1>5. "star" \notin o.origins.list
  BY <1>1, <1>2, <1>4, PolicyKeeps DEF LayerRefuses, ReadsStar
<1> QED BY <1>4, <1>5 DEF ReadsStar

\* No options whatsoever make a server send credentials along with a wildcard.
THEOREM CredentialsAreNamed == Spec => []NoCredentialsWithWildcard
<1> QED BY NamedOnly, BootInvariant, PTL

\* A plain HTTP listener was asked for.
LEMMA PlainUnasked == ASSUME BootInv PROVE PlainOnlyWhenUnasked
<1> SUFFICES ASSUME NEW h \in Handles, stage[h] = "http"
             PROVE  ~given[h].http_key /\ ~given[h].http_cert
  BY DEF PlainOnlyWhenUnasked
<1>1. stage[h] \in Serving
  BY DEF Serving
<1>2. given[h] \in OptionStruct
  BY <1>1, ServingFacts
<1> QED BY <1>1, <1>2, ServingFacts, ConvertedType DEF Valid

\* No options that name a TLS file ever lead to a plain HTTP listener.
THEOREM NoSilentPlaintext == Spec => []PlainOnlyWhenUnasked
<1> QED BY PlainUnasked, BootInvariant, PTL

\* What a serving handle presents follows from the paths it was given: it
\* dials TLS with an authority, and holds a certificate with a complete pair.
LEMMA AuthorityNeeded == ASSUME BootInv PROVE MtlsWithAuthority
<1> SUFFICES ASSUME NEW h \in Handles, stage[h] \in Serving
             PROVE  Presents(h) <=> /\ given[h].grpc_ca_cert
                                    /\ given[h].grpc_proxy_key \/ given[h].grpc_proxy_cert
  BY DEF MtlsWithAuthority
<1>1. given[h] \in OptionStruct /\ Valid(options[h])
  BY ServingFacts
<1>2. given[h].grpc_proxy_key \in BOOLEAN /\ given[h].grpc_proxy_cert \in BOOLEAN
  BY <1>1 DEF OptionStruct
<1>3. given[h].grpc_proxy_key = given[h].grpc_proxy_cert
  BY <1>1, ServingFacts, ConvertedType DEF Valid
<1>4. upstream[h].tls = given[h].grpc_ca_cert
  BY <1>1, ServingFacts, ConvertedType DEF BootInv, Proxied
<1>5. upstream[h].auth = (given[h].grpc_proxy_cert /\ given[h].grpc_proxy_key)
  BY <1>1, ServingFacts, ConvertedType
<1> QED BY <1>2, <1>3, <1>4, <1>5 DEF Presents

\* A client certificate is presented upstream exactly if there is an authority
\* and any part of one: with an authority half a pair is not passed over,
\* without one a whole pair is.
THEOREM AuthorityMakesItMtls == Spec => []MtlsWithAuthority
<1> QED BY AuthorityNeeded, BootInvariant, PTL

\* The lists behind a serving policy are legal, and never empty by accident.
THEOREM ListsStaySound == Spec => []ListsAreSound
<1>1. BootInv => ListsAreSound
  <2> SUFFICES ASSUME BootInv, NEW h \in Handles, stage[h] \in Serving,
                      NEW r \in {given[h].origins, given[h].methods, given[h].headers}
               PROVE  "bad" \notin r.list /\ (r.any \/ r.list # {})
    BY DEF ListsAreSound
  <2>1. given[h] \in OptionStruct /\ r \in Rule
    BY ServingFacts DEF OptionStruct
  <2>2. Policy(r).any \/ Policy(r).list # {}
    BY <2>1, ServingFacts, ConvertedType DEF Valid
  <2> QED BY <2>1, <2>2, ServingFacts, PolicyKeeps DEF Convertible
<1> QED BY <1>1, BootInvariant, PTL

-----------------------------------------------------------------------------
(* What contract_panic's disagreement amounts to                            *)

\* Option structs, as given, that validate lets through and the CORS layer
\* does not: a wildcard spelt out as an origin, or credentials along with
\* methods or headers that read "*".
Unlayerable(o) ==
  \/ ~o.origins.any /\ "star" \in o.origins.list
  \/ o.credentials /\ \E r \in {o.methods, o.headers} : ReadsStar(r)

\* A start panics for those options, and only those keep a handle that has
\* passed validate and its proxy from getting to the bind.
PanicsAreForeseeable ==
  \A h \in Handles :
    /\ stage[h] = "panicked" => Unlayerable(given[h])
    /\ stage[h] \in Layered => ~Unlayerable(given[h])

\* The layer refuses what a valid struct was converted to exactly if the struct
\* is one of those.
LEMMA RefusedStructs ==
  ASSUME NEW o \in OptionStruct, Valid(Converted(o))
  PROVE  LayerRefuses(Converted(o)) <=> Unlayerable(o)
<1>1. o.origins \in Rule /\ o.methods \in Rule /\ o.headers \in Rule
  BY DEF OptionStruct
<1>2. /\ Converted(o).credentials = o.credentials
      /\ Converted(o).origins = Policy(o.origins)
      /\ Converted(o).methods = Policy(o.methods)
      /\ Converted(o).headers = Policy(o.headers)
  BY ConvertedType
<1>3. \A r \in Rule : ReadsStar(Policy(r)) <=> ReadsStar(r)
  BY PolicyKeeps DEF ReadsStar
<1>4. ~(o.origins.any /\ o.credentials)
  BY <1>1, <1>2, PolicyKeeps DEF Valid
<1>5. ReadsStar(o.origins) /\ o.credentials => ~o.origins.any /\ "star" \in o.origins.list
  BY <1>4 DEF ReadsStar
<1>6. Policy(o.origins).any = o.origins.any
  BY <1>1, PolicyKeeps
<1>7. ~o.origins.any => Policy(o.origins).list = o.origins.list
  BY <1>1, PolicyKeeps
<1>8. LayerRefuses(Converted(o)) <=>
        \/ ~o.origins.any /\ "star" \in o.origins.list
        \/ o.credentials /\ \E r \in {o.origins, o.methods, o.headers} : ReadsStar(r)
  BY <1>1, <1>2, <1>3, <1>6, <1>7 DEF LayerRefuses
<1> QED BY <1>5, <1>8 DEF Unlayerable

\* Which options make a start panic.
THEOREM OnlyWildcardsPanic == Spec => []PanicsAreForeseeable
<1>1. BootInv => PanicsAreForeseeable
  <2> SUFFICES ASSUME BootInv, NEW h \in Handles, stage[h] = "panicked" \/ stage[h] \in Layered
               PROVE  stage[h] = "panicked" <=> Unlayerable(given[h])
    BY DEF PanicsAreForeseeable, Layered, Serving
  <2>1. /\ given[h] \in OptionStruct
        /\ options[h] = Converted(given[h])
        /\ Valid(options[h])
        /\ stage[h] = "panicked" <=> LayerRefuses(options[h])
    BY DEF BootInv, Validated, Layered, Serving
  <2> QED BY <2>1, RefusedStructs
<1> QED BY <1>1, BootInvariant, PTL

\* What contract_mtls's disagreement amounts to: a handle that serves dials its
\* upstream over TLS exactly if it was given an authority, so a client
\* certificate without one is loaded and never shown.
UpstreamTlsNeedsAnAuthority ==
  \A h \in Handles : stage[h] \in Serving => upstream[h].tls = given[h].grpc_ca_cert

\* TLS upstream is a matter of the authority alone.
THEOREM UpstreamTlsIsTheAuthoritys == Spec => []UpstreamTlsNeedsAnAuthority
<1>1. BootInv => UpstreamTlsNeedsAnAuthority
  <2> SUFFICES ASSUME BootInv, NEW h \in Handles, stage[h] \in Serving
               PROVE  upstream[h].tls = given[h].grpc_ca_cert
    BY DEF UpstreamTlsNeedsAnAuthority
  <2>1. /\ given[h] \in OptionStruct
        /\ options[h] = Converted(given[h])
        /\ upstream[h].tls = options[h].grpc_ca_cert
    BY ServingFacts DEF BootInv, Proxied
  <2> QED BY <2>1, ConvertedType
<1> QED BY <1>1, BootInvariant, PTL
=============================================================================
