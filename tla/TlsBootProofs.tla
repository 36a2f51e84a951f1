---------------------------- MODULE TlsBootProofs ----------------------------
(***************************************************************************)
(* Proofs about servers that boot on the files of gen-certs, for any       *)
(* number of servers, option structs and runs of the tool.                 *)
(*                                                                         *)
(* Sound(h) is what is known of one server: while it boots undisturbed,    *)
(* what it has read is what is in the directory (Quiet); what it has read  *)
(* undisturbed is in the order of the tool's writes, and of one generation *)
(* if the last run was complete (Ordered); and each stage has read and     *)
(* matched what it needs (Equipped).                                       *)
(***************************************************************************)
EXTENDS TlsBoot, StartupProofs, GenCertsProofs

InBoot == Booting \cup {"bind"}

Quiet(h) ==
  stage[h] \in InBoot /\ ~raced[h] =>
    /\ \A k \in Places : got[h][k] # 0 => got[h][k] = file[k]
    /\ fresh[h] => torn = {} /\ \A j, k \in Places : file[j] = file[k] /\ file[k] # 0

Ordered(h) ==
  stage[h] \in InBoot \cup Serving /\ ~raced[h] =>
    \A j, k \in Places : got[h][j] # 0 /\ got[h][k] # 0 =>
      /\ j < k => got[h][k] <= got[h][j]
      /\ fresh[h] => got[h][j] = got[h][k]

Has(h, files) == \A k \in files : got[h][k] # 0

Equipped(h) ==
  /\ stage[h] \in {"cors", "bind"} \cup Serving =>
       /\ Has(h, ProxyFiles(options[h]))
       /\ ClientAuth(options[h]) => Matches(h, Proxy)
  /\ stage[h] \in Serving =>
       /\ Has(h, ServerFiles(options[h]))
       /\ Https(options[h]) => Matches(h, Web)

Sound(h) == Quiet(h) /\ Ordered(h) /\ Equipped(h)

BootTypeOK ==
  /\ got \in [Handles -> [Places -> 0..MaxRun]]
  /\ fresh \in [Handles -> BOOLEAN]
  /\ raced \in [Handles -> BOOLEAN]

TlsInv ==
  /\ BootInv
  /\ ToolInv
  /\ BootTypeOK
  /\ \A h \in Handles : Sound(h)

-----------------------------------------------------------------------------
(* Both halves of the composition behave as they do alone.                   *)

\* A step of the composition is a step of the boot or leaves it alone.
LEMMA StartupSide ==
  ASSUME [TlsNext]_tlsvars PROVE [Next]_vars
<1> USE DEF vars
<1>1. CASE ToolStep
  BY <1>1 DEF ToolStep
<1>2. ASSUME NEW h \in Handles, ServerStep(h) PROVE [Next]_vars
  BY <1>2 DEF ServerStep, StartBoot, ReadFile, ProxyBuilt, ProxyRefused, Bound, BindRefused,
              OtherBootStep, Next
<1>3. CASE UNCHANGED tlsvars
  BY <1>3 DEF tlsvars
<1> QED BY <1>1, <1>2, <1>3 DEF TlsNext

\* Likewise for the tool.
LEMMA ToolSide ==
  ASSUME [TlsNext]_tlsvars PROVE [ToolNext]_toolvars
<1> USE DEF toolvars
<1>1. CASE ToolStep
  BY <1>1 DEF ToolStep
<1>2. ASSUME NEW h \in Handles, ServerStep(h) PROVE UNCHANGED toolvars
  BY <1>2 DEF ServerStep, StartBoot, ReadFile, ProxyBuilt, ProxyRefused, Bound, BindRefused,
              OtherBootStep
<1>3. CASE UNCHANGED tlsvars
  BY <1>3 DEF tlsvars
<1> QED BY <1>1, <1>2, <1>3 DEF TlsNext

\* A server that reads its files one by one is a server of Startup: all that
\* is proved there holds of it.
THEOREM TlsBootIsAStartup == TlsSpec => Spec
<1>1. TlsInit => Init
  BY DEF TlsInit
<1>2. [TlsNext]_tlsvars => [Next]_vars
  BY StartupSide
<1> QED BY <1>1, <1>2, PTL DEF TlsSpec, Spec

\* Servers that read the directory do not disturb gen-certs.
THEOREM TlsBootIsAToolRun == TlsSpec => ToolSpec
<1>1. TlsInit => ToolInit
  BY DEF TlsInit
<1>2. [TlsNext]_tlsvars => [ToolNext]_toolvars
  BY ToolSide
<1> QED BY <1>1, <1>2, PTL DEF TlsSpec, ToolSpec

-----------------------------------------------------------------------------
(* The invariant                                                            *)

\* TlsInv holds before the first run and the first create.
LEMMA TlsInvInit == ASSUME TlsInit PROVE TlsInv
<1>1. BootInv /\ ToolInv
  BY BootInit, ToolInvInit DEF TlsInit
<1>2. BootTypeOK
  BY RunFacts DEF TlsInit, BootTypeOK
<1>3. \A h \in Handles : stage[h] = "off"
  BY DEF TlsInit, Init
<1>4. \A h \in Handles : Sound(h)
  BY <1>3 DEF Sound, Quiet, Ordered, Equipped, InBoot, Booting, Serving
<1> QED BY <1>1, <1>2, <1>4 DEF TlsInv

\* What a step leaves alone stays sound.
LEMMA SoundKept ==
  ASSUME NEW h \in Handles, Sound(h), UNCHANGED <<file, torn>>,
         stage'[h] = stage[h], options'[h] = options[h] \/ stage[h] = "off",
         got'[h] = got[h], fresh'[h] = fresh[h], raced'[h] = raced[h]
  PROVE  Sound(h)'
BY DEF Sound, Quiet, Ordered, Equipped, Has, Matches, InBoot, Booting, Serving

\* The boot moves on, or ends, without reading.
LEMMA SoundMoves ==
  ASSUME NEW h \in Handles, Sound(h), UNCHANGED <<file, torn, options, got, fresh, raced>>,
         \/ stage'[h] \in Ended
         \/ stage[h] \in InBoot /\ stage'[h] \in {"validate", "proxy"}
         \/ stage[h] = "cors" /\ stage'[h] = "bind"
  PROVE  Sound(h)'
BY DEF Sound, Quiet, Ordered, Equipped, Has, Matches, InBoot, Booting, Serving, Ended

\* No step breaks the types of what boots have read.
LEMMA BootTypeStep ==
  ASSUME TlsInv, [TlsNext]_tlsvars PROVE BootTypeOK'
<1> USE DEF BootTypeOK
<1>0. BootTypeOK /\ file \in [Places -> 0..MaxRun] /\ complete \in BOOLEAN
  BY DEF TlsInv, ToolInv, ToolTypeOK
<1>1. CASE ToolStep
  BY <1>0, <1>1 DEF ToolStep
<1>2. ASSUME NEW h \in Handles, StartBoot(h) PROVE BootTypeOK'
  <2>1. [k \in Places |-> 0] \in [Places -> 0..MaxRun]
    BY RunFacts
  <2> QED BY <1>0, <1>2, <2>1 DEF StartBoot
<1>3. ASSUME NEW h \in Handles, ReadFile(h) PROVE BootTypeOK'
  BY <1>0, <1>3 DEF ReadFile
<1>4. ASSUME NEW h \in Handles,
             \/ ProxyBuilt(h) \/ ProxyRefused(h) \/ Bound(h) \/ BindRefused(h)
             \/ OtherBootStep(h)
      PROVE BootTypeOK'
  BY <1>0, <1>4 DEF ProxyBuilt, ProxyRefused, Bound, BindRefused, OtherBootStep, bootvars
<1>5. CASE UNCHANGED tlsvars
  BY <1>0, <1>5 DEF tlsvars, bootvars
<1> QED BY <1>1, <1>2, <1>3, <1>4, <1>5 DEF TlsNext, ServerStep

\* A start forgets what an earlier boot has read.
LEMMA SoundStart ==
  ASSUME TlsInv, NEW h \in Handles, StartBoot(h) PROVE Sound(h)'
<1>1. /\ stage'[h] = "runtime" /\ raced'[h] = FALSE /\ fresh'[h] = complete
      /\ got'[h] = [k \in Places |-> 0] /\ UNCHANGED <<file, torn>>
  BY DEF StartBoot, Start, Advance, TlsInv, BootTypeOK, BootInv, TypeOK, toolvars
<1>2. complete => torn = {} /\ \A j, k \in Places : file[j] = file[k] /\ file[k] # 0
  BY DEF TlsInv, ToolInv, SuccessMeansOneGeneration
<1> QED BY <1>1, <1>2 DEF Sound, Quiet, Ordered, Equipped, InBoot, Booting, Serving

\* A file that was just read undisturbed is what the directory holds.
LEMMA SoundRead ==
  ASSUME TlsInv, NEW h \in Handles, ReadFile(h) PROVE Sound(h)'
<1>1. PICK k \in Places :
        /\ NextFile(h, k) /\ Usable(k)
        /\ got' = [got EXCEPT ![h][k] = file[k]]
  BY DEF ReadFile
<1>2. /\ UNCHANGED <<stage, options, fresh, raced, file, torn>>
      /\ stage[h] \in {"proxy", "bind"}
      /\ got[h][k] = 0 /\ file[k] # 0
  BY <1>1 DEF ReadFile, vars, toolvars, NextFile, Wanted, Usable
<1>3. got \in [Handles -> [Places -> 0..MaxRun]]
  BY DEF TlsInv, BootTypeOK
<1>4. got'[h][k] = file[k] /\ \A j \in Places \ {k} : got'[h][j] = got[h][j]
  BY <1>1, <1>3
<1>5. Quiet(h) /\ Equipped(h)
  BY DEF TlsInv, Sound
<1>6. Quiet(h)'
  BY <1>2, <1>4, <1>5 DEF Quiet
<1>7. Ordered(h)'
  <2>1. stage[h] \in InBoot
    BY <1>2 DEF InBoot, Booting
  <2> SUFFICES ASSUME ~raced[h], NEW i \in Places, NEW j \in Places,
                      got'[h][i] # 0, got'[h][j] # 0
               PROVE  /\ i < j => got'[h][j] <= got'[h][i]
                      /\ fresh[h] => got'[h][i] = got'[h][j]
    BY <1>2 DEF Ordered
  <2>2. got'[h][i] = file[i] /\ got'[h][j] = file[j]
    BY <1>2, <1>6, <2>1 DEF Quiet
  <2>3. i < j => file[j] <= file[i]
    BY DEF TlsInv, ToolInv, NothingOutrunsTheAuthority
  <2>4. fresh[h] => file[i] = file[j]
    BY <1>5, <2>1 DEF Quiet
  <2> QED BY <2>2, <2>3, <2>4
<1>8. Equipped(h)'
  <2>1. \A j \in Places : got[h][j] # 0 => got'[h][j] = got[h][j]
    BY <1>2, <1>4
  <2>2. ClientAuth(options[h]) => {CertOf(Proxy), KeyOf(Proxy)} \subseteq ProxyFiles(options[h])
    BY DEF ProxyFiles
  <2>3. ProxyFiles(options[h]) \subseteq Places
    BY PairFacts, PlaceFacts DEF ProxyFiles, Proxy, Ca
  <2>4. stage[h] = "bind" => Has(h, ProxyFiles(options[h]))
                             /\ (ClientAuth(options[h]) => Matches(h, Proxy))
    BY <1>5 DEF Equipped
  <2>5. stage[h] \notin Serving
    BY <1>2 DEF Serving
  <2> QED BY <1>2, <2>1, <2>2, <2>3, <2>4, <2>5 DEF Equipped, Has, Matches
<1> QED BY <1>6, <1>7, <1>8 DEF Sound

\* A stage that goes on has read and matched what it needs.
LEMMA SoundBuilt ==
  ASSUME TlsInv, NEW h \in Handles, ProxyBuilt(h) \/ Bound(h) PROVE Sound(h)'
<1>1. UNCHANGED <<file, torn, options, got, fresh, raced>> /\ Wanted(h) = {}
  BY DEF ProxyBuilt, Bound, AddProxy, Bind, Advance, toolvars, bootvars
<1>2. stage \in [Handles -> Stages]
  BY DEF TlsInv, BootInv, TypeOK
<1>3. Quiet(h) /\ Ordered(h) /\ Equipped(h)
  BY DEF TlsInv, Sound
<1>4. CASE ProxyBuilt(h)
  <2>1. stage[h] = "proxy" /\ stage'[h] = "cors" /\ (ClientAuth(options[h]) => Matches(h, Proxy))
    BY <1>2, <1>4 DEF ProxyBuilt, AddProxy, Advance
  <2>2. Has(h, ProxyFiles(options[h]))
    BY <1>1, <2>1 DEF Wanted, Has
  <2> QED BY <1>1, <1>3, <2>1, <2>2
          DEF Sound, Quiet, Ordered, Equipped, Has, Matches, InBoot, Booting, Serving
<1>5. CASE Bound(h)
  <2>1. stage[h] = "bind" /\ stage'[h] \in Serving /\ (Https(options[h]) => Matches(h, Web))
    BY <1>2, <1>5 DEF Bound, Bind, Advance, Serving
  <2>2. Has(h, ServerFiles(options[h]))
    BY <1>1, <2>1 DEF Wanted, Has
  <2> QED BY <1>1, <1>3, <2>1, <2>2
          DEF Sound, Quiet, Ordered, Equipped, Has, Matches, InBoot, Booting, Serving
<1> QED BY <1>4, <1>5

\* Every step keeps what is known of each server.
LEMMA SoundStep ==
  ASSUME TlsInv, [TlsNext]_tlsvars, NEW h \in Handles PROVE Sound(h)'
<1>0. Sound(h) /\ stage \in [Handles -> Stages] /\ BootTypeOK /\ TypeOK
  BY DEF TlsInv, BootInv, TypeOK
<1>1. CASE ToolStep
  <2>1. /\ UNCHANGED <<stage, options, got, fresh>>
        /\ raced'[h] = (raced[h] \/ (stage[h] \in InBoot /\ <<file, torn>>' # <<file, torn>>))
    BY <1>1 DEF ToolStep, vars, InBoot
  <2>2. CASE UNCHANGED <<file, torn>>
    <3>1. raced'[h] = raced[h]
      BY <1>0, <2>1, <2>2 DEF BootTypeOK
    <3> QED BY <1>0, <2>1, <2>2, <3>1, SoundKept
  <2>3. CASE ~UNCHANGED <<file, torn>> /\ stage[h] \in InBoot
    <3>1. raced'[h]
      BY <2>1, <2>3
    <3> QED BY <1>0, <2>1, <3>1 DEF Sound, Quiet, Ordered, Equipped, Has, Matches
  <2>4. CASE stage[h] \notin InBoot
    <3>1. raced'[h] = raced[h]
      BY <1>0, <2>1, <2>4 DEF BootTypeOK
    <3> QED BY <1>0, <2>1, <2>4, <3>1 DEF Sound, Quiet, Ordered, Equipped, Has, Matches
  <2> QED BY <2>2, <2>3, <2>4
<1>2. ASSUME NEW i \in Handles \ {h}, ServerStep(i) PROVE Sound(h)'
  <2>1. UNCHANGED <<file, torn>>
    BY <1>2, ToolSide DEF ServerStep, StartBoot, ReadFile, ProxyBuilt, ProxyRefused, Bound,
              BindRefused, OtherBootStep, toolvars
  <2>2. got'[h] = got[h] /\ fresh'[h] = fresh[h] /\ raced'[h] = raced[h]
    BY <1>0, <1>2 DEF ServerStep, StartBoot, ReadFile, ProxyBuilt, ProxyRefused, Bound,
              BindRefused, OtherBootStep, bootvars, BootTypeOK
  <2>3. stage'[h] = stage[h] /\ options'[h] = options[h]
    BY <1>0, <1>2 DEF ServerStep, StartBoot, ReadFile, ProxyBuilt, ProxyRefused, Bound,
              BindRefused, OtherBootStep, Create, Start, BuildRuntime, Validate, AddProxy,
              AddProxyFails, AddCors, Bind, BindFails, ServeEnds, Advance, vars, TypeOK
  <2> QED BY <1>0, <2>1, <2>2, <2>3, SoundKept
<1>3. ASSUME ProxyRefused(h) \/ BindRefused(h) PROVE Sound(h)'
  <2>1. UNCHANGED <<file, torn, options, got, fresh, raced>> /\ stage'[h] \in Ended
    BY <1>0, <1>3 DEF ProxyRefused, BindRefused, AddProxyFails, BindFails, Advance, toolvars,
                      bootvars, Ended
  <2> QED BY <1>0, <2>1, SoundMoves
<1>4. ASSUME OtherBootStep(h) PROVE Sound(h)'
  <2>1. UNCHANGED <<file, torn, got, fresh, raced>>
    BY <1>4 DEF OtherBootStep, toolvars, bootvars
  <2>2. ASSUME NEW o \in Options, NEW level \in Levels, Create(h, o, level) PROVE Sound(h)'
    <3>1. stage[h] = "off"
      BY <2>2, NoneAssumption DEF Create, TlsInv, BootInv
    <3>2. stage'[h] = stage[h]
      BY <2>2 DEF Create
    <3> QED BY <1>0, <2>1, <3>1, <3>2, SoundKept
  <2>3. ASSUME BuildRuntime(h) \/ Validate(h) \/ AddCors(h) \/ ServeEnds(h) PROVE Sound(h)'
    <3>1. options' = options
      BY <2>3 DEF BuildRuntime, Validate, AddCors, ServeEnds, Advance
    <3>2. \/ stage'[h] \in Ended
          \/ stage[h] \in InBoot /\ stage'[h] \in {"validate", "proxy"}
          \/ stage[h] = "cors" /\ stage'[h] = "bind"
      BY <1>0, <2>3 DEF BuildRuntime, Validate, AddCors, ServeEnds, Advance, InBoot, Booting,
                        Ended
    <3> QED BY <1>0, <2>1, <3>1, <3>2, SoundMoves
  <2> QED BY <1>4, <2>2, <2>3 DEF OtherBootStep
<1>5. CASE UNCHANGED tlsvars
  BY <1>0, <1>5, SoundKept DEF tlsvars, vars, toolvars, bootvars
<1>6. CASE ServerStep(h)
  BY <1>3, <1>4, <1>6, SoundStart, SoundRead, SoundBuilt DEF ServerStep
<1> QED BY <1>1, <1>2, <1>5, <1>6 DEF TlsNext

\* TlsInv holds in every reachable state.
THEOREM TlsInvariant == TlsSpec => []TlsInv
<1>1. TlsInit => TlsInv
  BY TlsInvInit
<1>2. TlsInv /\ [TlsNext]_tlsvars => TlsInv'
  <2> SUFFICES ASSUME TlsInv, [TlsNext]_tlsvars PROVE TlsInv'
    OBVIOUS
  <2>1. BootInv'
    BY StartupSide, BootStep DEF TlsInv
  <2>2. ToolInv'
    BY ToolSide, ToolInvStep DEF TlsInv
  <2> QED BY <2>1, <2>2, BootTypeStep, SoundStep DEF TlsInv
<1> QED BY <1>1, <1>2, PTL DEF TlsSpec

-----------------------------------------------------------------------------
(* What follows for a server that listens                                   *)

\* What a serving server needed, it has read.
LEMMA ServingHasAll ==
  ASSUME TlsInv, NEW h \in Handles, stage[h] \in Serving
  PROVE  Has(h, Files(options[h])) /\ Files(options[h]) \subseteq Places
<1>1. Has(h, ProxyFiles(options[h])) /\ Has(h, ServerFiles(options[h]))
  BY DEF TlsInv, Sound, Equipped
<1>2. Ca \in Pairs /\ Proxy \in Pairs /\ Web \in Pairs
  BY PlaceFacts DEF Ca, Proxy, Web
<1> QED BY <1>1, <1>2, PairFacts, PlaceFacts DEF Files, ProxyFiles, ServerFiles, Has

\* Type correctness.
THEOREM TlsTyped == TlsSpec => []TlsTypeOK
<1>1. TlsInv => TlsTypeOK
  BY DEF TlsInv, BootInv, ToolInv, BootTypeOK, TlsTypeOK
<1> QED BY <1>1, TlsInvariant, PTL

\* A quiet boot after a complete run of gen-certs serves one generation.
THEOREM QuietBootsAreConsistent == TlsSpec => []QuietBootIsOneGeneration
<1>1. TlsInv => QuietBootIsOneGeneration
  <2> SUFFICES ASSUME TlsInv, NEW h \in Handles,
                      stage[h] \in Serving, fresh[h], ~raced[h],
                      NEW j \in Files(options[h]), NEW k \in Files(options[h])
               PROVE  got[h][j] = got[h][k]
    BY DEF QuietBootIsOneGeneration
  <2> QED BY ServingHasAll DEF Has, TlsInv, Sound, Ordered
<1> QED BY <1>1, TlsInvariant, PTL

\* Only a race lets a server trust an authority older than its own leaves.
THEOREM StaleAuthorityIsARace == TlsSpec => []StaleAuthorityNeedsARace
<1>1. TlsInv => StaleAuthorityNeedsARace
  <2> SUFFICES ASSUME TlsInv, NEW h \in Handles, stage[h] \in Serving, ~raced[h],
                      NEW j \in Files(options[h]), NEW k \in Files(options[h]), j < k
               PROVE  got[h][k] <= got[h][j]
    BY DEF StaleAuthorityNeedsARace
  <2> QED BY ServingHasAll DEF Has, TlsInv, Sound, Ordered
<1> QED BY <1>1, TlsInvariant, PTL

\* No race ever makes a server serve a certificate with another run's key.
THEOREM PairsAreServedWhole == TlsSpec => []ServedPairsMatch
<1>1. TlsInv => ServedPairsMatch
  <2> SUFFICES ASSUME TlsInv, NEW h \in Handles, stage[h] \in Serving,
                      NEW n \in {Proxy, Web}, CertOf(n) \in Files(options[h])
               PROVE  Matches(h, n) /\ got[h][KeyOf(n)] # 0
    BY DEF ServedPairsMatch, Matches
  <2>1. CertOf(Ca) = 1 /\ CertOf(Proxy) = 5 /\ KeyOf(Proxy) = 6 /\ CertOf(Web) = 7 /\ KeyOf(Web) = 8
    BY DEF CertOf, KeyOf, Ca, Proxy, Web
  <2>2. /\ Has(h, ProxyFiles(options[h])) /\ Has(h, ServerFiles(options[h]))
        /\ ClientAuth(options[h]) => Matches(h, Proxy)
        /\ Https(options[h]) => Matches(h, Web)
    BY DEF TlsInv, Sound, Equipped, Serving
  <2>3. CASE n = Proxy
    <3>1. ClientAuth(options[h])
      BY <2>1, <2>3 DEF Files, ProxyFiles, ServerFiles
    <3>2. got[h][KeyOf(Proxy)] # 0
      BY <2>2, <3>1 DEF Has, ProxyFiles
    <3> QED BY <2>2, <2>3, <3>1, <3>2
  <2>4. CASE n = Web
    <3>1. Https(options[h])
      BY <2>1, <2>4 DEF Files, ProxyFiles, ServerFiles
    <3>2. got[h][KeyOf(Web)] # 0
      BY <2>2, <3>1 DEF Has, ServerFiles
    <3> QED BY <2>2, <2>4, <3>1, <3>2
  <2> QED BY <2>3, <2>4
<1> QED BY <1>1, TlsInvariant, PTL

\* On a complete and quiet directory no boot fails for its files.
THEOREM QuietBootsFindTheirFiles == TlsSpec => QuietBootFindsItsFiles
<1> DEFINE Found(h) ==
      stage[h] \in {"proxy", "bind"} /\ stage'[h] = "exited" /\ fresh[h] /\ ~raced[h] =>
        \/ ~Addressed(h)
        \/ stage[h] = "bind" /\ Wanted(h) = {} /\ (Https(options[h]) => Matches(h, Web))
<1>1. ASSUME TlsInv, [TlsNext]_tlsvars, NEW h \in Handles,
             stage[h] \in {"proxy", "bind"}, stage'[h] = "exited", fresh[h], ~raced[h],
             Addressed(h)
      PROVE  stage[h] = "bind" /\ Wanted(h) = {} /\ (Https(options[h]) => Matches(h, Web))
  <2>1. /\ \A k \in Places : got[h][k] # 0 => got[h][k] = file[k]
        /\ torn = {} /\ \A j, k \in Places : file[j] = file[k] /\ file[k] # 0
    BY <1>1 DEF TlsInv, Sound, Quiet, InBoot, Booting
  <2>2. ~Unreadable(h)
    BY <2>1 DEF Unreadable, Usable
  <2>3. ASSUME NEW n \in {Proxy, Web}, got[h][CertOf(n)] # 0, got[h][KeyOf(n)] # 0
        PROVE  Matches(h, n)
    <3>1. n \in Pairs
      BY PlaceFacts DEF Proxy, Web
    <3>2. CertOf(n) \in Places /\ KeyOf(n) \in Places
      BY <3>1, PlaceFacts, PairFacts
    <3> QED BY <2>1, <2>3, <3>2 DEF Matches
  <2>4. ProxyRefused(h) \/ BindRefused(h)
    <3>1. TypeOK /\ stage'[h] # stage[h]
      BY <1>1 DEF TlsInv, BootInv
    <3>2. \E i \in Handles : ServerStep(i)
      BY <1>1, <3>1 DEF TlsNext, ToolStep, tlsvars, vars
    <3>3. PICK i \in Handles : ServerStep(i)
      BY <3>2
    <3>4. i = h
      BY <3>1, <3>3 DEF ServerStep, StartBoot, ReadFile, ProxyBuilt, ProxyRefused, Bound,
            BindRefused, OtherBootStep, Create, Start, BuildRuntime, Validate, AddProxy,
            AddProxyFails, AddCors, Bind, BindFails, ServeEnds, Advance, vars, TypeOK
    <3> QED BY <1>1, <3>1, <3>3, <3>4
          DEF ServerStep, StartBoot, ReadFile, ProxyBuilt, Bound, OtherBootStep, Create, Start,
              BuildRuntime, Validate, AddProxy, AddCors, Bind, ServeEnds, Advance, vars,
              TypeOK, Serving
  <2>5. ~ProxyRefused(h)
    <3> SUFFICES ASSUME ProxyRefused(h) PROVE FALSE
      OBVIOUS
    <3>1. stage[h] = "proxy" /\ Wanted(h) = {} /\ ClientAuth(options[h]) /\ ~Matches(h, Proxy)
      BY <1>1, <2>2 DEF ProxyRefused, AddProxyFails, Advance
    <3>2. got[h][CertOf(Proxy)] # 0 /\ got[h][KeyOf(Proxy)] # 0
      BY <3>1 DEF Wanted, ProxyFiles
    <3> QED BY <2>3, <3>1, <3>2
  <2>6. stage[h] = "bind" /\ Wanted(h) = {}
    BY <1>1, <2>2, <2>4, <2>5 DEF BindRefused, BindFails, Advance
  <2>7. Https(options[h]) => got[h][CertOf(Web)] # 0 /\ got[h][KeyOf(Web)] # 0
    BY <2>6 DEF Wanted, ServerFiles
  <2> QED BY <2>3, <2>6, <2>7
<1>2. TlsInv /\ [TlsNext]_tlsvars => [\A h \in Handles : Found(h)]_tlsvars
  BY <1>1
<1> QED BY <1>2, TlsInvariant, PTL DEF TlsSpec, QuietBootFindsItsFiles
=============================================================================
