-------------------------- MODULE SerialHostProofs --------------------------
(***************************************************************************)
(* Proofs about a handle whose host follows OneDriver: it runs one server  *)
(* at a time, ends it only on request, keeps its flag up while it serves,  *)
(* blocks in wait, and so implements Lifecycle -- for any set of host      *)
(* threads and any number of starts.                                       *)
(***************************************************************************)
EXTENDS ServerHandleProofs, WaitHistory

\* What the host rule gives in every state: a caller inside wait is alone
\* among starts and waits.
RuleInv ==
  \A c, d \in Callers :
    c # d /\ pc[c] \in WaitPcs => pc[d] \notin WaitPcs \cup StartPcs

\* Hence nobody refills the thread field between a waiter's two sections.
EmptyInv ==
  \A c \in Callers :
    pc[c] \in {"wait_join", "wait_clear", "drop_join", "drop_clear"} => thread = None

\* A start about to spawn has the flag up.
MarkInv == \A c \in Callers : pc[c] = "start_spawn" => running

SerialInv ==
  /\ HandleInv
  /\ RuleInv
  /\ EmptyInv
  /\ MarkInv
  /\ ShutdownOnlyOnRequest
  /\ ServingIsFlagged

-----------------------------------------------------------------------------
(* One server at a time                                                     *)

\* Any live server is the one the thread field or the only joiner holds.
LEMMA OneServer == ASSUME SerialInv PROVE OneServerAtATime
<1> SUFFICES ASSUME NEW s \in Servers, NEW t \in Servers, Live(s), Live(t), s # t
             PROVE  FALSE
  BY DEF OneServerAtATime
<1> USE HandleAssumption DEF SerialInv, HandleInv
<1>1. thread = s \/ \E c \in Callers : own[c] = s
  BY DEF NoDetachedThread
<1>2. thread = t \/ \E c \in Callers : own[c] = t
  BY DEF NoDetachedThread
<1>3. \A c \in Callers : own[c] # None => thread = None
  BY DEF OwnInv, EmptyInv
<1>4. \A c, d \in Callers : own[c] # None /\ own[d] # None => c = d
  BY DEF OwnInv, RuleInv, DropInv, WaitPcs, DropPcs
<1> QED BY <1>1, <1>2, <1>3, <1>4

\* Nobody lives when the thread field is empty and no caller is joining.
LEMMA NobodyLives ==
  ASSUME SerialInv, thread = None,
         \A c \in Callers : pc[c] \notin {"wait_join", "drop_join"}
  PROVE  \A s \in Servers : ~Live(s)
BY HandleAssumption DEF SerialInv, HandleInv, NoDetachedThread, OwnInv

-----------------------------------------------------------------------------
(* The inductive invariant                                                  *)

\* SerialInv holds of a new handle.
LEMMA SerialInit == ASSUME Init PROVE SerialInv
<1>1. HandleInv
  BY HandleInit
<1> QED BY <1>1, HandleAssumption DEF Init, SerialInv, RuleInv, EmptyInv,
     MarkInv, ShutdownOnlyOnRequest, ServingIsFlagged, WaitPcs, StartPcs, Live, Alive

\* Every step of a host that keeps the rule keeps SerialInv.
LEMMA SerialStep == ASSUME SerialInv, [SerialNext]_vars PROVE SerialInv'
<1>t. HandleInv /\ HandleInv' /\ TypeOK /\ TypeOK'
  BY HandleStep DEF SerialInv, HandleInv, SerialNext
<1>a. OneServerAtATime
  BY OneServer
<1>b. thread = None /\ (\A c \in Callers : pc[c] \notin {"wait_join", "drop_join"})
        => \A s \in Servers : ~Live(s)
  BY NobodyLives
<1> USE <1>t, <1>a, <1>b, HandleAssumption DEF SerialInv, RuleInv, EmptyInv,
        MarkInv, ShutdownOnlyOnRequest, ServingIsFlagged, OneServerAtATime, TypeOK, state,
        Pcs, StartPcs, WaitPcs, DropPcs, Alive, Finished, Live, LockInv, OwnInv, DropInv,
        PoisonInv, HandleInv,
        ThreadFinished, Goto, Return, CanLock, TakeSender, Unborn, OneDriver
<1>1. ASSUME NEW c \in Callers, CallerStep(c) PROVE SerialInv'
  <2>1. CASE LockPoisoned(c)
    BY <2>1 DEF LockPoisoned
  <2>2. CASE StartLock(c)
    <3>1. ThreadFinished => \A s \in Servers : ~Live(s)  \* a joiner would have emptied the field
      BY DEF NoDetachedThread
    <3>2. CASE ThreadFinished
      BY <2>2, <3>1, <3>2 DEF StartLock
    <3>3. CASE ~ThreadFinished
      BY <2>2, <3>3 DEF StartLock
    <3> QED BY <3>2, <3>3
  <2>3. CASE StartRefused(c)
    BY <2>3 DEF StartRefused
  <2>4. CASE StartMark(c)
    BY <2>4 DEF StartMark
  <2>5. CASE StartSpawn(c)
    <3>1. \A s \in Servers : ~Live(s)
      BY <2>5 DEF StartSpawn
    <3>2. \A s \in Servers : Live(s)' => signal'[s] = "open"  \* it was unborn
      BY <2>5, <3>1 DEF StartSpawn, UnbornInv, Unborn
    <3> QED BY <2>5, <3>1, <3>2 DEF StartSpawn
  <2>6. CASE StartSpawnPanics(c)
    BY <2>6 DEF StartSpawnPanics
  <2>7. CASE WaitTake(c)
    BY <2>7 DEF WaitTake
  <2>8. CASE WaitJoin(c)
    BY <2>8 DEF WaitJoin
  <2>9. CASE WaitClear(c)
    BY <2>9 DEF WaitClear
  <2>10. CASE Stop(c)
    BY <2>10 DEF Stop
  <2>11. CASE DropTake(c)
    BY <2>11 DEF DropTake
  <2>12. CASE DropPoisoned(c)
    BY <2>12 DEF DropPoisoned
  <2>13. CASE DropJoin(c)
    BY <2>13 DEF DropJoin
  <2>14. CASE DropClear(c)
    BY <2>14 DEF DropClear
  <2> QED
    BY <1>1, <2>1, <2>2, <2>3, <2>4, <2>5, <2>6, <2>7,
       <2>8, <2>9, <2>10, <2>11, <2>12, <2>13, <2>14 DEF CallerStep
<1>2. ASSUME NEW c \in Callers, HostStep(c), OneDriver PROVE SerialInv'
  <2>1. CASE CallStart(c)
    BY <1>2, <2>1 DEF CallStart, Call
  <2>2. CASE Call(c, "wait_take")
    BY <1>2, <2>2 DEF Call
  <2>3. CASE Call(c, "stop_lock")
    BY <1>2, <2>3 DEF Call
  <2>4. CASE IsRunning(c)
    BY <1>2, <2>4 DEF IsRunning
  <2>5. CASE Destroy(c)
    BY <1>2, <2>5 DEF Destroy
  <2> QED
    BY <1>2, <2>1, <2>2, <2>3, <2>4, <2>5 DEF HostStep
<1>3. ASSUME NEW s \in Servers, ServerStep(s) PROVE SerialInv'
  <2> USE DEF Advance
  <2>1. CASE BootOk(s)
    BY <2>1 DEF BootOk
  <2>2. CASE BootFails(s)
    BY <2>2 DEF BootFails
  <2>3. CASE BootPanics(s)
    BY <2>3 DEF BootPanics
  <2>4. CASE ServeEnds(s)
    BY <2>4 DEF ServeEnds
  <2>5. CASE ServeShutdown(s)
    BY <2>5 DEF ServeShutdown
  <2>6. CASE ClearFlag(s)
    BY <2>6 DEF ClearFlag
  <2>7. CASE Exit(s)
    BY <2>7 DEF Exit
  <2> QED
    BY <1>3, <2>1, <2>2, <2>3, <2>4, <2>5, <2>6, <2>7 DEF ServerStep
<1>4. CASE UNCHANGED vars
  BY <1>4 DEF vars
<1> QED BY <1>1, <1>2, <1>3, <1>4 DEF SerialNext, Next, Terminated

\* A host that follows the rule keeps the handle in states where every server
\* is accounted for, alone, and told to stop by a message only.
THEOREM SerialInvariant == SerialSpec => []SerialInv
<1> QED BY SerialInit, SerialStep, PTL DEF SerialSpec

\* One server at a time: the AlreadyRunning check of start suffices as long
\* as no wait has emptied the field it looks at.
THEOREM OneServerOnly == SerialSpec => []OneServerAtATime
<1>1. SerialInv => OneServerAtATime
  BY OneServer
<1> QED BY <1>1, SerialInvariant, PTL

\* Neither the clean-up of start nor the last section of wait ever drops the
\* sender of a server that still lives.
THEOREM OnlyOnRequest == SerialSpec => []ShutdownOnlyOnRequest
<1>1. SerialInv => ShutdownOnlyOnRequest
  BY DEF SerialInv
<1> QED BY <1>1, SerialInvariant, PTL

\* Every store of FALSE to the flag -- by start, by a late wait, by a server
\* thread that winds up -- comes when no other server boots or serves.
THEOREM FlagTellsTheTruth == SerialSpec => []ServingIsFlagged
<1>1. SerialInv => ServingIsFlagged
  BY DEF SerialInv
<1> QED BY <1>1, SerialInvariant, PTL

-----------------------------------------------------------------------------
(* stop and wait                                                            *)

\* While a caller joins nobody starts, so nobody poisons the mutex.
SoundInv == \A c \in Callers : pc[c] = "wait_join" => ~poisoned

\* Only a spawn that panics poisons the mutex, and the rule keeps it away from
\* whoever joins.
LEMMA SoundStep == ASSUME SerialInv, SoundInv, [SerialNext]_vars PROVE SoundInv'
<1> SUFFICES ASSUME NEW c \in Callers, pc'[c] = "wait_join" PROVE ~poisoned'
  BY DEF SoundInv
<1>t. TypeOK
  BY DEF SerialInv, HandleInv
<1> USE <1>t DEF TypeOK, SoundInv, state, Goto, Return, CanLock
<1>1. ASSUME NEW d \in Callers, HostStep(d) PROVE ~poisoned'
  BY <1>1 DEF HostStep, CallStart, Call, IsRunning, Destroy
<1>2. ASSUME NEW d \in Callers, CallerStep(d) PROVE ~poisoned'
  <2>1. CASE StartSpawnPanics(d)
    BY <2>1 DEF StartSpawnPanics, SerialInv, RuleInv, WaitPcs, StartPcs
  <2>2. CASE ~StartSpawnPanics(d)
    BY <1>2, <2>2 DEF CallerStep, LockPoisoned, StartLock, StartRefused, StartMark, StartSpawn,
       WaitTake, WaitJoin, WaitClear, Stop, DropTake, DropPoisoned, DropJoin, DropClear
  <2> QED BY <2>1, <2>2
<1>3. ASSUME NEW s \in Servers, ServerStep(s) PROVE ~poisoned'
  BY <1>3 DEF ServerStep, BootOk, BootFails, BootPanics, ServeEnds, ServeShutdown, ClearFlag,
     Exit, Advance
<1>4. CASE UNCHANGED vars
  BY <1>4 DEF vars
<1> QED BY <1>1, <1>2, <1>3, <1>4 DEF SerialNext, Next, Terminated

\* A caller of stop that finds another one joining has the mutex for itself;
\* its step resolves the future of the server the other one joins.
LEMMA StopSteps ==
  ASSUME SerialInv, SoundInv, [SerialNext]_vars, NEW c \in Callers, NEW d \in Callers,
         pc[c] = "wait_join", pc[d] = "stop_lock"
  PROVE  /\ CallerReady(d)
         /\ \/ pc'[c] # "wait_join"
            \/ pc'[c] = "wait_join" /\ pc'[d] = "stop_lock"
            \/ (pc[c] = "wait_join" /\ (signal[own[c]] # "open" \/ ~Live(own[c])))'
         /\ CallerStep(d) => pc'[d] # "stop_lock"
<1>t. TypeOK /\ HandleInv
  BY DEF SerialInv, HandleInv
<1> USE <1>t, HandleAssumption DEF TypeOK, state, Goto, Return, CanLock
<1>1. c # d /\ ~poisoned
  BY DEF SoundInv
<1>2. lock = None
  BY DEF SerialInv, HandleInv, LockInv, RuleInv, WaitPcs, StartPcs
<1>3. own[c] \in Servers
  BY DEF HandleInv, OwnInv
<1>4. ASSUME CallerStep(d)
      PROVE  /\ pc'[d] # "stop_lock" /\ pc'[c] = pc[c] /\ own' = own /\ phase' = phase
             /\ signal'[own[c]] # "open" \/ ~Live(own[c])
  <2>1. Stop(d)
    BY <1>1, <1>4 DEF CallerStep, LockPoisoned, StartLock, StartRefused, StartMark, StartSpawn,
       StartSpawnPanics, WaitTake, WaitJoin, WaitClear, DropTake, DropPoisoned, DropJoin,
       DropClear
  <2>2. Live(own[c]) /\ signal[own[c]] = "open" => stop_tx = own[c]
    BY <1>3 DEF HandleInv, Stoppable
  <2> QED BY <1>1, <1>3, <2>1, <2>2 DEF Stop, TakeSender
<1>5. ASSUME NEW e \in Callers, e # d, HostStep(e) \/ CallerStep(e)
      PROVE  pc'[d] = pc[d]
  BY <1>5 DEF HostStep, CallerStep, CallStart, Call, IsRunning, Destroy, LockPoisoned, StartLock,
     StartRefused, StartMark, StartSpawn, StartSpawnPanics, WaitTake, WaitJoin, WaitClear, Stop,
     DropTake, DropPoisoned, DropJoin, DropClear
<1>6. ~HostStep(d)
  BY DEF HostStep, CallStart, Call, IsRunning, Destroy
<1>7. ASSUME NEW s \in Servers, ServerStep(s) PROVE pc'[d] = pc[d]
  BY <1>7 DEF ServerStep, BootOk, BootFails, BootPanics, ServeEnds, ServeShutdown, ClearFlag,
     Exit, Advance
<1>8. pc'[d] = "stop_lock" \/ CallerStep(d)
  BY <1>5, <1>6, <1>7 DEF SerialNext, Next, Terminated, vars
<1>9. CallerReady(d)
  BY <1>2 DEF CallerReady
<1> QED BY <1>4, <1>8, <1>9 DEF Live

\* A stop ends the wait of another thread: it gets the mutex because the wait
\* has given it up, its message reaches the server the wait joins, and that
\* server's end ends the join.
THEOREM StopsEndWaits == SerialSpec /\ GuardedFairness => StopEndsWait
<1>1. SerialSpec => Spec
  <2>1. [SerialNext]_vars => [Next]_vars
    BY DEF SerialNext
  <2> QED BY <2>1, PTL DEF SerialSpec, Spec
<1>2. SerialSpec => [](SerialInv /\ SoundInv)
  <2>1. Init => SoundInv
    BY DEF Init, SoundInv
  <2> QED BY <2>1, SerialInvariant, SoundStep, PTL DEF SerialSpec
<1>3. ASSUME NEW c \in Callers, NEW l \in Joining, l = "wait_join"
      PROVE  Spec /\ GuardedFairness
               => (pc[c] = "wait_join" /\ (signal[own[c]] # "open" \/ ~Live(own[c]))
                     ~> pc[c] # "wait_join")
  <2> DEFINE Told  == pc[c] = "wait_join" /\ (signal[own[c]] # "open" \/ ~Live(own[c]))
             Joins == pc[c] = l /\ (signal[own[c]] # "open" \/ ~Live(own[c]))
             Past  == pc[c] = Joined(l)
             Left  == pc[c] # "wait_join"
             Fair  == Spec /\ GuardedFairness
  <2>1. Fair => (Joins ~> Past)
    BY JoinReturns
  <2>2. Told => Joins
    BY <1>3
  <2>3. Past => Left
    BY <1>3 DEF Joined
  <2> HIDE DEF Told, Joins, Past, Left, Fair
  <2>4. Fair => (Told ~> Left)
    BY <2>1, <2>2, <2>3, PTL
  <2> QED BY <2>4 DEF Told, Left, Fair
<1>4. ASSUME NEW c \in Callers, NEW d \in Callers
      PROVE  SerialSpec /\ GuardedFairness
               => (pc[c] = "wait_join" /\ pc[d] = "stop_lock" ~> pc[c] # "wait_join")
  <2> DEFINE Both  == pc[c] = "wait_join" /\ pc[d] = "stop_lock"
             Told  == pc[c] = "wait_join" /\ (signal[own[c]] # "open" \/ ~Live(own[c]))
             Left  == pc[c] # "wait_join"
             Ready == CallerReady(d)
             Steps == CallerStep(d)
             Fair  == <>[]Ready => []<><<Steps>>_vars
             Inv   == SerialInv /\ SoundInv
  <2>1. Inv /\ [SerialNext]_vars => (Both => Ready /\ (Both' \/ Told' \/ Left'))
    BY StopSteps
  <2>2. Inv /\ [SerialNext]_vars /\ Steps => (Both => ~Both')
    BY StopSteps
  <2>3. GuardedFairness => CallerFair(d)
    BY DEF GuardedFairness
  <2>4. CallerFair(d) => Fair
    BY DEF CallerFair
  <2>5. "wait_join" \in Joining
    BY DEF Joining
  <2>6. Spec /\ GuardedFairness => (Told ~> Left)
    BY <1>3, <2>5
  <2>7. SerialSpec => []Inv
    BY <1>2
  <2> HIDE DEF Both, Told, Left, Ready, Steps, Inv
  <2>8. SerialSpec /\ Fair => (Both ~> Told \/ Left)
    BY <2>1, <2>2, <2>7, PTL DEF SerialSpec
  <2>9. SerialSpec /\ GuardedFairness => (Both ~> Left)
    BY <1>1, <2>3, <2>4, <2>6, <2>8, PTL
  <2> QED BY <2>9 DEF Both, Left
<1> QED BY <1>4 DEF StopEndsWait

-----------------------------------------------------------------------------
(* wait blocks                                                              *)

\* A caller in the last section of wait is alone and the field is empty.
LEMMA LastSection ==
  ASSUME SerialInv, NEW c \in Callers, pc[c] = "wait_clear"
  PROVE  \A s \in Servers : ~Live(s)
<1>1. thread = None
  BY DEF SerialInv, EmptyInv
<1>2. \A d \in Callers : pc[d] \notin {"wait_join", "drop_join"}
  BY DEF SerialInv, HandleInv, RuleInv, DropInv, WaitPcs, DropPcs
<1> QED BY <1>1, <1>2, NobodyLives

\* wait returns true only when every server that lived at its call is gone.
THEOREM WaitDoesBlock == HSerialSpec => WaitBlocks
<1> DEFINE MetInv == met \in [Callers -> SUBSET Servers]
           Blocks == \A c \in Callers :
                       pc[c] = "wait_clear" /\ pc'[c] = "idle" /\ ret'[c] = "true"
                         => \A s \in met[c] : ~Live(s)
<1>1. HInit => SerialInv /\ MetInv
  BY SerialInit DEF HInit
<1>2. SerialInv /\ MetInv /\ [SerialNext /\ Remember]_hvars => (SerialInv /\ MetInv)'
  <2> SUFFICES ASSUME SerialInv, MetInv, [SerialNext /\ Remember]_hvars
               PROVE  (SerialInv /\ MetInv)'
    OBVIOUS
  <2>1. SerialInv'
    BY SerialStep DEF hvars
  <2>2. MetInv'
    BY DEF hvars, Remember, LiveServers
  <2> QED BY <2>1, <2>2
<1>3. SerialInv /\ MetInv => [Blocks]_hvars
  <2> SUFFICES ASSUME SerialInv, MetInv, NEW c \in Callers, pc[c] = "wait_clear"
               PROVE  \A s \in met[c] : ~Live(s)
    OBVIOUS
  <2> QED BY LastSection
<1> QED BY <1>1, <1>2, <1>3, PTL DEF HSerialSpec, WaitBlocks

-----------------------------------------------------------------------------
(* The refinement of Lifecycle                                              *)


\* A new handle is a new handle of Lifecycle.
LEMMA RefineInit == ASSUME Init PROVE LC!LInit
BY HandleAssumption DEF Init, LC!LInit, LiveServers, Live, Alive, Finished

\* A step that starts or ends no server, signals none that lives and leaves
\* the allocation alone is invisible to Lifecycle.
LEMMA RefineStutter ==
  ASSUME TypeOK, TypeOK',
         \A s \in Servers : Live(s)' = Live(s),
         \A s \in Servers : (phase[s] \in Finished)' = (phase[s] \in Finished),
         \A s \in Servers : Live(s) => signal'[s] = signal[s],
         (handle' = "freed") = (handle = "freed")
  PROVE  UNCHANGED LC!lvars
BY DEF LC!lvars, LiveServers

\* Every step of a handle under the rule is a step of Lifecycle or none: a
\* spawn launches, stop and destroy ask the server whose sender is kept, the
\* end of a server thread ends it, and destroy releases the handle.
LEMMA RefineStep ==
  ASSUME SerialInv, SerialInv', [SerialNext]_vars
  PROVE  [LC!LNext]_LC!lvars
<1>t. TypeOK /\ TypeOK' /\ HandleInv
  BY DEF SerialInv, HandleInv
<1>a. thread = None /\ (\A c \in Callers : pc[c] \notin {"wait_join", "drop_join"})
        => \A s \in Servers : ~Live(s)
  BY NobodyLives
<1> USE <1>t, <1>a, HandleAssumption DEF TypeOK, state, Goto, Return, CanLock, TakeSender,
        Live, Alive, Finished, Phases
<1> DEFINE Quiet == /\ \A s \in Servers : Live(s)' = Live(s)
                    /\ \A s \in Servers : (phase[s] \in Finished)' = (phase[s] \in Finished)
                    /\ \A s \in Servers : Live(s) => signal'[s] = signal[s]
                    /\ (handle' = "freed") = (handle = "freed")
<1>q. Quiet => UNCHANGED LC!lvars
  BY RefineStutter
<1>1. ASSUME NEW c \in Callers, CallerStep(c) PROVE [LC!LNext]_LC!lvars
  <2>1. CASE LockPoisoned(c)
    BY <2>1, <1>q DEF LockPoisoned
  <2>2. CASE StartLock(c)
    <3>1. \A s \in Servers : Live(s)' => signal'[s] # "dropped"
      BY DEF SerialInv, ShutdownOnlyOnRequest
    <3> QED BY <2>2, <3>1, <1>q DEF StartLock, SerialInv, ShutdownOnlyOnRequest
  <2>3. CASE StartRefused(c)
    BY <2>3, <1>q DEF StartRefused
  <2>4. CASE StartMark(c)
    BY <2>4, <1>q DEF StartMark
  <2>5. CASE StartSpawn(c)
    <3>1. thread = None /\ \A d \in Callers : pc[d] \notin {"wait_join", "drop_join"}
      BY <2>5 DEF StartSpawn, SerialInv, HandleInv, RuleInv, DropInv, LockInv,
                  StartPcs, WaitPcs, DropPcs
    <3>2. LiveServers = {} /\ handle = "live"
      BY <2>5, <3>1 DEF StartSpawn, LiveServers, HandleInv, LockInv, DropInv, StartPcs, DropPcs
    <3>3. PICK s \in Unborn : phase' = [phase EXCEPT ![s] = "booting"] /\ thread' = s
      BY <2>5 DEF StartSpawn
    <3>4. signal'[s] = "open"
      BY <2>5, <3>3 DEF StartSpawn, Unborn, SerialInv, HandleInv, UnbornInv
    <3>5. LC!Launch(s)
      BY <2>5, <3>2, <3>3, <3>4 DEF StartSpawn, LC!Launch, LiveServers, Unborn
    <3> QED BY <3>5 DEF LC!LNext, Unborn
  <2>6. CASE StartSpawnPanics(c)
    BY <2>6, <1>q DEF StartSpawnPanics
  <2>7. CASE WaitTake(c)
    <3>1. \A s \in Servers : Live(s)' => signal'[s] # "dropped"
      BY DEF SerialInv, ShutdownOnlyOnRequest
    <3> QED BY <2>7, <3>1, <1>q DEF WaitTake
  <2>8. CASE WaitJoin(c)
    BY <2>8, <1>q DEF WaitJoin
  <2>9. CASE WaitClear(c)
    <3>1. \A s \in Servers : Live(s)' => signal'[s] # "dropped"
      BY DEF SerialInv, ShutdownOnlyOnRequest
    <3> QED BY <2>9, <3>1, <1>q DEF WaitClear
  <2>10. CASE Stop(c)
    <3>1. CASE \E s \in Servers : stop_tx = s /\ Live(s)
      <4>1. PICK s \in Servers : stop_tx = s /\ Live(s)
        BY <3>1
      <4>2. LC!Ask(s)
        BY <2>10, <4>1 DEF Stop, LC!Ask, LiveServers
      <4> QED BY <4>2 DEF LC!LNext
    <3>2. CASE \A s \in Servers : stop_tx = s => ~Live(s)
      BY <2>10, <3>2, <1>q DEF Stop
    <3> QED BY <3>1, <3>2
  <2>11. CASE DropTake(c)
    <3>1. CASE \E s \in Servers : stop_tx = s /\ Live(s)
      <4>1. PICK s \in Servers : stop_tx = s /\ Live(s)
        BY <3>1
      <4>2. LC!Ask(s)
        BY <2>11, <4>1 DEF DropTake, LC!Ask, LiveServers
      <4> QED BY <4>2 DEF LC!LNext
    <3>2. CASE \A s \in Servers : stop_tx = s => ~Live(s)
      BY <2>11, <3>2, <1>q DEF DropTake
    <3> QED BY <3>1, <3>2
  <2>12. CASE DropPoisoned(c)
    <3>1. thread = None /\ \A d \in Callers : pc[d] \notin {"wait_join", "drop_join"}
      BY <2>12 DEF DropPoisoned, SerialInv, EmptyInv, HandleInv, DropInv, PoisonInv, DropPcs
    <3>2. LiveServers = {}
      BY <3>1 DEF LiveServers
    <3>3. LC!Release
      BY <2>12, <3>2 DEF DropPoisoned, LC!Release, LiveServers
    <3> QED BY <3>3 DEF LC!LNext
  <2>13. CASE DropJoin(c)
    BY <2>13, <1>q DEF DropJoin
  <2>14. CASE DropClear(c)
    <3>1. thread = None /\ \A d \in Callers : pc[d] \notin {"wait_join", "drop_join"}
      BY <2>14 DEF DropClear, SerialInv, EmptyInv, HandleInv, DropInv, PoisonInv, DropPcs
    <3>2. LiveServers = {}
      BY <3>1 DEF LiveServers
    <3>3. LC!Release
      BY <2>14, <3>2 DEF DropClear, LC!Release, LiveServers
    <3> QED BY <3>3 DEF LC!LNext
  <2> QED
    BY <1>1, <2>1, <2>2, <2>3, <2>4, <2>5, <2>6, <2>7,
       <2>8, <2>9, <2>10, <2>11, <2>12, <2>13, <2>14 DEF CallerStep
<1>2. ASSUME NEW c \in Callers, HostStep(c) PROVE [LC!LNext]_LC!lvars
  <2> QED BY <1>2, <1>q DEF HostStep, CallStart, Call, IsRunning, Destroy
<1>3. ASSUME NEW s \in Servers, ServerStep(s) PROVE [LC!LNext]_LC!lvars
  <2> USE DEF Advance
  <2>1. CASE BootOk(s)
    BY <2>1, <1>q DEF BootOk
  <2>2. CASE BootFails(s)
    BY <2>2, <1>q DEF BootFails
  <2>3. CASE BootPanics(s)
    <3>1. LC!End(s)
      BY <2>3 DEF BootPanics, LC!End, LiveServers
    <3> QED BY <3>1 DEF LC!LNext
  <2>4. CASE ServeEnds(s)
    BY <2>4, <1>q DEF ServeEnds
  <2>5. CASE ServeShutdown(s)
    BY <2>5, <1>q DEF ServeShutdown
  <2>6. CASE ClearFlag(s)
    BY <2>6, <1>q DEF ClearFlag
  <2>7. CASE Exit(s)
    <3>1. LC!End(s)
      BY <2>7 DEF Exit, LC!End, LiveServers
    <3> QED BY <3>1 DEF LC!LNext
  <2> QED
    BY <1>3, <2>1, <2>2, <2>3, <2>4, <2>5, <2>6, <2>7 DEF ServerStep
<1>4. CASE UNCHANGED vars
  BY <1>4, <1>q DEF vars
<1> QED BY <1>1, <1>2, <1>3, <1>4 DEF SerialNext, Next, Terminated

\* Under the host rule the handle implements Lifecycle.
THEOREM HandleRefinesLifecycle == SerialSpec => ImplementsLifecycle
<1>1. SerialInv /\ SerialInv' /\ [SerialNext]_vars => [LC!LNext]_LC!lvars
  BY RefineStep
<1>2. Init => LC!LInit
  BY RefineInit
<1> QED BY <1>1, <1>2, SerialInvariant, PTL DEF SerialSpec, ImplementsLifecycle, LC!LSpec
=============================================================================
