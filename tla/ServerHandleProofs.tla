------------------------- MODULE ServerHandleProofs -------------------------
(***************************************************************************)
(* Proofs about ServerHandle, for any set of host threads and any number   *)
(* of server threads.  HandleInv is the inductive invariant: who holds the *)
(* mutex, who holds a join handle, what a poisoned mutex leaves behind and *)
(* what destroy may assume.                                                *)
(***************************************************************************)
EXTENDS ServerHandle, TLAPS

\* The mutex is held exactly by a start between its check and its spawn, and
\* one about to spawn has seen an empty thread field.
LockInv ==
  \A c \in Callers :
    /\ lock = c <=> pc[c] \in {"start_check", "start_spawn"}
    /\ pc[c] = "start_spawn" => thread = None

\* A poisoned mutex guards an empty thread field and is held by no one: only
\* a failed spawn poisons it.
PoisonInv == poisoned => thread = None /\ lock = None

\* A caller holds a join handle exactly while it joins.
OwnInv ==
  \A c \in Callers : own[c] # None <=> pc[c] \in {"wait_join", "drop_join"}

\* Inside destroy someone is, and everyone else is idle; after its first
\* section the fields of the handle stay empty, also once it is freed.
DropInv ==
  /\ \A c \in Callers :
       /\ pc[c] \in DropPcs =>
            /\ handle = "dropping"
            /\ \A d \in Callers \ {c} : pc[d] = "idle"
       /\ pc[c] \in {"drop_join", "drop_clear"} => thread = None /\ stop_tx = None
       /\ handle = "dropping" => pc[c] \in DropPcs \cup {"idle"}
       /\ handle = "freed" => pc[c] = "idle"
  /\ handle = "dropping" => \E c \in Callers : pc[c] \in DropPcs
  /\ handle = "freed" => thread = None

\* Nobody holds anything of a server that was never spawned.
UnbornInv ==
  \A s \in Servers : phase[s] = "unborn" =>
    /\ signal[s] = "open"
    /\ thread # s /\ stop_tx # s
    /\ \A c \in Callers : own[c] # s

HandleInv ==
  /\ TypeOK
  /\ LockInv
  /\ PoisonInv
  /\ OwnInv
  /\ DropInv
  /\ UnbornInv
  /\ NoDetachedThread
  /\ Stoppable
  /\ FlagHasAnOwner

-----------------------------------------------------------------------------
(* Typing                                                                   *)

\* Types hold of a new handle.
LEMMA TypeInit == ASSUME Init PROVE TypeOK
BY DEF Init, TypeOK, Phases, Pcs

\* No step breaks a type.
LEMMA TypeStep == ASSUME TypeOK, [Next]_vars PROVE TypeOK'
<1> USE HandleAssumption DEF TypeOK, state, Pcs, StartPcs, WaitPcs, DropPcs,
        Phases, Alive, Finished, Goto, Return, CanLock, TakeSender, Unborn
<1>1. ASSUME NEW c \in Callers, CallerStep(c) PROVE TypeOK'
  <2>1. CASE LockPoisoned(c)
    BY <2>1 DEF LockPoisoned
  <2>2. CASE StartLock(c)
    BY <2>2 DEF StartLock
  <2>3. CASE StartRefused(c)
    BY <2>3 DEF StartRefused
  <2>4. CASE StartMark(c)
    BY <2>4 DEF StartMark
  <2>5. CASE StartSpawn(c)
    BY <2>5 DEF StartSpawn
  <2>6. CASE StartSpawnPanics(c)
    BY <2>6 DEF StartSpawnPanics
  <2>7. CASE WaitTake(c)
    BY <2>7 DEF WaitTake
  <2>8. CASE WaitJoin(c)
    BY <2>8 DEF WaitJoin
  <2>9. CASE WaitClear(c)
    BY <2>9 DEF WaitClear
  <2>10. CASE Stop(c)
    BY <2>10 DEF Stop
  <2>11. CASE DropTake(c)
    BY <2>11 DEF DropTake
  <2>12. CASE DropPoisoned(c)
    BY <2>12 DEF DropPoisoned
  <2>13. CASE DropJoin(c)
    BY <2>13 DEF DropJoin
  <2>14. CASE DropClear(c)
    BY <2>14 DEF DropClear
  <2> QED
    BY <1>1, <2>1, <2>2, <2>3, <2>4, <2>5, <2>6, <2>7,
       <2>8, <2>9, <2>10, <2>11, <2>12, <2>13, <2>14 DEF CallerStep
<1>2. ASSUME NEW c \in Callers, HostStep(c) PROVE TypeOK'
  <2>1. CASE CallStart(c)
    BY <2>1 DEF CallStart, Call
  <2>2. CASE Call(c, "wait_take")
    BY <2>2 DEF Call
  <2>3. CASE Call(c, "stop_lock")
    BY <2>3 DEF Call
  <2>4. CASE IsRunning(c)
    BY <2>4 DEF IsRunning
  <2>5. CASE Destroy(c)
    BY <2>5 DEF Destroy
  <2> QED
    BY <1>2, <2>1, <2>2, <2>3, <2>4, <2>5 DEF HostStep
<1>3. ASSUME NEW s \in Servers, ServerStep(s) PROVE TypeOK'
  <2> USE DEF Advance
  <2>1. CASE BootOk(s)
    BY <2>1 DEF BootOk
  <2>2. CASE BootFails(s)
    BY <2>2 DEF BootFails
  <2>3. CASE BootPanics(s)
    BY <2>3 DEF BootPanics
  <2>4. CASE ServeEnds(s)
    BY <2>4 DEF ServeEnds
  <2>5. CASE ServeShutdown(s)
    BY <2>5 DEF ServeShutdown
  <2>6. CASE ClearFlag(s)
    BY <2>6 DEF ClearFlag
  <2>7. CASE Exit(s)
    BY <2>7 DEF Exit
  <2> QED
    BY <1>3, <2>1, <2>2, <2>3, <2>4, <2>5, <2>6, <2>7 DEF ServerStep
<1>4. CASE UNCHANGED vars
  BY <1>4 DEF vars
<1> QED BY <1>1, <1>2, <1>3, <1>4 DEF Next, Terminated

\* Every variable of the handle model keeps its type in every behaviour.
THEOREM TypeCorrect == Spec => []TypeOK
<1> QED BY TypeInit, TypeStep, PTL DEF Spec

-----------------------------------------------------------------------------
(* The inductive invariant                                                  *)

\* HandleInv holds of a new handle.
LEMMA HandleInit == ASSUME Init PROVE HandleInv
<1>1. TypeOK
  BY TypeInit
<1> QED BY <1>1, HandleAssumption DEF Init, HandleInv, LockInv, PoisonInv, OwnInv,
     DropInv, UnbornInv, DropPcs, NoDetachedThread, Stoppable, FlagHasAnOwner, Live, Alive

\* Every critical section and every step of a server thread keeps HandleInv.
LEMMA HandleStep == ASSUME HandleInv, [Next]_vars PROVE HandleInv'
<1>t. TypeOK /\ TypeOK'
  BY TypeStep DEF HandleInv
<1> USE <1>t, HandleAssumption DEF HandleInv, LockInv, PoisonInv, OwnInv, DropInv,
        UnbornInv, NoDetachedThread, Stoppable, FlagHasAnOwner, TypeOK, state,
        Pcs, StartPcs, WaitPcs, DropPcs, Alive, Finished, Live,
        ThreadFinished, Goto, Return, CanLock, TakeSender, Unborn
<1>1. ASSUME NEW c \in Callers, CallerStep(c) PROVE HandleInv'
  <2>1. CASE LockPoisoned(c)
    BY <2>1 DEF LockPoisoned
  <2>2. CASE StartLock(c)
    <3> USE <2>2 DEF StartLock
    <3>1. (LockInv /\ PoisonInv /\ OwnInv /\ DropInv /\ UnbornInv)'
      OBVIOUS
    <3>2. (NoDetachedThread /\ Stoppable)'
      OBVIOUS
    <3>3. CASE ThreadFinished  \* the clean-up clears the flag
      BY <3>3
    <3>4. CASE ~ThreadFinished  \* flag, threads and owners stay as they are
      <4>1. UNCHANGED <<poisoned, running, phase, own, thread>>
        BY <3>4
      <4>2. \A d \in Callers :
              pc[d] \in {"start_spawn", "wait_clear", "drop_clear"} => pc'[d] = pc[d]
        OBVIOUS
      <4>3. FlagHasAnOwner'
        BY <4>1, <4>2
      <4> QED BY <3>1, <3>2, <4>3
    <3> QED BY <3>3, <3>4
  <2>3. CASE StartRefused(c)
    BY <2>3 DEF StartRefused
  <2>4. CASE StartMark(c)
    BY <2>4 DEF StartMark
  <2>5. CASE StartSpawn(c)
    BY <2>5 DEF StartSpawn
  <2>6. CASE StartSpawnPanics(c)
    BY <2>6 DEF StartSpawnPanics
  <2>7. CASE WaitTake(c)
    BY <2>7 DEF WaitTake
  <2>8. CASE WaitJoin(c)
    BY <2>8 DEF WaitJoin
  <2>9. CASE WaitClear(c)
    BY <2>9 DEF WaitClear
  <2>10. CASE Stop(c)
    BY <2>10 DEF Stop
  <2>11. CASE DropTake(c)
    BY <2>11 DEF DropTake
  <2>12. CASE DropPoisoned(c)
    BY <2>12 DEF DropPoisoned
  <2>13. CASE DropJoin(c)
    BY <2>13 DEF DropJoin
  <2>14. CASE DropClear(c)
    BY <2>14 DEF DropClear
  <2> QED
    BY <1>1, <2>1, <2>2, <2>3, <2>4, <2>5, <2>6, <2>7,
       <2>8, <2>9, <2>10, <2>11, <2>12, <2>13, <2>14 DEF CallerStep
<1>2. ASSUME NEW c \in Callers, HostStep(c) PROVE HandleInv'
  <2>1. CASE CallStart(c)
    BY <2>1 DEF CallStart, Call
  <2>2. CASE Call(c, "wait_take")
    BY <2>2 DEF Call
  <2>3. CASE Call(c, "stop_lock")
    BY <2>3 DEF Call
  <2>4. CASE IsRunning(c)
    BY <2>4 DEF IsRunning
  <2>5. CASE Destroy(c)
    BY <2>5 DEF Destroy
  <2> QED
    BY <1>2, <2>1, <2>2, <2>3, <2>4, <2>5 DEF HostStep
<1>3. ASSUME NEW s \in Servers, ServerStep(s) PROVE HandleInv'
  <2> USE DEF Advance
  <2>1. CASE BootOk(s)
    BY <2>1 DEF BootOk
  <2>2. CASE BootFails(s)
    BY <2>2 DEF BootFails
  <2>3. CASE BootPanics(s)
    BY <2>3 DEF BootPanics
  <2>4. CASE ServeEnds(s)
    BY <2>4 DEF ServeEnds
  <2>5. CASE ServeShutdown(s)
    BY <2>5 DEF ServeShutdown
  <2>6. CASE ClearFlag(s)
    BY <2>6 DEF ClearFlag
  <2>7. CASE Exit(s)
    BY <2>7 DEF Exit
  <2> QED
    BY <1>3, <2>1, <2>2, <2>3, <2>4, <2>5, <2>6, <2>7 DEF ServerStep
<1>4. CASE UNCHANGED vars
  BY <1>4 DEF vars
<1> QED BY <1>1, <1>2, <1>3, <1>4 DEF Next, Terminated

\* HandleInv holds in every state any host can bring a handle to.
THEOREM HandleInvariant == Spec => []HandleInv
<1> QED BY HandleInit, HandleStep, PTL DEF Spec

-----------------------------------------------------------------------------
(* What follows from it                                                     *)

\* No interleaving of host threads makes a handle lose track of a server
\* thread that still lives.
THEOREM NeverDetached == Spec => []NoDetachedThread
<1>1. HandleInv => NoDetachedThread
  BY DEF HandleInv
<1> QED BY <1>1, HandleInvariant, PTL

\* When destroy has freed the handle, none of its server threads lives, also
\* after a failed spawn has poisoned the mutex: a live thread would have an
\* owner, but by then the field is empty and no caller holds a join handle.
THEOREM DestroyReclaims == Spec => []FreedMeansReclaimed
<1>1. HandleInv => FreedMeansReclaimed
  <2> SUFFICES ASSUME HandleInv, handle = "freed", NEW s \in Servers, Live(s)
               PROVE  FALSE
    BY DEF FreedMeansReclaimed
  <2>1. \A c \in Callers : own[c] = None
    BY DEF HandleInv, DropInv, OwnInv
  <2>2. thread = None
    BY DEF HandleInv, DropInv
  <2>3. s # None
    BY HandleAssumption
  <2> QED BY <2>1, <2>2, <2>3 DEF HandleInv, NoDetachedThread
<1> QED BY <1>1, HandleInvariant, PTL

\* A live server that has not been told to stop can be: the handle keeps its
\* sender.
THEOREM AlwaysStoppable == Spec => []Stoppable
<1>1. HandleInv => Stoppable
  BY DEF HandleInv
<1> QED BY <1>1, HandleInvariant, PTL

\* The running flag never stays up without something that will clear it, a
\* poisoned mutex apart.
THEOREM FlagNotStuck == Spec => []FlagHasAnOwner
<1>1. HandleInv => FlagHasAnOwner
  BY DEF HandleInv
<1> QED BY <1>1, HandleInvariant, PTL

-----------------------------------------------------------------------------
(* What a host without SerialHost's rule has to reckon with: what goes wrong *)
(* goes wrong only while some caller is inside wait, past its first section. *)

Waits(c) == pc[c] \in {"wait_join", "wait_clear"}

\* Two servers live at once only while a wait is joining.
TwoServersNeedAWait ==
  \A s, t \in Servers : s # t /\ Live(s) /\ Live(t) => \E c \in Callers : pc[c] = "wait_join"

\* A live server that nobody has told to stop loses its sender only meanwhile.
DropsNeedAWait ==
  [][\A s \in Servers : Live(s) /\ signal[s] = "open" /\ signal'[s] = "dropped"
       => \E c \in Callers : Waits(c)]_vars

\* The flag is taken down in front of a server that boots or serves, and does
\* not do it itself, only meanwhile.
LoweringNeedsAWait ==
  [][\A s \in Servers :
       phase[s] \in {"booting", "serving", "returned"} /\ phase'[s] = phase[s] /\ running /\ ~running'
         => \E c \in Callers : Waits(c)]_vars

\* Where no wait is joining, a live server is the one in the thread field or
\* in the hands of a destroy that is alone.
LEMMA LiveWithoutWait ==
  ASSUME HandleInv, \A c \in Callers : pc[c] # "wait_join", NEW s \in Servers, Live(s)
  PROVE  \/ thread = s
         \/ \E c \in Callers : /\ pc[c] = "drop_join" /\ own[c] = s /\ thread = None
                              /\ \A d \in Callers \ {c} : pc[d] = "idle" /\ own[d] = None
<1>1. CASE thread = s
  BY <1>1
<1>2. ASSUME NEW c \in Callers, own[c] = s
      PROVE  /\ pc[c] = "drop_join" /\ own[c] = s /\ thread = None
             /\ \A d \in Callers \ {c} : pc[d] = "idle" /\ own[d] = None
  BY <1>2, HandleAssumption DEF HandleInv, OwnInv, DropInv, DropPcs
<1> QED BY <1>1, <1>2 DEF HandleInv, NoDetachedThread

\* The exact condition of the overlap that the handle's documentation excludes:
\* a wait has taken the older server's join handle out and is still joining.
THEOREM OverlapNeedsAWait == Spec => []TwoServersNeedAWait
<1>1. HandleInv => TwoServersNeedAWait
  <2> SUFFICES ASSUME HandleInv, \A c \in Callers : pc[c] # "wait_join",
                      NEW s \in Servers, NEW t \in Servers, Live(s), Live(t)
               PROVE  s = t
    BY DEF TwoServersNeedAWait
  <2>1. s # None /\ t # None
    BY HandleAssumption
  <2> QED BY <2>1, LiveWithoutWait
<1> QED BY <1>1, HandleInvariant, PTL

\* stop and destroy send; a live server's sender is dropped by the clean-up of
\* start, by a spawn over it or by a wait that finds no thread -- all of which
\* need the field emptied by a wait -- or by the last section of a wait.
THEOREM DroppedSendersNeedAWait == Spec => DropsNeedAWait
<1> DEFINE Needs == \A s \in Servers : Live(s) /\ signal[s] = "open" /\ signal'[s] = "dropped"
                      => \E c \in Callers : Waits(c)
<1>1. HandleInv /\ [Next]_vars => [Needs]_vars
  <2> SUFFICES ASSUME HandleInv, [Next]_vars, NEW s \in Servers, Live(s),
                      signal[s] = "open", signal'[s] = "dropped",
                      \A c \in Callers : ~Waits(c)
               PROVE  FALSE
    OBVIOUS
  <2>1. TypeOK /\ stop_tx = s
    BY DEF HandleInv, Stoppable
  <2>2. thread = s \/ \E c \in Callers : pc[c] = "drop_join" /\ stop_tx = None
    BY LiveWithoutWait DEF Waits, HandleInv, DropInv
  <2>3. thread = s
    BY <2>1, <2>2, HandleAssumption
  <2> USE <2>1, <2>3, HandleAssumption DEF TypeOK, state, Waits, CanLock, TakeSender,
          Live, Alive, Finished
  <2>4. ASSUME NEW c \in Callers, CallerStep(c) PROVE FALSE
    <3>1. CASE LockPoisoned(c) \/ StartRefused(c) \/ StartMark(c) \/ StartSpawnPanics(c)
               \/ WaitJoin(c) \/ DropJoin(c) \/ DropClear(c)
      BY <3>1 DEF LockPoisoned, StartRefused, StartMark, StartSpawnPanics, WaitJoin, DropJoin,
                  DropClear
    <3>2. CASE StartLock(c)
      BY <3>2 DEF StartLock, ThreadFinished
    <3>3. CASE StartSpawn(c)
      BY <3>3 DEF StartSpawn, HandleInv, LockInv
    <3>4. CASE WaitTake(c) \/ WaitClear(c)
      BY <3>4 DEF WaitTake, WaitClear
    <3>5. CASE Stop(c) \/ DropTake(c)
      BY <3>5 DEF Stop, DropTake
    <3>6. CASE DropPoisoned(c)
      BY <3>6 DEF DropPoisoned, HandleInv, PoisonInv
    <3> QED BY <2>4, <3>1, <3>2, <3>3, <3>4, <3>5, <3>6 DEF CallerStep
  <2>5. ASSUME NEW c \in Callers, HostStep(c) PROVE FALSE
    BY <2>5 DEF HostStep, CallStart, Call, IsRunning, Destroy
  <2>6. ASSUME NEW t \in Servers, ServerStep(t) PROVE FALSE
    BY <2>6 DEF ServerStep, BootOk, BootFails, BootPanics, ServeEnds, ServeShutdown, ClearFlag,
                Exit, Advance
  <2> QED BY <2>4, <2>5, <2>6 DEF Next, Terminated, vars
<1> QED BY <1>1, HandleInvariant, PTL DEF Spec, DropsNeedAWait

\* is_running is wrong about a server at work only after a wait has been there.
THEOREM LoweredFlagsNeedAWait == Spec => LoweringNeedsAWait
<1> DEFINE Needs == \A s \in Servers :
              phase[s] \in {"booting", "serving", "returned"} /\ phase'[s] = phase[s]
                /\ running /\ ~running' => \E c \in Callers : Waits(c)
<1>1. HandleInv /\ [Next]_vars => [Needs]_vars
  <2> SUFFICES ASSUME HandleInv, [Next]_vars, NEW s \in Servers,
                      phase[s] \in {"booting", "serving", "returned"}, phase'[s] = phase[s],
                      running, ~running',
                      \A c \in Callers : ~Waits(c)
               PROVE  FALSE
    OBVIOUS
  <2>1. TypeOK /\ Live(s)
    BY DEF HandleInv, Live, Alive
  <2>2. \A t \in Servers : Live(t) => t = s
    <3> SUFFICES ASSUME NEW t \in Servers, Live(t) PROVE t = s
      OBVIOUS
    <3>1. s # None /\ t # None
      BY HandleAssumption
    <3> QED BY <2>1, <3>1, LiveWithoutWait DEF Waits
  <2>3. thread = s \/ \E c \in Callers : pc[c] = "drop_join" /\ \A d \in Callers \ {c} : pc[d] = "idle"
    BY <2>1, LiveWithoutWait DEF Waits
  <2> USE <2>1, <2>2, <2>3, HandleAssumption DEF TypeOK, state, Waits, CanLock, Live, Alive, Finished
  <2>4. ASSUME NEW c \in Callers, CallerStep(c) PROVE FALSE
    <3>1. CASE LockPoisoned(c) \/ StartRefused(c) \/ StartMark(c) \/ StartSpawn(c)
               \/ StartSpawnPanics(c) \/ WaitTake(c) \/ WaitJoin(c) \/ Stop(c)
               \/ DropTake(c) \/ DropPoisoned(c) \/ DropJoin(c)
      BY <3>1 DEF LockPoisoned, StartRefused, StartMark, StartSpawn, StartSpawnPanics, WaitTake,
                  WaitJoin, Stop, DropTake, DropPoisoned, DropJoin
    <3>2. CASE StartLock(c)
      BY <3>2 DEF StartLock, ThreadFinished
    <3>3. CASE WaitClear(c)
      BY <3>3 DEF WaitClear
    <3>4. CASE DropClear(c)
      BY <3>4 DEF DropClear, HandleInv, DropInv
    <3> QED BY <2>4, <3>1, <3>2, <3>3, <3>4 DEF CallerStep
  <2>5. ASSUME NEW c \in Callers, HostStep(c) PROVE FALSE
    BY <2>5 DEF HostStep, CallStart, Call, IsRunning, Destroy
  <2>6. ASSUME NEW t \in Servers, ServerStep(t) PROVE FALSE
    BY <2>6 DEF ServerStep, BootOk, BootFails, BootPanics, ServeEnds, ServeShutdown, ClearFlag,
                Exit, Advance
  <2> QED BY <2>4, <2>5, <2>6 DEF Next, Terminated, vars
<1> QED BY <1>1, HandleInvariant, PTL DEF Spec, LoweringNeedsAWait

-----------------------------------------------------------------------------
(* Liveness.  The prover has no rules for ENABLED, hence none for WF.  The   *)
(* theorems below assume GuardedFairness, which is Fairness with the guards  *)
(* of the actions in the place of ENABLED.                                   *)

\* A guard of some disjunct of CallerStep(c) holds.  A caller that needs the
\* mutex has to find it free: where that matters it is proved, not assumed.
CallerReady(c) ==
  \/ pc[c] \in {"start_lock", "stop_lock", "wait_take", "wait_clear", "drop_take"} /\ lock = None
  \/ pc[c] \in {"start_check", "start_spawn", "drop_clear"}
  \/ pc[c] \in {"wait_join", "drop_join"} /\ phase[own[c]] \in Finished

\* A guard of an action of server s that Fairness speaks of holds.
ServerReady(s) ==
  \/ phase[s] \in {"booting", "returned", "closing"}
  \/ phase[s] = "serving" /\ signal[s] # "open"

\* A thread whose guard holds for good goes on moving.
CallerFair(c) == <>[]CallerReady(c) => []<><<CallerStep(c)>>_vars
ServerFair(s) == <>[]ServerReady(s) => []<><<ServerStep(s)>>_vars

\* Every thread inside the library and every server thread is scheduled.
GuardedFairness ==
  /\ \A c \in Callers : CallerFair(c)
  /\ \A s \in Servers : ServerFair(s)

\* The phases of a server thread come in one order, and a shutdown future that
\* is resolved stays so.
LEMMA PhaseOrder ==
  ASSUME TypeOK, [Next]_vars, NEW s \in Servers
  PROVE  /\ phase[s] = "booting" => phase'[s] \in {"booting", "serving", "closing", "panicked"}
         /\ phase[s] = "serving" => phase'[s] \in {"serving", "returned"}
         /\ phase[s] = "returned" => phase'[s] \in {"returned", "closing"}
         /\ phase[s] = "closing" => phase'[s] \in {"closing", "exited"}
         /\ phase[s] \in Finished => phase'[s] = phase[s]
         /\ signal[s] # "open" => signal'[s] # "open"
<1> USE DEF TypeOK, Phases, Alive, Finished, TakeSender, state
<1>1. ASSUME NEW c \in Callers, HostStep(c) \/ CallerStep(c)
      PROVE  /\ \/ phase' = phase
                \/ \E t \in Unborn : phase' = [phase EXCEPT ![t] = "booting"]
             /\ signal[s] # "open" => signal'[s] # "open"
  BY <1>1 DEF HostStep, CallerStep, CallStart, Call, IsRunning, Destroy, LockPoisoned, StartLock,
     StartRefused, StartMark, StartSpawn, StartSpawnPanics, WaitTake, WaitJoin, WaitClear, Stop,
     DropTake, DropPoisoned, DropJoin, DropClear
<1>2. ASSUME NEW t \in Servers, ServerStep(t)
      PROVE  /\ signal' = signal
             /\ phase[s] = "booting" => phase'[s] \in {"booting", "serving", "closing", "panicked"}
             /\ phase[s] = "serving" => phase'[s] \in {"serving", "returned"}
             /\ phase[s] = "returned" => phase'[s] \in {"returned", "closing"}
             /\ phase[s] = "closing" => phase'[s] \in {"closing", "exited"}
             /\ phase[s] \in Finished => phase'[s] = phase[s]
  BY <1>2 DEF ServerStep, BootOk, BootFails, BootPanics, ServeEnds, ServeShutdown, ClearFlag,
     Exit, Advance
<1> QED BY <1>1, <1>2 DEF Next, Terminated, vars, Unborn

\* A step of a server thread takes it to another phase.
LEMMA ServerMoves ==
  ASSUME TypeOK, NEW s \in Servers, ServerStep(s)
  PROVE  phase'[s] # phase[s]
BY DEF TypeOK, ServerStep, BootOk, BootFails, BootPanics, ServeEnds, ServeShutdown, ClearFlag,
   Exit, Advance

\* A server whose future is resolved ends, phase by phase.
LEMMA ServerEnds ==
  ASSUME NEW s \in Servers
  PROVE  Spec /\ (<>[]ServerReady(s) => []<><<ServerStep(s)>>_vars)
           => (Live(s) /\ signal[s] # "open" ~> ~Live(s))
<1> DEFINE Boots    == phase[s] = "booting" /\ signal[s] # "open"
           Serves   == phase[s] = "serving" /\ signal[s] # "open"
           Returned == phase[s] = "returned"
           Closes   == phase[s] = "closing"
           Gone     == ~Live(s)
           Told     == Live(s) /\ signal[s] # "open"
           Ready    == ServerReady(s)
           Steps    == ServerStep(s)
<1>1. Told => Boots \/ Serves \/ Returned \/ Closes
  BY DEF Live, Alive
<1>2. Boots \/ Serves \/ Returned \/ Closes => Ready
  BY DEF ServerReady
<1>3. TypeOK /\ [Next]_vars =>
        /\ Boots    => Boots' \/ Serves' \/ Closes' \/ Gone'
        /\ Serves   => Serves' \/ Returned'
        /\ Returned => Returned' \/ Closes'
        /\ Closes   => Closes' \/ Gone'
  BY PhaseOrder DEF Live, Alive
<1>4. TypeOK /\ Steps =>
        /\ Boots    => ~Boots'
        /\ Serves   => ~Serves'
        /\ Returned => ~Returned'
        /\ Closes   => ~Closes'
  BY ServerMoves
<1> HIDE DEF Boots, Serves, Returned, Closes, Gone, Told, Ready, Steps
<1>5. Spec => []TypeOK
  BY TypeCorrect
<1>6. Spec /\ (<>[]Ready => []<><<Steps>>_vars) => (Closes ~> Gone)
  BY <1>2, <1>3, <1>4, <1>5, PTL DEF Spec
<1>7. Spec /\ (<>[]Ready => []<><<Steps>>_vars) => (Returned ~> Closes)
  BY <1>2, <1>3, <1>4, <1>5, PTL DEF Spec
<1>8. Spec /\ (<>[]Ready => []<><<Steps>>_vars) => (Serves ~> Returned)
  BY <1>2, <1>3, <1>4, <1>5, PTL DEF Spec
<1>9. Spec /\ (<>[]Ready => []<><<Steps>>_vars) => (Boots ~> Serves \/ Closes \/ Gone)
  BY <1>2, <1>3, <1>4, <1>5, PTL DEF Spec
<1>10. Spec /\ (<>[]Ready => []<><<Steps>>_vars) => (Told ~> Gone)
  BY <1>1, <1>6, <1>7, <1>8, <1>9, PTL
<1> QED BY <1>10 DEF Told, Gone, Ready, Steps

\* Every server whose shutdown future is resolved ends.
THEOREM ResolvedServersEnd == Spec /\ GuardedFairness => ResolvedServerEnds
<1>1. ASSUME NEW s \in Servers
      PROVE  Spec /\ ServerFair(s)
               => (Live(s) /\ signal[s] # "open" ~> ~Live(s))
  BY ServerEnds DEF ServerFair
<1> QED BY <1>1 DEF GuardedFairness, ResolvedServerEnds

Joining == {"wait_join", "drop_join"}
Joined(l) == IF l = "wait_join" THEN "wait_clear" ELSE "drop_clear"

\* A join that has begun goes on with the same thread, which exists, until it
\* returns; it returns when the caller moves once the thread is gone.
LEMMA JoinSteps ==
  ASSUME HandleInv, [Next]_vars, NEW c \in Callers, NEW s \in Servers,
         pc[c] \in Joining, own[c] = s
  PROVE  /\ Live(s) \/ phase[s] \in Finished
         /\ phase[s] \in Finished => CallerReady(c)
         /\ (pc'[c] = pc[c] /\ own'[c] = s) \/ pc'[c] = Joined(pc[c])
         /\ CallerStep(c) => pc'[c] # pc[c]
<1>t. TypeOK
  BY DEF HandleInv
<1> USE <1>t, HandleAssumption DEF TypeOK, Joining, Joined, state, Goto, Return, CanLock
<1>1. Live(s) \/ phase[s] \in Finished
  BY DEF HandleInv, UnbornInv, Live, Alive, Phases, Finished
<1>2. phase[s] \in Finished => CallerReady(c)
  BY DEF CallerReady
<1>3. ASSUME NEW d \in Callers, HostStep(d) \/ CallerStep(d)
      PROVE  \/ /\ d # c /\ pc'[c] = pc[c] /\ own'[c] = s
             \/ d = c /\ pc'[c] = Joined(pc[c])
  BY <1>3 DEF HostStep, CallerStep, CallStart, Call, IsRunning, Destroy, LockPoisoned, StartLock,
     StartRefused, StartMark, StartSpawn, StartSpawnPanics, WaitTake, WaitJoin, WaitClear, Stop,
     DropTake, DropPoisoned, DropJoin, DropClear
<1>4. ASSUME NEW t \in Servers, ServerStep(t)
      PROVE  pc'[c] = pc[c] /\ own'[c] = s
  BY <1>4 DEF ServerStep, BootOk, BootFails, BootPanics, ServeEnds, ServeShutdown, ClearFlag,
     Exit, Advance
<1> QED BY <1>1, <1>2, <1>3, <1>4 DEF Next, Terminated, vars

\* A join of server s, once its future is resolved, returns: the server ends,
\* and nothing else holds the caller up.
LEMMA JoinOfReturns ==
  ASSUME NEW c \in Callers, NEW l \in Joining, NEW s \in Servers
  PROVE  Spec /\ GuardedFairness
           => (pc[c] = l /\ own[c] = s /\ (signal[s] # "open" \/ ~Live(s))
                 ~> pc[c] = Joined(l))
<1> DEFINE Joins == pc[c] = l /\ own[c] = s
           Told  == signal[s] # "open"
           Lives == Live(s)
           Gone  == phase[s] \in Finished
           Past  == pc[c] = Joined(l)
           Ready == CallerReady(c)
           Steps == CallerStep(c)
           Ends  == Lives /\ Told ~> ~Lives
           Fair  == <>[]Ready => []<><<Steps>>_vars
<1>1. HandleInv => (Joins => Lives \/ Gone)
  BY DEF HandleInv, TypeOK, UnbornInv, Live, Alive, Phases, Finished
<1>2. Joins /\ Gone => Ready
  BY DEF CallerReady, Joining
<1>3. HandleInv /\ [Next]_vars => (Joins => Joins' \/ Past')
  BY JoinSteps DEF Joining
<1>4. HandleInv /\ [Next]_vars /\ Steps => (Joins => ~Joins')
  BY JoinSteps DEF Joining
<1>5. HandleInv /\ [Next]_vars => (Gone => Gone') /\ (Told => Told')
  BY PhaseOrder DEF HandleInv
<1>6. GuardedFairness => Fair
  BY DEF GuardedFairness, CallerFair
<1>7. Spec /\ GuardedFairness => Ends
  BY ServerEnds DEF GuardedFairness, ServerFair
<1> HIDE DEF Joins, Told, Lives, Gone, Past, Ready, Steps
<1>8. Spec => []HandleInv
  BY HandleInvariant
<1>9. Spec /\ Fair => (Joins /\ Gone ~> Past)
  BY <1>2, <1>3, <1>4, <1>5, <1>8, PTL DEF Spec
<1>10. Spec /\ Fair /\ Ends => (Joins /\ (Told \/ ~Lives) ~> Past)
  BY <1>1, <1>3, <1>5, <1>8, <1>9, PTL DEF Spec
<1>11. Spec /\ GuardedFairness => (Joins /\ (Told \/ ~Lives) ~> Past)
  BY <1>6, <1>7, <1>10, PTL
<1> QED BY <1>11 DEF Joins, Told, Lives, Past

\* The same of whichever server the caller joins.
LEMMA JoinReturns ==
  ASSUME NEW c \in Callers, NEW l \in Joining
  PROVE  Spec /\ GuardedFairness
           => (pc[c] = l /\ (signal[own[c]] # "open" \/ ~Live(own[c])) ~> pc[c] = Joined(l))
<1> DEFINE Joins(s) == pc[c] = l /\ own[c] = s /\ (signal[s] # "open" \/ ~Live(s))
           Told == pc[c] = l /\ (signal[own[c]] # "open" \/ ~Live(own[c]))
           Past == pc[c] = Joined(l)
           Fair == Spec /\ GuardedFairness
           All  == \A s \in Servers : Joins(s) => <>Past
<1>1. ASSUME NEW s \in Servers
      PROVE  Fair => [](Joins(s) => <>Past)
  <2>1. Fair => (Joins(s) ~> Past)
    BY JoinOfReturns
  <2> HIDE DEF Joins, Past, Fair
  <2> QED BY <2>1, PTL
<1>2. Fair => []All
  BY <1>1
<1>3. HandleInv /\ Told => \E s \in Servers : Joins(s)
  BY HandleAssumption DEF HandleInv, TypeOK, OwnInv, Joining
<1>4. HandleInv /\ All => (Told => <>Past)
  BY <1>3
<1>5. Fair => []HandleInv
  BY HandleInvariant
<1> HIDE DEF Told, Past, Fair, All
<1>6. Fair => (Told ~> Past)
  BY <1>2, <1>4, <1>5, PTL
<1> QED BY <1>6 DEF Told, Past, Fair

\* A wait whose server was told to stop gets past its join.
THEOREM StoppedJoinsReturn == Spec /\ GuardedFairness => StoppedJoinReturns
<1>1. ASSUME NEW c \in Callers, NEW l \in Joining, l = "wait_join"
      PROVE  Spec /\ GuardedFairness
               => (pc[c] = "wait_join" /\ signal[own[c]] # "open" ~> pc[c] # "wait_join")
  <2> DEFINE Told  == pc[c] = "wait_join" /\ signal[own[c]] # "open"
             Joins == pc[c] = l /\ (signal[own[c]] # "open" \/ ~Live(own[c]))
             Past  == pc[c] = Joined(l)
             Left  == pc[c] # "wait_join"
             Fair  == Spec /\ GuardedFairness
  <2>1. Fair => (Joins ~> Past)
    BY JoinReturns
  <2>2. Told => Joins
    BY <1>1
  <2>3. Past => Left
    BY <1>1 DEF Joined
  <2> HIDE DEF Told, Joins, Past, Left, Fair
  <2>4. Fair => (Told ~> Left)
    BY <2>1, <2>2, <2>3, PTL
  <2> QED BY <2>4 DEF Told, Left, Fair
<1>2. "wait_join" \in Joining
  BY DEF Joining
<1> QED BY <1>1, <1>2 DEF StoppedJoinReturns

\* Inside destroy nothing holds the caller up but a join, and that of a server
\* whose sender was used: the caller is alone with the handle and the mutex.
LEMMA DropSteps ==
  ASSUME HandleInv, NEW c \in Callers
  PROVE  /\ pc[c] \in {"drop_take", "drop_clear"} => CallerReady(c)
         /\ pc[c] = "drop_join" => signal[own[c]] # "open" \/ ~Live(own[c])
         /\ [Next]_vars /\ pc[c] = "drop_take"
              => pc'[c] \in DropPcs \/ handle' = "freed"
         /\ [Next]_vars /\ pc[c] = "drop_clear"
              => pc'[c] = "drop_clear" \/ handle' = "freed"
         /\ [Next]_vars /\ CallerStep(c) /\ pc[c] \in {"drop_take", "drop_clear"}
              => pc'[c] # pc[c]
<1>t. TypeOK
  BY DEF HandleInv
<1> USE <1>t, HandleAssumption DEF TypeOK, DropPcs, state, Goto, Return, CanLock
<1>1. pc[c] \in {"drop_take", "drop_clear"} => CallerReady(c)
  BY DEF HandleInv, LockInv, DropInv, CallerReady
<1>2. pc[c] = "drop_join" => signal[own[c]] # "open" \/ ~Live(own[c])
  BY DEF HandleInv, OwnInv, DropInv, Stoppable
<1>3. ASSUME NEW d \in Callers, HostStep(d) \/ CallerStep(d),
             pc[c] \in {"drop_take", "drop_clear"}
      PROVE  \/ d # c /\ pc'[c] = pc[c]
             \/ d = c /\ handle' = "freed" /\ pc'[c] = "idle"
             \/ d = c /\ pc[c] = "drop_take" /\ pc'[c] \in {"drop_join", "drop_clear"}
  BY <1>3 DEF HostStep, CallerStep, CallStart, Call, IsRunning, Destroy, LockPoisoned, StartLock,
     StartRefused, StartMark, StartSpawn, StartSpawnPanics, WaitTake, WaitJoin, WaitClear, Stop,
     DropTake, DropPoisoned, DropJoin, DropClear
<1>4. ASSUME NEW t \in Servers, ServerStep(t)
      PROVE  pc'[c] = pc[c]
  BY <1>4 DEF ServerStep, BootOk, BootFails, BootPanics, ServeEnds, ServeShutdown, ClearFlag,
     Exit, Advance
<1> QED BY <1>1, <1>2, <1>3, <1>4 DEF Next, Terminated, vars

\* Once a caller is inside destroy the handle is freed.
LEMMA DropReturns ==
  ASSUME NEW c \in Callers
  PROVE  Spec /\ GuardedFairness => (pc[c] \in DropPcs ~> handle = "freed")
<1>1. ASSUME NEW l \in Joining, l = "drop_join"
      PROVE  Spec /\ GuardedFairness => (pc[c] = "drop_join" ~> pc[c] = "drop_clear")
  <2> DEFINE Held  == pc[c] = "drop_join"
             Joins == pc[c] = l /\ (signal[own[c]] # "open" \/ ~Live(own[c]))
             Past  == pc[c] = Joined(l)
             Clears == pc[c] = "drop_clear"
             Fair  == Spec /\ GuardedFairness
  <2>1. Fair => (Joins ~> Past)
    BY JoinReturns
  <2>2. HandleInv => (Held => Joins)
    BY <1>1, DropSteps
  <2>3. Past => Clears
    BY <1>1 DEF Joined
  <2>4. Fair => []HandleInv
    BY HandleInvariant
  <2> HIDE DEF Held, Joins, Past, Clears, Fair
  <2>5. Fair => (Held ~> Clears)
    BY <2>1, <2>2, <2>3, <2>4, PTL
  <2> QED BY <2>5 DEF Held, Clears, Fair
<1> DEFINE Takes  == pc[c] = "drop_take"
           Held   == pc[c] = "drop_join"
           Clears == pc[c] = "drop_clear"
           Freed  == handle = "freed"
           Inside == pc[c] \in DropPcs
           Ready  == CallerReady(c)
           Steps  == CallerStep(c)
           Fair   == <>[]Ready => []<><<Steps>>_vars
           Joinable == Held ~> Clears
<1>2. Inside => Takes \/ Held \/ Clears
  BY DEF DropPcs
<1>3. HandleInv => (Takes \/ Clears => Ready)
  BY DropSteps
<1>4. HandleInv /\ [Next]_vars =>
        /\ Takes  => Takes' \/ Held' \/ Clears' \/ Freed'
        /\ Clears => Clears' \/ Freed'
  BY DropSteps DEF DropPcs
<1>5. HandleInv /\ [Next]_vars /\ Steps => (Takes => ~Takes') /\ (Clears => ~Clears')
  BY DropSteps
<1>6. GuardedFairness => Fair
  BY DEF GuardedFairness, CallerFair
<1>7. Spec /\ GuardedFairness => Joinable
  BY <1>1 DEF Joining
<1>8. Spec => []HandleInv
  BY HandleInvariant
<1> HIDE DEF Takes, Held, Clears, Freed, Inside, Ready, Steps
<1>9. Spec /\ Fair => (Clears ~> Freed)
  BY <1>3, <1>4, <1>5, <1>8, PTL DEF Spec
<1>10. Spec /\ Fair => (Takes ~> Held \/ Clears \/ Freed)
  BY <1>3, <1>4, <1>5, <1>8, PTL DEF Spec
<1>11. Spec /\ GuardedFairness => (Inside ~> Freed)
  BY <1>2, <1>6, <1>7, <1>9, <1>10, PTL
<1> QED BY <1>11 DEF Inside, Freed

\* destroy comes back, with a server running or not.
THEOREM DestroysReturn == Spec /\ GuardedFairness => DestroyReturns
<1> DEFINE Inside(c) == pc[c] \in DropPcs
           Freed    == handle = "freed"
           Dropping == handle = "dropping"
           Fair     == Spec /\ GuardedFairness
           All      == \A c \in Callers : Inside(c) => <>Freed
<1>1. ASSUME NEW c \in Callers
      PROVE  Fair => [](Inside(c) => <>Freed)
  <2>1. Fair => (Inside(c) ~> Freed)
    BY DropReturns
  <2> HIDE DEF Inside, Freed, Fair
  <2> QED BY <2>1, PTL
<1>2. Fair => []All
  BY <1>1
<1>3. HandleInv /\ Dropping => \E c \in Callers : Inside(c)
  BY DEF HandleInv, DropInv
<1>4. HandleInv /\ All => (Dropping => <>Freed)
  BY <1>3
<1>5. Fair => []HandleInv
  BY HandleInvariant
<1> HIDE DEF Freed, Dropping, Fair, All
<1>6. Fair => (Dropping ~> Freed)
  BY <1>2, <1>4, <1>5, PTL
<1> QED BY <1>6 DEF Dropping, Freed, Fair, DestroyReturns
=============================================================================
