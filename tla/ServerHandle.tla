---------------------------- MODULE ServerHandle ----------------------------
(***************************************************************************)
(* The lifecycle of one GrpcWebServerHandle (server/handle.rs) as a host   *)
(* process drives it through the C functions start, wait, is_running,      *)
(* stop and destroy (server/ffi.rs) from several threads at once, together *)
(* with the background server threads the handle spawns.                   *)
(*                                                                         *)
(* Grain of atomicity.  The fields thread and stop_tx are only touched     *)
(* with the mutex held; the flag running is also written by server threads *)
(* and read by is_running without it.  A critical section is one action    *)
(* unless code outside it can see a state between its steps: start is cut  *)
(* after the clean-up and before and after it raises the flag, wait is cut *)
(* where it gives the mutex up, stop and the drop are one section each.    *)
(***************************************************************************)
EXTENDS Naturals, FiniteSets

CONSTANTS
  Callers,   \* host threads that call into the C interface
  Servers,   \* identities of the server threads start may spawn, used once each
  None       \* the empty Option and "no thread"

ASSUME HandleAssumption == None \notin Callers \cup Servers

VARIABLES
  handle,    \* the allocation: "live", "dropping" (inside destroy), "freed"
  lock,      \* the caller inside the state mutex, or None
  poisoned,  \* the mutex was poisoned by a panic
  thread,    \* state.thread: the JoinHandle kept in the handle, or None
  stop_tx,   \* state.stop_tx: the server whose stop sender is kept, or None
  running,   \* the AtomicBool shared by the handle and its server threads
  phase,     \* where each server thread is
  signal,    \* each server's oneshot channel: "open", "sent" or "dropped"
  pc,        \* where each caller is
  own,       \* each caller's local thread_handle, taken out of the handle
  ret        \* result of each caller's last finished call

state == <<thread, stop_tx, signal>>
vars == <<handle, lock, poisoned, running, phase, pc, own, ret, state>>

StartPcs == {"start_lock", "start_check", "start_spawn"}
WaitPcs  == {"wait_take", "wait_join", "wait_clear"}
DropPcs  == {"drop_take", "drop_join", "drop_clear"}
Pcs      == {"idle", "stop_lock"} \cup StartPcs \cup WaitPcs \cup DropPcs

Finished == {"exited", "panicked"}
Alive    == {"booting", "serving", "returned", "closing"}
Phases   == {"unborn"} \cup Alive \cup Finished

TypeOK ==
  /\ handle \in {"live", "dropping", "freed"}
  /\ lock \in Callers \cup {None}
  /\ poisoned \in BOOLEAN
  /\ thread \in Servers \cup {None}
  /\ stop_tx \in Servers \cup {None}
  /\ running \in BOOLEAN
  /\ phase \in [Servers -> Phases]
  /\ signal \in [Servers -> {"open", "sent", "dropped"}]
  /\ pc \in [Callers -> Pcs]
  /\ own \in [Callers -> Servers \cup {None}]
  /\ ret \in [Callers -> {"none", "true", "false"}]

\* GrpcWebServerHandle::new: nothing runs until start is called.
Init ==
  /\ handle = "live"
  /\ lock = None
  /\ poisoned = FALSE
  /\ thread = None
  /\ stop_tx = None
  /\ running = FALSE
  /\ phase = [s \in Servers |-> "unborn"]
  /\ signal = [s \in Servers |-> "open"]
  /\ pc = [c \in Callers |-> "idle"]
  /\ own = [c \in Callers |-> None]
  /\ ret = [c \in Callers |-> "none"]

-----------------------------------------------------------------------------
(* Helpers                                                                  *)

Unborn == {s \in Servers : phase[s] = "unborn"}
Live(s) == phase[s] \in Alive

\* is_finished() of the join handle kept in the handle, if any
ThreadFinished == \E s \in Servers : thread = s /\ phase[s] \in Finished

Goto(c, l) == pc' = [pc EXCEPT ![c] = l] /\ UNCHANGED ret

Return(c, r) ==
  /\ pc' = [pc EXCEPT ![c] = "idle"]
  /\ ret' = [ret EXCEPT ![c] = r]

\* The caller finds the mutex free and sound.  lock_state returns an error on
\* a poisoned mutex (LockPoisoned).
CanLock(c, l) == pc[c] = l /\ lock = None /\ ~poisoned

\* Mutant of TakeSender: uses the sender without a look at the Option.
TakeSenderUnchecked(how) ==
  signal' = [s \in Servers \cup {stop_tx} |-> IF s = stop_tx THEN how ELSE signal[s]]

\* The sender kept in stop_tx, if any, leaves it: used ("sent") or dropped.
\* Either resolves the receiver the server thread awaits.
TakeSender(how) ==
  signal' = [s \in Servers |-> IF s = stop_tx THEN how ELSE signal[s]]

\* A caller enters a function of the C interface.
Call(c, l) ==
  /\ handle = "live"
  /\ pc[c] = "idle"
  /\ pc' = [pc EXCEPT ![c] = l]
  /\ ret' = [ret EXCEPT ![c] = "none"]
  /\ UNCHANGED <<handle, lock, poisoned, running, phase, own, state>>

\* start, stop and wait return an error, false at the C interface, when the
\* mutex is poisoned; wait does so at either of its two acquisitions.
LockPoisoned(c) ==
  /\ pc[c] \in {"start_lock", "stop_lock", "wait_take", "wait_clear"}
  /\ lock = None
  /\ poisoned
  /\ Return(c, "false")
  /\ UNCHANGED <<handle, lock, poisoned, running, phase, own, state>>

-----------------------------------------------------------------------------
(* Mutants: what a plausible bug would turn an operator below into.  No     *)
(* specification uses them; each makes one property of a run fail.          *)

\* start only looks at the flag, not at the thread field.
StartMarkFlagOnly(c) ==
  /\ pc[c] = "start_check" /\ ~running
  /\ running' = TRUE
  /\ Goto(c, "start_spawn")
  /\ UNCHANGED <<handle, lock, poisoned, phase, own, state>>

\* start leaves it to the server thread to raise the flag.
StartMarkNoFlag(c) ==
  /\ pc[c] = "start_check" /\ thread = None /\ ~running
  /\ Goto(c, "start_spawn")
  /\ UNCHANGED <<handle, lock, poisoned, running, phase, own, state>>

\* cleanup_finished_locked forgets the sender of a thread that still runs.
StartLockForgets(c) ==
  /\ CanLock(c, "start_lock")
  /\ lock' = c
  /\ thread' = IF ThreadFinished THEN None ELSE thread
  /\ running' = (running /\ ~ThreadFinished)
  /\ stop_tx' = None
  /\ TakeSender("dropped")
  /\ Goto(c, "start_check")
  /\ UNCHANGED <<handle, poisoned, phase, own>>

\* start keeps the thread but not its sender.
StartSpawnNoSender(c) ==
  /\ pc[c] = "start_spawn"
  /\ \E s \in Unborn : phase' = [phase EXCEPT ![s] = "booting"] /\ thread' = s
  /\ lock' = None
  /\ Return(c, "true")
  /\ UNCHANGED <<handle, poisoned, running, own, stop_tx, signal>>

\* wait does not wait.
WaitJoinEarly(c) ==
  /\ pc[c] = "wait_join"
  /\ own' = [own EXCEPT ![c] = None]
  /\ Goto(c, "wait_clear")
  /\ UNCHANGED <<handle, lock, poisoned, running, phase, state>>

\* wait never gets over a thread that panicked.
WaitJoinExited(c) == WaitJoinEarly(c) /\ phase[own[c]] = "exited"

\* wait keeps the mutex while it joins.
WaitTakeLocked(c) ==
  /\ CanLock(c, "wait_take")
  /\ own' = [own EXCEPT ![c] = thread]
  /\ thread' = None
  /\ IF thread = None
       THEN stop_tx' = None /\ TakeSender("dropped") /\ Goto(c, "wait_clear") /\ UNCHANGED lock
       ELSE UNCHANGED <<stop_tx, signal>> /\ Goto(c, "wait_join") /\ lock' = c
  /\ UNCHANGED <<handle, poisoned, running, phase>>

\* destroy asks the server to stop but does not keep its thread to join it.
DropTakeDetached(c) ==
  /\ CanLock(c, "drop_take")
  /\ thread' = None
  /\ stop_tx' = None
  /\ TakeSender("sent")
  /\ Goto(c, "drop_clear")
  /\ UNCHANGED <<handle, lock, poisoned, running, phase, own>>

\* destroy joins the server without asking it to stop.
DropTakeSilent(c) ==
  /\ CanLock(c, "drop_take")
  /\ own' = [own EXCEPT ![c] = thread]
  /\ thread' = None
  /\ Goto(c, IF thread = None THEN "drop_clear" ELSE "drop_join")
  /\ UNCHANGED <<handle, lock, poisoned, running, phase, stop_tx, signal>>

-----------------------------------------------------------------------------
(* start                                                                    *)

\* Bound: a call is only made while an unused server identity is left for it.
CallStart(c) ==
  /\ Cardinality({d \in Callers : pc[d] \in StartPcs}) < Cardinality(Unborn)
  /\ Call(c, "start_lock")

\* Takes the mutex and runs cleanup_finished_locked: a thread that is_finished
\* is joined and forgotten, one that is not stays.
StartLock(c) ==
  /\ CanLock(c, "start_lock")
  /\ lock' = c
  /\ \/ /\ ThreadFinished
        /\ thread' = None
        /\ stop_tx' = None
        /\ TakeSender("dropped")
        /\ running' = FALSE
     \/ /\ ~ThreadFinished
        /\ UNCHANGED <<running, state>>
  /\ Goto(c, "start_check")
  /\ UNCHANGED <<handle, poisoned, phase, own>>

\* Err(AlreadyRunning)
StartRefused(c) ==
  /\ pc[c] = "start_check"
  /\ thread # None \/ running
  /\ lock' = None
  /\ Return(c, "false")
  /\ UNCHANGED <<handle, poisoned, running, phase, own, state>>

StartMark(c) ==
  /\ pc[c] = "start_check"
  /\ thread = None /\ ~running
  /\ running' = TRUE
  /\ Goto(c, "start_spawn")
  /\ UNCHANGED <<handle, lock, poisoned, phase, own, state>>

\* Spawns the thread, stores its handle and sender, releases the mutex.  A
\* sender an unfinished wait has left behind is overwritten, hence dropped.
StartSpawn(c) ==
  /\ pc[c] = "start_spawn"
  /\ \E s \in Unborn :
        /\ phase' = [phase EXCEPT ![s] = "booting"]
        /\ thread' = s
        /\ stop_tx' = s
  /\ TakeSender("dropped")
  /\ lock' = None
  /\ Return(c, "true")
  /\ UNCHANGED <<handle, poisoned, running, own>>

\* thread::spawn panics when the OS refuses a thread.  The guard is dropped
\* while unwinding, which poisons the mutex; the C function catches the panic
\* and returns false.  The flag keeps the value it was just given.
StartSpawnPanics(c) ==
  /\ pc[c] = "start_spawn"
  /\ poisoned' = TRUE
  /\ lock' = None
  /\ Return(c, "false")
  /\ UNCHANGED <<handle, running, phase, own, state>>

-----------------------------------------------------------------------------
(* wait                                                                     *)

\* Takes the join handle out of the handle; without one, drops the sender.
WaitTake(c) ==
  /\ CanLock(c, "wait_take")
  /\ own' = [own EXCEPT ![c] = thread]
  /\ thread' = None
  /\ IF thread = None
       THEN stop_tx' = None /\ TakeSender("dropped") /\ Goto(c, "wait_clear")
       ELSE UNCHANGED <<stop_tx, signal>> /\ Goto(c, "wait_join")
  /\ UNCHANGED <<handle, lock, poisoned, running, phase>>

\* join returns once the thread is gone, panicked or not.
WaitJoin(c) ==
  /\ pc[c] = "wait_join"
  /\ phase[own[c]] \in Finished
  /\ own' = [own EXCEPT ![c] = None]
  /\ Goto(c, "wait_clear")
  /\ UNCHANGED <<handle, lock, poisoned, running, phase, state>>

\* Second critical section: whatever sender is there by now is dropped.
WaitClear(c) ==
  /\ CanLock(c, "wait_clear")
  /\ stop_tx' = None
  /\ TakeSender("dropped")
  /\ running' = FALSE
  /\ Return(c, "true")
  /\ UNCHANGED <<handle, lock, poisoned, thread, phase, own>>

-----------------------------------------------------------------------------
(* stop and is_running                                                      *)

Stop(c) ==
  /\ CanLock(c, "stop_lock")
  /\ stop_tx' = None
  /\ TakeSender("sent")
  /\ Return(c, "true")
  /\ UNCHANGED <<handle, lock, poisoned, thread, running, phase, own>>

\* One atomic load, without the mutex.
IsRunning(c) ==
  /\ handle = "live"
  /\ pc[c] = "idle"
  /\ ret' = [ret EXCEPT ![c] = IF running THEN "true" ELSE "false"]
  /\ UNCHANGED <<handle, lock, poisoned, running, phase, pc, own, state>>

-----------------------------------------------------------------------------
(* destroy: dropping the box runs shutdown_and_join                         *)

\* The caller of destroy vouches that no other thread uses the handle, now or
\* later.
Destroy(c) ==
  /\ \A d \in Callers : pc[d] = "idle"
  /\ handle = "live"
  /\ handle' = "dropping"
  /\ pc' = [pc EXCEPT ![c] = "drop_take"]
  /\ ret' = [ret EXCEPT ![c] = "none"]
  /\ UNCHANGED <<lock, poisoned, running, phase, own, state>>

DropTake(c) ==
  /\ CanLock(c, "drop_take")
  /\ stop_tx' = None
  /\ TakeSender("sent")
  /\ own' = [own EXCEPT ![c] = thread]
  /\ thread' = None
  /\ Goto(c, IF thread = None THEN "drop_clear" ELSE "drop_join")
  /\ UNCHANGED <<handle, lock, poisoned, running, phase>>

\* shutdown_and_join fails on a poisoned mutex and drop only logs it; then the
\* fields go with the allocation: the sender is dropped, a thread detached.
DropPoisoned(c) ==
  /\ pc[c] = "drop_take"
  /\ poisoned
  /\ thread' = None
  /\ stop_tx' = None
  /\ TakeSender("dropped")
  /\ handle' = "freed"
  /\ Return(c, "true")
  /\ UNCHANGED <<lock, poisoned, running, phase, own>>

DropJoin(c) ==
  /\ pc[c] = "drop_join"
  /\ phase[own[c]] \in Finished
  /\ own' = [own EXCEPT ![c] = None]
  /\ Goto(c, "drop_clear")
  /\ UNCHANGED <<handle, lock, poisoned, running, phase, state>>

DropClear(c) ==
  /\ pc[c] = "drop_clear"
  /\ running' = FALSE
  /\ handle' = "freed"
  /\ Return(c, "true")
  /\ UNCHANGED <<lock, poisoned, phase, own, state>>

-----------------------------------------------------------------------------
(* The server thread                                                        *)

Advance(s, from, to) ==
  /\ phase[s] = from
  /\ phase' = [phase EXCEPT ![s] = to]
  /\ UNCHANGED <<handle, lock, poisoned, pc, own, ret, state>>

\* The Tokio runtime and GrpcWebServer::new both succeed.
BootOk(s) == Advance(s, "booting", "serving") /\ UNCHANGED running

\* Mutants: an early return that leaves the flag up; a shutdown future that
\* only looks for a message, or only for a closed channel.
BootFailsFlagged(s) == Advance(s, "booting", "closing") /\ UNCHANGED running
ServeShutdownSent(s) ==
  signal[s] = "sent" /\ Advance(s, "serving", "returned") /\ UNCHANGED running
ServeShutdownClosed(s) ==
  signal[s] = "dropped" /\ Advance(s, "serving", "returned") /\ UNCHANGED running

\* One of them returns an error: the flag is cleared and the thread returns.
BootFails(s) == Advance(s, "booting", "closing") /\ running' = FALSE

\* GrpcWebServer::new panics (an unusable CORS layer does, see the README):
\* unwinding skips every store to the flag.
BootPanics(s) == Advance(s, "booting", "panicked") /\ UNCHANGED running

\* server.start ends by itself: bad address, bind or TLS failure, I/O error.
ServeEnds(s) == Advance(s, "serving", "returned") /\ UNCHANGED running

\* The select! in server.start sees the shutdown future resolve: stop_rx.await
\* returned, with a message or because its sender is gone.
ServeShutdown(s) ==
  /\ signal[s] # "open"
  /\ Advance(s, "serving", "returned")
  /\ UNCHANGED running

ClearFlag(s) == Advance(s, "returned", "closing") /\ running' = FALSE

\* The closure's locals, the runtime among them, are dropped; the thread ends.
Exit(s) == Advance(s, "closing", "exited") /\ UNCHANGED running

-----------------------------------------------------------------------------
CallerStep(c) ==
  \/ LockPoisoned(c)
  \/ StartLock(c) \/ StartRefused(c) \/ StartMark(c)
  \/ StartSpawn(c) \/ StartSpawnPanics(c)
  \/ WaitTake(c) \/ WaitJoin(c) \/ WaitClear(c)
  \/ Stop(c)
  \/ DropTake(c) \/ DropPoisoned(c) \/ DropJoin(c) \/ DropClear(c)

HostStep(c) ==
  \/ CallStart(c)
  \/ Call(c, "wait_take")
  \/ Call(c, "stop_lock")
  \/ IsRunning(c)
  \/ Destroy(c)

ServerStep(s) ==
  \/ BootOk(s) \/ BootFails(s) \/ BootPanics(s)
  \/ ServeEnds(s) \/ ServeShutdown(s)
  \/ ClearFlag(s) \/ Exit(s)

\* The handle is freed and every thread it started is gone.
Terminated ==
  /\ handle = "freed"
  /\ \A s \in Servers : ~Live(s)
  /\ UNCHANGED vars

Next ==
  \/ \E c \in Callers : HostStep(c) \/ CallerStep(c)
  \/ \E s \in Servers : ServerStep(s)
  \/ Terminated

Spec == Init /\ [][Next]_vars

(***************************************************************************)
(* The OS runs every thread that can run.  A call that was made goes on,   *)
(* a server thread boots, notices a resolved shutdown future and winds up. *)
(* Nothing makes a host thread call, nothing makes a server fail, and the  *)
(* mutex is not assumed to be fair among contenders (weak fairness only).  *)
(***************************************************************************)
Fairness ==
  /\ \A c \in Callers : WF_vars(CallerStep(c))
  /\ \A s \in Servers :
        /\ WF_vars(BootOk(s) \/ BootFails(s) \/ BootPanics(s))
        /\ WF_vars(ServeShutdown(s))
        /\ WF_vars(ClearFlag(s))
        /\ WF_vars(Exit(s))

FairSpec == Spec /\ Fairness

-----------------------------------------------------------------------------
(* Properties                                                               *)

\* No server thread is ever detached: while it lives, its join handle is in
\* the handle's thread field or in the hands of a wait or a destroy that will
\* join it (start never overwrites a live join handle, even when waiters have
\* emptied the field behind its back).
NoDetachedThread ==
  \A s \in Servers : Live(s) => thread = s \/ \E c \in Callers : own[c] = s

\* "dropping the handle requests graceful shutdown and waits for that thread
\* before freeing the allocation": once freed, no thread of the handle lives,
\* also when destroy meets a poisoned mutex and joins nothing.
FreedMeansReclaimed ==
  handle = "freed" => \A s \in Servers : ~Live(s)

\* A live server can always be told to stop: its sender is in the handle
\* unless its shutdown future has already been resolved.
Stoppable ==
  \A s \in Servers : Live(s) /\ signal[s] = "open" => stop_tx = s

\* is_running does not get stuck at true: when the flag is up, a start is
\* about to spawn, a server has yet to clear it, a panicked server has yet to
\* be joined, a wait or destroy is about to clear it -- or the mutex is
\* poisoned, after which nothing ever clears it.
FlagHasAnOwner ==
  running =>
    \/ poisoned
    \/ \E c \in Callers : pc[c] \in {"start_spawn", "wait_clear", "drop_clear"}
    \/ \E s \in Servers : phase[s] \in {"booting", "serving", "returned"}
    \/ \E s \in Servers :
         /\ phase[s] = "panicked"
         /\ thread = s \/ \E c \in Callers : own[c] = s

\* Two server threads of one handle never live at once, not even while the
\* older one winds up behind a flag that is down.  Holds for the hosts
\* SerialHost describes; a start while a wait is joining breaks it.
OneServerAtATime ==
  \A s, t \in Servers : Live(s) /\ Live(t) => s = t

\* start returns AlreadyRunning "when a runtime is already active": two servers
\* of one handle never boot or serve at once.  Two waits that overlap and a
\* start break even this: the wait that does not block lowers the flag of the
\* server the other one joins.
OneServerAtWork ==
  \A s, t \in Servers :
    phase[s] \in {"booting", "serving"} /\ phase[t] \in {"booting", "serving"} => s = t

\* A live server is shut down by a message from stop or destroy, never because
\* wait or start dropped its sender.  Holds under SerialHost; a second wait,
\* or a wait that finishes after a new start, breaks it.
ShutdownOnlyOnRequest ==
  \A s \in Servers : Live(s) => signal[s] # "dropped"

\* A server whose shutdown future is resolved ends.
ResolvedServerEnds ==
  \A s \in Servers : (Live(s) /\ signal[s] # "open") ~> ~Live(s)

\* destroy always comes back, with a server running or not.
DestroyReturns == handle = "dropping" ~> handle = "freed"

\* A wait blocked on a server that was told to stop gets past the join.
StoppedJoinReturns ==
  \A c \in Callers :
    (pc[c] = "wait_join" /\ signal[own[c]] # "open") ~> pc[c] # "wait_join"
=============================================================================
