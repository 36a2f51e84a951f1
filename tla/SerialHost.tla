----------------------------- MODULE SerialHost -----------------------------
(***************************************************************************)
(* A ServerHandle whose host follows one rule: no start and no wait is     *)
(* called while another thread is inside wait, and no wait while another   *)
(* is inside start.  Concurrent starts, and stop and is_running at any     *)
(* time from any thread, stay allowed.  This is how a host with one thread *)
(* in charge of start and wait, and others that stop or poll, behaves.     *)
(* Under the rule the handle implements Lifecycle; without it, it does not *)
(* (the run contract_one_server shows two waits and a start).              *)
(***************************************************************************)
EXTENDS ServerHandle

OneDriver ==
  \A c \in Callers : pc[c] = "idle" =>
    /\ pc'[c] = "start_lock" =>
         \A d \in Callers \ {c} : pc[d] \notin WaitPcs
    /\ pc'[c] = "wait_take" =>
         \A d \in Callers \ {c} : pc[d] \notin WaitPcs \cup StartPcs

SerialNext == Next /\ OneDriver

SerialSpec == Init /\ [][SerialNext]_vars

SerialFairSpec == SerialSpec /\ Fairness

-----------------------------------------------------------------------------
(* The refinement: a server is active from its spawn until its thread has   *)
(* cleaned up, and the only request a live server may have seen is a        *)
(* message.  "dropped" has no counterpart in Lifecycle.                     *)

LiveServers == {s \in Servers : Live(s)}

LC == INSTANCE Lifecycle WITH
  active   <- LiveServers,
  spent    <- {s \in Servers : phase[s] \in Finished},
  request  <- [s \in Servers |-> IF Live(s) THEN signal[s] ELSE "open"],
  released <- (handle = "freed")

\* The handle implements the abstract lifecycle, step by step.
ImplementsLifecycle == LC!LSpec

\* It also keeps the abstract promise that an asked server ends.
ImplementsFairLifecycle == LC!LFairSpec

\* While its server boots or serves, is_running says so.
ServingIsFlagged ==
  \A s \in Servers : phase[s] \in {"booting", "serving", "returned"} => running

\* "Release the lock before joining to avoid deadlocks with concurrent stop": a
\* stop that is called while another thread blocks in wait ends that wait.  The
\* stop has to find the mutex free and sound and the sender still in the
\* handle, the server has to see the message, the join has to come back.
StopEndsWait ==
  \A c, d \in Callers :
    pc[c] = "wait_join" /\ pc[d] = "stop_lock" ~> pc[c] # "wait_join"

=============================================================================
