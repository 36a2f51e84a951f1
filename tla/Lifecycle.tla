------------------------------ MODULE Lifecycle ------------------------------
(***************************************************************************)
(* What a server handle promises, without threads, locks or channels: it   *)
(* runs one server at a time; a server runs until it ends by itself or is  *)
(* asked to stop, never for another reason; one that was asked ends; a     *)
(* server that ended never comes back; and the handle goes away only when  *)
(* nothing runs.                                                           *)
(***************************************************************************)
CONSTANT Servers

VARIABLES
  active,    \* the servers that run now
  spent,     \* the servers that have ended
  request,   \* what each server has been told: "open" (nothing) or "sent"
  released   \* the handle is gone

lvars == <<active, spent, request, released>>

LTypeOK ==
  /\ active \subseteq Servers
  /\ spent \subseteq Servers
  /\ request \in [Servers -> {"open", "sent"}]
  /\ released \in BOOLEAN

LInit ==
  /\ active = {}
  /\ spent = {}
  /\ request = [s \in Servers |-> "open"]
  /\ released = FALSE

Launch(s) ==
  /\ ~released
  /\ active = {}
  /\ s \notin spent
  /\ active' = {s}
  /\ UNCHANGED <<spent, request, released>>

Ask(s) ==
  /\ s \in active
  /\ request' = [request EXCEPT ![s] = "sent"]
  /\ UNCHANGED <<active, spent, released>>

End(s) ==
  /\ s \in active
  /\ active' = active \ {s}
  /\ spent' = spent \cup {s}
  /\ request' = [request EXCEPT ![s] = "open"]
  /\ UNCHANGED released

Release ==
  /\ active = {}
  /\ released' = TRUE
  /\ UNCHANGED <<active, spent, request>>

LNext == Release \/ \E s \in Servers : Launch(s) \/ Ask(s) \/ End(s)

LSpec == LInit /\ [][LNext]_lvars

\* A server that was asked to stop ends.
LFairness == \A s \in Servers : WF_lvars(request[s] = "sent" /\ End(s))

LFairSpec == LSpec /\ LFairness
=============================================================================
