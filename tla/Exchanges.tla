------------------------------ MODULE Exchanges ------------------------------
(***************************************************************************)
(* What the servers of one handle owe the clients they serve, without      *)
(* routers, upstreams or runtimes.  A request that was taken is answered   *)
(* or its client leaves; it goes without an answer only when its server is *)
(* winding up; a server that is gone takes nothing, and none is gone       *)
(* before every exchange it has taken is over.                             *)
(***************************************************************************)
CONSTANTS Requests, Servers

VARIABLES
  exchange,   \* "none", "open", "answered" (an answer has begun), "over", "lost"
  taker,      \* the server that has taken each request
  winding,    \* the servers that wind up
  gone        \* the servers that are gone

xvars == <<exchange, taker, winding, gone>>

XInit ==
  /\ exchange = [r \in Requests |-> "none"]
  /\ winding = {}
  /\ gone = {}

Take(r) ==
  /\ exchange[r] = "none"
  /\ exchange'[r] \in {"open", "answered"}
  /\ taker'[r] \in Servers \ gone

Progress(r) ==
  /\ <<exchange[r], exchange'[r]>> \in
       {<<"open", "answered">>, <<"open", "over">>, <<"answered", "over">>}
  /\ taker'[r] = taker[r]

Lose(r) ==
  /\ exchange[r] = "open"
  /\ exchange'[r] = "lost"
  /\ taker[r] \in winding
  /\ taker'[r] = taker[r]

Keep(r) == exchange'[r] = exchange[r] /\ taker'[r] = taker[r]

\* One failure of what the requests share may settle several at once.
XNext ==
  /\ \A r \in Requests : Keep(r) \/ Take(r) \/ Progress(r) \/ Lose(r)
  /\ winding \subseteq winding' \cup gone'
  /\ gone \subseteq gone'
  /\ \A r \in Requests : exchange'[r] \in {"open", "answered"} => taker'[r] \notin gone'

XSpec == XInit /\ [][XNext]_xvars
=============================================================================
