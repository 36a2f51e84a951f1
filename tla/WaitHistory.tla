----------------------------- MODULE WaitHistory -----------------------------
(***************************************************************************)
(* ServerHandle with a history variable: which server threads lived when   *)
(* each caller last entered wait.  It states what wait promises.           *)
(***************************************************************************)
EXTENDS SerialHost

VARIABLE met   \* per caller, the servers alive when it entered wait

hvars == <<vars, met>>

Remember ==
  met' = [c \in Callers |->
            IF pc[c] = "idle" /\ pc'[c] = "wait_take"
              THEN LiveServers ELSE met[c]]

HInit == Init /\ met = [c \in Callers |-> {}]

HSerialSpec == HInit /\ [][SerialNext /\ Remember]_hvars

HSerialFairSpec == HSerialSpec /\ Fairness

\* wait "blocks until the background server thread for handle exits": when it
\* returns true, every server that lived when it was called is gone.  Holds
\* under SerialHost; of two overlapping waits only one blocks.
WaitBlocks ==
  [][\A c \in Callers :
       pc[c] = "wait_clear" /\ pc'[c] = "idle" /\ ret'[c] = "true"
         => \A s \in met[c] : ~Live(s)]_hvars
=============================================================================
