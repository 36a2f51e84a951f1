------------------------------ MODULE MCTlsBoot ------------------------------
(* Option structs for TLC: every choice of TLS files that validate accepts,  *)
(* and two that it does not.                                                 *)
EXTENDS TlsBoot

Plain ==
  [http_address |-> "addr", grpc_address |-> "addr",
   grpc_ca_cert |-> FALSE, grpc_proxy_key |-> FALSE, grpc_proxy_cert |-> FALSE,
   http_key |-> FALSE, http_cert |-> FALSE,
   origins |-> [any |-> TRUE, list |-> {}],
   methods |-> [any |-> TRUE, list |-> {}],
   headers |-> [any |-> TRUE, list |-> {}],
   credentials |-> FALSE]

PemOptions ==
  {[Plain EXCEPT !.grpc_ca_cert = ca, !.grpc_proxy_key = auth, !.grpc_proxy_cert = auth,
                 !.http_key = https, !.http_cert = https] : ca, auth, https \in BOOLEAN}
  \cup {[Plain EXCEPT !.http_cert = TRUE], [Plain EXCEPT !.grpc_proxy_key = TRUE]}
=============================================================================
