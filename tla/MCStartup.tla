------------------------------ MODULE MCStartup ------------------------------
(* Option structs for TLC: every TLS and address choice under one CORS       *)
(* policy, and every CORS policy under one choice of the rest.                *)
EXTENDS Startup

Base ==
  [http_address |-> "addr", grpc_address |-> "addr",
   grpc_ca_cert |-> FALSE, grpc_proxy_key |-> FALSE, grpc_proxy_cert |-> FALSE,
   http_key |-> FALSE, http_cert |-> FALSE,
   origins |-> [any |-> TRUE, list |-> {}],
   methods |-> [any |-> TRUE, list |-> {}],
   headers |-> [any |-> TRUE, list |-> {}],
   credentials |-> FALSE]

TlsOptions ==
  {[Base EXCEPT !.http_address = a, !.grpc_address = g,
                !.grpc_ca_cert = ca, !.grpc_proxy_key = k, !.grpc_proxy_cert = c,
                !.http_key = hk, !.http_cert = hc] :
     a, g \in Address, ca, k, c, hk, hc \in BOOLEAN}

CorsOptions ==
  {[Base EXCEPT !.origins = o, !.methods = m, !.headers = h, !.credentials = c] :
     o, m, h \in Rule, c \in BOOLEAN}

AllOptions == TlsOptions \cup CorsOptions
=============================================================================
