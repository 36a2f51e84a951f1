------------------------------- MODULE TlsBoot -------------------------------
(***************************************************************************)
(* Servers that boot on the files of gen-certs while an operator may be    *)
(* running it: Startup, with the PEM files read one by one as the code     *)
(* does, composed with GenCerts.  The operator configures the files by     *)
(* their names in the directory: ca.pem as the authority of the upstream,  *)
(* proxy as the client certificate, web as the certificate of the server.  *)
(*                                                                         *)
(* A read is one step: a PEM file is smaller than any read buffer.  What   *)
(* was truncated or only partly written gives no usable certificate or     *)
(* key.  A file that is there and whole can be read.                       *)
(***************************************************************************)
EXTENDS Startup, GenCerts

VARIABLES
  got,     \* per handle: the run whose file it has read in this boot, 0 for none
  fresh,   \* per handle: the last run of gen-certs was complete when it started
  raced    \* per handle: gen-certs has touched a file during its boot

bootvars == <<got, fresh, raced>>
tlsvars  == <<vars, toolvars, bootvars>>

TlsTypeOK ==
  /\ TypeOK
  /\ ToolTypeOK
  /\ got \in [Handles -> [Places -> 0..MaxRun]]
  /\ fresh \in [Handles -> BOOLEAN]
  /\ raced \in [Handles -> BOOLEAN]

TlsInit ==
  /\ Init
  /\ ToolInit
  /\ got = [h \in Handles |-> [k \in Places |-> 0]]
  /\ fresh = [h \in Handles |-> FALSE]
  /\ raced = [h \in Handles |-> FALSE]

-----------------------------------------------------------------------------
(* What a boot reads.  Places go up in the order of the reads, too.          *)

ClientAuth(o) == o.grpc_proxy_cert /\ o.grpc_proxy_key
Https(o)      == o.http_cert /\ o.http_key

\* GrpcWebProxy::new reads the authority, then the client certificate and its
\* key, each if configured.
ProxyFiles(o) ==
  (IF o.grpc_ca_cert THEN {CertOf(Ca)} ELSE {}) \cup
  (IF ClientAuth(o) THEN {CertOf(Proxy), KeyOf(Proxy)} ELSE {})

\* RustlsConfig::from_pem_file reads the server's certificate and key.
ServerFiles(o) == IF Https(o) THEN {CertOf(Web), KeyOf(Web)} ELSE {}

Files(o) == ProxyFiles(o) \cup ServerFiles(o)

Wanted(h) ==
  {k \in IF stage[h] = "proxy" THEN ProxyFiles(options[h]) ELSE ServerFiles(options[h]) :
     got[h][k] = 0}

Usable(k) == file[k] # 0 /\ k \notin torn

\* Mutant: nobody compares them.
NoMatch(h, n) == TRUE

\* rustls checks that a certificate and its key belong together.
Matches(h, n) == got[h][CertOf(n)] = got[h][KeyOf(n)]

Addressed(h) ==
  IF stage[h] = "proxy" THEN options[h].grpc_address # "junk"
                        ELSE options[h].http_address # "junk"

\* The next file, if the address has parsed.
NextFile(h, k) ==
  /\ stage[h] \in {"proxy", "bind"}
  /\ Addressed(h)
  /\ k \in Wanted(h)
  /\ \A j \in Wanted(h) : k <= j

ReadFile(h) ==
  /\ \E k \in Places :
       /\ NextFile(h, k)
       /\ Usable(k)
       /\ got' = [got EXCEPT ![h][k] = file[k]]
  /\ UNCHANGED <<vars, toolvars, fresh, raced>>

\* It is missing or torn.
Unreadable(h) == \E k \in Places : NextFile(h, k) /\ ~Usable(k)

-----------------------------------------------------------------------------
(* The boot: the steps of Startup, those that need files once they are read. *)

\* Mutant: what an earlier boot has read is still used.
StartBootCached(h) ==
  /\ Start(h)
  /\ fresh' = [fresh EXCEPT ![h] = complete]
  /\ raced' = [raced EXCEPT ![h] = FALSE]
  /\ UNCHANGED <<toolvars, got>>

StartBoot(h) ==
  /\ Start(h)
  /\ got' = [got EXCEPT ![h] = [k \in Places |-> 0]]
  /\ fresh' = [fresh EXCEPT ![h] = complete]
  /\ raced' = [raced EXCEPT ![h] = FALSE]
  /\ UNCHANGED toolvars

ProxyBuilt(h) ==
  /\ AddProxy(h)
  /\ Wanted(h) = {}
  /\ ClientAuth(options[h]) => Matches(h, Proxy)
  /\ UNCHANGED <<toolvars, bootvars>>

ProxyRefused(h) ==
  /\ AddProxyFails(h)
  /\ \/ ~Addressed(h)
     \/ Unreadable(h)
     \/ Wanted(h) = {} /\ ClientAuth(options[h]) /\ ~Matches(h, Proxy)
  /\ UNCHANGED <<toolvars, bootvars>>

Bound(h) ==
  /\ Bind(h)
  /\ Wanted(h) = {}
  /\ Https(options[h]) => Matches(h, Web)
  /\ UNCHANGED <<toolvars, bootvars>>

\* With the files read, they do not match or the address is taken.
BindRefused(h) ==
  /\ BindFails(h)
  /\ ~Addressed(h) \/ Unreadable(h) \/ Wanted(h) = {}
  /\ UNCHANGED <<toolvars, bootvars>>

\* The steps that touch no file.
OtherBootStep(h) ==
  /\ \/ \E o \in Options, level \in Levels : Create(h, o, level)
     \/ BuildRuntime(h) \/ Validate(h) \/ AddCors(h) \/ ServeEnds(h)
  /\ UNCHANGED <<toolvars, bootvars>>

ServerStep(h) ==
  \/ StartBoot(h) \/ ReadFile(h)
  \/ ProxyBuilt(h) \/ ProxyRefused(h) \/ Bound(h) \/ BindRefused(h)
  \/ OtherBootStep(h)

\* gen-certs goes on; booting servers that it may have disturbed are marked.
ToolStep ==
  /\ ToolNext
  /\ raced' = [h \in Handles |->
       raced[h] \/ (stage[h] \in Booting \cup {"bind"} /\ <<file, torn>>' # <<file, torn>>)]
  /\ UNCHANGED <<vars, got, fresh>>

TlsNext == ToolStep \/ \E h \in Handles : ServerStep(h)

TlsSpec == TlsInit /\ [][TlsNext]_tlsvars

-----------------------------------------------------------------------------
(* Properties                                                               *)

\* A server that was started after a complete run of gen-certs, and during
\* whose boot none touched a file, serves one generation: its certificate, the
\* authority it trusts and the client certificate it presents upstream come
\* from one run, although five files were read at two moments.
QuietBootIsOneGeneration ==
  \A h \in Handles : stage[h] \in Serving /\ fresh[h] /\ ~raced[h] =>
    \A j, k \in Files(options[h]) : got[h][j] = got[h][k]

\* Whatever runs were stopped half-way, a server trusts an authority that is
\* older than what it presents only if gen-certs wrote while it booted.
StaleAuthorityNeedsARace ==
  \A h \in Handles : stage[h] \in Serving /\ ~raced[h] =>
    \A j, k \in Files(options[h]) : j < k => got[h][k] <= got[h][j]

\* Even when gen-certs writes while it boots, a server never serves with a
\* certificate and a key of different runs, and neither does its proxy.
ServedPairsMatch ==
  \A h \in Handles : stage[h] \in Serving =>
    \A n \in {Proxy, Web} :
      CertOf(n) \in Files(options[h]) =>
        got[h][CertOf(n)] = got[h][KeyOf(n)] /\ got[h][KeyOf(n)] # 0

\* On a complete and quiet directory a boot does not fail for its files: not
\* before they are all read, and not for a pair that does not match.
QuietBootFindsItsFiles ==
  [][\A h \in Handles :
       stage[h] \in {"proxy", "bind"} /\ stage'[h] = "exited" /\ fresh[h] /\ ~raced[h] =>
         \/ ~Addressed(h)
         \/ stage[h] = "bind" /\ Wanted(h) = {} /\ (Https(options[h]) => Matches(h, Web))]_tlsvars
=============================================================================
