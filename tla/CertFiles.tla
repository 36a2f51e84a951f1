------------------------------ MODULE CertFiles ------------------------------
(***************************************************************************)
(* The certificate library (tls/ca.rs, tls/leaf.rs) behind its C interface *)
(* (tls/ffi.rs): authorities and leaves that a host makes, holds, writes   *)
(* as two PEM files each and destroys, from several threads, in a process  *)
(* that may end at any moment.                                             *)
(*                                                                         *)
(* An identity stands for one generated key pair with its certificate: a   *)
(* certificate and a key file match when they hold the same one.           *)
(* fs::write opens and truncates, then writes, so a file may be torn.      *)
(***************************************************************************)
CONSTANTS
  Threads,       \* host threads
  Authorities,   \* the authorities a host makes, each made once
  Leaves,        \* the leaves it issues, each issued once
  Issuer,        \* the authority each leaf is issued by
  Prefixes,      \* the file name prefixes a host uses
  CaPrefix,      \* the prefix of an authority's files
  None,          \* no file, no job, nothing settled
  Torn           \* a file that was truncated and not written

Ids == Authorities \cup Leaves

ASSUME IdAssumption ==
  /\ Issuer \in [Leaves -> Authorities]
  /\ Authorities \cap Leaves = {}
  /\ CaPrefix \in Prefixes
  /\ None # Torn /\ None \notin Ids /\ Torn \notin Ids

Parts   == {"cert", "key"}
Content == Ids \cup {None, Torn}
Job     == [id : Ids, prefix : Prefixes, part : Parts, open : BOOLEAN]
ASSUME JobAssumption == None \notin Job

VARIABLES
  made,      \* the identities that exist or have existed
  held,      \* those the host has a handle of
  file,      \* what {prefix}.pem and {prefix}-key.pem hold
  job,       \* the write each thread is in
  settled    \* per prefix: what was written last, if that write returned true
             \* and no file of the prefix has been opened since

cvars == <<made, held, file, job, settled>>

TypeOK ==
  /\ made \subseteq Ids
  /\ held \subseteq made
  /\ file \in [Prefixes -> [Parts -> Content]]
  /\ job \in [Threads -> Job \cup {None}]
  /\ settled \in [Prefixes -> Ids \cup {None}]

Init ==
  /\ made = {}
  /\ held = {}
  /\ file = [p \in Prefixes |-> [part \in Parts |-> None]]
  /\ job = [t \in Threads |-> None]
  /\ settled = [p \in Prefixes |-> None]

-----------------------------------------------------------------------------
(* Handles.  A call that returns null or false at once changes nothing.     *)

\* Mutant: an issued identity is not recorded, so it may be made twice.
MakeForgets(id) ==
  /\ id \notin made
  /\ held' = held \cup {id}
  /\ UNCHANGED <<made, file, job, settled>>

\* ca::make generates a key pair each time it is called.
Make(id) ==
  /\ id \notin made
  /\ made' = made \cup {id}
  /\ held' = held \cup {id}
  /\ UNCHANGED <<file, job, settled>>

\* leaf::issue does, too, and signs with an authority the host still holds.
Issue(l) == Issuer[l] \in held /\ Make(l)

CreateAuthority(a) == Make(a)
IssueLeaf(l)       == Issue(l)

\* The caller vouches that no other thread uses the handle.
Destroy(id) ==
  /\ id \in held
  /\ \A t \in Threads : job[t] # None => job[t].id # id
  /\ held' = held \ {id}
  /\ UNCHANGED <<made, file, job, settled>>

-----------------------------------------------------------------------------
(* Writes.  Mutant: a write whose failure is ignored.                        *)

WriteFailsUnnoticed(t) ==
  /\ job[t] # None
  /\ job' = [job EXCEPT ![t] = None]
  /\ settled' = [settled EXCEPT ![job[t].prefix] = job[t].id]
  /\ UNCHANGED <<made, held, file>>

Begin(t, id, prefix) ==
  /\ job[t] = None
  /\ id \in held
  /\ job' = [job EXCEPT ![t] =
       [id |-> id, prefix |-> prefix, part |-> "cert", open |-> FALSE]]
  /\ UNCHANGED <<made, held, file, settled>>

WriteAuthority(t, a) == Begin(t, a, CaPrefix)

\* Nothing keeps a host from writing a leaf under the prefix of the authority.
WriteLeaf(t, l, prefix) == Begin(t, l, prefix)

Put(prefix, part, content) == file' = [file EXCEPT ![prefix][part] = content]

\* The file is opened and truncated.
Open(t) ==
  /\ job[t] # None
  /\ ~job[t].open
  /\ job' = [job EXCEPT ![t].open = TRUE]
  /\ Put(job[t].prefix, job[t].part, Torn)
  /\ settled' = [settled EXCEPT ![job[t].prefix] = None]
  /\ UNCHANGED <<made, held>>

\* The certificate is written before the key.
WriteCert(t) ==
  /\ job[t] # None
  /\ job[t].open /\ job[t].part = "cert"
  /\ Put(job[t].prefix, "cert", job[t].id)
  /\ job' = [job EXCEPT ![t].part = "key", ![t].open = FALSE]
  /\ UNCHANGED <<made, held, settled>>

\* The call returns true.
WriteKey(t) ==
  /\ job[t] # None
  /\ job[t].open /\ job[t].part = "key"
  /\ Put(job[t].prefix, "key", job[t].id)
  /\ settled' = [settled EXCEPT ![job[t].prefix] = job[t].id]
  /\ job' = [job EXCEPT ![t] = None]
  /\ UNCHANGED <<made, held>>

\* Opening or writing a file fails: the call returns false, and what has been
\* truncated or written stays.
WriteFails(t) ==
  /\ job[t] # None
  /\ job' = [job EXCEPT ![t] = None]
  /\ UNCHANGED <<made, held, file, settled>>

\* The process exits or is killed: its handles and threads are gone.
ProcessEnds ==
  /\ held' = {}
  /\ job' = [t \in Threads |-> None]
  /\ UNCHANGED <<made, file, settled>>

-----------------------------------------------------------------------------
Next ==
  \/ \E a \in Authorities : CreateAuthority(a)
  \/ \E l \in Leaves : IssueLeaf(l)
  \/ \E id \in Ids : Destroy(id)
  \/ \E t \in Threads :
       \/ \E a \in Authorities : WriteAuthority(t, a)
       \/ \E l \in Leaves, prefix \in Prefixes : WriteLeaf(t, l, prefix)
       \/ Open(t) \/ WriteCert(t) \/ WriteKey(t) \/ WriteFails(t)
  \/ ProcessEnds

Spec == Init /\ [][Next]_cvars

\* The rule a host needs: one prefix is written by one thread at a time, an
\* authority counting as a write of its prefix.
OneWriter ==
  \A t \in Threads : job[t] = None /\ job'[t] # None =>
    \A u \in Threads \ {t} : job[u] # None => job[u].prefix # job'[t].prefix

RuledSpec == Init /\ [][Next /\ OneWriter]_cvars

-----------------------------------------------------------------------------
(* Properties                                                               *)

\* After a write that returned true, and until the next one of its prefix
\* begins, the two files are that certificate and its key: whatever failed,
\* was killed or was written under another prefix before or meanwhile, and
\* whether an authority or a leaf had the prefix.
SettledPairMatches ==
  \A p \in Prefixes :
    settled[p] # None => \A part \in Parts : file[p][part] = settled[p]
=============================================================================
