--------------------------- MODULE CertFilesProofs ---------------------------
(***************************************************************************)
(* Proofs about the certificate library, for any number of threads,        *)
(* authorities, leaves and prefixes.                                       *)
(***************************************************************************)
EXTENDS CertFiles, TLAPS

NoneIsNot == None \notin Ids /\ None # Torn /\ None \notin Job

\* The assumptions on the constants, in one name.
LEMMA NoneFacts == NoneIsNot
BY IdAssumption, JobAssumption DEF NoneIsNot

-----------------------------------------------------------------------------
(* Types: Spec, without the rule on the host, is enough.                     *)

\* Types hold at first.
LEMMA TypeInit == Init => TypeOK
BY DEF Init, TypeOK, Content

\* No step of the library or end of a process breaks a type.
LEMMA CertTypeStep == TypeOK /\ [Next]_cvars => TypeOK'
<1> SUFFICES ASSUME TypeOK, [Next]_cvars PROVE TypeOK'
  OBVIOUS
<1> USE NoneFacts DEF NoneIsNot, TypeOK
<1>1. ASSUME NEW a \in Authorities, CreateAuthority(a) PROVE TypeOK'
  BY <1>1 DEF CreateAuthority, Make, Ids
<1>2. ASSUME NEW l \in Leaves, IssueLeaf(l) PROVE TypeOK'
  BY <1>2 DEF IssueLeaf, Issue, Make, Ids
<1>3. ASSUME NEW id \in Ids, Destroy(id) PROVE TypeOK'
  BY <1>3 DEF Destroy
<1>4. ASSUME NEW t \in Threads, NEW id \in Ids, NEW p \in Prefixes, Begin(t, id, p) PROVE TypeOK'
  <2>1. [id |-> id, prefix |-> p, part |-> "cert", open |-> FALSE] \in Job
    BY DEF Job, Parts
  <2> QED BY <1>4, <2>1 DEF Begin
<1>5. ASSUME NEW t \in Threads, job[t] # None,
             Open(t) \/ WriteCert(t) \/ WriteKey(t) \/ WriteFails(t)
      PROVE TypeOK'
  <2>1. job[t] \in Job /\ job[t].id \in Ids /\ job[t].prefix \in Prefixes /\ job[t].part \in Parts
    BY <1>5 DEF Job
  <2>2. \A part \in Parts, c \in Content : Put(job[t].prefix, part, c) =>
          file' \in [Prefixes -> [Parts -> Content]]
    BY <2>1 DEF Put
  <2>3. Torn \in Content /\ \A id \in Ids : id \in Content
    BY DEF Content
  <2>4. "cert" \in Parts /\ "key" \in Parts
    BY DEF Parts
  <2>5. CASE Open(t)
    <3>1. [job[t] EXCEPT !.open = TRUE] \in Job
      BY <2>1 DEF Job
    <3>2. job' \in [Threads -> Job \cup {None}]
      BY <2>5, <3>1 DEF Open
    <3>3. file' \in [Prefixes -> [Parts -> Content]]
      BY <2>5, <2>1, <2>2, <2>3 DEF Open
    <3> QED BY <2>5, <2>1, <3>2, <3>3 DEF Open
  <2>6. CASE WriteCert(t)
    <3>1. [job[t] EXCEPT !.part = "key", !.open = FALSE] \in Job
      BY <2>1, <2>4 DEF Job
    <3>2. job' \in [Threads -> Job \cup {None}]
      BY <2>6, <3>1 DEF WriteCert
    <3>3. file' \in [Prefixes -> [Parts -> Content]]
      BY <2>6, <2>1, <2>2, <2>3, <2>4 DEF WriteCert
    <3> QED BY <2>6, <3>2, <3>3 DEF WriteCert
  <2>7. CASE WriteKey(t)
    <3>1. file' \in [Prefixes -> [Parts -> Content]]
      BY <2>7, <2>1, <2>2, <2>3, <2>4 DEF WriteKey
    <3> QED BY <2>7, <2>1, <3>1 DEF WriteKey
  <2>8. CASE WriteFails(t)
    BY <2>8 DEF WriteFails
  <2> QED BY <1>5, <2>5, <2>6, <2>7, <2>8
<1>6. CASE ProcessEnds
  BY <1>6 DEF ProcessEnds
<1>7. CASE UNCHANGED cvars
  BY <1>7 DEF cvars
<1>8. \A a \in Authorities : a \in Ids
  BY DEF Ids
<1>9. \A l \in Leaves : l \in Ids
  BY DEF Ids
<1>10. CaPrefix \in Prefixes
  BY IdAssumption
<1>11. ASSUME NEW t \in Threads, NEW a \in Authorities, WriteAuthority(t, a) PROVE TypeOK'
  BY <1>4, <1>8, <1>10, <1>11 DEF WriteAuthority
<1>12. ASSUME NEW t \in Threads, NEW l \in Leaves, NEW p \in Prefixes, WriteLeaf(t, l, p)
       PROVE TypeOK'
  BY <1>4, <1>9, <1>12 DEF WriteLeaf
<1>13. ASSUME NEW t \in Threads, Open(t) \/ WriteCert(t) \/ WriteKey(t) \/ WriteFails(t)
       PROVE job[t] # None
  BY <1>13 DEF Open, WriteCert, WriteKey, WriteFails
<1> QED BY <1>1, <1>2, <1>3, <1>5, <1>6, <1>7, <1>11, <1>12, <1>13 DEF Next

\* Every file always holds one identity's certificate or key, nothing, or the
\* torn rest of a write; handles exist only for what was made.
THEOREM CertFilesTyped == Spec => []TypeOK
<1>1. Init => TypeOK
  BY TypeInit
<1>2. TypeOK /\ [Next]_cvars => TypeOK'
  BY CertTypeStep
<1> QED BY <1>1, <1>2, PTL DEF Spec

-----------------------------------------------------------------------------
(* Where things come from, again without the rule: threads may write one     *)
(* prefix at once, handles be destroyed and processes end as they like.      *)

\* A write under way reads a handle that has not been destroyed; what is on
\* disk was made, and so was the authority every leaf names.
Provenance ==
  /\ \A t \in Threads : job[t] # None => job[t].id \in held
  /\ \A p \in Prefixes, part \in Parts : file[p][part] \in made \cup {None, Torn}
  /\ \A l \in made \cap Leaves : Issuer[l] \in made

ProvenanceInv == TypeOK /\ Provenance

\* No write outlives its handle, and no file holds what was never generated.
THEOREM WritesUseLiveHandles == Spec => []Provenance
<1> USE NoneFacts DEF NoneIsNot
<1>1. Init => ProvenanceInv
  BY TypeInit DEF Init, ProvenanceInv, Provenance
<1>2. ASSUME ProvenanceInv, [Next]_cvars PROVE ProvenanceInv'
  <2>1. /\ TypeOK /\ TypeOK' /\ Provenance
    BY <1>2, CertTypeStep DEF ProvenanceInv
  <2> USE DEF Provenance
  <2>2. ASSUME NEW id \in Ids, Make(id), id \in Leaves => Issuer[id] \in held
        PROVE  Provenance'
    BY <2>1, <2>2 DEF Make, TypeOK
  <2>3. ASSUME NEW id \in Ids, Destroy(id)
        PROVE  Provenance'
    BY <2>1, <2>3 DEF Destroy, TypeOK
  <2>4. ASSUME NEW t \in Threads, NEW id \in Ids, NEW p \in Prefixes, Begin(t, id, p)
        PROVE  Provenance'
    BY <2>1, <2>4 DEF Begin, TypeOK
  <2>5. ASSUME NEW t \in Threads, Open(t) \/ WriteCert(t) \/ WriteKey(t) \/ WriteFails(t)
        PROVE  Provenance'
    <3>1. /\ job[t] \in Job /\ job[t].id \in made /\ made' = made /\ held' = held
          /\ job \in [Threads -> Job \cup {None}] /\ file \in [Prefixes -> [Parts -> Content]]
      BY <2>1, <2>5 DEF Open, WriteCert, WriteKey, WriteFails, TypeOK
    <3>2. \A u \in Threads : job'[u] # None => job[u] # None /\ job'[u].id = job[u].id
      BY <2>5, <3>1 DEF Open, WriteCert, WriteKey, WriteFails, Job
    <3>3. \A q \in Prefixes, part \in Parts :
            file'[q][part] = file[q][part] \/ file'[q][part] \in {Torn, job[t].id}
      BY <2>5, <3>1 DEF Open, WriteCert, WriteKey, WriteFails, Put
    <3> QED BY <2>1, <3>1, <3>2, <3>3
  <2>6. CASE ProcessEnds
    BY <2>1, <2>6 DEF ProcessEnds, TypeOK, ProvenanceInv
  <2>7. CASE UNCHANGED cvars
    BY <2>1, <2>7 DEF cvars, ProvenanceInv
  <2>8. CaPrefix \in Prefixes /\ Authorities \subseteq Ids /\ Leaves \subseteq Ids
        /\ Authorities \cap Leaves = {}
    BY IdAssumption DEF Ids
  <2> QED
    BY <1>2, <2>1, <2>2, <2>3, <2>4, <2>5, <2>6, <2>7, <2>8
       DEF ProvenanceInv, Next, CreateAuthority, IssueLeaf, Issue, WriteAuthority, WriteLeaf
<1>3. ProvenanceInv => Provenance
  BY DEF ProvenanceInv
<1> QED BY <1>1, <1>2, <1>3, PTL DEF Spec

-----------------------------------------------------------------------------
(* The pair on disk.  One prefix has one writer; between the first opening   *)
(* and the end of a write nothing is settled; and a writer that has come to  *)
(* the key finds its own certificate in place.                              *)

Exclusive ==
  \A t, u \in Threads :
    t # u /\ job[t] # None /\ job[u] # None => job[t].prefix # job[u].prefix

Midway(t) ==
  job[t] # None =>
    /\ job[t].part = "key" => file[job[t].prefix]["cert"] = job[t].id
    /\ job[t].part = "key" \/ job[t].open => settled[job[t].prefix] = None

CertInv ==
  /\ TypeOK
  /\ Exclusive
  /\ \A t \in Threads : Midway(t)
  /\ SettledPairMatches

RuledStep == Next /\ OneWriter

\* CertInv holds at first.
LEMMA CertInvInit == Init => CertInv
BY TypeInit, NoneFacts DEF NoneIsNot, Init, CertInv, Exclusive, Midway, SettledPairMatches

\* Steps of the writer t that keep the prefix of its job leave every other
\* prefix, and so every other writer, alone.
LEMMA WriterStep ==
  ASSUME CertInv, NEW t \in Threads, job[t] # None,
         Open(t) \/ WriteCert(t) \/ WriteKey(t)
  PROVE  /\ Exclusive'
         /\ \A u \in Threads : Midway(u)'
         /\ SettledPairMatches'
<1> DEFINE p == job[t].prefix
<1>1. /\ job[t] \in Job /\ p \in Prefixes
      /\ job \in [Threads -> Job \cup {None}]
      /\ file \in [Prefixes -> [Parts -> Content]]
      /\ settled \in [Prefixes -> Ids \cup {None}]
      /\ None \notin Ids /\ None \notin Job
  BY NoneFacts DEF NoneIsNot, CertInv, TypeOK, Job
<1>2. \A u \in Threads \ {t} : job'[u] = job[u]
  BY <1>1 DEF Open, WriteCert, WriteKey
<1>3. \A q \in Prefixes \ {p} : file'[q] = file[q] /\ settled'[q] = settled[q]
  BY <1>1 DEF Open, WriteCert, WriteKey, Put
<1>4. job'[t] # None => job'[t].prefix = p /\ job'[t].id = job[t].id
  <2>1. CASE Open(t)
    BY <2>1, <1>1 DEF Open, Job
  <2>2. CASE WriteCert(t)
    BY <2>2, <1>1 DEF WriteCert, Job
  <2>3. CASE WriteKey(t)
    BY <2>3, <1>1 DEF WriteKey
  <2> QED BY <2>1, <2>2, <2>3
<1>5. Exclusive'
  BY <1>2, <1>4 DEF Exclusive, CertInv
<1>6. \A u \in Threads \ {t} : Midway(u)'
  <2> SUFFICES ASSUME NEW u \in Threads \ {t}, job[u] # None PROVE Midway(u)'
    BY <1>2 DEF Midway
  <2>1. job[u].prefix \in Prefixes \ {p}
    BY <1>1 DEF Exclusive, CertInv, Job
  <2> QED BY <2>1, <1>2, <1>3 DEF Midway, CertInv
<1>7. Midway(t)' /\ (settled'[p] # None => \A part \in Parts : file'[p][part] = settled'[p])
  <2>1. CASE Open(t)
    <3>1. job'[t] = [job[t] EXCEPT !.open = TRUE]
      BY <2>1, <1>1 DEF Open
    <3>2. settled'[p] = None /\ (job[t].part = "key" => file'[p]["cert"] = file[p]["cert"])
      BY <2>1, <1>1 DEF Open, Put, Parts
    <3>3. job'[t].part = job[t].part /\ job'[t].id = job[t].id /\ job'[t].prefix = p
      BY <3>1, <1>1 DEF Job
    <3>4. job[t].part = "key" => file[p]["cert"] = job[t].id
      BY DEF CertInv, Midway
    <3> QED BY <3>2, <3>3, <3>4 DEF Midway
  <2>2. CASE WriteCert(t)
    <3>1. job'[t] = [job[t] EXCEPT !.part = "key", !.open = FALSE]
      BY <2>2, <1>1 DEF WriteCert
    <3>2. settled'[p] = None
      BY <2>2, <1>1 DEF WriteCert, CertInv, Midway
    <3>3. file'[p]["cert"] = job[t].id
      BY <2>2, <1>1 DEF WriteCert, Put, Parts
    <3>4. job'[t].id = job[t].id /\ job'[t].prefix = p
      BY <3>1, <1>1 DEF Job
    <3> QED BY <3>2, <3>3, <3>4 DEF Midway
  <2>3. CASE WriteKey(t)
    <3>1. job'[t] = None /\ settled'[p] = job[t].id
      BY <2>3, <1>1 DEF WriteKey
    <3>2. file[p]["cert"] = job[t].id
      BY <2>3 DEF WriteKey, CertInv, Midway
    <3>3. file'[p]["cert"] = job[t].id /\ file'[p]["key"] = job[t].id
      BY <2>3, <3>2, <1>1 DEF WriteKey, Put, Parts
    <3> QED BY <3>1, <3>3 DEF Midway, Parts
  <2> QED BY <2>1, <2>2, <2>3
<1>8. SettledPairMatches'
  BY <1>3, <1>7 DEF SettledPairMatches, CertInv
<1> QED BY <1>5, <1>6, <1>7, <1>8

\* Every step of a host that keeps the rule keeps CertInv.
LEMMA CertInvStep == CertInv /\ [RuledStep]_cvars => CertInv'
<1> SUFFICES ASSUME CertInv, [RuledStep]_cvars PROVE CertInv'
  OBVIOUS
<1>0. TypeOK'
  BY CertTypeStep DEF RuledStep, CertInv
<1>1. ASSUME UNCHANGED <<file, job, settled>> PROVE CertInv'
  BY <1>0, <1>1 DEF CertInv, Exclusive, Midway, SettledPairMatches
<1>2. ASSUME NEW id \in Ids, Make(id) \/ Destroy(id) PROVE CertInv'
  BY <1>1, <1>2 DEF Make, Destroy
<1>3. ASSUME NEW t \in Threads, NEW id \in Ids, NEW p \in Prefixes, Begin(t, id, p), OneWriter
      PROVE CertInv'
  <2> DEFINE j == [id |-> id, prefix |-> p, part |-> "cert", open |-> FALSE]
  <2>1. j \in Job /\ job \in [Threads -> Job \cup {None}] /\ None \notin Job
    BY NoneFacts DEF NoneIsNot, CertInv, TypeOK, Job, Parts
  <2>2. job'[t] = j /\ job[t] = None /\ \A u \in Threads \ {t} : job'[u] = job[u]
    BY <1>3, <2>1 DEF Begin
  <2>3. \A u \in Threads \ {t} : job[u] # None => job[u].prefix # p
    BY <1>3, <2>1, <2>2 DEF OneWriter
  <2>4. Exclusive'
    BY <2>2, <2>3 DEF Exclusive, CertInv
  <2>5. \A u \in Threads : Midway(u)'
    BY <1>3, <2>2 DEF Midway, CertInv, Begin
  <2>6. SettledPairMatches'
    BY <1>3 DEF Begin, SettledPairMatches, CertInv
  <2> QED BY <1>0, <2>4, <2>5, <2>6 DEF CertInv
<1>4. ASSUME NEW t \in Threads, Open(t) \/ WriteCert(t) \/ WriteKey(t) PROVE CertInv'
  <2>1. job[t] # None
    BY <1>4 DEF Open, WriteCert, WriteKey
  <2> QED BY <1>0, <1>4, <2>1, WriterStep DEF CertInv
<1>5. ASSUME NEW t \in Threads, WriteFails(t) PROVE CertInv'
  <2>1. \A u \in Threads : job'[u] = None \/ job'[u] = job[u]
    BY <1>5 DEF WriteFails, CertInv, TypeOK
  <2>2. UNCHANGED <<file, settled>>
    BY <1>5 DEF WriteFails
  <2> QED BY <1>0, <2>1, <2>2 DEF CertInv, Exclusive, Midway, SettledPairMatches
<1>6. CASE ProcessEnds
  <2>1. \A u \in Threads : job'[u] = None \/ job'[u] = job[u]
    BY <1>6 DEF ProcessEnds, CertInv, TypeOK
  <2>2. UNCHANGED <<file, settled>>
    BY <1>6 DEF ProcessEnds
  <2> QED BY <1>0, <2>1, <2>2 DEF CertInv, Exclusive, Midway, SettledPairMatches
<1>7. CASE UNCHANGED cvars
  BY <1>1, <1>7 DEF cvars
<1>8. CaPrefix \in Prefixes /\ Authorities \subseteq Ids /\ Leaves \subseteq Ids
  BY IdAssumption DEF Ids
<1>9. CASE Next /\ OneWriter
  BY <1>9, <1>2, <1>3, <1>4, <1>5, <1>6, <1>8
     DEF Next, CreateAuthority, IssueLeaf, Issue, WriteAuthority, WriteLeaf
<1> QED BY <1>7, <1>9 DEF RuledStep

\* Under the rule, whatever fails or is killed between the two files of a
\* pair, what a write that returned true has left stays a matching pair.
THEOREM SettledPairsStay == RuledSpec => []SettledPairMatches
<1>1. CertInv /\ [Next /\ OneWriter]_cvars => CertInv'
  BY CertInvStep DEF RuledStep
<1>2. CertInv => SettledPairMatches
  BY DEF CertInv
<1> QED BY CertInvInit, <1>1, <1>2, PTL DEF RuledSpec
=============================================================================
