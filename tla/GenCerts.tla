------------------------------ MODULE GenCerts ------------------------------
(***************************************************************************)
(* gen-certs (bin/gen-certs.rs) run again and again on one directory: each *)
(* run makes a new authority, writes it, and then issues and writes the    *)
(* leaves server, proxy and web one after the other.  Every step can fail, *)
(* and the process can be killed before any step; what it has written      *)
(* stays.  Runs do not overlap.                                            *)
(*                                                                         *)
(* The eight files are places 1 to 8 in the order in which a run writes    *)
(* them; the certificate of pair n is place 2n-1 and its key 2n.           *)
(***************************************************************************)
EXTENDS Naturals

CONSTANTS
  MaxRun,      \* bound: how often the tool is run
  NoFile,      \* no file, in the terms of CertFiles
  Torn         \* a torn file, likewise

ASSUME MaxRunAssumption == MaxRun \in Nat \ {0}

Runs   == 1..MaxRun
Pairs  == 1..4      \* ca, server, proxy, web
Ca     == 1
Proxy  == 3
Web    == 4
Places == 1..8
Pair(k)   == (k + 1) \div 2
CertOf(n) == 2 * n - 1
KeyOf(n)  == 2 * n

ASSUME NoFileAssumption ==
  NoFile \notin [id : Pairs \X Runs, prefix : Pairs, part : {"cert", "key"}, open : BOOLEAN]

VARIABLES
  run,      \* the number of the current or last run, 0 before the first
  step,     \* what the process does next
  at,       \* the place it has come to
  file,     \* the run that last opened each file, 0 for none
  torn,     \* the places that were opened and not written
  made,     \* how many pairs each run has made
  complete, \* the last run has ended with success
  broken    \* the pairs inside which a run ended, and which none has written
            \* since

toolvars == <<run, step, at, file, torn, made, complete, broken>>

Steps == {"idle", "make", "call", "open", "fill", "exit"}

ToolTypeOK ==
  /\ run \in 0..MaxRun
  /\ step \in Steps
  /\ at \in Places
  /\ file \in [Places -> 0..MaxRun]
  /\ torn \subseteq Places
  /\ made \in [Runs -> 0..4]
  /\ complete \in BOOLEAN
  /\ broken \subseteq Pairs

ToolInit ==
  /\ run = 0
  /\ step = "idle"
  /\ at = 1
  /\ file = [k \in Places |-> 0]
  /\ torn = {}
  /\ made = [r \in Runs |-> 0]
  /\ complete = FALSE
  /\ broken = {}

-----------------------------------------------------------------------------
\* Mutant: an authority that is there is kept.
MainKeepsAuthority ==
  /\ step = "idle"
  /\ run < MaxRun
  /\ run' = run + 1
  /\ step' = "make"
  /\ at' = IF file[CertOf(Ca)] = 0 THEN 1 ELSE 3
  /\ complete' = FALSE
  /\ UNCHANGED <<file, torn, made, broken>>

\* main, once create_dir_all has found or made the directory; a run for which
\* it fails changes nothing.
Main ==
  /\ step = "idle"
  /\ run < MaxRun
  /\ run' = run + 1
  /\ step' = "make"
  /\ at' = 1
  /\ complete' = FALSE
  /\ UNCHANGED <<file, torn, made, broken>>

\* ca::make or leaf::issue
MakePair ==
  /\ step = "make"
  /\ step' = "call"
  /\ made' = [made EXCEPT ![run] = Pair(at)]
  /\ UNCHANGED <<run, at, file, torn, complete, broken>>

\* ca::write or leaf::write is called.
CallWrite ==
  /\ step = "call"
  /\ step' = "open"
  /\ UNCHANGED <<run, at, file, torn, made, complete, broken>>

\* fs::write opens and truncates the file,
OpenFile ==
  /\ step = "open"
  /\ step' = "fill"
  /\ file' = [file EXCEPT ![at] = run]
  /\ torn' = torn \cup {at}
  /\ UNCHANGED <<run, at, made, complete, broken>>

\* Mutants: nothing stops after the last file; no key is written.
FillFilePastEnd ==
  /\ step = "fill"
  /\ torn' = torn \ {at}
  /\ at' = at + 1
  /\ step' = IF at % 2 = 1 THEN "open" ELSE "make"
  /\ broken' = IF at % 2 = 0 THEN broken \ {Pair(at)} ELSE broken
  /\ UNCHANGED <<run, file, made, complete>>

FillFileNoKey ==
  /\ step = "fill"
  /\ torn' = torn \ {at}
  /\ at' = IF at = 7 THEN at ELSE at + 2
  /\ step' = IF at = 7 THEN "exit" ELSE "make"
  /\ UNCHANGED <<run, file, made, complete, broken>>

\* and writes it.  A key is the last file of its pair, and 8 of all.
FillFile ==
  /\ step = "fill"
  /\ torn' = torn \ {at}
  /\ at' = IF at = 8 THEN at ELSE at + 1
  /\ step' = IF at = 8 THEN "exit" ELSE IF at % 2 = 1 THEN "open" ELSE "make"
  /\ broken' = IF at % 2 = 0 THEN broken \ {Pair(at)} ELSE broken
  /\ UNCHANGED <<run, file, made, complete>>

\* Some file of the pair it has come to has been opened in this run.
InsidePair == step = "fill" \/ (step = "open" /\ at % 2 = 0)

\* Mutant: an error is not propagated.
EndAlwaysSuccess ==
  /\ step # "idle"
  /\ step' = "idle"
  /\ complete' = TRUE
  /\ broken' = IF InsidePair THEN broken \cup {Pair(at)} ELSE broken
  /\ UNCHANGED <<run, at, file, torn, made>>

\* The process ends: by a ?, killed, or with success after the last write.
End ==
  /\ step # "idle"
  /\ step' = "idle"
  /\ complete' = (step = "exit")
  /\ broken' = IF InsidePair THEN broken \cup {Pair(at)} ELSE broken
  /\ UNCHANGED <<run, at, file, torn, made>>

ToolNext == Main \/ MakePair \/ CallWrite \/ OpenFile \/ FillFile \/ End

ToolSpec == ToolInit /\ [][ToolNext]_toolvars

-----------------------------------------------------------------------------
(* Properties                                                               *)

Whole(n) == torn \cap {CertOf(n), KeyOf(n)} = {} /\ file[CertOf(n)] = file[KeyOf(n)]

\* However many runs were stopped wherever, no file is ever newer than one
\* that is written before it: a directory can hold leaves of an older
\* authority beside a newer one, never the other way round.
NothingOutrunsTheAuthority ==
  \A j, k \in Places : j < k => file[k] <= file[j]

\* After a run that reported success all eight files are that run's, whatever
\* earlier runs have left behind.
SuccessMeansOneGeneration ==
  complete => torn = {} /\ \A k \in Places : file[k] = run

\* A certificate beside a key that is not its own, or a torn file, is only
\* found where a run is at work or where one ended between the first opening
\* and the last write of that pair; at the very next run that gets past the
\* pair it is whole again.
MismatchExplained ==
  \A n \in Pairs : ~Whole(n) => n \in broken \/ (InsidePair /\ n = Pair(at))

-----------------------------------------------------------------------------
(* The refinement: each run is a process of one thread that drives the       *)
(* certificate library.                                                     *)

Id(n, r) == <<n, r>>
AllIds(pairs) == {Id(n, r) : n \in pairs, r \in Runs}

\* The pairs run r has made.
MadeIn(r) == {Id(n, r) : n \in 1..made[r]}

Holds(k) ==
  IF k \in torn THEN Torn ELSE IF file[k] = 0 THEN NoFile ELSE Id(Pair(k), file[k])

Writing ==
  [id |-> Id(Pair(at), run), prefix |-> Pair(at),
   part |-> IF at % 2 = 1 THEN "cert" ELSE "key", open |-> step = "fill"]

SettledPair(n) ==
  IF file[CertOf(n)] = 0 \/ n \in broken \/ (InsidePair /\ n = Pair(at))
    THEN NoFile ELSE Id(n, file[CertOf(n)])

CF == INSTANCE CertFiles WITH
  Threads     <- {"main"},
  Authorities <- AllIds({Ca}),
  Leaves      <- AllIds(Pairs \ {Ca}),
  Issuer      <- [l \in AllIds(Pairs \ {Ca}) |-> Id(Ca, l[2])],
  Prefixes    <- Pairs,
  CaPrefix    <- Ca,
  None        <- NoFile,
  made        <- UNION {MadeIn(r) : r \in Runs},
  held        <- IF step = "idle" THEN {} ELSE MadeIn(run),
  file        <- [n \in Pairs |-> [part \in {"cert", "key"} |->
                   Holds(IF part = "cert" THEN CertOf(n) ELSE KeyOf(n))]],
  job         <- [t \in {"main"} |-> IF step \in {"open", "fill"} THEN Writing ELSE NoFile],
  settled     <- [n \in Pairs |-> SettledPair(n)]

\* A run is one legal use of the library: it writes only what it holds, in the
\* library's order, and what it relies on later is what a write that returned
\* true has left.
ImplementsCertFiles == CF!RuledSpec
=============================================================================
