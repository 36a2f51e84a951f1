--------------------------- MODULE GenCertsProofs ---------------------------
(***************************************************************************)
(* Proofs about gen-certs, for any number of runs.                         *)
(***************************************************************************)
EXTENDS GenCerts, TLAPS

\* Runs are numbered from 1.
LEMMA RunFacts == MaxRun \in Nat /\ MaxRun > 0 /\ \A r \in 1..MaxRun : r \in Runs
BY MaxRunAssumption DEF Runs

\* Which pair each of the eight places belongs to.
LEMMA PlaceFacts ==
  /\ Places = {1, 2, 3, 4, 5, 6, 7, 8}
  /\ Pairs = {1, 2, 3, 4}
  /\ Pair(1) = 1 /\ Pair(2) = 1 /\ Pair(3) = 2 /\ Pair(4) = 2
  /\ Pair(5) = 3 /\ Pair(6) = 3 /\ Pair(7) = 4 /\ Pair(8) = 4
  /\ \A k \in {1, 3, 5, 7} : k % 2 = 1
  /\ \A k \in {2, 4, 6, 8} : k % 2 = 0
  /\ \A n \in Pairs : CertOf(n) = 2 * n - 1 /\ KeyOf(n) = 2 * n
<1>1. Places = {1, 2, 3, 4, 5, 6, 7, 8} /\ Pairs = {1, 2, 3, 4}
  BY DEF Places, Pairs
<1>2. /\ Pair(1) = 1 /\ Pair(2) = 1 /\ Pair(3) = 2 /\ Pair(4) = 2
      /\ Pair(5) = 3 /\ Pair(6) = 3 /\ Pair(7) = 4 /\ Pair(8) = 4
  BY DEF Pair
<1>3. \A k \in {1, 3, 5, 7} : k % 2 = 1
  OBVIOUS
<1>4. \A k \in {2, 4, 6, 8} : k % 2 = 0
  OBVIOUS
<1> QED BY <1>1, <1>2, <1>3, <1>4 DEF CertOf, KeyOf

\* The two places of a pair, and the step from a place to the next.
LEMMA PairFacts ==
  ASSUME NEW k \in Places
  PROVE  /\ Pair(k) \in Pairs
         /\ k % 2 = 1 => CertOf(Pair(k)) = k /\ KeyOf(Pair(k)) = k + 1
                         /\ Pair(k + 1) = Pair(k) /\ (k + 1) % 2 = 0 /\ k + 1 \in Places
         /\ k % 2 # 1 => k % 2 = 0 /\ KeyOf(Pair(k)) = k /\ CertOf(Pair(k)) = k - 1
                         /\ (k # 8 => k + 1 \in Places /\ (k + 1) % 2 = 1)
         /\ \A n \in Pairs : n # Pair(k) => CertOf(n) # k /\ KeyOf(n) # k
         /\ \A n \in Pairs : CertOf(n) \in Places /\ KeyOf(n) \in Places
BY PlaceFacts DEF CertOf, KeyOf

-----------------------------------------------------------------------------
(* The inductive invariant: a run has left its own files at every place it   *)
(* has passed, and what is ahead of it is not newer.                        *)

Passed ==
  step # "idle" =>
    /\ run > 0
    /\ \A k \in Places : k < at => file[k] = run /\ k \notin torn
    /\ step = "fill" => file[at] = run
    /\ step = "exit" => at = 8 /\ file[8] = run /\ 8 \notin torn
    /\ step \in {"make", "call"} => at % 2 = 1

NoneAhead == \A k \in Places : file[k] <= run

ToolInv ==
  /\ ToolTypeOK
  /\ Passed
  /\ NoneAhead
  /\ complete => step = "idle" /\ run > 0
  /\ SuccessMeansOneGeneration
  /\ NothingOutrunsTheAuthority
  /\ MismatchExplained

\* ToolInv holds of an empty directory.
LEMMA ToolInvInit == ToolInit => ToolInv
<1> SUFFICES ASSUME ToolInit PROVE ToolInv
  OBVIOUS
<1>1. ToolTypeOK
  <2>1. 0 \in 0..MaxRun /\ 0 \in 0..4 /\ 1 \in Places
    BY RunFacts, PlaceFacts
  <2> QED BY <2>1 DEF ToolInit, ToolTypeOK, Steps
<1>2. MismatchExplained
  BY PairFacts, PlaceFacts DEF ToolInit, MismatchExplained, Whole
<1> QED BY <1>1, <1>2, RunFacts, PlaceFacts
        DEF ToolInit, ToolInv, Passed, NoneAhead, SuccessMeansOneGeneration,
            NothingOutrunsTheAuthority

\* Types are kept, given what is known of the place a run has come to.
LEMMA ToolTypeStep == ToolTypeOK /\ Passed /\ [ToolNext]_toolvars => ToolTypeOK'
<1> SUFFICES ASSUME ToolTypeOK, Passed, [ToolNext]_toolvars PROVE ToolTypeOK'
  OBVIOUS
<1> USE RunFacts DEF ToolTypeOK
<1>1. CASE Main
  <2>1. run' \in 0..MaxRun /\ 1 \in Places
    BY <1>1, PlaceFacts DEF Main
  <2> QED BY <1>1, <2>1 DEF Main, Steps
<1>2. CASE MakePair
  <2>1. Pair(at) \in 0..4 /\ run \in Runs
    BY <1>2, PairFacts, PlaceFacts DEF MakePair, Passed
  <2> QED BY <1>2, <2>1 DEF MakePair, Steps
<1>3. CASE CallWrite
  BY <1>3 DEF CallWrite, Steps
<1>4. CASE OpenFile
  BY <1>4 DEF OpenFile, Steps
<1>5. CASE FillFile
  <2>1. at' \in Places
    BY <1>5, PlaceFacts DEF FillFile
  <2> QED BY <1>5, <2>1 DEF FillFile, Steps
<1>6. CASE End
  BY <1>6, PairFacts DEF End, Steps
<1>7. CASE UNCHANGED toolvars
  BY <1>7 DEF toolvars
<1> QED BY <1>1, <1>2, <1>3, <1>4, <1>5, <1>6, <1>7 DEF ToolNext

\* Every step of a run, and its end anywhere, keeps ToolInv.
LEMMA ToolInvStep == ToolInv /\ [ToolNext]_toolvars => ToolInv'
<1> SUFFICES ASSUME ToolInv, [ToolNext]_toolvars PROVE ToolInv'
  OBVIOUS
<1>0. ToolTypeOK'
  BY ToolTypeStep DEF ToolInv
<1> USE RunFacts DEF ToolInv, ToolTypeOK
<1>1. CASE Main
  <2>1. Passed' /\ NoneAhead'
    BY <1>1 DEF Main, Passed, NoneAhead, Places
  <2>2. SuccessMeansOneGeneration' /\ NothingOutrunsTheAuthority' /\ (complete => step = "idle" /\ run > 0)'
    BY <1>1 DEF Main, SuccessMeansOneGeneration, NothingOutrunsTheAuthority
  <2>3. MismatchExplained'
    BY <1>1 DEF Main, MismatchExplained, Whole, InsidePair
  <2> QED BY <1>0, <2>1, <2>2, <2>3
<1>2. CASE MakePair \/ CallWrite
  <2>1. /\ UNCHANGED <<run, at, file, torn, complete, broken>>
        /\ step \in {"make", "call"} /\ step' \in {"call", "open"}
    BY <1>2 DEF MakePair, CallWrite
  <2>2. at % 2 = 1
    BY <2>1 DEF Passed
  <2>3. Passed' /\ NoneAhead'
    BY <2>1, <2>2 DEF Passed, NoneAhead
  <2>4. SuccessMeansOneGeneration' /\ NothingOutrunsTheAuthority' /\ (complete => step = "idle" /\ run > 0)'
    BY <2>1 DEF SuccessMeansOneGeneration, NothingOutrunsTheAuthority
  <2>5. ~InsidePair
    BY <2>1 DEF InsidePair
  <2>6. MismatchExplained'
    BY <2>1, <2>5 DEF MismatchExplained, Whole
  <2> QED BY <1>0, <2>3, <2>4, <2>6
<1>3. CASE OpenFile
  <2>1. /\ at \in Places /\ run > 0 /\ step = "open" /\ step' = "fill" /\ ~complete
        /\ UNCHANGED <<run, at, complete, broken>>
        /\ file' = [file EXCEPT ![at] = run] /\ torn' = torn \cup {at}
    BY <1>3 DEF OpenFile, Passed
  <2>2. \A k \in Places : k # at => file'[k] = file[k] /\ (k \in torn' <=> k \in torn)
    BY <2>1
  <2>3. file'[at] = run
    BY <2>1
  <2>4. Passed' /\ NoneAhead'
    BY <2>1, <2>2, <2>3, PlaceFacts DEF Passed, NoneAhead
  <2>5. NothingOutrunsTheAuthority'
    <3> SUFFICES ASSUME NEW j \in Places, NEW k \in Places, j < k
                 PROVE  file'[k] <= file'[j]
      BY DEF NothingOutrunsTheAuthority
    <3>1. j \in Nat /\ k \in Nat /\ file[j] \in Nat /\ file[k] \in Nat /\ run \in Nat
      BY DEF Places
    <3>2. file[k] <= file[j] /\ file[j] <= run /\ file[k] <= run
      BY DEF NothingOutrunsTheAuthority, NoneAhead
    <3>3. j < at => file[j] = run
      BY <2>1 DEF Passed
    <3>4. CASE k = at
      BY <3>3, <3>4, <2>1, <2>2, <2>3, <3>1
    <3>5. CASE k # at
      BY <3>1, <3>2, <3>5, <2>2, <2>3
    <3> QED BY <3>4, <3>5
  <2>6. MismatchExplained'
    <3> SUFFICES ASSUME NEW n \in Pairs, n # Pair(at), ~Whole(n)' PROVE n \in broken'
      BY <2>1 DEF MismatchExplained, InsidePair
    <3>1. CertOf(n) # at /\ KeyOf(n) # at /\ CertOf(n) \in Places /\ KeyOf(n) \in Places
      BY <2>1, PairFacts
    <3>2. ~Whole(n)
      BY <3>1, <2>2 DEF Whole
    <3> QED BY <3>2, <2>1 DEF MismatchExplained
  <2> QED BY <1>0, <2>1, <2>4, <2>5, <2>6 DEF SuccessMeansOneGeneration
<1>4. CASE FillFile
  <2>1. /\ at \in Places /\ at \in Nat /\ run > 0 /\ step = "fill" /\ ~complete
        /\ UNCHANGED <<run, file, complete>>
        /\ torn' = torn \ {at} /\ file[at] = run
        /\ \A k \in Places : k < at => file[k] = run /\ k \notin torn
    BY <1>4 DEF FillFile, Passed, Places
  <2>2. \A k \in Places : k <= at => file'[k] = run' /\ k \notin torn'
    BY <2>1, PlaceFacts
  <2>3. Passed' /\ NoneAhead'
    <3>1. CASE at = 8
      BY <1>4, <2>1, <2>2, <3>1, PlaceFacts DEF FillFile, Passed, NoneAhead
    <3>2. CASE at # 8
      <4>1. at' = at + 1 /\ step' = IF at % 2 = 1 THEN "open" ELSE "make"
        BY <1>4, <3>2 DEF FillFile
      <4>2. at % 2 # 1 => at' % 2 = 1
        BY <4>1, <3>2, <2>1, PairFacts
      <4>3. \A k \in Places : k < at + 1 => k <= at
        BY <2>1 DEF Places
      <4>4. \A k \in Places : k < at' => file'[k] = run' /\ k \notin torn'
        BY <4>1, <4>3, <2>2
      <4> QED BY <4>1, <4>2, <4>4, <2>1 DEF Passed, NoneAhead
    <3> QED BY <3>1, <3>2
  <2>4. NothingOutrunsTheAuthority'
    BY <2>1 DEF NothingOutrunsTheAuthority
  <2>5. MismatchExplained'
    <3> SUFFICES ASSUME NEW n \in Pairs, ~Whole(n)'
                 PROVE  (n \in broken \/ (InsidePair /\ n = Pair(at)))'
      BY DEF MismatchExplained
    <3>1. CASE n # Pair(at)
      <4>1. CertOf(n) # at /\ KeyOf(n) # at
        BY <3>1, <2>1, PairFacts
      <4>2. ~Whole(n)
        BY <4>1, <2>1 DEF Whole
      <4>3. n \in broken
        BY <4>2, <3>1 DEF MismatchExplained
      <4> QED BY <4>3, <3>1, <1>4 DEF FillFile
    <3>2. CASE n = Pair(at) /\ at % 2 = 1
      <4>1. at # 8
        BY <3>2, PlaceFacts
      <4>2. at' = at + 1 /\ step' = "open"
        BY <4>1, <3>2, <1>4 DEF FillFile
      <4>3. Pair(at') = n /\ at' % 2 = 0
        BY <4>2, <3>2, <2>1, PairFacts
      <4> QED BY <4>2, <4>3 DEF InsidePair
    <3>3. CASE n = Pair(at) /\ at % 2 # 1
      <4>1. KeyOf(n) = at /\ CertOf(n) = at - 1 /\ CertOf(n) \in Places
        BY <3>3, <2>1, PairFacts
      <4>2. Whole(n)'
        BY <4>1, <2>1, <2>2 DEF Whole
      <4> QED BY <4>2
    <3> QED BY <3>1, <3>2, <3>3
  <2> QED BY <1>0, <2>1, <2>3, <2>4, <2>5 DEF SuccessMeansOneGeneration
<1>5. CASE End
  <2>1. /\ step # "idle" /\ step' = "idle" /\ complete' = (step = "exit")
        /\ UNCHANGED <<run, at, file, torn>>
        /\ broken' = IF InsidePair THEN broken \cup {Pair(at)} ELSE broken
    BY <1>5 DEF End
  <2>2. Passed' /\ NoneAhead' /\ NothingOutrunsTheAuthority'
    BY <2>1 DEF Passed, NoneAhead, NothingOutrunsTheAuthority
  <2>3. SuccessMeansOneGeneration'
    <3> SUFFICES ASSUME step = "exit" PROVE torn = {} /\ \A k \in Places : file[k] = run
      BY <2>1 DEF SuccessMeansOneGeneration
    <3>1. \A k \in Places : file[k] = run /\ k \notin torn
      BY <2>1, PlaceFacts DEF Passed
    <3> QED BY <3>1
  <2>4. MismatchExplained'
    BY <2>1 DEF MismatchExplained, Whole
  <2>5. step' = "idle" /\ run' > 0
    BY <2>1 DEF Passed
  <2> QED BY <1>0, <2>2, <2>3, <2>4, <2>5
<1>6. CASE UNCHANGED toolvars
  BY <1>6 DEF toolvars, Passed, NoneAhead, SuccessMeansOneGeneration,
              NothingOutrunsTheAuthority, MismatchExplained, Whole, InsidePair
<1> QED BY <1>1, <1>2, <1>3, <1>4, <1>5, <1>6 DEF ToolNext

\* In every reachable state of the tool and its directory ToolInv holds.
THEOREM ToolInvariant == ToolSpec => []ToolInv
<1> QED BY ToolInvInit, ToolInvStep, PTL DEF ToolSpec

\* Type correctness.
THEOREM ToolTyped == ToolSpec => []ToolTypeOK
<1>1. ToolInv => ToolTypeOK
  BY DEF ToolInv
<1> QED BY <1>1, ToolInvariant, PTL

\* After any number of runs, stopped anywhere, no leaf is newer than the
\* authority beside it.
THEOREM AuthorityIsNewest == ToolSpec => []NothingOutrunsTheAuthority
<1>1. ToolInv => NothingOutrunsTheAuthority
  BY DEF ToolInv
<1> QED BY <1>1, ToolInvariant, PTL

\* Success of the tool means that all eight files are of this run.
THEOREM SuccessIsOneGeneration == ToolSpec => []SuccessMeansOneGeneration
<1>1. ToolInv => SuccessMeansOneGeneration
  BY DEF ToolInv
<1> QED BY <1>1, ToolInvariant, PTL

\* A pair that does not match is where a run is at work or has stopped.
THEOREM MismatchesExplained == ToolSpec => []MismatchExplained
<1>1. ToolInv => MismatchExplained
  BY DEF ToolInv
<1> QED BY <1>1, ToolInvariant, PTL

\* A file is only ever replaced by a newer run's, and only once everything a
\* run writes before it is in place, whole and of that run: no leaf appears
\* before its authority and no key before its certificate.
ReplacedInOrder ==
  [][\A k \in Places :
       /\ file[k] <= file'[k]
       /\ k \in torn' \ torn \/ file'[k] # file[k] =>
            \A j \in Places : j < k => file[j] = run /\ j \notin torn]_toolvars

\* Wherever runs are stopped, the directory moves forward, in one order.
THEOREM DirectoryMovesForward == ToolSpec => ReplacedInOrder
<1>1. ASSUME ToolInv, [ToolNext]_toolvars
      PROVE  [\A k \in Places :
                /\ file[k] <= file'[k]
                /\ k \in torn' \ torn \/ file'[k] # file[k] =>
                     \A j \in Places : j < k => file[j] = run /\ j \notin torn]_toolvars
  <2> SUFFICES ASSUME ToolNext, NEW k \in Places
               PROVE  /\ file[k] <= file'[k]
                      /\ k \in torn' \ torn \/ file'[k] # file[k] =>
                           \A j \in Places : j < k => file[j] = run /\ j \notin torn
    BY <1>1
  <2>1. /\ file \in [Places -> 0..MaxRun] /\ at \in Places /\ run \in Nat
        /\ file[k] \in Nat /\ file[k] <= run
    BY <1>1, RunFacts DEF ToolInv, ToolTypeOK, NoneAhead
  <2>2. CASE OpenFile
    <3>1. k # at => file'[k] = file[k] /\ k \notin torn' \ torn
      BY <2>1, <2>2 DEF OpenFile
    <3>2. file'[at] = run
      BY <2>1, <2>2 DEF OpenFile
    <3>3. \A j \in Places : j < at => file[j] = run /\ j \notin torn
      BY <1>1, <2>2 DEF OpenFile, ToolInv, Passed
    <3> QED BY <2>1, <3>1, <3>2, <3>3
  <2>3. CASE Main \/ MakePair \/ CallWrite \/ FillFile \/ End
    <3>1. file' = file /\ torn' \subseteq torn
      BY <2>3 DEF Main, MakePair, CallWrite, FillFile, End
    <3> QED BY <2>1, <3>1
  <2> QED BY <2>2, <2>3 DEF ToolNext
<1> QED BY <1>1, ToolInvariant, PTL DEF ToolSpec, ReplacedInOrder

-----------------------------------------------------------------------------
(* The refinement: gen-certs implements the certificate library under its    *)
(* rule.  M... is the library's view of the tool's state.                    *)

MMade    == UNION {MadeIn(r) : r \in Runs}
MHeld    == IF step = "idle" THEN {} ELSE MadeIn(run)
MFile    == [n \in Pairs |-> [part \in {"cert", "key"} |->
              Holds(IF part = "cert" THEN CertOf(n) ELSE KeyOf(n))]]
MJob     == [t \in {"main"} |-> IF step \in {"open", "fill"} THEN Writing ELSE NoFile]
MSettled == [n \in Pairs |-> SettledPair(n)]
MView    == <<MMade, MHeld, MFile, MJob, MSettled>>

\* A run has made the pairs it has come to; the next runs have made none.
MadeInv ==
  /\ \A r \in Runs : r > run => made[r] = 0
  /\ step \notin {"idle", "make"} => made[run] = Pair(at)
  /\ step = "make" => made[run] = Pair(at) - 1

\* What the refinement needs to know of a reachable state.
LEMMA ToolFacts ==
  ASSUME ToolInv
  PROVE  /\ ToolTypeOK /\ Passed /\ run \in Nat /\ MaxRun \in Nat
         /\ made \in [Runs -> 0..4] /\ at \in Places /\ Pair(at) \in {1, 2, 3, 4}
         /\ \A r \in Runs : r \in Nat
<1>1. ToolTypeOK /\ Passed
  BY DEF ToolInv
<1>2. at \in Places /\ made \in [Runs -> 0..4]
  BY <1>1 DEF ToolTypeOK
<1>3. run \in Nat /\ MaxRun \in Nat /\ \A r \in Runs : r \in Nat
  BY <1>1, RunFacts DEF ToolTypeOK, Runs
<1>4. Pair(at) \in {1, 2, 3, 4}
  BY <1>2, PairFacts, PlaceFacts
<1> QED BY <1>1, <1>2, <1>3, <1>4

\* MadeInv holds at first.
LEMMA MadeInit == ToolInit => MadeInv
BY DEF ToolInit, MadeInv

\* The pairs of a run are made in order.
LEMMA MadeStep == ToolInv /\ MadeInv /\ [ToolNext]_toolvars => MadeInv'
<1> SUFFICES ASSUME ToolInv, MadeInv, [ToolNext]_toolvars PROVE MadeInv'
  OBVIOUS
<1> USE DEF MadeInv
<1>0. /\ ToolTypeOK /\ Passed /\ run \in Nat /\ MaxRun \in Nat
      /\ made \in [Runs -> 0..4] /\ at \in Places /\ Pair(at) \in {1, 2, 3, 4}
      /\ \A r \in Runs : r \in Nat
  BY ToolFacts
<1>1. CASE Main
  <2>1. run' = run + 1 /\ run' \in Runs /\ at' = 1 /\ step' = "make" /\ made' = made
    BY <1>0, <1>1, RunFacts DEF Main
  <2> QED BY <1>0, <2>1, PlaceFacts
<1>2. CASE MakePair
  <2>1. run \in Runs
    BY <1>0, <1>2, RunFacts DEF MakePair, Passed, ToolTypeOK
  <2> QED BY <1>0, <1>2, <2>1 DEF MakePair
<1>3. CASE CallWrite \/ OpenFile \/ End
  BY <1>3 DEF CallWrite, OpenFile, End
<1>4. CASE FillFile
  <2>1. UNCHANGED <<run, made>> /\ made[run] = Pair(at)
    BY <1>4 DEF FillFile
  <2>2. step' \in {"open", "exit"} => Pair(at') = Pair(at)
    BY <1>0, <1>4, PairFacts, PlaceFacts DEF FillFile
  <2>3. step' = "make" => Pair(at') = Pair(at) + 1
    BY <1>0, <1>4, PlaceFacts DEF FillFile
  <2>4. step' \in {"open", "exit", "make"}
    BY <1>4 DEF FillFile
  <2> QED BY <1>0, <2>1, <2>2, <2>3, <2>4
<1>5. CASE UNCHANGED toolvars
  BY <1>5 DEF toolvars
<1> QED BY <1>1, <1>2, <1>3, <1>4, <1>5 DEF ToolNext

\* An empty directory is one no library call has touched.
LEMMA ViewInit == ToolInit => CF!Init
<1> SUFFICES ASSUME ToolInit PROVE CF!Init
  OBVIOUS
<1>1. \A r \in Runs : MadeIn(r) = {}
  BY DEF ToolInit, MadeIn
<1>2. \A k \in Places : Holds(k) = NoFile
  BY DEF ToolInit, Holds
<1>3. \A n \in Pairs : SettledPair(n) = NoFile
  BY PairFacts, PlaceFacts DEF ToolInit, SettledPair
<1>4. \A n \in Pairs : CertOf(n) \in Places /\ KeyOf(n) \in Places
  BY PairFacts, PlaceFacts
<1> QED BY <1>1, <1>2, <1>3, <1>4 DEF CF!Init, ToolInit, CF!Parts

\* What the library sees when only the file at one place changes.
LEMMA FileView ==
  ASSUME NEW p \in Places, NEW part \in {"cert", "key"},
         part = IF p % 2 = 1 THEN "cert" ELSE "key",
         \A k \in Places \ {p} : Holds(k)' = Holds(k)
  PROVE  MFile' = [MFile EXCEPT ![Pair(p)][part] = Holds(p)']
<1> DEFINE At(n, q) == IF q = "cert" THEN CertOf(n) ELSE KeyOf(n)
<1>1. Pair(p) \in Pairs /\ At(Pair(p), part) = p
  BY PairFacts
<1>2. ASSUME NEW n \in Pairs, NEW q \in {"cert", "key"}, n # Pair(p) \/ q # part
      PROVE  At(n, q) \in Places \ {p}
  BY <1>2, PairFacts, PlaceFacts
<1>3. \A n \in Pairs : \A q \in {"cert", "key"} : n # Pair(p) \/ q # part =>
        Holds(At(n, q))' = Holds(At(n, q))
  BY <1>2
<1> QED BY <1>1, <1>3 DEF MFile

JobRecord ==
  [id : Pairs \X Runs, prefix : Pairs, part : {"cert", "key"}, open : BOOLEAN]

\* The write a run is in is a job of the library.
LEMMA JobRecords ==
  /\ run \in Runs /\ Pair(at) \in Pairs => Writing \in JobRecord
  /\ run' \in Runs /\ Pair(at') \in Pairs => Writing' \in JobRecord
BY DEF Writing, JobRecord, Id

\* Every step of the tool is a step of the library, or invisible to it.
LEMMA ViewStep ==
  ToolInv /\ MadeInv /\ [ToolNext]_toolvars => [CF!Next /\ CF!OneWriter]_(CF!cvars)
<1> SUFFICES ASSUME ToolInv, MadeInv, [ToolNext]_toolvars
             PROVE  CF!Next \/ UNCHANGED MView
  BY DEF CF!OneWriter, CF!cvars, MView, MMade, MHeld, MFile, MJob, MSettled
<1>0. /\ ToolTypeOK /\ Passed /\ run \in Nat /\ MaxRun \in Nat
      /\ made \in [Runs -> 0..4] /\ at \in Places /\ Pair(at) \in {1, 2, 3, 4}
      /\ \A r \in Runs : r \in Nat
  BY ToolFacts
<1>1. CASE Main
  <2>1. run + 1 \in Runs /\ made[run + 1] = 0
    BY <1>0, <1>1, RunFacts DEF Main, MadeInv
  <2>2. MHeld' = {} /\ MHeld = {}
    BY <1>1, <2>1 DEF Main, MHeld, MadeIn
  <2>3. MMade' = MMade /\ MFile' = MFile
    BY <1>1 DEF Main, MMade, MadeIn, MFile, Holds
  <2>4. MJob' = MJob
    BY <1>1 DEF Main, MJob
  <2>5. MSettled' = MSettled
    BY <1>1 DEF Main, MSettled, SettledPair, InsidePair
  <2> QED BY <2>2, <2>3, <2>4, <2>5 DEF MView
<1>2. CASE MakePair
  <2> DEFINE id == Id(Pair(at), run)
  <2>1. /\ run \in Runs /\ made[run] = Pair(at) - 1
        /\ made' = [made EXCEPT ![run] = Pair(at)]
        /\ UNCHANGED <<run, at, file, torn, broken>> /\ step = "make" /\ step' = "call"
    BY <1>0, <1>2, RunFacts DEF MakePair, Passed, ToolTypeOK, MadeInv
  <2>2. MadeIn(run)' = MadeIn(run) \cup {id}
    <3>1. made'[run] = Pair(at) /\ made[run] \in Nat /\ 1..Pair(at) = (1..made[run]) \cup {Pair(at)}
      BY <1>0, <2>1
    <3> QED BY <2>1, <3>1 DEF MadeIn
  <2>3. \A r \in Runs \ {run} : MadeIn(r)' = MadeIn(r)
    BY <1>0, <2>1 DEF MadeIn
  <2>4. MMade' = MMade \cup {id} /\ MHeld' = MHeld \cup {id}
    BY <2>1, <2>2, <2>3 DEF MMade, MHeld
  <2>5. id \notin MMade
    BY <1>0, <2>1 DEF MMade, MadeIn, Id
  <2>6. MFile' = MFile /\ MJob' = MJob /\ MSettled' = MSettled
    BY <2>1 DEF MFile, MJob, MSettled, Holds, SettledPair, InsidePair
  <2>7. CF!Make(id)
    BY <2>4, <2>5, <2>6 DEF CF!Make, MMade, MHeld, MFile, MJob, MSettled
  <2>8. CASE Pair(at) = Ca
    <3>1. id \in AllIds({Ca})
      BY <2>1, <2>8 DEF AllIds
    <3> QED BY <2>7, <3>1 DEF CF!Next, CF!CreateAuthority
  <2>9. CASE Pair(at) # Ca
    <3>1. id \in AllIds(Pairs \ {Ca})
      BY <1>0, <2>1, <2>9, PlaceFacts DEF AllIds
    <3>2. Id(Ca, id[2]) \in MHeld
      <4>1. 1 \in 1..made[run] /\ id[2] = run
        BY <1>0, <2>1, <2>9 DEF Ca, Id
      <4> QED BY <4>1, <2>1 DEF MHeld, MadeIn, Ca
    <3>3. CF!Issue(id)
      BY <2>7, <3>1, <3>2 DEF CF!Issue, MHeld
    <3> QED BY <3>1, <3>3 DEF CF!Next, CF!IssueLeaf
  <2> QED BY <2>8, <2>9
<1>3. CASE CallWrite
  <2> DEFINE id == Id(Pair(at), run)
  <2>1. /\ run \in Runs /\ made[run] = Pair(at) /\ at % 2 = 1
        /\ UNCHANGED <<run, at, file, torn, broken, made>> /\ step = "call" /\ step' = "open"
    BY <1>0, <1>3, RunFacts DEF CallWrite, Passed, ToolTypeOK, MadeInv
  <2>2. id \in MHeld
    BY <1>0, <2>1 DEF MHeld, MadeIn
  <2>3. MMade' = MMade /\ MHeld' = MHeld /\ MFile' = MFile /\ MSettled' = MSettled
    BY <2>1 DEF MMade, MHeld, MadeIn, MFile, MSettled, Holds, SettledPair, InsidePair
  <2>4. MJob["main"] = NoFile /\ MJob' = [MJob EXCEPT !["main"] =
          [id |-> id, prefix |-> Pair(at), part |-> "cert", open |-> FALSE]]
    BY <2>1 DEF MJob, Writing
  <2>5. CF!Begin("main", id, Pair(at))
    BY <2>2, <2>3, <2>4 DEF CF!Begin, MMade, MHeld, MFile, MJob, MSettled
  <2>6. CASE Pair(at) = Ca
    <3>1. id \in AllIds({Ca})
      BY <2>1, <2>6 DEF AllIds
    <3> QED BY <2>5, <2>6, <3>1 DEF CF!Next, CF!WriteAuthority
  <2>7. CASE Pair(at) # Ca
    <3>1. id \in AllIds(Pairs \ {Ca}) /\ Pair(at) \in Pairs
      BY <1>0, <2>1, <2>7, PlaceFacts DEF AllIds
    <3> QED BY <2>5, <3>1 DEF CF!Next, CF!WriteLeaf
  <2> QED BY <2>6, <2>7
<1>4. CASE OpenFile \/ FillFile
  <2>0. PICK n \in Pairs : n = Pair(at)
    BY <1>0, PlaceFacts
  <2> DEFINE part == IF at % 2 = 1 THEN "cert" ELSE "key"
             id   == Id(n, run)
  <2>1. /\ run \in Runs /\ run > 0 /\ part \in {"cert", "key"}
        /\ step \in {"open", "fill"} /\ UNCHANGED <<run, made>>
    BY <1>0, <1>4, RunFacts, PlaceFacts DEF OpenFile, FillFile, Passed, ToolTypeOK
  <2>2. MJob["main"] = Writing /\ Writing # NoFile
    <3>1. Writing \in JobRecord
      BY <2>0, <2>1, JobRecords
    <3> QED BY <2>1, <3>1, NoFileAssumption DEF MJob, JobRecord
  <2>10. /\ Writing.id = id /\ Writing.prefix = n /\ Writing.part = part
         /\ Writing.open = (step = "fill")
    BY <2>0 DEF Writing
  <2>11. MJob = [t \in {"main"} |-> Writing]
    BY <2>1 DEF MJob
  <2>3. MMade' = MMade
    BY <2>1 DEF MMade, MadeIn
  <2>4. MHeld' = MHeld
    BY <2>1, <1>4 DEF MHeld, MadeIn, OpenFile, FillFile
  <2>5. \A k \in Places \ {at} : Holds(k)' = Holds(k)
    BY <1>0, <1>4 DEF OpenFile, FillFile, Holds, ToolTypeOK
  <2>6. MFile' = [MFile EXCEPT ![n][part] = IF step = "open" THEN Torn ELSE id]
    <3> DEFINE new == IF at \in torn' THEN Torn
                      ELSE IF file'[at] = 0 THEN NoFile ELSE Id(n, file'[at])
    <3>1. MFile' = [MFile EXCEPT ![n][part] = new]
      BY <1>0, <2>0, <2>1, <2>5, FileView DEF Holds
    <3>2. step = "open" => at \in torn'
      BY <1>4 DEF OpenFile, FillFile
    <3>3. step = "fill" => at \notin torn' /\ file'[at] = run
      BY <1>0, <1>4 DEF OpenFile, FillFile, Passed
    <3>4. new = IF step = "open" THEN Torn ELSE id
      BY <1>0, <2>1, <3>2, <3>3
    <3> HIDE DEF new
    <3> QED BY <3>1, <3>4
  <2>7. CASE OpenFile
    <3>1. /\ step = "open" /\ step' = "fill" /\ at' = at /\ broken' = broken
          /\ \A k \in Places \ {at} : file'[k] = file[k]
      BY <1>0, <2>7 DEF OpenFile, ToolTypeOK
    <3>2. MJob' = [MJob EXCEPT !["main"].open = TRUE]
      <4>1. Writing' = [Writing EXCEPT !.open = TRUE]
        <5>1. /\ Writing'.id = id /\ Writing'.prefix = n /\ Writing'.part = part
              /\ Writing'.open = (step' = "fill")
          BY <2>0, <2>1, <3>1 DEF Writing
        <5>2. Writing \in JobRecord /\ Writing' \in JobRecord
          BY <2>0, <2>1, <3>1, JobRecords
        <5> QED BY <5>1, <5>2, <2>10, <3>1 DEF JobRecord
      <4>2. MJob' = [t \in {"main"} |-> Writing']
        BY <3>1 DEF MJob
      <4> QED BY <2>11, <4>1, <4>2
    <3>3. \A m \in Pairs \ {n} : SettledPair(m)' = SettledPair(m)
      BY <1>0, <2>0, <3>1, PairFacts DEF SettledPair, InsidePair
    <3>4. SettledPair(n)' = NoFile
      BY <2>0, <3>1 DEF SettledPair, InsidePair
    <3>5. MSettled' = [MSettled EXCEPT ![n] = NoFile]
      BY <3>1, <3>3, <3>4 DEF MSettled
    <3>6. MJob["main"].open = FALSE /\ MJob["main"].prefix = n /\ MJob["main"].part = part
      BY <2>2, <2>10, <3>1
    <3>7. CF!Open("main")
      BY <2>2, <2>3, <2>4, <2>6, <3>1, <3>2, <3>5, <3>6
         DEF CF!Open, CF!Put, MMade, MHeld, MFile, MJob, MSettled
    <3> QED BY <3>7 DEF CF!Next
  <2>8. CASE FillFile /\ at % 2 = 1
    <3>1. /\ step = "fill" /\ step' = "open" /\ at' = at + 1 /\ broken' = broken
          /\ file' = file /\ Pair(at') = n /\ at' % 2 = 0
      BY <1>0, <2>0, <2>8, PairFacts, PlaceFacts DEF FillFile
    <3>2. MJob' = [MJob EXCEPT !["main"].part = "key", !["main"].open = FALSE]
      <4>1. Writing' = [Writing EXCEPT !.part = "key", !.open = FALSE]
        <5>1. /\ Writing'.id = id /\ Writing'.prefix = n /\ Writing'.part = "key"
              /\ Writing'.open = (step' = "fill")
          BY <2>0, <2>1, <3>1 DEF Writing
        <5>2. Writing \in JobRecord /\ Writing' \in JobRecord
          BY <2>0, <2>1, <3>1, JobRecords
        <5>3. Writing'.open = FALSE /\ Writing.id = id /\ Writing.prefix = n
          BY <5>1, <2>10, <3>1
        <5> HIDE DEF id
        <5> QED BY <5>1, <5>2, <5>3 DEF JobRecord
      <4>2. MJob' = [t \in {"main"} |-> Writing']
        BY <3>1 DEF MJob
      <4> QED BY <2>11, <4>1, <4>2
    <3>3. MSettled' = MSettled
      BY <2>0, <3>1, <2>8 DEF MSettled, SettledPair, InsidePair
    <3>4. /\ MJob["main"].open = TRUE /\ MJob["main"].prefix = n
          /\ MJob["main"].part = "cert" /\ MJob["main"].id = id /\ part = "cert"
      BY <2>2, <2>8, <2>10, <3>1
    <3>5. CF!WriteCert("main")
      BY <2>2, <2>3, <2>4, <2>6, <3>1, <3>2, <3>3, <3>4
         DEF CF!WriteCert, CF!Put, MMade, MHeld, MFile, MJob, MSettled
    <3> QED BY <3>5 DEF CF!Next
  <2>9. CASE FillFile /\ at % 2 # 1
    <3>1. /\ step = "fill" /\ step' \in {"exit", "make"} /\ file' = file
          /\ broken' = broken \ {n}
      BY <1>0, <2>0, <2>9, PairFacts DEF FillFile
    <3>2. MJob' = [MJob EXCEPT !["main"] = NoFile]
      BY <3>1 DEF MJob
    <3>3. \A m \in Pairs \ {n} : SettledPair(m)' = SettledPair(m)
      BY <2>0, <3>1 DEF SettledPair, InsidePair
    <3>4. SettledPair(n)' = id
      <4>1. CertOf(n) = at - 1 /\ CertOf(n) \in Places /\ CertOf(n) < at
        BY <1>0, <2>0, <2>9, PairFacts DEF Places
      <4>2. file[CertOf(n)] = run
        BY <1>0, <3>1, <4>1 DEF Passed
      <4>3. run # 0 /\ n \notin broken' /\ ~InsidePair'
        BY <1>0, <2>1, <3>1 DEF InsidePair
      <4> QED BY <3>1, <4>2, <4>3 DEF SettledPair
    <3>5. MSettled' = [MSettled EXCEPT ![n] = id]
      BY <3>3, <3>4 DEF MSettled
    <3>6. /\ MJob["main"].open = TRUE /\ MJob["main"].prefix = n
          /\ MJob["main"].part = "key" /\ MJob["main"].id = id /\ part = "key"
      BY <2>2, <2>9, <2>10, <3>1
    <3>7. CF!WriteKey("main")
      BY <2>2, <2>3, <2>4, <2>6, <3>1, <3>2, <3>5, <3>6
         DEF CF!WriteKey, CF!Put, MMade, MHeld, MFile, MJob, MSettled
    <3> QED BY <3>7 DEF CF!Next
  <2> QED BY <1>4, <2>7, <2>8, <2>9
<1>5. CASE End
  <2>1. /\ step # "idle" /\ step' = "idle" /\ UNCHANGED <<run, at, file, torn, made>>
        /\ broken' = IF InsidePair THEN broken \cup {Pair(at)} ELSE broken
    BY <1>5 DEF End
  <2>2. MMade' = MMade /\ MHeld' = {} /\ MFile' = MFile
    BY <2>1 DEF MMade, MadeIn, MHeld, MFile, Holds
  <2>3. MJob' = [t \in {"main"} |-> NoFile]
    BY <2>1 DEF MJob
  <2>4. \A n \in Pairs : SettledPair(n)' = SettledPair(n)
    <3>1. ~InsidePair'
      BY <2>1 DEF InsidePair
    <3> QED BY <2>1, <3>1 DEF SettledPair
  <2>5. MSettled' = MSettled
    BY <2>4 DEF MSettled
  <2>6. CF!ProcessEnds
    BY <2>2, <2>3, <2>5 DEF CF!ProcessEnds, MMade, MHeld, MFile, MJob, MSettled
  <2> QED BY <2>6 DEF CF!Next
<1>6. CASE UNCHANGED toolvars
  BY <1>6 DEF toolvars, MView, MMade, MadeIn, MHeld, MFile, MJob, MSettled, Holds, Writing,
              SettledPair, InsidePair
<1> QED BY <1>1, <1>2, <1>3, <1>4, <1>5, <1>6 DEF ToolNext

\* Every run of gen-certs, whatever stops it, is a use of the certificate
\* library that keeps its rule: what SettledPairsStay says of such hosts holds
\* of the tool.
THEOREM GenCertsUsesTheLibrary == ToolSpec => ImplementsCertFiles
<1>1. ToolInit => CF!Init /\ MadeInv
  BY ViewInit, MadeInit
<1>2. ToolInv /\ MadeInv /\ [ToolNext]_toolvars => MadeInv'
  BY MadeStep
<1>3. ToolInv /\ MadeInv /\ [ToolNext]_toolvars => [CF!Next /\ CF!OneWriter]_(CF!cvars)
  BY ViewStep
<1> QED BY <1>1, <1>2, <1>3, ToolInvariant, PTL DEF ToolSpec, ImplementsCertFiles, CF!RuledSpec
=============================================================================
