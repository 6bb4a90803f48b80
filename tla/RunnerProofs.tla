----------------------------- MODULE RunnerProofs -----------------------------
(***************************************************************************)
(* Proofs about module Runner, for every number of hosts, concurrency and  *)
(* failure limit: the counters count what they should (IInv is inductive), *)
(* the bound on failed hosts holds, also for a limit that was given in     *)
(* percent, and Run implements module Rollout.                             *)
(***************************************************************************)
EXTENDS Runner, FiniteSetTheorems, TLAPS

\* Hosts whose goroutine is in runHost.
Busy == {i \in Hosts : stage[i] = "run"}

\* Nothing but finite sets of hosts is counted.
LEMMA HostSets ==
  ASSUME NEW S \in SUBSET Hosts
  PROVE  IsFiniteSet(S) /\ Cardinality(S) \in Nat
<1>1. IsFiniteSet(Hosts)
  BY RunnerAssumption, FS_Interval DEF Hosts
<1>2. IsFiniteSet(S)
  BY <1>1, FS_Subset
<1> QED
  BY <1>2, FS_CardinalityType

LEMMA OneMoreHost ==
  ASSUME NEW S \in SUBSET Hosts, NEW i \in Hosts, i \notin S
  PROVE  Cardinality(S \cup {i}) = Cardinality(S) + 1
BY HostSets, FS_AddElement

LEMMA OneHostLess ==
  ASSUME NEW S \in SUBSET Hosts, NEW i \in S
  PROVE  Cardinality(S \ {i}) = Cardinality(S) - 1
BY HostSets, FS_RemoveElement

LEMMA FewerHosts ==
  ASSUME NEW T \in SUBSET Hosts, NEW S \in SUBSET T
  PROVE  Cardinality(S) <= Cardinality(T)
BY HostSets, FS_Subset

LEMMA HostsTogether ==
  ASSUME NEW S \in SUBSET Hosts, NEW T \in SUBSET Hosts
  PROVE  Cardinality(S \cup T) <= Cardinality(S) + Cardinality(T)
<1>1. Cardinality(S \cup T)
        = Cardinality(S) + Cardinality(T) - Cardinality(S \cap T)
  BY HostSets, FS_Union
<1> QED
  BY <1>1, HostSets

LEMMA HostsApart ==
  ASSUME NEW S \in SUBSET Hosts, NEW T \in SUBSET Hosts, S \cap T = {}
  PROVE  Cardinality(S \cup T) = Cardinality(S) + Cardinality(T)
<1>1. Cardinality(S \cup T)
        = Cardinality(S) + Cardinality(T) - Cardinality(S \cap T)
  BY HostSets, FS_Union
<1>2. Cardinality(S \cap T) = 0
  BY FS_EmptySet
<1> QED
  BY <1>1, <1>2, HostSets

LEMMA ConcPositive == Conc \in Nat /\ Conc >= 1
BY RunnerAssumption DEF Conc

LEMMA SetsOfHosts ==
  /\ Live \in SUBSET Hosts
  /\ Goroutines \in SUBSET Hosts
  /\ Busy \in SUBSET Hosts
  /\ FailedCounted \in SUBSET Hosts
  /\ Uncounted \in SUBSET Hosts
BY DEF Live, Goroutines, Busy, FailedCounted, Uncounted

\* A step that changes none of the counted sets and no counter.
LEMMA QuietStep ==
  ASSUME Accounting, FailureBudget,
         Live' = Live, Goroutines' = Goroutines, Busy' = Busy,
         FailedCounted' = FailedCounted, Uncounted' = Uncounted,
         UNCHANGED <<sem, wg, running, failed>>,
         (mpc' \in {"check", "spawn"}) = (mpc \in {"check", "spawn"})
  PROVE  Accounting' /\ FailureBudget'
BY DEF Accounting, ConcurrencyBound, FailureBudget, Busy

LEMMA InitIInv == Init => IInv
<1> SUFFICES ASSUME Init PROVE IInv
  OBVIOUS
<1> USE RunnerAssumption DEF RunnerAssumption
<1>1. TypeOK
  <2>1. summary \in [total : Nat, success : Nat, failed : Nat, cancelled : Nat,
                     skipped : Nat]
    BY DEF Init, NoSummary
  <2>2. line \in Seq(Nat)
    BY DEF Init
  <2>3. streamed \in Seq(Hosts)
    BY DEF Init
  <2>4. /\ stage \in [Hosts -> Stages]
        /\ outcome \in [Hosts -> Statuses \cup {"NONE"}]
        /\ result \in [Hosts -> Statuses \cup {"NONE"}]
    BY DEF Init, Statuses, Stages
  <2>5. /\ next \in 1..(N + 1)
        /\ sem \in Nat /\ wg \in Nat /\ running \in Nat
        /\ failed \in Nat /\ done \in Nat
    BY DEF Init
  <2> QED
    BY <2>1, <2>2, <2>3, <2>4, <2>5 DEF Init, TypeOK
<1>2. Bookkeeping
  BY DEF Init, Bookkeeping, Hosts
<1>3. Live = {} /\ Goroutines = {} /\ Busy = {} /\ FailedCounted = {} /\ Uncounted = {}
  BY DEF Init, Live, Goroutines, Busy, FailedCounted, Uncounted, ByMain
<1>4. Accounting
  <2>1. Cardinality({}) = 0
    BY FS_EmptySet
  <2>2. ConcurrencyBound
    BY <1>3, <2>1, ConcPositive DEF Init, ConcurrencyBound
  <2> QED
    BY <1>3, <2>1, <2>2 DEF Init, Accounting, Busy
<1>5. FailureBudget
  BY <1>3, FS_EmptySet, ConcPositive DEF FailureBudget
<1> QED
  BY <1>1, <1>2, <1>4, <1>5 DEF IInv

-----------------------------------------------------------------------------
(* The steps of the main goroutine.                                        *)

LEMMA AcquireStep == ASSUME IInv, Acquire PROVE IInv'
<1> USE RunnerAssumption DEF RunnerAssumption, Acquire
<1>1. TypeOK'
  BY DEF IInv, TypeOK
<1>2. Bookkeeping'
  BY DEF IInv, TypeOK, Bookkeeping, Hosts, ByMain
<1>3. /\ Live' = Live /\ Goroutines' = Goroutines /\ Busy' = Busy
      /\ FailedCounted' = FailedCounted /\ Uncounted' = Uncounted
  BY DEF IInv, Live, Goroutines, Busy, FailedCounted, Uncounted, ByMain
<1>4. Accounting'
  <2>1. Cardinality(Live) \in Nat
    BY HostSets, SetsOfHosts
  <2>2. sem = Cardinality(Live)
    BY <2>1 DEF IInv, Accounting, ConcurrencyBound
  <2>3. ConcurrencyBound'
    BY <1>3, <2>1, <2>2, ConcPositive DEF ConcurrencyBound
  <2> QED
    BY <1>3, <2>3 DEF IInv, Accounting, Busy
<1>5. FailureBudget'
  BY <1>3 DEF IInv, FailureBudget
<1> QED
  BY <1>1, <1>2, <1>4, <1>5 DEF IInv

LEMMA CancelBeforeStartStep == ASSUME IInv, CancelBeforeStart PROVE IInv'
<1> USE RunnerAssumption DEF RunnerAssumption, CancelBeforeStart
<1>1. TypeOK'
  BY DEF IInv, TypeOK, Statuses, Stages, Hosts
<1>2. Bookkeeping'
  BY DEF IInv, TypeOK, Bookkeeping, Hosts, ByMain
<1>3. /\ Live' = Live /\ Goroutines' = Goroutines /\ Busy' = Busy
      /\ FailedCounted' = FailedCounted /\ Uncounted' = Uncounted
  BY DEF IInv, TypeOK, Bookkeeping, Hosts, Live, Goroutines, Busy, FailedCounted,
         Uncounted, ByMain
<1>4. Accounting' /\ FailureBudget'
  BY <1>3, QuietStep DEF IInv
<1> QED
  BY <1>1, <1>2, <1>4 DEF IInv

LEMMA SkipHostStep == ASSUME IInv, SkipHost PROVE IInv'
<1> USE RunnerAssumption DEF RunnerAssumption, SkipHost
<1>1. sem - 1 \in Nat /\ sem = Cardinality(Live) + 1
  BY HostSets, SetsOfHosts DEF IInv, Accounting, ConcurrencyBound
<1>2. TypeOK'
  BY <1>1 DEF IInv, TypeOK, Bookkeeping, Statuses, Stages, Hosts
<1>3. Bookkeeping'
  BY DEF IInv, TypeOK, Bookkeeping, Hosts, ByMain
<1>4. /\ Live' = Live /\ Goroutines' = Goroutines /\ Busy' = Busy
      /\ FailedCounted' = FailedCounted /\ Uncounted' = Uncounted
  BY DEF IInv, TypeOK, Bookkeeping, Hosts, Live, Goroutines, Busy, FailedCounted,
         Uncounted, ByMain
<1>5. Accounting'
  <2>1. ConcurrencyBound'
    BY <1>1, <1>4, HostSets, SetsOfHosts, ConcPositive
       DEF IInv, Accounting, ConcurrencyBound
  <2> QED
    BY <1>4, <2>1 DEF IInv, Accounting, Busy
<1>6. FailureBudget'
  BY <1>4 DEF IInv, FailureBudget
<1> QED
  BY <1>2, <1>3, <1>5, <1>6 DEF IInv

\* The step that decides: the host joins those that may fail only while
\* fewer than MaxFailures failures are counted, and the others that may fail
\* all hold one of the remaining Conc - 1 slots.
LEMMA AdmitStep == ASSUME IInv, Admit PROVE IInv'
<1> USE RunnerAssumption DEF RunnerAssumption, Admit
<1>1. TypeOK'
  BY DEF IInv, TypeOK
<1>2. Bookkeeping'
  BY DEF IInv, TypeOK, Bookkeeping, Hosts, ByMain
<1>3. /\ Live' = Live /\ Goroutines' = Goroutines /\ Busy' = Busy
      /\ FailedCounted' = FailedCounted
  BY DEF IInv, Live, Goroutines, Busy, FailedCounted, ByMain
<1>4. next \in Hosts /\ stage[next] = "queued"
  BY DEF IInv, TypeOK, Bookkeeping, Hosts, ByMain
<1>5. Uncounted' = Uncounted \cup {next} /\ next \notin Live
  BY <1>4 DEF Uncounted, ByMain, Live
<1>6. Uncounted \subseteq Live
  BY DEF Uncounted, Live
<1>7. Accounting'
  BY <1>3 DEF IInv, Accounting, ConcurrencyBound, Busy
<1>8. FailureBudget'
  <2> SUFFICES ASSUME MaxFailures > 0
               PROVE  Cardinality(FailedCounted \cup (Uncounted \cup {next}))
                        <= MaxFailures + Conc - 1
    BY <1>3, <1>5 DEF FailureBudget
  <2>1. Cardinality(FailedCounted) <= MaxFailures - 1
    BY HostSets, SetsOfHosts DEF IInv, Accounting, LimitReached
  <2>2. Cardinality(Uncounted \cup {next}) <= Conc
    <3>1. Cardinality(Live \cup {next}) = Cardinality(Live) + 1
      BY <1>4, <1>5, OneMoreHost, SetsOfHosts
    <3>2. Cardinality(Uncounted \cup {next}) <= Cardinality(Live \cup {next})
      BY <1>4, <1>6, FewerHosts, SetsOfHosts
    <3>3. sem <= Conc /\ sem = Cardinality(Live) + 1
      BY DEF IInv, Accounting, ConcurrencyBound
    <3> QED
      BY <3>1, <3>2, <3>3, <1>4, HostSets, SetsOfHosts, ConcPositive
  <2>3. Cardinality(FailedCounted \cup (Uncounted \cup {next}))
          <= Cardinality(FailedCounted) + Cardinality(Uncounted \cup {next})
    BY <1>4, HostsTogether, SetsOfHosts
  <2> QED
    BY <2>1, <2>2, <2>3, <1>4, HostSets, SetsOfHosts, ConcPositive
<1> QED
  BY <1>1, <1>2, <1>7, <1>8 DEF IInv

LEMMA SpawnStep == ASSUME IInv, Spawn PROVE IInv'
<1> USE RunnerAssumption DEF RunnerAssumption, Spawn
<1>1. TypeOK'
  BY DEF IInv, TypeOK, Bookkeeping, Stages, Hosts
<1>2. Bookkeeping'
  BY DEF IInv, TypeOK, Bookkeeping, Hosts, ByMain
<1>3. next \in Hosts /\ stage[next] = "queued"
  BY DEF IInv, TypeOK, Bookkeeping, Hosts, ByMain
<1>4. /\ Live' = Live \cup {next} /\ next \notin Live
      /\ Goroutines' = Goroutines \cup {next} /\ next \notin Goroutines
      /\ Busy' = Busy \cup {next} /\ next \notin Busy
  BY <1>3 DEF IInv, TypeOK, Live, Goroutines, Busy, ByMain
<1>5. FailedCounted' = FailedCounted /\ Uncounted' = Uncounted
  BY <1>3 DEF IInv, TypeOK, FailedCounted, Uncounted, ByMain
<1>6. /\ Cardinality(Live') = Cardinality(Live) + 1
      /\ Cardinality(Goroutines') = Cardinality(Goroutines) + 1
      /\ Cardinality(Busy') = Cardinality(Busy) + 1
  BY <1>3, <1>4, OneMoreHost, SetsOfHosts
<1>7. ConcurrencyBound'
  BY <1>6, HostSets, SetsOfHosts DEF IInv, Accounting, ConcurrencyBound
<1>8. Accounting'
  BY <1>5, <1>6, <1>7 DEF IInv, Accounting, Busy
<1>9. FailureBudget'
  BY <1>5 DEF IInv, FailureBudget
<1> QED
  BY <1>1, <1>2, <1>8, <1>9 DEF IInv

LEMMA ContinueStep == ASSUME IInv, Continue PROVE IInv'
<1> USE RunnerAssumption DEF RunnerAssumption, Continue
<1>1. TypeOK'
  BY DEF IInv, TypeOK, Bookkeeping
<1>2. Bookkeeping'
  BY DEF IInv, TypeOK, Bookkeeping, Hosts, ByMain
<1>3. /\ Live' = Live /\ Goroutines' = Goroutines /\ Busy' = Busy
      /\ FailedCounted' = FailedCounted /\ Uncounted' = Uncounted
  BY DEF IInv, TypeOK, Bookkeeping, Hosts, Live, Goroutines, Busy, FailedCounted,
         Uncounted, ByMain
<1>4. Accounting' /\ FailureBudget'
  BY <1>3, QuietStep DEF IInv
<1> QED
  BY <1>1, <1>2, <1>4 DEF IInv

LEMMA LoopEndStep == ASSUME IInv, LoopEnd PROVE IInv'
<1> USE RunnerAssumption DEF RunnerAssumption, LoopEnd
<1>1. TypeOK'
  BY DEF IInv, TypeOK
<1>2. Bookkeeping'
  BY DEF IInv, TypeOK, Bookkeeping, Hosts, ByMain
<1>3. /\ Live' = Live /\ Goroutines' = Goroutines /\ Busy' = Busy
      /\ FailedCounted' = FailedCounted /\ Uncounted' = Uncounted
  BY DEF IInv, TypeOK, Bookkeeping, Hosts, Live, Goroutines, Busy, FailedCounted,
         Uncounted, ByMain
<1>4. Accounting' /\ FailureBudget'
  BY <1>3, QuietStep DEF IInv
<1> QED
  BY <1>1, <1>2, <1>4 DEF IInv

LEMMA WaitAllStep == ASSUME IInv, WaitAll PROVE IInv'
<1> USE RunnerAssumption DEF RunnerAssumption, WaitAll
<1>1. summary' \in [total : Nat, success : Nat, failed : Nat, cancelled : Nat,
                    skipped : Nat]
  BY HostSets DEF Summarize
<1>2. TypeOK'
  BY <1>1 DEF IInv, TypeOK
<1>3. Bookkeeping'
  BY DEF IInv, TypeOK, Bookkeeping, Hosts, ByMain
<1>4. /\ Live' = Live /\ Goroutines' = Goroutines /\ Busy' = Busy
      /\ FailedCounted' = FailedCounted /\ Uncounted' = Uncounted
  BY DEF Live, Goroutines, Busy, FailedCounted, Uncounted, ByMain
<1>5. Accounting' /\ FailureBudget'
  BY <1>4, QuietStep DEF IInv
<1> QED
  BY <1>2, <1>3, <1>5 DEF IInv

LEMMA ReturnStep == ASSUME IInv, Return PROVE IInv'
<1> USE RunnerAssumption DEF RunnerAssumption, Return
<1>1. TypeOK'
  BY DEF IInv, TypeOK
<1>2. Bookkeeping'
  BY DEF IInv, TypeOK, Bookkeeping, Hosts, ByMain
<1>3. /\ Live' = Live /\ Goroutines' = Goroutines /\ Busy' = Busy
      /\ FailedCounted' = FailedCounted /\ Uncounted' = Uncounted
  BY DEF Live, Goroutines, Busy, FailedCounted, Uncounted, ByMain
<1>4. Accounting' /\ FailureBudget'
  BY <1>3, QuietStep DEF IInv
<1> QED
  BY <1>1, <1>2, <1>4 DEF IInv

-----------------------------------------------------------------------------
(* The steps of a host's goroutine and of finish.                          *)

LEMMA RunHostStep == ASSUME NEW i \in Hosts, IInv, RunHost(i) PROVE IInv'
<1> USE RunnerAssumption DEF RunnerAssumption, RunHost, HostStatuses
<1>1. /\ Live' = Live /\ Goroutines' = Goroutines
      /\ FailedCounted' = FailedCounted /\ Uncounted' = Uncounted
  BY DEF IInv, TypeOK, Bookkeeping, Hosts, Live, Goroutines, FailedCounted,
         Uncounted, ByMain
<1>2. i \in Busy /\ Busy' = Busy \ {i}
  BY DEF IInv, TypeOK, Busy
<1>3. Cardinality(Busy') = Cardinality(Busy) - 1
  BY <1>2, OneHostLess, SetsOfHosts
<1>4. running = Cardinality(Busy) /\ running' = Cardinality(Busy') /\ running' \in Nat
  <2>1. Cardinality(Busy \ {i}) \in Nat
    BY HostSets, SetsOfHosts
  <2>2. running = Cardinality(Busy)
    BY DEF IInv, Accounting, Busy
  <2> QED
    BY <1>2, <1>3, <2>1, <2>2
<1>5. outcome' \in [Hosts -> Statuses \cup {"NONE"}] /\ outcome'[i] \in Statuses
  BY DEF IInv, TypeOK, Statuses
<1>6. TypeOK'
  BY <1>4, <1>5 DEF IInv, TypeOK, Stages
<1>7. Bookkeeping'
  BY DEF IInv, TypeOK, Bookkeeping, Hosts, ByMain
<1>8. Accounting' /\ FailureBudget'
  BY <1>1, <1>4 DEF IInv, Accounting, ConcurrencyBound, FailureBudget, Busy
<1> QED
  BY <1>6, <1>7, <1>8 DEF IInv

LEMMA StoreStep == ASSUME NEW i \in Hosts, IInv, Store(i) PROVE IInv'
<1> USE RunnerAssumption DEF RunnerAssumption, Store
<1>1. TypeOK'
  BY DEF IInv, TypeOK, Stages
<1>2. Bookkeeping'
  BY DEF IInv, TypeOK, Bookkeeping, Hosts, ByMain
<1>3. /\ Live' = Live /\ Goroutines' = Goroutines /\ Busy' = Busy
      /\ FailedCounted' = FailedCounted /\ Uncounted' = Uncounted
  BY DEF IInv, TypeOK, Bookkeeping, Hosts, Live, Goroutines, Busy, FailedCounted,
         Uncounted, ByMain
<1>4. Accounting' /\ FailureBudget'
  BY <1>3, QuietStep DEF IInv
<1> QED
  BY <1>1, <1>2, <1>4 DEF IInv

\* A failed host leaves the hosts that may fail for those that have failed
\* in one step: the two together never grow here.
LEMMA CountFailedStep == ASSUME NEW i \in Hosts, IInv, CountFailed(i) PROVE IInv'
<1> USE RunnerAssumption DEF RunnerAssumption, CountFailed
<1>1. TypeOK'
  BY DEF IInv, TypeOK, Stages
<1>2. Bookkeeping'
  BY DEF IInv, TypeOK, Bookkeeping, Hosts, ByMain
<1>3. Live' = Live /\ Goroutines' = Goroutines /\ Busy' = Busy
  BY DEF IInv, TypeOK, Live, Goroutines, Busy, ByMain
<1>4. Uncounted' \subseteq Uncounted
  BY DEF IInv, TypeOK, Uncounted, ByMain
<1>5. CASE outcome[i] = "FAILED"
  <2>1. FailedCounted' = FailedCounted \cup {i} /\ i \notin FailedCounted
    BY <1>5 DEF IInv, TypeOK, FailedCounted
  <2>2. i \in Uncounted
    BY <1>5 DEF IInv, TypeOK, Bookkeeping, Uncounted, ByMain
  <2>3. Cardinality(FailedCounted') = Cardinality(FailedCounted) + 1
    BY <2>1, OneMoreHost, SetsOfHosts
  <2>4. Accounting'
    BY <1>3, <1>5, <2>3 DEF IInv, Accounting, ConcurrencyBound, Busy
  <2>5. FailedCounted' \cup Uncounted' \subseteq FailedCounted \cup Uncounted
    BY <1>4, <2>1, <2>2
  <2>6. Cardinality((FailedCounted \cup Uncounted)')
          <= Cardinality(FailedCounted \cup Uncounted)
    BY <2>5, FewerHosts, SetsOfHosts
  <2>7. FailureBudget'
    BY <2>5, <2>6, HostSets, SetsOfHosts, ConcPositive DEF IInv, FailureBudget
  <2> QED
    BY <1>1, <1>2, <2>4, <2>7 DEF IInv
<1>6. CASE outcome[i] # "FAILED"
  <2>1. FailedCounted' = FailedCounted
    BY <1>6 DEF IInv, TypeOK, FailedCounted
  <2>2. Accounting'
    BY <1>3, <1>6, <2>1 DEF IInv, Accounting, ConcurrencyBound, Busy
  <2>3. FailedCounted' \cup Uncounted' \subseteq FailedCounted \cup Uncounted
    BY <1>4, <2>1
  <2>4. Cardinality((FailedCounted \cup Uncounted)')
          <= Cardinality(FailedCounted \cup Uncounted)
    BY <2>3, FewerHosts, SetsOfHosts
  <2>5. FailureBudget'
    BY <2>3, <2>4, HostSets, SetsOfHosts, ConcPositive DEF IInv, FailureBudget
  <2> QED
    BY <1>1, <1>2, <2>2, <2>5 DEF IInv
<1> QED
  BY <1>5, <1>6

LEMMA CountDoneStep == ASSUME NEW i \in Hosts, IInv, CountDone(i) PROVE IInv'
<1> USE RunnerAssumption DEF RunnerAssumption, CountDone
<1>1. TypeOK'
  BY DEF IInv, TypeOK, Stages
<1>2. Bookkeeping'
  BY DEF IInv, TypeOK, Bookkeeping, Hosts, ByMain
<1>3. /\ Live' = Live /\ Goroutines' = Goroutines /\ Busy' = Busy
      /\ FailedCounted' = FailedCounted /\ Uncounted' = Uncounted
  BY DEF IInv, TypeOK, Bookkeeping, Hosts, Live, Goroutines, Busy, FailedCounted,
         Uncounted, ByMain
<1>4. Accounting' /\ FailureBudget'
  BY <1>3, QuietStep DEF IInv
<1> QED
  BY <1>1, <1>2, <1>4 DEF IInv

LEMMA StreamStep == ASSUME NEW i \in Hosts, IInv, Stream(i) PROVE IInv'
<1> USE RunnerAssumption DEF RunnerAssumption, Stream
<1>1. TypeOK'
  BY DEF IInv, TypeOK, Stages, ByMain
<1>2. Bookkeeping'
  BY DEF IInv, TypeOK, Bookkeeping, Hosts, ByMain
<1>3. /\ Live' = Live /\ Goroutines' = Goroutines /\ Busy' = Busy
      /\ FailedCounted' = FailedCounted /\ Uncounted' = Uncounted
  BY DEF IInv, TypeOK, Bookkeeping, Hosts, Live, Goroutines, Busy, FailedCounted,
         Uncounted, ByMain
<1>4. Accounting' /\ FailureBudget'
  BY <1>3, QuietStep DEF IInv
<1> QED
  BY <1>1, <1>2, <1>4 DEF IInv

LEMMA ReleaseStep == ASSUME NEW i \in Hosts, IInv, Release(i) PROVE IInv'
<1> USE RunnerAssumption DEF RunnerAssumption, Release
<1>1. /\ Goroutines' = Goroutines /\ Busy' = Busy
      /\ FailedCounted' = FailedCounted /\ Uncounted' = Uncounted
  BY DEF IInv, TypeOK, Bookkeeping, Goroutines, Busy, FailedCounted, Uncounted,
         ByMain
<1>2. i \in Live /\ Live' = Live \ {i}
  BY DEF IInv, TypeOK, Bookkeeping, Live, ByMain
<1>3. Cardinality(Live') = Cardinality(Live) - 1 /\ Cardinality(Live') \in Nat
  BY <1>2, OneHostLess, SetsOfHosts, HostSets
<1>4. sem' \in Nat /\ ConcurrencyBound'
  BY <1>3, HostSets, SetsOfHosts, ConcPositive
     DEF IInv, Accounting, ConcurrencyBound
<1>5. TypeOK'
  BY <1>4 DEF IInv, TypeOK, Stages
<1>6. Bookkeeping'
  BY DEF IInv, TypeOK, Bookkeeping, Hosts, ByMain
<1>7. Accounting' /\ FailureBudget'
  BY <1>1, <1>4 DEF IInv, Accounting, FailureBudget, Busy
<1> QED
  BY <1>5, <1>6, <1>7 DEF IInv

LEMMA LeaveStep == ASSUME NEW i \in Hosts, IInv, Leave(i) PROVE IInv'
<1> USE RunnerAssumption DEF RunnerAssumption, Leave
<1>1. /\ Live' = Live /\ Busy' = Busy
      /\ FailedCounted' = FailedCounted /\ Uncounted' = Uncounted
  BY DEF IInv, TypeOK, Bookkeeping, Live, Busy, FailedCounted, Uncounted, ByMain
<1>2. i \in Goroutines /\ Goroutines' = Goroutines \ {i}
  BY DEF IInv, TypeOK, Bookkeeping, Goroutines, ByMain
<1>3. wg' = Cardinality(Goroutines') /\ wg' \in Nat
  <2>1. Cardinality(Goroutines \ {i}) = Cardinality(Goroutines) - 1
    BY <1>2, OneHostLess, SetsOfHosts
  <2>2. Cardinality(Goroutines \ {i}) \in Nat
    BY HostSets, SetsOfHosts
  <2> QED
    BY <1>2, <2>1, <2>2 DEF IInv, Accounting
<1>4. TypeOK'
  BY <1>3 DEF IInv, TypeOK, Stages
<1>5. Bookkeeping'
  BY DEF IInv, TypeOK, Bookkeeping, Hosts, ByMain
<1>6. Accounting' /\ FailureBudget'
  BY <1>1, <1>3 DEF IInv, Accounting, ConcurrencyBound, FailureBudget, Busy
<1> QED
  BY <1>4, <1>5, <1>6 DEF IInv

-----------------------------------------------------------------------------
(* The progress goroutine, Ctrl+C, stuttering.                             *)

LEMMA LoadStep == ASSUME IInv, Load PROVE IInv'
<1>0. line \in Seq(Nat) /\ done \in Nat /\ running \in Nat /\ failed \in Nat
  BY DEF IInv, TypeOK
<1>1. line' \in Seq(Nat)
  <2>1. \E c \in Nat : line' = Append(line, c)
    BY <1>0 DEF Load
  <2> QED
    BY <1>0, <2>1
<1>2. UNCHANGED <<mpc, next, cancelled, sem, wg, stage, outcome, result, failed,
                  done, running, streamed, summary>>
  BY DEF Load
<1>3. TypeOK'
  BY <1>1, <1>2 DEF IInv, TypeOK
<1>4. Bookkeeping'
  BY <1>2 DEF IInv, Bookkeeping, ByMain
<1>5. /\ Live' = Live /\ Goroutines' = Goroutines /\ Busy' = Busy
      /\ FailedCounted' = FailedCounted /\ Uncounted' = Uncounted
  BY <1>2 DEF Live, Goroutines, Busy, FailedCounted, Uncounted, ByMain
<1>6. Accounting' /\ FailureBudget'
  BY <1>2, <1>5, QuietStep DEF IInv
<1> QED
  BY <1>3, <1>4, <1>6 DEF IInv

\* Log, Cancel, Returned and stuttering change neither a host nor a counter.
LEMMA OtherSteps == ASSUME IInv, Log \/ Cancel \/ UNCHANGED vars PROVE IInv'
<1>1. UNCHANGED <<mpc, next, sem, wg, stage, outcome, result, failed, done,
                  running, streamed, summary>>
  BY DEF Log, Cancel, vars
<1>0. line \in Seq(Nat)
  BY DEF IInv, TypeOK
<1>2. line' \in Seq(Nat)
  <2>1. line' = <<>> \/ line' = line
    BY DEF Log, Cancel, vars
  <2>2. <<>> \in Seq(Nat)
    OBVIOUS
  <2> QED
    BY <1>0, <2>1, <2>2
<1>3. cancelled' \in BOOLEAN
  BY DEF IInv, TypeOK, Log, Cancel, vars
<1>4. TypeOK'
  BY <1>1, <1>2, <1>3 DEF IInv, TypeOK
<1>5. Bookkeeping'
  BY <1>1 DEF IInv, Bookkeeping, ByMain, Log, Cancel, vars
<1>6. /\ Live' = Live /\ Goroutines' = Goroutines /\ Busy' = Busy
      /\ FailedCounted' = FailedCounted /\ Uncounted' = Uncounted
  BY <1>1 DEF Live, Goroutines, Busy, FailedCounted, Uncounted, ByMain
<1>7. Accounting' /\ FailureBudget'
  BY <1>1, <1>6, QuietStep DEF IInv
<1> QED
  BY <1>4, <1>5, <1>7 DEF IInv

LEMMA NextIInv == IInv /\ [Next]_vars => IInv'
<1> SUFFICES ASSUME IInv, [Next]_vars PROVE IInv'
  OBVIOUS
<1>1. CASE Main
  BY <1>1, AcquireStep, CancelBeforeStartStep, SkipHostStep, AdmitStep, SpawnStep,
     ContinueStep, LoopEndStep, WaitAllStep, ReturnStep DEF Main
<1>2. CASE \E i \in Hosts : Host(i)
  BY <1>2, RunHostStep, StoreStep, CountFailedStep, CountDoneStep, StreamStep,
     ReleaseStep, LeaveStep DEF Host, Finish
<1>3. CASE Load
  BY <1>3, LoadStep
<1>4. CASE Log \/ Cancel \/ Returned \/ UNCHANGED vars
  BY <1>4, OtherSteps DEF Returned
<1> QED
  BY <1>1, <1>2, <1>3, <1>4 DEF Next

\* IInv holds in every reachable state of Run: the WaitGroup, the semaphore and
\* the atomic counters agree with what the goroutines are doing.
THEOREM Invariance == Spec => []IInv
BY InitIInv, NextIInv, PTL DEF Spec

\* The state of Run stays within its types; no counter goes below zero.
THEOREM TypeCorrect == Spec => []TypeOK
<1>1. IInv => TypeOK
  BY DEF IInv
<1> QED
  BY <1>1, Invariance, PTL

\* Never more than Conc host goroutines hold a slot.
THEOREM ConcurrencyBounded == Spec => []ConcurrencyBound
<1>1. IInv => ConcurrencyBound
  BY DEF IInv, Accounting
<1> QED
  BY <1>1, Invariance, PTL

\* At most MaxFailures + Conc - 1 hosts are reported as failed, whatever the
\* order in which the goroutines finish and the counter is read.
THEOREM FailuresBounded == Spec => []FailureBound
<1>1. IInv => FailureBound
  <2> SUFFICES ASSUME IInv, MaxFailures > 0
               PROVE  Cardinality({i \in Hosts : result[i] = "FAILED"})
                        <= MaxFailures + Conc - 1
    BY DEF FailureBound
  <2>1. {i \in Hosts : result[i] = "FAILED"} \subseteq FailedCounted \cup Uncounted
    BY DEF IInv, TypeOK, Bookkeeping, FailedCounted, Uncounted, ByMain, Stages,
           Statuses
  <2>2. Cardinality({i \in Hosts : result[i] = "FAILED"})
          <= Cardinality(FailedCounted \cup Uncounted)
    BY <2>1, FewerHosts, SetsOfHosts
  <2> QED
    BY <2>2, HostSets, SetsOfHosts, ConcPositive, RunnerAssumption
       DEF IInv, FailureBudget
<1> QED
  BY <1>1, Invariance, PTL

\* A failure limit no smaller than the number of hosts never skips a host: the
\* counter can only reach it when every host, the one being decided on
\* included, has failed.
THEOREM FullBudgetNeverSkips == Spec => []NeverSkipsAtFullBudget
<1>1. Init => NeverSkipsAtFullBudget
  BY DEF Init, NeverSkipsAtFullBudget
<1>2. IInv /\ NeverSkipsAtFullBudget /\ [Next]_vars => NeverSkipsAtFullBudget'
  <2> SUFFICES ASSUME IInv, NeverSkipsAtFullBudget, [Next]_vars, MaxFailures >= N,
                      NEW j \in Hosts
               PROVE  outcome'[j] # "SKIPPED"
    BY DEF NeverSkipsAtFullBudget
  <2>0. outcome[j] # "SKIPPED" /\ outcome \in [Hosts -> Statuses \cup {"NONE"}]
    BY DEF NeverSkipsAtFullBudget, IInv, TypeOK
  <2>1. ~SkipHost
    <3> SUFFICES ASSUME SkipHost PROVE FALSE
      OBVIOUS
    <3>1. next \in Hosts /\ next \notin FailedCounted
      BY RunnerAssumption DEF IInv, TypeOK, Bookkeeping, Hosts, FailedCounted, SkipHost
    <3>2. failed >= N /\ failed = Cardinality(FailedCounted)
      BY RunnerAssumption DEF SkipHost, LimitReached, IInv, TypeOK, Accounting
    <3>3. Cardinality(Hosts) = N
      BY RunnerAssumption, FS_Interval DEF Hosts
    <3>4. Cardinality(FailedCounted \cup {next}) = failed + 1
      BY <3>1, <3>2, OneMoreHost, SetsOfHosts
    <3>5. Cardinality(FailedCounted \cup {next}) <= N
      BY <3>1, <3>3, FewerHosts, SetsOfHosts
    <3> QED
      BY <3>2, <3>4, <3>5, RunnerAssumption DEF IInv, TypeOK
  <2>2. CASE CancelBeforeStart
    BY <2>0, <2>2 DEF CancelBeforeStart
  <2>3. ASSUME NEW i \in Hosts, RunHost(i) PROVE outcome'[j] # "SKIPPED"
    BY <2>0, <2>3 DEF RunHost, HostStatuses
  <2>4. CASE UNCHANGED outcome
    BY <2>0, <2>4
  <2> QED
    BY <2>1, <2>2, <2>3, <2>4
       DEF Next, Main, Host, Finish, Acquire, Admit, Spawn, Continue, LoopEnd,
           WaitAll, Return, Store, CountFailed, CountDone, Stream, Release, Leave,
           Load, Log, Cancel, Returned, vars
<1> QED
  BY <1>1, <1>2, Invariance, PTL DEF Spec

-----------------------------------------------------------------------------
(* The limit as the user gives it: max_failures of the job or the flag, of *)
(* which module JobFile has the parser.                                    *)

CONSTANT IntTop  \* of module JobFile

J == INSTANCE JobFile

Limits == [num : Int, den : Nat \ {0}, pct : BOOLEAN]

\* Division that rounds up.
LEMMA Division ==
  ASSUME NEW s \in Nat, NEW w \in Nat \ {0}
  PROVE  LET c == (s + w - 1) \div w
         IN c \in Nat /\ c * w >= s /\ (c - 1) * w < s
<1> DEFINE x == s + w - 1
           c == x \div w
<1>1. x \in Nat
  OBVIOUS
<1> HIDE DEF x
<1>2. c \in Nat /\ x = w * c + (x % w) /\ x % w \in 0..(w - 1)
  BY <1>1
<1> HIDE DEF c
<1>3. w * c = c * w /\ (c - 1) * w = c * w - w
  BY <1>2
<1>4. c \in Nat /\ c * w >= s /\ (c - 1) * w < s
  <2> DEFINE p == c * w
             q == (c - 1) * w
  <2>1. p \in Int /\ q = p - w /\ x = p + (x % w)
    BY <1>2, <1>3
  <2> HIDE DEF p, q
  <2>2. p >= s /\ q < s
    BY <1>2, <2>1 DEF x
  <2> QED
    BY <1>2, <2>2 DEF p, q
<1> QED
  BY <1>4 DEF c, x

\* A percentage of the hosts, rounded up to a whole number of them, never to 0, which
\* would mean no limit at all, and never below the share.
LEMMA ShareRounded ==
  ASSUME NEW v \in Limits, NEW total \in Nat,
         NEW m \in J!ParseMaxFailures(v, total), v.pct
  PROVE  /\ m \in Nat \ {0}
         /\ m * (100 * v.den) >= v.num * total
         /\ total > 0 => (m - (IF v.den > 1 THEN 2 ELSE 1)) * (100 * v.den) < v.num * total
<1> DEFINE share == v.num * total
           whole == 100 * v.den
           ceil == (share + whole - 1) \div whole
           extra == IF v.den > 1 THEN 1 ELSE 0
<1>1. /\ v.num > 0 /\ share \in Nat /\ whole \in Nat \ {0}
      /\ total > 0 => share > 0
  BY DEF J!ParseMaxFailures, Limits
<1>2. \E n \in {ceil, ceil + extra} : m = IF n < 1 THEN 1 ELSE n
  BY DEF J!ParseMaxFailures, Limits
<1> HIDE DEF share, whole
<1>3. ceil \in Nat /\ ceil * whole >= share /\ (ceil - 1) * whole < share
  BY <1>1, Division
<1> HIDE DEF ceil
<1>4. m \in Nat \ {0} /\ m >= ceil /\ (m <= 1 \/ m <= ceil + extra)
  BY <1>2, <1>3
<1>5. m * whole >= share
  <2>1. m * whole >= ceil * whole
    BY <1>1, <1>3, <1>4
  <2> QED
    BY <1>1, <1>3, <1>4, <2>1
<1>6. ASSUME total > 0 PROVE (m - (1 + extra)) * whole < share
  <2>1. CASE m <= 1
    <3>1. (m - (1 + extra)) * whole <= 0
      BY <1>1, <1>4, <2>1
    <3> QED
      BY <1>1, <1>4, <1>6, <3>1
  <2>2. CASE m <= ceil + extra
    <3>1. (m - (1 + extra)) * whole <= (ceil - 1) * whole
      BY <1>1, <1>3, <1>4, <2>2
    <3> QED
      BY <1>1, <1>3, <1>4, <3>1
  <2> QED
    BY <1>4, <2>1, <2>2
<1> QED
  BY <1>4, <1>5, <1>6 DEF share, whole
\* A limit of v percent: fewer hosts fail than that share of all hosts and Conc more,
\* or one more still if v is not whole and its product comes out too large.
WithinShare(v) ==
  LET failures == Cardinality({i \in Hosts : result[i] = "FAILED"})
      slack == IF v.den > 1 THEN 1 ELSE 0
  IN (failures - Conc - slack) * (100 * v.den) < v.num * N

\* What a percentage is worth to the user, from ParseMaxFailures, which rounds it up,
\* through the counter that is read too early and bumped too late, to the report.
THEOREM FailuresWithinShare ==
  ASSUME NEW v \in Limits, v.pct, MaxFailures \in J!ParseMaxFailures(v, N)
  PROVE  Spec => []WithinShare(v)
<1> DEFINE failures == Cardinality({i \in Hosts : result[i] = "FAILED"})
           slack == IF v.den > 1 THEN 1 ELSE 0
           whole == 100 * v.den
           share == v.num * N
<1>1. /\ MaxFailures \in Nat \ {0} /\ N \in Nat /\ whole \in Nat \ {0} /\ share \in Int
      /\ v.num > 0 /\ v.num \in Int
      /\ N > 0 => (MaxFailures - 1 - slack) * whole < share
  <2>1. v.num > 0
    BY DEF J!ParseMaxFailures, Limits
  <2> QED
    BY <2>1, ShareRounded, RunnerAssumption DEF RunnerAssumption, Limits
<1>2. ASSUME IInv, FailureBound PROVE WithinShare(v)
  <2>1. failures \in Nat /\ failures <= N
    <3>1. {i \in Hosts : result[i] = "FAILED"} \subseteq Hosts
      OBVIOUS
    <3>2. Cardinality(Hosts) = N
      BY RunnerAssumption, FS_Interval DEF Hosts, RunnerAssumption
    <3> QED
      BY <3>1, <3>2, HostSets, FewerHosts
  <2>2. failures - Conc <= MaxFailures - 1 /\ Conc \in Nat /\ Conc >= 1
    BY <1>1, <1>2, <2>1, ConcPositive DEF FailureBound
  <2> HIDE DEF failures, whole, share
  <2>3. (failures - Conc - slack) * whole < share
    <3> DEFINE a == failures - Conc - slack
               b == MaxFailures - 1 - slack
    <3>1. a \in Int /\ b \in Int /\ a <= b
      BY <1>1, <2>1, <2>2
    <3>2. CASE N > 0
      <4> HIDE DEF a, b
      <4>1. a * whole <= b * whole /\ a * whole \in Int /\ b * whole \in Int
        BY <1>1, <3>1
      <4>2. b * whole < share
        BY <1>1, <3>2 DEF b
      <4> QED
        BY <1>1, <4>1, <4>2 DEF a
    <3>3. CASE N = 0
      <4>1. a < 0 /\ share = 0
        BY <1>1, <2>1, <2>2, <3>3 DEF share
      <4> HIDE DEF a
      <4>2. a * whole < 0
        BY <1>1, <3>1, <4>1
      <4> QED
        BY <4>1, <4>2 DEF a
    <3> QED
      BY <1>1, <3>2, <3>3
  <2> QED
    BY <2>3 DEF WithinShare, failures, whole, share
<1> QED
  BY <1>2, Invariance, FailuresBounded, PTL

\* A limit of 100% never skips a host, whatever the rounding makes of it (job.go:
\* "means never stop").
THEOREM WholeShareNeverSkips ==
  ASSUME NEW v \in Limits, v.pct, v.num = 100 * v.den,
         MaxFailures \in J!ParseMaxFailures(v, N)
  PROVE  Spec => [](\A i \in Hosts : outcome[i] # "SKIPPED")
<1>1. MaxFailures >= N
  <2> DEFINE whole == 100 * v.den
  <2>1. MaxFailures * whole >= whole * N /\ whole \in Nat \ {0}
    BY ShareRounded, RunnerAssumption DEF RunnerAssumption, Limits
  <2> HIDE DEF whole
  <2> QED
    BY <2>1, RunnerAssumption DEF RunnerAssumption
<1>2. NeverSkipsAtFullBudget => \A i \in Hosts : outcome[i] # "SKIPPED"
  BY <1>1 DEF NeverSkipsAtFullBudget
<1> QED
  BY <1>2, FullBudgetNeverSkips, PTL

-----------------------------------------------------------------------------
(* Run implements Rollout.                                                 *)

\* What the abstract sets are in terms of Run's state.
LEMMA AbsSets ==
  ASSUME IInv
  PROVE  /\ Abs!In("RUNNING") = Uncounted
         /\ Abs!In("FAILED") = FailedCounted
<1>1. \A i \in Hosts : i \in Uncounted => i \notin FailedCounted
  BY DEF IInv, TypeOK, Bookkeeping, Uncounted, FailedCounted, ByMain, Stages
<1>2. \A i \in Hosts : outcome[i] # "RUNNING"
  BY DEF IInv, TypeOK, Statuses
<1>3. \A i \in Hosts : outcome[i] = "FAILED" => i \in Uncounted \/ i \in FailedCounted
  BY DEF IInv, TypeOK, Bookkeeping, Uncounted, FailedCounted, ByMain, Stages
<1>4. \A i \in Hosts : i \in FailedCounted => stage[i] # "queued" /\ outcome[i] = "FAILED"
  BY DEF FailedCounted
<1> QED
  BY <1>1, <1>2, <1>3, <1>4, SetsOfHosts DEF Abs!In, AbsStatus

LEMMA AbsLimit == ASSUME IInv PROVE Abs!LimitReached <=> LimitReached
<1>1. Abs!Cardinality(FailedCounted) = Cardinality(FailedCounted)
  BY DEF Abs!Cardinality, Cardinality
<1> QED
  BY <1>1, AbsSets DEF Abs!LimitReached, LimitReached, IInv, Accounting

LEMMA AbsInit == Init => Abs!Init
BY DEF Init, Abs!Init, AbsStatus, Uncounted, ByMain

\* What is not seen from the outside.
LEMMA AbsUnchanged ==
  ASSUME Uncounted' = Uncounted, cancelled' = cancelled,
         \A j \in Hosts : j \notin Uncounted =>
           /\ outcome'[j] = outcome[j]
           /\ stage'[j] = "queued" <=> stage[j] = "queued"
  PROVE  UNCHANGED Abs!vars
<1>1. AbsStatus' = AbsStatus
  BY DEF AbsStatus
<1> QED
  BY <1>1 DEF Abs!vars

\* A goroutine that goes from stage p to stage q before its failure is counted.
LEMMA StillUncounted ==
  ASSUME NEW i \in Hosts, IInv, ~ByMain(i),
         NEW p \in {"run", "store"}, NEW q \in {"store", "count"},
         stage[i] = p, stage' = [stage EXCEPT ![i] = q],
         mpc' = mpc, next' = next
  PROVE  Uncounted' = Uncounted /\ i \in Uncounted
BY DEF IInv, TypeOK, Uncounted, ByMain

\* A host that goes from stage p to stage q after its failure was counted.
LEMMA StillCounted ==
  ASSUME NEW i \in Hosts, IInv,
         NEW p \in {"tally", "stream", "release", "leave"},
         NEW q \in {"stream", "release", "leave", "ended"},
         stage[i] = p, stage' = [stage EXCEPT ![i] = q],
         outcome' = outcome, mpc' = mpc, next' = next, cancelled' = cancelled
  PROVE  UNCHANGED Abs!vars
<1>1. Uncounted' = Uncounted
  BY DEF IInv, TypeOK, Uncounted, ByMain
<1>2. \A j \in Hosts : stage'[j] = "queued" <=> stage[j] = "queued"
  BY DEF IInv, TypeOK
<1> QED
  BY <1>1, <1>2, AbsUnchanged

\* The steps that move no host, as seen from the outside.
LEMMA AbsStutter ==
  ASSUME IInv,
         \/ Acquire \/ Spawn \/ Continue \/ LoopEnd \/ WaitAll \/ Return
         \/ \E i \in Hosts : \/ RunHost(i) \/ Store(i) \/ CountDone(i) \/ Stream(i)
                             \/ Release(i) \/ Leave(i)
         \/ Load \/ Log \/ UNCHANGED vars
  PROVE  UNCHANGED Abs!vars
<1>1. CASE Acquire \/ LoopEnd \/ WaitAll \/ Return \/ Load \/ Log \/ UNCHANGED vars
  <2>1. Uncounted' = Uncounted
    BY <1>1 DEF Acquire, LoopEnd, WaitAll, Return, Load, Log, vars, Uncounted, ByMain
  <2>2. UNCHANGED <<cancelled, outcome, stage>>
    BY <1>1 DEF Acquire, LoopEnd, WaitAll, Return, Load, Log, vars
  <2> QED
    BY <2>1, <2>2, AbsUnchanged
<1>2. CASE Spawn
  <2>1. next \in Hosts /\ next + 1 # next
    BY <1>2, RunnerAssumption DEF Spawn, IInv, TypeOK, Bookkeeping, Hosts
  <2>2. Uncounted' = Uncounted /\ next \in Uncounted
    BY <1>2, <2>1 DEF Spawn, IInv, TypeOK, Uncounted, ByMain
  <2>3. \A j \in Hosts : j # next => stage'[j] = stage[j]
    BY <1>2 DEF Spawn, IInv, TypeOK
  <2>4. UNCHANGED <<cancelled, outcome>>
    BY <1>2 DEF Spawn
  <2> QED
    BY <2>2, <2>3, <2>4, AbsUnchanged
<1>3. CASE Continue
  <2>1. Uncounted' = Uncounted
    BY <1>3 DEF Continue, IInv, TypeOK, Uncounted, ByMain
  <2>2. UNCHANGED <<cancelled, outcome, stage>>
    BY <1>3 DEF Continue
  <2> QED
    BY <2>1, <2>2, AbsUnchanged
<1>4. ASSUME NEW i \in Hosts, RunHost(i) PROVE UNCHANGED Abs!vars
  <2>1. ~ByMain(i)
    BY <1>4 DEF RunHost, IInv, Bookkeeping, ByMain
  <2>2. Uncounted' = Uncounted /\ i \in Uncounted
    BY <1>4, <2>1, StillUncounted DEF RunHost
  <2>3. /\ cancelled' = cancelled
        /\ \A j \in Hosts : j # i => outcome'[j] = outcome[j] /\ stage'[j] = stage[j]
    BY <1>4 DEF RunHost, IInv, TypeOK
  <2> QED
    BY <2>2, <2>3, AbsUnchanged
<1>5. ASSUME NEW i \in Hosts, Store(i) PROVE UNCHANGED Abs!vars
  <2>1. CASE ByMain(i)
    <3>1. Uncounted' = Uncounted
      BY <1>5, <2>1 DEF Store, IInv, TypeOK, Uncounted, ByMain
    <3>2. \A j \in Hosts : stage'[j] = "queued" <=> stage[j] = "queued"
      BY <1>5 DEF Store, IInv, TypeOK
    <3> QED
      BY <1>5, <3>1, <3>2, AbsUnchanged DEF Store
  <2>2. CASE ~ByMain(i)
    <3>1. Uncounted' = Uncounted /\ i \in Uncounted
      BY <1>5, <2>2, StillUncounted DEF Store
    <3>2. \A j \in Hosts : j # i => stage'[j] = stage[j]
      BY <1>5 DEF Store, IInv, TypeOK
    <3> QED
      BY <1>5, <3>1, <3>2, AbsUnchanged DEF Store
  <2> QED
    BY <2>1, <2>2
<1>6. ASSUME NEW i \in Hosts, CountDone(i) PROVE UNCHANGED Abs!vars
  BY <1>6, StillCounted DEF CountDone
<1>7. ASSUME NEW i \in Hosts, Stream(i) PROVE UNCHANGED Abs!vars
  <2>1. PICK q \in {"ended", "release"} : stage' = [stage EXCEPT ![i] = q]
    BY <1>7 DEF Stream
  <2> QED
    BY <1>7, <2>1, StillCounted DEF Stream
<1>8. ASSUME NEW i \in Hosts, Release(i) PROVE UNCHANGED Abs!vars
  BY <1>8, StillCounted DEF Release
<1>9. ASSUME NEW i \in Hosts, Leave(i) PROVE UNCHANGED Abs!vars
  BY <1>9, StillCounted DEF Leave
<1> QED
  BY <1>1, <1>2, <1>3, <1>4, <1>5, <1>6, <1>7, <1>8, <1>9

\* The failure limit let the host through: it starts.
LEMMA AbsStart == ASSUME IInv, Admit PROVE Abs!Start(next)
<1>1. next \in Hosts /\ stage[next] = "queued"
  BY RunnerAssumption DEF IInv, TypeOK, Bookkeeping, Hosts, Admit
<1>2. AbsStatus[next] = "PENDING"
  BY <1>1 DEF AbsStatus, Uncounted, Admit
<1>3. Abs!Cardinality(Abs!In("RUNNING")) < Conc
  <2>1. Uncounted \subseteq Live
    BY DEF Uncounted, Live, Admit
  <2>2. Cardinality(Uncounted) <= Cardinality(Live)
    BY <2>1, FewerHosts, SetsOfHosts
  <2>3. sem <= Conc /\ sem = Cardinality(Live) + 1
    BY DEF IInv, Accounting, ConcurrencyBound, Admit
  <2>4. Abs!Cardinality(Uncounted) = Cardinality(Uncounted)
    BY DEF Abs!Cardinality, Cardinality
  <2> QED
    BY <2>2, <2>3, <2>4, AbsSets, HostSets, SetsOfHosts, ConcPositive
<1>4. ~Abs!LimitReached
  BY AbsLimit DEF Admit
<1>5. AbsStatus' = [AbsStatus EXCEPT ![next] = "RUNNING"]
  BY <1>1 DEF AbsStatus, Uncounted, ByMain, Admit
<1> QED
  BY <1>2, <1>3, <1>4, <1>5 DEF Abs!Start, Admit

LEMMA AbsSkip == ASSUME IInv, SkipHost PROVE Abs!Skip(next)
<1>1. next \in Hosts /\ stage[next] = "queued"
  BY RunnerAssumption DEF IInv, TypeOK, Bookkeeping, Hosts, SkipHost
<1>2. AbsStatus[next] = "PENDING"
  BY <1>1 DEF AbsStatus, Uncounted, SkipHost
<1>3. Abs!LimitReached
  BY AbsLimit DEF SkipHost
<1>4. AbsStatus' = [AbsStatus EXCEPT ![next] = "SKIPPED"]
  BY <1>1 DEF AbsStatus, Uncounted, ByMain, SkipHost, IInv, TypeOK
<1> QED
  BY <1>2, <1>3, <1>4 DEF Abs!Skip, SkipHost

LEMMA AbsCancelPending ==
  ASSUME IInv, CancelBeforeStart PROVE next \in Hosts /\ Abs!CancelPending(next)
<1>1. next \in Hosts /\ stage[next] = "queued"
  BY RunnerAssumption DEF IInv, TypeOK, Bookkeeping, Hosts, CancelBeforeStart
<1>2. AbsStatus[next] = "PENDING"
  BY <1>1 DEF AbsStatus, Uncounted, CancelBeforeStart
<1>3. AbsStatus' = [AbsStatus EXCEPT ![next] = "CANCELLED"]
  BY <1>1 DEF AbsStatus, Uncounted, ByMain, CancelBeforeStart, IInv, TypeOK
<1> QED
  BY <1>1, <1>2, <1>3 DEF Abs!CancelPending, CancelBeforeStart

\* A host ends, for the outside, when its failure is counted; a host the main
\* goroutine finishes was never running.
LEMMA AbsEnd ==
  ASSUME NEW i \in Hosts, IInv, CountFailed(i)
  PROVE  \/ UNCHANGED Abs!vars
         \/ \E s \in {"SUCCESS", "FAILED", "CANCELLED"} : Abs!End(i, s)
<1>1. CASE ByMain(i)
  BY <1>1 DEF CountFailed, IInv, TypeOK, Uncounted, ByMain, AbsStatus, Abs!vars
<1>2. CASE ~ByMain(i)
  <2>1. i \in Uncounted /\ AbsStatus[i] = "RUNNING"
    BY <1>2 DEF CountFailed, Uncounted, AbsStatus
  <2>2. outcome[i] \in {"SUCCESS", "FAILED", "CANCELLED"}
    BY <1>2 DEF CountFailed, IInv, TypeOK, Bookkeeping, Statuses
  <2>3. outcome[i] = "CANCELLED" => cancelled
    BY DEF IInv, Bookkeeping
  <2>4. AbsStatus' = [AbsStatus EXCEPT ![i] = outcome[i]]
    BY <1>2 DEF AbsStatus, Uncounted, ByMain, CountFailed, IInv, TypeOK, Bookkeeping, Hosts
  <2> QED
    BY <2>1, <2>2, <2>3, <2>4 DEF Abs!End, CountFailed
<1> QED
  BY <1>1, <1>2

LEMMA AbsNext == IInv /\ [Next]_vars => [Abs!Next]_(Abs!vars)
<1> SUFFICES ASSUME IInv, [Next]_vars PROVE Abs!Next \/ UNCHANGED Abs!vars
  OBVIOUS
<1>1. CASE Admit
  <2>1. next \in Hosts
    BY <1>1, RunnerAssumption DEF IInv, TypeOK, Bookkeeping, Hosts, Admit
  <2> QED
    BY <1>1, <2>1, AbsStart DEF Abs!Next
<1>2. CASE SkipHost
  <2>1. next \in Hosts
    BY <1>2, RunnerAssumption DEF IInv, TypeOK, Bookkeeping, Hosts, SkipHost
  <2> QED
    BY <1>2, <2>1, AbsSkip DEF Abs!Next
<1>3. CASE CancelBeforeStart
  BY <1>3, AbsCancelPending DEF Abs!Next
<1>4. ASSUME NEW i \in Hosts, CountFailed(i) PROVE Abs!Next \/ UNCHANGED Abs!vars
  BY <1>4, AbsEnd DEF Abs!Next
<1>5. CASE Cancel
  BY <1>5 DEF Cancel, Abs!Next, Abs!Cancel, AbsStatus, Uncounted, ByMain
<1> QED
  BY <1>1, <1>2, <1>3, <1>4, <1>5, AbsStutter
     DEF Next, Main, Host, Finish, Returned

\* Run implements Rollout: seen from the outside, hosts start only below the
\* failure limit and the concurrency limit, are skipped only above the failure
\* limit, are cancelled only after Ctrl+C, and keep the status they end with.
THEOREM RunImplementsRollout == Spec => ImplementsRollout
BY AbsInit, AbsNext, Invariance, PTL DEF Spec, Abs!Spec, ImplementsRollout

-----------------------------------------------------------------------------
(* The report and the progress lines.                                      *)

\* Hosts that done.Add(1) has counted, and hosts that were given to OnHostDone.
Done == {i \in Hosts : stage[i] \in {"stream", "release", "leave", "ended"}}

Given == {i \in Hosts : stage[i] \in {"release", "leave", "ended"}}

\* done and OnHostDone keep up with finish(), host by host.
Tallied ==
  /\ done = Cardinality(Done)
  /\ Len(streamed) = Cardinality(Given)
  /\ \A i \in Given : \E k \in 1..Len(streamed) : streamed[k] = i

\* The summary is made of results that no longer change.
Summarized ==
  mpc \in {"closing", "returned"} =>
    summary = Summarize /\ \A i \in Hosts : stage[i] = "ended"

\* A progress line under way holds counts that were right when they were loaded:
\* done only grows, so a host counted there is no longer running.
LineSound ==
  /\ Len(line) <= 3
  /\ Len(line) >= 1 => line[1] <= done
  /\ Len(line) >= 2 => line[1] + line[2] <= N
  /\ Len(line) = 3 => line[3] <= N

JInv == Tallied /\ Summarized /\ LineSound

LEMMA DoneAndGiven ==
  /\ Done \in SUBSET Hosts /\ Given \in SUBSET Hosts
  /\ Cardinality(Done) \in Nat /\ Cardinality(Given) \in Nat
<1>1. Done \in SUBSET Hosts /\ Given \in SUBSET Hosts
  BY DEF Done, Given
<1> QED
  BY <1>1, HostSets

LEMMA InitJInv == Init => JInv
<1> SUFFICES ASSUME Init PROVE JInv
  OBVIOUS
<1>1. Done = {} /\ Given = {}
  BY DEF Init, Done, Given
<1>2. Tallied
  BY <1>1, FS_EmptySet DEF Init, Tallied
<1>3. Summarized /\ LineSound
  BY DEF Init, Summarized, LineSound
<1> QED
  BY <1>2, <1>3 DEF JInv

\* A step that neither ends a host's finish() nor touches the report.
LEMMA SilentStep ==
  ASSUME IInv, JInv, Done' = Done, Given' = Given,
         UNCHANGED <<done, streamed, line>>,
         mpc' \notin {"closing", "returned"}
  PROVE  JInv'
BY DEF JInv, Tallied, Summarized, LineSound

\* The loop over the plans.
LEMMA LoopJInv ==
  ASSUME IInv, JInv,
         Acquire \/ CancelBeforeStart \/ SkipHost \/ Admit \/ Spawn \/ Continue \/ LoopEnd
  PROVE  JInv'
<1> USE RunnerAssumption DEF RunnerAssumption
<1>1. CASE Acquire \/ Admit \/ Continue \/ LoopEnd
  <2>1. /\ UNCHANGED <<stage, done, streamed, line>>
        /\ mpc' \notin {"closing", "returned"}
    BY <1>1 DEF Acquire, Admit, Continue, LoopEnd
  <2>2. Done' = Done /\ Given' = Given
    BY <2>1 DEF Done, Given
  <2> QED
    BY <2>1, <2>2, SilentStep
<1>2. CASE CancelBeforeStart \/ SkipHost \/ Spawn
  <2>1. next \in Hosts /\ stage[next] = "queued" /\ stage \in [Hosts -> Stages]
    BY <1>2
    DEF CancelBeforeStart, SkipHost, Spawn, IInv, TypeOK, Bookkeeping, Hosts, ByMain
  <2>2. /\ \E s \in {"store", "run"} : stage' = [stage EXCEPT ![next] = s]
        /\ UNCHANGED <<done, streamed, line>>
        /\ mpc' \notin {"closing", "returned"}
    BY <1>2 DEF CancelBeforeStart, SkipHost, Spawn
  <2>3. Done' = Done /\ Given' = Given
    BY <2>1, <2>2 DEF Done, Given
  <2> QED
    BY <2>2, <2>3, SilentStep
<1> QED
  BY <1>1, <1>2

\* wg.Wait returns: nobody is left who could change a result.
LEMMA WaitAllJInv == ASSUME IInv, JInv, WaitAll PROVE JInv'
<1> USE RunnerAssumption DEF RunnerAssumption
<1>1. mpc = "wait" /\ wg = 0 /\ summary' = Summarize /\ mpc' = "closing"
      /\ UNCHANGED <<stage, result, done, streamed, line>>
  BY DEF WaitAll
<1>2. Goroutines = {}
  <2>1. Cardinality(Goroutines) = 0
    BY <1>1 DEF IInv, Accounting
  <2> QED
    BY <2>1, HostSets, SetsOfHosts, FS_EmptySet
<1>3. \A i \in Hosts : stage[i] = "ended"
  <2> SUFFICES ASSUME NEW i \in Hosts PROVE stage[i] = "ended"
    OBVIOUS
  <2>1. next = N + 1 /\ i <= N /\ i \in Int
    BY <1>1 DEF IInv, Bookkeeping, Hosts
  <2>2. stage[i] # "queued"
    BY <2>1 DEF IInv, Bookkeeping
  <2> QED
    BY <1>1, <1>2, <2>2 DEF Goroutines, ByMain
<1>4. Summarize' = Summarize
  BY <1>1 DEF Summarize
<1>5. Summarized'
  BY <1>1, <1>3, <1>4 DEF Summarized
<1>6. Done' = Done /\ Given' = Given
  BY <1>1 DEF Done, Given
<1> QED
  BY <1>1, <1>5, <1>6 DEF JInv, Tallied, LineSound

LEMMA ReturnJInv == ASSUME IInv, JInv, Return PROVE JInv'
<1>1. /\ mpc = "closing" /\ mpc' = "returned"
      /\ UNCHANGED <<stage, result, done, streamed, line, summary>>
  BY DEF Return
<1>2. Done' = Done /\ Given' = Given /\ Summarize' = Summarize
  BY <1>1 DEF Done, Given, Summarize
<1> QED
  BY <1>1, <1>2 DEF JInv, Tallied, Summarized, LineSound

\* A host that still does something is not in a report that is summarised.
LEMMA NotYetClosing ==
  ASSUME JInv, NEW i \in Hosts, stage[i] # "ended"
  PROVE  mpc \notin {"closing", "returned"}
BY DEF JInv, Summarized

LEMMA HostJInv ==
  ASSUME IInv, JInv, NEW i \in Hosts,
         RunHost(i) \/ Store(i) \/ CountFailed(i) \/ Release(i) \/ Leave(i)
  PROVE  JInv'
<1>1. stage[i] \in {"run", "store", "count", "release", "leave"}
  BY DEF RunHost, Store, CountFailed, Release, Leave
<1>2. UNCHANGED <<mpc, done, streamed, line>> /\ mpc' \notin {"closing", "returned"}
  BY <1>1, NotYetClosing DEF RunHost, Store, CountFailed, Release, Leave
<1>3. \E s \in Stages :
        /\ stage' = [stage EXCEPT ![i] = s]
        /\ s \in {"leave", "ended"} <=> stage[i] \in {"release", "leave"}
        /\ s \in {"store", "count", "tally", "leave", "ended"}
  BY DEF RunHost, Store, CountFailed, Release, Leave, Stages
<1>4. Done' = Done /\ Given' = Given
  BY <1>1, <1>3 DEF Done, Given, IInv, TypeOK
<1> QED
  BY <1>2, <1>4, SilentStep

LEMMA CountDoneJInv == ASSUME IInv, JInv, NEW i \in Hosts, CountDone(i) PROVE JInv'
<1>1. Done' = Done \cup {i} /\ i \notin Done /\ Given' = Given
  BY DEF CountDone, Done, Given, IInv, TypeOK
<1>2. Cardinality(Done') = done + 1 /\ done \in Nat
  BY <1>1, OneMoreHost, DoneAndGiven DEF JInv, Tallied
<1>3. Tallied'
  BY <1>1, <1>2 DEF CountDone, JInv, Tallied
<1>4. Summarized'
  BY NotYetClosing DEF CountDone, Summarized
<1>5. LineSound'
  BY <1>2 DEF CountDone, JInv, LineSound, IInv, TypeOK
<1> QED
  BY <1>3, <1>4, <1>5 DEF JInv

LEMMA StreamJInv == ASSUME IInv, JInv, NEW i \in Hosts, Stream(i) PROVE JInv'
<1>1. Given' = Given \cup {i} /\ i \notin Given /\ Done' = Done
  BY DEF Stream, Done, Given, IInv, TypeOK
<1>2. Cardinality(Given') = Len(streamed) + 1
  BY <1>1, OneMoreHost, DoneAndGiven DEF JInv, Tallied
<1>3. streamed \in Seq(Hosts) /\ streamed' = Append(streamed, i)
  BY DEF Stream, IInv, TypeOK
<1>4. Len(streamed') = Len(streamed) + 1
  BY <1>3
<1>5. \A h \in Given' : \E k \in 1..Len(streamed') : streamed'[k] = h
  <2>1. streamed'[Len(streamed')] = i /\ Len(streamed') \in 1..Len(streamed')
    BY <1>3
  <2>2. ASSUME NEW h \in Given
        PROVE  \E k \in 1..Len(streamed') : streamed'[k] = h
    <3>1. PICK k \in 1..Len(streamed) : streamed[k] = h
      BY DEF JInv, Tallied
    <3>2. k \in 1..Len(streamed') /\ streamed'[k] = h
      BY <1>3, <3>1
    <3> QED
      BY <3>2
  <2> QED
    BY <1>1, <2>1, <2>2
<1>6. Tallied'
  BY <1>1, <1>2, <1>4, <1>5 DEF Stream, JInv, Tallied
<1>7. Summarized'
  BY NotYetClosing DEF Stream, Summarized
<1>8. LineSound'
  BY DEF Stream, JInv, LineSound
<1> QED
  BY <1>6, <1>7, <1>8 DEF JInv

LEMMA AppendKeeps ==
  ASSUME NEW s \in Seq(Nat), NEW c \in Nat
  PROVE  /\ Len(Append(s, c)) = Len(s) + 1 /\ Append(s, c)[Len(s) + 1] = c
         /\ \A k \in 1..Len(s) : Append(s, c)[k] = s[k] /\ s[k] \in Nat
OBVIOUS

\* The line is filled in: what is running when running is loaded was not done
\* when done was.
LEMMA LoadJInv == ASSUME IInv, JInv, Load PROVE JInv'
<1> USE RunnerAssumption DEF RunnerAssumption
<1>1. UNCHANGED <<mpc, stage, result, done, streamed, summary>>
  BY DEF Load
<1>2. Done' = Done /\ Given' = Given /\ Summarize' = Summarize
  BY <1>1 DEF Done, Given, Summarize
<1>3. Tallied' /\ Summarized'
  BY <1>1, <1>2 DEF JInv, Tallied, Summarized
<1>4. line \in Seq(Nat) /\ done \in Nat /\ running \in Nat /\ failed \in Nat
  BY DEF IInv, TypeOK
<1>5. Cardinality(Hosts) = N
  BY FS_Interval DEF Hosts
<1>6. done + running <= N
  <2>1. Done \cap Busy = {} /\ Busy \in SUBSET Hosts
    BY DEF Done, Busy
  <2>2. Cardinality(Done \cup Busy) = Cardinality(Done) + Cardinality(Busy)
    BY <2>1, DoneAndGiven, HostsApart
  <2>3. Cardinality(Done \cup Busy) <= N
    BY <1>5, <2>1, DoneAndGiven, FewerHosts
  <2> QED
    BY <2>2, <2>3 DEF JInv, Tallied, IInv, Accounting, Busy
<1>7. failed <= N
  BY <1>5, SetsOfHosts, FewerHosts DEF IInv, Accounting
<1>8. LineSound'
  <2>1. CASE Len(line) = 0 /\ line' = Append(line, done)
    <3>1. Len(line') = 1 /\ line'[1] = done
      BY <1>4, <2>1
    <3> QED
      BY <1>1, <1>4, <3>1 DEF LineSound
  <2>2. CASE Len(line) = 1 /\ line' = Append(line, running)
    <3>1. Len(line') = 2 /\ line'[1] = line[1] /\ line'[2] = running /\ line[1] \in Nat
      BY <1>4, <2>2, AppendKeeps
    <3> QED
      BY <1>1, <1>4, <1>6, <2>2, <3>1 DEF JInv, LineSound
  <2>3. CASE Len(line) = 2 /\ line' = Append(line, failed)
    <3>1. /\ Len(line') = 3 /\ line'[1] = line[1] /\ line'[2] = line[2]
          /\ line'[3] = failed
      BY <1>4, <2>3, AppendKeeps
    <3> QED
      BY <1>1, <1>7, <2>3, <3>1 DEF JInv, LineSound
  <2> QED
    BY <2>1, <2>2, <2>3 DEF Load
<1> QED
  BY <1>3, <1>8 DEF JInv

LEMMA OtherJInv == ASSUME IInv, JInv, Log \/ Cancel \/ UNCHANGED vars PROVE JInv'
<1>1. UNCHANGED <<mpc, stage, result, done, streamed, summary>>
  BY DEF Log, Cancel, vars
<1>2. Done' = Done /\ Given' = Given /\ Summarize' = Summarize
  BY <1>1 DEF Done, Given, Summarize
<1>3. Tallied' /\ Summarized'
  BY <1>1, <1>2 DEF JInv, Tallied, Summarized
<1>4. LineSound'
  <2>1. CASE line' = <<>>
    <3>1. Len(line') = 0
      BY <2>1
    <3> QED
      BY <3>1 DEF LineSound
  <2>2. CASE line' = line
    BY <1>1, <2>2 DEF JInv, LineSound
  <2> QED
    BY <2>1, <2>2 DEF Log, Cancel, vars
<1> QED
  BY <1>3, <1>4 DEF JInv

LEMMA NextJInv == IInv /\ JInv /\ [Next]_vars => JInv'
<1> SUFFICES ASSUME IInv, JInv, [Next]_vars PROVE JInv'
  OBVIOUS
<1>1. CASE Main
  BY <1>1, LoopJInv, WaitAllJInv, ReturnJInv DEF Main
<1>2. CASE \E i \in Hosts : Host(i)
  BY <1>2, HostJInv, CountDoneJInv, StreamJInv DEF Host, Finish
<1>3. CASE Load
  BY <1>3, LoadJInv
<1>4. CASE Log \/ Cancel \/ Returned \/ UNCHANGED vars
  BY <1>4, OtherJInv DEF Returned
<1> QED
  BY <1>1, <1>2, <1>3, <1>4 DEF Next

\* done, OnHostDone and the progress line agree with the hosts' goroutines at
\* every step, and the summary is made when the last of them is gone.
THEOREM ReportInvariance == Spec => [](IInv /\ JInv)
BY InitJInv, NextJInv, InitIInv, NextIInv, PTL DEF Spec

\* The four counts of Report.finish put every host in exactly one class.
LEMMA ClassesAddUp ==
  ASSUME TypeOK, \A i \in Hosts : result[i] \in Statuses
  PROVE  /\ Summarize.total = N
         /\ Summarize.success + Summarize.failed + Summarize.cancelled
              + Summarize.skipped = N
         /\ Summarize.failed = Cardinality({i \in Hosts : result[i] = "FAILED"})
<1> DEFINE C(s) == {i \in Hosts : result[i] = s}
<1>1. \A s : C(s) \in SUBSET Hosts /\ IsFiniteSet(C(s)) /\ Cardinality(C(s)) \in Nat
  BY HostSets
<1>2. C("FAILED") = {i \in Hosts : result[i] \notin {"SUCCESS", "CANCELLED", "SKIPPED"}}
  BY DEF Statuses
<1>3. /\ Summarize.total = N
      /\ Summarize.success = Cardinality(C("SUCCESS"))
      /\ Summarize.cancelled = Cardinality(C("CANCELLED"))
      /\ Summarize.skipped = Cardinality(C("SKIPPED"))
      /\ Summarize.failed = Cardinality(C("FAILED"))
  BY <1>2 DEF Summarize
<1> DEFINE A == C("SUCCESS") \cup C("FAILED")
           B == C("CANCELLED") \cup C("SKIPPED")
<1>4. /\ C("SUCCESS") \cap C("FAILED") = {} /\ C("CANCELLED") \cap C("SKIPPED") = {}
      /\ A \cap B = {} /\ A \cup B = Hosts
  BY DEF Statuses
<1>5. A \in SUBSET Hosts /\ B \in SUBSET Hosts
  OBVIOUS
<1> HIDE DEF C
<1>6. /\ Cardinality(A) = Cardinality(C("SUCCESS")) + Cardinality(C("FAILED"))
      /\ Cardinality(B) = Cardinality(C("CANCELLED")) + Cardinality(C("SKIPPED"))
  BY <1>1, <1>4, HostsApart
<1> HIDE DEF A, B
<1>7. N = Cardinality(A) + Cardinality(B)
  <2>1. Cardinality(Hosts) = N
    BY FS_Interval, RunnerAssumption DEF RunnerAssumption, Hosts
  <2> QED
    BY <1>4, <1>5, <2>1, HostsApart
<1>8. C("FAILED") = {i \in Hosts : result[i] = "FAILED"}
  BY DEF C
<1>9. Summarize.success + Summarize.failed + Summarize.cancelled + Summarize.skipped = N
  BY <1>1, <1>3, <1>6, <1>7
<1> QED
  BY <1>3, <1>8, <1>9

\* "Run ... always returns a complete report": every host is in it exactly once
\* with its final result, the summary adds up, its failures are those the limit
\* counted, and OnHostDone was called for every host.
THEOREM ReportIsComplete == Spec => []ReportComplete
<1>1. IInv /\ JInv => ReportComplete
  <2> SUFFICES ASSUME IInv, JInv, mpc \in {"closing", "returned"}
               PROVE  /\ \A i \in Hosts : stage[i] = "ended" /\ result[i] = outcome[i]
                      /\ \A i \in Hosts : result[i] \in Statuses
                      /\ summary.total = N
                      /\ summary.success + summary.failed + summary.cancelled
                           + summary.skipped = N
                      /\ summary.failed = failed
                      /\ done = N
                      /\ Len(streamed) = N
                      /\ \A i \in Hosts : \E k \in 1..Len(streamed) : streamed[k] = i
    BY DEF ReportComplete
  <2>1. summary = Summarize /\ \A i \in Hosts : stage[i] = "ended"
    BY DEF JInv, Summarized
  <2>2. \A i \in Hosts : result[i] = outcome[i] /\ result[i] \in Statuses
    BY <2>1 DEF IInv, TypeOK, Bookkeeping
  <2>3. FailedCounted = {i \in Hosts : result[i] = "FAILED"}
    BY <2>1, <2>2 DEF FailedCounted
  <2>4. failed = summary.failed
    BY <2>1, <2>2, <2>3, ClassesAddUp DEF IInv, Accounting
  <2>5. Done = Hosts /\ Given = Hosts
    BY <2>1 DEF Done, Given
  <2>6. Cardinality(Hosts) = N
    BY FS_Interval, RunnerAssumption DEF RunnerAssumption, Hosts
  <2>7. /\ done = N /\ Len(streamed) = N
        /\ \A i \in Hosts : \E k \in 1..Len(streamed) : streamed[k] = i
    BY <2>5, <2>6 DEF JInv, Tallied
  <2>8. /\ summary.total = N
        /\ summary.success + summary.failed + summary.cancelled + summary.skipped = N
    BY <2>1, <2>2, ClassesAddUp DEF IInv
  <2> QED
    BY <2>1, <2>2, <2>4, <2>7, <2>8
<1> QED
  BY <1>1, ReportInvariance, PTL

\* logProgress loads its counters one after the other while hosts move from
\* running to done, and still never logs more hosts than there are.
THEOREM ProgressNeverOvercounts == Spec => []ProgressAddsUp
<1>1. JInv => ProgressAddsUp
  BY DEF JInv, LineSound, ProgressAddsUp
<1> QED
  BY <1>1, ReportInvariance, PTL

-----------------------------------------------------------------------------
(* Progress and finality.                                                  *)

\* Whenever the main goroutine has to wait, for a token or in wg.Wait, a goroutine
\* is there that will end its wait: no order of releases, skipped and cancelled
\* hosts leaves a token or a wg.Add behind that nobody takes back.
THEOREM MainNeverStuck == Spec => []NeverStuck
<1>1. IInv => NeverStuck
  <2> SUFFICES ASSUME IInv PROVE NeverStuck
    OBVIOUS
  <2>1. Cardinality(Live) # 0 => Live # {}
    BY FS_EmptySet
  <2>2. Cardinality(Goroutines) # 0 => Goroutines # {}
    BY FS_EmptySet
  <2>3. mpc = "select" /\ next <= N /\ sem >= Conc => Live # {}
    BY <2>1, ConcPositive DEF IInv, Accounting, ConcurrencyBound
  <2>4. mpc = "wait" /\ wg # 0 => Goroutines # {}
    BY <2>2 DEF IInv, Accounting
  <2>5. mpc = "finish" => stage[next] \in {"store", "count", "tally", "stream", "ended"}
    BY DEF IInv, Bookkeeping
  <2>6. \A i \in Hosts : stage[i] \in {"release", "leave"} => ~ByMain(i)
    BY <2>5 DEF ByMain
  <2> QED
    BY <2>3, <2>4, <2>5, <2>6 DEF NeverStuck
<1> QED
  BY <1>1, Invariance, PTL

\* What a host's step does to the report: its own result, once, and its own place
\* in the stream, when that result is stored.
LEMMA HostKeepsReport ==
  ASSUME IInv, JInv, NEW i \in Hosts, Host(i)
  PROVE  /\ mpc \notin {"closing", "returned"}
         /\ \A j \in Hosts : result[j] # "NONE" => result'[j] = result[j]
         /\ \/ streamed' = streamed
            \/ \E j \in Hosts : /\ streamed' = Append(streamed, j)
                                /\ result[j] = outcome[j] /\ result[j] # "NONE"
<1>1. /\ result \in [Hosts -> Statuses \cup {"NONE"}]
      /\ stage[i] \in {"queued", "run", "store"} => result[i] = "NONE"
      /\ stage[i] \notin {"queued", "run", "store"} => result[i] = outcome[i]
      /\ stage[i] \in {"queued", "run"} <=> outcome[i] = "NONE"
  BY DEF IInv, TypeOK, Bookkeeping
<1>2. stage[i] \in {"run", "store", "count", "tally", "stream", "release", "leave"}
  BY DEF Host, Finish, RunHost, Store, CountFailed, CountDone, Stream, Release, Leave
<1>3. mpc \notin {"closing", "returned"}
  BY <1>2, NotYetClosing
<1>4. CASE Store(i)
  BY <1>1, <1>3, <1>4 DEF Store
<1>5. CASE Stream(i)
  BY <1>1, <1>3, <1>5 DEF Stream
<1>6. CASE UNCHANGED <<result, streamed>>
  BY <1>3, <1>6
<1> QED
  BY <1>4, <1>5, <1>6 DEF Host, Finish, RunHost, CountFailed, CountDone, Release, Leave

\* A host's result is written once, OnHostDone is told of it after that, and from
\* the summary on nothing in the report changes any more, although goroutines
\* write to it without a lock.
THEOREM ReportNeverRewritten == Spec => ReportIsFinal
<1> DEFINE Kept ==
             /\ \A i \in Hosts : result[i] # "NONE" => result'[i] = result[i]
             /\ \/ streamed' = streamed
                \/ \E i \in Hosts : /\ streamed' = Append(streamed, i)
                                    /\ result[i] = outcome[i] /\ result[i] # "NONE"
             /\ mpc \in {"closing", "returned"} =>
                  UNCHANGED <<outcome, result, failed, done, streamed, summary>>
<1>1. IInv /\ JInv /\ [Next]_vars => [Kept]_vars
  <2> SUFFICES ASSUME IInv, JInv, Next PROVE Kept
    OBVIOUS
  <2>1. CASE \E i \in Hosts : Host(i)
    BY <2>1, HostKeepsReport
  <2>2. CASE WaitAll
    BY <2>2 DEF WaitAll
  <2>3. CASE CancelBeforeStart \/ SkipHost
    BY <2>3 DEF CancelBeforeStart, SkipHost
  <2>4. CASE UNCHANGED <<outcome, result, failed, done, streamed, summary>>
    BY <2>4
  <2> QED
    BY <2>1, <2>2, <2>3, <2>4
       DEF Next, Main, Acquire, Admit, Spawn, Continue, LoopEnd, Return, Load, Log,
           Cancel, Returned, vars
<1> QED
  BY <1>1, ReportInvariance, PTL DEF Spec, ReportIsFinal

=============================================================================
