---------------------------- MODULE ReportsProofs ----------------------------
(***************************************************************************)
(* Proofs about module Reports, for any inventory and any number of        *)
(* invocations: whatever is killed or fails to be written, the report file *)
(* never says of a host what did not happen, a report that rco did not     *)
(* complain about is complete, and the exit code tells how the run ended.  *)
(***************************************************************************)
EXTENDS Reports, FiniteSetTheorems, SequenceTheorems, WellFoundedInduction, TLAPS

\* The lines of a report file.
Entry == [res : UNION {[D -> Statuses] : D \in SUBSET Hosts},
          cut : {"no", "text", "newline"}]

FileOK == file \in [there : BOOLEAN, lines : Seq(Entry)]

Before == {"select", "prepare", "open"}
After == {"running", "report", "print"}

\* A line for h is in the file.
Kept(h) == \E i \in 1..Len(file.lines) : h \in DOMAIN file.lines[i].res

\* Every line says what happened in the invocation that truncated the file last.
LinesTrue ==
  \A i \in 1..Len(file.lines) : \A h \in DOMAIN file.lines[i].res :
    file.lines[i].res[h] = saved[h] /\ saved[h] # "none"

\* How far the invocation has come, and what its results are then.
Progress ==
  /\ pc \in Before => result = NoResults /\ pending = {} /\ err = FALSE
  /\ \A h \in Hosts : result[h] # "none" => h \in targets
  /\ \A h \in pending : result[h] # "none"
  /\ pending # {} => Streams /\ pc \in {"running", "idle"}
  /\ pc \in {"report", "print"} => \A h \in targets : result[h] # "none"
  /\ pc = "report" => args.report
  /\ pc \in After \cup {"open"} => args.cmd = "execute"
  /\ args.report => result = NoResults \/ saved = result
  /\ args.report /\ pc \in After => saved = result

\* While the report is being written there is nothing but whole lines in it, as
\* long as no write has failed; a .json document is not there before the end.
Writing ==
  args.report /\ pc \in {"running", "report"} =>
    /\ ~clean /\ file.there
    /\ format = "json" => file.lines = <<>>
    /\ ~err => \A i \in 1..Len(file.lines) : file.lines[i].cut = "no"

\* The hosts that have left OnHostDone are on disk, unless a write failed.
OnDisk ==
  Streams /\ ~err /\ (pc \in After \/ (pc = "idle" /\ code = 9)) =>
    \A h \in Hosts \ pending : result[h] # "none" => Kept(h)

\* A report without a complaint is whole.
CleanIsWhole ==
  clean =>
    /\ file.there
    /\ \A i \in 1..Len(file.lines) : file.lines[i].cut = "no"
    /\ format = "json" => file.lines # <<>>
    /\ \A h \in Hosts : saved[h] # "none" => Kept(h)

\* --only-failed keeps the selected hosts that the report asks to rerun.
Selected == pc \in {"prepare", "open"} /\ args.only => targets = args.sel \cap Retry

\* The inductive invariant.
IInv ==
  /\ TypeOK /\ FileOK /\ LinesTrue /\ Progress /\ Writing /\ OnDisk /\ CleanIsWhole
  /\ Selected /\ ExitCodesTell

-----------------------------------------------------------------------------
(* Lines and files.                                                        *)

\* f is the file with nothing more in it than, whole or in part, the line l.
Grown(f, l) ==
  /\ f \in [there : BOOLEAN, lines : Seq(Entry)] /\ f.there = file.there
  /\ Len(f.lines) \in {Len(file.lines), Len(file.lines) + 1}
  /\ \A i \in 1..Len(file.lines) : f.lines[i] = file.lines[i]
  /\ \A i \in 1..Len(f.lines) : i \in 1..Len(file.lines) \/ f.lines[i].res = l.res

\* f is the file with the whole line l at its end.
Whole(f, l) ==
  /\ Grown(f, l) /\ Len(f.lines) = Len(file.lines) + 1
  /\ f.lines[Len(file.lines) + 1] = l

LEMMA AppendFacts ==
  ASSUME NEW S, NEW s \in Seq(S), NEW e \in S
  PROVE  /\ Append(s, e) \in Seq(S) /\ Len(Append(s, e)) = Len(s) + 1
         /\ Append(s, e)[Len(s) + 1] = e /\ Len(s) \in Nat
         /\ \A i \in 1..Len(s) : Append(s, e)[i] = s[i]
OBVIOUS

LEMMA WrittenFacts ==
  ASSUME FileOK, NEW l \in Entry
  PROVE  Whole(Written(l), l)
<1>1. /\ file.lines \in Seq(Entry) /\ file.there \in BOOLEAN
      /\ Written(l) = [file EXCEPT !.lines = Append(file.lines, l)]
  BY DEF FileOK, Written
<1>2. PICK ls : ls = Append(file.lines, l)
  OBVIOUS
<1>3. /\ ls \in Seq(Entry) /\ Len(ls) = Len(file.lines) + 1
      /\ ls[Len(file.lines) + 1] = l /\ Len(file.lines) \in Nat
      /\ \A i \in 1..Len(file.lines) : ls[i] = file.lines[i]
  BY <1>1, <1>2, AppendFacts
<1>4. /\ Written(l) \in [there : BOOLEAN, lines : Seq(Entry)]
      /\ Written(l).there = file.there /\ Written(l).lines = ls
  BY <1>1, <1>2, <1>3 DEF FileOK
<1>5. \A i \in 1..Len(ls) : i \in 1..Len(file.lines) \/ i = Len(file.lines) + 1
  BY <1>3
<1> QED
  BY <1>3, <1>4, <1>5 DEF Grown, Whole

LEMMA TornFacts ==
  ASSUME FileOK, NEW l \in Entry, NEW f \in Torn(l)
  PROVE  Grown(f, l)
<1>1. CASE f = file
  <2>1. file \in [there : BOOLEAN, lines : Seq(Entry)]
    BY DEF FileOK
  <2> QED
    BY <1>1, <2>1 DEF Grown
<1>2. ASSUME NEW c \in {"text", "newline"}, f = Written([l EXCEPT !.cut = c])
      PROVE  Grown(f, l)
  <2>1. [l EXCEPT !.cut = c] \in Entry /\ [l EXCEPT !.cut = c].res = l.res
    BY DEF Entry
  <2>2. PICK m \in Entry : m = [l EXCEPT !.cut = c] /\ m.res = l.res
    BY <2>1
  <2>3. Whole(f, m)
    BY <1>2, <2>2, WrittenFacts
  <2> QED
    BY <2>2, <2>3 DEF Whole, Grown
<1> QED
  BY <1>1, <1>2 DEF Torn

LEMMA WriteFacts ==
  ASSUME FileOK, NEW l \in Entry, NEW w \in Write(l)
  PROVE  /\ Grown(w.file, l) /\ w.err \in BOOLEAN
         /\ ~w.err => Whole(w.file, l)
<1>1. CASE w \in [file : {Written(l)}, err : {FALSE}]
  <2>1. w.file = Written(l) /\ w.err \in BOOLEAN
    BY <1>1
  <2> QED
    BY <2>1, WrittenFacts DEF Whole
<1>2. CASE w \in [file : Torn(l), err : {TRUE}]
  <2>1. w.file \in Torn(l) /\ w.err \in BOOLEAN /\ w.err
    BY <1>2
  <2> QED
    BY <2>1, TornFacts
<1> QED
  BY <1>1, <1>2 DEF Write

\* The lines that are written.
LEMMA LineFacts ==
  ASSUME result \in [Hosts -> Results], NEW D \in SUBSET Hosts,
         \A h \in D : result[h] # "none"
  PROVE  [res |-> [x \in D |-> result[x]], cut |-> "no"] \in Entry
<1>1. [x \in D |-> result[x]] \in [D -> Statuses]
  BY DEF Results
<1>2. [D -> Statuses] \in {[E -> Statuses] : E \in SUBSET Hosts}
  OBVIOUS
<1>3. [x \in D |-> result[x]] \in UNION {[E -> Statuses] : E \in SUBSET Hosts}
  BY <1>1, <1>2, Zenon
<1> QED
  BY <1>3 DEF Entry

LEMMA SummaryFacts == SummaryLine \in Entry /\ DOMAIN SummaryLine.res = {}
<1>1. [x \in {} |-> "none"] \in [{} -> Statuses]
  OBVIOUS
<1>2. [{} -> Statuses] \in {[E -> Statuses] : E \in SUBSET Hosts}
  OBVIOUS
<1>3. [x \in {} |-> "none"] \in UNION {[E -> Statuses] : E \in SUBSET Hosts}
  BY <1>1, <1>2, Zenon
<1> QED
  BY <1>3 DEF Entry, SummaryLine

\* What a file type says about its lines.
LEMMA EntryFacts ==
  ASSUME NEW e \in Entry
  PROVE  /\ e.cut \in {"no", "text", "newline"}
         /\ \A h \in DOMAIN e.res : h \in Hosts /\ e.res[h] \in Statuses
<1>1. PICK D \in SUBSET Hosts : e.res \in [D -> Statuses]
  BY DEF Entry
<1> QED
  BY <1>1 DEF Entry

LEMMA FileLines ==
  ASSUME FileOK
  PROVE  /\ file.lines \in Seq(Entry) /\ DOMAIN file.lines = 1..Len(file.lines)
         /\ Len(file.lines) \in Nat /\ file.there \in BOOLEAN
         /\ \A i \in 1..Len(file.lines) : file.lines[i] \in Entry
BY DEF FileOK

-----------------------------------------------------------------------------
(* What onlyFailed makes of a file.                                        *)

LEMMA LeastNat ==
  ASSUME NEW T \in SUBSET Nat, T # {}
  PROVE  \E m \in T : \A n \in T : m <= n
<1> DEFINE R == OpToRel(<, Nat)
<1>1. IsWellFoundedOn(R, Nat)
  BY NatLessThanWellFounded, Zenon
<1>2. ASSUME NEW x \in Nat, NEW y \in Nat, x < y PROVE <<x, y>> \in R
  BY <1>2 DEF OpToRel
<1> HIDE DEF R
<1>3. PICK x \in T : \A y \in T : ~(<<y, x>> \in R)
  BY <1>1, WFMin
<1>4. ASSUME NEW y \in T PROVE x <= y
  <2>1. ~(y < x)
    BY <1>2, <1>3
  <2> QED
    BY <2>1
<1> QED
  BY <1>4

\* The largest of some line numbers is one of them: the least upper bound is.
LEMMA MaxFacts ==
  ASSUME NEW n \in Nat, NEW T \in SUBSET (1..n), T # {}
  PROVE  Max(T) \in T
<1> DEFINE U == {b \in Nat : \A t \in T : t <= b}
<1>1. n \in U
  OBVIOUS
<1>2. PICK b \in U : \A c \in U : b <= c
  <2>1. U \in SUBSET Nat /\ U # {}
    BY <1>1
  <2> HIDE DEF U
  <2> QED
    BY <2>1, LeastNat
<1>3. b \in Nat /\ \A t \in T : t <= b /\ t \in Nat
  BY <1>2
<1>4. b \in T
  <2>1. SUFFICES ASSUME b \notin T PROVE FALSE
    OBVIOUS
  <2>2. PICK t \in T : TRUE
    OBVIOUS
  <2>3. t \in 1..n /\ t <= b
    BY <1>3
  <2>4. b - 1 \in Nat /\ ~(b <= b - 1)
    BY <1>3, <2>3
  <2>5. \A u \in T : u <= b - 1
    BY <1>3, <2>1
  <2> QED
    BY <1>2, <2>4, <2>5
<1>5. \E x \in T : \A y \in T : x >= y
  BY <1>3, <1>4
<1> QED
  BY <1>5, Zenon DEF Max

LEMMA RecordedFacts ==
  ASSUME FileOK, LinesTrue, NEW h
  PROVE  Recorded(h) = IF Kept(h) THEN saved[h] ELSE "none"
<1> DEFINE at == {i \in 1..Len(file.lines) : h \in DOMAIN file.lines[i].res}
<1>1. Recorded(h) = IF at = {} THEN "none" ELSE file.lines[Max(at)].res[h]
  BY FileLines DEF Recorded
<1>2. at = {} <=> ~Kept(h)
  BY DEF Kept
<1>3. at # {} => Max(at) \in at
  <2>1. at \in SUBSET (1..Len(file.lines)) /\ Len(file.lines) \in Nat
    BY FileLines
  <2> HIDE DEF at
  <2> QED
    BY <2>1, MaxFacts
<1>4. ASSUME at # {} PROVE file.lines[Max(at)].res[h] = saved[h]
  <2>1. PICK m \in 1..Len(file.lines) : m = Max(at) /\ h \in DOMAIN file.lines[m].res
    BY <1>3, <1>4
  <2> QED
    BY <2>1 DEF LinesTrue
<1> QED
  BY <1>1, <1>2, <1>4

-----------------------------------------------------------------------------
(* Steps that leave the file alone.                                        *)

\* The type invariant in parts.
TypeAt ==
  /\ format \in Formats /\ runs \in 0..MaxRuns /\ args \in Args
  /\ pc \in {"idle", "select", "prepare", "open", "running", "report", "print"}
  /\ code \in {-1, 0, 1, 2, 9}

TypeHosts ==
  /\ targets \subseteq Hosts /\ pending \subseteq targets
  /\ pc \notin {"idle", "select"} => targets # {}
  /\ result \in [Hosts -> Results] /\ saved \in [Hosts -> Results]

TypeFlags == err \in BOOLEAN /\ clean \in BOOLEAN

LEMMA TypeParts ==
  /\ TypeOK => TypeAt /\ TypeHosts /\ TypeFlags
  /\ FileOK /\ TypeAt /\ TypeHosts /\ TypeFlags => TypeOK
  /\ FileOK' /\ TypeAt' /\ TypeHosts' /\ TypeFlags' => TypeOK'
<1>1. TypeOK => TypeAt /\ TypeHosts /\ TypeFlags
  BY DEF TypeOK, TypeAt, TypeHosts, TypeFlags
<1>2. FileOK =>
        /\ file.there \in BOOLEAN
        /\ \A i \in DOMAIN file.lines :
             /\ file.lines[i].cut \in {"no", "text", "newline"}
             /\ \A h \in DOMAIN file.lines[i].res :
                  h \in Hosts /\ file.lines[i].res[h] \in Statuses
  BY FileLines, EntryFacts
<1>3. FileOK' =>
        /\ file'.there \in BOOLEAN
        /\ \A i \in DOMAIN file'.lines :
             /\ file'.lines[i].cut \in {"no", "text", "newline"}
             /\ \A h \in DOMAIN file'.lines[i].res :
                  h \in Hosts /\ file'.lines[i].res[h] \in Statuses
  <2>1. ASSUME FileOK'
        PROVE  /\ DOMAIN file'.lines = 1..Len(file'.lines) /\ file'.there \in BOOLEAN
               /\ \A i \in 1..Len(file'.lines) : file'.lines[i] \in Entry
    BY <2>1 DEF FileOK
  <2> QED
    BY <2>1, EntryFacts
<1>4. FileOK /\ TypeAt /\ TypeHosts /\ TypeFlags => TypeOK
  BY <1>2 DEF TypeOK, TypeAt, TypeHosts, TypeFlags
<1>5. FileOK' /\ TypeAt' /\ TypeHosts' /\ TypeFlags' => TypeOK'
  BY <1>3 DEF TypeOK, TypeAt, TypeHosts, TypeFlags
<1> QED
  BY <1>1, <1>4, <1>5

LEMMA StateFacts ==
  ASSUME IInv
  PROVE  /\ TypeAt /\ TypeHosts /\ TypeFlags /\ FileOK
         /\ IsFiniteSet(Hosts) /\ MaxRuns \in Nat
BY TypeParts, ReportsAssumption DEF ReportsAssumption, IInv

LEMMA SameFile ==
  ASSUME UNCHANGED <<file, format>>
  PROVE  /\ FileOK' <=> FileOK
         /\ \A h : Kept(h)' <=> Kept(h)
         /\ Retry' = Retry
<1>1. \A h : Recorded(h)' = Recorded(h)
  BY DEF Recorded
<1> QED
  BY <1>1 DEF FileOK, Kept, Retry

LEMMA NoResultsFacts ==
  /\ NoResults \in [Hosts -> Results] /\ \A h \in Hosts : NoResults[h] = "none"
BY DEF NoResults, Results

\* Only the control moves, towards the next phase or to an exit.
LEMMA ControlKeeps ==
  ASSUME IInv, UNCHANGED <<format, file, runs, args, targets, result, pending, err,
                           saved, clean>>,
         pc # "idle", TypeAt',
         \/ pc' = "idle" /\ code' \in {0, 1, 2}
         \/ pc = "prepare" /\ pc' = "open" /\ args.cmd = "execute"
         \/ pc = "running" /\ pc' = "report" /\ args.report
            /\ \A h \in targets : result[h] # "none"
         \/ pc = "running" /\ pc' = "print" /\ \A h \in targets : result[h] # "none",
         pc' \in {"report", "print"} => pending = {},
         ExitCodesTell'
  PROVE  IInv'
<1>1. /\ format' = format /\ file' = file /\ runs' = runs /\ args' = args
      /\ targets' = targets /\ result' = result /\ pending' = pending /\ err' = err
      /\ saved' = saved /\ clean' = clean
  OBVIOUS
<1>2. FileOK' /\ (\A h : Kept(h)' <=> Kept(h)) /\ Retry' = Retry
  BY <1>1, SameFile, StateFacts
<1>3. TypeOK'
  <2>1. TypeHosts'
    BY <1>1, StateFacts DEF TypeHosts
  <2>2. TypeFlags'
    BY <1>1, StateFacts, Zenon DEF TypeFlags
  <2> QED
    BY <1>2, <2>1, <2>2, TypeParts
<1>4. LinesTrue'
  BY <1>1 DEF IInv, LinesTrue
<1>5. Progress'
  BY <1>1 DEF IInv, Progress, Streams, Before, After
<1>6. Writing'
  BY <1>1 DEF IInv, Writing
<1>7. OnDisk'
  BY <1>1, <1>2 DEF IInv, OnDisk, Streams, After
<1>8. CleanIsWhole'
  BY <1>1, <1>2 DEF IInv, CleanIsWhole
<1>9. Selected'
  BY <1>1, <1>2 DEF IInv, Selected
<1> QED
  BY <1>2, <1>3, <1>4, <1>5, <1>6, <1>7, <1>8, <1>9 DEF IInv

LEMMA InvokeStep ==
  ASSUME IInv, Invoke
  PROVE  IInv'
<1>1. /\ format' = format /\ file' = file /\ saved' = saved /\ clean' = clean
      /\ args' \in Args /\ pc' = "select" /\ code' = -1 /\ targets' = {}
      /\ result' = NoResults /\ pending' = {} /\ runs' = runs + 1 /\ runs < MaxRuns
  BY DEF Invoke
<1>2. err' = FALSE
  BY DEF Invoke
<1>3. FileOK' /\ (\A h : Kept(h)' <=> Kept(h)) /\ Retry' = Retry
  BY <1>1, SameFile, StateFacts
<1>4. TypeOK'
  <2>1. TypeAt'
    BY <1>1, StateFacts DEF TypeAt
  <2>2. TypeHosts'
    BY <1>1, StateFacts, NoResultsFacts DEF TypeHosts
  <2>3. TypeFlags'
    BY <1>1, <1>2, StateFacts, Zenon DEF TypeFlags
  <2> QED
    BY <1>3, <2>1, <2>2, <2>3, TypeParts
<1>5. LinesTrue'
  BY <1>1 DEF IInv, LinesTrue
<1>6. Progress'
  <2>1. NoResults' = NoResults
    BY DEF NoResults
  <2> QED
    BY <1>1, <1>2, <2>1, NoResultsFacts DEF Progress, Streams, Before, After
<1>7. Writing' /\ OnDisk' /\ Selected' /\ ExitCodesTell'
  BY <1>1 DEF Writing, OnDisk, Selected, ExitCodesTell, After
<1>8. CleanIsWhole'
  BY <1>1, <1>3 DEF IInv, CleanIsWhole
<1> QED
  BY <1>3, <1>4, <1>5, <1>6, <1>7, <1>8 DEF IInv

LEMMA BadInputStep ==
  ASSUME IInv, BadInput
  PROVE  IInv'
<1>1. /\ pc = "select" /\ pc' = "idle" /\ code' \in {0, 1}
      /\ code' = 0 => args.cmd \in {"validate", "help"}
      /\ UNCHANGED <<format, file, runs, args, targets, result, pending, err, saved,
                     clean>>
  BY DEF BadInput, Exit, history
<1>2. TypeAt'
  BY <1>1, StateFacts DEF TypeAt
<1>3. ExitCodesTell'
  BY <1>1 DEF ExitCodesTell
<1> QED
  BY <1>1, <1>2, <1>3, ControlKeeps

LEMMA SelectStep ==
  ASSUME IInv, Select
  PROVE  IInv'
<1>1. /\ format' = format /\ file' = file /\ runs' = runs /\ args' = args
      /\ result' = result /\ pending' = pending /\ err' = err /\ saved' = saved
      /\ clean' = clean /\ pc = "select"
  BY DEF Select, history
<1>2. CASE Exit(1) /\ UNCHANGED targets
  <2>1. pc' = "idle" /\ code' = 1 /\ targets' = targets
    BY <1>2 DEF Exit
  <2>2. TypeAt'
    BY <1>1, <2>1, StateFacts DEF TypeAt
  <2>3. ExitCodesTell'
    BY <2>1 DEF ExitCodesTell
  <2> QED
    BY <1>1, <2>1, <2>2, <2>3, ControlKeeps
<1>3. ASSUME NEW kept, kept = IF args.only THEN args.sel \cap Retry ELSE args.sel,
             kept # {}, targets' = kept, pc' = "prepare", code' = code
      PROVE  IInv'
  <2>1. FileOK' /\ (\A h : Kept(h)' <=> Kept(h)) /\ Retry' = Retry
    BY <1>1, SameFile, StateFacts
  <2>2. kept \subseteq Hosts
    BY <1>3, StateFacts DEF TypeAt, Args
  <2>3. /\ result = NoResults /\ pending = {} /\ ~err
        /\ \A h \in Hosts : result[h] = "none"
    BY <1>1, NoResultsFacts DEF IInv, Progress, Before
  <2>4. err' = FALSE
    <3>1. err = FALSE
      BY <1>1 DEF IInv, Progress, Before
    <3> QED
      BY <1>1, <3>1
  <2>5. TypeOK'
    <3>1. TypeAt'
      BY <1>1, <1>3, StateFacts DEF TypeAt
    <3>2. TypeHosts'
      BY <1>1, <1>3, <2>2, <2>3, StateFacts DEF TypeHosts
    <3>3. TypeFlags'
      BY <1>1, StateFacts, Zenon DEF TypeFlags
    <3> QED
      BY <2>1, <3>1, <3>2, <3>3, TypeParts
  <2>6. LinesTrue'
    BY <1>1 DEF IInv, LinesTrue
  <2>7. Progress'
    <3>1. NoResults' = NoResults
      BY DEF NoResults
    <3> QED
      BY <1>1, <1>3, <2>3, <2>4, <3>1 DEF Progress, Streams, Before, After
  <2>8. Writing' /\ OnDisk' /\ ExitCodesTell'
    BY <1>1, <1>3 DEF Writing, OnDisk, ExitCodesTell, After
  <2>9. CleanIsWhole'
    BY <1>1, <2>1 DEF IInv, CleanIsWhole
  <2>10. Selected'
    BY <1>1, <1>3, <2>1 DEF Selected
  <2> QED
    BY <2>1, <2>5, <2>6, <2>7, <2>8, <2>9, <2>10 DEF IInv
<1> QED
  BY <1>2, <1>3 DEF Select, NoHosts

LEMMA PrepareStep ==
  ASSUME IInv, Prepare
  PROVE  IInv'
<1>1. /\ pc = "prepare"
      /\ UNCHANGED <<format, file, runs, args, targets, result, pending, err, saved,
                     clean>>
      /\ \/ pc' = "idle" /\ code' \in {0, 1} /\ (code' = 0 => args.cmd # "execute")
         \/ pc' = "open" /\ code' = code /\ args.cmd = "execute"
  BY DEF Prepare, PrintPreview, Exit, history
<1>2. TypeAt'
  BY <1>1, StateFacts DEF TypeAt
<1>3. ExitCodesTell'
  BY <1>1 DEF ExitCodesTell
<1> QED
  BY <1>1, <1>2, <1>3, ControlKeeps

LEMMA RunReturnsStep ==
  ASSUME IInv, RunReturns
  PROVE  IInv'
<1>1. /\ pc = "running" /\ pending = {} /\ \A h \in targets : result[h] # "none"
      /\ UNCHANGED <<format, file, runs, args, targets, result, pending, err, saved,
                     clean>>
      /\ code' = code /\ pc' \in {"report", "print"} /\ (pc' = "report" => args.report)
  BY DEF RunReturns, history
<1>2. TypeAt'
  BY <1>1, StateFacts DEF TypeAt
<1>3. ExitCodesTell'
  BY <1>1 DEF ExitCodesTell
<1> QED
  BY <1>1, <1>2, <1>3, ControlKeeps

LEMMA PrintReportStep ==
  ASSUME IInv, PrintReport
  PROVE  IInv'
<1>1. /\ pc = "print" /\ pc' = "idle" /\ (code' = 1 \/ code' = ResultCode)
      /\ UNCHANGED <<format, file, runs, args, targets, result, pending, err, saved,
                     clean>>
  BY DEF PrintReport, Exit, history
<1>2. code' \in {0, 1, 2} /\ (code' = 0 => OK) /\ (code' = 2 => ~OK)
  BY <1>1 DEF ResultCode
<1>3. TypeAt'
  BY <1>1, <1>2, StateFacts DEF TypeAt
<1>4. OK <=> \A h \in targets : result[h] = "SUCCESS"
  <2> DEFINE S == {h \in targets : result[h] = "SUCCESS"}
  <2>1. IsFiniteSet(targets) /\ S \subseteq targets
    BY StateFacts, FS_Subset DEF TypeHosts
  <2>2. OK <=> Cardinality(S) = Cardinality(targets)
    BY DEF OK
  <2> HIDE DEF S
  <2>3. OK <=> S = targets
    BY <2>1, <2>2, FS_Subset
  <2> QED
    BY <2>3 DEF S
<1>5. targets # {} /\ \A h \in targets : result[h] # "none"
  BY <1>1, StateFacts DEF IInv, Progress, TypeHosts
<1>6. ExitCodesTell'
  BY <1>1, <1>2, <1>4, <1>5 DEF ExitCodesTell, Ran
<1> QED
  BY <1>1, <1>2, <1>3, <1>6, ControlKeeps

-----------------------------------------------------------------------------
(* Steps that write.                                                       *)

\* The line says what happened.
TrueLine(l) == \A h \in DOMAIN l.res : l.res[h] = saved[h] /\ saved[h] # "none"

LEMMA GrownKeeps ==
  ASSUME IInv, NEW l, Grown(file', l), TrueLine(l), saved' = saved
  PROVE  /\ FileOK' /\ LinesTrue' /\ file'.there = file.there
         /\ \A h : Kept(h) => Kept(h)'
<1>1. FileOK' /\ file'.there = file.there
  BY DEF Grown, FileOK
<1>2. \A h : Kept(h) => Kept(h)'
  <2>1. \A i \in 1..Len(file.lines) : i \in 1..Len(file'.lines)
    BY StateFacts, FileLines DEF Grown
  <2> QED
    BY <2>1 DEF Grown, Kept
<1>3. LinesTrue'
  <2> SUFFICES ASSUME NEW i \in 1..Len(file'.lines), NEW h \in DOMAIN file'.lines[i].res
               PROVE  file'.lines[i].res[h] = saved[h] /\ saved[h] # "none"
    BY DEF LinesTrue
  <2>1. CASE i \in 1..Len(file.lines)
    <3>1. file'.lines[i] = file.lines[i]
      BY <2>1 DEF Grown
    <3> QED
      BY <2>1, <3>1 DEF IInv, LinesTrue
  <2>2. CASE file'.lines[i].res = l.res
    BY <2>2 DEF TrueLine
  <2> QED
    BY <2>1, <2>2 DEF Grown
<1> QED
  BY <1>1, <1>2, <1>3

LEMMA WholeKeeps ==
  ASSUME IInv, NEW l, Whole(file', l), l.cut = "no"
  PROVE  /\ \A h \in DOMAIN l.res : Kept(h)'
         /\ (\A i \in 1..Len(file.lines) : file.lines[i].cut = "no") =>
              \A i \in 1..Len(file'.lines) : file'.lines[i].cut = "no"
         /\ file'.lines # <<>>
<1>1. /\ Len(file.lines) \in Nat /\ Len(file'.lines) = Len(file.lines) + 1
      /\ file'.lines[Len(file.lines) + 1] = l
      /\ \A i \in 1..Len(file.lines) : file'.lines[i] = file.lines[i]
  BY StateFacts, FileLines DEF Whole, Grown
<1>2. PICK n \in Nat : n = Len(file.lines) + 1 /\ n \in 1..Len(file'.lines)
  BY <1>1
<1>3. file'.lines[n] = l
  BY <1>1, <1>2
<1>4. \A h \in DOMAIN l.res : Kept(h)'
  BY <1>2, <1>3 DEF Kept
<1>5. \A i \in 1..Len(file'.lines) : i \in 1..Len(file.lines) \/ i = n
  BY <1>1, <1>2
<1>6. file'.lines # <<>>
  BY <1>1, <1>2
<1> QED
  BY <1>1, <1>3, <1>4, <1>5, <1>6

LEMMA OpenStep ==
  ASSUME IInv, Open
  PROVE  IInv'
<1>1. /\ format' = format /\ runs' = runs /\ args' = args /\ targets' = targets
      /\ result' = result /\ pending' = pending /\ err' = err /\ pc = "open"
  BY DEF Open
<1>2. /\ result = NoResults /\ pending = {} /\ args.cmd = "execute"
      /\ \A h \in Hosts : result[h] = "none"
  BY <1>1, NoResultsFacts DEF IInv, Progress, Before
<1>3. NoResults' = NoResults
  BY DEF NoResults
<1>4. CASE Exit(1) /\ UNCHANGED <<file, history>>
  <2>1. pc' = "idle" /\ code' = 1 /\ file' = file /\ saved' = saved /\ clean' = clean
    BY <1>4 DEF Exit, history
  <2>2. TypeAt'
    BY <1>1, <2>1, StateFacts DEF TypeAt
  <2>3. ExitCodesTell'
    BY <2>1 DEF ExitCodesTell
  <2> QED
    BY <1>1, <2>1, <2>2, <2>3, ControlKeeps
<1>5. ASSUME pc' = "running", code' = code, args.report,
             file' = [there |-> TRUE, lines |-> <<>>], saved' = NoResults, clean' = FALSE
      PROVE  IInv'
  <2>1. file'.lines = <<>> /\ file'.there /\ Len(file'.lines) = 0
    BY <1>5
  <2>2. FileOK'
    <3>1. TRUE \in BOOLEAN /\ <<>> \in Seq(Entry)
      OBVIOUS
    <3> QED
      BY <1>5, <3>1, Zenon DEF FileOK
  <2>3. TypeOK'
    <3>1. TypeAt'
      BY <1>1, <1>5, StateFacts DEF TypeAt
    <3>2. TypeHosts'
      BY <1>1, <1>5, StateFacts, NoResultsFacts DEF TypeHosts
    <3>3. TypeFlags'
      BY <1>1, <1>5, StateFacts, Zenon DEF TypeFlags
    <3> QED
      BY <2>2, <3>1, <3>2, <3>3, TypeParts
  <2>4. LinesTrue'
    BY <2>1 DEF LinesTrue
  <2>5. Progress'
    BY <1>1, <1>2, <1>3, <1>5 DEF Progress, Streams, Before, After
  <2>6. Writing'
    BY <1>1, <1>5, <2>1 DEF Writing
  <2>7. OnDisk'
    BY <1>1, <1>2 DEF OnDisk
  <2>8. CleanIsWhole' /\ Selected' /\ ExitCodesTell'
    BY <1>5 DEF CleanIsWhole, Selected, ExitCodesTell
  <2> QED
    BY <2>2, <2>3, <2>4, <2>5, <2>6, <2>7, <2>8 DEF IInv
<1>6. ASSUME pc' = "running", code' = code, ~args.report,
             file' = file, saved' = saved, clean' = clean
      PROVE  IInv'
  <2>1. FileOK' /\ (\A h : Kept(h)' <=> Kept(h))
    BY <1>1, <1>6, SameFile, StateFacts
  <2>2. TypeOK'
    <3>1. TypeAt'
      BY <1>1, <1>6, StateFacts DEF TypeAt
    <3>2. TypeHosts'
      BY <1>1, <1>6, StateFacts DEF TypeHosts
    <3>3. TypeFlags'
      BY <1>1, <1>6, StateFacts, Zenon DEF TypeFlags
    <3> QED
      BY <2>1, <3>1, <3>2, <3>3, TypeParts
  <2>3. LinesTrue'
    BY <1>6 DEF IInv, LinesTrue
  <2>4. Progress'
    BY <1>1, <1>2, <1>3, <1>6 DEF Progress, Streams, Before, After
  <2>5. Writing' /\ OnDisk' /\ Selected' /\ ExitCodesTell'
    BY <1>1, <1>6 DEF Writing, OnDisk, Streams, Selected, ExitCodesTell
  <2>6. CleanIsWhole'
    BY <1>1, <1>6, <2>1 DEF IInv, CleanIsWhole
  <2> QED
    BY <2>1, <2>2, <2>3, <2>4, <2>5, <2>6 DEF IInv
<1> QED
  BY <1>4, <1>5, <1>6 DEF Open

LEMMA HostDoneStep ==
  ASSUME IInv, NEW h \in Hosts, HostDone(h)
  PROVE  IInv'
<1>1. /\ format' = format /\ file' = file /\ runs' = runs /\ args' = args /\ pc' = pc
      /\ targets' = targets /\ err' = err /\ code' = code /\ clean' = clean
      /\ pc = "running" /\ h \in targets /\ result[h] = "none"
      /\ pending' = IF Streams THEN pending \cup {h} ELSE pending
  BY DEF HostDone
<1>2. PICK st \in Statuses :
        /\ result' = [result EXCEPT ![h] = st]
        /\ saved' = IF args.report THEN [saved EXCEPT ![h] = st] ELSE saved
  BY DEF HostDone
<1>3. FileOK' /\ (\A x : Kept(x)' <=> Kept(x))
  BY <1>1, SameFile, StateFacts
<1>4. /\ result \in [Hosts -> Results] /\ saved \in [Hosts -> Results] /\ st \in Results
      /\ st # "none" /\ result'[h] = st /\ \A x \in Hosts : x # h => result'[x] = result[x]
  BY <1>2, StateFacts DEF TypeHosts, Results, Statuses
<1>5. TypeOK'
  <2>1. TypeAt'
    BY <1>1, StateFacts DEF TypeAt
  <2>2. TypeHosts'
    BY <1>1, <1>2, <1>4, StateFacts DEF TypeHosts
  <2>3. TypeFlags'
    BY <1>1, StateFacts, Zenon DEF TypeFlags
  <2> QED
    BY <1>3, <2>1, <2>2, <2>3, TypeParts
<1>6. /\ args.report => saved = result
      /\ \A x \in Hosts : result[x] # "none" => x \in targets
      /\ \A x \in pending : result[x] # "none"
      /\ pending # {} => Streams
      /\ args.cmd = "execute" /\ pending \subseteq Hosts
  BY <1>1, StateFacts DEF IInv, Progress, After, TypeHosts
<1>7. args.report => saved' = result'
  BY <1>2, <1>6
<1>8. LinesTrue'
  <2> SUFFICES ASSUME NEW i \in 1..Len(file.lines), NEW x \in DOMAIN file.lines[i].res
               PROVE  file.lines[i].res[x] = saved'[x] /\ saved'[x] # "none"
    BY <1>1 DEF LinesTrue
  <2>1. file.lines[i].res[x] = saved[x] /\ saved[x] # "none"
    BY DEF IInv, LinesTrue
  <2>2. x \in Hosts
    BY StateFacts, FileLines, EntryFacts
  <2>3. args.report => x # h
    BY <1>1, <1>6, <2>1
  <2>4. saved'[x] = saved[x]
    BY <1>2, <1>4, <2>2, <2>3
  <2> QED
    BY <2>1, <2>4
<1>9. Progress'
  <2>1. \A x \in Hosts : result'[x] # "none" => x \in targets
    BY <1>1, <1>4, <1>6
  <2>2. \A x \in pending' : result'[x] # "none"
    BY <1>1, <1>4, <1>6
  <2>3. pending' # {} => Streams
    BY <1>1, <1>6
  <2>4. Streams' <=> Streams
    BY <1>1 DEF Streams
  <2> QED
    BY <1>1, <1>6, <1>7, <2>1, <2>2, <2>3, <2>4 DEF Progress, Before, After
<1>10. Writing'
  BY <1>1 DEF IInv, Writing
<1>11. OnDisk'
  <2> SUFFICES ASSUME Streams, ~err, NEW x \in Hosts \ pending', result'[x] # "none"
               PROVE  Kept(x)
    BY <1>1, <1>3 DEF OnDisk, Streams
  <2>1. x # h /\ x \notin pending
    BY <1>1
  <2>2. result[x] # "none"
    BY <1>4, <2>1
  <2> QED
    BY <1>1, <2>1, <2>2 DEF IInv, OnDisk, After
<1>12. CleanIsWhole'
  <2>1. args.report => ~clean
    BY <1>1 DEF IInv, Writing
  <2>2. clean => saved' = saved
    BY <1>2, <2>1
  <2> QED
    BY <1>1, <1>3, <2>2 DEF IInv, CleanIsWhole
<1>13. Selected' /\ ExitCodesTell'
  BY <1>1 DEF Selected, ExitCodesTell
<1> QED
  BY <1>3, <1>5, <1>8, <1>9, <1>10, <1>11, <1>12, <1>13 DEF IInv

LEMMA HostLineFacts ==
  ASSUME IInv, NEW h \in pending, pc = "running"
  PROVE  /\ HostLine(h) \in Entry /\ TrueLine(HostLine(h))
         /\ DOMAIN HostLine(h).res = {h} /\ HostLine(h).cut = "no"
<1>1. /\ result \in [Hosts -> Results] /\ h \in Hosts /\ result[h] # "none"
      /\ Streams /\ saved = result
  BY StateFacts DEF IInv, Progress, Streams, After, TypeHosts
<1>2. HostLine(h) \in Entry
  BY <1>1, LineFacts DEF HostLine
<1>3. /\ DOMAIN HostLine(h).res = {h} /\ HostLine(h).cut = "no"
      /\ HostLine(h).res[h] = result[h]
  BY DEF HostLine
<1>4. TrueLine(HostLine(h))
  BY <1>1, <1>3 DEF TrueLine
<1> QED
  BY <1>2, <1>3, <1>4

LEMMA LineStep ==
  ASSUME IInv, NEW h \in Hosts, Line(h)
  PROVE  IInv'
<1>1. /\ format' = format /\ runs' = runs /\ args' = args /\ pc' = pc
      /\ targets' = targets /\ result' = result /\ code' = code /\ saved' = saved
      /\ clean' = clean /\ pc = "running" /\ h \in pending /\ pending' = pending \ {h}
  BY DEF Line, history
<1>2. PICK w \in Write(HostLine(h)) : file' = w.file /\ err' = FirstError(w.err)
  BY DEF Line
<1>3. /\ HostLine(h) \in Entry /\ TrueLine(HostLine(h))
      /\ DOMAIN HostLine(h).res = {h} /\ HostLine(h).cut = "no"
  BY <1>1, HostLineFacts
<1>4. /\ Grown(file', HostLine(h)) /\ w.err \in BOOLEAN
      /\ ~w.err => Whole(file', HostLine(h))
  BY <1>2, <1>3, StateFacts, WriteFacts
<1>5. /\ FileOK' /\ LinesTrue' /\ file'.there = file.there
      /\ \A x : Kept(x) => Kept(x)'
  BY <1>1, <1>3, <1>4, GrownKeeps
<1>6. err' \in BOOLEAN
  BY <1>2, Zenon DEF FirstError
<1>7. ~err' => ~err /\ ~w.err
  BY <1>2 DEF FirstError
<1>8. TypeOK'
  <2>1. TypeAt'
    BY <1>1, StateFacts DEF TypeAt
  <2>2. TypeHosts'
    BY <1>1, StateFacts DEF TypeHosts
  <2>3. TypeFlags'
    BY <1>1, <1>6, StateFacts, Zenon DEF TypeFlags
  <2> QED
    BY <1>5, <2>1, <2>2, <2>3, TypeParts
<1>9. Progress'
  BY <1>1 DEF IInv, Progress, Streams, Before, After
<1>10. Streams
  BY <1>1 DEF IInv, Progress
<1>11. Writing'
  <2>1. /\ ~clean /\ file.there
        /\ ~err => \A i \in 1..Len(file.lines) : file.lines[i].cut = "no"
    BY <1>1, <1>10 DEF IInv, Writing, Streams
  <2>2. ~err' => \A i \in 1..Len(file'.lines) : file'.lines[i].cut = "no"
    BY <1>3, <1>4, <1>7, <2>1, WholeKeeps
  <2> QED
    BY <1>1, <1>5, <1>10, <2>1, <2>2 DEF Writing, Streams
<1>12. OnDisk'
  <2> SUFFICES ASSUME ~err', NEW x \in Hosts \ pending', result[x] # "none"
               PROVE  Kept(x)'
    BY <1>1 DEF OnDisk
  <2>1. CASE x = h
    BY <1>3, <1>4, <1>7, <2>1, WholeKeeps
  <2>2. CASE x # h
    <3>1. x \in Hosts \ pending
      BY <1>1, <2>2
    <3>2. Kept(x)
      BY <1>1, <1>7, <1>10, <3>1 DEF IInv, OnDisk, After
    <3> QED
      BY <1>5, <3>2
  <2> QED
    BY <2>1, <2>2
<1>13. CleanIsWhole' /\ Selected' /\ ExitCodesTell'
  BY <1>1, <1>10 DEF IInv, Writing, Streams, CleanIsWhole, Selected, ExitCodesTell
<1> QED
  BY <1>5, <1>8, <1>9, <1>11, <1>12, <1>13 DEF IInv

-----------------------------------------------------------------------------
(* The end of the report, and the end of the process.                      *)

LEMMA ReportFacts ==
  ASSUME IInv, pc = "report"
  PROVE  /\ args.report /\ ~clean /\ file.there /\ pending = {} /\ saved = result
         /\ format = "json" => file.lines = <<>>
         /\ ~err => \A i \in 1..Len(file.lines) : file.lines[i].cut = "no"
         /\ \A h \in targets : result[h] # "none"
         /\ \A h \in Hosts : result[h] # "none" => h \in targets
         /\ targets \subseteq Hosts /\ args.cmd = "execute"
         /\ Document \in Entry /\ TrueLine(Document)
         /\ DOMAIN Document.res = targets /\ Document.cut = "no"
         /\ SummaryLine \in Entry /\ TrueLine(SummaryLine) /\ SummaryLine.cut = "no"
<1>1. /\ args.report /\ pending = {} /\ saved = result /\ args.cmd = "execute"
      /\ \A h \in targets : result[h] # "none"
      /\ \A h \in Hosts : result[h] # "none" => h \in targets
  BY DEF IInv, Progress, After
<1>2. /\ ~clean /\ file.there /\ (format = "json" => file.lines = <<>>)
      /\ ~err => \A i \in 1..Len(file.lines) : file.lines[i].cut = "no"
  BY <1>1 DEF IInv, Writing
<1>3. targets \subseteq Hosts /\ result \in [Hosts -> Results]
  BY StateFacts DEF TypeHosts
<1>4. Document \in Entry
  BY <1>1, <1>3, LineFacts DEF Document
<1>5. /\ DOMAIN Document.res = targets /\ Document.cut = "no"
      /\ \A h \in targets : Document.res[h] = result[h]
  BY DEF Document
<1>6. TrueLine(Document)
  BY <1>1, <1>5 DEF TrueLine
<1>7. SummaryLine \in Entry /\ TrueLine(SummaryLine) /\ SummaryLine.cut = "no"
  BY SummaryFacts DEF TrueLine, SummaryLine
<1> QED
  BY <1>1, <1>2, <1>3, <1>4, <1>5, <1>6, <1>7

LEMMA CloseStreamStep ==
  ASSUME IInv, CloseStream
  PROVE  IInv'
<1>1. /\ format' = format /\ runs' = runs /\ args' = args /\ pc = "report"
      /\ pc' = "print" /\ targets' = targets /\ result' = result /\ code' = code
      /\ saved' = saved /\ pending' = pending /\ format = "jsonl"
  BY DEF CloseStream
<1>2. PICK w \in Write(SummaryLine), closing \in BOOLEAN :
        file' = w.file /\ err' = (FirstError(w.err) \/ closing)
  BY DEF CloseStream
<1>3. clean' = ~err'
  BY DEF CloseStream
<1>4. /\ Grown(file', SummaryLine) /\ (~w.err => Whole(file', SummaryLine))
  BY <1>1, <1>2, StateFacts, ReportFacts, WriteFacts
<1>5. /\ FileOK' /\ LinesTrue' /\ file'.there = file.there
      /\ \A x : Kept(x) => Kept(x)'
  BY <1>1, <1>4, ReportFacts, GrownKeeps
<1>6. err' \in BOOLEAN /\ clean' \in BOOLEAN
  BY <1>2, <1>3, Zenon DEF FirstError
<1>7. ~err' => ~err /\ ~w.err
  BY <1>2 DEF FirstError
<1>8. TypeOK'
  <2>1. TypeAt'
    BY <1>1, StateFacts DEF TypeAt
  <2>2. TypeHosts'
    BY <1>1, StateFacts DEF TypeHosts
  <2>3. TypeFlags'
    BY <1>6, Zenon DEF TypeFlags
  <2> QED
    BY <1>5, <2>1, <2>2, <2>3, TypeParts
<1>9. Progress'
  BY <1>1 DEF IInv, Progress, Streams, Before, After
<1>10. Writing' /\ Selected' /\ ExitCodesTell'
  BY <1>1 DEF Writing, Selected, ExitCodesTell
<1>11. ~err' => \A x \in Hosts : result[x] # "none" => Kept(x)'
  <2> SUFFICES ASSUME ~err', NEW x \in Hosts, result[x] # "none" PROVE Kept(x)'
    OBVIOUS
  <2>1. Kept(x)
    BY <1>1, <1>7, ReportFacts DEF IInv, OnDisk, Streams, After
  <2> QED
    BY <1>5, <2>1
<1>12. OnDisk'
  BY <1>1, <1>11 DEF OnDisk
<1>13. CleanIsWhole'
  <2> SUFFICES ASSUME clean' PROVE CleanIsWhole'
    BY DEF CleanIsWhole
  <2>1. ~err' /\ ~err /\ Whole(file', SummaryLine)
    BY <1>3, <1>4, <1>7
  <2>2. \A i \in 1..Len(file'.lines) : file'.lines[i].cut = "no"
    BY <1>1, <2>1, ReportFacts, WholeKeeps
  <2> QED
    BY <1>1, <1>5, <1>11, <2>1, <2>2, ReportFacts DEF CleanIsWhole
<1> QED
  BY <1>5, <1>8, <1>9, <1>10, <1>12, <1>13 DEF IInv

LEMMA WriteReportStep ==
  ASSUME IInv, WriteReport
  PROVE  IInv'
<1>1. /\ format' = format /\ runs' = runs /\ args' = args /\ pc = "report"
      /\ pc' = "print" /\ targets' = targets /\ result' = result /\ code' = code
      /\ saved' = saved /\ pending' = pending /\ format = "json" /\ err' = err
  BY DEF WriteReport
<1>2. PICK w \in Write(Document), closing \in BOOLEAN :
        file' = w.file /\ clean' = ~(w.err \/ closing)
  BY DEF WriteReport
<1>3. /\ Grown(file', Document) /\ (~w.err => Whole(file', Document))
  BY <1>1, <1>2, StateFacts, ReportFacts, WriteFacts
<1>4. /\ FileOK' /\ LinesTrue' /\ file'.there = file.there
      /\ \A x : Kept(x) => Kept(x)'
  BY <1>1, <1>3, ReportFacts, GrownKeeps
<1>5. clean' \in BOOLEAN
  BY <1>2, Zenon
<1>6. TypeOK'
  <2>1. TypeAt'
    BY <1>1, StateFacts DEF TypeAt
  <2>2. TypeHosts'
    BY <1>1, StateFacts DEF TypeHosts
  <2>3. TypeFlags'
    BY <1>1, <1>5, StateFacts, Zenon DEF TypeFlags
  <2> QED
    BY <1>4, <2>1, <2>2, <2>3, TypeParts
<1>7. Progress'
  BY <1>1 DEF IInv, Progress, Streams, Before, After
<1>8. Writing' /\ Selected' /\ ExitCodesTell' /\ OnDisk'
  BY <1>1 DEF Writing, Selected, ExitCodesTell, OnDisk, Streams
<1>9. CleanIsWhole'
  <2> SUFFICES ASSUME clean' PROVE CleanIsWhole'
    BY DEF CleanIsWhole
  <2>1. Whole(file', Document)
    BY <1>2, <1>3
  <2>2. Len(file.lines) = 0
    BY <1>1, ReportFacts
  <2>3. /\ \A h \in targets : Kept(h)' 
        /\ \A i \in 1..Len(file'.lines) : file'.lines[i].cut = "no"
        /\ file'.lines # <<>>
    BY <1>1, <2>1, <2>2, ReportFacts, WholeKeeps
  <2> QED
    BY <1>1, <1>4, <2>3, ReportFacts DEF CleanIsWhole
<1> QED
  BY <1>4, <1>6, <1>7, <1>8, <1>9 DEF IInv

LEMMA KillStep ==
  ASSUME IInv, Kill
  PROVE  IInv'
<1>1. /\ format' = format /\ runs' = runs /\ args' = args /\ targets' = targets
      /\ result' = result /\ pending' = pending /\ err' = err /\ saved' = saved
      /\ clean' = clean /\ pc # "idle" /\ pc' = "idle" /\ code' = 9
  BY DEF Kill, history
<1>2. \/ file' = file
      \/ \E h \in pending : file' \in Torn(HostLine(h))
      \/ pc = "report" /\ file' \in Torn(SummaryLine)
      \/ pc = "report" /\ file' \in Torn(Document)
  BY DEF Kill
<1>3. /\ FileOK' /\ LinesTrue' /\ (\A x : Kept(x) => Kept(x)')
      /\ file' = file \/ ~clean
  <2> DEFINE G == /\ FileOK' /\ LinesTrue' /\ (\A x : Kept(x) => Kept(x)')
                  /\ file' = file \/ ~clean
  <2>1. ASSUME file' = file PROVE G
    BY <1>1, <2>1, SameFile, StateFacts DEF IInv, LinesTrue
  <2>2. ASSUME NEW l \in Entry, file' \in Torn(l), TrueLine(l), ~clean PROVE G
    <3>1. Grown(file', l)
      BY <2>2, StateFacts, TornFacts
    <3> QED
      BY <1>1, <2>2, <3>1, GrownKeeps
  <2>3. ASSUME NEW h \in pending, file' \in Torn(HostLine(h)) PROVE G
    <3>1. pc = "running" /\ Streams
      BY <1>1 DEF IInv, Progress
    <3>2. ~clean
      BY <3>1 DEF IInv, Writing, Streams
    <3> QED
      BY <2>2, <2>3, <3>1, <3>2, HostLineFacts
  <2>4. ASSUME pc = "report", file' \in Torn(SummaryLine) \/ file' \in Torn(Document)
        PROVE  G
    BY <2>2, <2>4, ReportFacts
  <2> HIDE DEF G
  <2>5. G
    BY <1>2, <2>1, <2>3, <2>4
  <2> QED
    BY <2>5 DEF G
<1>4. TypeOK'
  <2>1. TypeAt'
    BY <1>1, StateFacts DEF TypeAt
  <2>2. TypeHosts'
    BY <1>1, StateFacts DEF TypeHosts
  <2>3. TypeFlags'
    BY <1>1, StateFacts, Zenon DEF TypeFlags
  <2> QED
    BY <1>3, <2>1, <2>2, <2>3, TypeParts
<1>5. Progress'
  BY <1>1 DEF IInv, Progress, Streams, Before, After
<1>6. Writing' /\ Selected' /\ ExitCodesTell'
  BY <1>1 DEF Writing, Selected, ExitCodesTell
<1>7. OnDisk'
  <2> SUFFICES ASSUME Streams, ~err, NEW x \in Hosts \ pending, result[x] # "none"
               PROVE  Kept(x)'
    BY <1>1 DEF OnDisk, Streams
  <2>1. pc \in After
    <3>1. pc \notin Before
      BY NoResultsFacts DEF IInv, Progress
    <3> QED
      BY <1>1, <3>1, StateFacts DEF TypeAt, Before, After
  <2>2. Kept(x)
    BY <2>1 DEF IInv, OnDisk
  <2> QED
    BY <1>3, <2>2
<1>8. CleanIsWhole'
  BY <1>1, <1>3 DEF IInv, CleanIsWhole
<1> QED
  BY <1>3, <1>4, <1>5, <1>6, <1>7, <1>8 DEF IInv

-----------------------------------------------------------------------------
(* The theorems.                                                           *)

LEMMA InitIInv ==
  ASSUME Init
  PROVE  IInv
<1>1. /\ format \in Formats /\ file = NoFile /\ runs = 0 /\ pc = "idle" /\ code = 0
      /\ targets = {} /\ result = NoResults /\ pending = {} /\ saved = NoResults
  BY DEF Init
<1>2. err = FALSE /\ clean = FALSE
  BY DEF Init
<1>3. args = [cmd |-> "preview", only |-> FALSE, report |-> FALSE, sel |-> {}]
  BY DEF Init
<1>4. args \in Args
  BY <1>3, Zenon DEF Args
<1>5. FileOK /\ Len(file.lines) = 0
  <2>1. <<>> \in Seq(Entry) /\ FALSE \in BOOLEAN /\ Len(<<>>) = 0
    OBVIOUS
  <2>2. FileOK
    BY <1>1, <2>1, Zenon DEF FileOK, NoFile
  <2>3. file.lines = <<>>
    BY <1>1, Zenon DEF NoFile
  <2> QED
    BY <2>1, <2>2, <2>3
<1>6. TypeOK
  <2>1. TypeAt
    <3>1. 0 \in 0..MaxRuns /\ 0 \in {-1, 0, 1, 2, 9}
      BY ReportsAssumption DEF ReportsAssumption
    <3> QED
      BY <1>1, <1>4, <3>1 DEF TypeAt
  <2>2. TypeHosts
    BY <1>1, NoResultsFacts DEF TypeHosts
  <2>3. TypeFlags
    BY <1>2, Zenon DEF TypeFlags
  <2> QED
    BY <1>5, <2>1, <2>2, <2>3, TypeParts
<1>7. LinesTrue
  BY <1>5 DEF LinesTrue
<1>8. Progress
  BY <1>1, NoResultsFacts DEF Progress, Before, After
<1>9. Writing /\ OnDisk /\ CleanIsWhole /\ Selected /\ ExitCodesTell
  BY <1>1, <1>2 DEF Writing, OnDisk, CleanIsWhole, Selected, ExitCodesTell, After
<1> QED
  BY <1>5, <1>6, <1>7, <1>8, <1>9 DEF IInv

LEMMA StutterKeeps ==
  ASSUME IInv, UNCHANGED vars
  PROVE  IInv'
<1>1. /\ format' = format /\ runs' = runs /\ args' = args /\ pc' = pc /\ file' = file
      /\ targets' = targets /\ result' = result /\ pending' = pending /\ err' = err
      /\ code' = code /\ saved' = saved /\ clean' = clean
  BY DEF vars
<1>2. FileOK' /\ (\A h : Kept(h)' <=> Kept(h)) /\ Retry' = Retry
  BY <1>1, SameFile, StateFacts
<1>3. TypeOK'
  BY <1>1, <1>2, StateFacts, TypeParts DEF TypeAt, TypeHosts, TypeFlags
<1>4. LinesTrue' /\ Progress' /\ Writing'
  BY <1>1 DEF IInv, LinesTrue, Progress, Writing, Streams, NoResults
<1>5. OnDisk' /\ CleanIsWhole' /\ Selected' /\ ExitCodesTell'
  BY <1>1, <1>2
  DEF IInv, OnDisk, CleanIsWhole, Selected, ExitCodesTell, Streams, Ran
<1> QED
  BY <1>2, <1>3, <1>4, <1>5 DEF IInv

LEMMA NextIInv ==
  ASSUME IInv, [Next]_vars
  PROVE  IInv'
BY InvokeStep, BadInputStep, SelectStep, PrepareStep, OpenStep, HostDoneStep, LineStep,
   RunReturnsStep, CloseStreamStep, WriteReportStep, PrintReportStep, KillStep,
   StutterKeeps
DEF Next, Done

\* The inductive invariant holds over any number of invocations of rco, wherever one
\* of them is killed and whichever write fails.
THEOREM Invariance == Spec => []IInv
<1>1. Init => IInv
  BY InitIInv
<1>2. IInv /\ [Next]_vars => IInv'
  BY NextIInv
<1> QED
  BY <1>1, <1>2, PTL DEF Spec

\* The state of run and of the report file is well typed; an invocation that goes on
\* past the selection has hosts to run on.
THEOREM TypeCorrect == Spec => []TypeOK
<1>1. IInv => TypeOK
  BY DEF IInv
<1> QED
  BY <1>1, Invariance, PTL

\* onlyFailed never reruns a host that succeeded, and after a report that rco did not
\* complain about it reruns exactly the others.
THEOREM RerunsTheOthers == Spec => []RerunIsExact
<1>1. ASSUME IInv PROVE RerunIsExact
  <2> SUFFICES ASSUME pc \in {"select", "prepare", "open"}
               PROVE  /\ \A h \in Retry : saved[h] # "SUCCESS"
                      /\ clean => ~Unreadable /\
                           Retry = {h \in Hosts : saved[h] \notin {"none", "SUCCESS"}}
                      /\ args.only /\ pc # "select" => targets = args.sel \cap Retry
    BY DEF RerunIsExact
  <2>1. \A h \in Hosts : Recorded(h) = IF Kept(h) THEN saved[h] ELSE "none"
    BY <1>1, RecordedFacts DEF IInv
  <2>2. \A h \in Retry : saved[h] # "SUCCESS"
    BY <2>1 DEF Retry
  <2>3. ASSUME clean PROVE Retry = {h \in Hosts : saved[h] \notin {"none", "SUCCESS"}}
    <3>1. \A h \in Hosts : saved[h] # "none" => Kept(h)
      BY <1>1, <2>3 DEF IInv, CleanIsWhole
    <3> QED
      BY <2>1, <3>1 DEF Retry
  <2>4. ASSUME clean PROVE ~Unreadable
    BY <1>1, <2>4, FileLines DEF IInv, CleanIsWhole, Unreadable
  <2>5. args.only /\ pc # "select" => targets = args.sel \cap Retry
    BY <1>1 DEF IInv, Selected
  <2> QED
    BY <2>2, <2>3, <2>4, <2>5
<1> QED
  BY <1>1, Invariance, PTL

\* If rco is killed, every host whose OnHostDone had returned is on disk with its
\* result, unless a write had failed.
THEOREM FinishedHostsKept == Spec => []FinishedIsOnDisk
<1>1. ASSUME IInv PROVE FinishedIsOnDisk
  <2> SUFFICES ASSUME pc = "idle", code = 9, Streams, ~err,
                      NEW h \in Hosts \ pending, result[h] # "none"
               PROVE  Recorded(h) = result[h]
    BY DEF FinishedIsOnDisk
  <2>1. Kept(h)
    BY <1>1 DEF IInv, OnDisk
  <2>2. saved = result
    BY <1>1, NoResultsFacts DEF IInv, Progress, Streams
  <2> QED
    BY <1>1, <2>1, <2>2, RecordedFacts DEF IInv
<1> QED
  BY <1>1, Invariance, PTL

\* An invocation that executes ends with 0 only if every host succeeded, and with 2
\* only if one did not.
THEOREM ExitCodesAreTrue == Spec => []ExitCodesTell
<1>1. IInv => ExitCodesTell
  BY DEF IInv
<1> QED
  BY <1>1, Invariance, PTL

-----------------------------------------------------------------------------
(* Who touches the report file.                                            *)

\* What OnlyExecuteWrites asks of a step.
Guarded ==
  /\ file' # file => args.cmd = "execute" /\ args.report /\ targets # {}
  /\ pc # "open" =>
       /\ Len(file'.lines) \in {Len(file.lines), Len(file.lines) + 1}
       /\ \A i \in 1..Len(file.lines) : file'.lines[i] = file.lines[i]

LEMMA SameFileGuarded == ASSUME file' = file PROVE Guarded
BY DEF Guarded

\* A line is only written by an invocation that executes and has hosts.
LEMMA GrownGuarded ==
  ASSUME IInv, NEW l, Grown(file', l), pc \in {"running", "report"}, args.report
  PROVE  Guarded
<1>1. args.cmd = "execute"
  BY DEF IInv, Progress, After
<1>2. targets # {}
  BY DEF IInv, TypeOK
<1> QED
  BY <1>1, <1>2 DEF Guarded, Grown

LEMMA NextGuarded == ASSUME IInv, Next PROVE Guarded
<1>1. CASE \E h \in Hosts : Line(h)
  <2>1. PICK h \in Hosts : Line(h)
    BY <1>1
  <2>2. PICK w \in Write(HostLine(h)) : file' = w.file
    BY <2>1 DEF Line
  <2>3. pc = "running" /\ h \in pending /\ Streams
    BY <2>1 DEF Line, IInv, Progress
  <2>4. HostLine(h) \in Entry
    BY <2>3, HostLineFacts
  <2>5. Grown(file', HostLine(h))
    BY <2>2, <2>4, StateFacts, WriteFacts
  <2> QED
    BY <2>3, <2>5, GrownGuarded DEF Streams
<1>2. CASE CloseStream
  <2>1. PICK w \in Write(SummaryLine) : file' = w.file
    BY <1>2 DEF CloseStream
  <2>2. pc = "report" /\ args.report
    BY <1>2 DEF CloseStream, IInv, Progress
  <2>3. Grown(file', SummaryLine)
    BY <2>1, StateFacts, SummaryFacts, WriteFacts
  <2> QED
    BY <2>2, <2>3, GrownGuarded
<1>3. CASE WriteReport
  <2>1. PICK w \in Write(Document) : file' = w.file
    BY <1>3 DEF WriteReport
  <2>2. pc = "report" /\ args.report
    BY <1>3 DEF WriteReport, IInv, Progress
  <2>3. Grown(file', Document)
    BY <2>1, <2>2, StateFacts, ReportFacts, WriteFacts
  <2> QED
    BY <2>2, <2>3, GrownGuarded
<1>4. CASE Open
  <2>1. args.cmd = "execute" /\ targets # {} /\ pc = "open"
    BY <1>4 DEF Open, IInv, Progress, After, TypeOK
  <2>2. file' # file => args.report
    BY <1>4 DEF Open
  <2> QED
    BY <2>1, <2>2 DEF Guarded
<1>5. CASE Kill
  <2>1. \/ file' = file
        \/ \E h \in pending : file' \in Torn(HostLine(h))
        \/ pc = "report" /\ file' \in Torn(SummaryLine)
        \/ pc = "report" /\ file' \in Torn(Document)
    BY <1>5 DEF Kill
  <2>2. ASSUME NEW h \in pending, file' \in Torn(HostLine(h)) PROVE Guarded
    <3>1. pc = "running" /\ Streams
      BY <1>5, <2>2 DEF IInv, Progress, Kill
    <3>2. Grown(file', HostLine(h))
      BY <2>2, <3>1, StateFacts, HostLineFacts, TornFacts
    <3> QED
      BY <3>1, <3>2, GrownGuarded DEF Streams
  <2>3. ASSUME pc = "report", NEW l \in Entry, file' \in Torn(l) PROVE Guarded
    <3>1. Grown(file', l) /\ args.report
      BY <2>3, StateFacts, TornFacts DEF IInv, Progress
    <3> QED
      BY <2>3, <3>1, GrownGuarded
  <2> QED
    BY <2>1, <2>2, <2>3, SameFileGuarded, SummaryFacts, ReportFacts
<1>6. CASE UNCHANGED file
  BY <1>6, SameFileGuarded
<1> QED
  BY <1>1, <1>2, <1>3, <1>4, <1>5, <1>6
     DEF Next, Invoke, BadInput, Select, Prepare, HostDone, RunReturns, PrintReport,
         Done, vars

\* No validate, no preview and no invocation that is refused touches the report file
\* of an earlier one; an invocation that executes empties it once and then only adds
\* to it, even when it is killed or a write fails.
THEOREM ReportFileGuarded == Spec => OnlyExecuteWrites
<1>1. IInv /\ [Next]_vars => [Guarded]_vars
  BY NextGuarded
<1> QED
  BY <1>1, Invariance, PTL DEF Spec, OnlyExecuteWrites, Guarded

=============================================================================
