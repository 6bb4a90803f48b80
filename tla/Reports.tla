------------------------------- MODULE Reports -------------------------------
(***************************************************************************)
(* The command line around a run (internal/cli/cli.go: run, writeReport,   *)
(* printReport; internal/cli/reports.go: openStream, line, close,          *)
(* onlyFailed): a sequence of invocations of rco by one user that share    *)
(* one report file, given as --report, as --only-failed, or as both.       *)
(*                                                                         *)
(* Hosts finish in any order and each writes its line to a .jsonl report   *)
(* from its own goroutine; a .json report is written at the end.  Every    *)
(* write may fail, whole or in part, and the process may be killed at any  *)
(* time, in the middle of a write too.  Run itself is module Runner: here  *)
(* a host simply ends with some status.                                    *)
(***************************************************************************)
EXTENDS Integers, Sequences, FiniteSets, FiniteSetsExt

CONSTANTS
  Hosts,    \* the inventory
  Formats,  \* the extensions tried for the report file
  MaxRuns   \* bound: number of invocations

ASSUME ReportsAssumption ==
  /\ IsFiniteSet(Hosts)
  /\ Formats \subseteq {"jsonl", "json"}
  /\ MaxRuns \in Nat

\* CANCELLED hosts are treated like SKIPPED ones everywhere here.
Statuses == {"SUCCESS", "FAILED", "SKIPPED"}

\* What was typed: the command ("help": --help among the flags of any of them),
\* --only-failed FILE, --report FILE, and the hosts that the selectors pick from
\* the inventory.
Args == [cmd : {"validate", "preview", "execute", "help"}, only : BOOLEAN,
         report : BOOLEAN, sel : SUBSET Hosts]

VARIABLES
  format,   \* the extension of the report file
  file,     \* the report file: does it exist, and what was written to it
  runs,     \* invocations so far
  args,     \* of the current (at "idle": the last) invocation
  pc,       \* where its main goroutine is
  targets,  \* the hosts selected
  result,   \* the hosts' final results
  pending,  \* hosts that have a result and are inside OnHostDone
  err,      \* jsonlStream.err # nil
  code,     \* the exit code
  saved,    \* history: results of the invocation that truncated the file last
  clean     \* history: that invocation wrote its report and printed no error

vars == <<format, file, runs, args, pc, targets, result, pending, err, code,
          saved, clean>>

history == <<saved, clean>>

NoResults == [h \in Hosts |-> "none"]

NoFile == [there |-> FALSE, lines |-> <<>>]

Init ==
  /\ format \in Formats
  /\ file = NoFile
  /\ runs = 0
  /\ args = [cmd |-> "preview", only |-> FALSE, report |-> FALSE, sel |-> {}]
  /\ pc = "idle" /\ code = 0
  /\ targets = {} /\ result = NoResults /\ pending = {}
  /\ err = FALSE
  /\ saved = NoResults /\ clean = FALSE

Exit(c) == pc' = "idle" /\ code' = c

-----------------------------------------------------------------------------
(* Writing.  A line carries the results of the hosts in it: one host, none *)
(* (the summary), or, in a .json document, all of them.  cut tells what of *)
(* it is missing: nothing, part of its text, or only its newline.          *)

HostLine(h) == [res |-> [x \in {h} |-> result[x]], cut |-> "no"]

SummaryLine == [res |-> [x \in {} |-> "none"], cut |-> "no"]

Document == [res |-> [x \in targets |-> result[x]], cut |-> "no"]

WrittenAlone(l) == [there |-> TRUE, lines |-> <<l>>]

\* f.Write at the current offset of the file.
Written(l) == [file EXCEPT !.lines = Append(@, l)]

\* The file after a write of l that did not get through.
Torn(l) == {file, Written([l EXCEPT !.cut = "text"]), Written([l EXCEPT !.cut = "newline"])}

\* What a write of l can leave behind and return.
Write(l) == [file : {Written(l)}, err : {FALSE}] \cup [file : Torn(l), err : {TRUE}]

\* jsonlStream.line keeps the first error.
FirstError(e) == err \/ e

-----------------------------------------------------------------------------
(* Reading: onlyFailed.                                                    *)

\* os.ReadFile and the parser: a line whose text is cut, or that runs into the
\* next one, is no JSON; neither is an empty .json file.
Unreadable ==
  \/ ~file.there
  \/ \E i \in DOMAIN file.lines :
       \/ file.lines[i].cut = "text"
       \/ file.lines[i].cut = "newline" /\ i < Len(file.lines)
  \/ format = "json" /\ file.lines = <<>>

\* The last entry of prev.Hosts for h.
Recorded(h) ==
  LET at == {i \in DOMAIN file.lines : h \in DOMAIN file.lines[i].res}
  IN IF at = {} THEN "none" ELSE file.lines[Max(at)].res[h]

\* The map retry of onlyFailed; hosts that are not in the report are not in it.
Retry == {h \in Hosts : Recorded(h) \notin {"none", "SUCCESS"}}

-----------------------------------------------------------------------------
(* The main goroutine, up to the first connection.                         *)

Invoke ==
  /\ pc = "idle" /\ runs < MaxRuns
  /\ runs' = runs + 1
  /\ args' \in Args
  /\ pc' = "select" /\ code' = -1
  /\ targets' = {} /\ result' = NoResults /\ pending' = {}
  /\ err' = FALSE
  /\ UNCHANGED <<format, file, saved, clean>>

\* Flags, the job file, the inventory and its selectors may be wrong; validate
\* without an inventory stops after the job file, --help among the flags at once.
BadInput ==
  /\ pc = "select"
  /\ Exit(1) \/ (args.cmd \in {"validate", "help"} /\ Exit(0))
  /\ UNCHANGED <<format, file, runs, args, targets, result, pending, err, history>>

NeverEmpty(ts) == FALSE

\* len(targets) == 0
NoHosts(ts) == ts = {}

\* inv.Select, of which --only-failed keeps a part.
Select ==
  /\ pc = "select" /\ args.cmd # "help"
  /\ LET kept == IF args.only THEN args.sel \cap Retry ELSE args.sel
     IN IF (args.only /\ Unreadable) \/ NoHosts(kept)
        THEN Exit(1) /\ UNCHANGED targets
        ELSE targets' = kept /\ pc' = "prepare" /\ UNCHANGED code
  /\ UNCHANGED <<format, file, runs, args, result, pending, err, history>>

\* printPreview: it only writes to standard output, which may fail.
PrintPreview == Exit(0) \/ Exit(1)

PrepareOpensFirst ==
  /\ pc = "prepare"
  /\ \/ Exit(1)
     \/ args.cmd = "validate" /\ Exit(0)
     \/ args.cmd = "preview" /\ PrintPreview
     \/ args.cmd = "execute" /\ pc' = "open" /\ UNCHANGED code
  /\ file' = IF args.report THEN [there |-> TRUE, lines |-> <<>>] ELSE file
  /\ UNCHANGED <<format, runs, args, targets, result, pending, err, history>>

\* ParseMaxFailures, pairs and runner.Prepare may refuse; validate and a
\* preview end here, before the report file is touched.
Prepare ==
  /\ pc = "prepare"
  /\ \/ Exit(1)
     \/ args.cmd = "validate" /\ Exit(0)
     \/ args.cmd = "preview" /\ PrintPreview
     \/ args.cmd = "execute" /\ pc' = "open" /\ UNCHANGED code
  /\ UNCHANGED <<format, file, runs, args, targets, result, pending, err, history>>

\* openStream, or OpenFile for the other formats: both truncate, and a path
\* that cannot be opened ends the invocation.
Open ==
  /\ pc = "open"
  /\ \/ /\ args.report /\ Exit(1)
        /\ UNCHANGED <<file, history>>
     \/ /\ pc' = "running" /\ UNCHANGED code
        /\ IF args.report
           THEN file' = [there |-> TRUE, lines |-> <<>>] /\ saved' = NoResults /\ clean' = FALSE
           ELSE UNCHANGED <<file, saved, clean>>
  /\ UNCHANGED <<format, runs, args, targets, result, pending, err>>

-----------------------------------------------------------------------------
(* r.Run(ctx) and what follows.                                            *)

Streams == args.report /\ format = "jsonl"

\* Run has a final result for h and calls OnHostDone, if it is set.
HostDone(h) ==
  /\ pc = "running" /\ h \in targets /\ result[h] = "none"
  /\ \E s \in Statuses :
       /\ result' = [result EXCEPT ![h] = s]
       /\ saved' = IF args.report THEN [saved EXCEPT ![h] = s] ELSE saved
  /\ pending' = IF Streams THEN pending \cup {h} ELSE pending
  /\ UNCHANGED <<format, file, runs, args, pc, targets, err, code, clean>>

\* jsonlStream.line for h, under its mutex.
Line(h) ==
  /\ pc = "running" /\ h \in pending
  /\ \E w \in Write(HostLine(h)) : file' = w.file /\ err' = FirstError(w.err)
  /\ pending' = pending \ {h}
  /\ UNCHANGED <<format, runs, args, pc, targets, result, code, history>>

\* Run returns: every host has its result and every OnHostDone has returned.
RunReturns ==
  /\ pc = "running" /\ pending = {} /\ \A h \in targets : result[h] # "none"
  /\ pc' = IF args.report THEN "report" ELSE "print"
  /\ UNCHANGED <<format, file, runs, args, targets, result, pending, err, code,
                 history>>

\* jsonlStream.close: the summary line, then Close, which may fail as well.
CloseStream ==
  /\ pc = "report" /\ format = "jsonl"
  /\ \E w \in Write(SummaryLine), closing \in BOOLEAN :
       /\ file' = w.file
       /\ err' = (FirstError(w.err) \/ closing)
  /\ clean' = ~err'
  /\ pc' = "print"
  /\ UNCHANGED <<format, runs, args, targets, result, pending, code, saved>>

\* writeReport: encode and Close.
WriteReport ==
  /\ pc = "report" /\ format = "json"
  /\ \E w \in Write(Document), closing \in BOOLEAN :
       /\ file' = w.file
       /\ clean' = ~(w.err \/ closing)
  /\ pc' = "print"
  /\ UNCHANGED <<format, runs, args, targets, result, pending, err, code, saved>>

OKWithoutFailures == \A h \in targets : result[h] # "FAILED"

\* Report.OK: Summary.Success == Summary.Total.
OK == Cardinality({h \in targets : result[h] = "SUCCESS"}) = Cardinality(targets)

ResultCode == IF OK THEN 0 ELSE 2

\* printReport may fail too; otherwise the results decide the exit code.
PrintReport ==
  /\ pc = "print"
  /\ Exit(1) \/ Exit(ResultCode)
  /\ UNCHANGED <<format, file, runs, args, targets, result, pending, err, history>>

\* The process is killed, perhaps in the middle of a write.
Kill ==
  /\ pc # "idle"
  /\ pc' = "idle" /\ code' = 9
  /\ LET lines == {HostLine(h) : h \in pending}
                  \cup (IF pc # "report" THEN {}
                        ELSE IF format = "jsonl" THEN {SummaryLine} ELSE {Document})
     IN file' \in {file} \cup UNION {Torn(l) : l \in lines}
  /\ UNCHANGED <<format, runs, args, targets, result, pending, err, history>>

Done == pc = "idle" /\ runs = MaxRuns /\ UNCHANGED vars

Next ==
  \/ Invoke \/ BadInput \/ Select \/ Prepare \/ Open
  \/ (\E h \in Hosts : HostDone(h) \/ Line(h))
  \/ RunReturns \/ CloseStream \/ WriteReport \/ PrintReport \/ Kill \/ Done

Spec == Init /\ [][Next]_vars

-----------------------------------------------------------------------------
(* Properties.                                                             *)

Results == Statuses \cup {"none"}

\* The last invocation got as far as Run, and Run returned.
Ran == targets # {} /\ \A h \in targets : result[h] # "none"

\* The type invariant; an invocation that goes on past the selection has hosts
\* to run on, and only those write lines.
TypeOK ==
  /\ format \in Formats /\ runs \in 0..MaxRuns /\ args \in Args
  /\ pc \in {"idle", "select", "prepare", "open", "running", "report", "print"}
  /\ \A f \in {file} :
       /\ f.there \in BOOLEAN
       /\ \A i \in DOMAIN f.lines :
            /\ f.lines[i].cut \in {"no", "text", "newline"}
            /\ \A h \in DOMAIN f.lines[i].res : h \in Hosts /\ f.lines[i].res[h] \in Statuses
  /\ targets \subseteq Hosts /\ pending \subseteq targets
  /\ pc \notin {"idle", "select"} => targets # {}
  /\ result \in [Hosts -> Results] /\ saved \in [Hosts -> Results]
  /\ err \in BOOLEAN /\ clean \in BOOLEAN
  /\ code \in {-1, 0, 1, 2, 9}

\* README.md: --only-failed will "rerun only the hosts that did not succeed".
\* Whatever became of the invocation that wrote the report (killed, disk full,
\* a torn line), no host that succeeded in it is rerun.  If rco printed no
\* error about the report, it can be read and exactly the other hosts are
\* rerun, skipped and cancelled ones included: a write that failed is never
\* hidden by later ones that succeeded, and no preview or refused invocation in
\* between has touched the file (cli_test.go: "preview must not overwrite an
\* existing .jsonl report").
RerunIsExact ==
  pc \in {"select", "prepare", "open"} =>
    /\ \A h \in Retry : saved[h] # "SUCCESS"
    /\ clean => ~Unreadable /\ Retry = {h \in Hosts : saved[h] \notin {"none", "SUCCESS"}}
    /\ args.only /\ pc # "select" => targets = args.sel \cap Retry

\* reports.go: "If rco itself is killed, finished hosts are on disk": every
\* host whose OnHostDone has returned, unless a write failed.
FinishedIsOnDisk ==
  pc = "idle" /\ code = 9 /\ Streams /\ ~err =>
    \A h \in Hosts \ pending : result[h] # "none" => Recorded(h) = result[h]

\* README.md: exit code "0 all hosts succeeded", "2 some host failed, was
\* skipped or was cancelled", for an invocation that executes.
ExitCodesTell ==
  pc = "idle" /\ args.cmd = "execute" /\ runs > 0 =>
    /\ code = 0 => Ran /\ \A h \in targets : result[h] = "SUCCESS"
    /\ code = 2 => Ran /\ \E h \in targets : result[h] # "SUCCESS"

\* cli_test.go: "preview must not overwrite an existing .jsonl report": only an
\* invocation that executes with --report touches the file.  It empties it once,
\* when it has hosts to run on, and from then on it only adds a line at a time,
\* killed or not.
OnlyExecuteWrites ==
  [][/\ file' # file => args.cmd = "execute" /\ args.report /\ targets # {}
     /\ pc # "open" =>
          /\ Len(file'.lines) \in {Len(file.lines), Len(file.lines) + 1}
          /\ \A i \in 1..Len(file.lines) : file'.lines[i] = file.lines[i]]_vars

=============================================================================
