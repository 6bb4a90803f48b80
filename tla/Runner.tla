-------------------------------- MODULE Runner --------------------------------
(***************************************************************************)
(* Runner.Run (internal/runner/runner.go): one goroutine per host, at most *)
(* Conc at a time, a main loop that admits hosts in plan order, a limit on *)
(* failed hosts, Ctrl+C, and the report every host ends up in.  What a     *)
(* host does (runHost) is one step here, with any outcome that module      *)
(* Contracts gives it; module HostRun opens it up.                         *)
(*                                                                         *)
(* stage[i] names the next thing that happens to host i:                   *)
(*   queued -> run -> store -> count -> tally -> stream -> release         *)
(*          -> leave -> ended                                              *)
(* store..stream is the closure finish(), run by the host's goroutine or,  *)
(* for a host that never starts, by the main goroutine (ByMain).           *)
(***************************************************************************)
EXTENDS Integers, Sequences, FiniteSets, Contracts

CONSTANTS
  N,            \* len(r.Plans)
  Concurrency,  \* Options.Concurrency
  MaxFailures,  \* Options.MaxFailures; 0 or less = never stop
  Progress      \* Options.Progress > 0: progress lines are logged

ASSUME RunnerAssumption ==
  /\ N \in Nat
  /\ Concurrency \in Int
  /\ MaxFailures \in Int
  /\ Progress \in BOOLEAN

VARIABLES
  mpc,        \* what the main goroutine does next
  next,       \* the index i of the loop over r.Plans
  cancelled,  \* ctx.Done() is closed
  sem,        \* tokens in the channel sem
  wg,         \* the WaitGroup's counter
  stage,      \* see above
  outcome,    \* h.Status of the HostResult passed to finish
  result,     \* rep.Hosts[i].Status; "NONE" is the zero value
  failed,     \* the three atomic counters of Run
  done,
  running,
  streamed,   \* hosts given to OnHostDone, in order
  summary,    \* rep.Summary
  line        \* the progress line being assembled: done, running, failed

vars == <<mpc, next, cancelled, sem, wg, stage, outcome, result, failed,
          done, running, streamed, summary, line>>

Hosts == 1..N

Conc == IF Concurrency < 1 THEN 1 ELSE Concurrency

Statuses == {"SUCCESS", "FAILED", "SKIPPED", "CANCELLED"}

NoSummary == [total |-> 0, success |-> 0, failed |-> 0, cancelled |-> 0,
              skipped |-> 0]

Init ==
  /\ mpc = "select"
  /\ next = 1
  /\ cancelled = FALSE
  /\ sem = 0
  /\ wg = 0
  /\ stage = [i \in Hosts |-> "queued"]
  /\ outcome = [i \in Hosts |-> "NONE"]
  /\ result = [i \in Hosts |-> "NONE"]
  /\ failed = 0
  /\ done = 0
  /\ running = 0
  /\ streamed = <<>>
  /\ summary = NoSummary
  /\ line = <<>>

-----------------------------------------------------------------------------
(* The main goroutine: the loop over r.Plans.                              *)

\* select, first case: a token is put into sem.
Acquire ==
  /\ mpc = "select" /\ next <= N
  /\ sem < Conc
  /\ sem' = sem + 1
  /\ mpc' = "check"
  /\ UNCHANGED <<next, cancelled, wg, stage, outcome, result, failed, done,
                 running, streamed, summary, line>>

\* select, second case.  When both cases are ready Go picks either one.
CancelBeforeStart ==
  /\ mpc = "select" /\ next <= N
  /\ cancelled
  /\ outcome' = [outcome EXCEPT ![next] = "CANCELLED"]
  /\ stage' = [stage EXCEPT ![next] = "store"]
  /\ mpc' = "finish"
  /\ UNCHANGED <<next, cancelled, sem, wg, result, failed, done, running,
                 streamed, summary, line>>

LimitReachedOffByOne == MaxFailures > 0 /\ failed > MaxFailures

LimitReached == MaxFailures > 0 /\ failed >= MaxFailures

\* Too many hosts failed: the token is given back and the host is skipped.
SkipHost ==
  /\ mpc = "check"
  /\ LimitReached
  /\ sem' = sem - 1
  /\ outcome' = [outcome EXCEPT ![next] = "SKIPPED"]
  /\ stage' = [stage EXCEPT ![next] = "store"]
  /\ mpc' = "finish"
  /\ UNCHANGED <<next, cancelled, wg, result, failed, done, running,
                 streamed, summary, line>>

AdmitUnchecked ==
  /\ mpc = "check"
  /\ mpc' = "spawn"
  /\ UNCHANGED <<next, cancelled, sem, wg, stage, outcome, result, failed,
                 done, running, streamed, summary, line>>

\* The limit was not reached when failed was loaded; it may be by the time
\* the goroutine starts.
Admit ==
  /\ mpc = "check"
  /\ ~LimitReached
  /\ mpc' = "spawn"
  /\ UNCHANGED <<next, cancelled, sem, wg, stage, outcome, result, failed,
                 done, running, streamed, summary, line>>

\* running.Add(1), wg.Add(1), go func.
Spawn ==
  /\ mpc = "spawn"
  /\ running' = running + 1
  /\ wg' = wg + 1
  /\ stage' = [stage EXCEPT ![next] = "run"]
  /\ next' = next + 1
  /\ mpc' = "select"
  /\ UNCHANGED <<cancelled, sem, outcome, result, failed, done, streamed,
                 summary, line>>

\* finish returned in the main goroutine: continue with the next plan.
Continue ==
  /\ mpc = "finish"
  /\ stage[next] = "ended"
  /\ next' = next + 1
  /\ mpc' = "select"
  /\ UNCHANGED <<cancelled, sem, wg, stage, outcome, result, failed, done,
                 running, streamed, summary, line>>

LoopEnd ==
  /\ mpc = "select" /\ next > N
  /\ mpc' = "wait"
  /\ UNCHANGED <<next, cancelled, sem, wg, stage, outcome, result, failed,
                 done, running, streamed, summary, line>>

\* Report.finish: a status that is none of the three counts as failed.
Summarize ==
  LET Count(s) == Cardinality({i \in Hosts : result[i] = s})
  IN [total |-> N, success |-> Count("SUCCESS"),
      cancelled |-> Count("CANCELLED"), skipped |-> Count("SKIPPED"),
      failed |-> Cardinality({i \in Hosts :
                   result[i] \notin {"SUCCESS", "CANCELLED", "SKIPPED"}})]

\* wg.Wait, then rep.finish.
WaitAll ==
  /\ mpc = "wait"
  /\ wg = 0
  /\ summary' = Summarize
  /\ mpc' = "closing"
  /\ UNCHANGED <<next, cancelled, sem, wg, stage, outcome, result, failed,
                 done, running, streamed, line>>

\* The deferred Bastions.Close and stopProgress.
Return ==
  /\ mpc = "closing"
  /\ mpc' = "returned"
  /\ UNCHANGED <<next, cancelled, sem, wg, stage, outcome, result, failed,
                 done, running, streamed, summary, line>>

Main ==
  \/ Acquire \/ CancelBeforeStart \/ SkipHost \/ Admit \/ Spawn \/ Continue
  \/ LoopEnd \/ WaitAll \/ Return

-----------------------------------------------------------------------------
(* The goroutine of host i, and finish().                                  *)

\* The host's finish() is executed by the main goroutine.
ByMain(i) == mpc = "finish" /\ i = next

\* runHost returns a HostResult, then running.Add(-1).
RunHost(i) ==
  /\ stage[i] = "run"
  /\ \E s \in HostStatuses(cancelled) : outcome' = [outcome EXCEPT ![i] = s]
  /\ running' = running - 1
  /\ stage' = [stage EXCEPT ![i] = "store"]
  /\ UNCHANGED <<mpc, next, cancelled, sem, wg, result, failed, done,
                 streamed, summary, line>>

\* finish: rep.Hosts[i] = h
Store(i) ==
  /\ stage[i] = "store"
  /\ result' = [result EXCEPT ![i] = outcome[i]]
  /\ stage' = [stage EXCEPT ![i] = "count"]
  /\ UNCHANGED <<mpc, next, cancelled, sem, wg, outcome, failed, done,
                 running, streamed, summary, line>>

CountNotSuccessful(i) ==
  /\ stage[i] = "count"
  /\ failed' = IF outcome[i] # "SUCCESS" THEN failed + 1 ELSE failed
  /\ stage' = [stage EXCEPT ![i] = "tally"]
  /\ UNCHANGED <<mpc, next, cancelled, sem, wg, outcome, result, done,
                 running, streamed, summary, line>>

\* finish: failed.Add(1) for a failed host
CountFailed(i) ==
  /\ stage[i] = "count"
  /\ failed' = IF outcome[i] = "FAILED" THEN failed + 1 ELSE failed
  /\ stage' = [stage EXCEPT ![i] = "tally"]
  /\ UNCHANGED <<mpc, next, cancelled, sem, wg, outcome, result, done,
                 running, streamed, summary, line>>

\* finish: done.Add(1)
CountDone(i) ==
  /\ stage[i] = "tally"
  /\ done' = done + 1
  /\ stage' = [stage EXCEPT ![i] = "stream"]
  /\ UNCHANGED <<mpc, next, cancelled, sem, wg, outcome, result, failed,
                 running, streamed, summary, line>>

StreamOnlyFinished(i) ==
  /\ stage[i] = "stream"
  /\ streamed' = IF ByMain(i) THEN streamed ELSE Append(streamed, i)
  /\ stage' = [stage EXCEPT ![i] = IF ByMain(i) THEN "ended" ELSE "release"]
  /\ UNCHANGED <<mpc, next, cancelled, sem, wg, outcome, result, failed,
                 done, running, summary, line>>

\* finish: OnHostDone(h), the last thing finish does.
Stream(i) ==
  /\ stage[i] = "stream"
  /\ streamed' = Append(streamed, i)
  /\ stage' = [stage EXCEPT ![i] = IF ByMain(i) THEN "ended" ELSE "release"]
  /\ UNCHANGED <<mpc, next, cancelled, sem, wg, outcome, result, failed,
                 done, running, summary, line>>

ReleaseNothing(i) ==
  /\ stage[i] = "release"
  /\ stage' = [stage EXCEPT ![i] = "leave"]
  /\ UNCHANGED <<mpc, next, cancelled, sem, wg, outcome, result, failed, done,
                 running, streamed, summary, line>>

\* The goroutine's deferred function gives the token back ...
Release(i) ==
  /\ stage[i] = "release"
  /\ sem' = sem - 1
  /\ stage' = [stage EXCEPT ![i] = "leave"]
  /\ UNCHANGED <<mpc, next, cancelled, wg, outcome, result, failed, done,
                 running, streamed, summary, line>>

\* ... and then calls wg.Done.
Leave(i) ==
  /\ stage[i] = "leave"
  /\ wg' = wg - 1
  /\ stage' = [stage EXCEPT ![i] = "ended"]
  /\ UNCHANGED <<mpc, next, cancelled, sem, outcome, result, failed, done,
                 running, streamed, summary, line>>

Finish(i) == Store(i) \/ CountFailed(i) \/ CountDone(i) \/ Stream(i)

Host(i) == RunHost(i) \/ Finish(i) \/ Release(i) \/ Leave(i)

-----------------------------------------------------------------------------
(* logProgress: a goroutine that loads the three counters one at a time    *)
(* and logs them.  A tick still pending when stop is called may produce    *)
(* one more line; the counters no longer move then.                        *)

LoadRunningFirst ==
  /\ Progress
  /\ \/ Len(line) = 0 /\ mpc # "returned" /\ line' = Append(line, running)
     \/ Len(line) = 1 /\ line' = Append(line, done)
     \/ Len(line) = 2 /\ line' = Append(line, failed)
  /\ UNCHANGED <<mpc, next, cancelled, sem, wg, stage, outcome, result, failed,
                 done, running, streamed, summary>>

\* done, then running, then failed.
Load ==
  /\ Progress
  /\ \/ Len(line) = 0 /\ mpc # "returned" /\ line' = Append(line, done)
     \/ Len(line) = 1 /\ line' = Append(line, running)
     \/ Len(line) = 2 /\ line' = Append(line, failed)
  /\ UNCHANGED <<mpc, next, cancelled, sem, wg, stage, outcome, result, failed,
                 done, running, streamed, summary>>

\* The line is logged and the goroutine waits for the next tick.
Log ==
  /\ Len(line) = 3
  /\ line' = <<>>
  /\ UNCHANGED <<mpc, next, cancelled, sem, wg, stage, outcome, result, failed,
                 done, running, streamed, summary>>

-----------------------------------------------------------------------------

\* Ctrl+C: ctx is cancelled, at any time.
Cancel ==
  /\ ~cancelled
  /\ cancelled' = TRUE
  /\ UNCHANGED <<mpc, next, sem, wg, stage, outcome, result, failed, done,
                 running, streamed, summary, line>>

\* Run has returned and every goroutine is gone.
Returned == mpc = "returned" /\ UNCHANGED vars

Next == Main \/ (\E i \in Hosts : Host(i)) \/ Load \/ Log \/ Cancel \/ Returned

Spec == Init /\ [][Next]_vars

\* Goroutines that can run are scheduled.  For the step RunHost it says that
\* runHost returns, which is the promise module HostRun is about.
Fairness == WF_vars(Main) /\ \A i \in Hosts : WF_vars(Host(i))

FairSpec == Spec /\ Fairness

-----------------------------------------------------------------------------
(* Properties.                                                             *)

Stages == {"queued", "run", "store", "count", "tally", "stream", "release",
           "leave", "ended"}

\* The type invariant: the state of Run stays within its Go types, the
\* counters never go negative.
TypeOK ==
  /\ mpc \in {"select", "check", "spawn", "finish", "wait", "closing",
              "returned"}
  /\ next \in 1..(N + 1)
  /\ cancelled \in BOOLEAN
  /\ sem \in Nat /\ wg \in Nat /\ running \in Nat
  /\ stage \in [Hosts -> Stages]
  /\ outcome \in [Hosts -> Statuses \cup {"NONE"}]
  /\ result \in [Hosts -> Statuses \cup {"NONE"}]
  /\ failed \in Nat /\ done \in Nat
  /\ streamed \in Seq(Hosts)
  /\ summary \in [total : Nat, success : Nat, failed : Nat, cancelled : Nat,
                  skipped : Nat]
  /\ line \in Seq(Nat)

\* Hosts whose failure failed.Add(1) has counted.
FailedCounted ==
  {i \in Hosts : /\ outcome[i] = "FAILED"
                 /\ stage[i] \in {"tally", "stream", "release", "leave", "ended"}}

\* Hosts that were let through and may yet fail: in their goroutine with the
\* counter not yet bumped, or about to get a goroutine.
Uncounted ==
  {i \in Hosts : \/ stage[i] \in {"run", "store", "count"} /\ ~ByMain(i)
                 \/ mpc = "spawn" /\ i = next}

\* What the failure limit really bounds: counted failures and hosts that may
\* still fail stay within MaxFailures plus the Conc - 1 other slots, although
\* the counter is read before the host is started and bumped long after.
FailureBudget ==
  MaxFailures > 0 =>
    Cardinality(FailedCounted \cup Uncounted) <= MaxFailures + Conc - 1

\* runner_test.go: "Up to MaxFailures + (Concurrency-1) hosts can fail".
FailureBound ==
  MaxFailures > 0 =>
    Cardinality({i \in Hosts : result[i] = "FAILED"}) <= MaxFailures + Conc - 1

\* Hosts whose goroutine holds a slot, and hosts whose goroutine exists.
Live == {i \in Hosts : stage[i] \notin {"queued", "leave", "ended"} /\ ~ByMain(i)}

Goroutines == {i \in Hosts : stage[i] \notin {"queued", "ended"} /\ ~ByMain(i)}

\* Host goroutines between the start of runHost and the return of their slot
\* number at most Conc (runner.go: "at most conc host goroutines exist"), and
\* the slots in use are exactly theirs and the one the loop just took.
ConcurrencyBound ==
  /\ Cardinality(Live) <= Conc /\ sem <= Conc
  /\ sem = Cardinality(Live) + (IF mpc \in {"check", "spawn"} THEN 1 ELSE 0)

\* job.go: a limit of 100% "means never stop": with as many failures allowed
\* as there are hosts, no host is ever skipped.
NeverSkipsAtFullBudget ==
  MaxFailures >= N => \A i \in Hosts : outcome[i] # "SKIPPED"

\* Run "always returns a complete report": by the time it is summarised no
\* goroutine is left, every host has its final result, the summary adds up
\* to the hosts, and OnHostDone saw every host exactly once.
ReportComplete ==
  mpc \in {"closing", "returned"} =>
    /\ \A i \in Hosts : stage[i] = "ended" /\ result[i] = outcome[i]
    /\ \A i \in Hosts : result[i] \in Statuses
    /\ summary.total = N
    /\ summary.success + summary.failed + summary.cancelled + summary.skipped = N
    /\ summary.failed = failed
    /\ done = N
    /\ Len(streamed) = N
    /\ \A i \in Hosts : \E k \in 1..Len(streamed) : streamed[k] = i

\* A logged progress line never counts a host twice: "done" and "running" are
\* loaded one after the other while hosts move from one to the other.
ProgressAddsUp ==
  Len(line) = 3 => line[1] + line[2] <= N /\ line[3] <= N

\* Run returns, whatever fails, is skipped or is cancelled.
RunTerminates == <>(mpc = "returned")

\* OnHostDone may be used as the host ends, while others still run: what it is
\* given is stored in the report by then, no later step rewrites a stored result,
\* and nothing of the report moves once it is summarised.
ReportIsFinal ==
  [][/\ \A i \in Hosts : result[i] # "NONE" => result'[i] = result[i]
     /\ \/ streamed' = streamed
        \/ \E i \in Hosts : /\ streamed' = Append(streamed, i)
                            /\ result[i] = outcome[i] /\ result[i] # "NONE"
     /\ mpc \in {"closing", "returned"} =>
          UNCHANGED <<outcome, result, failed, done, streamed, summary>>]_vars

\* The safety part of RunTerminates: whenever the main goroutine blocks, on a
\* full sem or in wg.Wait, a host's goroutine exists that still has its token to
\* give back or its wg.Done to call, and finish() never stops half way.
NeverStuck ==
  /\ mpc = "select" /\ next <= N /\ sem >= Conc => Live # {}
  /\ mpc = "wait" /\ wg # 0 => Goroutines # {}
  /\ mpc = "finish" => stage[next] \in {"store", "count", "tally", "stream", "ended"}
  /\ \A i \in Hosts : stage[i] \in {"release", "leave"} => ~ByMain(i)

\* Where the loop is says which hosts it has dealt with, and a host's stage
\* says which of its fields are set.
Bookkeeping ==
  /\ mpc \in {"check", "spawn", "finish"} => next <= N
  /\ mpc \in {"wait", "closing", "returned"} => next = N + 1
  /\ mpc = "finish" =>
       /\ stage[next] \in {"store", "count", "tally", "stream", "ended"}
       /\ outcome[next] \in {"SKIPPED", "CANCELLED"}
  /\ \A i \in Hosts :
       /\ stage[i] = "queued" <=> i > next \/ (i = next /\ mpc # "finish")
       /\ stage[i] \in {"queued", "run"} <=> outcome[i] = "NONE"
       /\ outcome[i] = "CANCELLED" => cancelled
       /\ outcome[i] = "SKIPPED" /\ ~ByMain(i) => stage[i] = "ended"
       /\ stage[i] \in {"queued", "run", "store"} => result[i] = "NONE"
       /\ stage[i] \notin {"queued", "run", "store"} => result[i] = outcome[i]

\* Every counter of Run counts what it is meant to count, at every step.
Accounting ==
  /\ wg = Cardinality(Goroutines)
  /\ running = Cardinality({i \in Hosts : stage[i] = "run"})
  /\ failed = Cardinality(FailedCounted)
  /\ ConcurrencyBound

\* The inductive invariant behind FailureBudget: the counters are right in
\* between the steps of finish() and of the loop, not only at the end.
IInv == TypeOK /\ Bookkeeping /\ Accounting /\ FailureBudget

-----------------------------------------------------------------------------
(* Run implements the rollout promised to the user.  A host runs, for the  *)
(* outside, from the moment the failure limit let it through until its     *)
(* failure has been counted.                                               *)

AbsStatus ==
  [i \in Hosts |->
     IF i \in Uncounted THEN "RUNNING"
     ELSE IF stage[i] = "queued" THEN "PENDING"
     ELSE outcome[i]]

Abs == INSTANCE Rollout WITH Hosts <- Hosts, Concurrency <- Conc,
                             MaxFailures <- MaxFailures,
                             status <- AbsStatus, cancelled <- cancelled

\* The goroutines of Run implement module Rollout: limit, concurrency and
\* final statuses hold although the counters are not updated atomically with
\* the hosts' ends.
ImplementsRollout == Abs!Spec

=============================================================================
