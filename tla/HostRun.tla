------------------------------- MODULE HostRun -------------------------------
(***************************************************************************)
(* What one host's goroutine does (internal/runner/runner.go: runHost,     *)
(* runDisconnecting, waitForHost, connect, needsSudoPassword, runStep,     *)
(* attempt) against a remote host that may drop connections, go down, come *)
(* back with the same or a new boot, refuse logins or be slow, while       *)
(* Ctrl+C may come at any time.                                            *)
(*                                                                         *)
(* One Exec (internal/sshx/exec.go) is one step with every outcome that    *)
(* module Contracts gives it; one Dial is one step that yields a           *)
(* connection or one of the failures given there.                          *)
(***************************************************************************)
EXTENDS Integers, Sequences, FiniteSets, Contracts

CONSTANTS
  Jobs,            \* the jobs to run: sequences of steps, as Validate accepts
  ConnectRetries,  \* Options.ConnectRetries
  MaxEvents        \* bound: how often the remote host drops or goes down

\* A step: mode "plain", "disconnect", "reboot" or "forget" (fire_and_forget);
\* content: its command travels as an uploaded file (script, copy, sensitive);
\* retries: the configured number; cont: continue_on_error.
Step == [mode : {"plain", "disconnect", "reboot", "forget"}, content : BOOLEAN,
         retries : Nat, cont : BOOLEAN, sudo : BOOLEAN]

MaxRetries == 10

\* Validate and build, for what a step has here: a job has a step; retries are
\* bounded; fire_and_forget is for the last step, and for a command that is
\* neither a script nor a copy nor sensitive.  (Retries of disconnecting steps
\* can only come from the defaults.)
Valid(j) ==
  /\ j \in Seq(Step) /\ j # <<>>
  /\ \A i \in DOMAIN j :
       /\ j[i].retries <= MaxRetries
       /\ j[i].mode = "forget" => i = Len(j) /\ ~j[i].content

ASSUME HostRunAssumption ==
  /\ \A j \in Jobs : Valid(j)
  /\ ConnectRetries \in Nat
  /\ MaxEvents \in Nat

VARIABLES
  job,        \* p.Actions
  pc,         \* what the goroutine does next
  k,          \* the step it is at
  attempt,    \* the attempt of connect
  try,        \* the attempt of runStep
  client,     \* the client of runHost
  cand,       \* the client waitForHost has just dialled
  open,       \* how many connections are open
  res,        \* what the last attempt gave: f.Category, sr.ExitCode, sr.started
  sudoPW,     \* the password goes to sudo's standard input
  oldBoot,    \* the boot ID read before a reboot; 0 = ""
  sawOldBoot,
  expired,    \* the deadline of waitForHost has passed
  stopped,
  steps,      \* h.Steps
  host,       \* h.Status, h.Category, h.FailedStep
  cancelled,  \* ctx.Done() is closed
  up,         \* the remote host answers
  boot,       \* its current boot
  nopasswd,   \* sudo asks for no password there
  events,     \* drops and outages so far
  silent,     \* the peer has fallen silent in an Exec, for good
  runs,       \* runs[i]: the boots in which the command of step i was executed
  lastDial    \* outcome of the last Dial

vars == <<job, pc, k, attempt, try, client, cand, open, res, sudoPW, oldBoot,
          sawOldBoot, expired, stopped, steps, host, cancelled, up, boot, nopasswd,
          events, silent, runs, lastDial>>

remote == <<up, boot, events, silent, nopasswd>>
waiting == <<oldBoot, sawOldBoot, expired>>
report == <<steps, host, stopped, k>>

Nil == [nil |-> TRUE, open |-> FALSE, live |-> FALSE, boot |-> 0]

NoResult == [cat |-> "nil", exit |-> "none", started |-> FALSE]

Init ==
  /\ job \in Jobs
  /\ pc = "dial" /\ k = 1 /\ attempt = 1 /\ try = 0
  /\ client = Nil /\ cand = Nil /\ open = 0
  /\ res = NoResult /\ sudoPW = FALSE
  /\ oldBoot = 0 /\ sawOldBoot = FALSE /\ expired = FALSE
  /\ stopped = FALSE /\ steps = <<>>
  /\ host = [status |-> "SUCCESS", cat |-> "nil", step |-> 0]
  /\ cancelled = FALSE /\ up \in BOOLEAN /\ boot = 1 /\ nopasswd \in BOOLEAN
  /\ events = 0 /\ silent = FALSE /\ runs = [i \in 1..Len(job) |-> <<>>]
  /\ lastDial = "none"

-----------------------------------------------------------------------------
(* Exec and Dial, as the runner sees them.                                 *)

\* Connection c after an Exec that left it as it was, lost it or closed it.
After(c, how) ==
  CASE how = "lost" -> [c EXCEPT !.live = FALSE]
    [] how = "closed" -> [c EXCEPT !.open = FALSE]
    [] OTHER -> c

\* Everything Exec on connection c can give.
Outcomes(c) ==
  {[r EXCEPT !.conn = After(c, @)] : r \in ExecResults(c.open /\ c.live, cancelled)}

\* How many connections remain open when c has become d.
OpenAfter(c, d) == IF c.open /\ ~d.open THEN open - 1 ELSE open

\* Close of sshx.Client.
Closed(c) == [c EXCEPT !.open = FALSE]

\* A new connection; one that was established as ctx ended is closed already.
Dialled == [nil |-> FALSE, open |-> TRUE, live |-> ~(cancelled \/ expired),
            boot |-> boot]

-----------------------------------------------------------------------------
(* The host's result.                                                      *)

LastFailureWins(cat, step) ==
  [status |-> IF cat = "CANCELLED" THEN "CANCELLED" ELSE "FAILED",
   cat |-> cat, step |-> step]

\* The closure fail of runHost: the first failure decides.
Fail(cat, step) ==
  IF host.cat # "nil" THEN host
  ELSE [status |-> IF cat = "CANCELLED" THEN "CANCELLED" ELSE "FAILED",
        cat |-> cat, step |-> step]

StatusOf(cat) ==
  IF cat = "nil" THEN "SUCCESS" ELSE IF cat = "CANCELLED" THEN "CANCELLED" ELSE "FAILED"

StopsIgnoringClient(cat, c) == ~job[k].cont \/ cat \in {"CANCELLED", "SESSION_FAILED"}

StopsOnCancelOnly(cat, c) == c.nil \/ cat = "CANCELLED"

\* A failure after which the remaining steps are skipped.
Stops(cat, c) ==
  ~job[k].cont \/ c.nil \/ cat \in {"CANCELLED", "SESSION_FAILED"}

\* The step is over: its StepResult sr is appended, f = cat decides what
\* follows, and c is the client for the next steps.
EndStep(sr, cat, c) ==
  /\ steps' = Append(steps, sr)
  /\ host' = IF cat = "nil" THEN host ELSE Fail(cat, k)
  /\ stopped' = (cat # "nil" /\ Stops(cat, c))
  /\ client' = c
  /\ k' = k + 1
  /\ pc' = "next"
  /\ oldBoot' = 0 /\ sawOldBoot' = FALSE /\ expired' = FALSE
  /\ try' = 0 /\ res' = NoResult

SR(status, cat) == [status |-> status, cat |-> cat]

-----------------------------------------------------------------------------
(* connect                                                                 *)

\* runHost after connect failed: no step runs, the host result is final.
NoConnection(cat) ==
  /\ host' = Fail(cat, 0)
  /\ steps' = [i \in 1..Len(job) |-> SR("SKIPPED", "nil")]
  /\ pc' = "done"

Connect ==
  /\ pc = "dial"
  /\ UNCHANGED <<job, k, try, cand, res, sudoPW, waiting, stopped, cancelled,
                 remote, runs>>
  /\ \/ /\ up
        /\ client' = Dialled /\ open' = open + 1 /\ lastDial' = "ok"
        /\ pc' = "probe"
        /\ UNCHANGED <<attempt, steps, host>>
     \/ \E cat \in DialFailures(cancelled, expired) :
          /\ lastDial' = cat
          /\ UNCHANGED <<client, open, attempt>>
          /\ IF ~Retryable(cat) \/ attempt > ConnectRetries \/ cancelled
             THEN NoConnection(cat)
             ELSE pc' = "backoff" /\ UNCHANGED <<steps, host>>

\* sleep(ctx, backoff(...)) before the next attempt.  (The length of the pause,
\* and the panic of a negative --max-retry-delay, are in module Connect.)
Backoff ==
  /\ pc = "backoff"
  /\ UNCHANGED <<job, k, try, client, cand, open, res, sudoPW, waiting, stopped,
                 cancelled, remote, runs, lastDial>>
  /\ \/ cancelled /\ NoConnection("CANCELLED") /\ UNCHANGED attempt
     \/ attempt' = attempt + 1 /\ pc' = "dial" /\ UNCHANGED <<steps, host>>

UsesSudo == \E i \in 1..Len(job) : job[i].sudo

\* err != nil || res.ExitCode == nil || *res.ExitCode != 0
NeedsPassword(o) == o.cat # "nil" \/ o.exit # "ok"

\* needsSudoPassword: one probe per host, if any step uses sudo.  (A credential
\* with a sudo password; without one there is nothing to probe.)
Probe ==
  /\ pc = "probe"
  /\ pc' = "next"
  /\ IF UsesSudo
     THEN \E o \in Outcomes(client) :
            /\ o.cat = "nil" /\ o.exit \in {"ok", "bad"} => (o.exit = "ok") = nopasswd
            /\ sudoPW' = NeedsPassword(o)
            /\ client' = o.conn /\ open' = OpenAfter(client, o.conn)
     ELSE UNCHANGED <<sudoPW, client, open>>
  /\ UNCHANGED <<job, attempt, try, cand, res, waiting, report, cancelled, remote,
                 runs, lastDial>>

-----------------------------------------------------------------------------
(* The loop over the steps.                                                *)

SkipStep ==
  /\ pc = "next" /\ k <= Len(job)
  /\ stopped
  /\ steps' = Append(steps, SR("SKIPPED", "nil"))
  /\ k' = k + 1
  /\ UNCHANGED <<job, pc, attempt, try, client, cand, open, res, sudoPW, waiting,
                 stopped, host, cancelled, remote, runs, lastDial>>

\* Every kind of step dereferences client first; a nil client panics.
BeginStep ==
  /\ pc = "next" /\ k <= Len(job)
  /\ ~stopped
  /\ pc' = IF client.nil THEN "panic"
           ELSE IF job[k].mode = "reboot" THEN "bootid" ELSE "attempt"
  /\ UNCHANGED <<job, attempt, try, client, cand, open, res, sudoPW, waiting, report,
                 cancelled, remote, runs, lastDial>>

\* The deferred Close of the client.
EndHost ==
  /\ pc = "next" /\ k > Len(job)
  /\ client' = Closed(client) /\ open' = OpenAfter(client, Closed(client))
  /\ pc' = "done"
  /\ UNCHANGED <<job, attempt, try, cand, res, sudoPW, waiting, report, cancelled,
                 remote, runs, lastDial>>

\* runDisconnecting, a reboot step: the boot ID before.  Without it the step
\* fails before its command is run.
ReadBootID ==
  /\ pc = "bootid"
  /\ \E o \in Outcomes(client) :
       /\ open' = OpenAfter(client, o.conn)
       /\ \/ /\ o.cat = "nil" /\ o.exit = "ok"
             /\ oldBoot' = client.boot /\ client' = o.conn /\ pc' = "attempt"
             /\ UNCHANGED <<try, res, sawOldBoot, expired, report>>
          \/ LET cat == IF o.cat # "nil" THEN o.cat ELSE "COMMAND_FAILED"
             IN EndStep(SR("FAILED", cat), cat, o.conn)
  /\ UNCHANGED <<job, attempt, cand, sudoPW, cancelled, remote, runs, lastDial>>

\* The first half of attempt: the content goes to a remote temp file.
Upload ==
  /\ pc = "attempt" /\ job[k].content
  /\ \E o \in Outcomes(client) :
       /\ client' = o.conn /\ open' = OpenAfter(client, o.conn)
       /\ \/ /\ o.cat = "nil" /\ o.exit = "ok"
             /\ pc' = "command" /\ UNCHANGED res
          \/ /\ res' = [cat |-> IF o.cat # "nil" THEN o.cat ELSE "COMMAND_FAILED",
                        exit |-> o.exit, started |-> o.started]
             /\ pc' = "tried"
  /\ UNCHANGED <<job, attempt, try, cand, sudoPW, waiting, report, cancelled, remote,
                 runs, lastDial>>

\* The second half: the command itself, and check.  The expected exit code
\* may still come with unexpected output.
Command ==
  /\ pc = "command" \/ (pc = "attempt" /\ ~job[k].content)
  /\ \E o \in Outcomes(client) :
       /\ client' = o.conn /\ open' = OpenAfter(client, o.conn)
       /\ runs' = IF o.ran THEN [runs EXCEPT ![k] = Append(@, client.boot)] ELSE runs
       /\ \E cat \in IF o.cat # "nil" THEN {o.cat}
                     ELSE IF o.exit = "ok" THEN {"nil", "COMMAND_FAILED"}
                     ELSE {"COMMAND_FAILED"} :
            res' = [cat |-> cat, exit |-> o.exit, started |-> o.started]
  /\ pc' = "tried"
  /\ UNCHANGED <<job, attempt, try, cand, sudoPW, waiting, report, cancelled, remote,
                 lastDial>>

RetriesConfigured(s) == s.retries

\* Action.Retries as build sets it.
Retries(s) == IF s.mode = "plain" THEN s.retries ELSE 0

\* The loop of runStep: only outcome failures are repeated.
Tried ==
  /\ pc = "tried"
  /\ pc' = IF res.cat \in {"COMMAND_FAILED", "COMMAND_TIMEOUT"} /\ try < Retries(job[k])
           THEN "retrywait" ELSE "judge"
  /\ UNCHANGED <<job, attempt, try, client, cand, open, res, sudoPW, waiting, report,
                 cancelled, remote, runs, lastDial>>

\* sleep(ctx, a.RetryDelay); Ctrl+C leaves the loop with the failure it has.
RetryWait ==
  /\ pc = "retrywait"
  /\ \/ cancelled /\ pc' = "judge" /\ UNCHANGED try
     \/ pc' = "attempt" /\ try' = try + 1
  /\ UNCHANGED <<job, attempt, client, cand, open, res, sudoPW, waiting, report,
                 cancelled, remote, runs, lastDial>>

\* runStep has returned for a plain or fire-and-forget step; the latter counts
\* as done when its command cut the connection while starting.
ForgetOK ==
  /\ job[k].mode = "forget"
  /\ res.started /\ res.cat # "CANCELLED"
  /\ res.cat = "SESSION_FAILED" \/ res.exit = "none"

JudgePlain ==
  /\ pc = "judge" /\ job[k].mode \in {"plain", "forget"}
  /\ LET cat == IF ForgetOK THEN "nil" ELSE res.cat
     IN EndStep(SR(StatusOf(cat), cat), cat, client)
  /\ UNCHANGED <<job, attempt, cand, open, sudoPW, cancelled, remote, runs, lastDial>>

-----------------------------------------------------------------------------
(* runDisconnecting and waitForHost                                        *)

LostAnyFailure == res.cat # "nil" /\ res.cat # "CANCELLED"

\* The command was started and then the connection went away.
Lost ==
  /\ res.started
  /\ \/ res.cat = "SESSION_FAILED"
     \/ res.cat = "COMMAND_FAILED" /\ res.exit = "none"

\* After runStep of a disconnect or reboot step: a real failure ends the step,
\* a reboot or a lost connection leads to waitForHost, otherwise Alive decides.
JudgeDisconnecting ==
  /\ pc = "judge" /\ job[k].mode \in {"disconnect", "reboot"}
  /\ UNCHANGED <<job, attempt, cand, sudoPW, cancelled, remote, runs, lastDial>>
  /\ \/ /\ res.cat # "nil" /\ ~Lost
        /\ EndStep(SR(StatusOf(res.cat), res.cat), res.cat, client)
        /\ UNCHANGED open
     \/ /\ res.cat = "nil" \/ Lost
        /\ job[k].mode = "disconnect" /\ ~Lost
        /\ client.open /\ client.live     \* Alive answered in time
        /\ EndStep(SR("SUCCESS", "nil"), "nil", client)
        /\ UNCHANGED open
     \/ /\ res.cat = "nil" \/ Lost           \* Alive may also give up on a slow host
        /\ client' = Closed(client) /\ open' = OpenAfter(client, Closed(client))
        /\ pc' = "sleep"
        /\ UNCHANGED <<try, res, waiting, report>>

DeadlineIgnored == FALSE

\* time.Now().After(deadline)
DeadlinePassed == expired

\* The top of waitForHost's loop: sleep, then the deadline.
WaitForHost ==
  /\ pc = "sleep"
  /\ UNCHANGED <<job, attempt, cand, open, sudoPW, cancelled, remote, runs, lastDial>>
  /\ \/ cancelled /\ EndStep(SR("CANCELLED", "CANCELLED"), "CANCELLED", Nil)
     \/ /\ DeadlinePassed
        /\ IF sawOldBoot
           THEN EndStep(SR("FAILED", "COMMAND_FAILED"), "COMMAND_FAILED", Nil)
           ELSE EndStep(SR("FAILED", "CONNECTION_TIMEOUT"), "CONNECTION_TIMEOUT", Nil)
     \/ /\ ~DeadlinePassed
        /\ pc' = "redial"
        /\ UNCHANGED <<try, client, res, waiting, report>>

NothingEndsTheWait == {}

\* Failures of Dial that end the wait at once.
EndsTheWait == {"AUTH_FAILED"}

Redial ==
  /\ pc = "redial"
  /\ UNCHANGED <<job, attempt, sudoPW, cancelled, remote, runs>>
  /\ \/ /\ up /\ lastDial' = "ok" /\ open' = open + 1
        /\ IF oldBoot = 0
           THEN EndStep(SR("SUCCESS", "nil"), "nil", Dialled) /\ UNCHANGED cand
           ELSE /\ cand' = Dialled /\ pc' = "newboot"
                /\ UNCHANGED <<try, client, res, waiting, report>>
     \/ \E cat \in DialFailures(cancelled, expired) :
          /\ lastDial' = cat
          /\ UNCHANGED <<cand, open>>
          /\ CASE cancelled ->
                    EndStep(SR("CANCELLED", "CANCELLED"), "CANCELLED", Nil)
               [] ~cancelled /\ cat \in EndsTheWait ->
                    EndStep(SR("FAILED", cat), cat, Nil)
               [] OTHER ->
                    pc' = "sleep" /\ UNCHANGED <<try, client, res, waiting, report>>

NewBootAnything(id) == TRUE

\* The boot ID that proves a reboot.
NewBoot(id) == id # oldBoot

ForgetCandidate ==
  /\ cand' = Nil
  /\ UNCHANGED open

\* _ = c.Close() on a connection that is not the rebooted host's.
DropCandidate ==
  /\ cand' = Nil
  /\ open' = OpenAfter(cand, Closed(cand))

CheckNewBoot ==
  /\ pc = "newboot"
  /\ UNCHANGED <<job, attempt, sudoPW, cancelled, remote, runs, lastDial>>
  /\ \E o \in Outcomes(cand) :
       LET got == o.cat = "nil" /\ o.exit = "ok"
       IN \/ /\ got /\ NewBoot(cand.boot)
             /\ EndStep(SR("SUCCESS", "nil"), "nil", o.conn)
             /\ cand' = Nil /\ UNCHANGED open
          \/ /\ ~(got /\ NewBoot(cand.boot))
             /\ DropCandidate
             /\ sawOldBoot' = (sawOldBoot \/ got)
             /\ pc' = "sleep"
             /\ UNCHANGED <<try, client, res, oldBoot, expired, report>>

-----------------------------------------------------------------------------
(* The remote host, the clock and the user.                                *)

\* Connections break, by a network restart or a silent cut; the host stays up.
Drop ==
  /\ up /\ events < MaxEvents
  /\ events' = events + 1
  /\ client' = [client EXCEPT !.live = FALSE]
  /\ cand' = [cand EXCEPT !.live = FALSE]
  /\ UNCHANGED <<job, pc, attempt, try, open, res, sudoPW, waiting, report, cancelled,
                 up, boot, nopasswd, silent, runs, lastDial>>

GoDown ==
  /\ up /\ events < MaxEvents
  /\ up' = FALSE
  /\ events' = events + 1
  /\ client' = [client EXCEPT !.live = FALSE]
  /\ cand' = [cand EXCEPT !.live = FALSE]
  /\ UNCHANGED <<job, pc, attempt, try, open, res, sudoPW, waiting, report, cancelled,
                 boot, nopasswd, silent, runs, lastDial>>

\* The host answers again, after a reboot or not.
ComeUp ==
  /\ ~up
  /\ up' = TRUE
  /\ boot' \in {boot, boot + 1}
  /\ UNCHANGED <<job, pc, attempt, try, client, cand, open, res, sudoPW, waiting,
                 report, cancelled, events, nopasswd, silent, runs, lastDial>>

\* In an Exec that no KeepAlive watches: sudo's probe, both boot IDs, and the steps
\* that are not expected to disconnect.
Unwatched ==
  \/ pc = "probe" /\ UsesSudo
  \/ pc \in {"bootid", "newboot"}
  \/ pc \in {"attempt", "command"} /\ job[k].mode \in {"plain", "forget"}

\* The peer of a running command never answers again and keeps the connection up.
\* Exec then waits for the end of the command (<-done), and neither its timeout
\* nor Ctrl+C can end that; see CancelUnblocks of module Exec.
FallSilent ==
  /\ ~silent /\ Unwatched
  /\ LET c == IF pc = "newboot" THEN cand ELSE client IN c.open /\ c.live
  /\ silent' = TRUE
  /\ UNCHANGED <<job, pc, attempt, try, client, cand, open, res, sudoPW, waiting,
                 report, cancelled, up, boot, events, nopasswd, runs, lastDial>>

Expire ==
  /\ pc \in {"sleep", "redial", "newboot"} /\ ~expired
  /\ expired' = TRUE
  /\ UNCHANGED <<job, pc, attempt, try, client, cand, open, res, sudoPW, oldBoot,
                 sawOldBoot, report, cancelled, remote, runs, lastDial>>

Cancel ==
  /\ ~cancelled /\ pc # "done"
  /\ cancelled' = TRUE
  /\ UNCHANGED <<job, pc, attempt, try, client, cand, open, res, sudoPW, waiting,
                 report, remote, runs, lastDial>>

Goroutine ==
  /\ ~silent
  /\ \/ Connect \/ Backoff \/ Probe \/ SkipStep \/ BeginStep \/ EndHost \/ ReadBootID
     \/ Upload \/ Command \/ Tried \/ RetryWait \/ JudgePlain \/ JudgeDisconnecting
     \/ WaitForHost \/ Redial \/ CheckNewBoot

\* The goroutine has returned, or hangs.
Done == (pc = "done" \/ silent) /\ UNCHANGED vars

Next ==
  \/ Goroutine \/ Drop \/ GoDown \/ ComeUp \/ FallSilent \/ Expire \/ Cancel \/ Done

Spec == Init /\ [][Next]_vars

\* The goroutine is scheduled, the clock reaches the deadline of waitForHost, and
\* calls return: sleeps and Alive by their timers, Dial as module Connect shows
\* (ConnectEnds), Exec while its peer answers or KeepAlive watches the connection
\* as module Exec shows (ExecReturns).  An Exec whose peer has fallen silent for
\* good need not return (Goroutine is disabled then).  Of the remote host
\* nothing is assumed: it may drop, go down, come back or fall silent, or not.
FairSpec == Spec /\ WF_vars(Goroutine) /\ WF_vars(Expire)

-----------------------------------------------------------------------------
(* Properties.                                                             *)

Conn == [nil : BOOLEAN, open : BOOLEAN, live : BOOLEAN, boot : Nat]
Cat == {"nil", "CONNECTION_TIMEOUT", "DNS_FAILURE", "AUTH_FAILED", "CANCELLED",
        "INTERNAL_ERROR", "SESSION_FAILED", "COMMAND_TIMEOUT", "COMMAND_FAILED"}
Statuses == {"SUCCESS", "FAILED", "SKIPPED", "CANCELLED"}

\* The type invariant of the goroutine's state; a nil client is never used
\* (pc never is "panic"), although a step that lost its host hands on nil.
TypeOK ==
  /\ job \in Jobs
  /\ pc \in {"dial", "backoff", "probe", "next", "bootid", "attempt", "command",
             "tried", "retrywait", "judge", "sleep", "redial", "newboot", "done"}
  /\ k \in 1..(Len(job) + 1) /\ attempt \in 1..(ConnectRetries + 1) /\ try \in Nat
  /\ client \in Conn /\ cand \in Conn /\ open \in 0..2
  /\ res \in [cat : Cat, exit : {"ok", "bad", "none"}, started : BOOLEAN]
  /\ sudoPW \in BOOLEAN /\ oldBoot \in Nat /\ sawOldBoot \in BOOLEAN
  /\ expired \in BOOLEAN /\ stopped \in BOOLEAN
  /\ steps \in Seq([status : Statuses, cat : Cat])
  /\ host \in [status : Statuses, cat : Cat, step : Nat]
  /\ cancelled \in BOOLEAN /\ up \in BOOLEAN /\ boot \in Nat
  /\ nopasswd \in BOOLEAN /\ silent \in BOOLEAN /\ events \in 0..MaxEvents
  /\ runs \in [1..Len(job) -> Seq(Nat)]
  /\ lastDial \in Cat \cup {"ok", "none"}

\* Every step of the job is in the report; the host is SUCCESS exactly when all
\* its steps are; otherwise status, category and failed step are those of the
\* first step that did not succeed ("first failure decides the host result").
\* No other status is left than those Run reckons with.
HostVerdict ==
  pc = "done" =>
    /\ Len(steps) = Len(job)
    /\ host.status = "SUCCESS" <=> \A i \in 1..Len(job) : steps[i].status = "SUCCESS"
    /\ host.step # 0 =>
         /\ steps[host.step].cat = host.cat
         /\ \A i \in 1..(host.step - 1) : steps[i].status = "SUCCESS"
    /\ host.status \in HostStatuses(cancelled)

\* A step reported SUCCESS was executed on the host, even where a lost
\* connection counts as success.  (Steps that upload and disconnect: see
\* UploadedSuccessMeansRan.)
SuccessMeansRan ==
  \A i \in 1..Len(steps) :
    steps[i].status = "SUCCESS" /\ ~(job[i].content /\ job[i].mode # "plain")
      => Len(runs[i]) >= 1

\* README.md: reboot, disconnect and fire_and_forget steps "never retry, so the
\* command never runs twice"; other steps run at most once per attempt.
NeverRunsTwice ==
  \A i \in 1..Len(job) :
    Len(runs[i]) <= IF job[i].mode = "plain" THEN job[i].retries + 1 ELSE 1

\* What ran and what the report says agree: a skipped step never ran, and a
\* step ran only if every earlier one succeeded or may be passed over.
NothingRunsAfterAStop ==
  /\ \A i \in 1..Len(steps) : steps[i].status = "SKIPPED" => runs[i] = <<>>
  /\ \A i \in 1..Len(job) : runs[i] # <<>> =>
       \A j \in 1..(i - 1) :
         /\ j <= Len(steps)
         /\ steps[j].status = "SUCCESS" \/ job[j].cont

\* runner_test.go: "after-reboot step must run on the rebooted host": the host
\* still shutting down is never taken for the one that is back.
AfterRebootOnNewBoot ==
  \A i \in 1..Len(steps), j \in 1..Len(job) :
    /\ i < j /\ job[i].mode = "reboot" /\ steps[i].status = "SUCCESS"
    /\ runs[i] # <<>> /\ runs[j] # <<>>
    => runs[i][1] < runs[j][1]

\* No connection is lost track of over retries and reconnects, and none is
\* left open when the host is done.
NoConnectionLeak ==
  /\ open = Cardinality({c \in {"client", "cand"} :
                IF c = "client" THEN client.open ELSE cand.open})
  /\ pc = "done" => open = 0

\* domain.go: authentication and host key failures are "never retried", neither
\* by connect nor while waiting for a host to come back.
AuthFailureIsFinal ==
  lastDial = "AUTH_FAILED" => pc \notin {"dial", "backoff", "sleep", "redial"}

\* The report only grows: no later step, retry or reconnect touches a StepResult
\* that is there, a host result that names a failure, or the host once it is done,
\* and the only command that is run is that of the first step not yet reported.
ReportIsFinal ==
  [][/\ \A i \in 1..Len(steps) : i <= Len(steps') /\ steps'[i] = steps[i]
     /\ \A i \in 1..Len(job) : i # Len(steps) + 1 => runs'[i] = runs[i]
     /\ host.cat # "nil" => host' = host
     /\ pc = "done" => UNCHANGED <<pc, steps, host, runs, open>>]_vars

\* The host's goroutine ends: no wait, retry or reconnect goes on for ever,
\* whatever the remote host does, except that it can fall silent for good in the
\* middle of a command that no KeepAlive watches.
HostEnds == <>(pc = "done" \/ silent)

\* report.go: started means that the step's "command was started".  A step whose
\* command travels as a file and that may disconnect is executed if it succeeds.
UploadedSuccessMeansRan ==
  \A i \in 1..Len(steps) : steps[i].status = "SUCCESS" => Len(runs[i]) >= 1

-----------------------------------------------------------------------------
(* The first connection is made as module Dialing says.                    *)

DialPhase == CASE pc = "dial" -> "dial" [] pc = "backoff" -> "pause" [] OTHER -> "over"

\* What connect returned: a host that failed before its first step was not reached.
DialResult ==
  IF DialPhase # "over" THEN "nil"
  ELSE IF host.cat # "nil" /\ host.step = 0 THEN host.cat ELSE "ok"

D == INSTANCE Dialing WITH ConnectRetries <- ConnectRetries, caller <- "connect",
                           phase <- DialPhase, attempt <- attempt,
                           result <- DialResult, cancelled <- cancelled,
                           expired <- FALSE

\* runHost connects, retries, gives up and reports the failure of the connection
\* in the host's result just as connect and Dial promise, and keeps it for good.
ConnectsAsPromised == D!Spec

=============================================================================
