# rco: TLA+ models, checks and proofs

rco (remote-command-orchestrator) runs a job (commands, scripts, file uploads,
reboots) on many Linux hosts over SSH, with bounded concurrency, a limit on
failed hosts, retries, reconnects after a reboot, a shared connection per bastion
and one report. This directory models it in TLA+, from the files it reads to the
report it leaves, checks the models with TLC and proves what they promise with TLAPS.

    tlc -workers 2 -config Runner.cfg MCRunner     # likewise for the other runs
    tlapm RunnerProofs.tla                         # likewise for the other *Proofs modules

`PROJECT.json` lists the components, the runs, the source lines of every
definition, the mutants, the hazards, the findings and the theorems.

## The system

| Component | Keeps | Operations | Talks to |
|---|---|---|---|
| CLI (`internal/cli`) | flags, report file or stream | `run`, `openStream`, `onlyFailed` | Prepare, Run; `OnHostDone` callback |
| Inventory, job file (`internal/inventory`, `internal/job`) | immutable after loading | `Load`, `Select`, `Validate`, `Resolve`, `Build`, `ParseMaxFailures` | files, environment |
| Credentials, redactor (`internal/credentials`) | secrets | `Resolve`, `Add`, `String` | files, environment |
| Prepare (`internal/cli`, `internal/runner`) | targets, plans, resolved credentials, issues | `run` up to `Prepare` | inventory, job, credentials, redactor |
| Run (`internal/runner`) | slots `sem`, WaitGroup, counters `failed`/`done`/`running`, `rep.Hosts` | `Run`, `finish`, `logProgress` | one goroutine per host, `ctx`, `OnHostDone` |
| Host execution (`internal/runner`) | current client, step results, host result | `runHost`, `connect`, `runStep`, `attempt`, `runDisconnecting`, `waitForHost` | Dial, Exec |
| Connecting (`internal/runner`, `internal/sshx`) | attempt, delay, a timer and a callback per handshake | `connect`, `backoff`, `Dial`, `handshake`, `Classify*` | the peer, `ctx`, bastion pool, host keys |
| Bastion pool (`internal/sshx`) | map from bastion to its shared connection | `get`, `evict`, `broken`, `Close` | all host goroutines at once |
| Host keys (`internal/sshx`) | `known_hosts`, a cached callback | `Callback`, `verifier`, `add` | the file, which other programs change too |
| Exec (`internal/sshx`) | a session, two goroutines, a timer | `Exec`, `Alive`, `KeepAlive` | the SSH connection |
| Output buffer (`internal/sshx`) | head, tail, carry, found | `Write`, `String`, `Found` | Exec, `check` |

What is hard here: hosts run at once and share counters, slots, bastion
connections and `known_hosts`; Ctrl+C may come at every point; connections drop,
fall silent or time out while it is unknown whether a command ran; a rebooting
host still answers for a while; and much of it waits for something else. What
makes each component correct:

* Run: never more hosts at once than allowed, the failure limit is overrun by at
  most the hosts already running, every host is in the report once, Run returns.
* Host execution: the report says what happened, a command that must not run
  twice does not, nothing runs after a step that stops the job, no connection
  leaks, the wait for a host ends.
* Preparation: nothing is contacted unless every host can be prepared, every
  problem is named, what is run is what the files and flags say, no secret is shown.
* Connecting: only what may be transient is tried again, a dial that failed leaves
  nothing open, a silent peer holds nobody.
* Bastion pool: one login at a time, no connection lost track of, nobody waits
  for ever, nothing open at the end.
* Host keys: only recorded keys are accepted, one new key per host.
* Exec: the truth about the command, no goroutine left behind, it returns.
* Buffer: exact search, both ends kept, bounded memory.
* CLI and reports: a report that misses something is announced, a kill loses no
  finished host, a rerun never repeats a success, the exit code tells the truth.

## Modules

`Runner` (`runner.go` `Run`, `logProgress`; `report.go` `finish`). The main loop
is `Acquire` / `CancelBeforeStart` (the two cases of the select), `SkipHost` /
`Admit` (the check of the limit), `Spawn`, `WaitAll`, `Return`. A host's goroutine
is `RunHost` (the whole of `runHost`, with any outcome), the four statements of
`finish` (`Store`, `CountFailed`, `CountDone`, `Stream`), then `Release` and
`Leave`. `finish` is also executed by the main goroutine for a host that never
starts. Each atomic operation and channel operation is a step of its own. Several
statements are one step only where no other goroutine can see the difference, as
in `Spawn`: nobody else writes `wg` upwards or reads `running` in a way a property
tells apart. The progress goroutine loads its three counters in three steps.

`Rollout` is the abstract specification: hosts are pending, running or final; a
host starts only with a slot free and the limit not reached. `Runner` implements
it (`ImplementsRollout`): for the outside a host runs from the moment the limit
let it through until its failure has been counted (`AbsStatus`).

`HostRun` (`runner.go` `runHost` to `check`). `pc` says where the goroutine is:
connecting, probing sudo, at the top of the step loop, reading the boot ID,
uploading, running the command, waiting for a retry, judging, waiting for the
host. Its jobs satisfy `Valid`, the rules of `Job.Validate` on what a step has
here. An Exec is one step with every result Exec can return (`Outcomes`), together
with two facts the code cannot see: whether the command was executed, and what
became of the connection. A Dial is one step, with the failures that `dialTCP`,
`handshake` and the wait for a bastion can give (`DialFailures`); both come from
`Contracts`. `runs` records in which boot each command was executed, so that
properties can compare the report with the truth.
The remote host drops connections, goes down and comes back with the same or a
new boot (`Drop`, `GoDown`, `ComeUp`); Ctrl+C and the deadline of the reconnect
come at any time. In the middle of an Exec that no KeepAlive watches (the sudo probe,
both readings of the boot ID, plain and fire-and-forget steps: `Unwatched`) the peer may
fall silent for good (`FallSilent`), and then the goroutine does nothing any more. One
category stands for each class the code treats alike.

`Connect` (`runner.go` `connect`, `backoff`, `sleep`; `dial.go` `Dial`, `dialHop`,
`dialTCP`, `handshake`; `classify.go`). It opens up the Dial that is one step in
`HostRun`. In a handshake three goroutines meet: the caller in
`ssh.NewClientConn`, the callback of `time.AfterFunc` and the one of
`context.AfterFunc`; a callback is armed, fired (started, not yet run) or ran, and
`timer.Stop` and `stop` only take back an armed one. The peer answers, refuses or
says nothing for ever. `ClassifyDial`, `ClassifyHandshake` and `HandshakeFailure`
compute the category from what happened; `ctxErr` is the first reason for which the
context ended, Ctrl+C or the deadline, and stays. `Shift` is Go's `<<` on a Duration in
`-Top..Top - 1`. Delays and caps have either sign, as nothing refuses a negative one;
`rand.N` on a cap below -1 ns is the panic the code has (`pc = "panic"`).

`Contracts` and `Dialing` are the seams: where one module takes in one step what
another opens up, the outcomes it reckons with are an operator of `Contracts`
(`HostStatuses` of a host, `ExecResults` of a command, `DialFailures` of a dial),
and the module that opens it up is proved to have no other. `Dialing` is the abstract
specification of connecting, with the loop of retries: `Connect` implements it
(`ImplementsDialing`; `Class` maps the code's categories to the classes of `HostRun`),
and what `HostRun` does up to its first connection is a behaviour of it too
(`ConnectsAsPromised`).

`Inventory`, `JobFile`, `Credentials` are operators: `Merge` and `Clash` (`Load`,
`mergeInto`), `Select` and `Resolved` (`inventory.go`); `ParseMaxFailures`,
`Validate`, `Resolve`, `Render`, `Build` (`job.go`, `variables.go`, `build.go`);
`CredentialOK`, `SecretsOf` and the Redactor (`credentials.go`). Host names are
numbers in the order of their sorting. Values and templates are sequences of
letters and references, since what is replaced in what is the question; the marker
`[REDACTED]` is one letter of its own, so secrets that occur in that word are left
out. A percentage is a fraction, and `ParseMaxFailures` gives every result floating
point may produce: where the share is a whole number of hosts, a fractional
percentage may come out one host higher. A number of hosts is converted to an int of
the width `IntTop` (`ToInt`); one that does not fit, "inf" included, becomes the
smallest or the largest int, depending on the machine.

`Prepare` (`cli.go` `run` up to `runner.Prepare`; `runner.go` `Prepare`;
`inventory.Load`). One action per stretch between early returns: `LoadJob`,
`LoadFile`, `CheckInventory`, `SelectTargets`, `TakeLimit`, `CheckFlags`,
`PrepareHost` for each target, and `Finish`, which redacts and decides. Go's maps
are walked in any order (`order`), secrets of one length are replaced in any order.
An issue is a host with what is wrong there: its variables, or else its templates, or
else one or both of its logins, in the order in which `Prepare` gives up on a host.
The reference that the properties compare with reads the files as they are, level
by level, without merging or folding them.

`BastionPool` (`bastion.go` and its use in `dial.go`). The sections under `p.mu`
are steps; the dial, the publication of its result, the select, the tunnel, and
the two halves of `broken` (drop under the mutex, close after it) are others. `e.c`
is read in `broken` while the owner may be writing it; neither value the read can
give is the connection it is compared with, so the race has one outcome.

`Exec` (`exec.go`). The caller, the goroutine that opens the session, the one in
`sess.Wait`, the timer, Ctrl+C and KeepAlive, over a connection that is up, silent
or down. A command that ends well without having read all its standard input gives an
error of the copying instead (SESSION_FAILED with the connection kept). What the SSH
library does is taken from its use and marked external.

`HostKeys` (`dial.go` `HostKeys`, `handshake`). Several handshakes share the file
and the cached callback; `add` checks and appends under `h.mu` while another
program may add a line in between and the file's time may be too coarse to show
it. Other programs only add lines; nobody removes any. The file may lack its last
newline (`dangling`); a line appended to it runs into the unfinished one, and `swallowed`
remembers whose it was. Reading, creating, opening, writing and closing the file may fail.

`OutputBuffer` (`buffer.go`). `Write` with every chunk; `stream` is the history
the properties compare with.

`Reports` (`cli.go` `run`, `reports.go`). Several invocations by one user that use
one file as `--report`, as `--only-failed`, or as both. `Select`, `Prepare`, `Open`,
`CloseStream` / `WriteReport` and `PrintReport` are the stretches of `run` between
its early returns (`BadInput` what ends before them, `--help` included); `HostDone`
and `Line` are `OnHostDone` in a host's goroutine. A
line of the file carries the results it contains and what was cut off it; every
write may fail in part, and `Kill` may come at any point, in the middle of a write
too. `saved` and `clean` remember what the invocation that last truncated the file
really did.

Each `MC*` module gives the values for one module's runs.

## Runs

| Run | Instance | Shows |
|---|---|---|
| `Runner` | 3 hosts, 2 slots, limit 1, progress lines | the inductive invariant `IInv` (types, bookkeeping, counters, `ConcurrencyBound`, `FailureBudget`), `FailureBound`, `ReportComplete`, `ProgressAddsUp`, refinement of `Rollout`, termination |
| `HostRun` | 4 two-step jobs, 1 connection retry, 2 outages or drops | verdict, executed-if-successful, never twice, nothing after a stop, new boot after a reboot, no leak, no retry of an authentication failure, termination unless the peer falls silent for good in an unwatched Exec |
| `BastionPool` | 2 hosts, 2 dials each | one dial; `PoolIsSound`: no orphan, every pooled entry has someone who evicts it, nothing open after Close; no host waits for ever |
| `Connect` | 9 retries, delays of 6 bits (negative, 0, 1, 17), caps -2, -1, 0 and 7, with and without a bastion | the pause stays within its cap through every overflow, and only a cap below -1 panics; only transient failures are retried and every transient one is; nothing is left open or armed; connecting ends |
| `Prepare` | 9152 inputs: up to 2 files, 3 hosts (8 for the limit), 2 groups, 2 variables, 2 credentials and a bastion, secrets within one another | plans are all or nothing and the limit is positive if it fits an int; `PreparedExactly`: names, targets, settings, variables, limit and issues against the reference; `ShownIsClean` |
| `OutputBuffer` | streams of up to 10 bytes over 2 letters, limit 5, writes of up to 7 bytes | exact search, both ends kept, bounded memory |
| `Exec` | with KeepAlive, 3 misses | truthful result, no goroutine left, Exec returns |
| `HostKeys` | 3 handshakes, 2 hosts, 2 keys, 1 foreign line, all modes, with and without a last newline | one new key per host; accepted keys are recorded, but for at most one that ran into an unfinished line |
| `Reports` | 2 hosts, 3 invocations, `.jsonl` and `.json` | reruns are exact after a clean report, also with previews and refused invocations in between, and spare successes after any; finished hosts are on disk after a kill; a write error is not hidden; exit codes |
| `HostRunUpload`, `BastionPoolInUse`, `ExecSilent` | the smallest that shows it | a statement of the repository the code does not keep, see Findings |

Bounds. Three hosts over two slots with a limit of one let hosts succeed, fail, be
skipped and be cancelled in one run, with a failure counted while another host is
under way (the worst case of the bound); the proofs lift the bounds.
Two steps are enough for everything one step leaves to the next (client, boot,
stop, retries), and two outages for one during the step and one during the wait.
Two hosts with two dials let an entry be replaced while the other host still holds
the old one. In the buffer, an odd limit, writes larger than the limit and
patterns of lengths 1 to 3 that overlap hit every boundary of `Write` and `scan`.
Three invocations let a report be written, rerun into itself and read again; two
hosts give one line before and one after a torn one (hosts are interchangeable, so
the run uses symmetry).
In `Connect`, nine retries of a 6-bit duration shift a bit to the top, through the
sign and out, which a 64-bit one does after 30 to 63 retries; 17 comes back as a
small positive number on the way. In `Prepare` the inputs are four products
(`MCPrepare`): how hosts are listed and selected, the failure limit, where a variable
is set and what the job says of it, and which secrets a login needs; in each, one
or two of every kind are enough for a clash, an override and a miss. Eight hosts at
12.5 % are the whole number of hosts that floating point may overshoot, and with
`IntTop = 16` the number 16 is the first that does not fit.
`MaxEvents`, `MaxTries`, `MaxEdits`, `MaxWrite`, `MaxStream`, `MaxRuns`, `Top` and `IntTop`
are the only bounds that are not parameters of the program.

Fairness. Go schedules goroutines that can run: weak fairness of the main loop,
of each host and of each watcher. In `Runner` this includes that `runHost`
returns. `HostEnds` of `HostRun` shows that it does, unless the peer falls silent for
good in an Exec without KeepAlive; that no peer does so is an assumption of
`RunTerminates`, which the code does not ensure (`ExecSilent`). In `HostRun` itself it
is not assumed: weak fairness says that the clock reaches a deadline and that sleeps,
`Alive`, Dial (`ConnectEnds`) and Exec (`ExecReturns`) return, the last one only while
the peer answers or KeepAlive watches it; the goroutine has no enabled step, and so no
fairness, once `FallSilent` has happened. Nothing else is assumed of the remote host.
In `Exec`, messages over a connection that is up again and again get through
(strong fairness of the opener and of Wait). A peer may stay silent and a command
may run for ever. In `Connect`, the goroutine is scheduled, `dialTCP` and the tunnel
return within their timeout, timers fire and callbacks run; nothing is assumed of the
peer in a handshake. Deadlock is checked in every run; each specification ends in an
explicit final step.

## Proofs

Eight modules hold proofs, one for each state machine but `Prepare`. Together they
prove every invariant that the runs check for those eight machines, for every value
of the constants, the refinements of `Rollout` and `Dialing`, and action properties of
five machines. Each proof is the same argument: an inductive invariant (`IInv`), which
TLC confirms on the run's instance too; one lemma per action that the action keeps it;
and the property as a consequence of it, or, for an action property, of it and the step.
The assumptions are the `ASSUME`s of the models: the types of the constants, and for
`HostRun` that jobs are `Valid`. Theorems with a hypothesis of their own: one on `Exec`
with a peer that never answers, two on a failure limit given as a percentage.

Action properties say what no step may do. In `Runner` and `HostRun`, `ReportIsFinal`:
what the report says is never rewritten (`ReportNeverRewritten`, `ReportOnlyGrows`). In
`BastionPool`, `PublishedIsFinal`: what hosts read without the mutex after `<-e.ready`
does not change under them (`PublishedStays`). In `HostKeys`, `OnlyAcceptNewWrites`
(`KnownHostsGuarded`) and in `Reports`, `OnlyExecuteWrites` (`ReportFileGuarded`): who
may touch the user's files, and how. Two invariants are the safety part of liveness
that only TLC can check: `NeverStuck` in `Runner` (`MainNeverStuck`: whatever the main
goroutine waits for, somebody has it to give) and `WaitersAreServed` in `BastionPool`
(`WaitersServed`).

The seams. `Runner` takes any of `HostStatuses`; `HostVerdict` of `HostRun` ends with
it, so `FirstFailureDecides` proves it. `HostRun` takes any of `ExecResults`;
`ReportsTheTruth` of `Exec` says that what was returned, what ran and what became of the
connection is one of them (`TruthReported`), and of the few for an unusable connection
when the peer never answers (`NothingRunsUnanswered`). `HostRun` takes any of
`DialFailures`, as `Dialing` does, which `Connect` implements
(`ConnectImplementsDialing`, `HostConnectsAsPromised`); `Dial` of `Dialing` is the end
of an attempt in `Connect`, `Pause` its sleep, everything between a stutter. The
refinement found `HostRun` wrong in one place: after Ctrl+C it left out the refused
login, which another host's dial of the bastion and an unreadable `known_hosts` file can
still give. What is left between `HostRun` and `Exec` is the change of the connection
while a command runs: `Exec` follows it step by step, `HostRun` takes the connection at
the start.

`RunnerProofs`, for every number of hosts, every concurrency and every limit (also zero
or negative): `Invariance`, `TypeCorrect`, `ConcurrencyBounded`, `FailuresBounded`
(at most `MaxFailures + Conc - 1` hosts fail), `FullBudgetNeverSkips`,
`RunImplementsRollout`, `ReportIsComplete`, `ProgressNeverOvercounts`, `MainNeverStuck`,
`ReportNeverRewritten`. With `ParseMaxFailures` of `JobFile` in between,
`FailuresWithinShare` and `WholeShareNeverSkips` say what a percentage is worth to the
user: the rounding up and the lag of the counter together (`ShareRounded` says what
the rounding does, for any fraction and any number of hosts).
`FailureBound` is not inductive: the counter lags behind the hosts. `IInv` adds
`FailureBudget` (counted failures and hosts that may yet fail stay within the
bound), which is preserved by `Admit` only because a slot is held for every host
under way (`ConcurrencyBound`, an equation between `sem` and the goroutines) and
because the counter is exact (`Accounting`); these in turn need to know which
stage each host is in relative to the loop (`Bookkeeping`). The sets counted before
and after an action are related by lemmas on cardinality. For the refinement, `Admit`
is `Start`, `SkipHost` is `Skip`, `CancelBeforeStart` is `CancelPending`,
`CountFailed` is `End`, `Cancel` is `Cancel`, and every other step stutters.
On top of `IInv`, `JInv` says that `done` and the calls of `OnHostDone` keep up with
`finish` host by host (`Tallied`), that the summary is made when no result can change
any more (`Summarized`), and that a progress line under way is made of counts that were
right when they were loaded (`LineSound`: `done` is loaded first and only grows).

`HostRunProofs`, for every job that `Valid` accepts (of any length, with any number of
retries), any number of connection attempts and any number of outages:
`TypeCorrect`, `FirstFailureDecides`, `SuccessIsReal`, `CommandsNotRepeated`,
`StopIsRespected`, `RebootIsProved`, `ConnectionsAccounted`, `RefusalIsFinal`,
`HostConnectsAsPromised`, `ReportOnlyGrows`. The
clauses: how far report and retries have come at each `pc` (`Phase`); which client is
nil or open and that `open` counts them (`Clients`); that a connection belongs to the
boot it was dialled in, that the boot ID was read on the connection the reboot command
runs on, and that every later client is of a later boot than every proved reboot
(`Boots`); how often each command ran and what a result says of it (`Ran`); what the
report says so far (`Verdict`); that a refused login leaves nothing to do (`Final`).
`RebootIsProved` needs most of them: `waitForHost` compares the boot of its candidate
with `oldBoot`, and only `Boots` ties `oldBoot` to the boot the command ran in.

`BastionPoolProofs`, for any number of hosts and of calls of `Dial`: `TypeCorrect`,
`OneDialAtATime`, `PoolSound`, `WaitersServed`, `PublishedStays`. An entry has one owner until it is published
(`OneOwner`), its fields agree with each other (`EntryOK`) and with where its hosts are
(`HostOK`), `Close` comes last (`ClosedIsOver`), and there are no more entries than
calls, which keeps `entries` within `MaxEntries` (`Counted`). `SingleDial` follows since
a dialling owner's entry is the pooled one, and there is only one of those.

`ConnectProofs`, for any number of retries, any delays and caps of either sign and any
width of a duration (`Top` may be any power of two; in Go it is 2^63): `TypeCorrect`,
which includes that the delay is within its cap through every overflow and that `rand.N`
panics only for a cap below -1 ns, `TransientRetried`, `NothingLeft`,
`ConnectImplementsDialing`.
`Phase` says what is decided and what is open at each `pc`.

`ExecProofs`, with and without KeepAlive and for any number of misses: `TypeCorrect`,
`TruthReported`, `NothingRunsUnanswered`, `GoroutinesGone`. `Channels` says that a goroutine's last act is to
fill its channel, which is taken once; `Progress` which goroutine the caller waits for.

`HostKeysProofs`, for any number of connections, hosts, keys and foreign lines:
`TypeCorrect`, `OneKeyRecorded`, `AcceptedKeysRecorded`, `KnownHostsGuarded`. What was read is still in the
file (`ReadIsWritten`), and whoever appends has found no line of rco's under the lock
(`AppendsFirst`). The third theorem holds for every file, with a last newline or not:
a line runs into an unfinished one at most once, and every other accepted key is recorded.

`OutputBufferProofs`, for any bytes, patterns and limit, writes of any size and streams
of any length: `TypeCorrect`, `SearchIsExact`, `BothEndsKept`. `Kept` says what head and
tail are of the stream, also while the tail is longer than it will be shown. That the
carry is long enough is `SearchInPieces`: an occurrence ends in the old part or lies
within carry and chunk.

`ReportsProofs`, for any inventory and any number of invocations: `TypeCorrect`,
`RerunsTheOthers`, `FinishedHostsKept`, `ExitCodesAreTrue`, `ReportFileGuarded`. No line says what did not
happen (`LinesTrue`), a report is made of whole lines as long as no write failed
(`Writing`), a host out of `OnHostDone` is on disk (`OnDisk`), a report without a
complaint is whole (`CleanIsWhole`), and the selection is what the file asked for
(`Selected`); `Progress` ties these to `pc`. The proof found the model wrong in one
place: a killed process could still write its pending line, and `Line` now requires that
the process lives.

Induction is available for numbers, as the least counterexample (`LeastNat`, from the
well-foundedness of `<`); `OutputBufferProofs` and `ReportsProofs` use it. It is not for
recursive definitions and folds.

Only model-checked: all liveness (`RunTerminates`, `HostEnds`, `EveryHostLeaves`,
`ExecReturns`, `ConnectEnds`), since fairness and ENABLED are out of the prover's reach;
and `Prepare` (`TypeOK`, `PreparedExactly`, `ShownIsClean`), whose operators fold over
files, templates and secrets. Only proved, and not part of a run:
`NeverSkipsAtFullBudget`, the bounds on a percentage, `UnusableRunsNothing`, `NeverStuck`,
`WaitersAreServed`, the five action properties and the two refinements of `Dialing`;
all but the percentages (whose rounding is `LimitExact` of the run `Prepare`) were put
to TLC on their run's instance before they were proved.

## Findings

Each has a run whose counterexample is the scenario.

* `HostRunUpload`: the connection of a disconnecting step with uploaded content is
  cut during the upload; `started` is the upload's, so the step is SUCCESS after
  the reconnect although its command never ran (`runner.go:345`, `report.go:63`).
* `BastionPoolInUse`: a target that neither answers nor refuses makes the tunnel
  time out, and `broken` closes the connection other hosts work over
  (`bastion.go:78`, `sshx_test.go:325`).
* `ExecSilent`: after the session is open, Ctrl+C and the timeout wait for the
  peer; one that keeps TCP alive and answers nothing blocks Exec
  (`exec.go:110`, `runner.go:276`).

Seen in the models, without a run of their own: a host can be started after
Ctrl+C while a slot is free, since select picks either case (`runner.go:186`,
`README.md:187`; it then fails as CANCELLED at its dial); Ctrl+C in the pause
before a step's retry leaves the host FAILED with the earlier failure, not CANCELLED
(`runner.go:484`, `runner.go:159`); a host that waits for
another host's bastion dial at Ctrl+C becomes FAILED with INTERNAL_ERROR
(`bastion.go:54`); `sawOldBoot` is never reset, so a host that answered once before
going down for good is reported as reachable (`runner.go:387`); a sudo probe that
timed out sends the password to a host that needs none (`runner.go:471`); `Started`
is false for a command that was started just before the timeout (`exec.go:89`);
an error of `printReport` gives exit code 1 after hosts were contacted
(`cli.go:303`; the help text says of 1 "nothing contacted"); `--only-failed` with the
same file as `--report` forgets, when rco is killed, the hosts that had not finished
again (`cli.go:278`: the file is truncated first, and missing hosts are dropped).
A key appended to a `known_hosts` file without a final newline runs into the last
line: it is not recorded, the file no longer parses, and the connection is accepted
all the same (`dial.go:114`; `sshx_test.go:136` says "The recorded key is trusted by a
strict client afterwards."). It is the exception that `AcceptedIsRecorded` states: it
happens to one connection at most, and without the exception the run `HostKeys` shows a
violation.
A handshake timer that has fired just before `timer.Stop` closes a connection that
`handshake` then returns as established (`dial.go:241`, `dial.go:244`); the first step
fails on it. A negative `--max-retry-delay`, which nothing refuses, makes `rand.N`
panic (`runner.go:580`), and after very many retries the wrapped shift may give a short
pause again. Secrets that overlap without one containing the other, or a secret that
overlaps itself, leave letters of the second one readable (`credentials.go:130` says
"overlapping secrets are fully replaced"; `ShownIsClean` claims it for nested ones). A
fractional percentage may allow one failure too many ("16.1%" of 1000 hosts gives 162),
which `job.go:382` does not say. `ParseFloat` takes "inf" for a number of hosts, and
`int(n)` makes of it, or of 2^63 and more, a negative limit on some machines, which Run
takes for none (`job.go:394`). `Prepare` "returns all problems at once" (`runner.go:78`)
for every host, not every problem of a host: with a wrong variable its credentials are
not looked at. `LimitExact` and `IssuesExact` state both as the code has them. A `--var` given twice silently has its last
value (`cli.go:319`).

## Not modelled, and the plan

Not modelled: YAML decoding and `.yaml` reports, flags, printing and the wording of
issues (text); patterns of names, bounds of durations and regular expressions in
`Validate` (text); shell quoting and the wrapping of commands; the parsing of keys (by
the SSH library); `knownAlgorithms`, which only reads; `cmd/rco`; the test server.
What is left of the source is declarations, formatting and these.

Every safety invariant of the eight machines above is proved, and so is what they assume
of each other, except where `Fairness` says otherwise. Left for later: what `Connect`
assumes of the bastion's dial and `BastionPool` of the tunnel (each takes any failure of
the other's class), lemmas about single operators of `Prepare` that need no induction,
and shorter proofs.
