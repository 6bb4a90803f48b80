-------------------------------- MODULE Exec --------------------------------
(***************************************************************************)
(* One call of Exec (internal/sshx/exec.go): the caller, the goroutine     *)
(* that opens the channel and starts the command, the goroutine that waits *)
(* for its end, the timer, Ctrl+C, and optionally the KeepAlive goroutine  *)
(* that runDisconnecting keeps next to it.  The connection is "up",        *)
(* "silent" (the peer no longer answers and nothing tells the client) or   *)
(* "down".                                                                 *)
(*                                                                         *)
(* From the SSH library (external): NewSession and Start return when the   *)
(* peer answers or the connection is down; Wait returns when the peer ends *)
(* the channel or the connection is down; closing a session only sends a   *)
(* message, the peer has to answer it.                                     *)
(***************************************************************************)
EXTENDS Integers, Contracts

CONSTANTS
  KeepAlive,   \* TRUE: KeepAlive runs during the command
  Misses       \* unanswered keepalives after which it closes the connection

ASSUME ExecAssumption ==
  KeepAlive \in BOOLEAN /\ Misses \in Nat \ {0}

VARIABLES
  pc,         \* the caller
  fail,       \* fail: "nil", "COMMAND_TIMEOUT" or "CANCELLED"
  ret,        \* what Exec returned: category, exit, started
  opener,     \* the goroutine that opens the session
  ready,      \* the channel ready: "empty", "err", "sess" (then taken: "taken")
  waiter,     \* the goroutine in sess.Wait
  done,       \* the channel done: "empty", "ok", "bad", "missing", "lost",
              \* "unread" (not all of the standard input was taken)
  killed,     \* SIGKILL and channel close were sent
  timer,      \* the timer has fired
  cancelled,
  link,       \* the connection
  cmd,        \* the remote command: "none", "running", "ok", "bad", "nostatus"
  missed      \* consecutive missed keepalives

vars == <<pc, fail, ret, opener, ready, waiter, done, killed, timer, cancelled, link,
          cmd, missed>>

NoResult == [cat |-> "none", exit |-> "none", started |-> FALSE]

Init ==
  /\ pc = "opening" /\ fail = "nil" /\ ret = NoResult
  /\ opener = "session" /\ ready = "empty"
  /\ waiter = "none" /\ done = "empty" /\ killed = FALSE
  /\ timer = FALSE /\ cancelled = FALSE
  /\ link \in {"up", "silent", "down"} /\ cmd = "none" /\ missed = 0

Return(cat, exit, started) ==
  /\ ret' = [cat |-> cat, exit |-> exit, started |-> started]
  /\ pc' = "returned"

-----------------------------------------------------------------------------
(* The goroutine that opens the channel and starts the command.            *)

NewSession ==
  /\ opener = "session" /\ link # "silent"
  /\ \/ link = "up" /\ opener' = "start" /\ UNCHANGED ready
     \/ opener' = "gone" /\ ready' = "err"   \* refused, or the connection is down
  /\ UNCHANGED <<pc, fail, ret, waiter, done, killed, timer, cancelled, link, cmd,
                 missed>>

\* The exec request reaches the peer, which starts the command ...
StartOnPeer ==
  /\ opener = "start" /\ link = "up" /\ cmd = "none"
  /\ cmd' = "running"
  /\ UNCHANGED <<pc, fail, ret, opener, ready, waiter, done, killed, timer, cancelled,
                 link, missed>>

\* ... and its answer makes sess.Start return.
Started ==
  /\ opener = "start"
  /\ \/ link = "up" /\ cmd # "none" /\ ready' = "sess"
     \/ link = "up" /\ cmd = "none" /\ ready' = "err"    \* the peer refused
     \/ link = "down" /\ ready' = "err"
  /\ opener' = "gone"
  /\ UNCHANGED <<pc, fail, ret, waiter, done, killed, timer, cancelled, link, cmd,
                 missed>>

-----------------------------------------------------------------------------
(* The caller.                                                             *)

\* First select: the session is there.
Opened ==
  /\ pc = "opening"
  /\ \/ ready = "sess" /\ pc' = "running" /\ waiter' = "waiting" /\ UNCHANGED ret
     \/ ready = "err" /\ Return("SESSION_FAILED", "none", FALSE) /\ UNCHANGED waiter
  /\ ready' = "taken"
  /\ UNCHANGED <<fail, opener, done, killed, timer, cancelled, link, cmd, missed>>

\* First select: timer or ctx; the connection is closed.
OpenFails ==
  /\ pc = "opening"
  /\ \/ timer /\ fail' = "COMMAND_TIMEOUT"
     \/ cancelled /\ fail' = "CANCELLED"
  /\ link' = "down"
  /\ pc' = "drain"
  /\ UNCHANGED <<ret, opener, ready, waiter, done, killed, timer, cancelled, cmd,
                 missed>>

\* o = <-ready, so that the goroutine is gone; Result{} is returned.
Drain ==
  /\ pc = "drain"
  /\ ready # "empty"
  /\ ready' = "taken"
  /\ Return(fail, "none", FALSE)
  /\ UNCHANGED <<fail, opener, waiter, done, killed, timer, cancelled, link, cmd,
                 missed>>

ExitOfMissing(d) == IF d = "bad" THEN "bad" ELSE "ok"

ExitOf(d) == IF d \in {"ok", "bad"} THEN d ELSE "none"

\* Second select: the command has ended.  A missing exit status is no error.
Ended ==
  /\ pc = "running"
  /\ done # "empty"
  /\ Return(IF done \in {"lost", "unread"} THEN "SESSION_FAILED" ELSE "nil",
            ExitOf(done), TRUE)
  /\ UNCHANGED <<fail, opener, ready, waiter, done, killed, timer, cancelled, link, cmd,
                 missed>>

\* Second select: timer or ctx; the command is killed and the channel closed.
RunFails ==
  /\ pc = "running"
  /\ \/ timer /\ fail' = "COMMAND_TIMEOUT"
     \/ cancelled /\ fail' = "CANCELLED"
  /\ killed' = TRUE
  /\ pc' = "settle"
  /\ UNCHANGED <<ret, opener, ready, waiter, done, timer, cancelled, link, cmd, missed>>

SettleAtOnce ==
  /\ pc = "settle"
  /\ Return(fail, "none", TRUE)
  /\ UNCHANGED <<fail, opener, ready, waiter, done, killed, timer, cancelled, link, cmd,
                 missed>>

\* <-done, then the result with whatever output there is.
Settle ==
  /\ pc = "settle"
  /\ done # "empty"
  /\ Return(fail, "none", TRUE)
  /\ UNCHANGED <<fail, opener, ready, waiter, done, killed, timer, cancelled, link, cmd,
                 missed>>

-----------------------------------------------------------------------------
(* done <- sess.Wait(): an error of the copying of the standard input, if  *)
(* the command ended with status 0 before it took all of it, comes instead *)
(* of the success.                                                         *)

Wait ==
  /\ waiter = "waiting"
  /\ \/ link = "up" /\ cmd \in {"ok", "bad"} /\ done' = cmd
     \/ link = "up" /\ cmd = "ok" /\ done' = "unread"
     \/ link = "up" /\ (killed \/ cmd = "nostatus") /\ done' = "missing"
     \/ link = "down" /\ done' \in {"missing", "lost"}
  /\ waiter' = "gone"
  /\ UNCHANGED <<pc, fail, ret, opener, ready, killed, timer, cancelled, link, cmd,
                 missed>>

-----------------------------------------------------------------------------
(* KeepAlive: a probe every interval, from the start of the step.          *)

ProbeAnswered ==
  /\ KeepAlive /\ link = "up" /\ pc # "returned"
  /\ missed' = 0
  /\ UNCHANGED <<pc, fail, ret, opener, ready, waiter, done, killed, timer, cancelled,
                 link, cmd>>

GivesUpLate == missed >= Misses

\* failed++; failed >= misses
GivesUp == missed + 1 >= Misses

ProbeMissedNeverCloses ==
  /\ KeepAlive /\ link # "down" /\ pc # "returned"
  /\ missed' = IF GivesUp THEN missed ELSE missed + 1
  /\ UNCHANGED <<pc, fail, ret, opener, ready, waiter, done, killed, timer, cancelled,
                 link, cmd>>

\* No answer within the interval: a silent peer, or one that is slow.
ProbeMissed ==
  /\ KeepAlive /\ link # "down" /\ pc # "returned"
  /\ IF GivesUp THEN link' = "down" /\ UNCHANGED missed
                ELSE missed' = missed + 1 /\ UNCHANGED link
  /\ UNCHANGED <<pc, fail, ret, opener, ready, waiter, done, killed, timer, cancelled,
                 cmd>>

-----------------------------------------------------------------------------
(* Surroundings.                                                           *)

CommandEnds ==
  /\ cmd = "running"
  /\ cmd' \in {"ok", "bad", "nostatus"}
  /\ UNCHANGED <<pc, fail, ret, opener, ready, waiter, done, killed, timer, cancelled,
                 link, missed>>

Fire ==
  /\ ~timer /\ pc # "returned"
  /\ timer' = TRUE
  /\ UNCHANGED <<pc, fail, ret, opener, ready, waiter, done, killed, cancelled, link,
                 cmd, missed>>

Cancel ==
  /\ ~cancelled /\ pc # "returned"
  /\ cancelled' = TRUE
  /\ UNCHANGED <<pc, fail, ret, opener, ready, waiter, done, killed, timer, link, cmd,
                 missed>>

\* The peer stops answering, or the connection breaks.
LinkFails ==
  /\ link # "down" /\ pc # "returned"
  /\ link' \in {"silent", "down"} \ {link}
  /\ UNCHANGED <<pc, fail, ret, opener, ready, waiter, done, killed, timer, cancelled,
                 cmd, missed>>

\* A silent peer is heard of again, for good or for bad.
LinkBack ==
  /\ link = "silent" /\ pc # "returned"
  /\ link' \in {"up", "down"}
  /\ UNCHANGED <<pc, fail, ret, opener, ready, waiter, done, killed, timer, cancelled,
                 cmd, missed>>

Caller == Opened \/ OpenFails \/ Drain \/ Ended \/ RunFails \/ Settle

Opener == NewSession \/ StartOnPeer \/ Started

Next ==
  \/ Caller \/ Opener \/ Wait \/ ProbeAnswered \/ ProbeMissed \/ CommandEnds
  \/ Fire \/ Cancel \/ LinkFails \/ LinkBack
  \/ pc = "returned" /\ UNCHANGED vars

Spec == Init /\ [][Next]_vars

\* Goroutines are scheduled, the timer fires and keepalives to a silent peer are
\* sent and missed.  Messages
\* on a connection that is up again and again get through (TCP repeats them),
\* hence the strong fairness.  A peer may stay silent for ever, and a command
\* may run for ever.
FairSpec ==
  /\ Spec
  /\ WF_vars(Caller) /\ SF_vars(Opener) /\ SF_vars(Wait)
  /\ WF_vars(Fire) /\ WF_vars(link = "silent" /\ ProbeMissed)

-----------------------------------------------------------------------------
(* Properties.                                                             *)

\* The type invariant of one Exec.
TypeOK ==
  /\ pc \in {"opening", "drain", "running", "settle", "returned"}
  /\ fail \in {"nil", "COMMAND_TIMEOUT", "CANCELLED"}
  /\ ret \in [cat : {"none", "nil", "COMMAND_TIMEOUT", "CANCELLED", "SESSION_FAILED"},
              exit : {"none", "ok", "bad"}, started : BOOLEAN]
  /\ opener \in {"session", "start", "gone"}
  /\ ready \in {"empty", "err", "sess", "taken"}
  /\ waiter \in {"none", "waiting", "gone"}
  /\ done \in {"empty", "ok", "bad", "missing", "lost", "unread"}
  /\ killed \in BOOLEAN /\ timer \in BOOLEAN /\ cancelled \in BOOLEAN
  /\ link \in {"up", "silent", "down"}
  /\ cmd \in {"none", "running", "ok", "bad", "nostatus"}
  /\ missed \in 0..(Misses - 1)

\* Outcome r of module Contracts is what Exec has returned and done: ran tells
\* whether the peer started the command, and a connection that counts as lost or
\* closed is down.
Gives(r) ==
  /\ r.cat = ret.cat /\ r.exit = ret.exit /\ r.started = ret.started
  /\ r.ran <=> cmd # "none"
  /\ r.conn = "kept" \/ link = "down"

\* What Exec reports is what happened: an exit code is the command's, and a
\* timeout comes only after the timer.  Result, command and connection fit
\* together in one of the ways runHost reckons with; in particular started is
\* TRUE only if the command was started, and only Ctrl+C gives CANCELLED.
ReportsTheTruth ==
  pc = "returned" =>
    /\ ret.exit # "none" => cmd = ret.exit
    /\ ret.cat = "COMMAND_TIMEOUT" => timer
    /\ \E r \in ExecResults(TRUE, cancelled) : Gives(r)

\* On a connection whose peer answers no more, Exec returns one of the failures
\* runHost reckons with then, and nothing runs on the remote host.
UnusableRunsNothing ==
  pc = "returned" => \E r \in ExecResults(FALSE, cancelled) : Gives(r)

\* "buffers are quiescent once Wait returns": when Exec returns, neither of its
\* goroutines is left to write to the buffers or to hold the connection.
NoGoroutineLeft ==
  pc = "returned" => opener = "gone" /\ waiter # "waiting"

\* "A connection silently cut by a network restart then fails in seconds instead
\* of hanging": with KeepAlive every Exec returns, whatever phase the peer fell
\* silent in.
ExecReturns == <>(pc = "returned")

\* runner.go: "Every blocking call (Dial, Exec, sleeps) honours ctx, so Ctrl+C
\* unblocks them."
CancelUnblocks == cancelled ~> pc = "returned"

=============================================================================
