------------------------------ MODULE ExecProofs ------------------------------
(***************************************************************************)
(* Proofs about module Exec, with or without KeepAlive and for every       *)
(* number of tolerated misses: what Exec reports is what happened, and     *)
(* none of its goroutines outlives it.                                     *)
(***************************************************************************)
EXTENDS Exec, TLAPS

\* The channels: ready is filled by the opener's last step, done by the
\* waiter's, and each is taken once.
Channels ==
  /\ opener = "gone" <=> ready # "empty"
  /\ waiter = "gone" <=> done # "empty"
  /\ opener = "session" => cmd = "none"
  /\ ready = "sess" => cmd # "none"
  /\ waiter # "none" => cmd # "none"
  /\ done \in {"ok", "bad"} => cmd = done
  /\ ready = "err" /\ cmd # "none" => link = "down"

\* The caller: which goroutine it waits for, and why it gave up.
Progress ==
  /\ pc \in {"opening", "drain"} => ready # "taken" /\ waiter = "none"
  /\ pc \in {"running", "settle"} => ready = "taken" /\ waiter # "none"
  /\ pc = "returned" => ready = "taken" /\ waiter # "waiting"
  /\ fail = "COMMAND_TIMEOUT" => timer
  /\ fail = "CANCELLED" => cancelled
  /\ pc = "drain" => link = "down"
  /\ pc \in {"drain", "settle"} => fail # "nil"

\* What has been returned, and how it fits the command and the connection.
Reported ==
  pc = "returned" =>
    /\ ret.cat # "none" /\ (ret.started => cmd # "none")
    /\ ret.exit # "none" => cmd = ret.exit /\ ret.cat = "nil"
    /\ ret.cat = "nil" => ret.started
    /\ ret.cat = "COMMAND_TIMEOUT" => timer
    /\ ret.cat = "CANCELLED" => cancelled
    /\ ret.cat \in {"COMMAND_TIMEOUT", "CANCELLED"} /\ ~ret.started => link = "down"
    /\ ret.cat = "SESSION_FAILED" /\ cmd # "none" /\ ~ret.started => link = "down"

\* The inductive invariant.
IInv == TypeOK /\ Channels /\ Progress /\ Reported

LEMMA InitIInv == Init => IInv
<1> SUFFICES ASSUME Init PROVE IInv
  OBVIOUS
<1>1. TypeOK
  <2>1. ret \in [cat : {"none", "nil", "COMMAND_TIMEOUT", "CANCELLED", "SESSION_FAILED"},
                exit : {"none", "ok", "bad"}, started : BOOLEAN]
    BY Zenon DEF Init, NoResult
  <2>2. missed \in 0..(Misses - 1)
    BY ExecAssumption DEF ExecAssumption, Init
  <2> QED
    BY <2>1, <2>2, Zenon DEF Init, TypeOK
<1>2. Channels /\ Progress /\ Reported
  BY DEF Init, Channels, Progress, Reported
<1> QED
  BY <1>1, <1>2 DEF IInv

LEMMA CallerStep == ASSUME IInv, Caller PROVE IInv'
<1> USE ExecAssumption DEF ExecAssumption, IInv, TypeOK, Channels, Progress,
                           Reported, Return
<1>1. CASE Opened
  <2>1. CASE ready = "sess"
    BY <1>1, <2>1 DEF Opened
  <2>2. CASE ready = "err"
    <3>1. ret' = [cat |-> "SESSION_FAILED", exit |-> "none", started |-> FALSE]
      BY <1>1, <2>2 DEF Opened
    <3>2. ret' \in [cat : {"none", "nil", "COMMAND_TIMEOUT", "CANCELLED", "SESSION_FAILED"},
                    exit : {"none", "ok", "bad"}, started : BOOLEAN]
      BY <3>1, Zenon
    <3> QED
      BY <1>1, <2>2, <3>1, <3>2 DEF Opened
  <2> QED
    BY <1>1, <2>1, <2>2 DEF Opened
<1>2. CASE OpenFails
  BY <1>2 DEF OpenFails
<1>3. CASE Drain
  BY <1>3 DEF Drain
<1>4. CASE Ended
  BY <1>4 DEF Ended, ExitOf
<1>5. CASE RunFails
  BY <1>5 DEF RunFails
<1>6. CASE Settle
  BY <1>6 DEF Settle
<1> QED
  BY <1>1, <1>2, <1>3, <1>4, <1>5, <1>6 DEF Caller

LEMMA OpenerStep == ASSUME IInv, Opener PROVE IInv'
<1> USE ExecAssumption DEF ExecAssumption, IInv, TypeOK, Channels, Progress, Reported
<1>1. CASE NewSession
  BY <1>1 DEF NewSession
<1>2. CASE StartOnPeer
  BY <1>2 DEF StartOnPeer
<1>3. CASE Started
  BY <1>3 DEF Started
<1> QED
  BY <1>1, <1>2, <1>3 DEF Opener

LEMMA NextIInv == IInv /\ [Next]_vars => IInv'
<1> SUFFICES ASSUME IInv, [Next]_vars PROVE IInv'
  OBVIOUS
<1> USE ExecAssumption DEF ExecAssumption, IInv, TypeOK, Channels, Progress, Reported
<1>1. CASE Caller
  BY <1>1, CallerStep
<1>2. CASE Opener
  BY <1>2, OpenerStep
<1>3. CASE Wait
  BY <1>3 DEF Wait
<1>4. CASE ProbeAnswered
  BY <1>4 DEF ProbeAnswered
<1>5. CASE ProbeMissed
  BY <1>5 DEF ProbeMissed, GivesUp
<1>6. CASE CommandEnds
  BY <1>6 DEF CommandEnds
<1>7. CASE Fire \/ Cancel
  <2>1. CASE Fire
    BY <2>1 DEF Fire
  <2>2. CASE Cancel
    BY <2>2 DEF Cancel
  <2> QED
    BY <1>7, <2>1, <2>2
<1>8. CASE LinkFails \/ LinkBack
  BY <1>8 DEF LinkFails, LinkBack
<1>9. CASE UNCHANGED vars
  BY <1>9 DEF vars
<1> QED
  BY <1>1, <1>2, <1>3, <1>4, <1>5, <1>6, <1>7, <1>8, <1>9 DEF Next

-----------------------------------------------------------------------------

\* The invariant behind the theorems below holds of every Exec.
THEOREM Invariance == Spec => []IInv
BY InitIInv, NextIInv, PTL DEF Spec

\* The state of one Exec stays within its type; in particular the keepalive
\* goroutine closes the connection before it has missed more than Misses.
THEOREM TypeCorrect == Spec => []TypeOK
<1>1. IInv => TypeOK
  BY DEF IInv
<1> QED
  BY <1>1, Invariance, PTL

\* The outcomes of module Contracts, one by one.
Outcome(cat, exit, started, ran, conn) ==
  [cat |-> cat, exit |-> exit, started |-> started, ran |-> ran, conn |-> conn]

LEMMA OutcomeIn ==
  ASSUME NEW u, NEW f \in {"COMMAND_TIMEOUT", "CANCELLED"}, f = "CANCELLED" => cancelled
  PROVE  /\ Outcome("SESSION_FAILED", "none", FALSE, FALSE, "kept")
              \in ExecResults(u, cancelled)
         /\ Outcome(f, "none", FALSE, FALSE, "closed") \in ExecResults(u, cancelled)
         /\ u => /\ Outcome("SESSION_FAILED", "none", FALSE, TRUE, "lost")
                      \in ExecResults(u, cancelled)
                 /\ Outcome(f, "none", FALSE, TRUE, "closed") \in ExecResults(u, cancelled)
                 /\ \A e \in {"ok", "bad", "none"} :
                      Outcome("nil", e, TRUE, TRUE, "kept") \in ExecResults(u, cancelled)
                 /\ Outcome("SESSION_FAILED", "none", TRUE, TRUE, "kept")
                      \in ExecResults(u, cancelled)
                 /\ Outcome(f, "none", TRUE, TRUE, "kept") \in ExecResults(u, cancelled)
BY Zenon DEF Outcome, ExecResults

\* What one outcome says of the state of Exec.
LEMMA OutcomeGiven ==
  ASSUME NEW cat, NEW exit, NEW started, NEW ran, NEW conn,
         cat = ret.cat, exit = ret.exit, started = ret.started, ran <=> cmd # "none",
         conn = "kept" \/ link = "down"
  PROVE  Gives(Outcome(cat, exit, started, ran, conn))
BY Zenon DEF Outcome, Gives

\* Exec reports an exit code only if the command ended with it and a timeout only
\* if there was one; and in whatever order the timer, Ctrl+C, the peer and the
\* goroutines come, it leaves the command, the connection and its result in one
\* of the ways HostRun takes for one Exec on a usable connection.
THEOREM TruthReported == Spec => []ReportsTheTruth
<1>1. ASSUME IInv PROVE ReportsTheTruth
  <2> SUFFICES ASSUME pc = "returned"
               PROVE  /\ ret.exit # "none" => cmd = ret.exit
                      /\ ret.cat = "COMMAND_TIMEOUT" => timer
                      /\ \E r \in ExecResults(TRUE, cancelled) : Gives(r)
    BY DEF ReportsTheTruth
  <2>1. Reported
    BY <1>1 DEF IInv
  <2>2. /\ ret.cat \in {"nil", "SESSION_FAILED", "COMMAND_TIMEOUT", "CANCELLED"}
        /\ ret.exit \in {"none", "ok", "bad"} /\ ret.started \in BOOLEAN
    BY <1>1 DEF IInv, TypeOK, Reported
  <2>3. CASE ret.cat = "SESSION_FAILED" /\ ~ret.started /\ cmd = "none"
    BY <2>1, <2>2, <2>3, OutcomeIn, OutcomeGiven DEF Reported
  <2>4. CASE ret.cat = "SESSION_FAILED" /\ ~ret.started /\ cmd # "none"
    BY <2>1, <2>2, <2>4, OutcomeIn, OutcomeGiven DEF Reported
  <2>5. CASE ret.cat = "SESSION_FAILED" /\ ret.started
    BY <2>1, <2>2, <2>5, OutcomeIn, OutcomeGiven DEF Reported
  <2>6. CASE ret.cat \in {"COMMAND_TIMEOUT", "CANCELLED"} /\ ~ret.started /\ cmd = "none"
    BY <2>1, <2>2, <2>6, OutcomeIn, OutcomeGiven DEF Reported
  <2>7. CASE ret.cat \in {"COMMAND_TIMEOUT", "CANCELLED"} /\ ~ret.started /\ cmd # "none"
    BY <2>1, <2>2, <2>7, OutcomeIn, OutcomeGiven DEF Reported
  <2>8. CASE ret.cat \in {"COMMAND_TIMEOUT", "CANCELLED"} /\ ret.started
    BY <2>1, <2>2, <2>8, OutcomeIn, OutcomeGiven DEF Reported
  <2>9. CASE ret.cat = "nil"
    BY <2>1, <2>2, <2>9, OutcomeIn, OutcomeGiven DEF Reported
  <2> QED
    BY <2>1, <2>2, <2>3, <2>4, <2>5, <2>6, <2>7, <2>8, <2>9 DEF Reported
<1> QED
  BY <1>1, Invariance, PTL

\* As long as the peer does not answer, the session is never opened.
Unopened ==
  /\ cmd = "none" /\ opener # "start" /\ ready # "sess" /\ waiter = "none"
  /\ pc \notin {"running", "settle"}

LEMMA StaysUnopened ==
  ASSUME IInv, Unopened, link # "up", [Next]_vars PROVE Unopened'
BY DEF Unopened, IInv, Progress, Channels, Next, vars, Caller, Opener, Opened,
       OpenFails, Drain, Ended, RunFails, Settle, Return, NewSession, StartOnPeer,
       Started, Wait, ProbeAnswered, ProbeMissed, CommandEnds, Fire, Cancel,
       LinkFails, LinkBack

\* With a peer that never answers (a connection that is closed, was cut silently
\* or has broken) every Exec that returns gives one of the outcomes that HostRun
\* takes on a connection that is not usable: a failure, and no command was run.
THEOREM NothingRunsUnanswered == Spec /\ [](link # "up") => []UnusableRunsNothing
<1>1. Init => Unopened
  BY DEF Init, Unopened
<1>2. IInv /\ Unopened /\ link # "up" /\ [Next]_vars => Unopened'
  BY StaysUnopened
<1>3. ASSUME IInv, Unopened PROVE UnusableRunsNothing
  <2> SUFFICES ASSUME pc = "returned"
               PROVE  \E r \in ExecResults(FALSE, cancelled) : Gives(r)
    BY DEF UnusableRunsNothing
  <2>1. Reported /\ cmd = "none"
    BY <1>3 DEF IInv, Unopened
  <2>2. /\ ret.cat \in {"SESSION_FAILED", "COMMAND_TIMEOUT", "CANCELLED"}
        /\ ret.exit = "none" /\ ret.started = FALSE
    BY <1>3, <2>1 DEF IInv, TypeOK, Reported
  <2>3. CASE ret.cat = "SESSION_FAILED"
    BY <2>1, <2>2, <2>3, OutcomeIn, OutcomeGiven
  <2>4. CASE ret.cat # "SESSION_FAILED"
    BY <2>1, <2>2, <2>4, OutcomeIn, OutcomeGiven DEF Reported
  <2> QED
    BY <2>3, <2>4
<1> QED
  BY <1>1, <1>2, <1>3, Invariance, PTL DEF Spec

\* When Exec returns, on whichever path, the goroutine that opens the session and
\* the one that waits for the command are gone.
THEOREM GoroutinesGone == Spec => []NoGoroutineLeft
<1>1. IInv => NoGoroutineLeft
  BY DEF IInv, Channels, Progress, NoGoroutineLeft
<1> QED
  BY <1>1, Invariance, PTL

=============================================================================
