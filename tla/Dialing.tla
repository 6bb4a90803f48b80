------------------------------- MODULE Dialing -------------------------------
(***************************************************************************)
(* What connecting to a host promises to the one who asks for it, whatever *)
(* timers, callbacks and bastions do meanwhile: every dial ends with a     *)
(* connection or with one of the failures of module Contracts; connect     *)
(* repeats it after a pause, as long as the failure may be transient,      *)
(* attempts are left and the user has not interrupted the run; waitForHost *)
(* dials once, with a deadline, and has its own loop.  Connect implements  *)
(* this specification, and HostRun takes no other dial for granted.        *)
(***************************************************************************)
EXTENDS Integers, Contracts

CONSTANT ConnectRetries  \* Options.ConnectRetries

VARIABLES
  caller,     \* "connect" or "waitForHost"
  phase,      \* "dial", "pause" or "over"
  attempt,    \* of connect
  result,     \* "nil" until it is over, then "ok" or the failure
  cancelled,  \* the user interrupted the run
  expired     \* the deadline of waitForHost has passed

vars == <<caller, phase, attempt, result, cancelled, expired>>

Init ==
  /\ caller \in {"connect", "waitForHost"}
  /\ phase = "dial" /\ attempt = 1 /\ result = "nil"
  /\ cancelled = FALSE /\ expired = FALSE

Over(r) == phase' = "over" /\ result' = r

\* The failure may be repaired by trying again.
TriesAgain(cat) ==
  caller = "connect" /\ Retryable(cat) /\ attempt <= ConnectRetries /\ ~cancelled

Dial ==
  /\ phase = "dial"
  /\ \/ Over("ok")
     \/ \E cat \in DialFailures(cancelled, expired) :
          IF TriesAgain(cat) THEN phase' = "pause" /\ UNCHANGED result ELSE Over(cat)
  /\ UNCHANGED <<caller, attempt, cancelled, expired>>

Pause ==
  /\ phase = "pause"
  /\ \/ cancelled /\ Over("CANCELLED") /\ UNCHANGED attempt
     \/ phase' = "dial" /\ attempt' = attempt + 1 /\ UNCHANGED result
  /\ UNCHANGED <<caller, cancelled, expired>>

Cancel ==
  /\ cancelled' = TRUE
  /\ UNCHANGED <<caller, phase, attempt, result, expired>>

Expire ==
  /\ caller = "waitForHost"
  /\ expired' = TRUE
  /\ UNCHANGED <<caller, phase, attempt, result, cancelled>>

Next == Dial \/ Pause \/ Cancel \/ Expire

Spec == Init /\ [][Next]_vars

=============================================================================
