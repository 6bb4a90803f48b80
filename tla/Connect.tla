------------------------------- MODULE Connect -------------------------------
(***************************************************************************)
(* One host's connection (internal/runner/runner.go: connect, backoff,     *)
(* sleep; internal/sshx/dial.go: Dial, dialHop, dialTCP, handshake;        *)
(* internal/sshx/classify.go), opened up to the goroutines that take part  *)
(* in a handshake: the caller in ssh.NewClientConn, the callback of the    *)
(* handshake timer, and the one of context.AfterFunc.  A callback that has *)
(* been started before it is stopped still closes the connection, at any   *)
(* later time.                                                             *)
(*                                                                         *)
(* The dial comes from connect, which retries, or from waitForHost, whose  *)
(* context has a deadline; module HostRun has that loop.  The pool of      *)
(* bastion connections is module BastionPool; here it hands out a          *)
(* connection, or has this host dial it.                                   *)
(***************************************************************************)
EXTENDS Integers

CONSTANTS
  ConnectRetries,  \* Options.ConnectRetries
  Bases,           \* values of Options.RetryDelay
  MaxDelays,       \* values of Options.MaxRetryDelay
  Top              \* a time.Duration is in -Top..(Top - 1); 2^63 in Go

\* Nothing keeps --retry-delay or --max-retry-delay from being negative.
ASSUME ConnectAssumption ==
  /\ ConnectRetries \in Nat
  /\ Top \in Nat \ {0} /\ \E w \in 0..Top : Top = 2^w
  /\ Bases \subseteq -Top..(Top - 1)
  /\ MaxDelays \subseteq -Top..(Top - 1)

Hops == {"bastion", "target"}

VARIABLES
  caller,     \* "connect" or "waitForHost"
  via,        \* the target has a bastion
  base,       \* r.opts.RetryDelay
  maxDelay,   \* r.opts.MaxRetryDelay
  pc,         \* where the host's goroutine is
  attempt,    \* of connect
  hop,        \* the endpoint dialled now
  conn,       \* each hop's connection: "none", "open" or "closed"
  timer,      \* each hop's handshake timer: "off", "armed", "fired" (its callback
  watch,      \*   is about to run) or "ran"; likewise the AfterFunc on ctx
  timedOut,   \* of the handshake under way
  got,        \* what ssh.NewClientConn returned
  pause,      \* the delay before the next attempt
  result,     \* "nil", "ok" or the category of the failure returned
  cancelled,  \* the user interrupted the run
  expired,    \* the deadline of waitForHost's ctx passed
  ctxErr,     \* ctx.Err(), set by whichever of the two came first
  last        \* history: why the latest dial failed

options == <<caller, via, base, maxDelay>>
goroutines == <<timer, watch, timedOut>>
context == <<cancelled, expired, ctxErr>>
vars == <<options, pc, attempt, hop, conn, goroutines, got, pause, result, context, last>>

Init ==
  /\ caller \in {"connect", "waitForHost"} /\ via \in BOOLEAN
  /\ base \in Bases /\ maxDelay \in MaxDelays
  /\ pc = "dial" /\ attempt = 1 /\ hop = "target"
  /\ conn = [h \in Hops |-> "none"]
  /\ timer = [h \in Hops |-> "off"] /\ watch = [h \in Hops |-> "off"]
  /\ timedOut = FALSE /\ got = "nil" /\ pause = 0 /\ result = "nil"
  /\ cancelled = FALSE /\ expired = FALSE /\ ctxErr = "nil" /\ last = "nil"

Ended == ctxErr # "nil"

-----------------------------------------------------------------------------
(* Failures.                                                               *)

\* What a TCP connection or a tunnel can fail with because of ctx.
ContextErrors == {e \in {"canceled", "deadline"} : ctxErr = e}

DialErrors == {"dns", "dns timeout", "refused", "timeout", "unreachable"} \cup ContextErrors

\* ssh.OpenChannelError: the bastion answers and refuses the tunnel.
Rejections == {"connect failed", "prohibited"}

TunnelErrors == Rejections \cup {"timeout", "lost"} \cup ContextErrors

ClassifyDial(e) ==
  CASE e = "canceled" -> "CANCELLED"
    [] e = "dns" -> "DNS_FAILURE"
    [] e \in {"refused", "connect failed"} -> "CONNECTION_REFUSED"
    [] OTHER -> "CONNECTION_TIMEOUT"

\* What the peer makes ssh.NewClientConn fail with; "known_hosts" is a failure
\* of the verifier itself, already classified.
PeerErrors == {"known_hosts", "key mismatch", "key unknown", "auth", "eof"}

ClassifyTimeoutFirst(e) ==
  IF timedOut THEN "SSH_HANDSHAKE_FAILED"
  ELSE CASE e \in {"known_hosts", "key unknown"} -> "HOST_KEY_UNKNOWN"
         [] e = "key mismatch" -> "HOST_KEY_MISMATCH"
         [] e = "auth" -> "AUTH_FAILED"
         [] OTHER -> "SSH_HANDSHAKE_FAILED"

\* A refusal counts even if the timer has fired meanwhile (timedOut); everything
\* else is one category, with the timeout or the error in its message.
ClassifyHandshake(e) ==
  CASE e \in {"known_hosts", "key unknown"} -> "HOST_KEY_UNKNOWN"
    [] e = "key mismatch" -> "HOST_KEY_MISMATCH"
    [] e = "auth" -> "AUTH_FAILED"
    [] OTHER -> "SSH_HANDSHAKE_FAILED"

\* handshake: an ended ctx outranks the error of NewClientConn.
HandshakeFailure(e) ==
  CASE ctxErr = "canceled" -> "CANCELLED"
    [] ctxErr = "deadline" -> "SSH_HANDSHAKE_FAILED"
    [] OTHER -> ClassifyHandshake(e)

Retryable(cat) ==
  cat \in {"CONNECTION_TIMEOUT", "CONNECTION_REFUSED", "SSH_HANDSHAKE_FAILED"}

-----------------------------------------------------------------------------
(* backoff                                                                 *)

\* base << n in two's complement: 0 once every bit is shifted out.
Shift(b, n) == ((b * 2^n + Top) % (2 * Top)) - Top

DelayCappedOnly(n) ==
  LET d == Shift(base, n - 1)
  IN IF d > maxDelay THEN maxDelay ELSE d

\* The delay before jitter.
Delay(n) ==
  LET d == Shift(base, n - 1)
  IN IF d > maxDelay \/ d <= 0 THEN maxDelay ELSE d

\* d/2, which rounds towards zero.
Half(d) == IF d >= 0 THEN d \div 2 ELSE -((-d) \div 2)

\* d/2 + rand.N(d/2+1): rand.N panics if there is nothing to choose from.
Backoff(n) ==
  LET d == Delay(n)
  IN IF Half(d) + 1 <= 0 THEN pc' = "panic" /\ UNCHANGED pause
     ELSE pc' = "pause" /\ \E j \in 0..Half(d) : pause' = Half(d) + j

-----------------------------------------------------------------------------
(* connect                                                                 *)

Return(r) == result' = r /\ pc' = "returned" /\ UNCHANGED pause

\* A dial failed with err: connect retries what may be transient.
Failed(cat, e) ==
  /\ last' = e
  /\ IF caller = "connect" /\ Retryable(cat) /\ attempt <= ConnectRetries /\ ~Ended
     THEN Backoff(attempt) /\ UNCHANGED result
     ELSE Return(cat)

\* sleep: with a delay, Ctrl+C and the timer may both be ready.
Sleep ==
  /\ pc = "pause"
  /\ \/ cancelled /\ Return("CANCELLED") /\ UNCHANGED <<attempt, last>>
     \/ /\ cancelled => pause > 0
        /\ attempt' = attempt + 1 /\ pc' = "dial" /\ last' = "nil"
        /\ pause' = 0 /\ UNCHANGED result
  /\ UNCHANGED <<options, hop, conn, goroutines, got, context>>

-----------------------------------------------------------------------------
(* Dial                                                                    *)

DialTarget ==
  /\ pc = "dial" /\ ~via
  /\ hop' = "target" /\ pc' = "tcp"
  /\ UNCHANGED <<options, attempt, conn, goroutines, got, pause, result, context,
                 last>>

\* A new connection; callbacks that are still to run belong to the one before.
Opened(h) ==
  /\ conn' = [conn EXCEPT ![h] = "open"]
  /\ timer' = [timer EXCEPT ![h] = "off"] /\ watch' = [watch EXCEPT ![h] = "off"]

\* BastionPool.get: a connection that is there already, or that another host
\* has just dialled; a dial of one's own; another host's failure; or ctx ended
\* while waiting, an error without a category.
GetBastion ==
  /\ pc = "dial" /\ via
  /\ \/ /\ conn["bastion"] = "open" /\ pc' = "tunnel"
        /\ UNCHANGED <<hop, conn, goroutines, pause, result, last>>
     \/ /\ conn["bastion"] # "open" /\ pc' = "tunnel"
        /\ Opened("bastion")
        /\ UNCHANGED <<hop, timedOut, pause, result, last>>
     \/ /\ hop' = "bastion" /\ pc' = "tcp"
        /\ UNCHANGED <<conn, goroutines, pause, result, last>>
     \/ /\ \E e \in DialErrors : Failed(ClassifyDial(e), e)
        /\ UNCHANGED <<hop, conn, goroutines>>
     \/ /\ \E e \in PeerErrors : Failed(ClassifyHandshake(e), e)
        /\ UNCHANGED <<hop, conn, goroutines>>
     \/ /\ Ended /\ Failed("INTERNAL_ERROR", "waiting")
        /\ UNCHANGED <<hop, conn, goroutines>>
  /\ UNCHANGED <<options, attempt, got, context>>

\* net.Dialer.DialContext, which ends within ConnectTimeout.
DialTCP ==
  /\ pc = "tcp"
  /\ \/ /\ Opened(hop) /\ pc' = "callback"
        /\ UNCHANGED <<pause, result, last>>
     \/ /\ \E e \in DialErrors : Failed(ClassifyDial(e), e)
        /\ UNCHANGED <<conn, timer, watch>>
  /\ UNCHANGED <<options, attempt, hop, timedOut, got, context>>

\* bc.DialContext; broken closes a bastion connection that did not answer.
Tunnel ==
  /\ pc = "tunnel"
  /\ \/ /\ conn["bastion"] = "open"
        /\ Opened("target")
        /\ hop' = "target" /\ pc' = "callback"
        /\ UNCHANGED <<pause, result, last>>
     \/ /\ \E e \in TunnelErrors :
             /\ e \in Rejections => conn["bastion"] = "open"
             /\ Failed(ClassifyDial(e), e)
             /\ conn' = IF e \in Rejections THEN conn
                        ELSE [conn EXCEPT !["bastion"] = "closed"]
        /\ UNCHANGED <<hop, timer, watch>>
  /\ UNCHANGED <<options, attempt, timedOut, got, context>>

-----------------------------------------------------------------------------
(* handshake                                                               *)

Close == conn' = [conn EXCEPT ![hop] = "closed"]

NoCallbackNoClose ==
  /\ pc = "callback"
  /\ Failed("HOST_KEY_UNKNOWN", "known_hosts")
  /\ UNCHANGED <<options, attempt, hop, conn, goroutines, got, context>>

\* HostKeys.Callback failed: known_hosts cannot be read.
NoCallback ==
  /\ pc = "callback"
  /\ Close
  /\ Failed("HOST_KEY_UNKNOWN", "known_hosts")
  /\ UNCHANGED <<options, attempt, hop, goroutines, got, context>>

ArmWatchOnly ==
  /\ timer' = [timer EXCEPT ![hop] = "off"]
  /\ watch' = [watch EXCEPT ![hop] = "armed"]

\* time.AfterFunc and context.AfterFunc.
Arm ==
  /\ timer' = [timer EXCEPT ![hop] = "armed"]
  /\ watch' = [watch EXCEPT ![hop] = "armed"]

Begin ==
  /\ pc = "callback"
  /\ Arm
  /\ timedOut' = FALSE /\ got' = "nil" /\ pc' = "handshake"
  /\ UNCHANGED <<options, attempt, hop, conn, pause, result, context, last>>

\* ssh.NewClientConn comes to an end with the peer, which may take for ever ...
PeerAnswers ==
  /\ pc = "handshake" /\ conn[hop] = "open"
  /\ got' \in {"ok"} \cup PeerErrors
  /\ pc' = "judge"
  /\ UNCHANGED <<options, attempt, hop, conn, goroutines, pause, result, context,
                 last>>

\* ... or because the connection was closed under it.
CutOff ==
  /\ pc = "handshake" /\ conn[hop] = "closed"
  /\ got' = "closed"
  /\ pc' = "judge"
  /\ UNCHANGED <<options, attempt, hop, conn, goroutines, pause, result, context,
                 last>>

\* The timer fires and ctx's callbacks are started ...
Fire ==
  /\ \E h \in Hops :
       \/ /\ timer[h] = "armed"
          /\ timer' = [timer EXCEPT ![h] = "fired"] /\ UNCHANGED watch
       \/ /\ watch[h] = "armed" /\ Ended
          /\ watch' = [watch EXCEPT ![h] = "fired"] /\ UNCHANGED timer
  /\ UNCHANGED <<options, pc, attempt, hop, conn, timedOut, got, pause, result,
                 context, last>>

\* ... and they run.
RunCallback ==
  /\ \E h \in Hops :
       /\ \/ /\ timer[h] = "fired"
             /\ timer' = [timer EXCEPT ![h] = "ran"]
             /\ timedOut' = (timedOut \/ (h = hop)) /\ UNCHANGED watch
          \/ /\ watch[h] = "fired"
             /\ watch' = [watch EXCEPT ![h] = "ran"] /\ UNCHANGED <<timer, timedOut>>
       /\ conn' = [conn EXCEPT ![h] = "closed"]
  /\ UNCHANGED <<options, pc, attempt, hop, got, pause, result, context, last>>

\* timer.Stop() and stop(): nothing is left of a callback not started yet.
Stop ==
  LET Stopped(f) == [f EXCEPT ![hop] = IF @ = "armed" THEN "off" ELSE @]
  IN timer' = Stopped(timer) /\ watch' = Stopped(watch)

Established ==
  /\ pc = "judge" /\ got = "ok"
  /\ Stop
  /\ IF hop = "bastion" THEN pc' = "tunnel" /\ UNCHANGED <<pause, result>>
                        ELSE Return("ok")
  /\ UNCHANGED <<options, attempt, hop, conn, timedOut, got, context, last>>

\* A connection that failed is closed and gone; callbacks that have been started
\* find it closed.
Refused ==
  /\ pc = "judge" /\ got # "ok"
  /\ timer' = [timer EXCEPT ![hop] = "off"] /\ watch' = [watch EXCEPT ![hop] = "off"]
  /\ Close
  /\ Failed(HandshakeFailure(got), got)
  /\ UNCHANGED <<options, attempt, hop, timedOut, got, context>>

-----------------------------------------------------------------------------

\* Ctrl+C; a ctx that has ended keeps its error.
Cancel ==
  /\ ~cancelled /\ pc \notin {"returned", "panic"}
  /\ cancelled' = TRUE
  /\ ctxErr' = IF Ended THEN ctxErr ELSE "canceled"
  /\ UNCHANGED <<options, pc, attempt, hop, conn, goroutines, got, pause, result,
                 expired, last>>

\* The deadline of waitForHost's context.
Expire ==
  /\ ~expired /\ caller = "waitForHost" /\ pc # "returned"
  /\ expired' = TRUE
  /\ ctxErr' = IF Ended THEN ctxErr ELSE "deadline"
  /\ UNCHANGED <<options, pc, attempt, hop, conn, goroutines, got, pause, result,
                 cancelled, last>>

\* A panic of one goroutine is the end of the program.
Returned == pc \in {"returned", "panic"} /\ UNCHANGED vars

Goroutine ==
  \/ DialTarget \/ GetBastion \/ DialTCP \/ Tunnel \/ NoCallback \/ Begin \/ CutOff
  \/ Established \/ Refused \/ Sleep

Next ==
  \/ Goroutine \/ PeerAnswers \/ Fire \/ RunCallback \/ Cancel \/ Expire \/ Returned

Spec == Init /\ [][Next]_vars

\* The goroutine is scheduled and its bounded calls return; timers fire and
\* callbacks run.  Nothing is assumed of the peer.
Fairness == WF_vars(Goroutine) /\ WF_vars(Fire) /\ WF_vars(RunCallback)

FairSpec == Spec /\ Fairness

-----------------------------------------------------------------------------
(* Properties.                                                             *)

Categories ==
  {"CONNECTION_TIMEOUT", "CONNECTION_REFUSED", "DNS_FAILURE", "AUTH_FAILED",
   "HOST_KEY_MISMATCH", "HOST_KEY_UNKNOWN", "SSH_HANDSHAKE_FAILED", "CANCELLED",
   "INTERNAL_ERROR"}

Causes == DialErrors \cup TunnelErrors \cup PeerErrors
          \cup {"canceled", "deadline", "waiting", "closed"}

\* The type invariant; the pause before a retry is never negative and never
\* above --max-retry-delay, for any number of attempts: the doubled delay wraps
\* around once it has outgrown its width.  rand.N panics only on a negative
\* --max-retry-delay (of -2 ns or less), which nothing refuses.
TypeOK ==
  /\ caller \in {"connect", "waitForHost"} /\ via \in BOOLEAN
  /\ base \in Bases /\ maxDelay \in MaxDelays
  /\ pc \in {"dial", "tcp", "tunnel", "callback", "handshake", "judge", "pause",
             "returned", "panic"}
  /\ pc = "panic" => maxDelay < -1
  /\ attempt \in 1..(ConnectRetries + 1) /\ hop \in Hops
  /\ conn \in [Hops -> {"none", "open", "closed"}]
  /\ timer \in [Hops -> {"off", "armed", "fired", "ran"}]
  /\ watch \in [Hops -> {"off", "armed", "fired", "ran"}]
  /\ timedOut \in BOOLEAN /\ got \in {"nil", "ok", "closed"} \cup PeerErrors
  /\ result \in {"nil", "ok"} \cup Categories
  /\ cancelled \in BOOLEAN /\ expired \in BOOLEAN
  /\ ctxErr \in {"nil", "canceled", "deadline"}
  /\ last \in {"nil"} \cup Causes
  /\ pause = 0 \/ pause \in 0..maxDelay

\* domain.go: "Auth, host key and DNS failures are deterministic and never
\* retried"; everything else is retried as long as attempts are left, whichever
\* of the peer, the timer and Ctrl+C comes first.  Only Ctrl+C is reported as
\* CANCELLED, and a host is blamed (AUTH_FAILED, HOST_KEY_MISMATCH) only for what
\* it did.
Deterministic == {"dns", "auth", "key mismatch", "key unknown", "known_hosts"}

OnlyTransientRetried ==
  /\ last \in Deterministic => pc = "returned"
  /\ pc = "returned" /\ caller = "connect" /\ last \notin Deterministic /\ ~cancelled =>
       result = "ok" \/ attempt = ConnectRetries + 1
  /\ result = "CANCELLED" => cancelled
  /\ result = "AUTH_FAILED" => last = "auth"
  /\ result = "HOST_KEY_MISMATCH" => last = "key mismatch"

\* A dial that failed leaves no connection to the host open, and no timer or
\* callback outlives its handshake unless it had been started before: an armed
\* timer would later close a connection in use.
NothingLeftBehind ==
  /\ pc \in {"pause", "panic", "returned"} /\ result # "ok" => conn["target"] # "open"
  /\ \A h \in Hops : "armed" \in {timer[h], watch[h]} =>
       pc \in {"handshake", "judge"} /\ hop = h

\* dial.go: "The timeout is enforced by closing the connection": connecting comes
\* to an end although the peer may accept the connection and say nothing.  (The
\* end may be the panic of TypeOK.)
ConnectEnds == <>(pc \in {"returned", "panic"})

-----------------------------------------------------------------------------
(* connect and Dial implement the dialling that HostRun takes for granted. *)

\* Where the outside sees the dial; the pause that panics never ends.
DialPhase ==
  CASE pc = "returned" -> "over"
    [] pc \in {"pause", "panic"} -> "pause"
    [] OTHER -> "dial"

\* The category of module Contracts that stands for cat.
Class(cat) ==
  CASE Retryable(cat) -> "CONNECTION_TIMEOUT"
    [] cat \in {"AUTH_FAILED", "HOST_KEY_MISMATCH", "HOST_KEY_UNKNOWN"} -> "AUTH_FAILED"
    [] OTHER -> cat

D == INSTANCE Dialing WITH ConnectRetries <- ConnectRetries, caller <- caller,
                           phase <- DialPhase, attempt <- attempt,
                           result <- Class(result), cancelled <- cancelled,
                           expired <- expired

\* Whichever of the peer, the bastion, the timers, the callbacks and Ctrl+C comes
\* first: a dial fails only with what the runner reckons with at that moment, and
\* is tried again exactly when it should be.
ImplementsDialing == D!Spec

=============================================================================
