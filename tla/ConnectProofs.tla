----------------------------- MODULE ConnectProofs -----------------------------
(***************************************************************************)
(* Proofs about module Connect, for any number of retries, any delays and  *)
(* any width of a duration: only transient failures are retried, no        *)
(* connection or timer outlives the dial that made it, and the whole is an *)
(* implementation of module Dialing.                                       *)
(***************************************************************************)
EXTENDS Connect, TLAPS

\* What holds while a dial is under way.
Phase ==
  /\ pc \notin {"pause", "panic", "returned"} => last = "nil"
  /\ pc # "returned" => result = "nil"
  /\ pc = "pause" => attempt <= ConnectRetries
  /\ pc = "judge" => got # "nil"
  /\ expired => caller = "waitForHost"
  /\ Ended <=> cancelled \/ expired
  /\ ctxErr = "canceled" => cancelled
  /\ pc \in {"dial", "tcp", "tunnel", "pause", "panic"} => conn["target"] # "open"
  /\ pc # "returned" /\ hop = "bastion" => conn["target"] # "open"

\* The inductive invariant.
IInv == TypeOK /\ Phase /\ OnlyTransientRetried /\ NothingLeftBehind

-----------------------------------------------------------------------------
(* backoff                                                                 *)

\* The doubled delay is some number, however far it was shifted.
LEMMA ShiftInt == ASSUME NEW b \in Int, NEW n \in Int PROVE Shift(b, n) \in Int
<1> DEFINE m == 2 * Top
           x == b * 2^n + Top
<1>1. m \in Nat \ {0} /\ x \in Int /\ Top \in Int
  BY ConnectAssumption DEF ConnectAssumption
<1> HIDE DEF m, x
<1>2. x % m \in 0..(m - 1)
  BY <1>1
<1>3. (x % m) - Top \in Int
  BY <1>1, <1>2
<1> QED
  BY <1>3 DEF Shift, m, x

LEMMA DelayBounds ==
  ASSUME base \in Bases, maxDelay \in MaxDelays, NEW n \in Int
  PROVE  /\ maxDelay \in Int
         /\ maxDelay >= 0 => Delay(n) \in 0..maxDelay
         /\ maxDelay < 0 => Delay(n) = maxDelay
<1>1. base \in Int /\ maxDelay \in Int
  BY ConnectAssumption DEF ConnectAssumption
<1>2. Shift(base, n - 1) \in Int
  BY <1>1, ShiftInt
<1> QED
  BY <1>1, <1>2 DEF Delay

\* Unless --max-retry-delay is below -1, rand.N has something to choose from, and
\* the pause with its jitter is no longer than the longest delay.
LEMMA BackoffPauses ==
  ASSUME base \in Bases, maxDelay \in MaxDelays, NEW n \in Int, Backoff(n)
  PROVE  \/ pc' = "pause" /\ (pause' = 0 \/ pause' \in 0..maxDelay)
         \/ pc' = "panic" /\ pause' = pause /\ maxDelay < -1
<1> DEFINE d == Delay(n)
<1>1. /\ maxDelay \in Int
      /\ maxDelay >= 0 => d \in 0..maxDelay
      /\ maxDelay < 0 => d = maxDelay
  BY DelayBounds
<1>2. \/ Half(d) + 1 <= 0 /\ pc' = "panic" /\ pause' = pause
      \/ /\ ~(Half(d) + 1 <= 0) /\ pc' = "pause"
         /\ \E j \in 0..Half(d) : pause' = Half(d) + j
  BY DEF Backoff
<1> HIDE DEF d
<1>3. CASE maxDelay >= 0
  <2>1. Half(d) \in Nat /\ 2 * Half(d) <= d /\ d <= maxDelay
    BY <1>1, <1>3 DEF Half
  <2> QED
    BY <1>1, <1>2, <2>1
<1>4. CASE maxDelay < 0
  <2> DEFINE h == (-d) \div 2
  <2>1. h \in Nat /\ (h >= 1 => -d >= 2) /\ Half(d) = 0 - h
    BY <1>1, <1>4 DEF Half
  <2> HIDE DEF h
  <2>2. CASE h = 0
    <3>1. Half(d) = 0
      BY <2>1, <2>2
    <3> QED
      BY <1>2, <3>1
  <2>3. CASE h >= 1
    <3>1. maxDelay < -1 /\ Half(d) + 1 <= 0
      BY <1>1, <1>4, <2>1, <2>3
    <3> QED
      BY <1>2, <3>1
  <2> QED
    BY <2>1, <2>2, <2>3
<1> QED
  BY <1>1, <1>3, <1>4

-----------------------------------------------------------------------------
(* Classification.                                                         *)

AllCauses ==
  {"dns", "dns timeout", "refused", "timeout", "unreachable", "connect failed",
   "prohibited", "lost", "known_hosts", "key mismatch", "key unknown", "auth", "eof", "canceled", "deadline",
   "waiting", "closed"}

LEMMA CausesFixed == Causes = AllCauses /\ Causes' = AllCauses
BY DEF Causes, AllCauses, DialErrors, TunnelErrors, Rejections, PeerErrors, ContextErrors

\* A category that says of the cause what it should.
Fits(cat, e) ==
  /\ e \in Deterministic => ~Retryable(cat) \/ Ended
  /\ e \notin Deterministic /\ ~Retryable(cat) => Ended
  /\ cat = "CANCELLED" => cancelled
  /\ cat = "AUTH_FAILED" => e = "auth"
  /\ cat = "HOST_KEY_MISMATCH" => e = "key mismatch"

LEMMA DialFits ==
  ASSUME Phase, NEW e \in DialErrors \cup TunnelErrors
  PROVE  e \in AllCauses /\ ClassifyDial(e) \in Categories /\ Fits(ClassifyDial(e), e)
<1>1. e \in {"dns", "dns timeout", "refused", "timeout", "unreachable", "connect failed",
             "prohibited", "lost", "canceled", "deadline"}
      /\ (e = "canceled" => cancelled /\ Ended)
  BY DEF Phase, DialErrors, TunnelErrors, Rejections, ContextErrors
<1> QED
  BY <1>1 DEF AllCauses, Categories, ClassifyDial, Fits, Deterministic, Retryable, Ended

LEMMA HandshakeFits ==
  ASSUME Phase, NEW e \in PeerErrors \cup {"closed"}
  PROVE  /\ e \in AllCauses
         /\ ClassifyHandshake(e) \in Categories /\ Fits(ClassifyHandshake(e), e)
         /\ HandshakeFailure(e) \in Categories /\ Fits(HandshakeFailure(e), e)
<1>1. ClassifyHandshake(e) =
        IF e \in {"known_hosts", "key unknown"} THEN "HOST_KEY_UNKNOWN"
        ELSE IF e = "key mismatch" THEN "HOST_KEY_MISMATCH"
        ELSE IF e = "auth" THEN "AUTH_FAILED" ELSE "SSH_HANDSHAKE_FAILED"
  BY DEF ClassifyHandshake, PeerErrors
<1>2. ClassifyHandshake(e) \in Categories /\ Fits(ClassifyHandshake(e), e)
  BY <1>1 DEF PeerErrors, Categories, Fits, Deterministic, Retryable
<1>3. HandshakeFailure(e) \in Categories /\ Fits(HandshakeFailure(e), e)
  BY <1>2 DEF Phase, HandshakeFailure, Categories, Fits, Deterministic, Retryable, Ended
<1>4. e \in AllCauses
  BY DEF PeerErrors, AllCauses
<1> QED
  BY <1>2, <1>3, <1>4

\* What becomes of a dial that failed, if it left nothing of its own behind.
LEMMA FailedStep ==
  ASSUME IInv, NEW cat \in Categories, NEW e \in AllCauses,
         Failed(cat, e), Fits(cat, e), pc \notin {"pause", "panic", "returned"},
         UNCHANGED <<options, attempt, context, got, timedOut>>,
         hop' \in Hops, conn' \in [Hops -> {"none", "open", "closed"}],
         timer' \in [Hops -> {"off", "armed", "fired", "ran"}],
         watch' \in [Hops -> {"off", "armed", "fired", "ran"}],
         conn'["target"] # "open",
         \A h \in Hops : timer'[h] # "armed" /\ watch'[h] # "armed"
  PROVE  IInv'
<1>1. /\ last' = e
      /\ \/ /\ pc' = "pause" \/ (pc' = "panic" /\ maxDelay < -1)
            /\ pause' = pause \/ pause' = 0 \/ pause' \in 0..maxDelay
            /\ result' = "nil"
            /\ Retryable(cat) /\ attempt <= ConnectRetries /\ ~Ended
         \/ /\ pc' = "returned" /\ result' = cat /\ pause' = pause
            /\ \/ caller # "connect" \/ ~Retryable(cat)
               \/ attempt > ConnectRetries \/ Ended
  <2>1. result = "nil" /\ attempt \in Int /\ base \in Bases /\ maxDelay \in MaxDelays
    BY DEF IInv, TypeOK, Phase
  <2>2. CASE caller = "connect" /\ Retryable(cat) /\ attempt <= ConnectRetries /\ ~Ended
    BY <2>1, <2>2, BackoffPauses DEF Failed
  <2>3. CASE ~(caller = "connect" /\ Retryable(cat) /\ attempt <= ConnectRetries /\ ~Ended)
    BY <2>1, <2>3, ConnectAssumption DEF ConnectAssumption, Failed, Return
  <2> QED
    BY <2>2, <2>3
<1>2. TypeOK'
  BY <1>1, CausesFixed DEF IInv, TypeOK, options, context
<1>3. Phase'
  BY <1>1 DEF IInv, TypeOK, Phase, Ended, options, context
<1>4. OnlyTransientRetried'
  <2>1. caller = "connect" /\ ~cancelled => ~Ended
    BY DEF IInv, TypeOK, Phase, Ended
  <2>2. cat # "ok" /\ cat # "nil"
    BY DEF Categories
  <2>3. caller' = caller /\ cancelled' = cancelled /\ attempt' = attempt
    BY DEF options, context
  <2>4. attempt > ConnectRetries => attempt = ConnectRetries + 1
    BY ConnectAssumption DEF ConnectAssumption, IInv, TypeOK
  <2>5. CASE pc' \in {"pause", "panic"}
    BY <1>1, <2>5 DEF OnlyTransientRetried, Fits
  <2>6. CASE pc' = "returned"
    <3>1. last' = e /\ result' = cat
      BY <1>1, <2>6
    <3>2. ASSUME caller = "connect", e \notin Deterministic, ~cancelled
          PROVE  attempt = ConnectRetries + 1
      BY <1>1, <2>1, <2>4, <2>6, <3>2 DEF Fits
    <3>3. (caller = "connect" /\ e \notin Deterministic /\ ~cancelled)' =>
            attempt' = ConnectRetries + 1
      BY <2>3, <3>2
    <3>4. /\ result' = "CANCELLED" => cancelled
          /\ result' = "AUTH_FAILED" => last' = "auth"
          /\ result' = "HOST_KEY_MISMATCH" => last' = "key mismatch"
      BY <3>1 DEF Fits
    <3>5. cancelled => cancelled'
      BY <2>3
    <3> QED
      BY <2>6, <3>1, <3>3, <3>4, <3>5 DEF OnlyTransientRetried
  <2> QED
    BY <1>1, <2>5, <2>6
<1>5. NothingLeftBehind'
  BY DEF NothingLeftBehind
<1> QED
  BY <1>2, <1>3, <1>4, <1>5 DEF IInv

-----------------------------------------------------------------------------
(* The actions.                                                            *)

LEMMA SleepStep == ASSUME IInv, Sleep PROVE IInv'
<1> USE DEF IInv, options, goroutines, context, Ended, Sleep, Return, Categories
<1>1. TypeOK'
  <2>1. attempt' \in 1..(ConnectRetries + 1)
        /\ (pause' = 0 \/ pause' \in 0..maxDelay)
    BY ConnectAssumption DEF ConnectAssumption, TypeOK, Phase
  <2> QED
    BY <2>1, CausesFixed DEF TypeOK
<1>2. Phase'
  BY DEF TypeOK, Phase
<1>3. OnlyTransientRetried'
  BY DEF TypeOK, Phase, OnlyTransientRetried, Deterministic
<1>4. NothingLeftBehind'
  BY DEF TypeOK, Phase, NothingLeftBehind, Hops
<1> QED
  BY <1>1, <1>2, <1>3, <1>4

LEMMA DialTargetStep == ASSUME IInv, DialTarget PROVE IInv'
<1> USE DEF IInv, options, goroutines, context, Ended, DialTarget, Hops
<1>1. TypeOK'
  BY CausesFixed DEF TypeOK, Phase
<1>2. Phase'
  BY DEF TypeOK, Phase
<1>3. OnlyTransientRetried'
  BY DEF TypeOK, Phase, OnlyTransientRetried, Deterministic
<1>4. NothingLeftBehind'
  BY DEF TypeOK, Phase, NothingLeftBehind, Hops
<1> QED
  BY <1>1, <1>2, <1>3, <1>4

LEMMA BeginStep == ASSUME IInv, Begin PROVE IInv'
<1> USE DEF IInv, options, goroutines, context, Ended, Begin, Arm, Hops
<1>1. TypeOK'
  BY CausesFixed DEF TypeOK, Phase
<1>2. Phase'
  BY DEF TypeOK, Phase
<1>3. OnlyTransientRetried'
  BY DEF TypeOK, Phase, OnlyTransientRetried, Deterministic
<1>4. NothingLeftBehind'
  BY DEF TypeOK, Phase, NothingLeftBehind, Hops
<1> QED
  BY <1>1, <1>2, <1>3, <1>4

LEMMA PeerAnswersStep == ASSUME IInv, PeerAnswers PROVE IInv'
<1> USE DEF IInv, options, goroutines, context, Ended, PeerAnswers, PeerErrors
<1>1. TypeOK'
  BY CausesFixed DEF TypeOK, Phase
<1>2. Phase'
  BY DEF TypeOK, Phase
<1>3. OnlyTransientRetried'
  BY DEF TypeOK, Phase, OnlyTransientRetried, Deterministic
<1>4. NothingLeftBehind'
  BY DEF TypeOK, Phase, NothingLeftBehind, Hops
<1> QED
  BY <1>1, <1>2, <1>3, <1>4

LEMMA CutOffStep == ASSUME IInv, CutOff PROVE IInv'
<1> USE DEF IInv, options, goroutines, context, Ended, CutOff
<1>1. TypeOK'
  BY CausesFixed DEF TypeOK, Phase
<1>2. Phase'
  BY DEF TypeOK, Phase
<1>3. OnlyTransientRetried'
  BY DEF TypeOK, Phase, OnlyTransientRetried, Deterministic
<1>4. NothingLeftBehind'
  BY DEF TypeOK, Phase, NothingLeftBehind, Hops
<1> QED
  BY <1>1, <1>2, <1>3, <1>4

LEMMA FireStep == ASSUME IInv, Fire PROVE IInv'
<1> USE DEF IInv, options, goroutines, context, Ended, Fire
<1>1. TypeOK'
  BY CausesFixed DEF TypeOK, Phase
<1>2. Phase'
  BY DEF TypeOK, Phase
<1>3. OnlyTransientRetried'
  BY DEF TypeOK, Phase, OnlyTransientRetried, Deterministic
<1>4. NothingLeftBehind'
  BY DEF TypeOK, Phase, NothingLeftBehind, Hops
<1> QED
  BY <1>1, <1>2, <1>3, <1>4

LEMMA RunCallbackStep == ASSUME IInv, RunCallback PROVE IInv'
<1> USE DEF IInv, options, goroutines, context, Ended, RunCallback
<1>1. TypeOK'
  <2>1. timedOut' \in BOOLEAN
    BY Zenon DEF TypeOK
  <2> QED
    BY <2>1, CausesFixed DEF TypeOK
<1>2. Phase'
  BY DEF TypeOK, Phase
<1>3. OnlyTransientRetried'
  BY DEF TypeOK, Phase, OnlyTransientRetried, Deterministic
<1>4. NothingLeftBehind'
  BY DEF TypeOK, Phase, NothingLeftBehind, Hops
<1> QED
  BY <1>1, <1>2, <1>3, <1>4

LEMMA EstablishedStep == ASSUME IInv, Established PROVE IInv'
<1> USE DEF IInv, options, goroutines, context, Ended, Established, Stop, Return
<1>1. TypeOK'
  BY CausesFixed DEF TypeOK, Phase
<1>2. Phase'
  BY DEF TypeOK, Phase
<1>3. OnlyTransientRetried'
  BY DEF TypeOK, Phase, OnlyTransientRetried, Deterministic
<1>4. NothingLeftBehind'
  BY DEF TypeOK, Phase, NothingLeftBehind, Hops
<1> QED
  BY <1>1, <1>2, <1>3, <1>4

LEMMA CancelStep == ASSUME IInv, Cancel PROVE IInv'
<1> USE DEF IInv, options, goroutines, context, Ended, Cancel
<1>1. TypeOK'
  BY CausesFixed DEF TypeOK, Phase
<1>2. Phase'
  BY DEF TypeOK, Phase
<1>3. OnlyTransientRetried'
  BY DEF TypeOK, Phase, OnlyTransientRetried, Deterministic
<1>4. NothingLeftBehind'
  BY DEF TypeOK, Phase, NothingLeftBehind, Hops
<1> QED
  BY <1>1, <1>2, <1>3, <1>4

LEMMA ExpireStep == ASSUME IInv, Expire PROVE IInv'
<1> USE DEF IInv, options, goroutines, context, Ended, Expire
<1>1. TypeOK'
  BY CausesFixed DEF TypeOK, Phase
<1>2. Phase'
  BY DEF TypeOK, Phase
<1>3. OnlyTransientRetried'
  BY DEF TypeOK, Phase, OnlyTransientRetried, Deterministic
<1>4. NothingLeftBehind'
  BY DEF TypeOK, Phase, NothingLeftBehind, Hops
<1> QED
  BY <1>1, <1>2, <1>3, <1>4

\* Opening a connection to h.
LEMMA OpenedTypes ==
  ASSUME TypeOK, NEW h \in Hops, Opened(h)
  PROVE  /\ conn' \in [Hops -> {"none", "open", "closed"}]
         /\ timer' \in [Hops -> {"off", "armed", "fired", "ran"}]
         /\ watch' \in [Hops -> {"off", "armed", "fired", "ran"}]
BY DEF TypeOK, Opened

LEMMA NoneArmed ==
  ASSUME IInv, pc \notin {"handshake", "judge"}
  PROVE  \A h \in Hops : timer[h] # "armed" /\ watch[h] # "armed"
BY DEF IInv, NothingLeftBehind

LEMMA GetBastionStep == ASSUME IInv, GetBastion PROVE IInv'
<1> USE DEF IInv, options, goroutines, context, Ended
<1>1. CASE /\ conn["bastion"] = "open" /\ pc' = "tunnel"
           /\ UNCHANGED <<hop, conn, goroutines, pause, result, last>>
  BY <1>1, CausesFixed
  DEF GetBastion, TypeOK, Phase, OnlyTransientRetried, Deterministic, NothingLeftBehind
<1>2. CASE /\ conn["bastion"] # "open" /\ pc' = "tunnel" /\ Opened("bastion")
           /\ UNCHANGED <<hop, timedOut, pause, result, last>>
  <2>1. TypeOK'
    BY <1>2, CausesFixed, OpenedTypes DEF GetBastion, TypeOK, Hops
  <2>2. Phase'
    BY <1>2 DEF GetBastion, TypeOK, Phase, Opened, Hops
  <2>3. OnlyTransientRetried'
    BY <1>2 DEF GetBastion, TypeOK, Phase, OnlyTransientRetried, Deterministic
  <2>4. NothingLeftBehind'
    BY <1>2 DEF GetBastion, TypeOK, Phase, NothingLeftBehind, Opened, Hops
  <2> QED
    BY <2>1, <2>2, <2>3, <2>4
<1>3. CASE /\ hop' = "bastion" /\ pc' = "tcp"
           /\ UNCHANGED <<conn, goroutines, pause, result, last>>
  BY <1>3, CausesFixed
  DEF GetBastion, TypeOK, Phase, OnlyTransientRetried, Deterministic, NothingLeftBehind, Hops
<1>4. ASSUME UNCHANGED <<hop, conn, goroutines>>,
             NEW cat \in Categories, NEW e \in AllCauses, Failed(cat, e), Fits(cat, e)
      PROVE  IInv'
  <2>1. /\ pc = "dial" /\ UNCHANGED <<options, attempt, context, got, timedOut>>
        /\ conn["target"] # "open"
    BY <1>4 DEF GetBastion, Phase
  <2>2. \A h \in Hops : timer[h] # "armed" /\ watch[h] # "armed"
    BY <2>1, NoneArmed
  <2>3. /\ hop' \in Hops /\ conn' \in [Hops -> {"none", "open", "closed"}]
        /\ timer' \in [Hops -> {"off", "armed", "fired", "ran"}]
        /\ watch' \in [Hops -> {"off", "armed", "fired", "ran"}]
        /\ conn'["target"] # "open"
        /\ \A h \in Hops : timer'[h] # "armed" /\ watch'[h] # "armed"
    BY <1>4, <2>1, <2>2 DEF TypeOK
  <2> QED
    BY <1>4, <2>1, <2>3, FailedStep
<1>5. CASE /\ \E e \in DialErrors : Failed(ClassifyDial(e), e)
           /\ UNCHANGED <<hop, conn, goroutines>>
  BY <1>4, <1>5, DialFits
<1>6. CASE /\ \E e \in PeerErrors : Failed(ClassifyHandshake(e), e)
           /\ UNCHANGED <<hop, conn, goroutines>>
  BY <1>4, <1>6, HandshakeFits
<1>7. CASE /\ Ended /\ Failed("INTERNAL_ERROR", "waiting")
           /\ UNCHANGED <<hop, conn, goroutines>>
  <2>1. /\ "INTERNAL_ERROR" \in Categories /\ "waiting" \in AllCauses
        /\ Fits("INTERNAL_ERROR", "waiting")
    BY <1>7 DEF Categories, AllCauses, Fits, Deterministic
  <2> QED
    BY <1>4, <1>7, <2>1
<1> QED
  BY <1>1, <1>2, <1>3, <1>5, <1>6, <1>7 DEF GetBastion

LEMMA DialTCPStep == ASSUME IInv, DialTCP PROVE IInv'
<1> USE DEF IInv, options, goroutines, context, Ended
<1>1. CASE /\ Opened(hop) /\ pc' = "callback" /\ UNCHANGED <<pause, result, last>>
  <2>1. TypeOK'
    BY <1>1, CausesFixed, OpenedTypes DEF DialTCP, TypeOK
  <2>2. Phase'
    BY <1>1 DEF DialTCP, TypeOK, Phase, Opened, Hops
  <2>3. OnlyTransientRetried'
    BY <1>1 DEF DialTCP, TypeOK, Phase, OnlyTransientRetried, Deterministic
  <2>4. NothingLeftBehind'
    BY <1>1 DEF DialTCP, TypeOK, Phase, NothingLeftBehind, Opened, Hops
  <2> QED
    BY <2>1, <2>2, <2>3, <2>4
<1>2. ASSUME NEW e \in DialErrors, Failed(ClassifyDial(e), e), UNCHANGED <<conn, timer, watch>>
      PROVE  IInv'
  <2>1. /\ pc = "tcp" /\ conn["target"] # "open"
        /\ UNCHANGED <<options, hop, attempt, context, got, timedOut>>
    BY <1>2 DEF DialTCP, Phase
  <2>2. \A h \in Hops : timer[h] # "armed" /\ watch[h] # "armed"
    BY <2>1, NoneArmed
  <2>3. /\ hop' \in Hops /\ conn' \in [Hops -> {"none", "open", "closed"}]
        /\ timer' \in [Hops -> {"off", "armed", "fired", "ran"}]
        /\ watch' \in [Hops -> {"off", "armed", "fired", "ran"}]
        /\ conn'["target"] # "open"
        /\ \A h \in Hops : timer'[h] # "armed" /\ watch'[h] # "armed"
    BY <1>2, <2>1, <2>2 DEF TypeOK
  <2> QED
    BY <1>2, <2>1, <2>3, FailedStep, DialFits
<1> QED
  BY <1>1, <1>2 DEF DialTCP

LEMMA TunnelStep == ASSUME IInv, Tunnel PROVE IInv'
<1> USE DEF IInv, options, goroutines, context, Ended
<1>1. CASE /\ conn["bastion"] = "open" /\ Opened("target")
           /\ hop' = "target" /\ pc' = "callback" /\ UNCHANGED <<pause, result, last>>
  <2>1. TypeOK'
    BY <1>1, CausesFixed, OpenedTypes DEF Tunnel, TypeOK, Hops
  <2>2. Phase'
    BY <1>1 DEF Tunnel, TypeOK, Phase
  <2>3. OnlyTransientRetried'
    BY <1>1 DEF Tunnel, TypeOK, Phase, OnlyTransientRetried, Deterministic
  <2>4. NothingLeftBehind'
    BY <1>1 DEF Tunnel, TypeOK, Phase, NothingLeftBehind, Opened, Hops
  <2> QED
    BY <2>1, <2>2, <2>3, <2>4
<1>2. ASSUME NEW e \in TunnelErrors, Failed(ClassifyDial(e), e),
             conn' = IF e \in Rejections THEN conn
                     ELSE [conn EXCEPT !["bastion"] = "closed"],
             UNCHANGED <<hop, timer, watch>>
      PROVE  IInv'
  <2>1. /\ pc = "tunnel" /\ conn["target"] # "open"
        /\ UNCHANGED <<options, attempt, context, got, timedOut>>
    BY <1>2 DEF Tunnel, Phase
  <2>2. \A h \in Hops : timer[h] # "armed" /\ watch[h] # "armed"
    BY <2>1, NoneArmed
  <2>3. /\ hop' \in Hops /\ conn' \in [Hops -> {"none", "open", "closed"}]
        /\ timer' \in [Hops -> {"off", "armed", "fired", "ran"}]
        /\ watch' \in [Hops -> {"off", "armed", "fired", "ran"}]
        /\ conn'["target"] # "open"
        /\ \A h \in Hops : timer'[h] # "armed" /\ watch'[h] # "armed"
    BY <1>2, <2>1, <2>2 DEF TypeOK, Hops
  <2> QED
    BY <1>2, <2>1, <2>3, FailedStep, DialFits
<1> QED
  BY <1>1, <1>2 DEF Tunnel

\* A handshake that failed closes the connection before anything else.
LEMMA ClosedTarget ==
  ASSUME IInv, pc # "returned", Close
  PROVE  conn' \in [Hops -> {"none", "open", "closed"}] /\ conn'["target"] # "open"
BY DEF IInv, TypeOK, Phase, Close, Hops

LEMMA NoCallbackStep == ASSUME IInv, NoCallback PROVE IInv'
<1>1. /\ pc = "callback" /\ Failed("HOST_KEY_UNKNOWN", "known_hosts")
      /\ UNCHANGED <<options, hop, timer, watch, attempt, context, got, timedOut>>
  BY DEF NoCallback, goroutines
<1>2. conn' \in [Hops -> {"none", "open", "closed"}] /\ conn'["target"] # "open"
  BY <1>1, ClosedTarget DEF NoCallback
<1>3. /\ hop' \in Hops
      /\ timer' \in [Hops -> {"off", "armed", "fired", "ran"}]
      /\ watch' \in [Hops -> {"off", "armed", "fired", "ran"}]
      /\ \A h \in Hops : timer'[h] # "armed" /\ watch'[h] # "armed"
  BY <1>1, NoneArmed DEF IInv, TypeOK
<1>4. /\ "HOST_KEY_UNKNOWN" \in Categories /\ "known_hosts" \in AllCauses
      /\ Fits("HOST_KEY_UNKNOWN", "known_hosts")
  BY DEF Categories, AllCauses, Fits, Deterministic, Retryable
<1> QED
  BY <1>1, <1>2, <1>3, <1>4, FailedStep

LEMMA RefusedStep == ASSUME IInv, Refused PROVE IInv'
<1>1. /\ pc = "judge" /\ Failed(HandshakeFailure(got), got)
      /\ UNCHANGED <<options, hop, attempt, context, got, timedOut>>
  BY DEF Refused
<1>2. conn' \in [Hops -> {"none", "open", "closed"}] /\ conn'["target"] # "open"
  BY <1>1, ClosedTarget DEF Refused
<1>3. /\ hop' \in Hops
      /\ timer' \in [Hops -> {"off", "armed", "fired", "ran"}]
      /\ watch' \in [Hops -> {"off", "armed", "fired", "ran"}]
      /\ \A h \in Hops : timer'[h] # "armed" /\ watch'[h] # "armed"
  BY <1>1 DEF Refused, IInv, TypeOK, NothingLeftBehind
<1>4. Phase /\ got \in PeerErrors \cup {"closed"}
  BY <1>1 DEF Refused, IInv, TypeOK, Phase
<1> QED
  BY <1>1, <1>2, <1>3, <1>4, FailedStep, HandshakeFits

-----------------------------------------------------------------------------
(* The specification.                                                      *)

LEMMA InitIInv == Init => IInv
<1> SUFFICES ASSUME Init PROVE IInv
  OBVIOUS
<1>1. attempt \in 1..(ConnectRetries + 1)
  BY ConnectAssumption DEF ConnectAssumption, Init
<1>2. /\ via \in BOOLEAN /\ timedOut \in BOOLEAN
      /\ cancelled \in BOOLEAN /\ expired \in BOOLEAN
  BY Zenon DEF Init
<1>3. TypeOK
  BY <1>1, <1>2 DEF Init, TypeOK, Hops
<1>4. Phase /\ OnlyTransientRetried /\ NothingLeftBehind
  BY DEF Init, Phase, Ended, OnlyTransientRetried, Deterministic, NothingLeftBehind, Hops
<1> QED
  BY <1>3, <1>4 DEF IInv

LEMMA NextIInv == IInv /\ [Next]_vars => IInv'
<1> SUFFICES ASSUME IInv, [Next]_vars PROVE IInv'
  OBVIOUS
<1>1. CASE UNCHANGED vars
  <2> USE <1>1 DEF vars, options, goroutines, context, Ended, IInv
  <2>1. TypeOK'
    BY CausesFixed DEF TypeOK
  <2>2. Phase' /\ NothingLeftBehind'
    BY DEF Phase, NothingLeftBehind
  <2>3. OnlyTransientRetried'
    BY DEF OnlyTransientRetried, Deterministic
  <2> QED
    BY <2>1, <2>2, <2>3
<1> QED
  BY <1>1, SleepStep, DialTargetStep, GetBastionStep, DialTCPStep, TunnelStep,
     NoCallbackStep, BeginStep, PeerAnswersStep, CutOffStep, FireStep, RunCallbackStep,
     EstablishedStep, RefusedStep, CancelStep, ExpireStep
  DEF Next, Goroutine, Returned

THEOREM Invariance == Spec => []IInv
BY InitIInv, NextIInv, PTL DEF Spec

\* Every variable keeps its type, for every --retry-delay and --max-retry-delay, of
\* either sign: after any number of attempts the pause lies between 0 and
\* --max-retry-delay, and rand.N is given a positive bound (pc is not "panic")
\* unless --max-retry-delay is below -1 ns, where it panics.
THEOREM TypeCorrect == Spec => []TypeOK
<1>1. IInv => TypeOK
  BY DEF IInv
<1> QED
  BY <1>1, Invariance, PTL

\* An authentication, host key or DNS failure ends connect at once, any other
\* failure only once the attempts are used up, and a host is blamed only for what
\* it did (connect, Dial, handshake).
THEOREM TransientRetried == Spec => []OnlyTransientRetried
<1>1. IInv => OnlyTransientRetried
  BY DEF IInv
<1> QED
  BY <1>1, Invariance, PTL

\* A failed dial leaves no connection to the host open, and no timer or callback
\* stays armed after its handshake (dialHop, handshake).
THEOREM NothingLeft == Spec => []NothingLeftBehind
<1>1. IInv => NothingLeftBehind
  BY DEF IInv
<1> QED
  BY <1>1, Invariance, PTL

-----------------------------------------------------------------------------
(* connect and Dial implement Dialing.                                     *)

\* A failure that Dial can have at this moment.
Possible(cat) ==
  /\ cat \in Categories
  /\ cat = "CANCELLED" => cancelled
  /\ cat = "INTERNAL_ERROR" => Ended

LEMMA PossibleDial ==
  ASSUME Phase, NEW e \in DialErrors \cup TunnelErrors PROVE Possible(ClassifyDial(e))
<1>1. ClassifyDial(e) # "INTERNAL_ERROR"
  BY DialFits DEF ClassifyDial
<1> QED
  BY <1>1, DialFits DEF Possible, Fits

LEMMA PossibleHandshake ==
  ASSUME Phase, NEW e \in PeerErrors \cup {"closed"}
  PROVE  Possible(ClassifyHandshake(e)) /\ Possible(HandshakeFailure(e))
<1>1. ClassifyHandshake(e) # "INTERNAL_ERROR"
  BY DEF ClassifyHandshake
<1>2. HandshakeFailure(e) # "INTERNAL_ERROR"
  BY <1>1 DEF HandshakeFailure
<1> QED
  BY <1>1, <1>2, HandshakeFits DEF Possible, Fits

\* The category that stands for it is among those that HostRun reckons with.
LEMMA ClassFacts ==
  ASSUME Phase, NEW cat, Possible(cat)
  PROVE  /\ Class(cat) \in D!DialFailures(cancelled, expired)
         /\ D!Retryable(Class(cat)) <=> Retryable(cat)
BY DEF Phase, Possible, Categories, Class, Retryable, D!DialFailures, D!Unclassified,
       D!Retryable

LEMMA NilClass == Class("nil") = "nil" /\ Class("ok") = "ok" /\ Class("CANCELLED") = "CANCELLED"
BY DEF Class, Retryable

\* A failed dial, as seen from outside.
LEMMA FailedDials ==
  ASSUME IInv, NEW cat, NEW e, Possible(cat), Failed(cat, e),
         pc \notin {"pause", "panic", "returned"},
         UNCHANGED <<caller, attempt, cancelled, expired>>
  PROVE  D!Dial
<1>1. result = "nil" /\ attempt \in Int /\ base \in Bases /\ maxDelay \in MaxDelays
  BY DEF IInv, TypeOK, Phase
<1>2. Phase /\ (caller = "connect" => (Ended <=> cancelled))
  BY DEF IInv, Phase
<1>3. CASE caller = "connect" /\ Retryable(cat) /\ attempt <= ConnectRetries /\ ~Ended
  <2>1. pc' \in {"pause", "panic"} /\ result' = result
    BY <1>1, <1>3, BackoffPauses DEF Failed
  <2>2. D!TriesAgain(Class(cat))
    BY <1>2, <1>3, ClassFacts DEF D!TriesAgain
  <2> QED
    BY <1>2, <2>1, <2>2, ClassFacts DEF D!Dial, DialPhase
<1>4. CASE ~(caller = "connect" /\ Retryable(cat) /\ attempt <= ConnectRetries /\ ~Ended)
  <2>1. pc' = "returned" /\ result' = cat
    BY <1>4 DEF Failed, Return
  <2>2. ~D!TriesAgain(Class(cat))
    BY <1>2, <1>4, ClassFacts DEF D!TriesAgain
  <2> QED
    BY <1>2, <2>1, <2>2, ClassFacts DEF D!Dial, D!Over, DialPhase
<1> QED
  BY <1>3, <1>4

\* Inside a dial nothing shows.
LEMMA Unseen ==
  ASSUME UNCHANGED <<caller, attempt, result, cancelled, expired>>,
         pc \notin {"pause", "panic", "returned"}, pc' \notin {"pause", "panic", "returned"}
  PROVE  UNCHANGED D!vars
BY DEF D!vars, DialPhase

LEMMA DialNext == ASSUME IInv, [Next]_vars PROVE [D!Next]_(D!vars)
<1> USE DEF options, goroutines, context
<1>0. Phase
  BY DEF IInv
<1>1. CASE Sleep
  <2>1. result = "nil"
    BY <1>1 DEF Sleep, IInv, Phase
  <2>2. CASE cancelled /\ Return("CANCELLED") /\ UNCHANGED <<attempt, last>>
    BY <1>1, <2>2, NilClass DEF Sleep, Return, D!Next, D!Pause, D!Over, DialPhase
  <2>3. CASE attempt' = attempt + 1 /\ pc' = "dial" /\ UNCHANGED result
    BY <1>1, <2>3 DEF Sleep, D!Next, D!Pause, DialPhase
  <2> QED
    BY <1>1, <2>2, <2>3 DEF Sleep
<1>2. CASE GetBastion
  <2>1. pc = "dial" /\ UNCHANGED <<caller, attempt, cancelled, expired>>
    BY <1>2 DEF GetBastion
  <2>2. ASSUME NEW e \in DialErrors, Failed(ClassifyDial(e), e) PROVE D!Dial
    BY <2>1, <2>2, <1>0, FailedDials, PossibleDial
  <2>3. ASSUME NEW e \in PeerErrors, Failed(ClassifyHandshake(e), e) PROVE D!Dial
    BY <2>1, <2>3, <1>0, FailedDials, PossibleHandshake
  <2>4. ASSUME Ended, Failed("INTERNAL_ERROR", "waiting") PROVE D!Dial
    <3>1. Possible("INTERNAL_ERROR")
      BY <2>4 DEF Possible, Categories
    <3> QED
      BY <2>1, <2>4, <3>1, FailedDials
  <2>5. CASE pc' \in {"tunnel", "tcp"} /\ result' = result
    BY <2>1, <2>5, Unseen
  <2> QED
    BY <1>2, <2>2, <2>3, <2>4, <2>5 DEF GetBastion, D!Next
<1>3. CASE DialTCP
  <2>1. pc = "tcp" /\ UNCHANGED <<caller, attempt, cancelled, expired>>
    BY <1>3 DEF DialTCP
  <2>2. ASSUME NEW e \in DialErrors, Failed(ClassifyDial(e), e) PROVE D!Dial
    BY <2>1, <2>2, <1>0, FailedDials, PossibleDial
  <2>3. CASE pc' = "callback" /\ result' = result
    BY <2>1, <2>3, Unseen
  <2> QED
    BY <1>3, <2>2, <2>3 DEF DialTCP, D!Next
<1>4. CASE Tunnel
  <2>1. pc = "tunnel" /\ UNCHANGED <<caller, attempt, cancelled, expired>>
    BY <1>4 DEF Tunnel
  <2>2. ASSUME NEW e \in TunnelErrors, Failed(ClassifyDial(e), e) PROVE D!Dial
    BY <2>1, <2>2, <1>0, FailedDials, PossibleDial
  <2>3. CASE pc' = "callback" /\ result' = result
    BY <2>1, <2>3, Unseen
  <2> QED
    BY <1>4, <2>2, <2>3 DEF Tunnel, D!Next
<1>5. CASE NoCallback
  <2>1. /\ pc = "callback" /\ UNCHANGED <<caller, attempt, cancelled, expired>>
        /\ Failed("HOST_KEY_UNKNOWN", "known_hosts")
    BY <1>5 DEF NoCallback
  <2>2. Possible("HOST_KEY_UNKNOWN")
    BY DEF Possible, Categories
  <2> QED
    BY <2>1, <2>2, FailedDials DEF D!Next
<1>6. CASE Refused
  <2>1. /\ pc = "judge" /\ UNCHANGED <<caller, attempt, cancelled, expired>>
        /\ Failed(HandshakeFailure(got), got)
    BY <1>6 DEF Refused
  <2>2. got \in PeerErrors \cup {"closed"}
    BY <1>6 DEF Refused, IInv, TypeOK, Phase
  <2> QED
    BY <2>1, <2>2, <1>0, FailedDials, PossibleHandshake DEF D!Next
<1>7. CASE Established
  <2>1. pc = "judge" /\ UNCHANGED <<caller, attempt, cancelled, expired>>
    BY <1>7 DEF Established
  <2>2. CASE pc' = "tunnel" /\ result' = result
    BY <2>1, <2>2, Unseen
  <2>3. CASE Return("ok")
    BY <2>1, <2>3, NilClass DEF Return, D!Next, D!Dial, D!Over, DialPhase
  <2> QED
    BY <1>7, <2>2, <2>3 DEF Established
<1>8. CASE DialTarget \/ Begin \/ PeerAnswers \/ CutOff
  BY <1>8, Unseen DEF DialTarget, Begin, PeerAnswers, CutOff
<1>9. CASE Fire \/ RunCallback
  BY <1>9 DEF Fire, RunCallback, D!vars, DialPhase
<1>10. CASE Cancel
  BY <1>10 DEF Cancel, D!Next, D!Cancel, DialPhase
<1>11. CASE Expire
  BY <1>11 DEF Expire, D!Next, D!Expire, DialPhase
<1>12. CASE UNCHANGED vars
  BY <1>12 DEF vars, D!vars, DialPhase
<1> QED
  BY <1>1, <1>2, <1>3, <1>4, <1>5, <1>6, <1>7, <1>8, <1>9, <1>10, <1>11, <1>12
     DEF Next, Goroutine, Returned

\* connect and Dial implement Dialing: with every interleaving of the handshake, its
\* timer, the callback of ctx and the shared bastion, a dial ends with a connection
\* or with a failure that runHost reckons with at that moment, and is repeated
\* only as Dialing says (connect, Dial, handshake, ClassifyDial, ClassifyHandshake).
THEOREM ConnectImplementsDialing == Spec => ImplementsDialing
<1>1. Init => D!Init
  BY NilClass DEF Init, D!Init, DialPhase
<1> QED
  BY <1>1, DialNext, Invariance, PTL DEF Spec, D!Spec, ImplementsDialing

=============================================================================
