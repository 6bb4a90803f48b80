---------------------------- MODULE HostRunProofs ----------------------------
(***************************************************************************)
(* Proofs about module HostRun, for every job that Validate accepts, any   *)
(* number of connection attempts and any number of drops and reboots:      *)
(* commands never run more often than they may, the report says what       *)
(* happened, and no connection is lost track of.                           *)
(***************************************************************************)
EXTENDS HostRun, FiniteSetTheorems, SequenceTheorems, TLAPS

Trying == {"attempt", "command", "tried", "retrywait", "judge"}
Waiting == {"sleep", "redial", "newboot"}
InStep == {"bootid"} \cup Trying \cup Waiting

\* Where the goroutine is says how far the report and the retries have come.
Phase ==
  /\ pc \in {"dial", "backoff", "probe"} => k = 1 /\ ~stopped
  /\ pc = "backoff" => attempt <= ConnectRetries
  /\ pc \in InStep => k <= Len(job) /\ ~stopped /\ try <= Retries(job[k])
  /\ pc = "retrywait" => try < Retries(job[k])
  /\ pc \notin Trying \cup Waiting => try = 0
  /\ pc \in Waiting => job[k].mode \in {"disconnect", "reboot"}
  /\ Len(steps) = IF pc = "done" THEN Len(job) ELSE k - 1

Held(c) == IF c.open THEN 1 ELSE 0

\* Which of the two connections exist and are open.
Clients ==
  /\ client.nil => ~client.open
  /\ pc \in {"probe", "bootid"} \cup Trying => ~client.nil
  /\ pc = "next" /\ ~stopped => ~client.nil
  /\ pc \in Waiting \cup {"dial", "backoff", "done"} => ~client.open
  /\ IF pc = "newboot" THEN ~cand.nil ELSE ~cand.open
  /\ open = Held(client) + Held(cand)

\* Step i is a reboot that was carried out and proved.
Rebooted(i) == job[i].mode = "reboot" /\ steps[i].status = "SUCCESS" /\ runs[i] # <<>>

\* A connection belongs to the boot it was dialled in, and every command behind a
\* reboot runs on a connection dialled later.
Boots ==
  /\ boot >= 1 /\ oldBoot \in 0..boot
  /\ ~client.nil => client.boot \in 1..boot
  /\ pc = "newboot" => cand.boot \in 1..boot /\ cand.boot >= oldBoot
  /\ pc \in Trying \cup Waiting /\ job[k].mode = "reboot" =>
       /\ oldBoot \in 1..boot
       /\ pc \in Trying => oldBoot = client.boot
       /\ \A n \in 1..Len(runs[k]) : runs[k][n] = oldBoot
  /\ \A i \in 1..Len(steps) : Rebooted(i) =>
       /\ runs[i][1] < boot
       /\ ~client.nil => runs[i][1] < client.boot
       /\ pc = "newboot" => runs[i][1] < cand.boot
       /\ \A j \in (i + 1)..Len(job) : runs[j] # <<>> => runs[i][1] < runs[j][1]

\* How often the command of each step ran, and what a result says about it.
Ran ==
  /\ \A i \in 1..Len(job) :
       /\ Len(runs[i]) <= Retries(job[i]) + 1
       /\ i > k \/ (i = k /\ pc \notin Trying \cup Waiting) => runs[i] = <<>>
  /\ pc \in {"attempt", "command"} => Len(runs[k]) <= try
  /\ pc \in Trying \cup Waiting => Len(runs[k]) <= try + 1
  /\ pc \in {"tried", "retrywait", "judge"} =>
       (res.cat = "nil" \/ (res.started /\ ~job[k].content) => runs[k] # <<>>)
  /\ pc \in Waiting => job[k].content \/ runs[k] # <<>>

\* The report so far.
Verdict ==
  /\ host.status = "SUCCESS" <=> host.cat = "nil"
  /\ host.cat = "nil" =>
       host.step = 0 /\ ~stopped /\ \A i \in 1..Len(steps) : steps[i].status = "SUCCESS"
  /\ host.cat # "nil" /\ host.step = 0 => pc = "done" /\ steps[1].status = "SKIPPED"
  /\ host.step # 0 =>
       /\ host.step \in 1..Len(steps)
       /\ steps[host.step].cat = host.cat /\ steps[host.step].status # "SUCCESS"
       /\ \A i \in 1..(host.step - 1) : steps[i].status = "SUCCESS"
  /\ host.status # "SKIPPED" /\ (host.status = "CANCELLED" => cancelled)
  /\ res.cat = "CANCELLED" => cancelled
  /\ ~stopped /\ pc # "done" =>
       \A i \in 1..Len(steps) : steps[i].status = "SUCCESS" \/ job[i].cont

\* A refused login ends the host.
Final == lastDial = "AUTH_FAILED" => pc = "done" \/ (pc = "next" /\ stopped)

\* The inductive invariant.
IInv ==
  /\ TypeOK /\ Phase /\ Clients /\ Boots /\ Ran /\ Verdict /\ Final
  /\ SuccessMeansRan /\ NothingRunsAfterAStop

-----------------------------------------------------------------------------
(* Jobs, connections and outcomes.                                         *)

LEMMA JobFacts ==
  ASSUME NEW j \in Jobs
  PROVE  /\ Len(j) \in Nat /\ Len(j) >= 1
         /\ \A i \in 1..Len(j) :
              /\ j[i].mode \in {"plain", "disconnect", "reboot", "forget"}
              /\ j[i].content \in BOOLEAN /\ j[i].cont \in BOOLEAN
              /\ j[i].retries \in Nat /\ Retries(j[i]) \in Nat
              /\ j[i].mode = "forget" => ~j[i].content
              /\ Retries(j[i]) = IF j[i].mode = "plain" THEN j[i].retries ELSE 0
<1>1. Valid(j)
  BY HostRunAssumption DEF HostRunAssumption
<1>2. j \in Seq(Step) /\ j # <<>> /\ DOMAIN j = 1..Len(j) /\ Len(j) \in Nat
  BY <1>1, LenProperties DEF Valid
<1>3. Len(j) >= 1
  BY <1>2, EmptySeq
<1>4. \A i \in 1..Len(j) : j[i] \in Step
  BY <1>2, ElementOfSeq
<1>5. \A i \in 1..Len(j) : j[i].mode = "forget" => ~j[i].content
  BY <1>1, <1>2 DEF Valid
<1>6. \A i \in 1..Len(j) :
        /\ j[i].mode \in {"plain", "disconnect", "reboot", "forget"}
        /\ j[i].content \in BOOLEAN /\ j[i].cont \in BOOLEAN /\ j[i].retries \in Nat
  BY <1>4 DEF Step
<1>7. \A i \in 1..Len(j) :
        /\ Retries(j[i]) \in Nat
        /\ Retries(j[i]) = IF j[i].mode = "plain" THEN j[i].retries ELSE 0
  BY <1>6 DEF Retries
<1> QED
  BY <1>2, <1>3, <1>5, <1>6, <1>7

\* What every outcome of Exec has in common.
LEMMA OutcomeFacts ==
  ASSUME NEW c \in Conn, NEW o \in Outcomes(c)
  PROVE  /\ o.cat \in {"nil", "SESSION_FAILED", "COMMAND_TIMEOUT", "CANCELLED"}
         /\ o.cat = "CANCELLED" => cancelled
         /\ o.exit \in {"ok", "bad", "none"}
         /\ o.started \in BOOLEAN /\ o.ran \in BOOLEAN
         /\ o.started \/ o.cat = "nil" => o.ran
         /\ o.conn \in Conn /\ o.conn.nil = c.nil /\ o.conn.boot = c.boot
         /\ o.conn.open => c.open
         /\ o.cat = "nil" => o.conn.open /\ c.open
<1> DEFINE fatal == {"COMMAND_TIMEOUT"} \cup (IF cancelled THEN {"CANCELLED"} ELSE {})
<1>1. \A f \in fatal : f \in {"COMMAND_TIMEOUT", "CANCELLED"} /\ (f = "CANCELLED" => cancelled)
  OBVIOUS
<1>2. \A how : LET d == After(c, how)
               IN /\ d \in Conn /\ d.nil = c.nil /\ d.boot = c.boot /\ (d.open => c.open)
                  /\ how \in {"kept", "lost"} => d.open = c.open
  BY DEF After, Conn
<1>3. PICK r \in ExecResults(c.open /\ c.live, cancelled) :
        o = [r EXCEPT !.conn = After(c, @)]
  BY DEF Outcomes
<1>4. \/ r \in [cat : {"SESSION_FAILED"}, exit : {"none"}, started : {FALSE},
                ran : {FALSE}, conn : {"kept"}]
      \/ r \in [cat : fatal, exit : {"none"}, started : {FALSE}, ran : {FALSE},
                conn : {"closed"}]
      \/ /\ c.open
         /\ \/ r \in [cat : {"SESSION_FAILED"}, exit : {"none"}, started : {FALSE},
                      ran : {TRUE}, conn : {"lost"}]
            \/ r \in [cat : fatal, exit : {"none"}, started : {FALSE}, ran : {TRUE},
                      conn : {"closed"}]
            \/ r \in [cat : {"nil"}, exit : {"ok", "bad"}, started : {TRUE}, ran : {TRUE},
                      conn : {"kept"}]
            \/ r \in [cat : {"nil", "SESSION_FAILED"}, exit : {"none"}, started : {TRUE},
                      ran : {TRUE}, conn : {"kept", "lost"}]
            \/ r \in [cat : fatal, exit : {"none"}, started : {TRUE}, ran : {TRUE},
                      conn : {"kept"}]
  BY <1>3, Zenon DEF ExecResults
<1> HIDE DEF fatal
<1>5. /\ r.cat \in {"nil", "SESSION_FAILED"} \cup fatal
      /\ r.exit \in {"ok", "bad", "none"}
      /\ r.started \in BOOLEAN /\ r.ran \in BOOLEAN
      /\ r.started \/ r.cat = "nil" => r.ran
      /\ r.cat = "nil" => c.open /\ r.conn \in {"kept", "lost"}
  BY <1>1, <1>4
<1>6. /\ o.cat = r.cat /\ o.exit = r.exit /\ o.started = r.started /\ o.ran = r.ran
      /\ o.conn = After(c, r.conn)
  BY <1>3, <1>4
<1> QED
  BY <1>1, <1>2, <1>5, <1>6

-----------------------------------------------------------------------------
(* The end of a step.                                                      *)

LEMMA NilFacts == Nil \in Conn /\ Nil.nil /\ ~Nil.open
BY Zenon DEF Nil, Conn

LEMMA AppendFacts ==
  ASSUME NEW S, NEW s \in Seq(S), NEW e \in S
  PROVE  /\ Append(s, e) \in Seq(S) /\ Append(s, e) # <<>>
         /\ Len(Append(s, e)) = Len(s) + 1 /\ Append(s, e)[Len(s) + 1] = e
         /\ \A i \in 1..Len(s) : Append(s, e)[i] = s[i]
OBVIOUS

\* The step ends with a StepResult that fits its failure, and hands a connection on
\* that is newer than every reboot so far, this step's included, or none at all.
LEMMA EndStepKeeps ==
  ASSUME IInv, pc \in InStep, NEW sr \in [status : Statuses, cat : Cat], NEW cat \in Cat,
         NEW c \in Conn, EndStep(sr, cat, c),
         sr.cat = cat, sr.status # "SKIPPED", sr.status = "SUCCESS" <=> cat = "nil",
         cat = "CANCELLED" => cancelled,
         UNCHANGED <<job, attempt, sudoPW, cancelled, remote, runs>>,
         c.nil => ~c.open /\ cat # "nil",
         ~c.nil => c.boot \in 1..boot
                   /\ \A i \in 1..Len(steps) : Rebooted(i) => runs[i][1] < c.boot,
         cat = "nil" /\ job[k].mode = "reboot" /\ runs[k] # <<>> => runs[k][1] < c.boot,
         cat = "nil" => runs[k] # <<>> \/ (job[k].content /\ job[k].mode # "plain"),
         cand' \in Conn, ~cand'.open, open' = Held(c),
         lastDial' \in Cat \cup {"ok", "none"},
         lastDial' = "AUTH_FAILED" => c.nil
  PROVE  IInv'
<1>1. /\ job \in Jobs /\ k \in 1..Len(job) /\ steps \in Seq([status : Statuses, cat : Cat])
      /\ Len(steps) = k - 1 /\ Len(job) \in Nat /\ Len(job) >= 1
  BY JobFacts DEF IInv, TypeOK, Phase, InStep, Trying, Waiting
<1>2. /\ steps' \in Seq([status : Statuses, cat : Cat]) /\ Len(steps') = k
      /\ steps'[k] = sr /\ \A i \in 1..(k - 1) : steps'[i] = steps[i]
  <2>1. steps' = Append(steps, sr)
    BY DEF EndStep
  <2> QED
    BY <1>1, <2>1, AppendFacts
<1>3. /\ host' = (IF cat = "nil" THEN host ELSE Fail(cat, k))
      /\ client' = c /\ k' = k + 1 /\ pc' = "next" /\ oldBoot' = 0
      /\ try' = 0 /\ res' = NoResult
  BY DEF EndStep
<1>4. stopped' = (cat # "nil" /\ Stops(cat, c)) /\ sawOldBoot' = FALSE /\ expired' = FALSE
  BY DEF EndStep
<1>5. /\ job' = job /\ attempt' = attempt /\ sudoPW' = sudoPW /\ cancelled' = cancelled
      /\ up' = up /\ boot' = boot /\ events' = events /\ nopasswd' = nopasswd
      /\ silent' = silent
      /\ runs' = runs
  BY DEF remote
<1>6. TypeOK'
  <2>1. stopped' \in BOOLEAN /\ sawOldBoot' \in BOOLEAN /\ expired' \in BOOLEAN
    BY <1>4, Zenon
  <2>2. res' \in [cat : Cat, exit : {"ok", "bad", "none"}, started : BOOLEAN]
    BY <1>3, Zenon DEF NoResult, Cat
  <2>3. host' \in [status : Statuses, cat : Cat, step : Nat]
    BY <1>1, <1>3 DEF IInv, TypeOK, Fail, Statuses
  <2>4. open' \in 0..2
    BY DEF Held
  <2>5. pc' = "next" /\ k' \in 1..(Len(job') + 1) /\ try' \in Nat /\ oldBoot' \in Nat
    BY <1>1, <1>3, <1>5
  <2>6. /\ job' \in Jobs /\ attempt' \in 1..(ConnectRetries + 1) /\ client' \in Conn
        /\ sudoPW' \in BOOLEAN /\ cancelled' \in BOOLEAN /\ up' \in BOOLEAN
        /\ boot' \in Nat /\ nopasswd' \in BOOLEAN
        /\ silent' \in BOOLEAN /\ events' \in 0..MaxEvents
        /\ runs' \in [1..Len(job') -> Seq(Nat)]
    BY <1>3, <1>5, Zenon DEF IInv, TypeOK
  <2> QED
    BY <1>2, <2>1, <2>2, <2>3, <2>4, <2>5, <2>6, Zenon DEF TypeOK
<1>7. Phase'
  BY <1>1, <1>2, <1>3, <1>5 DEF Phase, InStep, Trying, Waiting
<1>8. stopped' <=> cat # "nil" /\ Stops(cat, c)
  BY <1>4
<1>9. Clients'
  <2>1. open' = Held(client') + Held(cand')
    BY <1>3 DEF Held
  <2>2. c.nil => stopped'
    BY <1>8 DEF Stops
  <2> QED
    BY <1>3, <2>1, <2>2 DEF Clients, InStep, Trying, Waiting
<1>10. Boots'
  <2>1. boot >= 1 /\ boot \in Nat
    BY DEF IInv, Boots, TypeOK
  <2>2. ASSUME NEW i \in 1..Len(steps'), Rebooted(i)'
        PROVE  /\ runs[i][1] < boot /\ (~c.nil => runs[i][1] < c.boot)
               /\ \A j \in (i + 1)..Len(job) : runs[j] # <<>> => runs[i][1] < runs[j][1]
    <3>1. CASE i = k
      <4>1. job[k].mode = "reboot" /\ sr.status = "SUCCESS" /\ runs[k] # <<>>
        BY <1>2, <1>5, <2>2, <3>1 DEF Rebooted
      <4>2. cat = "nil" /\ ~c.nil /\ runs[k][1] < c.boot
        BY <4>1
      <4>3. \A j \in (k + 1)..Len(job) : runs[j] = <<>>
        BY <1>1 DEF IInv, Ran
      <4>4. runs[k][1] \in Nat
        <5>1. runs[k] \in Seq(Nat)
          BY <1>1 DEF IInv, TypeOK
        <5> QED
          BY <4>1, <5>1
      <4> QED
        BY <2>1, <3>1, <4>2, <4>3, <4>4
    <3>2. CASE i # k
      <4>1. i \in 1..Len(steps) /\ steps'[i] = steps[i]
        BY <1>1, <1>2, <3>2
      <4>2. Rebooted(i)
        BY <1>5, <2>2, <4>1 DEF Rebooted
      <4> QED
        BY <4>1, <4>2 DEF IInv, Boots
    <3> QED
      BY <3>1, <3>2
  <2> QED
    BY <1>3, <1>5, <2>1, <2>2 DEF Boots, Trying, Waiting
<1>11. Ran'
  <2>1. \A i \in 1..Len(job) :
          /\ Len(runs[i]) <= Retries(job[i]) + 1
          /\ i > k => runs[i] = <<>>
    BY DEF IInv, Ran
  <2>2. \A i \in 1..Len(job) : i > k + 1 \/ i = k + 1 => i > k
    BY <1>1
  <2> QED
    BY <1>3, <1>5, <2>1, <2>2 DEF Ran, Trying, Waiting
<1>12. ~stopped /\ ~(pc = "done") /\ (host.cat # "nil" => host.step # 0)
  BY DEF IInv, Phase, Verdict, InStep, Trying, Waiting
<1>13. Verdict'
  <2>1. ASSUME ~stopped', NEW i \in 1..k
        PROVE  steps'[i].status = "SUCCESS" \/ job[i].cont
    <3>1. CASE i = k
      BY <1>2, <1>8, <2>1, <3>1 DEF Stops
    <3>2. CASE i # k
      BY <1>1, <1>2, <1>12, <3>2 DEF IInv, Verdict
    <3> QED
      BY <3>1, <3>2
  <2>2. res'.cat = "nil"
    BY <1>3 DEF NoResult
  <2>3. CASE cat = "nil"
    <3>1. host' = host /\ ~stopped'
      BY <1>3, <1>8, <2>3
    <3>2. host.cat = "nil" => \A i \in 1..k : steps'[i].status = "SUCCESS"
      <4>1. ASSUME host.cat = "nil", NEW i \in 1..k PROVE steps'[i].status = "SUCCESS"
        <5>1. CASE i = k
          BY <1>2, <2>3, <5>1
        <5>2. CASE i # k
          BY <1>1, <1>2, <4>1, <5>2 DEF IInv, Verdict
        <5> QED
          BY <5>1, <5>2
      <4> QED
        BY <4>1
    <3>3. host.step # 0 =>
            /\ host.step \in 1..k
            /\ steps'[host.step].cat = host.cat /\ steps'[host.step].status # "SUCCESS"
            /\ \A i \in 1..(host.step - 1) : steps'[i].status = "SUCCESS"
      BY <1>1, <1>2 DEF IInv, Verdict
    <3> QED
      BY <1>2, <1>3, <1>5, <1>12, <2>1, <2>2, <3>1, <3>2, <3>3 DEF IInv, Verdict
  <2>4. CASE cat # "nil" /\ host.cat = "nil"
    <3>1. /\ host'.cat = cat /\ host'.step = k
          /\ host'.status = IF cat = "CANCELLED" THEN "CANCELLED" ELSE "FAILED"
      BY <1>3, <2>4 DEF Fail
    <3>2. \A i \in 1..(k - 1) : steps'[i].status = "SUCCESS"
      BY <1>1, <1>2, <2>4 DEF IInv, Verdict
    <3> QED
      BY <1>1, <1>2, <1>3, <1>5, <2>1, <2>2, <2>4, <3>1, <3>2 DEF Verdict
  <2>5. CASE cat # "nil" /\ host.cat # "nil"
    <3>1. host' = host
      BY <1>3, <2>5 DEF Fail
    <3>2. /\ host.step \in 1..k
          /\ steps'[host.step].cat = host.cat /\ steps'[host.step].status # "SUCCESS"
          /\ \A i \in 1..(host.step - 1) : steps'[i].status = "SUCCESS"
      <4>1. host.step # 0
        BY <1>12, <2>5
      <4>2. /\ host.step \in 1..(k - 1)
            /\ steps[host.step].cat = host.cat /\ steps[host.step].status # "SUCCESS"
            /\ \A i \in 1..(host.step - 1) : steps[i].status = "SUCCESS"
        BY <1>1, <4>1 DEF IInv, Verdict
      <4>3. \A i \in 1..(host.step - 1) : i \in 1..(k - 1)
        BY <1>1, <4>2
      <4> QED
        BY <1>1, <1>2, <4>2, <4>3
    <3> QED
      BY <1>2, <1>3, <1>5, <1>12, <2>1, <2>2, <2>5, <3>1, <3>2 DEF IInv, Verdict
  <2> QED
    BY <2>3, <2>4, <2>5
<1>14. Final'
  BY <1>3, <1>8 DEF Final, Stops
<1>15. SuccessMeansRan'
  <2> SUFFICES ASSUME NEW i \in 1..k, steps'[i].status = "SUCCESS",
                      ~(job[i].content /\ job[i].mode # "plain")
               PROVE  Len(runs[i]) >= 1
    BY <1>2, <1>5 DEF SuccessMeansRan
  <2>1. CASE i = k
    <3>1. runs[k] # <<>> /\ runs[k] \in Seq(Nat)
      BY <1>1, <1>2, <2>1 DEF IInv, TypeOK
    <3> QED
      BY <2>1, <3>1
  <2>2. CASE i # k
    BY <1>1, <1>2, <2>2 DEF IInv, SuccessMeansRan
  <2> QED
    BY <2>1, <2>2
<1>16. NothingRunsAfterAStop'
  <2>1. ASSUME NEW i \in 1..k, steps'[i].status = "SKIPPED" PROVE runs[i] = <<>>
    BY <1>1, <1>2, <2>1 DEF IInv, NothingRunsAfterAStop
  <2>2. ASSUME NEW i \in 1..Len(job), runs[i] # <<>>, NEW j \in 1..(i - 1)
        PROVE  j <= k /\ (steps'[j].status = "SUCCESS" \/ job[j].cont)
    <3>1. j <= Len(steps) /\ (steps[j].status = "SUCCESS" \/ job[j].cont)
      BY <2>2 DEF IInv, NothingRunsAfterAStop
    <3>2. j \in 1..(k - 1)
      BY <1>1, <3>1
    <3> QED
      BY <1>1, <1>2, <3>1, <3>2
  <2> QED
    BY <1>2, <1>5, <2>1, <2>2 DEF NothingRunsAfterAStop
<1> QED
  BY <1>6, <1>7, <1>9, <1>10, <1>11, <1>13, <1>14, <1>15, <1>16 DEF IInv

-----------------------------------------------------------------------------
(* Steps that leave the report and the executed commands alone.            *)

\* What such a step must say about the boots of the connections.
BootsFit ==
  /\ boot' >= boot /\ oldBoot' \in 0..boot'
  /\ ~client'.nil =>
       /\ client'.boot \in 1..boot'
       /\ (~client.nil /\ client'.boot = client.boot) \/ Len(steps) = 0
  /\ pc' = "newboot" =>
       /\ cand'.boot \in 1..boot' /\ cand'.boot >= oldBoot'
       /\ (pc = "newboot" /\ cand'.boot = cand.boot) \/ cand'.boot = boot
  /\ pc' \in Trying \cup Waiting /\ job[k].mode = "reboot" =>
       /\ oldBoot' \in 1..boot'
       /\ pc' \in Trying => oldBoot' = client'.boot
       /\ \A n \in 1..Len(runs[k]) : runs[k][n] = oldBoot'

\* What it must say about the attempts and their result.
TriesFit ==
  /\ pc \in Trying \cup Waiting => pc' \in Trying \cup Waiting
  /\ pc' \in {"attempt", "command"} => Len(runs[k]) <= try'
  /\ pc' \in Trying \cup Waiting => Len(runs[k]) <= try' + 1
  /\ pc' \in {"tried", "retrywait", "judge"} =>
       (res'.cat = "nil" \/ (res'.started /\ ~job[k].content) => runs[k] # <<>>)
  /\ pc' \in Waiting => job[k].content \/ runs[k] # <<>>
  /\ res'.cat = "CANCELLED" => cancelled'

LEMMA QuietKeeps ==
  ASSUME IInv, UNCHANGED <<job, k, steps, host, stopped, runs>>,
         TypeOK', Phase', Clients', Final', BootsFit, TriesFit,
         cancelled => cancelled', pc = "done" => pc' = "done"
  PROVE  IInv'
<1>1. /\ job' = job /\ k' = k /\ steps' = steps /\ host' = host /\ stopped' = stopped
      /\ runs' = runs
  OBVIOUS
<1>2. Boots'
  <2>1. boot >= 1 /\ boot \in Nat /\ boot' \in Nat /\ boot' >= boot
    BY DEF IInv, Boots, TypeOK, BootsFit
  <2>2. ASSUME NEW i \in 1..Len(steps), Rebooted(i)
        PROVE  /\ runs[i][1] < boot' /\ (~client'.nil => runs[i][1] < client'.boot)
               /\ pc' = "newboot" => runs[i][1] < cand'.boot
               /\ \A j \in (i + 1)..Len(job) : runs[j] # <<>> => runs[i][1] < runs[j][1]
    <3>1. /\ runs[i][1] < boot /\ (~client.nil => runs[i][1] < client.boot)
          /\ pc = "newboot" => runs[i][1] < cand.boot
          /\ \A j \in (i + 1)..Len(job) : runs[j] # <<>> => runs[i][1] < runs[j][1]
      BY <2>2 DEF IInv, Boots
    <3>2. Len(steps) # 0
      BY <2>2
    <3>3. runs[i][1] \in Nat
      <4>1. i \in 1..Len(job)
        <5>1. Len(steps) <= Len(job) /\ Len(steps) \in Nat /\ Len(job) \in Nat
          BY JobFacts DEF IInv, Phase, TypeOK
        <5> QED
          BY <5>1
      <4>2. runs[i] \in Seq(Nat) /\ runs[i] # <<>>
        BY <2>2, <4>1 DEF IInv, TypeOK, Rebooted
      <4> QED
        BY <4>2
    <3>4. runs[i][1] < boot'
      BY <2>1, <3>1, <3>3
    <3> QED
      BY <3>1, <3>2, <3>4 DEF BootsFit
  <2>3. \A i : Rebooted(i)' <=> Rebooted(i)
    BY <1>1 DEF Rebooted
  <2>4. boot' >= 1 /\ oldBoot' \in 0..boot'
    BY <2>1 DEF BootsFit
  <2> QED
    BY <1>1, <2>2, <2>3, <2>4 DEF Boots, BootsFit
<1>3. Ran'
  <2>1. \A i \in 1..Len(job) :
          /\ Len(runs[i]) <= Retries(job[i]) + 1
          /\ i > k \/ (i = k /\ pc' \notin Trying \cup Waiting) => runs[i] = <<>>
    BY DEF IInv, Ran, TriesFit
  <2> QED
    BY <1>1, <2>1 DEF Ran, TriesFit
<1>4. Verdict'
  BY <1>1 DEF IInv, Verdict, TriesFit
<1>5. SuccessMeansRan' /\ NothingRunsAfterAStop'
  BY <1>1 DEF IInv, SuccessMeansRan, NothingRunsAfterAStop
<1> QED
  BY <1>2, <1>3, <1>4, <1>5 DEF IInv

-----------------------------------------------------------------------------
(* The remote host, the clock and the user.                                *)

\* The type invariant in parts: the control, the connections, the flags, the
\* report and the world.
TypeAt ==
  /\ job \in Jobs
  /\ pc \in {"dial", "backoff", "probe", "next", "bootid", "attempt", "command",
             "tried", "retrywait", "judge", "sleep", "redial", "newboot", "done"}
  /\ k \in 1..(Len(job) + 1) /\ attempt \in 1..(ConnectRetries + 1) /\ try \in Nat
  /\ runs \in [1..Len(job) -> Seq(Nat)]

TypeConns ==
  /\ client \in Conn /\ cand \in Conn /\ open \in 0..2
  /\ lastDial \in Cat \cup {"ok", "none"}

TypeFlags ==
  /\ sudoPW \in BOOLEAN /\ sawOldBoot \in BOOLEAN
  /\ expired \in BOOLEAN /\ stopped \in BOOLEAN /\ cancelled \in BOOLEAN

TypeReport ==
  /\ res \in [cat : Cat, exit : {"ok", "bad", "none"}, started : BOOLEAN]
  /\ steps \in Seq([status : Statuses, cat : Cat])
  /\ host \in [status : Statuses, cat : Cat, step : Nat]

TypeWorld ==
  /\ oldBoot \in Nat /\ up \in BOOLEAN /\ boot \in Nat
  /\ nopasswd \in BOOLEAN /\ silent \in BOOLEAN /\ events \in 0..MaxEvents

LEMMA TypeParts ==
  /\ TypeOK <=> TypeAt /\ TypeConns /\ TypeFlags /\ TypeReport /\ TypeWorld
  /\ TypeOK' <=> TypeAt' /\ TypeConns' /\ TypeFlags' /\ TypeReport' /\ TypeWorld'
<1>1. TypeOK <=> TypeAt /\ TypeConns /\ TypeFlags /\ TypeReport /\ TypeWorld
  BY Zenon DEF TypeOK, TypeAt, TypeConns, TypeFlags, TypeReport, TypeWorld
<1>2. TypeOK' <=> TypeAt' /\ TypeConns' /\ TypeFlags' /\ TypeReport' /\ TypeWorld'
  BY Zenon DEF TypeOK, TypeAt, TypeConns, TypeFlags, TypeReport, TypeWorld
<1> QED
  BY <1>1, <1>2

LEMMA TypeKept ==
  ASSUME TypeOK
  PROVE  /\ UNCHANGED <<job, pc, k, attempt, try, runs>> => TypeAt'
         /\ UNCHANGED <<client, cand, open, lastDial>> => TypeConns'
         /\ UNCHANGED <<sudoPW, sawOldBoot, expired, stopped, cancelled>> => TypeFlags'
         /\ UNCHANGED <<res, steps, host>> => TypeReport'
         /\ UNCHANGED <<oldBoot, up, boot, nopasswd, silent, events>> => TypeWorld'
<1>1. TypeAt /\ TypeConns /\ TypeFlags /\ TypeReport /\ TypeWorld
  BY TypeParts
<1>2. UNCHANGED <<job, pc, k, attempt, try, runs>> => TypeAt'
  BY <1>1 DEF TypeAt
<1>3. UNCHANGED <<client, cand, open, lastDial>> => TypeConns'
  BY <1>1 DEF TypeConns
<1>4. UNCHANGED <<sudoPW, sawOldBoot, expired, stopped, cancelled>> => TypeFlags'
  BY <1>1, Zenon DEF TypeFlags
<1>5. UNCHANGED <<res, steps, host>> => TypeReport'
  BY <1>1 DEF TypeReport
<1>6. UNCHANGED <<oldBoot, up, boot, nopasswd, silent, events>> => TypeWorld'
  BY <1>1, Zenon DEF TypeWorld
<1> QED
  BY <1>2, <1>3, <1>4, <1>5, <1>6

LEMMA ConnFacts ==
  ASSUME NEW c \in Conn
  PROVE  /\ Closed(c) \in Conn /\ Closed(c).nil = c.nil /\ Closed(c).boot = c.boot
         /\ ~Closed(c).open
         /\ [c EXCEPT !.live = FALSE] \in Conn /\ [c EXCEPT !.live = FALSE].nil = c.nil
         /\ [c EXCEPT !.live = FALSE].boot = c.boot
         /\ [c EXCEPT !.live = FALSE].open = c.open
BY DEF Conn, Closed

\* d is c, but for a line that may have been cut.
Same(c, d) == d.nil = c.nil /\ d.open = c.open /\ d.boot = c.boot

LEMMA WorldKeeps ==
  ASSUME IInv, TypeOK',
         UNCHANGED <<job, pc, attempt, try, open, res, oldBoot, report, runs, lastDial>>,
         Same(client, client'), Same(cand, cand'), boot' >= boot, cancelled => cancelled'
  PROVE  IInv'
<1>1. /\ job' = job /\ pc' = pc /\ k' = k /\ attempt' = attempt /\ try' = try
      /\ open' = open /\ res' = res /\ oldBoot' = oldBoot /\ stopped' = stopped
      /\ steps' = steps /\ host' = host /\ runs' = runs /\ lastDial' = lastDial
  BY DEF report
<1>2. Phase' /\ Final'
  BY <1>1 DEF IInv, Phase, Final
<1>3. Held(client') = Held(client) /\ Held(cand') = Held(cand)
  BY DEF Held, Same
<1>4. Clients'
  BY <1>1, <1>3 DEF IInv, Clients, Same
<1>5. BootsFit
  <2>1. boot \in Nat /\ boot' \in Nat /\ oldBoot \in Nat /\ boot' >= boot
    BY DEF IInv, TypeOK
  <2>2. \A n \in Nat : n <= boot => n <= boot'
    BY <2>1
  <2>3. client.boot \in Nat /\ cand.boot \in Nat
    BY DEF IInv, TypeOK, Conn
  <2> QED
    BY <1>1, <2>1, <2>2, <2>3 DEF IInv, Boots, BootsFit, Same
<1>6. TriesFit
  BY <1>1 DEF IInv, Ran, Verdict, TriesFit
<1> QED
  BY <1>1, <1>2, <1>4, <1>5, <1>6, QuietKeeps

LEMMA DropStep ==
  ASSUME IInv, Drop
  PROVE  IInv'
<1>1. /\ job' = job /\ pc' = pc /\ k' = k /\ attempt' = attempt /\ try' = try
      /\ open' = open /\ res' = res /\ oldBoot' = oldBoot /\ stopped' = stopped
      /\ steps' = steps /\ host' = host /\ runs' = runs /\ lastDial' = lastDial
      /\ sudoPW' = sudoPW /\ sawOldBoot' = sawOldBoot /\ expired' = expired
      /\ cancelled' = cancelled /\ up' = up /\ boot' = boot /\ nopasswd' = nopasswd
      /\ silent' = silent
  BY DEF Drop, report, waiting
<1>2. /\ client' \in Conn /\ Same(client, client')
      /\ cand' \in Conn /\ Same(cand, cand')
  BY ConnFacts DEF IInv, TypeOK, Drop, Same
<1>3. events' \in 0..MaxEvents
  BY HostRunAssumption DEF HostRunAssumption, IInv, TypeOK, Drop
<1>4. TypeOK'
  <2>1. TypeOK
    BY DEF IInv
  <2>2. TypeAt' /\ TypeConns' /\ TypeFlags' /\ TypeReport' /\ TypeWorld'
    BY <1>1, <1>2, <1>3, <2>1, TypeParts, TypeKept DEF TypeConns, TypeFlags, TypeWorld
  <2> QED
    BY <2>2, TypeParts
<1>5. boot' >= boot
  BY <1>1 DEF IInv, TypeOK
<1> QED
  BY <1>1, <1>2, <1>4, <1>5, WorldKeeps DEF report

LEMMA GoDownStep ==
  ASSUME IInv, GoDown
  PROVE  IInv'
<1>1. /\ job' = job /\ pc' = pc /\ k' = k /\ attempt' = attempt /\ try' = try
      /\ open' = open /\ res' = res /\ oldBoot' = oldBoot /\ stopped' = stopped
      /\ steps' = steps /\ host' = host /\ runs' = runs /\ lastDial' = lastDial
      /\ sudoPW' = sudoPW /\ sawOldBoot' = sawOldBoot /\ expired' = expired
      /\ cancelled' = cancelled /\ boot' = boot /\ nopasswd' = nopasswd
      /\ silent' = silent
  BY DEF GoDown, report, waiting
<1>2. /\ client' \in Conn /\ Same(client, client')
      /\ cand' \in Conn /\ Same(cand, cand')
  BY ConnFacts DEF IInv, TypeOK, GoDown, Same
<1>3. events' \in 0..MaxEvents
  BY HostRunAssumption DEF HostRunAssumption, IInv, TypeOK, GoDown
<1>4. up' \in BOOLEAN
  BY Zenon DEF GoDown
<1>5. TypeOK'
  <2>1. TypeOK
    BY DEF IInv
  <2>2. TypeAt' /\ TypeConns' /\ TypeFlags' /\ TypeReport' /\ TypeWorld'
    BY <1>1, <1>2, <1>3, <1>4, <2>1, TypeParts, TypeKept DEF TypeConns, TypeFlags,
                                                             TypeWorld
  <2> QED
    BY <2>2, TypeParts
<1>6. boot' >= boot
  BY <1>1 DEF IInv, TypeOK
<1> QED
  BY <1>1, <1>2, <1>5, <1>6, WorldKeeps DEF report

LEMMA ComeUpStep ==
  ASSUME IInv, ComeUp
  PROVE  IInv'
<1>1. /\ job' = job /\ pc' = pc /\ k' = k /\ attempt' = attempt /\ try' = try
      /\ open' = open /\ res' = res /\ oldBoot' = oldBoot /\ stopped' = stopped
      /\ steps' = steps /\ host' = host /\ runs' = runs /\ lastDial' = lastDial
      /\ sudoPW' = sudoPW /\ sawOldBoot' = sawOldBoot /\ expired' = expired
      /\ cancelled' = cancelled /\ nopasswd' = nopasswd
      /\ silent' = silent /\ events' = events
      /\ client' = client /\ cand' = cand
  BY DEF ComeUp, report, waiting
<1>2. boot' \in Nat /\ boot' >= boot
  BY DEF IInv, TypeOK, ComeUp
<1>3. up' \in BOOLEAN
  BY Zenon DEF ComeUp
<1>4. TypeOK'
  <2>1. TypeOK
    BY DEF IInv
  <2>2. TypeAt' /\ TypeConns' /\ TypeFlags' /\ TypeReport' /\ TypeWorld'
    BY <1>1, <1>2, <1>3, <2>1, TypeParts, TypeKept DEF TypeConns, TypeFlags, TypeWorld
  <2> QED
    BY <2>2, TypeParts
<1> QED
  BY <1>1, <1>2, <1>4, WorldKeeps DEF report, Same

LEMMA FallSilentStep ==
  ASSUME IInv, FallSilent
  PROVE  IInv'
<1>1. /\ job' = job /\ pc' = pc /\ k' = k /\ attempt' = attempt /\ try' = try
      /\ open' = open /\ res' = res /\ oldBoot' = oldBoot /\ stopped' = stopped
      /\ steps' = steps /\ host' = host /\ runs' = runs /\ lastDial' = lastDial
      /\ sudoPW' = sudoPW /\ sawOldBoot' = sawOldBoot /\ expired' = expired
      /\ cancelled' = cancelled /\ nopasswd' = nopasswd /\ events' = events
      /\ up' = up /\ boot' = boot /\ client' = client /\ cand' = cand
  BY DEF FallSilent, report, waiting
<1>2. silent' \in BOOLEAN
  BY Zenon DEF FallSilent
<1>3. TypeOK'
  <2>1. TypeOK
    BY DEF IInv
  <2>2. TypeAt' /\ TypeConns' /\ TypeFlags' /\ TypeReport'
    BY <1>1, <2>1, TypeKept
  <2>3. TypeWorld
    BY <2>1, TypeParts
  <2>4. TypeWorld'
    BY <1>1, <1>2, <2>3, Zenon DEF TypeWorld
  <2> QED
    BY <2>2, <2>4, TypeParts
<1>4. boot' >= boot
  BY <1>1 DEF IInv, TypeOK
<1> QED
  BY <1>1, <1>3, <1>4, WorldKeeps DEF report, Same

LEMMA ExpireStep ==
  ASSUME IInv, Expire
  PROVE  IInv'
<1>1. /\ job' = job /\ pc' = pc /\ k' = k /\ attempt' = attempt /\ try' = try
      /\ open' = open /\ res' = res /\ oldBoot' = oldBoot /\ stopped' = stopped
      /\ steps' = steps /\ host' = host /\ runs' = runs /\ lastDial' = lastDial
      /\ sudoPW' = sudoPW /\ sawOldBoot' = sawOldBoot /\ up' = up /\ boot' = boot
      /\ cancelled' = cancelled /\ nopasswd' = nopasswd
      /\ silent' = silent /\ events' = events
      /\ client' = client /\ cand' = cand
  BY DEF Expire, report, remote
<1>2. expired' \in BOOLEAN
  BY Zenon DEF Expire
<1>3. TypeOK'
  <2>1. TypeOK
    BY DEF IInv
  <2>2. TypeAt' /\ TypeConns' /\ TypeFlags' /\ TypeReport' /\ TypeWorld'
    BY <1>1, <1>2, <2>1, TypeParts, TypeKept DEF TypeConns, TypeFlags, TypeWorld
  <2> QED
    BY <2>2, TypeParts
<1>4. boot' >= boot
  BY <1>1 DEF IInv, TypeOK
<1> QED
  BY <1>1, <1>3, <1>4, WorldKeeps DEF report, Same

LEMMA CancelStep ==
  ASSUME IInv, Cancel
  PROVE  IInv'
<1>1. /\ job' = job /\ pc' = pc /\ k' = k /\ attempt' = attempt /\ try' = try
      /\ open' = open /\ res' = res /\ oldBoot' = oldBoot /\ stopped' = stopped
      /\ steps' = steps /\ host' = host /\ runs' = runs /\ lastDial' = lastDial
      /\ sudoPW' = sudoPW /\ sawOldBoot' = sawOldBoot /\ expired' = expired
      /\ up' = up /\ boot' = boot /\ nopasswd' = nopasswd
      /\ silent' = silent /\ events' = events
      /\ client' = client /\ cand' = cand
  BY DEF Cancel, report, remote, waiting
<1>2. cancelled' = TRUE
  BY DEF Cancel
<1>3. TypeOK'
  <2>1. TypeOK
    BY DEF IInv
  <2>2. TypeAt' /\ TypeConns' /\ TypeFlags' /\ TypeReport' /\ TypeWorld'
    BY <1>1, <1>2, <2>1, TypeParts, TypeKept DEF TypeConns, TypeFlags, TypeWorld
  <2> QED
    BY <2>2, TypeParts
<1>4. boot' >= boot
  BY <1>1 DEF IInv, TypeOK
<1> QED
  BY <1>1, <1>2, <1>3, <1>4, WorldKeeps DEF report, Same

-----------------------------------------------------------------------------
(* connect and the probe for sudo.                                         *)

\* Facts about a state that the steps need again and again.
LEMMA StateFacts ==
  ASSUME IInv
  PROVE  /\ TypeOK /\ job \in Jobs /\ Len(job) \in Nat /\ Len(job) >= 1
         /\ k \in 1..(Len(job) + 1) /\ attempt \in Nat /\ try \in Nat
         /\ pc \in InStep => k \in 1..Len(job)
         /\ client \in Conn /\ cand \in Conn /\ open \in Nat
         /\ boot \in Nat /\ boot >= 1 /\ oldBoot \in 0..boot
         /\ \A i \in 1..Len(job) : runs[i] \in Seq(Nat)
         /\ ConnectRetries \in Nat
<1>1. /\ TypeOK /\ job \in Jobs /\ k \in 1..(Len(job) + 1) /\ try \in Nat
      /\ client \in Conn /\ cand \in Conn /\ boot \in Nat
      /\ runs \in [1..Len(job) -> Seq(Nat)]
  BY Zenon DEF IInv, TypeOK
<1>2. attempt \in Nat /\ open \in Nat /\ ConnectRetries \in Nat
  BY HostRunAssumption DEF HostRunAssumption, IInv, TypeOK
<1>3. Len(job) \in Nat /\ Len(job) >= 1
  BY <1>1, JobFacts
<1>4. pc \in InStep => k \in 1..Len(job)
  BY <1>1, <1>3 DEF IInv, Phase
<1>5. boot >= 1 /\ oldBoot \in 0..boot
  BY DEF IInv, Boots
<1> QED
  BY <1>1, <1>2, <1>3, <1>4, <1>5

\* The boots stay as they are and the client is the one there was.
LEMMA BootsStay ==
  ASSUME IInv, boot' = boot, oldBoot' = oldBoot, client'.nil = client.nil,
         client'.boot = client.boot, pc' # "newboot",
         pc' \in Trying \cup Waiting /\ job[k].mode = "reboot" =>
           pc \in Trying \cup Waiting /\ (pc' \in Trying => pc \in Trying)
  PROVE  BootsFit
BY StateFacts DEF IInv, Boots, BootsFit

\* The client has become d.
LEMMA OpenFacts ==
  ASSUME IInv, NEW d \in Conn, d.open => client.open
  PROVE  /\ OpenAfter(client, d) = Held(d) + Held(cand)
         /\ OpenAfter(client, d) \in 0..2
<1>1. /\ client.open \in BOOLEAN /\ d.open \in BOOLEAN
      /\ open = Held(client) + Held(cand)
  BY DEF IInv, TypeOK, Clients, Conn
<1> QED
  BY <1>1 DEF OpenAfter, Held

LEMMA HeldFacts == \A c : Held(c) \in {0, 1} /\ (Held(c) = 1 <=> c.open)
BY DEF Held

LEMMA NoConnectionKeeps ==
  ASSUME IInv, pc \in {"dial", "backoff"}, NEW cat \in Cat \ {"nil"}, NoConnection(cat),
         cat = "CANCELLED" => cancelled, lastDial' \in Cat \cup {"ok", "none"},
         UNCHANGED <<job, k, attempt, try, client, cand, open, res, sudoPW, waiting,
                     stopped, cancelled, remote, runs>>
  PROVE  IInv'
<1>1. /\ job' = job /\ k' = k /\ attempt' = attempt /\ try' = try /\ client' = client
      /\ cand' = cand /\ open' = open /\ res' = res /\ sudoPW' = sudoPW
      /\ oldBoot' = oldBoot /\ sawOldBoot' = sawOldBoot /\ expired' = expired
      /\ stopped' = stopped /\ cancelled' = cancelled /\ up' = up /\ boot' = boot
      /\ events' = events /\ nopasswd' = nopasswd /\ silent' = silent /\ runs' = runs
  BY DEF waiting, remote
<1>2. pc' = "done" /\ host' = Fail(cat, 0)
      /\ steps' = [i \in 1..Len(job) |-> SR("SKIPPED", "nil")]
  BY DEF NoConnection
<1>3. k = 1 /\ ~stopped /\ Len(steps) = 0 /\ try = 0
  BY DEF IInv, Phase, Trying, Waiting
<1>4. host.cat = "nil"
  <2>1. host.step = 0
    BY <1>3 DEF IInv, Verdict
  <2> QED
    BY <2>1 DEF IInv, Verdict
<1>5. /\ host'.cat = cat /\ host'.step = 0
      /\ host'.status = IF cat = "CANCELLED" THEN "CANCELLED" ELSE "FAILED"
      /\ host' \in [status : Statuses, cat : Cat, step : Nat]
  BY <1>2, <1>4 DEF Fail, Statuses
<1>6. /\ steps' \in Seq([status : Statuses, cat : Cat]) /\ Len(steps') = Len(job)
      /\ \A i \in 1..Len(job) : steps'[i].status = "SKIPPED"
  <2>1. SR("SKIPPED", "nil") \in [status : Statuses, cat : Cat]
        /\ SR("SKIPPED", "nil").status = "SKIPPED"
    BY DEF SR, Statuses, Cat
  <2> QED
    BY <1>2, <2>1, StateFacts
<1>7. \A i \in 1..Len(job) : runs[i] = <<>>
  BY <1>3, StateFacts DEF IInv, Ran, Trying, Waiting
<1>8. TypeOK'
  <2>1. TypeAt'
    BY <1>1, <1>2, StateFacts, TypeParts DEF TypeAt
  <2>2. TypeConns' /\ TypeFlags' /\ TypeWorld'
    BY <1>1, StateFacts, TypeKept, TypeParts DEF TypeConns
  <2>3. TypeReport'
    BY <1>1, <1>5, <1>6, StateFacts, TypeParts DEF TypeReport
  <2> QED
    BY <2>1, <2>2, <2>3, TypeParts
<1>9. Phase'
  BY <1>1, <1>2, <1>3, <1>6 DEF Phase, InStep, Trying, Waiting
<1>10. Clients'
  BY <1>1, <1>2 DEF IInv, Clients, Trying, Waiting, Held
<1>11. \A i \in 1..Len(steps') : ~Rebooted(i)'
  BY <1>6 DEF Rebooted
<1>12. Boots'
  BY <1>1, <1>2, <1>11 DEF IInv, Boots, Trying, Waiting
<1>13. Ran'
  BY <1>1, <1>2, <1>7 DEF IInv, Ran, Trying, Waiting
<1>14. Verdict'
  BY <1>1, <1>2, <1>5, <1>6, StateFacts DEF IInv, Verdict
<1>15. Final' /\ SuccessMeansRan' /\ NothingRunsAfterAStop'
  BY <1>1, <1>2, <1>6, <1>7 DEF Final, SuccessMeansRan, NothingRunsAfterAStop
<1> QED
  BY <1>8, <1>9, <1>10, <1>12, <1>13, <1>14, <1>15 DEF IInv

LEMMA DialFacts ==
  /\ DialFailures(cancelled, expired) \subseteq Cat \ {"nil"}
  /\ "CANCELLED" \in DialFailures(cancelled, expired) => cancelled
  /\ Dialled.boot = boot /\ ~Dialled.nil /\ Dialled.open
  /\ boot \in Nat => Dialled \in Conn
<1>1. /\ DialFailures(cancelled, expired) \subseteq Cat \ {"nil"}
      /\ "CANCELLED" \in DialFailures(cancelled, expired) => cancelled
  BY DEF DialFailures, Unclassified, Cat
<1>2. Dialled.boot = boot /\ ~Dialled.nil /\ Dialled.open
  BY Zenon DEF Dialled
<1>3. boot \in Nat => Dialled \in Conn
  <2>1. (~(cancelled \/ expired)) \in BOOLEAN
    BY Zenon
  <2> QED
    BY <2>1, Zenon DEF Dialled, Conn
<1> QED
  BY <1>1, <1>2, <1>3

LEMMA ConnectStep ==
  ASSUME IInv, Connect
  PROVE  IInv'
<1>1. /\ job' = job /\ k' = k /\ try' = try
      /\ cand' = cand /\ res' = res /\ sudoPW' = sudoPW
      /\ oldBoot' = oldBoot /\ sawOldBoot' = sawOldBoot /\ expired' = expired
      /\ stopped' = stopped /\ cancelled' = cancelled /\ up' = up /\ boot' = boot
      /\ events' = events /\ nopasswd' = nopasswd
      /\ silent' = silent /\ runs' = runs /\ pc = "dial"
  BY DEF Connect, waiting, remote
<1>2. k = 1 /\ ~stopped /\ Len(steps) = 0 /\ try = 0 /\ ~client.open /\ ~cand.open
  BY <1>1 DEF IInv, Phase, Clients, Trying, Waiting
<1>3. CASE /\ client' = Dialled /\ open' = open + 1 /\ lastDial' = "ok"
           /\ pc' = "probe" /\ UNCHANGED <<attempt, steps, host>>
  <2>1. client'.boot = boot /\ ~client'.nil /\ client'.open /\ client' \in Conn
    BY <1>3, DialFacts, StateFacts
  <2>2. open' = 1 /\ open' = Held(client') + Held(cand')
    BY <1>1, <1>2, <1>3, <2>1 DEF IInv, Clients, Held
  <2>3. TypeOK'
    <3>1. TypeAt'
      BY <1>1, <1>3, StateFacts, TypeParts DEF TypeAt
    <3>2. TypeConns'
      BY <1>1, <1>3, <2>1, <2>2, StateFacts DEF TypeConns
    <3>3. TypeFlags' /\ TypeReport' /\ TypeWorld'
      BY <1>1, <1>3, StateFacts, TypeKept, TypeParts
    <3> QED
      BY <3>1, <3>2, <3>3, TypeParts
  <2>4. Phase' /\ Final'
    BY <1>1, <1>2, <1>3 DEF IInv, Phase, Final, InStep, Trying, Waiting
  <2>5. Clients'
    BY <1>1, <1>2, <1>3, <2>1, <2>2 DEF Clients, Trying, Waiting
  <2>6. BootsFit
    BY <1>1, <1>2, <1>3, <2>1, StateFacts DEF BootsFit, Trying, Waiting
  <2>7. TriesFit
    BY <1>1, <1>3 DEF IInv, Verdict, TriesFit, Trying, Waiting
  <2> QED
    BY <1>1, <1>3, <2>3, <2>4, <2>5, <2>6, <2>7, QuietKeeps
<1>4. ASSUME NEW cat \in DialFailures(cancelled, expired), lastDial' = cat,
             UNCHANGED <<client, open, attempt>>
      PROVE  /\ cat \in Cat \ {"nil"} /\ lastDial' \in Cat \cup {"ok", "none"}
             /\ cat = "CANCELLED" => cancelled
  BY <1>4, DialFacts
<1>5. ASSUME NEW cat \in DialFailures(cancelled, expired), lastDial' = cat,
             UNCHANGED <<client, open, attempt>>,
             NoConnection(cat)
      PROVE  IInv'
  BY <1>1, <1>4, <1>5, NoConnectionKeeps DEF waiting, remote
<1>6. ASSUME NEW cat \in DialFailures(cancelled, expired), lastDial' = cat,
             UNCHANGED <<client, open, attempt>>,
             Retryable(cat), attempt <= ConnectRetries, pc' = "backoff",
             UNCHANGED <<steps, host>>
      PROVE  IInv'
  <2>1. TypeOK'
    <3>1. TypeAt'
      BY <1>1, <1>6, StateFacts, TypeParts DEF TypeAt
    <3>2. TypeConns'
      BY <1>1, <1>4, <1>6, StateFacts, TypeParts DEF TypeConns
    <3>3. TypeFlags' /\ TypeReport' /\ TypeWorld'
      BY <1>1, <1>6, StateFacts, TypeKept, TypeParts
    <3> QED
      BY <3>1, <3>2, <3>3, TypeParts
  <2>2. Phase' /\ Final'
    BY <1>1, <1>2, <1>6 DEF IInv, Phase, Final, InStep, Trying, Waiting, Retryable
  <2>3. Clients'
    BY <1>1, <1>2, <1>6 DEF IInv, Clients, Trying, Waiting, Held
  <2>4. BootsFit
    BY <1>1, <1>6, BootsStay DEF Trying, Waiting
  <2>5. TriesFit
    BY <1>1, <1>6 DEF IInv, Verdict, TriesFit, Trying, Waiting
  <2> QED
    BY <1>1, <1>6, <2>1, <2>2, <2>3, <2>4, <2>5, QuietKeeps
<1> QED
  <2>1. attempt > ConnectRetries \/ attempt <= ConnectRetries
    BY StateFacts
  <2> QED
    BY <1>3, <1>5, <1>6, <2>1 DEF Connect

LEMMA BackoffStep ==
  ASSUME IInv, Backoff
  PROVE  IInv'
<1>1. /\ job' = job /\ k' = k /\ try' = try /\ client' = client /\ open' = open
      /\ cand' = cand /\ res' = res /\ sudoPW' = sudoPW /\ lastDial' = lastDial
      /\ oldBoot' = oldBoot /\ sawOldBoot' = sawOldBoot /\ expired' = expired
      /\ stopped' = stopped /\ cancelled' = cancelled /\ up' = up /\ boot' = boot
      /\ events' = events /\ nopasswd' = nopasswd
      /\ silent' = silent /\ runs' = runs /\ pc = "backoff"
  BY DEF Backoff, waiting, remote
<1>2. /\ k = 1 /\ ~stopped /\ Len(steps) = 0 /\ try = 0 /\ attempt <= ConnectRetries
      /\ lastDial # "AUTH_FAILED"
  BY <1>1 DEF IInv, Phase, Final, Trying, Waiting
<1>3. CASE cancelled /\ NoConnection("CANCELLED") /\ UNCHANGED attempt
  <2>1. "CANCELLED" \in Cat \ {"nil"} /\ lastDial' \in Cat \cup {"ok", "none"}
    BY <1>1 DEF IInv, TypeOK, Cat
  <2> QED
    BY <1>1, <1>3, <2>1, NoConnectionKeeps DEF waiting, remote
<1>4. CASE attempt' = attempt + 1 /\ pc' = "dial" /\ UNCHANGED <<steps, host>>
  <2>1. TypeOK'
    <3>1. TypeAt'
      BY <1>1, <1>2, <1>4, StateFacts, TypeParts DEF TypeAt
    <3>2. TypeConns' /\ TypeFlags' /\ TypeReport' /\ TypeWorld'
      BY <1>1, <1>4, StateFacts, TypeKept, TypeParts
    <3> QED
      BY <3>1, <3>2, TypeParts
  <2>2. Phase' /\ Final'
    BY <1>1, <1>2, <1>4 DEF IInv, Phase, Final, InStep, Trying, Waiting
  <2>3. Clients'
    BY <1>1, <1>4 DEF IInv, Clients, Trying, Waiting, Held
  <2>4. BootsFit
    BY <1>1, <1>4, BootsStay DEF Trying, Waiting
  <2>5. TriesFit
    BY <1>1, <1>4 DEF IInv, Verdict, TriesFit, Trying, Waiting
  <2> QED
    BY <1>1, <1>4, <2>1, <2>2, <2>3, <2>4, <2>5, QuietKeeps
<1> QED
  BY <1>3, <1>4 DEF Backoff

LEMMA ProbeStep ==
  ASSUME IInv, Probe
  PROVE  IInv'
<1>1. /\ job' = job /\ k' = k /\ try' = try /\ attempt' = attempt
      /\ cand' = cand /\ res' = res /\ lastDial' = lastDial
      /\ oldBoot' = oldBoot /\ sawOldBoot' = sawOldBoot /\ expired' = expired
      /\ stopped' = stopped /\ cancelled' = cancelled /\ up' = up /\ boot' = boot
      /\ events' = events /\ nopasswd' = nopasswd
      /\ silent' = silent /\ runs' = runs /\ steps' = steps
      /\ host' = host /\ pc = "probe" /\ pc' = "next"
  BY DEF Probe, waiting, remote, report
<1>2. /\ client' \in Conn /\ client'.nil = client.nil /\ client'.boot = client.boot
      /\ client'.open => client.open
      /\ open' = Held(client') + Held(cand') /\ open' \in 0..2
  <2> DEFINE G == /\ client' \in Conn /\ client'.nil = client.nil
                  /\ client'.boot = client.boot /\ (client'.open => client.open)
                  /\ open' = Held(client') + Held(cand') /\ open' \in 0..2
  <2>1. ASSUME UNCHANGED <<client, open>> PROVE G
    BY <1>1, <2>1, StateFacts DEF IInv, Clients, TypeOK, Held
  <2>2. ASSUME NEW o \in Outcomes(client), client' = o.conn,
               open' = OpenAfter(client, o.conn)
        PROVE  G
    BY <1>1, <2>2, StateFacts, OutcomeFacts, OpenFacts DEF Held
  <2> HIDE DEF G
  <2>3. \/ UNCHANGED <<client, open>>
        \/ \E o \in Outcomes(client) :
             client' = o.conn /\ open' = OpenAfter(client, o.conn)
    BY Zenon DEF Probe
  <2>4. G
    BY <2>1, <2>2, <2>3
  <2> QED
    BY <2>4 DEF G
<1>3. sudoPW' \in BOOLEAN
  <2>1. \A o : NeedsPassword(o) \in BOOLEAN
    BY Zenon DEF NeedsPassword
  <2> QED
    BY <2>1, StateFacts, Zenon DEF Probe, TypeOK
<1>4. TypeOK'
  <2>1. TypeAt'
    BY <1>1, StateFacts, TypeParts DEF TypeAt
  <2>2. TypeConns'
    BY <1>1, <1>2, StateFacts, TypeParts DEF TypeConns
  <2>3. TypeFlags'
    BY <1>1, <1>3, StateFacts, TypeParts, Zenon DEF TypeFlags
  <2>4. TypeReport' /\ TypeWorld'
    BY <1>1, StateFacts, TypeKept
  <2> QED
    BY <2>1, <2>2, <2>3, <2>4, TypeParts
<1>5. Phase' /\ Final'
  BY <1>1 DEF IInv, Phase, Final, InStep, Trying, Waiting
<1>6. Clients'
  BY <1>1, <1>2 DEF IInv, Clients, Trying, Waiting
<1>7. BootsFit
  BY <1>1, <1>2, BootsStay DEF Trying, Waiting
<1>8. TriesFit
  BY <1>1 DEF IInv, Verdict, TriesFit, Trying, Waiting
<1> QED
  BY <1>1, <1>4, <1>5, <1>6, <1>7, <1>8, QuietKeeps

-----------------------------------------------------------------------------
(* The loop over the steps.                                                *)

LEMMA SkipStepStep ==
  ASSUME IInv, SkipStep
  PROVE  IInv'
<1>1. /\ job' = job /\ pc' = pc /\ attempt' = attempt /\ try' = try /\ client' = client
      /\ cand' = cand /\ open' = open /\ res' = res /\ sudoPW' = sudoPW
      /\ oldBoot' = oldBoot /\ sawOldBoot' = sawOldBoot /\ expired' = expired
      /\ stopped' = stopped /\ cancelled' = cancelled /\ up' = up /\ boot' = boot
      /\ events' = events /\ nopasswd' = nopasswd
      /\ silent' = silent /\ runs' = runs /\ host' = host
      /\ lastDial' = lastDial /\ pc = "next" /\ stopped /\ k' = k + 1 /\ k <= Len(job)
  BY DEF SkipStep, waiting, remote
<1>2. k \in 1..Len(job) /\ Len(steps) = k - 1 /\ Len(job) \in Nat
  BY <1>1, StateFacts DEF IInv, Phase
<1>3. /\ steps' \in Seq([status : Statuses, cat : Cat]) /\ Len(steps') = k
      /\ steps'[k].status = "SKIPPED" /\ \A i \in 1..(k - 1) : steps'[i] = steps[i]
  <2>1. /\ SR("SKIPPED", "nil") \in [status : Statuses, cat : Cat]
        /\ SR("SKIPPED", "nil").status = "SKIPPED"
    BY DEF SR, Statuses, Cat
  <2>2. steps' = Append(steps, SR("SKIPPED", "nil"))
    BY DEF SkipStep
  <2>3. steps \in Seq([status : Statuses, cat : Cat])
    BY DEF IInv, TypeOK
  <2> QED
    BY <1>2, <2>1, <2>2, <2>3, AppendFacts
<1>4. TypeOK'
  <2>1. TypeAt'
    BY <1>1, <1>2, StateFacts, TypeParts DEF TypeAt
  <2>2. TypeConns' /\ TypeFlags' /\ TypeWorld'
    BY <1>1, StateFacts, TypeKept
  <2>3. TypeReport'
    BY <1>1, <1>3, StateFacts, TypeParts DEF TypeReport
  <2> QED
    BY <2>1, <2>2, <2>3, TypeParts
<1>5. Phase' /\ Final'
  BY <1>1, <1>2, <1>3 DEF IInv, Phase, Final, InStep, Trying, Waiting
<1>6. Clients'
  BY <1>1 DEF IInv, Clients, Trying, Waiting, Held
<1>7. Boots'
  <2>1. ASSUME NEW i \in 1..Len(steps'), Rebooted(i)'
        PROVE  i \in 1..Len(steps) /\ Rebooted(i)
    <3>1. i # k
      BY <1>3, <2>1 DEF Rebooted
    <3>2. i \in 1..(k - 1) /\ steps'[i] = steps[i]
      BY <1>2, <1>3, <3>1
    <3> QED
      BY <1>1, <1>2, <2>1, <3>2 DEF Rebooted
  <2> QED
    BY <1>1, <2>1 DEF IInv, Boots, Trying, Waiting
<1>8. Ran'
  <2>1. \A i \in 1..Len(job) :
          /\ Len(runs[i]) <= Retries(job[i]) + 1
          /\ i > k => runs[i] = <<>>
    BY DEF IInv, Ran
  <2>2. \A i \in 1..Len(job) : i > k + 1 \/ i = k + 1 => i > k
    BY <1>2
  <2> QED
    BY <1>1, <2>1, <2>2 DEF Ran, Trying, Waiting
<1>9. Verdict'
  <2>1. host.cat # "nil" /\ host.step # 0
    BY <1>1 DEF IInv, Verdict
  <2>2. /\ host.step \in 1..(k - 1)
        /\ steps[host.step].cat = host.cat /\ steps[host.step].status # "SUCCESS"
        /\ \A i \in 1..(host.step - 1) : steps[i].status = "SUCCESS"
    BY <1>2, <2>1 DEF IInv, Verdict
  <2>3. \A i \in 1..(host.step - 1) : i \in 1..(k - 1)
    BY <1>2, <2>2
  <2>4. /\ host.step \in 1..Len(steps')
        /\ steps'[host.step].cat = host.cat /\ steps'[host.step].status # "SUCCESS"
        /\ \A i \in 1..(host.step - 1) : steps'[i].status = "SUCCESS"
    BY <1>2, <1>3, <2>2, <2>3
  <2> QED
    BY <1>1, <2>1, <2>4 DEF IInv, Verdict
<1>10. SuccessMeansRan'
  <2> SUFFICES ASSUME NEW i \in 1..k, steps'[i].status = "SUCCESS",
                      ~(job[i].content /\ job[i].mode # "plain")
               PROVE  Len(runs[i]) >= 1
    BY <1>1, <1>3 DEF SuccessMeansRan
  <2>1. i \in 1..(k - 1) /\ steps'[i] = steps[i]
    BY <1>2, <1>3
  <2> QED
    BY <1>2, <2>1 DEF IInv, SuccessMeansRan
<1>11. NothingRunsAfterAStop'
  <2>1. ASSUME NEW i \in 1..k, steps'[i].status = "SKIPPED" PROVE runs[i] = <<>>
    <3>1. CASE i = k
      BY <1>1, <1>2, <3>1 DEF IInv, Ran, Trying, Waiting
    <3>2. CASE i # k
      BY <1>2, <1>3, <2>1, <3>2 DEF IInv, NothingRunsAfterAStop
    <3> QED
      BY <3>1, <3>2
  <2>2. ASSUME NEW i \in 1..Len(job), runs[i] # <<>>, NEW j \in 1..(i - 1)
        PROVE  j <= k /\ (steps'[j].status = "SUCCESS" \/ job[j].cont)
    <3>1. j <= Len(steps) /\ (steps[j].status = "SUCCESS" \/ job[j].cont)
      BY <2>2 DEF IInv, NothingRunsAfterAStop
    <3>2. j \in 1..(k - 1)
      BY <1>2, <3>1
    <3> QED
      BY <1>2, <1>3, <3>1, <3>2
  <2> QED
    BY <1>1, <1>3, <2>1, <2>2 DEF NothingRunsAfterAStop
<1> QED
  BY <1>4, <1>5, <1>6, <1>7, <1>8, <1>9, <1>10, <1>11 DEF IInv

LEMMA BeginStepStep ==
  ASSUME IInv, BeginStep
  PROVE  IInv'
<1>1. /\ job' = job /\ k' = k /\ attempt' = attempt /\ try' = try /\ client' = client
      /\ cand' = cand /\ open' = open /\ res' = res /\ sudoPW' = sudoPW
      /\ oldBoot' = oldBoot /\ sawOldBoot' = sawOldBoot /\ expired' = expired
      /\ stopped' = stopped /\ cancelled' = cancelled /\ up' = up /\ boot' = boot
      /\ events' = events /\ nopasswd' = nopasswd
      /\ silent' = silent /\ runs' = runs /\ host' = host
      /\ steps' = steps /\ lastDial' = lastDial /\ pc = "next" /\ ~stopped
      /\ k <= Len(job)
  BY DEF BeginStep, waiting, remote, report
<1>2. ~client.nil /\ k \in 1..Len(job) /\ try = 0 /\ lastDial # "AUTH_FAILED"
  BY <1>1, StateFacts DEF IInv, Clients, Phase, Final, Trying, Waiting
<1>3. pc' = IF job[k].mode = "reboot" THEN "bootid" ELSE "attempt"
  BY <1>2 DEF BeginStep
<1>4. Retries(job[k]) \in Nat /\ Len(runs[k]) = 0
  <2>1. runs[k] = <<>>
    BY <1>1, <1>2 DEF IInv, Ran, Trying, Waiting
  <2> QED
    BY <1>2, <2>1, StateFacts, JobFacts
<1>5. TypeOK'
  <2>1. TypeAt'
    BY <1>1, <1>3, StateFacts, TypeParts DEF TypeAt
  <2>2. TypeConns' /\ TypeFlags' /\ TypeReport' /\ TypeWorld'
    BY <1>1, StateFacts, TypeKept
  <2> QED
    BY <2>1, <2>2, TypeParts
<1>6. Phase' /\ Final'
  BY <1>1, <1>2, <1>3, <1>4 DEF IInv, Phase, Final, InStep, Trying, Waiting
<1>7. Clients'
  BY <1>1, <1>2, <1>3 DEF IInv, Clients, Trying, Waiting, Held
<1>8. BootsFit
  BY <1>1, <1>3, BootsStay DEF Trying, Waiting
<1>9. TriesFit
  BY <1>1, <1>2, <1>3, <1>4 DEF IInv, Verdict, TriesFit, Trying, Waiting
<1> QED
  BY <1>1, <1>5, <1>6, <1>7, <1>8, <1>9, QuietKeeps

LEMMA EndHostStep ==
  ASSUME IInv, EndHost
  PROVE  IInv'
<1>1. /\ job' = job /\ k' = k /\ attempt' = attempt /\ try' = try
      /\ cand' = cand /\ res' = res /\ sudoPW' = sudoPW
      /\ oldBoot' = oldBoot /\ sawOldBoot' = sawOldBoot /\ expired' = expired
      /\ stopped' = stopped /\ cancelled' = cancelled /\ up' = up /\ boot' = boot
      /\ events' = events /\ nopasswd' = nopasswd
      /\ silent' = silent /\ runs' = runs /\ host' = host
      /\ steps' = steps /\ lastDial' = lastDial /\ pc = "next" /\ pc' = "done"
      /\ k > Len(job)
  BY DEF EndHost, waiting, remote, report
<1>2. /\ client' \in Conn /\ client'.nil = client.nil /\ client'.boot = client.boot
      /\ ~client'.open /\ open' = OpenAfter(client, client')
  BY StateFacts, ConnFacts DEF EndHost
<1>3. open' = Held(client') + Held(cand') /\ open' \in 0..2
  BY <1>1, <1>2, OpenFacts DEF Held
<1>4. TypeOK'
  <2>1. TypeAt'
    BY <1>1, StateFacts, TypeParts DEF TypeAt
  <2>2. TypeConns'
    BY <1>1, <1>2, <1>3, StateFacts, TypeParts DEF TypeConns
  <2>3. TypeFlags' /\ TypeReport' /\ TypeWorld'
    BY <1>1, StateFacts, TypeKept
  <2> QED
    BY <2>1, <2>2, <2>3, TypeParts
<1>5. k = Len(job) + 1
  BY <1>1, StateFacts
<1>6. Len(steps) = Len(job)
  BY <1>1, <1>5, StateFacts DEF IInv, Phase
<1>7. Phase' /\ Final'
  BY <1>1, <1>6 DEF IInv, Phase, Final, InStep, Trying, Waiting
<1>8. Clients'
  BY <1>1, <1>2, <1>3 DEF IInv, Clients, Trying, Waiting
<1>9. BootsFit
  BY <1>1, <1>2, BootsStay DEF Trying, Waiting
<1>10. TriesFit
  BY <1>1 DEF IInv, Verdict, TriesFit, Trying, Waiting
<1> QED
  BY <1>1, <1>4, <1>7, <1>8, <1>9, <1>10, QuietKeeps

-----------------------------------------------------------------------------
(* The attempts of a step.                                                 *)

\* An Exec on the client.
LEMMA ExecFacts ==
  ASSUME IInv, NEW o \in Outcomes(client), ~cand.open
  PROVE  /\ o.conn \in Conn /\ o.conn.nil = client.nil /\ o.conn.boot = client.boot
         /\ o.conn.open => client.open
         /\ OpenAfter(client, o.conn) = Held(o.conn)
         /\ OpenAfter(client, o.conn) \in 0..2
<1>1. /\ o.conn \in Conn /\ o.conn.nil = client.nil /\ o.conn.boot = client.boot
      /\ o.conn.open => client.open
  BY StateFacts, OutcomeFacts
<1>2. /\ OpenAfter(client, o.conn) = Held(o.conn) + Held(cand)
      /\ OpenAfter(client, o.conn) \in 0..2
  BY <1>1, OpenFacts
<1> QED
  BY <1>1, <1>2 DEF Held

LEMMA ReadBootIDStep ==
  ASSUME IInv, ReadBootID
  PROVE  IInv'
<1>1. /\ job' = job /\ attempt' = attempt /\ cand' = cand /\ sudoPW' = sudoPW
      /\ cancelled' = cancelled /\ up' = up /\ boot' = boot /\ events' = events
      /\ nopasswd' = nopasswd
      /\ silent' = silent /\ runs' = runs /\ lastDial' = lastDial /\ pc = "bootid"
  BY DEF ReadBootID, remote
<1>2. /\ ~client.nil /\ ~cand.open /\ k \in 1..Len(job) /\ lastDial # "AUTH_FAILED"
      /\ try = 0 /\ client.boot \in 1..boot
      /\ \A i \in 1..Len(steps) : Rebooted(i) => runs[i][1] < client.boot
  BY <1>1, StateFacts
  DEF IInv, Clients, Phase, Boots, Final, InStep, Trying, Waiting
<1>3. PICK o \in Outcomes(client) :
        /\ open' = OpenAfter(client, o.conn)
        /\ \/ /\ o.cat = "nil" /\ o.exit = "ok"
              /\ oldBoot' = client.boot /\ client' = o.conn /\ pc' = "attempt"
              /\ UNCHANGED <<try, res, sawOldBoot, expired, report>>
           \/ LET cat == IF o.cat # "nil" THEN o.cat ELSE "COMMAND_FAILED"
              IN EndStep(SR("FAILED", cat), cat, o.conn)
  BY Zenon DEF ReadBootID
<1>4. /\ o.conn \in Conn /\ o.conn.nil = client.nil /\ o.conn.boot = client.boot
      /\ o.conn.open => client.open
      /\ open' = Held(o.conn) /\ open' \in 0..2
  BY <1>2, <1>3, ExecFacts
<1>5. CASE /\ oldBoot' = client.boot /\ client' = o.conn /\ pc' = "attempt"
           /\ UNCHANGED <<try, res, sawOldBoot, expired, report>>
  <2>1. /\ try' = try /\ res' = res /\ sawOldBoot' = sawOldBoot /\ expired' = expired
        /\ steps' = steps /\ host' = host /\ stopped' = stopped /\ k' = k
    BY <1>5 DEF report
  <2>2. TypeOK'
    <3>1. TypeAt'
      BY <1>1, <1>5, <2>1, StateFacts, TypeParts DEF TypeAt
    <3>2. TypeConns'
      BY <1>1, <1>4, <1>5, StateFacts, TypeParts DEF TypeConns
    <3>3. TypeFlags' /\ TypeReport'
      BY <1>1, <2>1, StateFacts, TypeKept
    <3>4. oldBoot' \in Nat
      BY <1>2, <1>5, StateFacts
    <3>5. TypeWorld'
      BY <1>1, <3>4, StateFacts, TypeParts, Zenon DEF TypeWorld
    <3> QED
      BY <3>1, <3>2, <3>3, <3>5, TypeParts
  <2>3. runs[k] = <<>> /\ Retries(job[k]) \in Nat
    BY <1>1, <1>2, StateFacts, JobFacts DEF IInv, Ran, Trying, Waiting
  <2>4. Phase' /\ Final'
    BY <1>1, <1>2, <1>5, <2>1, <2>3 DEF IInv, Phase, Final, InStep, Trying, Waiting
  <2>5. Clients'
    BY <1>1, <1>2, <1>4, <1>5, <2>1 DEF IInv, Clients, Trying, Waiting, Held
  <2>6. Len(runs[k]) = 0
    BY <2>3
  <2>7. BootsFit
    BY <1>1, <1>2, <1>4, <1>5, <2>6, StateFacts DEF BootsFit, Trying, Waiting
  <2>8. TriesFit
    BY <1>1, <1>2, <1>5, <2>1, <2>6 DEF IInv, Verdict, TriesFit, Trying, Waiting
  <2> QED
    BY <1>1, <2>1, <2>2, <2>4, <2>5, <2>7, <2>8, <1>5, QuietKeeps
<1>6. ASSUME NEW cat, cat = IF o.cat # "nil" THEN o.cat ELSE "COMMAND_FAILED",
             EndStep(SR("FAILED", cat), cat, o.conn)
      PROVE  IInv'
  <2>1. cat \in Cat /\ cat # "nil" /\ (cat = "CANCELLED" => cancelled)
    BY <1>6, StateFacts, OutcomeFacts DEF Cat
  <2>2. /\ SR("FAILED", cat) \in [status : Statuses, cat : Cat]
        /\ SR("FAILED", cat).cat = cat /\ SR("FAILED", cat).status = "FAILED"
    BY <2>1 DEF SR, Statuses
  <2>3. lastDial' \in Cat \cup {"ok", "none"} /\ cand' \in Conn /\ ~cand'.open
    BY <1>1, <1>2, StateFacts DEF TypeOK
  <2>4. UNCHANGED <<job, attempt, sudoPW, cancelled, remote, runs>>
    BY <1>1 DEF remote
  <2> QED
    BY <1>1, <1>2, <1>4, <1>6, <2>1, <2>2, <2>3, <2>4, EndStepKeeps DEF InStep
<1> QED
  BY <1>3, <1>5, <1>6

LEMMA UploadStep ==
  ASSUME IInv, Upload
  PROVE  IInv'
<1>1. /\ job' = job /\ k' = k /\ try' = try /\ attempt' = attempt
      /\ cand' = cand /\ sudoPW' = sudoPW /\ lastDial' = lastDial
      /\ oldBoot' = oldBoot /\ sawOldBoot' = sawOldBoot /\ expired' = expired
      /\ stopped' = stopped /\ cancelled' = cancelled /\ up' = up /\ boot' = boot
      /\ events' = events /\ nopasswd' = nopasswd
      /\ silent' = silent /\ runs' = runs /\ steps' = steps
      /\ host' = host /\ pc = "attempt" /\ job[k].content
  BY DEF Upload, waiting, remote, report
<1>2. /\ ~client.nil /\ ~cand.open /\ k \in 1..Len(job) /\ lastDial # "AUTH_FAILED"
      /\ Len(runs[k]) <= try /\ Len(runs[k]) <= try + 1
  BY <1>1, StateFacts
  DEF IInv, Clients, Phase, Ran, Final, InStep, Trying, Waiting
<1>3. PICK o \in Outcomes(client) :
        /\ client' = o.conn /\ open' = OpenAfter(client, o.conn)
        /\ \/ /\ o.cat = "nil" /\ o.exit = "ok"
              /\ pc' = "command" /\ UNCHANGED res
           \/ /\ res' = [cat |-> IF o.cat # "nil" THEN o.cat ELSE "COMMAND_FAILED",
                         exit |-> o.exit, started |-> o.started]
              /\ pc' = "tried"
  BY Zenon DEF Upload
<1>4. /\ client' \in Conn /\ client'.nil = client.nil /\ client'.boot = client.boot
      /\ open' = Held(client') /\ open' \in 0..2
  BY <1>2, <1>3, ExecFacts
<1>5. /\ pc' \in {"command", "tried"}
      /\ res' \in [cat : Cat, exit : {"ok", "bad", "none"}, started : BOOLEAN]
      /\ pc' = "tried" => res'.cat # "nil"
      /\ res'.cat = "CANCELLED" => cancelled
  <2>1. CASE pc' = "command" /\ UNCHANGED res
    BY <2>1, StateFacts DEF IInv, TypeOK, Verdict
  <2>2. CASE /\ res' = [cat |-> IF o.cat # "nil" THEN o.cat ELSE "COMMAND_FAILED",
                        exit |-> o.exit, started |-> o.started]
             /\ pc' = "tried"
    BY <2>2, StateFacts, OutcomeFacts DEF Cat
  <2> QED
    BY <1>3, <2>1, <2>2
<1>6. TypeOK'
  <2>1. TypeAt'
    BY <1>1, <1>5, StateFacts, TypeParts DEF TypeAt
  <2>2. TypeConns'
    BY <1>1, <1>4, StateFacts, TypeParts DEF TypeConns
  <2>3. TypeFlags' /\ TypeWorld'
    BY <1>1, StateFacts, TypeKept
  <2>4. TypeReport'
    BY <1>1, <1>5, StateFacts, TypeParts DEF TypeReport
  <2> QED
    BY <2>1, <2>2, <2>3, <2>4, TypeParts
<1>7. Phase' /\ Final'
  BY <1>1, <1>2, <1>5 DEF IInv, Phase, Final, InStep, Trying, Waiting
<1>8. Clients'
  BY <1>1, <1>2, <1>4, <1>5 DEF IInv, Clients, Trying, Waiting, Held
<1>9. BootsFit
  BY <1>1, <1>4, <1>5, BootsStay DEF Trying, Waiting
<1>10. TriesFit
  BY <1>1, <1>2, <1>5 DEF TriesFit, Trying, Waiting
<1> QED
  BY <1>1, <1>6, <1>7, <1>8, <1>9, <1>10, QuietKeeps

LEMMA TriedStep ==
  ASSUME IInv, Tried
  PROVE  IInv'
<1>1. /\ job' = job /\ k' = k /\ attempt' = attempt /\ try' = try /\ client' = client
      /\ cand' = cand /\ open' = open /\ res' = res /\ sudoPW' = sudoPW
      /\ oldBoot' = oldBoot /\ sawOldBoot' = sawOldBoot /\ expired' = expired
      /\ stopped' = stopped /\ cancelled' = cancelled /\ up' = up /\ boot' = boot
      /\ events' = events /\ nopasswd' = nopasswd
      /\ silent' = silent /\ runs' = runs /\ host' = host
      /\ steps' = steps /\ lastDial' = lastDial /\ pc = "tried"
  BY DEF Tried, waiting, remote, report
<1>2. pc' \in {"retrywait", "judge"} /\ (pc' = "retrywait" => try < Retries(job[k]))
  BY DEF Tried
<1>3. TypeOK'
  <2>1. TypeAt'
    BY <1>1, <1>2, StateFacts, TypeParts DEF TypeAt
  <2>2. TypeConns' /\ TypeFlags' /\ TypeReport' /\ TypeWorld'
    BY <1>1, StateFacts, TypeKept
  <2> QED
    BY <2>1, <2>2, TypeParts
<1>4. Phase' /\ Final'
  BY <1>1, <1>2 DEF IInv, Phase, Final, InStep, Trying, Waiting
<1>5. Clients'
  BY <1>1, <1>2 DEF IInv, Clients, Trying, Waiting, Held
<1>6. BootsFit
  BY <1>1, <1>2, BootsStay DEF Trying, Waiting
<1>7. TriesFit
  BY <1>1, <1>2 DEF IInv, Ran, Verdict, TriesFit, Trying, Waiting
<1> QED
  BY <1>1, <1>3, <1>4, <1>5, <1>6, <1>7, QuietKeeps

LEMMA RetryWaitStep ==
  ASSUME IInv, RetryWait
  PROVE  IInv'
<1>1. /\ job' = job /\ k' = k /\ attempt' = attempt /\ client' = client
      /\ cand' = cand /\ open' = open /\ res' = res /\ sudoPW' = sudoPW
      /\ oldBoot' = oldBoot /\ sawOldBoot' = sawOldBoot /\ expired' = expired
      /\ stopped' = stopped /\ cancelled' = cancelled /\ up' = up /\ boot' = boot
      /\ events' = events /\ nopasswd' = nopasswd
      /\ silent' = silent /\ runs' = runs /\ host' = host
      /\ steps' = steps /\ lastDial' = lastDial /\ pc = "retrywait"
  BY DEF RetryWait, waiting, remote, report
<1>2. \/ pc' = "judge" /\ try' = try
      \/ pc' = "attempt" /\ try' = try + 1
  BY DEF RetryWait
<1>3. /\ k \in 1..Len(job) /\ try < Retries(job[k]) /\ Retries(job[k]) \in Nat
      /\ try \in Nat /\ Len(runs[k]) <= try + 1 /\ Len(runs[k]) \in Nat
  <2>1. k \in 1..Len(job) /\ try < Retries(job[k]) /\ Len(runs[k]) <= try + 1
    BY <1>1, StateFacts DEF IInv, Phase, Ran, InStep, Trying
  <2>2. runs[k] \in Seq(Nat)
    BY <2>1, StateFacts
  <2> QED
    BY <2>1, <2>2, StateFacts, JobFacts
<1>4. try' \in Nat /\ try' <= Retries(job[k]) /\ Len(runs[k]) <= try' + 1
      /\ (pc' = "attempt" => Len(runs[k]) <= try')
  BY <1>2, <1>3
<1>5. TypeOK'
  <2>1. TypeAt'
    BY <1>1, <1>2, <1>4, StateFacts, TypeParts DEF TypeAt
  <2>2. TypeConns' /\ TypeFlags' /\ TypeReport' /\ TypeWorld'
    BY <1>1, StateFacts, TypeKept
  <2> QED
    BY <2>1, <2>2, TypeParts
<1>6. Phase' /\ Final'
  BY <1>1, <1>2, <1>4 DEF IInv, Phase, Final, InStep, Trying, Waiting
<1>7. Clients'
  BY <1>1, <1>2 DEF IInv, Clients, Trying, Waiting, Held
<1>8. BootsFit
  BY <1>1, <1>2, BootsStay DEF Trying, Waiting
<1>9. TriesFit
  BY <1>1, <1>2, <1>4 DEF IInv, Ran, Verdict, TriesFit, Trying, Waiting
<1> QED
  BY <1>1, <1>2, <1>5, <1>6, <1>7, <1>8, <1>9, QuietKeeps

LEMMA JudgePlainStep ==
  ASSUME IInv, JudgePlain
  PROVE  IInv'
<1>1. /\ job' = job /\ attempt' = attempt /\ cand' = cand /\ sudoPW' = sudoPW
      /\ open' = open /\ cancelled' = cancelled /\ up' = up /\ boot' = boot
      /\ events' = events /\ nopasswd' = nopasswd /\ silent' = silent /\ runs' = runs
      /\ lastDial' = lastDial /\ pc = "judge" /\ job[k].mode \in {"plain", "forget"}
  BY DEF JudgePlain, remote
<1>2. PICK cat : /\ cat = IF ForgetOK THEN "nil" ELSE res.cat
                 /\ EndStep(SR(StatusOf(cat), cat), cat, client)
  BY DEF JudgePlain
<1>3. /\ ~client.nil /\ ~cand.open /\ k \in 1..Len(job) /\ lastDial # "AUTH_FAILED"
      /\ client.boot \in 1..boot
      /\ \A i \in 1..Len(steps) : Rebooted(i) => runs[i][1] < client.boot
      /\ open = Held(client) + Held(cand)
  BY <1>1, StateFacts
  DEF IInv, Clients, Phase, Boots, Final, InStep, Trying, Waiting
<1>4. cat \in Cat /\ (cat = "CANCELLED" => cancelled)
  BY <1>2, StateFacts DEF IInv, TypeOK, Verdict, Cat
<1>5. cat = "nil" => runs[k] # <<>>
  <2>1. res.cat = "nil" \/ (res.started /\ ~job[k].content) => runs[k] # <<>>
    BY <1>1 DEF IInv, Ran
  <2>2. job[k].mode = "forget" => ~job[k].content
    BY <1>3, StateFacts, JobFacts
  <2> QED
    BY <1>2, <2>1, <2>2 DEF ForgetOK
<1>6. /\ SR(StatusOf(cat), cat) \in [status : Statuses, cat : Cat]
      /\ SR(StatusOf(cat), cat).cat = cat /\ SR(StatusOf(cat), cat).status # "SKIPPED"
      /\ SR(StatusOf(cat), cat).status = "SUCCESS" <=> cat = "nil"
  BY <1>4 DEF SR, StatusOf, Statuses
<1>7. lastDial' \in Cat \cup {"ok", "none"} /\ cand' \in Conn /\ ~cand'.open
      /\ open' = Held(client)
  BY <1>1, <1>3, StateFacts DEF TypeOK, Held
<1>8. UNCHANGED <<job, attempt, sudoPW, cancelled, remote, runs>>
  BY <1>1 DEF remote
<1>9. client \in Conn /\ pc \in InStep /\ job[k].mode # "reboot"
  BY <1>1, StateFacts DEF InStep, Trying
<1> QED
  BY <1>1, <1>2, <1>3, <1>4, <1>5, <1>6, <1>7, <1>8, <1>9, EndStepKeeps

-----------------------------------------------------------------------------
(* The command itself.                                                     *)

LEMMA CommandStep ==
  ASSUME IInv, Command
  PROVE  IInv'
<1>1. /\ job' = job /\ k' = k /\ try' = try /\ attempt' = attempt
      /\ cand' = cand /\ sudoPW' = sudoPW /\ lastDial' = lastDial
      /\ oldBoot' = oldBoot /\ sawOldBoot' = sawOldBoot /\ expired' = expired
      /\ stopped' = stopped /\ cancelled' = cancelled /\ up' = up /\ boot' = boot
      /\ events' = events /\ nopasswd' = nopasswd /\ silent' = silent /\ steps' = steps
      /\ host' = host /\ pc \in {"command", "attempt"} /\ pc' = "tried"
  BY DEF Command, waiting, remote, report
<1>2. /\ ~client.nil /\ ~cand.open /\ k \in 1..Len(job) /\ lastDial # "AUTH_FAILED"
      /\ Len(runs[k]) <= try /\ ~stopped /\ Len(steps) = k - 1 /\ try <= Retries(job[k])
      /\ client.boot \in 1..boot
      /\ \A i \in 1..Len(steps) : Rebooted(i) => runs[i][1] < client.boot
  BY <1>1, StateFacts
  DEF IInv, Clients, Phase, Boots, Ran, Final, InStep, Trying, Waiting
<1>3. PICK o \in Outcomes(client) :
        /\ client' = o.conn /\ open' = OpenAfter(client, o.conn)
        /\ runs' = IF o.ran THEN [runs EXCEPT ![k] = Append(@, client.boot)] ELSE runs
        /\ \E cat \in IF o.cat # "nil" THEN {o.cat}
                      ELSE IF o.exit = "ok" THEN {"nil", "COMMAND_FAILED"}
                      ELSE {"COMMAND_FAILED"} :
             res' = [cat |-> cat, exit |-> o.exit, started |-> o.started]
  BY Zenon DEF Command
<1>4. /\ client' \in Conn /\ client'.nil = client.nil /\ client'.boot = client.boot
      /\ open' = Held(client') /\ open' \in 0..2
  BY <1>2, <1>3, ExecFacts
<1>5. /\ res' \in [cat : Cat, exit : {"ok", "bad", "none"}, started : BOOLEAN]
      /\ res'.cat = "nil" \/ res'.started => o.ran
      /\ res'.cat = "CANCELLED" => cancelled
  BY <1>3, StateFacts, OutcomeFacts DEF Cat
<1>6. runs[k] \in Seq(Nat) /\ client.boot \in Nat /\ runs \in [1..Len(job) -> Seq(Nat)]
  BY <1>2, StateFacts DEF TypeOK
<1>7. /\ runs' \in [1..Len(job) -> Seq(Nat)]
      /\ \A i \in 1..Len(job) : i # k => runs'[i] = runs[i]
      /\ Len(runs'[k]) <= Len(runs[k]) + 1 /\ Len(runs'[k]) \in Nat
      /\ o.ran => runs'[k] # <<>>
      /\ \A n \in 1..Len(runs[k]) : runs'[k][n] = runs[k][n]
      /\ \A n \in 1..Len(runs'[k]) : n \in 1..Len(runs[k]) \/ runs'[k][n] = client.boot
  <2>1. CASE o.ran
    <3> DEFINE r == Append(runs[k], client.boot)
    <3>1. runs' = [runs EXCEPT ![k] = r]
      BY <1>3, <2>1
    <3>2. /\ r \in Seq(Nat) /\ r # <<>> /\ Len(r) = Len(runs[k]) + 1
          /\ r[Len(runs[k]) + 1] = client.boot
          /\ \A n \in 1..Len(runs[k]) : r[n] = runs[k][n]
      BY <1>6, AppendFacts
    <3> HIDE DEF r
    <3>3. runs'[k] = r /\ \A i \in 1..Len(job) : i # k => runs'[i] = runs[i]
      BY <1>2, <1>6, <3>1
    <3>4. runs' \in [1..Len(job) -> Seq(Nat)]
      BY <1>2, <1>6, <3>1, <3>2
    <3>5. \A n \in 1..Len(r) : n \in 1..Len(runs[k]) \/ n = Len(runs[k]) + 1
      BY <1>6, <3>2
    <3>6. Len(r) \in Nat /\ Len(r) <= Len(runs[k]) + 1
      BY <1>6, <3>2
    <3> QED
      BY <3>2, <3>3, <3>4, <3>5, <3>6
  <2>2. CASE ~o.ran
    <3>1. runs' = runs
      BY <1>3, <2>2
    <3>2. Len(runs[k]) \in Nat /\ Len(runs[k]) <= Len(runs[k]) + 1
      BY <1>6
    <3> QED
      BY <1>6, <2>2, <3>1, <3>2
  <2>3. o.ran \in BOOLEAN
    BY StateFacts, OutcomeFacts
  <2> QED
    BY <2>1, <2>2, <2>3
<1>8. TypeOK'
  <2>1. TypeAt'
    BY <1>1, <1>7, StateFacts, TypeParts DEF TypeAt
  <2>2. TypeConns'
    BY <1>1, <1>4, StateFacts, TypeParts DEF TypeConns
  <2>3. TypeFlags' /\ TypeWorld'
    BY <1>1, StateFacts, TypeKept
  <2>4. TypeReport'
    BY <1>1, <1>5, StateFacts, TypeParts DEF TypeReport
  <2> QED
    BY <2>1, <2>2, <2>3, <2>4, TypeParts
<1>9. Phase' /\ Final'
  BY <1>1, <1>2 DEF IInv, Phase, Final, InStep, Trying, Waiting
<1>10. Clients'
  BY <1>1, <1>2, <1>4 DEF IInv, Clients, Trying, Waiting, Held
<1>11. \A i \in 1..Len(steps) : i # k /\ i \in 1..Len(job)
  BY <1>2, StateFacts
<1>12. Boots'
  <2>1. ASSUME NEW i \in 1..Len(steps), Rebooted(i)'
        PROVE  /\ runs'[i][1] < boot /\ (~client'.nil => runs'[i][1] < client'.boot)
               /\ \A j \in (i + 1)..Len(job) : runs'[j] # <<>> => runs'[i][1] < runs'[j][1]
    <3>1. runs'[i] = runs[i]
      BY <1>7, <1>11
    <3>2. Rebooted(i)
      BY <1>1, <2>1, <3>1 DEF Rebooted
    <3>3. /\ runs[i][1] < boot /\ (~client.nil => runs[i][1] < client.boot)
          /\ \A j \in (i + 1)..Len(job) : runs[j] # <<>> => runs[i][1] < runs[j][1]
      BY <3>2 DEF IInv, Boots
    <3>4. ASSUME NEW j \in (i + 1)..Len(job), runs'[j] # <<>>
          PROVE  runs[i][1] < runs'[j][1]
      <4>1. j \in 1..Len(job)
        BY <1>11, StateFacts
      <4>2. CASE j # k
        BY <1>7, <3>3, <3>4, <4>1, <4>2
      <4>3. CASE j = k /\ runs[k] # <<>>
        <5>1. 1 \in 1..Len(runs[k])
          BY <1>6, <4>3
        <5>2. runs'[k][1] = runs[k][1]
          BY <1>7, <5>1
        <5> QED
          BY <3>3, <4>3, <5>2
      <4>4. CASE j = k /\ runs[k] = <<>>
        <5>1. Len(runs[k]) = 0
          BY <4>4
        <5>2. runs'[k] \in Seq(Nat) /\ runs'[k] # <<>>
          BY <1>2, <1>7, <3>4, <4>4
        <5>3. 1 \in 1..Len(runs'[k]) /\ ~(1 \in 1..Len(runs[k]))
          BY <5>1, <5>2
        <5>4. runs'[k][1] = client.boot
          BY <1>7, <5>3
        <5> QED
          BY <1>2, <3>3, <4>4, <5>4
      <4> QED
        BY <4>2, <4>3, <4>4
    <3> QED
      BY <1>4, <3>1, <3>3, <3>4
  <2>2. job[k].mode = "reboot" =>
          /\ oldBoot \in 1..boot /\ oldBoot = client.boot
          /\ \A n \in 1..Len(runs'[k]) : runs'[k][n] = oldBoot
    BY <1>1, <1>7 DEF IInv, Boots, Trying
  <2> QED
    BY <1>1, <1>2, <1>4, <2>1, <2>2, StateFacts DEF Boots, Trying, Waiting
<1>13. Ran'
  <2>1. try \in Nat /\ Retries(job[k]) \in Nat /\ Len(runs[k]) \in Nat
    BY <1>2, <1>6, StateFacts, JobFacts
  <2>2. Len(runs'[k]) <= try + 1 /\ Len(runs'[k]) <= Retries(job[k]) + 1
    BY <1>2, <1>7, <2>1
  <2>3. ASSUME NEW i \in 1..Len(job)
        PROVE  /\ Len(runs'[i]) <= Retries(job[i]) + 1
               /\ i > k => runs'[i] = <<>>
    <3>1. CASE i = k
      BY <1>2, <2>2, <3>1
    <3>2. CASE i # k
      BY <1>7, <3>2 DEF IInv, Ran
    <3> QED
      BY <3>1, <3>2
  <2>4. res'.cat = "nil" \/ (res'.started /\ ~job[k].content) => runs'[k] # <<>>
    BY <1>5, <1>7
  <2> QED
    BY <1>1, <2>2, <2>3, <2>4 DEF Ran, Trying, Waiting
<1>14. Verdict'
  BY <1>1, <1>5 DEF IInv, Verdict
<1>15. SuccessMeansRan'
  BY <1>1, <1>7, <1>11 DEF IInv, SuccessMeansRan
<1>16. NothingRunsAfterAStop'
  <2>1. \A i \in 1..Len(steps) : steps[i].status = "SKIPPED" => runs'[i] = <<>>
    BY <1>7, <1>11 DEF IInv, NothingRunsAfterAStop
  <2>2. ASSUME NEW i \in 1..Len(job), runs'[i] # <<>>, NEW j \in 1..(i - 1)
        PROVE  j <= Len(steps) /\ (steps[j].status = "SUCCESS" \/ job[j].cont)
    <3>1. CASE i = k
      <4>1. j \in 1..Len(steps)
        BY <1>2, <3>1
      <4> QED
        BY <1>1, <1>2, <4>1 DEF IInv, Verdict
    <3>2. CASE i # k
      BY <1>7, <2>2, <3>2 DEF IInv, NothingRunsAfterAStop
    <3> QED
      BY <3>1, <3>2
  <2> QED
    BY <1>1, <2>1, <2>2 DEF NothingRunsAfterAStop
<1> QED
  BY <1>8, <1>9, <1>10, <1>12, <1>13, <1>14, <1>15, <1>16 DEF IInv

-----------------------------------------------------------------------------
(* Waiting for the host to come back.                                      *)

LEMMA JudgeDisconnectingStep ==
  ASSUME IInv, JudgeDisconnecting
  PROVE  IInv'
<1>1. /\ job' = job /\ attempt' = attempt /\ cand' = cand /\ sudoPW' = sudoPW
      /\ cancelled' = cancelled /\ up' = up /\ boot' = boot
      /\ events' = events /\ nopasswd' = nopasswd /\ silent' = silent /\ runs' = runs
      /\ lastDial' = lastDial /\ pc = "judge"
      /\ job[k].mode \in {"disconnect", "reboot"}
  BY DEF JudgeDisconnecting, remote
<1>2. /\ ~client.nil /\ ~cand.open /\ k \in 1..Len(job) /\ lastDial # "AUTH_FAILED"
      /\ client.boot \in 1..boot
      /\ \A i \in 1..Len(steps) : Rebooted(i) => runs[i][1] < client.boot
      /\ open = Held(client) + Held(cand) /\ try <= Retries(job[k])
      /\ Len(runs[k]) <= try + 1
      /\ (res.cat = "nil" \/ (res.started /\ ~job[k].content) => runs[k] # <<>>)
  BY <1>1, StateFacts
  DEF IInv, Clients, Phase, Boots, Ran, Final, InStep, Trying, Waiting
<1>3. UNCHANGED <<job, attempt, sudoPW, cancelled, remote, runs>>
  BY <1>1 DEF remote
<1>4. ASSUME UNCHANGED open, NEW cat \in Cat, cat = res.cat,
             cat = "nil" => job[k].mode = "disconnect",
             EndStep(SR(StatusOf(cat), cat), cat, client)
      PROVE  IInv'
  <2>1. cat = "CANCELLED" => cancelled
    BY <1>4 DEF IInv, Verdict
  <2>2. /\ SR(StatusOf(cat), cat) \in [status : Statuses, cat : Cat]
        /\ SR(StatusOf(cat), cat).cat = cat /\ SR(StatusOf(cat), cat).status # "SKIPPED"
        /\ SR(StatusOf(cat), cat).status = "SUCCESS" <=> cat = "nil"
    BY DEF SR, StatusOf, Statuses
  <2>3. /\ lastDial' \in Cat \cup {"ok", "none"} /\ cand' \in Conn /\ ~cand'.open
        /\ open' = Held(client)
    BY <1>1, <1>2, <1>4, StateFacts DEF TypeOK, Held
  <2>4. client \in Conn /\ pc \in InStep
    BY <1>1, StateFacts DEF InStep, Trying
  <2>5. cat = "nil" => job[k].mode # "reboot" /\ runs[k] # <<>>
    BY <1>2, <1>4
  <2> QED
    BY <1>1, <1>2, <1>3, <1>4, <2>1, <2>2, <2>3, <2>4, <2>5, EndStepKeeps
<1>5. CASE /\ res.cat # "nil" /\ ~Lost
           /\ EndStep(SR(StatusOf(res.cat), res.cat), res.cat, client)
           /\ UNCHANGED open
  <2>1. res.cat \in Cat
    BY StateFacts DEF TypeOK
  <2> QED
    BY <1>4, <1>5, <2>1
<1>6. CASE /\ res.cat = "nil" \/ Lost
           /\ job[k].mode = "disconnect" /\ ~Lost
           /\ EndStep(SR("SUCCESS", "nil"), "nil", client)
           /\ UNCHANGED open
  <2>1. res.cat = "nil" /\ "nil" \in Cat /\ StatusOf("nil") = "SUCCESS"
    BY <1>6 DEF Cat, StatusOf
  <2> QED
    BY <1>4, <1>6, <2>1
<1>7. CASE /\ res.cat = "nil" \/ Lost
           /\ client' = Closed(client) /\ open' = OpenAfter(client, Closed(client))
           /\ pc' = "sleep"
           /\ UNCHANGED <<try, res, waiting, report>>
  <2>1. /\ try' = try /\ res' = res /\ oldBoot' = oldBoot /\ sawOldBoot' = sawOldBoot
        /\ expired' = expired /\ steps' = steps /\ host' = host /\ stopped' = stopped
        /\ k' = k
    BY <1>7 DEF waiting, report
  <2>2. /\ client' \in Conn /\ client'.nil = client.nil /\ client'.boot = client.boot
        /\ ~client'.open
    BY <1>7, StateFacts, ConnFacts
  <2>3. open' = Held(client') + Held(cand') /\ open' \in 0..2
    BY <1>1, <1>7, <2>2, OpenFacts DEF Held
  <2>4. TypeOK'
    <3>1. TypeAt'
      BY <1>1, <1>7, <2>1, StateFacts, TypeParts DEF TypeAt
    <3>2. TypeConns'
      BY <1>1, <2>2, <2>3, StateFacts, TypeParts DEF TypeConns
    <3>3. TypeFlags' /\ TypeReport' /\ TypeWorld'
      BY <1>1, <2>1, StateFacts, TypeKept
    <3> QED
      BY <3>1, <3>2, <3>3, TypeParts
  <2>5. Phase' /\ Final'
    BY <1>1, <1>2, <1>7, <2>1 DEF IInv, Phase, Final, InStep, Trying, Waiting
  <2>6. Clients'
    BY <1>1, <1>2, <1>7, <2>1, <2>2, <2>3 DEF Clients, Trying, Waiting
  <2>7. BootsFit
    BY <1>1, <1>7, <2>1, <2>2, BootsStay DEF Trying, Waiting
  <2>8. TriesFit
    BY <1>1, <1>2, <1>7, <2>1 DEF IInv, Verdict, TriesFit, Trying, Waiting, Lost
  <2> QED
    BY <1>1, <1>7, <2>1, <2>4, <2>5, <2>6, <2>7, <2>8, QuietKeeps
<1> QED
  BY <1>5, <1>6, <1>7 DEF JudgeDisconnecting

\* waitForHost gives up: no client is left.
LEMMA GiveUp ==
  ASSUME IInv, pc \in {"sleep", "redial"}, NEW cat \in Cat \ {"nil"},
         NEW status \in {"FAILED", "CANCELLED"}, EndStep(SR(status, cat), cat, Nil),
         UNCHANGED <<job, attempt, sudoPW, cancelled, remote, runs, cand, open>>,
         lastDial' \in Cat \cup {"ok", "none"}, cat = "CANCELLED" => cancelled
  PROVE  IInv'
<1>1. /\ SR(status, cat) \in [status : Statuses, cat : Cat]
      /\ SR(status, cat).cat = cat /\ SR(status, cat).status # "SKIPPED"
      /\ SR(status, cat).status = "SUCCESS" <=> cat = "nil"
  BY DEF SR, Statuses
<1>2. Held(Nil) = 0
  BY NilFacts DEF Held
<1>3. open' = Held(Nil) /\ cand' \in Conn /\ ~cand'.open
  BY <1>2, StateFacts DEF IInv, Clients, Waiting, Held
<1>4. pc \in InStep /\ cat \in Cat
  BY DEF InStep, Waiting
<1>5. UNCHANGED <<job, attempt, sudoPW, cancelled, remote, runs>>
  OBVIOUS
<1> QED
  BY <1>1, <1>3, <1>4, <1>5, NilFacts, EndStepKeeps

\* A step within waitForHost that only moves the control or drops what was dialled.
LEMMA WaitOn ==
  ASSUME IInv, pc \in Waiting, pc' \in {"sleep", "redial"}, Clients', TypeOK',
         UNCHANGED <<job, attempt, boot, runs, cancelled, try, client, res, oldBoot,
                     report>>,
         lastDial' # "AUTH_FAILED"
  PROVE  IInv'
<1>1. /\ job' = job /\ attempt' = attempt /\ boot' = boot /\ runs' = runs /\ try' = try
      /\ client' = client /\ res' = res /\ oldBoot' = oldBoot /\ steps' = steps
      /\ host' = host /\ stopped' = stopped /\ k' = k /\ cancelled' = cancelled
  BY DEF report
<1>2. Phase' /\ Final'
  BY <1>1 DEF IInv, Phase, Final, InStep, Trying, Waiting
<1>3. BootsFit
  BY <1>1, BootsStay DEF Trying, Waiting
<1>4. TriesFit
  BY <1>1 DEF IInv, Ran, Verdict, TriesFit, Trying, Waiting
<1> QED
  BY <1>1, <1>2, <1>3, <1>4, QuietKeeps DEF Waiting

LEMMA WaitForHostStep ==
  ASSUME IInv, WaitForHost
  PROVE  IInv'
<1>1. /\ job' = job /\ attempt' = attempt /\ cand' = cand /\ sudoPW' = sudoPW
      /\ open' = open /\ cancelled' = cancelled /\ up' = up /\ boot' = boot
      /\ events' = events /\ nopasswd' = nopasswd /\ silent' = silent /\ runs' = runs
      /\ lastDial' = lastDial /\ pc = "sleep"
  BY DEF WaitForHost, remote
<1>2. UNCHANGED <<job, attempt, sudoPW, cancelled, remote, runs, cand, open>>
  BY <1>1 DEF remote
<1>3. lastDial' \in Cat \cup {"ok", "none"} /\ lastDial' # "AUTH_FAILED"
  BY <1>1, StateFacts DEF IInv, TypeOK, Final
<1>4. /\ "CANCELLED" \in Cat \ {"nil"} /\ "COMMAND_FAILED" \in Cat \ {"nil"}
      /\ "CONNECTION_TIMEOUT" \in Cat \ {"nil"}
  BY DEF Cat
<1>5. CASE cancelled /\ EndStep(SR("CANCELLED", "CANCELLED"), "CANCELLED", Nil)
  BY <1>1, <1>2, <1>3, <1>4, <1>5, GiveUp
<1>6. CASE \/ EndStep(SR("FAILED", "COMMAND_FAILED"), "COMMAND_FAILED", Nil)
           \/ EndStep(SR("FAILED", "CONNECTION_TIMEOUT"), "CONNECTION_TIMEOUT", Nil)
  BY <1>1, <1>2, <1>3, <1>4, <1>6, GiveUp
<1>7. CASE pc' = "redial" /\ UNCHANGED <<try, client, res, waiting, report>>
  <2>1. /\ try' = try /\ res' = res /\ oldBoot' = oldBoot /\ sawOldBoot' = sawOldBoot
        /\ expired' = expired /\ steps' = steps /\ host' = host /\ stopped' = stopped
        /\ k' = k /\ client' = client
    BY <1>7 DEF waiting, report
  <2>2. TypeOK'
    <3>1. TypeAt'
      BY <1>1, <1>7, <2>1, StateFacts, TypeParts DEF TypeAt
    <3>2. TypeConns' /\ TypeFlags' /\ TypeReport' /\ TypeWorld'
      BY <1>1, <2>1, StateFacts, TypeKept
    <3> QED
      BY <3>1, <3>2, TypeParts
  <2>3. Clients'
    BY <1>1, <1>7, <2>1 DEF IInv, Clients, Trying, Waiting, Held
  <2> QED
    BY <1>1, <1>3, <1>7, <2>1, <2>2, <2>3, WaitOn DEF Waiting, report
<1> QED
  BY <1>5, <1>6, <1>7 DEF WaitForHost

LEMMA RedialStep ==
  ASSUME IInv, Redial
  PROVE  IInv'
<1>1. /\ job' = job /\ attempt' = attempt /\ sudoPW' = sudoPW
      /\ cancelled' = cancelled /\ up' = up /\ boot' = boot
      /\ events' = events /\ nopasswd' = nopasswd
      /\ silent' = silent /\ runs' = runs /\ pc = "redial"
  BY DEF Redial, remote
<1>2. UNCHANGED <<job, attempt, sudoPW, cancelled, remote, runs>>
  BY <1>1 DEF remote
<1>3. /\ ~client.open /\ ~cand.open /\ k \in 1..Len(job) /\ open = 0
      /\ job[k].mode \in {"disconnect", "reboot"} /\ (job[k].content \/ runs[k] # <<>>)
      /\ job[k].mode = "reboot" =>
           oldBoot \in 1..boot /\ \A n \in 1..Len(runs[k]) : runs[k][n] = oldBoot
      /\ \A i \in 1..Len(steps) : Rebooted(i) => runs[i][1] < boot
  <2>1. ~client.open /\ ~cand.open /\ open = Held(client) + Held(cand)
    BY <1>1 DEF IInv, Clients, Waiting
  <2>2. open = 0
    BY <2>1 DEF Held
  <2>3. /\ k \in 1..Len(job) /\ job[k].mode \in {"disconnect", "reboot"}
        /\ (job[k].content \/ runs[k] # <<>>)
    BY <1>1, StateFacts DEF IInv, Phase, Ran, InStep, Waiting
  <2> QED
    BY <1>1, <2>1, <2>2, <2>3 DEF IInv, Boots, Waiting
<1>4. /\ Dialled.boot = boot /\ ~Dialled.nil /\ Dialled.open /\ Dialled \in Conn
      /\ Held(Dialled) = 1
  BY DialFacts, StateFacts DEF Held
<1>5. CASE /\ lastDial' = "ok" /\ open' = open + 1 /\ oldBoot = 0
           /\ EndStep(SR("SUCCESS", "nil"), "nil", Dialled) /\ UNCHANGED cand
  <2>1. job[k].mode = "disconnect"
    BY <1>3, <1>5
  <2>2. /\ SR("SUCCESS", "nil") \in [status : Statuses, cat : Cat] /\ "nil" \in Cat
        /\ SR("SUCCESS", "nil").cat = "nil" /\ SR("SUCCESS", "nil").status = "SUCCESS"
    BY DEF SR, Statuses, Cat
  <2>3. open' = Held(Dialled) /\ cand' \in Conn /\ ~cand'.open
    BY <1>3, <1>4, <1>5, StateFacts
  <2>4. boot \in 1..boot /\ pc \in InStep
    BY <1>1, StateFacts DEF InStep, Waiting
  <2> QED
    BY <1>2, <1>3, <1>4, <1>5, <2>1, <2>2, <2>3, <2>4, EndStepKeeps
<1>6. CASE /\ lastDial' = "ok" /\ open' = open + 1
           /\ cand' = Dialled /\ pc' = "newboot"
           /\ UNCHANGED <<try, client, res, waiting, report>>
  <2>1. /\ try' = try /\ res' = res /\ oldBoot' = oldBoot /\ sawOldBoot' = sawOldBoot
        /\ expired' = expired /\ steps' = steps /\ host' = host /\ stopped' = stopped
        /\ k' = k /\ client' = client
    BY <1>6 DEF waiting, report
  <2>2. open' = 1 /\ open' = Held(client') + Held(cand')
    BY <1>3, <1>4, <1>6, <2>1 DEF Held
  <2>3. TypeOK'
    <3>1. TypeAt'
      BY <1>1, <1>6, <2>1, StateFacts, TypeParts DEF TypeAt
    <3>2. TypeConns'
      BY <1>4, <1>6, <2>1, <2>2, StateFacts DEF TypeConns
    <3>3. TypeFlags' /\ TypeReport' /\ TypeWorld'
      BY <1>1, <2>1, StateFacts, TypeKept
    <3> QED
      BY <3>1, <3>2, <3>3, TypeParts
  <2>4. Phase' /\ Final'
    BY <1>1, <1>6, <2>1 DEF IInv, Phase, Final, InStep, Trying, Waiting
  <2>5. Clients'
    BY <1>3, <1>4, <1>6, <2>1, <2>2 DEF Clients, Trying, Waiting
  <2>6. BootsFit
    <3>1. boot \in Nat /\ boot >= 1 /\ oldBoot \in 0..boot
      BY StateFacts
    <3>2. boot \in 1..boot /\ boot >= oldBoot /\ boot >= boot
      BY <3>1
    <3>3. ~client.nil => client.boot \in 1..boot
      BY DEF IInv, Boots
    <3> QED
      BY <1>1, <1>3, <1>4, <1>6, <2>1, <3>1, <3>2, <3>3 DEF BootsFit, Trying, Waiting
  <2>7. TriesFit
    BY <1>1, <1>6, <2>1 DEF IInv, Ran, Verdict, TriesFit, Trying, Waiting
  <2> QED
    BY <1>1, <1>6, <2>1, <2>3, <2>4, <2>5, <2>6, <2>7, QuietKeeps
<1>7. ASSUME NEW cat \in DialFailures(cancelled, expired), lastDial' = cat, UNCHANGED <<cand, open>>,
             CASE cancelled ->
                    EndStep(SR("CANCELLED", "CANCELLED"), "CANCELLED", Nil)
               [] ~cancelled /\ cat \in EndsTheWait ->
                    EndStep(SR("FAILED", cat), cat, Nil)
               [] OTHER ->
                    pc' = "sleep" /\ UNCHANGED <<try, client, res, waiting, report>>
      PROVE  IInv'
  <2>1. /\ cat \in Cat \ {"nil"} /\ "CANCELLED" \in Cat \ {"nil"}
        /\ lastDial' \in Cat \cup {"ok", "none"} /\ (cat = "CANCELLED" => cancelled)
    BY <1>7, DialFacts DEF Cat
  <2>2. CASE cancelled
    <3>1. EndStep(SR("CANCELLED", "CANCELLED"), "CANCELLED", Nil)
      BY <1>7, <2>2
    <3> QED
      BY <1>1, <1>2, <1>7, <2>1, <2>2, <3>1, GiveUp
  <2>3. CASE ~cancelled /\ cat \in EndsTheWait
    <3>1. EndStep(SR("FAILED", cat), cat, Nil)
      BY <1>7, <2>3
    <3> QED
      BY <1>1, <1>2, <1>7, <2>1, <3>1, GiveUp
  <2>4. CASE ~cancelled /\ cat \notin EndsTheWait
    <3>1. pc' = "sleep" /\ UNCHANGED <<try, client, res, waiting, report>>
      BY <1>7, <2>4
    <3>2. /\ try' = try /\ res' = res /\ oldBoot' = oldBoot /\ sawOldBoot' = sawOldBoot
          /\ expired' = expired /\ steps' = steps /\ host' = host /\ stopped' = stopped
          /\ k' = k /\ client' = client /\ cand' = cand /\ open' = open
      BY <1>7, <3>1 DEF waiting, report
    <3>3. TypeOK'
      <4>1. TypeAt'
        BY <1>1, <3>1, <3>2, StateFacts, TypeParts DEF TypeAt
      <4>2. TypeConns'
        BY <2>1, <3>2, StateFacts, TypeParts DEF TypeConns
      <4>3. TypeFlags' /\ TypeReport' /\ TypeWorld'
        BY <1>1, <3>2, StateFacts, TypeKept
      <4> QED
        BY <4>1, <4>2, <4>3, TypeParts
    <3>4. Clients'
      BY <1>1, <3>1, <3>2 DEF IInv, Clients, Trying, Waiting, Held
    <3>5. lastDial' # "AUTH_FAILED"
      BY <1>7, <2>4 DEF EndsTheWait
    <3> QED
      BY <1>1, <3>1, <3>2, <3>3, <3>4, <3>5, WaitOn DEF Waiting, report
  <2> QED
    BY <2>2, <2>3, <2>4
<1> QED
  BY <1>5, <1>6, <1>7 DEF Redial

LEMMA CheckNewBootStep ==
  ASSUME IInv, CheckNewBoot
  PROVE  IInv'
<1>1. /\ job' = job /\ attempt' = attempt /\ sudoPW' = sudoPW
      /\ cancelled' = cancelled /\ up' = up /\ boot' = boot
      /\ events' = events /\ nopasswd' = nopasswd /\ silent' = silent /\ runs' = runs
      /\ lastDial' = lastDial /\ pc = "newboot"
  BY DEF CheckNewBoot, remote
<1>2. UNCHANGED <<job, attempt, sudoPW, cancelled, remote, runs>>
  BY <1>1 DEF remote
<1>3. /\ ~client.open /\ ~cand.nil /\ k \in 1..Len(job) /\ lastDial # "AUTH_FAILED"
      /\ open = Held(client) + Held(cand)
      /\ job[k].mode \in {"disconnect", "reboot"} /\ (job[k].content \/ runs[k] # <<>>)
      /\ lastDial' \in Cat \cup {"ok", "none"}
  BY <1>1, StateFacts
  DEF IInv, TypeOK, Clients, Phase, Ran, Final, InStep, Waiting
<1>4. /\ cand.boot \in 1..boot /\ cand.boot >= oldBoot
      /\ job[k].mode = "reboot" =>
           oldBoot \in 1..boot /\ \A n \in 1..Len(runs[k]) : runs[k][n] = oldBoot
      /\ \A i \in 1..Len(steps) : Rebooted(i) => runs[i][1] < cand.boot
  BY <1>1 DEF IInv, Boots, Waiting
<1>5. PICK o \in Outcomes(cand) :
        LET got == o.cat = "nil" /\ o.exit = "ok"
        IN \/ /\ got /\ NewBoot(cand.boot)
              /\ EndStep(SR("SUCCESS", "nil"), "nil", o.conn)
              /\ cand' = Nil /\ UNCHANGED open
           \/ /\ DropCandidate
              /\ sawOldBoot' = (sawOldBoot \/ got)
              /\ pc' = "sleep"
              /\ UNCHANGED <<try, client, res, oldBoot, expired, report>>
  BY Zenon DEF CheckNewBoot
<1>6. CASE /\ o.cat = "nil" /\ NewBoot(cand.boot)
           /\ EndStep(SR("SUCCESS", "nil"), "nil", o.conn)
           /\ cand' = Nil /\ UNCHANGED open
  <2>1. /\ o.conn \in Conn /\ ~o.conn.nil /\ o.conn.boot = cand.boot
        /\ o.conn.open /\ cand.open
    BY <1>3, <1>6, StateFacts, OutcomeFacts
  <2>2. open' = Held(o.conn)
    BY <1>3, <1>6, <2>1 DEF Held
  <2>3. /\ SR("SUCCESS", "nil") \in [status : Statuses, cat : Cat] /\ "nil" \in Cat
        /\ SR("SUCCESS", "nil").cat = "nil" /\ SR("SUCCESS", "nil").status = "SUCCESS"
    BY DEF SR, Statuses, Cat
  <2>4. job[k].mode = "reboot" /\ runs[k] # <<>> => runs[k][1] < o.conn.boot
    <3>1. runs[k] \in Seq(Nat) /\ oldBoot \in Nat /\ cand.boot \in Nat
      BY <1>3, <1>4, StateFacts
    <3>2. runs[k] # <<>> => 1 \in 1..Len(runs[k])
      BY <3>1
    <3>3. oldBoot < cand.boot
      BY <1>4, <1>6, <3>1 DEF NewBoot
    <3> QED
      BY <1>4, <2>1, <3>2, <3>3
  <2>5. pc \in InStep /\ cand' \in Conn /\ ~cand'.open
    BY <1>1, <1>6, NilFacts DEF InStep, Waiting
  <2> QED
    BY <1>1, <1>2, <1>3, <1>4, <1>6, <2>1, <2>2, <2>3, <2>4, <2>5, EndStepKeeps
<1>7. ASSUME NEW got \in BOOLEAN, DropCandidate, sawOldBoot' = (sawOldBoot \/ got),
             pc' = "sleep", UNCHANGED <<try, client, res, oldBoot, expired, report>>
      PROVE  IInv'
  <2>1. /\ try' = try /\ res' = res /\ oldBoot' = oldBoot
        /\ expired' = expired /\ steps' = steps /\ host' = host /\ stopped' = stopped
        /\ k' = k /\ client' = client
    BY <1>7 DEF report
  <2>2. cand' = Nil /\ open' = OpenAfter(cand, Closed(cand))
    BY <1>7 DEF DropCandidate
  <2>3. cand' \in Conn /\ ~cand'.open /\ ~Closed(cand).open /\ cand.open \in BOOLEAN
    BY <2>2, NilFacts, StateFacts, ConnFacts DEF Conn
  <2>4. open' = 0 /\ Held(client') = 0 /\ Held(cand') = 0
    BY <1>3, <2>1, <2>2, <2>3 DEF OpenAfter, Held
  <2>5. TypeOK'
    <3>1. TypeAt'
      BY <1>1, <1>7, <2>1, StateFacts, TypeParts DEF TypeAt
    <3>2. TypeConns'
      BY <1>3, <2>1, <2>3, <2>4, StateFacts DEF TypeConns
    <3>3. sawOldBoot' \in BOOLEAN
      BY <1>7, Zenon
    <3>4. TypeFlags'
      BY <1>1, <2>1, <3>3, StateFacts, TypeParts, Zenon DEF TypeFlags
    <3>5. TypeReport' /\ TypeWorld'
      BY <1>1, <2>1, StateFacts, TypeKept
    <3> QED
      BY <3>1, <3>2, <3>4, <3>5, TypeParts
  <2>6. Clients'
    BY <1>3, <1>7, <2>1, <2>3, <2>4 DEF Clients, Trying, Waiting
  <2> QED
    BY <1>1, <1>3, <1>7, <2>1, <2>5, <2>6, WaitOn DEF Waiting, report
<1> QED
  <2>1. (o.cat = "nil" /\ o.exit = "ok") \in BOOLEAN
    BY Zenon
  <2> QED
    BY <1>5, <1>6, <1>7, <2>1

-----------------------------------------------------------------------------
(* The theorems.                                                           *)

LEMMA InitIInv ==
  ASSUME Init
  PROVE  IInv
<1>1. /\ job \in Jobs /\ Len(job) \in Nat /\ Len(job) >= 1
      /\ \A i \in 1..Len(job) : Retries(job[i]) \in Nat
  BY JobFacts DEF Init
<1>2. /\ pc = "dial" /\ k = 1 /\ attempt = 1 /\ try = 0 /\ client = Nil /\ cand = Nil
      /\ open = 0 /\ res = NoResult /\ oldBoot = 0 /\ steps = <<>> /\ Len(steps) = 0
      /\ host = [status |-> "SUCCESS", cat |-> "nil", step |-> 0] /\ boot = 1
      /\ events = 0 /\ runs = [i \in 1..Len(job) |-> <<>>] /\ lastDial = "none"
  BY DEF Init
<1>3. sudoPW = FALSE /\ sawOldBoot = FALSE /\ expired = FALSE /\ stopped = FALSE
      /\ cancelled = FALSE /\ silent = FALSE /\ up \in BOOLEAN /\ nopasswd \in BOOLEAN
  BY DEF Init
<1>4. /\ runs \in [1..Len(job) -> Seq(Nat)]
      /\ \A i \in 1..Len(job) : runs[i] = <<>> /\ Len(runs[i]) = 0
  BY <1>2
<1>5. client \in Conn /\ cand \in Conn /\ client.nil /\ ~client.open /\ ~cand.open
  BY <1>2, NilFacts
<1>6. TypeOK
  <2>1. TypeAt
    <3>1. 1 \in 1..(Len(job) + 1) /\ 1 \in 1..(ConnectRetries + 1) /\ 0 \in Nat
      BY <1>1, HostRunAssumption DEF HostRunAssumption
    <3> QED
      BY <1>1, <1>2, <1>4, <3>1 DEF TypeAt
  <2>2. TypeConns
    BY <1>2, <1>5 DEF TypeConns
  <2>3. TypeFlags
    BY <1>3, Zenon DEF TypeFlags
  <2>4. TypeReport
    <3>1. res \in [cat : Cat, exit : {"ok", "bad", "none"}, started : BOOLEAN]
      BY <1>2, Zenon DEF NoResult, Cat
    <3>2. host \in [status : Statuses, cat : Cat, step : Nat]
      BY <1>2 DEF Statuses, Cat
    <3>3. steps \in Seq([status : Statuses, cat : Cat])
      BY <1>2
    <3> QED
      BY <3>1, <3>2, <3>3 DEF TypeReport
  <2>5. TypeWorld
    <3>1. 0 \in Nat /\ 1 \in Nat /\ 0 \in 0..MaxEvents
      BY HostRunAssumption DEF HostRunAssumption
    <3> QED
      BY <1>2, <1>3, <3>1, Zenon DEF TypeWorld
  <2> QED
    BY <2>1, <2>2, <2>3, <2>4, <2>5, TypeParts
<1>7. Phase /\ Final
  BY <1>2, <1>3 DEF Phase, Final, InStep, Trying, Waiting
<1>8. Clients
  BY <1>2, <1>5 DEF Clients, Trying, Waiting, Held
<1>9. Boots
  BY <1>2, <1>5 DEF Boots, Trying, Waiting
<1>10. Ran
  BY <1>1, <1>2, <1>4 DEF Ran, Trying, Waiting
<1>11. res.cat = "nil"
  BY <1>2, Zenon DEF NoResult
<1>12. Verdict
  BY <1>2, <1>3, <1>11 DEF Verdict
<1>13. SuccessMeansRan /\ NothingRunsAfterAStop
  BY <1>2, <1>4 DEF SuccessMeansRan, NothingRunsAfterAStop
<1> QED
  BY <1>6, <1>7, <1>8, <1>9, <1>10, <1>12, <1>13 DEF IInv

LEMMA NextIInv ==
  ASSUME IInv, [Next]_vars
  PROVE  IInv'
<1>1. CASE Goroutine
  BY <1>1, ConnectStep, BackoffStep, ProbeStep, SkipStepStep, BeginStepStep,
     EndHostStep, ReadBootIDStep, UploadStep, CommandStep, TriedStep, RetryWaitStep,
     JudgePlainStep, JudgeDisconnectingStep, WaitForHostStep, RedialStep,
     CheckNewBootStep
  DEF Goroutine
<1>2. CASE Drop \/ GoDown \/ ComeUp \/ FallSilent \/ Expire \/ Cancel
  BY <1>2, DropStep, GoDownStep, ComeUpStep, FallSilentStep, ExpireStep, CancelStep
<1>3. CASE UNCHANGED vars
  <2>1. /\ UNCHANGED <<job, pc, attempt, try, open, res, oldBoot, report, runs, lastDial>>
        /\ client' = client /\ cand' = cand /\ boot' = boot /\ cancelled' = cancelled
        /\ sudoPW' = sudoPW /\ sawOldBoot' = sawOldBoot /\ expired' = expired
        /\ up' = up /\ nopasswd' = nopasswd /\ silent' = silent /\ events' = events
        /\ k' = k /\ stopped' = stopped /\ steps' = steps /\ host' = host
    BY <1>3 DEF vars, report
  <2>2. TypeOK'
    BY <2>1, StateFacts, TypeKept, TypeParts
  <2>3. Same(client, client') /\ Same(cand, cand') /\ boot' >= boot
    BY <2>1, StateFacts DEF Same
  <2> QED
    BY <2>1, <2>2, <2>3, WorldKeeps
<1> QED
  BY <1>1, <1>2, <1>3 DEF Next, Done

\* The inductive invariant holds in every state of a host's goroutine, whatever the
\* remote host does and whenever Ctrl+C comes.
THEOREM Invariance == Spec => []IInv
<1>1. Init => IInv
  BY InitIInv
<1>2. IInv /\ [Next]_vars => IInv'
  BY NextIInv
<1> QED
  BY <1>1, <1>2, PTL DEF Spec

\* runHost's state is well typed; no step ever dereferences a nil client.
THEOREM TypeCorrect == Spec => []TypeOK
<1>1. IInv => TypeOK
  BY DEF IInv
<1> QED
  BY <1>1, Invariance, PTL

\* When runHost returns, the report has every step and the host's status, category
\* and failed step are those of the first step that did not succeed.
THEOREM FirstFailureDecides == Spec => []HostVerdict
<1>1. ASSUME IInv PROVE HostVerdict
  <2> SUFFICES ASSUME pc = "done"
               PROVE  /\ Len(steps) = Len(job)
                      /\ host.status = "SUCCESS" <=>
                           \A i \in 1..Len(job) : steps[i].status = "SUCCESS"
                      /\ host.step # 0 =>
                           /\ steps[host.step].cat = host.cat
                           /\ \A i \in 1..(host.step - 1) : steps[i].status = "SUCCESS"
                      /\ host.status \in HostStatuses(cancelled)
    BY DEF HostVerdict
  <2>1. Len(steps) = Len(job)
    BY <1>1 DEF IInv, Phase
  <2>2. /\ host.step # 0 =>
             /\ steps[host.step].cat = host.cat
             /\ \A i \in 1..(host.step - 1) : steps[i].status = "SUCCESS"
        /\ host.status \in {"SUCCESS", "FAILED", "CANCELLED"}
        /\ host.status = "CANCELLED" => cancelled
    BY <1>1 DEF IInv, TypeOK, Verdict, Statuses
  <2>3. host.status = "SUCCESS" => \A i \in 1..Len(job) : steps[i].status = "SUCCESS"
    BY <1>1, <2>1 DEF IInv, Verdict
  <2>4. ASSUME host.status # "SUCCESS"
        PROVE  \E i \in 1..Len(job) : steps[i].status # "SUCCESS"
    <3>1. CASE host.step = 0
      <4>1. steps[1].status = "SKIPPED" /\ 1 \in 1..Len(job)
        BY <1>1, <2>4, <3>1, StateFacts DEF IInv, Verdict
      <4> QED
        BY <4>1
    <3>2. CASE host.step # 0
      <4>1. host.step \in 1..Len(job) /\ steps[host.step].status # "SUCCESS"
        BY <1>1, <2>1, <3>2 DEF IInv, Verdict
      <4> QED
        BY <4>1
    <3> QED
      BY <3>1, <3>2
  <2> QED
    BY <2>1, <2>2, <2>3, <2>4 DEF HostStatuses
<1> QED
  BY <1>1, Invariance, PTL

\* A step that is reported as a success was executed on the host, also where
\* runDisconnecting takes a lost connection for a success.
THEOREM SuccessIsReal == Spec => []SuccessMeansRan
<1>1. IInv => SuccessMeansRan
  BY DEF IInv
<1> QED
  BY <1>1, Invariance, PTL

\* reboot, disconnect and fire_and_forget commands run at most once, the others at
\* most once per attempt that runStep may make.
THEOREM CommandsNotRepeated == Spec => []NeverRunsTwice
<1>1. ASSUME IInv PROVE NeverRunsTwice
  <2> SUFFICES ASSUME NEW i \in 1..Len(job)
               PROVE  Len(runs[i]) <= IF job[i].mode = "plain" THEN job[i].retries + 1 ELSE 1
    BY DEF NeverRunsTwice
  <2>1. Retries(job[i]) = IF job[i].mode = "plain" THEN job[i].retries ELSE 0
    BY <1>1, StateFacts, JobFacts
  <2>2. Len(runs[i]) <= Retries(job[i]) + 1
    BY <1>1 DEF IInv, Ran
  <2>3. CASE job[i].mode = "plain"
    BY <2>1, <2>2, <2>3
  <2>4. CASE job[i].mode # "plain"
    BY <2>1, <2>2, <2>4
  <2> QED
    BY <2>3, <2>4
<1> QED
  BY <1>1, Invariance, PTL

\* What ran and what the report says agree: nothing runs behind a failure that ends
\* the job.
THEOREM StopIsRespected == Spec => []NothingRunsAfterAStop
<1>1. IInv => NothingRunsAfterAStop
  BY DEF IInv
<1> QED
  BY <1>1, Invariance, PTL

\* Every command behind a successful reboot step runs on the rebooted host.
THEOREM RebootIsProved == Spec => []AfterRebootOnNewBoot
<1>1. ASSUME IInv PROVE AfterRebootOnNewBoot
  <2> SUFFICES ASSUME NEW i \in 1..Len(steps), NEW j \in 1..Len(job),
                      i < j, job[i].mode = "reboot", steps[i].status = "SUCCESS",
                      runs[i] # <<>>, runs[j] # <<>>
               PROVE  runs[i][1] < runs[j][1]
    BY DEF AfterRebootOnNewBoot
  <2>1. j \in (i + 1)..Len(job)
    OBVIOUS
  <2>2. Rebooted(i)
    BY DEF Rebooted
  <2> QED
    BY <1>1, <2>1, <2>2 DEF IInv, Boots
<1> QED
  BY <1>1, Invariance, PTL

\* The connections that are open are those the goroutine holds, and none is open
\* when it ends.
THEOREM ConnectionsAccounted == Spec => []NoConnectionLeak
<1>1. ASSUME IInv PROVE NoConnectionLeak
  <2> DEFINE H == {c \in {"client", "cand"} : IF c = "client" THEN client.open ELSE cand.open}
  <2>1. /\ client.open \in BOOLEAN /\ cand.open \in BOOLEAN
        /\ open = Held(client) + Held(cand)
    BY <1>1, StateFacts DEF IInv, Clients, Conn
  <2>2. Cardinality(H) = Held(client) + Held(cand)
    <3>1. CASE client.open /\ cand.open
      <4>1. H = {"client", "cand"} /\ Cardinality({"client", "cand"}) = 2
        <5>1. H = {"client", "cand"}
          BY <3>1
        <5>2. IsFiniteSet({"client"}) /\ Cardinality({"client"}) = 1
          BY FS_Singleton
        <5>3. Cardinality({"client"} \cup {"cand"}) = 2
          BY <5>2, FS_AddElement
        <5>4. {"client"} \cup {"cand"} = {"client", "cand"}
          OBVIOUS
        <5> QED
          BY <5>1, <5>3, <5>4
      <4> QED
        BY <3>1, <4>1 DEF Held
    <3>2. CASE client.open /\ ~cand.open
      <4>1. H = {"client"}
        BY <3>2
      <4> QED
        BY <3>2, <4>1, FS_Singleton DEF Held
    <3>3. CASE ~client.open /\ cand.open
      <4>1. H = {"cand"}
        BY <3>3
      <4> QED
        BY <3>3, <4>1, FS_Singleton DEF Held
    <3>4. CASE ~client.open /\ ~cand.open
      <4>1. H = {}
        BY <3>4
      <4> QED
        BY <3>4, <4>1, FS_EmptySet DEF Held
    <3> QED
      BY <2>1, <3>1, <3>2, <3>3, <3>4
  <2>3. pc = "done" => Held(client) = 0 /\ Held(cand) = 0
    BY <1>1 DEF IInv, Clients, Held
  <2> QED
    BY <2>1, <2>2, <2>3 DEF NoConnectionLeak
<1> QED
  BY <1>1, Invariance, PTL

\* After a refused login or host key nothing is dialled again.
THEOREM RefusalIsFinal == Spec => []AuthFailureIsFinal
<1>1. IInv => AuthFailureIsFinal
  BY DEF IInv, Final, AuthFailureIsFinal
<1> QED
  BY <1>1, Invariance, PTL

-----------------------------------------------------------------------------
(* The first connection, as module Dialing has it.                         *)

\* The deadline of waitForHost is of no concern to connect.
NoDeadlineYet == pc \in {"dial", "backoff"} => ~expired

\* The action leaves connect behind, and its outcome with it.
LEMMA EndStepKeepsResult ==
  ASSUME IInv, NEW sr, NEW cat, NEW c, EndStep(sr, cat, c), pc \notin {"dial", "backoff"},
         UNCHANGED <<attempt, cancelled>>
  PROVE  UNCHANGED D!vars
<1>1. k # 0 /\ pc' = "next" /\ (host' = host \/ host' = Fail(cat, k))
  BY DEF IInv, TypeOK, EndStep
<1>2. /\ (host'.cat # "nil" /\ host'.step = 0) <=> (host.cat # "nil" /\ host.step = 0)
      /\ host.cat # "nil" => host'.cat = host.cat
  <2>1. CASE host' = host
    BY <2>1
  <2>2. CASE host' = Fail(cat, k) /\ host.cat # "nil"
    BY <2>2 DEF Fail
  <2>3. CASE host' = Fail(cat, k) /\ host.cat = "nil"
    <3>1. host'.step = k
      BY <2>3 DEF Fail
    <3> QED
      BY <1>1, <2>3, <3>1
  <2> QED
    BY <1>1, <2>1, <2>2, <2>3
<1>3. DialPhase = "over" /\ DialPhase' = "over"
  BY <1>1 DEF DialPhase
<1>4. DialResult' = DialResult
  BY <1>2, <1>3 DEF DialResult
<1> QED
  BY <1>3, <1>4 DEF D!vars

LEMMA StepKeepsResult ==
  ASSUME UNCHANGED <<host, attempt, cancelled>>,
         pc' = pc \/ (pc \notin {"dial", "backoff"} /\ pc' \notin {"dial", "backoff"})
  PROVE  UNCHANGED D!vars
BY DEF D!vars, DialPhase, DialResult

LEMMA ConnectDials == ASSUME IInv, NoDeadlineYet, Connect PROVE D!Dial
<1>1. pc = "dial" /\ ~expired /\ UNCHANGED cancelled
  BY DEF Connect, NoDeadlineYet
<1>2. host.cat = "nil"
  BY <1>1, StateFacts DEF IInv, Phase, Verdict
<1>3. DialPhase = "dial" /\ DialResult = "nil"
  BY <1>1 DEF DialPhase, DialResult
<1>4. CASE pc' = "probe" /\ UNCHANGED <<attempt, host>>
  <2>1. DialPhase' = "over" /\ DialResult' = "ok"
    BY <1>2, <1>4 DEF DialPhase, DialResult
  <2> QED
    BY <1>1, <1>3, <1>4, <2>1 DEF D!Dial, D!Over
<1>5. ASSUME NEW cat \in DialFailures(cancelled, expired), UNCHANGED attempt,
             ~Retryable(cat) \/ attempt > ConnectRetries \/ cancelled, NoConnection(cat)
      PROVE  D!Dial
  <2>1. cat \in D!DialFailures(cancelled, FALSE) /\ ~D!TriesAgain(cat) /\ cat # "nil"
    <3>1. attempt > ConnectRetries => ~(attempt <= ConnectRetries)
      BY StateFacts
    <3> QED
      BY <1>1, <1>5, <3>1 DEF DialFailures, Unclassified, D!DialFailures,
                              D!Unclassified,
                              D!TriesAgain, D!Retryable, Retryable
  <2>2. pc' = "done" /\ host'.cat = cat /\ host'.step = 0
    BY <1>2, <1>5 DEF NoConnection, Fail
  <2>3. DialPhase' = "over" /\ DialResult' = cat
    BY <2>1, <2>2 DEF DialPhase, DialResult
  <2> QED
    BY <1>1, <1>3, <1>5, <2>1, <2>3 DEF D!Dial, D!Over
<1>6. ASSUME NEW cat \in DialFailures(cancelled, expired), UNCHANGED <<attempt, host>>,
             Retryable(cat), attempt <= ConnectRetries, ~cancelled, pc' = "backoff"
      PROVE  D!Dial
  <2>1. cat \in D!DialFailures(cancelled, FALSE) /\ D!TriesAgain(cat)
    BY <1>1, <1>6 DEF DialFailures, Unclassified, D!DialFailures, D!Unclassified,
                      D!TriesAgain, D!Retryable, Retryable
  <2>2. DialPhase' = "pause" /\ DialResult' = "nil"
    BY <1>6 DEF DialPhase, DialResult
  <2> QED
    BY <1>1, <1>3, <1>6, <2>1, <2>2 DEF D!Dial
<1>7. attempt > ConnectRetries \/ attempt <= ConnectRetries
  BY StateFacts
<1> QED
  BY <1>4, <1>5, <1>6, <1>7 DEF Connect

LEMMA BackoffPauses == ASSUME IInv, Backoff PROVE D!Pause
<1>1. pc = "backoff" /\ UNCHANGED cancelled
  BY DEF Backoff
<1>2. host.cat = "nil" /\ DialPhase = "pause" /\ DialResult = "nil"
  BY <1>1, StateFacts DEF IInv, Phase, Verdict, DialPhase, DialResult
<1>3. CASE cancelled /\ NoConnection("CANCELLED") /\ UNCHANGED attempt
  <2>1. pc' = "done" /\ host'.cat = "CANCELLED" /\ host'.step = 0
    BY <1>2, <1>3 DEF NoConnection, Fail
  <2>2. DialPhase' = "over" /\ DialResult' = "CANCELLED"
    BY <2>1 DEF DialPhase, DialResult
  <2> QED
    BY <1>1, <1>2, <1>3, <2>2 DEF D!Pause, D!Over
<1>4. CASE attempt' = attempt + 1 /\ pc' = "dial" /\ UNCHANGED host
  BY <1>1, <1>2, <1>4 DEF D!Pause, DialPhase, DialResult
<1> QED
  BY <1>3, <1>4 DEF Backoff

LEMMA DialNext ==
  ASSUME IInv, NoDeadlineYet, [Next]_vars
  PROVE  [D!Next]_(D!vars) /\ NoDeadlineYet'
<1> USE DEF waiting, report, remote
<1>1. CASE Connect
  BY <1>1, ConnectDials DEF D!Next, NoDeadlineYet, Connect
<1>2. CASE Backoff
  BY <1>2, BackoffPauses DEF D!Next, NoDeadlineYet, Backoff
<1>3. CASE Probe \/ SkipStep \/ BeginStep \/ EndHost \/ Upload \/ Command \/ Tried \/ RetryWait
  <2>1. /\ UNCHANGED <<host, attempt, cancelled>>
        /\ pc \notin {"dial", "backoff"} /\ pc' \notin {"dial", "backoff"}
    BY <1>3 DEF Probe, SkipStep, BeginStep, EndHost, Upload, Command, Tried, RetryWait
  <2> QED
    BY <2>1, StepKeepsResult DEF NoDeadlineYet
<1>4. ASSUME pc \notin {"dial", "backoff"}, UNCHANGED <<attempt, cancelled>>,
             \/ \E sr, cat, c : EndStep(sr, cat, c)
             \/ UNCHANGED host /\ pc' \notin {"dial", "backoff"}
      PROVE  [D!Next]_(D!vars) /\ NoDeadlineYet'
  <2>1. CASE \E sr, cat, c : EndStep(sr, cat, c)
    BY <1>4, <2>1, EndStepKeepsResult DEF NoDeadlineYet, EndStep
  <2>2. CASE UNCHANGED host /\ pc' \notin {"dial", "backoff"}
    BY <1>4, <2>2, StepKeepsResult DEF NoDeadlineYet
  <2> QED
    BY <1>4, <2>1, <2>2
<1>5. CASE ReadBootID
  BY <1>4, <1>5 DEF ReadBootID
<1>6. CASE JudgePlain
  BY <1>4, <1>6 DEF JudgePlain
<1>7. CASE JudgeDisconnecting
  BY <1>4, <1>7 DEF JudgeDisconnecting
<1>8. CASE WaitForHost
  BY <1>4, <1>8 DEF WaitForHost
<1>9. CASE Redial
  BY <1>4, <1>9 DEF Redial
<1>10. CASE CheckNewBoot
  BY <1>4, <1>10 DEF CheckNewBoot
<1>11. CASE Drop \/ GoDown \/ ComeUp \/ FallSilent
  BY <1>11, StepKeepsResult DEF Drop, GoDown, ComeUp, FallSilent, NoDeadlineYet
<1>12. CASE Expire
  BY <1>12, StepKeepsResult DEF Expire, NoDeadlineYet
<1>13. CASE Cancel
  BY <1>13 DEF Cancel, D!Next, D!Cancel, DialPhase, DialResult, NoDeadlineYet
<1>14. CASE UNCHANGED vars
  BY <1>14, StepKeepsResult DEF vars, NoDeadlineYet
<1> QED
  BY <1>1, <1>2, <1>3, <1>5, <1>6, <1>7, <1>8, <1>9, <1>10, <1>11, <1>12, <1>13, <1>14
     DEF Next, Goroutine, Done

\* What runHost does until it has a connection is a behaviour of Dialing, and the
\* failure of connect stays the host's result for good.  With
\* ConnectImplementsDialing: HostRun takes no more for granted than Dial and
\* connect give.
THEOREM HostConnectsAsPromised == Spec => ConnectsAsPromised
<1>1. Init => D!Init /\ NoDeadlineYet
  BY DEF Init, D!Init, DialPhase, DialResult, NoDeadlineYet
<1> QED
  BY <1>1, DialNext, Invariance, PTL DEF Spec, D!Spec, ConnectsAsPromised

-----------------------------------------------------------------------------
(* What is in the report stays there.                                      *)

\* What ReportIsFinal asks of a step.
Grows ==
  /\ \A i \in 1..Len(steps) : i <= Len(steps') /\ steps'[i] = steps[i]
  /\ \A i \in 1..Len(job) : i # Len(steps) + 1 => runs'[i] = runs[i]
  /\ host.cat # "nil" => host' = host
  /\ pc = "done" => UNCHANGED <<pc, steps, host, runs, open>>

\* The end of a step adds its result behind the others.
LEMMA EndStepGrows ==
  ASSUME IInv, NEW sr, NEW cat, NEW c, EndStep(sr, cat, c), pc # "done", UNCHANGED runs
  PROVE  Grows
<1>1. steps \in Seq([status : Statuses, cat : Cat])
  BY DEF IInv, TypeOK
<1>2. \A i \in 1..Len(steps) : i <= Len(steps') /\ steps'[i] = steps[i]
  BY <1>1 DEF EndStep
<1>3. host.cat # "nil" => host' = host
  BY DEF EndStep, Fail
<1> QED
  BY <1>2, <1>3 DEF Grows

\* A connection that is never made leaves a report of skipped steps, where there
\* was none.
LEMMA NoConnectionGrows ==
  ASSUME IInv, NEW cat, NoConnection(cat), pc \in {"dial", "backoff"}, UNCHANGED runs
  PROVE  Grows
<1>1. Len(steps) = 0
  BY StateFacts DEF IInv, Phase
<1>2. host.cat # "nil" => host' = host
  BY DEF NoConnection, Fail
<1> QED
  BY <1>1, <1>2 DEF Grows

LEMMA QuietGrows ==
  ASSUME IInv, UNCHANGED <<steps, host, runs>>, pc = "done" => pc' = pc /\ open' = open
  PROVE  Grows
<1>1. steps \in Seq([status : Statuses, cat : Cat])
  BY DEF IInv, TypeOK
<1> QED
  BY <1>1 DEF Grows

LEMMA NextGrows == ASSUME IInv, Next PROVE Grows
<1> USE DEF waiting, report, remote
<1>1. CASE Connect
  BY <1>1, NoConnectionGrows, QuietGrows DEF Connect
<1>2. CASE Backoff
  BY <1>2, NoConnectionGrows, QuietGrows DEF Backoff
<1>3. CASE Probe \/ BeginStep \/ EndHost \/ Upload \/ Tried \/ RetryWait
  BY <1>3, QuietGrows DEF Probe, BeginStep, EndHost, Upload, Tried, RetryWait
<1>4. CASE SkipStep
  <2>1. steps \in Seq([status : Statuses, cat : Cat])
    BY DEF IInv, TypeOK
  <2>2. \A i \in 1..Len(steps) : i <= Len(steps') /\ steps'[i] = steps[i]
    BY <1>4, <2>1 DEF SkipStep
  <2> QED
    BY <1>4, <2>2 DEF SkipStep, Grows
<1>5. CASE Command
  <2>1. /\ pc \in {"command", "attempt"} /\ UNCHANGED <<steps, host, job>>
        /\ runs' = runs \/ runs' = [runs EXCEPT ![k] = Append(@, client.boot)]
    BY <1>5 DEF Command
  <2>2. k = Len(steps) + 1 /\ runs \in [1..Len(job) -> Seq(Nat)]
    BY <2>1, StateFacts DEF IInv, Phase, TypeOK
  <2>3. \A i \in 1..Len(job) : i # Len(steps) + 1 => runs'[i] = runs[i]
    BY <2>1, <2>2
  <2>4. steps \in Seq([status : Statuses, cat : Cat])
    BY DEF IInv, TypeOK
  <2> QED
    BY <2>1, <2>3, <2>4 DEF Grows
<1>6. ASSUME pc # "done", UNCHANGED runs,
             \/ \E sr, cat, c : EndStep(sr, cat, c)
             \/ UNCHANGED <<steps, host>>
      PROVE  Grows
  BY <1>6, EndStepGrows, QuietGrows
<1>7. CASE ReadBootID
  BY <1>6, <1>7 DEF ReadBootID
<1>8. CASE JudgePlain
  BY <1>6, <1>8 DEF JudgePlain
<1>9. CASE JudgeDisconnecting
  BY <1>6, <1>9 DEF JudgeDisconnecting
<1>10. CASE WaitForHost
  BY <1>6, <1>10 DEF WaitForHost
<1>11. CASE Redial
  BY <1>6, <1>11 DEF Redial
<1>12. CASE CheckNewBoot
  BY <1>6, <1>12 DEF CheckNewBoot
<1>13. CASE Drop \/ GoDown \/ ComeUp \/ FallSilent \/ Expire \/ Cancel
            \/ UNCHANGED vars
  BY <1>13, QuietGrows DEF Drop, GoDown, ComeUp, FallSilent, Expire, Cancel, vars
<1> QED
  BY <1>1, <1>2, <1>3, <1>4, <1>5, <1>7, <1>8, <1>9, <1>10, <1>11, <1>12, <1>13
     DEF Next, Goroutine, Done

\* Over all retries, reconnects and reboots the report of a host only grows: no
\* StepResult, no failure and no finished host is ever rewritten, and no command
\* of a step that is reported, or not yet reached, is run.
THEOREM ReportOnlyGrows == Spec => ReportIsFinal
<1>1. IInv /\ [Next]_vars => [Grows]_vars
  BY NextGrows
<1> QED
  BY <1>1, Invariance, PTL DEF Spec, ReportIsFinal, Grows

=============================================================================
