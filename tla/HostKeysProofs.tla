---------------------------- MODULE HostKeysProofs ----------------------------
(***************************************************************************)
(* Proofs about module HostKeys, for any number of connections, hosts,     *)
(* keys and edits by other programs, in every mode: rco records one key    *)
(* per host, and accepts no key that the file does not hold, save one that *)
(* ran into an unfinished last line.                                       *)
(***************************************************************************)
EXTENDS HostKeys, TLAPS

Line == HostNames \X Keys \X {"user", "rco"}

\* What rco has read is in the file: nothing removes lines.
ReadIsWritten == cache \subseteq lines /\ \A c \in Conns : strict[c] \subseteq lines

\* The connection that appends has found no line for its host under the lock.
\* Another program may add one since; rco may not.
AppendsFirst ==
  \A c \in Conns : pc[c] = "append" =>
    \A l \in lines : l[1] = dest[c] => l[3] = "user"

\* A verdict is final, and comes with the key it is about.
VerdictIsFinal ==
  \A c \in Conns :
    /\ verdict[c] # "none" => pc[c] = "done"
    /\ pc[c] \in {"add", "append"} => key[c] \in Keys

\* The inductive invariant for one new key per host.
IInv == TypeOK /\ ReadIsWritten /\ AppendsFirst /\ VerdictIsFinal /\ OneNewKeyPerHost

LEMMA CheckValues ==
  ASSUME NEW ls, NEW h, NEW k
  PROVE  /\ Check(ls, h, k) \in {"ok", "HOST_KEY_MISMATCH", "HOST_KEY_UNKNOWN"}
         /\ Check(ls, h, k) = "ok" => \E l \in ls : l[1] = h /\ l[2] = k
         /\ Check(ls, h, k) = "HOST_KEY_UNKNOWN" => \A l \in ls : l[1] # h
BY DEF Check

LEMMA InitIInv == Init => IInv
<1> SUFFICES ASSUME Init PROVE IInv
  OBVIOUS
<1> USE HostKeysAssumption DEF HostKeysAssumption
<1>1. PICK h \in HostNames, k \in Keys :
        lines \in IF exists THEN {{}, {<<h, k, "user">>}} ELSE {{}}
  BY DEF Init
<1>2. lines \subseteq Line /\ \A l \in lines : l[3] = "user"
  BY <1>1 DEF Line
<1>3. TypeOK
  <2>1. /\ exists \in BOOLEAN /\ torn \in BOOLEAN /\ cached \in BOOLEAN
        /\ dangling \in BOOLEAN
    BY Zenon DEF Init
  <2>2. \A c \in Conns : pc[c] = "append" <=> mu = c
    BY DEF Init
  <2>3. /\ pc \in [Conns -> {"callback", "verify", "add", "append", "done"}]
        /\ dest \in [Conns -> HostNames]
        /\ strict \in [Conns -> SUBSET Line]
        /\ key \in [Conns -> Keys \cup {NoKey}]
        /\ verdict \in [Conns -> {"none", "ok", "HOST_KEY_MISMATCH", "HOST_KEY_UNKNOWN"}]
    BY DEF Init
  <2>4. mode \in Modes /\ mtime \in Nat /\ modTime \in Nat /\ edits \in 0..MaxEdits
    BY DEF Init
  <2>5. mu \in Conns \cup {"free"} /\ cache \subseteq Line /\ swallowed \subseteq Conns
    BY DEF Init
  <2> QED
    BY <1>2, <2>1, <2>2, <2>3, <2>4, <2>5, Zenon DEF TypeOK, Line
<1>4. ReadIsWritten /\ AppendsFirst /\ VerdictIsFinal
  BY <1>2 DEF Init, ReadIsWritten, AppendsFirst, VerdictIsFinal
<1>5. OneNewKeyPerHost
  BY <1>2 DEF OneNewKeyPerHost
<1> QED
  BY <1>3, <1>4, <1>5 DEF IInv

-----------------------------------------------------------------------------
(* The steps of a connection.                                              *)

LEMMA CallbackStep == ASSUME NEW c \in Conns, IInv, Callback(c) PROVE IInv'
<1> USE HostKeysAssumption DEF HostKeysAssumption, file, Finish
<1>1. Loaded \subseteq lines
  BY DEF IInv, ReadIsWritten, Loaded
<1>2. TypeOK'
  <2>1. exists' \in BOOLEAN /\ cached' \in BOOLEAN
    BY Zenon DEF IInv, TypeOK, Callback, AfterLoad
  <2>2. pc' \in [Conns -> {"callback", "verify", "add", "append", "done"}]
    BY DEF IInv, TypeOK, Callback
  <2>3. \A d \in Conns : pc'[d] = "append" <=> mu' = d
    BY DEF IInv, TypeOK, Callback
  <2>4. /\ strict' \in [Conns -> SUBSET (HostNames \X Keys \X {"user", "rco"})]
        /\ cache' \subseteq HostNames \X Keys \X {"user", "rco"}
    BY <1>1 DEF IInv, TypeOK, Callback, AfterLoad
  <2>5. verdict' \in [Conns -> {"none", "ok", "HOST_KEY_MISMATCH", "HOST_KEY_UNKNOWN"}]
    BY DEF IInv, TypeOK, Callback
  <2>6. /\ modTime' \in Nat
        /\ UNCHANGED <<mode, torn, dangling, lines, mtime, mu, dest, key, swallowed,
                       edits>>
    BY DEF IInv, TypeOK, Callback, AfterLoad
  <2> QED
    BY <2>1, <2>2, <2>3, <2>4, <2>5, <2>6 DEF IInv, TypeOK
<1>3. lines' = lines /\ dest' = dest /\ key' = key /\ mode' = mode
  BY DEF Callback, AfterLoad
<1>4. ReadIsWritten'
  BY <1>1, <1>3 DEF IInv, TypeOK, ReadIsWritten, Callback, AfterLoad
<1>5. AppendsFirst'
  BY <1>3 DEF IInv, TypeOK, AppendsFirst, Callback
<1>6. VerdictIsFinal'
  BY <1>3 DEF IInv, TypeOK, VerdictIsFinal, Callback
<1>7. OneNewKeyPerHost'
  BY <1>3 DEF IInv, OneNewKeyPerHost
<1> QED
  BY <1>2, <1>4, <1>5, <1>6, <1>7 DEF IInv

LEMMA VerifyStep == ASSUME NEW c \in Conns, IInv, Verify(c) PROVE IInv'
<1> USE HostKeysAssumption DEF HostKeysAssumption, file, Finish
<1> DEFINE v(k) == IF Insecure THEN "ok" ELSE Check(strict[c], dest[c], k)
<1>1. PICK k \in Keys :
        /\ key' = [key EXCEPT ![c] = k]
        /\ IF v(k) = "HOST_KEY_UNKNOWN" /\ AcceptNew
           THEN pc' = [pc EXCEPT ![c] = "add"] /\ UNCHANGED verdict
           ELSE Finish(c, v(k))
  BY DEF Verify
<1>2. v(k) \in {"ok", "HOST_KEY_MISMATCH", "HOST_KEY_UNKNOWN"}
  BY CheckValues
<1>3. /\ pc[c] = "verify"
      /\ UNCHANGED <<mode, exists, lines, torn, dangling, mtime, cache, cached, modTime,
                     mu, dest, strict, swallowed, edits>>
  BY DEF Verify
<1> HIDE DEF v
<1>4. TypeOK'
  BY <1>1, <1>2, <1>3 DEF IInv, TypeOK
<1>5. ReadIsWritten'
  BY <1>3 DEF IInv, ReadIsWritten
<1>6. AppendsFirst'
  BY <1>1, <1>3 DEF IInv, TypeOK, AppendsFirst
<1>7. VerdictIsFinal'
  BY <1>1, <1>3 DEF IInv, TypeOK, VerdictIsFinal
<1>8. OneNewKeyPerHost'
  BY <1>3 DEF IInv, OneNewKeyPerHost
<1> QED
  BY <1>4, <1>5, <1>6, <1>7, <1>8 DEF IInv

LEMMA AddCheckStep == ASSUME NEW c \in Conns, IInv, AddCheck(c) PROVE IInv'
<1> USE HostKeysAssumption DEF HostKeysAssumption, file, Finish
<1>1. /\ Recheck(c) \in {"ok", "HOST_KEY_MISMATCH", "HOST_KEY_UNKNOWN"}
      /\ Recheck(c) = "HOST_KEY_UNKNOWN" => \A l \in lines : l[1] # dest[c]
  BY CheckValues DEF Recheck
<1>2. /\ pc[c] = "add" /\ mu = "free"
      /\ UNCHANGED <<mode, lines, dest, strict, key>>
  BY DEF AddCheck
<1>3. TypeOK'
  <2>1. exists' \in BOOLEAN /\ cached' \in BOOLEAN
    BY Zenon DEF IInv, TypeOK, AddCheck
  <2>2. /\ pc' \in [Conns -> {"callback", "verify", "add", "append", "done"}]
        /\ verdict' \in [Conns -> {"none", "ok", "HOST_KEY_MISMATCH", "HOST_KEY_UNKNOWN"}]
    BY <1>1 DEF IInv, TypeOK, AddCheck
  <2>3. mu' \in Conns \cup {"free"} /\ \A d \in Conns : pc'[d] = "append" <=> mu' = d
    BY DEF IInv, TypeOK, AddCheck
  <2>4. cache' \subseteq HostNames \X Keys \X {"user", "rco"} /\ modTime' \in Nat
    BY DEF IInv, TypeOK, AddCheck
  <2>5. UNCHANGED <<torn, dangling, mtime, swallowed, edits>>
    BY DEF AddCheck
  <2> QED
    BY <1>2, <2>1, <2>2, <2>3, <2>4, <2>5 DEF IInv, TypeOK
<1>4. ReadIsWritten'
  BY <1>2 DEF IInv, ReadIsWritten, AddCheck
<1>5. AppendsFirst'
  BY <1>1, <1>2 DEF IInv, TypeOK, AppendsFirst, AddCheck
<1>6. VerdictIsFinal'
  BY <1>2 DEF IInv, TypeOK, VerdictIsFinal, AddCheck
<1>7. OneNewKeyPerHost'
  BY <1>2 DEF IInv, OneNewKeyPerHost
<1> QED
  BY <1>3, <1>4, <1>5, <1>6, <1>7 DEF IInv

LEMMA AddAppendStep == ASSUME NEW c \in Conns, IInv, AddAppend(c) PROVE IInv'
<1> USE HostKeysAssumption
    DEF HostKeysAssumption, file, Finish, Unlock, Written, NotWritten
<1> DEFINE new == <<dest[c], key[c], "rco">>
<1>1. /\ pc[c] = "append" /\ mu = c /\ mu' = "free"
      /\ pc' = [pc EXCEPT ![c] = "done"]
      /\ UNCHANGED <<mode, dest, strict, key, cache>>
  BY DEF AddAppend
<1>2. new \in Line /\ new[1] = dest[c] /\ new[3] = "rco"
  BY <1>1 DEF IInv, TypeOK, VerdictIsFinal, Line
<1>3. lines' \subseteq lines \cup {new} /\ lines \subseteq lines'
  BY DEF AddAppend, Appended
<1> HIDE DEF new
<1>4. TypeOK'
  <2>1. lines' \subseteq Line
    BY <1>2, <1>3 DEF IInv, TypeOK, Line
  <2>2. torn' \in BOOLEAN /\ dangling' \in BOOLEAN /\ cached' \in BOOLEAN /\ exists' = exists
    BY Zenon DEF IInv, TypeOK, AddAppend
  <2>3. /\ pc' \in [Conns -> {"callback", "verify", "add", "append", "done"}]
        /\ verdict' \in [Conns -> {"none", "ok", "HOST_KEY_MISMATCH", "HOST_KEY_UNKNOWN"}]
        /\ \A d \in Conns : pc'[d] = "append" <=> mu' = d
    BY <1>1 DEF IInv, TypeOK, AddAppend
  <2>4. mtime' \in Nat /\ swallowed' \subseteq Conns /\ UNCHANGED <<modTime, edits>>
    BY DEF IInv, TypeOK, AddAppend
  <2> QED
    BY <1>1, <2>1, <2>2, <2>3, <2>4 DEF IInv, TypeOK, Line
<1>5. ReadIsWritten'
  BY <1>1, <1>3 DEF IInv, ReadIsWritten
<1>6. AppendsFirst'
  <2>1. \A d \in Conns : pc'[d] # "append"
    BY <1>1 DEF IInv, TypeOK
  <2> QED
    BY <2>1 DEF AppendsFirst
<1>7. VerdictIsFinal'
  BY <1>1 DEF IInv, TypeOK, VerdictIsFinal, AddAppend
<1>8. OneNewKeyPerHost'
  BY <1>1, <1>2, <1>3 DEF IInv, OneNewKeyPerHost, AppendsFirst
<1> QED
  BY <1>4, <1>5, <1>6, <1>7, <1>8 DEF IInv

LEMMA EditStep == ASSUME IInv, Edit PROVE IInv'
<1> USE HostKeysAssumption DEF HostKeysAssumption
<1>1. PICK h \in HostNames, k \in Keys : lines' = lines \cup {<<h, k, "user">>}
  BY DEF Edit
<1>2. /\ <<h, k, "user">> \in Line
      /\ \A l \in lines' \ lines : l[3] = "user"
  BY <1>1 DEF Line
<1>3. TypeOK'
  <2>1. lines' \subseteq Line
    BY <1>1, <1>2 DEF IInv, TypeOK, Line
  <2>2. dangling' \in BOOLEAN
    BY Zenon DEF Edit
  <2>3. mtime' \in Nat /\ edits' \in 0..MaxEdits
    BY DEF IInv, TypeOK, Edit
  <2> QED
    BY <2>1, <2>2, <2>3 DEF IInv, TypeOK, Edit, Line
<1>4. ReadIsWritten'
  BY <1>1 DEF IInv, ReadIsWritten, Edit
<1>5. AppendsFirst'
  BY <1>2 DEF IInv, AppendsFirst, Edit
<1>6. VerdictIsFinal'
  BY DEF IInv, VerdictIsFinal, Edit
<1>7. OneNewKeyPerHost'
  BY <1>2 DEF IInv, OneNewKeyPerHost
<1> QED
  BY <1>3, <1>4, <1>5, <1>6, <1>7 DEF IInv

LEMMA StutterStep == ASSUME IInv, UNCHANGED vars PROVE IInv'
BY DEF IInv, TypeOK, ReadIsWritten, AppendsFirst, VerdictIsFinal, OneNewKeyPerHost,
       vars

LEMMA NextIInv == IInv /\ [Next]_vars => IInv'
<1> SUFFICES ASSUME IInv, [Next]_vars PROVE IInv'
  OBVIOUS
<1>1. CASE \E c \in Conns : Callback(c) \/ Verify(c) \/ AddCheck(c) \/ AddAppend(c)
  BY <1>1, CallbackStep, VerifyStep, AddCheckStep, AddAppendStep
<1>2. CASE Edit
  BY <1>2, EditStep
<1>3. CASE UNCHANGED vars
  BY <1>3, StutterStep
<1> QED
  BY <1>1, <1>2, <1>3 DEF Next, Done

\* The inductive invariant holds of every run.
THEOREM Invariance == Spec => []IInv
BY InitIInv, NextIInv, PTL DEF Spec

\* The file, the cache and the handshakes stay within their types, and h.mu is
\* held across the append by the connection that found the host unknown.
THEOREM TypeCorrect == Spec => []TypeOK
<1>1. IInv => TypeOK
  BY DEF IInv
<1> QED
  BY <1>1, Invariance, PTL

\* rco records at most one key per host, however many connections meet a new host
\* at once and whatever another program adds meanwhile: the check is repeated
\* under the lock that is held until the line is written.
THEOREM OneKeyRecorded == Spec => []OneNewKeyPerHost
<1>1. IInv => OneNewKeyPerHost
  BY DEF IInv
<1> QED
  BY <1>1, Invariance, PTL

-----------------------------------------------------------------------------
(* Accepted keys.                                                          *)

LEMMA InitRecorded == Init => AcceptedIsRecorded
BY DEF Init, AcceptedIsRecorded

\* A step that keeps every verdict, or gives c one that the new file bears out.
LEMMA StillRecorded ==
  ASSUME AcceptedIsRecorded, NEW c \in Conns,
         lines \subseteq lines', UNCHANGED <<mode, dest>>, swallowed \subseteq swallowed',
         dangling' => swallowed' = {}, \A d, e \in swallowed' : d = e,
         \A d \in Conns \ {c} : verdict'[d] = verdict[d] /\ key'[d] = key[d],
         verdict'[c] = "ok" =>
           \/ verdict[c] = "ok" /\ key'[c] = key[c]
           \/ Insecure \/ c \in swallowed'
           \/ \E l \in lines' : l[1] = dest[c] /\ l[2] = key'[c]
  PROVE  AcceptedIsRecorded'
<1> SUFFICES ASSUME ~Insecure, NEW d \in Conns, verdict'[d] = "ok", d \notin swallowed'
             PROVE  \E l \in lines' : l[1] = dest[d] /\ l[2] = key'[d]
  BY DEF AcceptedIsRecorded, Insecure
<1>1. CASE d # c \/ (verdict[c] = "ok" /\ key'[c] = key[c])
  <2>1. verdict[d] = "ok" /\ key'[d] = key[d] /\ d \notin swallowed
    BY <1>1
  <2> QED
    BY <2>1 DEF AcceptedIsRecorded
<1>2. CASE d = c /\ ~(verdict[c] = "ok" /\ key'[c] = key[c])
  BY <1>2
<1> QED
  BY <1>1, <1>2

LEMMA NextRecorded ==
  ASSUME IInv, AcceptedIsRecorded, [Next]_vars PROVE AcceptedIsRecorded'
<1> USE DEF file, Finish
<1>0. (dangling => swallowed = {}) /\ \A d, e \in swallowed : d = e
  BY DEF AcceptedIsRecorded
<1>1. ASSUME NEW c \in Conns, Callback(c) PROVE AcceptedIsRecorded'
  <2>1. /\ UNCHANGED <<mode, dest, key, lines, dangling, swallowed>>
        /\ \A d \in Conns : d # c => verdict'[d] = verdict[d]
        /\ verdict'[c] # "ok" \/ verdict'[c] = verdict[c]
    BY <1>1 DEF IInv, TypeOK, Callback, AfterLoad
  <2> QED
    BY <1>0, <2>1, StillRecorded
<1>2. ASSUME NEW c \in Conns, Verify(c) PROVE AcceptedIsRecorded'
  <2>1. UNCHANGED <<mode, dest, lines, dangling, swallowed>>
    BY <1>2 DEF Verify
  <2>2. verdict'[c] = "ok" =>
           \/ Insecure
           \/ \E l \in lines' : l[1] = dest[c] /\ l[2] = key'[c]
    <3> SUFFICES ASSUME verdict'[c] = "ok", ~Insecure
                 PROVE  \E l \in lines : l[1] = dest[c] /\ l[2] = key'[c]
      BY <2>1
    <3>1. verdict[c] # "ok"
      BY <1>2 DEF IInv, TypeOK, VerdictIsFinal, Verify
    <3>2. Check(strict[c], dest[c], key'[c]) = "ok"
      BY <1>2, <3>1 DEF IInv, TypeOK, Verify
    <3> QED
      BY <3>2, CheckValues DEF IInv, ReadIsWritten
  <2>3. \A d \in Conns \ {c} : verdict'[d] = verdict[d] /\ key'[d] = key[d]
    BY <1>2 DEF IInv, TypeOK, Verify
  <2> QED
    BY <1>0, <2>1, <2>2, <2>3, StillRecorded
<1>3. ASSUME NEW c \in Conns, AddCheck(c) PROVE AcceptedIsRecorded'
  <2>1. UNCHANGED <<mode, dest, key, lines, dangling, swallowed>>
    BY <1>3 DEF AddCheck
  <2>2. /\ \A d \in Conns \ {c} : verdict'[d] = verdict[d]
        /\ verdict'[c] = "ok" => verdict[c] = "ok" \/ Recheck(c) = "ok"
    BY <1>3 DEF IInv, TypeOK, AddCheck
  <2>3. Recheck(c) = "ok" => \E l \in lines : l[1] = dest[c] /\ l[2] = key[c]
    BY CheckValues DEF Recheck
  <2> QED
    BY <1>0, <2>1, <2>2, <2>3, StillRecorded
<1>4. ASSUME NEW c \in Conns, AddAppend(c) PROVE AcceptedIsRecorded'
  <2>0. UNCHANGED <<mode, dest, key>> /\ (Written(c) \/ NotWritten(c))
    BY <1>4 DEF AddAppend
  <2>1. lines \subseteq lines' /\ swallowed \subseteq swallowed'
    BY <2>0 DEF Written, NotWritten, Appended
  <2>2. /\ \A d \in Conns \ {c} : verdict'[d] = verdict[d]
        /\ verdict'[c] = "ok" =>
             c \in swallowed' \/ <<dest[c], key[c], "rco">> \in lines'
    BY <2>0 DEF IInv, TypeOK, Written, NotWritten, Appended
  <2>3. (dangling' => swallowed' = {}) /\ \A d, e \in swallowed' : d = e
    BY <1>0, <2>0 DEF Written, NotWritten
  <2> QED
    BY <2>0, <2>1, <2>2, <2>3, StillRecorded
<1>5. CASE Edit
  <2>1. /\ UNCHANGED <<mode, dest, key, verdict, swallowed>> /\ lines \subseteq lines'
        /\ dangling' = FALSE
    BY <1>5 DEF Edit
  <2> QED
    BY <2>1 DEF AcceptedIsRecorded, Insecure
<1>6. CASE UNCHANGED vars
  BY <1>6 DEF vars, AcceptedIsRecorded, Insecure
<1> QED
  BY <1>1, <1>2, <1>3, <1>4, <1>5, <1>6 DEF Next, Done

\* Whatever known_hosts looks like, every key that rco verified, or took on first
\* use, is a line of the file, except that of at most one connection, whose line
\* ran into a last line without newline: also when several connections, the cache
\* and another program's edits cross.
THEOREM AcceptedKeysRecorded == Spec => []AcceptedIsRecorded
<1>1. IInv /\ AcceptedIsRecorded /\ [Next]_vars => AcceptedIsRecorded'
  BY NextRecorded
<1> QED
  BY <1>1, InitRecorded, Invariance, PTL DEF Spec

-----------------------------------------------------------------------------
(* What rco does to known_hosts.                                           *)

\* Only --accept-new brings a connection to add.
AddsWhenAsked == \A c \in Conns : pc[c] \in {"add", "append"} => AcceptNew

\* What OnlyAcceptNewWrites asks of a step.
Careful ==
  /\ lines \subseteq lines'
  /\ \A l \in lines' \ lines : l[3] = "rco" =>
       AcceptNew /\ \A m \in lines : m[1] = l[1] => m[3] = "user"
  /\ ~AcceptNew => UNCHANGED <<exists, torn>>
  /\ \A c \in Conns : verdict[c] # "none" =>
       verdict'[c] = verdict[c] /\ key'[c] = key[c]

LEMMA NextAdds == IInv /\ AddsWhenAsked /\ [Next]_vars => AddsWhenAsked'
<1> SUFFICES ASSUME IInv, AddsWhenAsked, [Next]_vars PROVE AddsWhenAsked'
  OBVIOUS
<1> USE DEF AddsWhenAsked, AcceptNew, Finish, Written, NotWritten
<1>1. mode' = mode
  BY DEF Next, Callback, Verify, AddCheck, AddAppend, Edit, Done, vars
<1>2. pc \in [Conns -> {"callback", "verify", "add", "append", "done"}]
  BY DEF IInv, TypeOK
<1>3. ASSUME NEW c \in Conns, Callback(c) PROVE AddsWhenAsked'
  BY <1>1, <1>2, <1>3 DEF Callback
<1>4. ASSUME NEW c \in Conns, Verify(c) PROVE AddsWhenAsked'
  BY <1>1, <1>2, <1>4 DEF Verify
<1>5. ASSUME NEW c \in Conns, AddCheck(c) PROVE AddsWhenAsked'
  BY <1>1, <1>2, <1>5 DEF AddCheck
<1>6. ASSUME NEW c \in Conns, AddAppend(c) PROVE AddsWhenAsked'
  BY <1>1, <1>2, <1>6 DEF AddAppend
<1>7. CASE UNCHANGED pc
  BY <1>1, <1>7
<1> QED
  BY <1>3, <1>4, <1>5, <1>6, <1>7 DEF Next, Edit, Done, vars

LEMMA NextCareful == ASSUME IInv, AddsWhenAsked, Next PROVE Careful
<1> USE DEF file, Finish, Written, NotWritten
<1>1. /\ verdict \in [Conns -> {"none", "ok", "HOST_KEY_MISMATCH", "HOST_KEY_UNKNOWN"}]
      /\ key \in [Conns -> Keys \cup {NoKey}] /\ exists \in BOOLEAN
      /\ \A c \in Conns : verdict[c] # "none" => pc[c] = "done"
  BY DEF IInv, TypeOK, VerdictIsFinal
<1>2. ASSUME NEW c \in Conns, Callback(c) PROVE Careful
  <2>1. UNCHANGED <<lines, torn, key>> /\ pc[c] = "callback"
    BY <1>2 DEF Callback, AfterLoad
  <2>2. ~AcceptNew => exists' = exists
    BY <1>1, <1>2 DEF Callback, AfterLoad, Missing
  <2>3. verdict' = verdict \/ verdict' = [verdict EXCEPT ![c] = "HOST_KEY_UNKNOWN"]
    BY <1>2 DEF Callback
  <2> QED
    BY <1>1, <2>1, <2>2, <2>3 DEF Careful
<1>3. ASSUME NEW c \in Conns, Verify(c) PROVE Careful
  BY <1>1, <1>3 DEF Verify, Careful
<1>4. ASSUME NEW c \in Conns, AddCheck(c) PROVE Careful
  <2>1. UNCHANGED <<lines, torn, key>> /\ pc[c] = "add"
    BY <1>4 DEF AddCheck
  <2>2. verdict' = verdict \/ \E v : verdict' = [verdict EXCEPT ![c] = v]
    BY <1>4 DEF AddCheck
  <2> QED
    BY <1>1, <2>1, <2>2 DEF Careful, AddsWhenAsked
<1>5. ASSUME NEW c \in Conns, AddAppend(c) PROVE Careful
  <2>1. pc[c] = "append" /\ UNCHANGED key
    BY <1>5 DEF AddAppend
  <2>2. \E v : verdict' = [verdict EXCEPT ![c] = v]
    BY <1>5 DEF AddAppend
  <2>3. lines' = lines \/ lines' = lines \cup {<<dest[c], key[c], "rco">>}
    BY <1>5 DEF AddAppend, Appended
  <2>4. \A m \in lines : m[1] = dest[c] => m[3] = "user"
    BY <2>1 DEF IInv, AppendsFirst
  <2> QED
    BY <1>1, <2>1, <2>2, <2>3, <2>4 DEF Careful, AddsWhenAsked
<1>6. CASE Edit
  BY <1>6 DEF Edit, Careful
<1>7. CASE UNCHANGED vars
  BY <1>7 DEF vars, Careful
<1> QED
  BY <1>2, <1>3, <1>4, <1>5, <1>6, <1>7 DEF Next, Done

\* Without --accept-new a run leaves known_hosts as it is; with it, a run only adds
\* lines, and none for a host it has recorded a key for.  No verdict is revised.
THEOREM KnownHostsGuarded == Spec => OnlyAcceptNewWrites
<1>1. Init => AddsWhenAsked
  BY DEF Init, AddsWhenAsked
<1>2. IInv /\ AddsWhenAsked /\ [Next]_vars => [Careful]_vars
  BY NextCareful
<1> QED
  BY <1>1, <1>2, NextAdds, Invariance, PTL DEF Spec, OnlyAcceptNewWrites, Careful

=============================================================================
