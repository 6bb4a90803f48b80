------------------------------ MODULE HostKeys ------------------------------
(***************************************************************************)
(* Host key verification and trust on first use (internal/sshx/dial.go:    *)
(* HostKeys, and its use in handshake).  Handshakes of several connections *)
(* share the known_hosts file and a cached copy of it; another program     *)
(* (ssh, ssh-keyscan) may add lines to the file meanwhile.                 *)
(*                                                                         *)
(* file is the set of its lines <<host, key, who wrote it>>; "torn" is a   *)
(* file knownhosts.New rejects, "dangling" one whose last line has no      *)
(* newline.  Line and New are external: a line appended to a dangling file *)
(* becomes part of the last line, which no longer parses, or swallows it   *)
(* as a comment.                                                           *)
(***************************************************************************)
EXTENDS Integers, FiniteSets

CONSTANTS
  Conns,      \* the connections being set up
  HostNames,  \* the hosts they go to
  Keys,       \* host keys
  Modes,      \* how keys are checked: subset of {"strict", "accept-new", "insecure"}
  MaxEdits    \* bound: lines another program adds

ASSUME HostKeysAssumption ==
  /\ IsFiniteSet(Conns) /\ "free" \notin Conns
  /\ Modes \subseteq {"strict", "accept-new", "insecure"}
  /\ MaxEdits \in Nat

VARIABLES
  mode,       \* how this run checks keys; insecure outweighs accept-new
  exists,     \* the file is there
  lines,      \* its lines
  torn,       \* it does not parse
  dangling,   \* its last line has no newline
  mtime,      \* its modification time
  cache,      \* h.cb: the lines it was made from, if cached
  cached,     \* h.cb # nil
  modTime,    \* h.modTime
  mu,         \* who holds h.mu across steps: a connection, or "free"
  pc,         \* pc[c]: where the handshake of c is
  dest,       \* dest[c]: the host it connects to
  strict,     \* strict[c]: the lines the callback it got was made from
  key,        \* key[c]: the key the server presented
  verdict,    \* verdict[c]: "none", "ok" or a failure category
  swallowed,  \* history: the connections whose line ran into an unfinished one
  edits

vars == <<mode, exists, lines, torn, dangling, mtime, cache, cached, modTime, mu, pc, dest,
          strict, key, verdict, swallowed, edits>>

file == <<exists, lines, torn, dangling, mtime>>

NoKey == "none"

AcceptNew == mode = "accept-new"

Insecure == mode = "insecure"

Init ==
  /\ mode \in Modes
  /\ exists \in BOOLEAN
  /\ \E h \in HostNames, k \in Keys :
       lines \in IF exists THEN {{}, {<<h, k, "user">>}} ELSE {{}}
  /\ torn = FALSE
  /\ dangling \in IF exists THEN BOOLEAN ELSE {FALSE}
  /\ mtime = 0 /\ cache = {} /\ cached = FALSE /\ modTime = 0 /\ mu = "free"
  /\ pc = [c \in Conns |-> "callback"]
  /\ dest \in [Conns -> HostNames]
  /\ strict = [c \in Conns |-> {}]
  /\ key = [c \in Conns |-> NoKey]
  /\ verdict = [c \in Conns |-> "none"]
  /\ swallowed = {} /\ edits = 0

\* The check knownhosts makes of a key against the lines ls.
Check(ls, h, k) ==
  IF \E l \in ls : l[1] = h /\ l[2] = k THEN "ok"
  ELSE IF \E l \in ls : l[1] = h THEN "HOST_KEY_MISMATCH" ELSE "HOST_KEY_UNKNOWN"

Finish(c, v) ==
  /\ verdict' = [verdict EXCEPT ![c] = v]
  /\ pc' = [pc EXCEPT ![c] = "done"]

-----------------------------------------------------------------------------
(* load: the lines to check against, or failure; the caller holds h.mu.    *)

Stale == ~cached \/ mtime # modTime

LoadFails == torn /\ exists /\ Stale

\* A missing file is created when new keys are accepted, otherwise an error.
Missing == ~exists /\ ~AcceptNew

Loaded == IF Stale THEN lines ELSE cache

\* What load leaves behind.
AfterLoad ==
  /\ exists' = TRUE
  /\ cache' = Loaded /\ cached' = TRUE /\ modTime' = mtime
  /\ UNCHANGED <<lines, torn, dangling, mtime>>

\* handshake: cb, err := d.HostKeys.Callback().  load may also fail at any time:
\* the file cannot be created or read.
Callback(c) ==
  /\ pc[c] = "callback" /\ mu = "free"
  /\ \/ /\ Insecure
        /\ pc' = [pc EXCEPT ![c] = "verify"]
        /\ UNCHANGED <<file, cache, cached, modTime, strict, verdict>>
     \/ /\ ~Insecure
        /\ Finish(c, "HOST_KEY_UNKNOWN")
        /\ UNCHANGED <<file, cache, cached, modTime, strict>>
     \/ /\ ~Insecure /\ ~Missing /\ ~LoadFails
        /\ AfterLoad
        /\ strict' = [strict EXCEPT ![c] = Loaded]
        /\ pc' = [pc EXCEPT ![c] = "verify"]
        /\ UNCHANGED verdict
  /\ UNCHANGED <<mode, mu, dest, key, swallowed, edits>>

\* verifier: the strict check of the key the server presents; only a host with
\* no line at all goes on to add.
Verify(c) ==
  /\ pc[c] = "verify"
  /\ \E k \in Keys :
       /\ key' = [key EXCEPT ![c] = k]
       /\ LET v == IF Insecure THEN "ok" ELSE Check(strict[c], dest[c], k)
          IN IF v = "HOST_KEY_UNKNOWN" /\ AcceptNew
             THEN pc' = [pc EXCEPT ![c] = "add"] /\ UNCHANGED verdict
             ELSE Finish(c, v)
  /\ UNCHANGED <<mode, file, cache, cached, modTime, mu, dest, strict, swallowed, edits>>

RecheckNothing(c) == "HOST_KEY_UNKNOWN"

\* add: the check is repeated on a fresh read under the lock.
Recheck(c) == Check(lines, dest[c], key[c])

\* add, up to the append: h.cb = nil; load; check again.
AddCheck(c) ==
  /\ pc[c] = "add" /\ mu = "free"
  /\ \/ /\ Finish(c, "HOST_KEY_UNKNOWN")
        /\ cached' = FALSE
        /\ UNCHANGED <<file, cache, modTime, mu>>
     \/ /\ ~(torn /\ exists)
        /\ exists' = TRUE
        /\ cache' = lines /\ cached' = TRUE /\ modTime' = mtime
        /\ UNCHANGED <<lines, torn, dangling, mtime>>
        /\ IF Recheck(c) = "HOST_KEY_UNKNOWN"
           THEN mu' = c /\ pc' = [pc EXCEPT ![c] = "append"] /\ UNCHANGED verdict
           ELSE Finish(c, Recheck(c)) /\ UNCHANGED mu
  /\ UNCHANGED <<mode, dest, strict, key, swallowed, edits>>

NoUnlock == UNCHANGED mu

\* The deferred h.mu.Unlock of add.
Unlock == mu' = "free"

AppendedNothing(l) == lines

\* The file after Fprintln: the new line, unless it runs into the last one.
Appended(l) == IF dangling THEN lines ELSE lines \cup {l}

\* The line is written; closing the file may still fail, and then the key is
\* recorded and the connection refused.
Written(c) ==
  /\ lines' = Appended(<<dest[c], key[c], "rco">>)
  /\ torn' \in {torn, torn \/ dangling} /\ dangling' = FALSE
  /\ swallowed' = IF dangling THEN swallowed \cup {c} ELSE swallowed
  /\ mtime' = mtime + 1
  /\ \/ cached' = FALSE /\ Finish(c, "ok")
     \/ UNCHANGED cached /\ Finish(c, "HOST_KEY_UNKNOWN")
  /\ UNCHANGED exists

\* The file cannot be opened, or the write fails part way through.
NotWritten(c) ==
  /\ \/ UNCHANGED file
     \/ torn' = TRUE /\ mtime' = mtime + 1 /\ UNCHANGED <<exists, lines, dangling>>
  /\ Finish(c, "HOST_KEY_UNKNOWN")
  /\ UNCHANGED <<swallowed, cached>>

AddAppend(c) ==
  /\ pc[c] = "append" /\ mu = c
  /\ Unlock
  /\ Written(c) \/ NotWritten(c)
  /\ UNCHANGED <<mode, cache, modTime, dest, strict, key, edits>>

-----------------------------------------------------------------------------

\* Another program adds a host that has no line; the file's time may be too
\* coarse to show it.
Edit ==
  /\ exists /\ ~torn /\ edits < MaxEdits
  /\ \E h \in HostNames, k \in Keys :
       /\ Check(lines, h, k) = "HOST_KEY_UNKNOWN"
       /\ lines' = lines \cup {<<h, k, "user">>}
  /\ dangling' = FALSE
  /\ mtime' \in {mtime, mtime + 1}
  /\ edits' = edits + 1
  /\ UNCHANGED <<mode, exists, torn, cache, cached, modTime, mu, pc, dest, strict, key,
                 verdict, swallowed>>

Done == (\A c \in Conns : pc[c] = "done") /\ UNCHANGED vars

Next ==
  \/ \E c \in Conns : Callback(c) \/ Verify(c) \/ AddCheck(c) \/ AddAppend(c)
  \/ Edit \/ Done

Spec == Init /\ [][Next]_vars

-----------------------------------------------------------------------------
(* Properties.                                                             *)

\* The type invariant of the file, the cache and the handshakes; the lock is
\* held exactly while a line is being appended.
TypeOK ==
  /\ mode \in Modes
  /\ exists \in BOOLEAN /\ torn \in BOOLEAN /\ dangling \in BOOLEAN
  /\ lines \subseteq HostNames \X Keys \X {"user", "rco"}
  /\ cache \subseteq HostNames \X Keys \X {"user", "rco"}
  /\ mtime \in Nat /\ modTime \in Nat /\ cached \in BOOLEAN
  /\ mu \in Conns \cup {"free"}
  /\ pc \in [Conns -> {"callback", "verify", "add", "append", "done"}]
  /\ \A c \in Conns : pc[c] = "append" <=> mu = c
  /\ dest \in [Conns -> HostNames]
  /\ strict \in [Conns -> SUBSET (HostNames \X Keys \X {"user", "rco"})]
  /\ key \in [Conns -> Keys \cup {NoKey}]
  /\ verdict \in [Conns -> {"none", "ok", "HOST_KEY_MISMATCH", "HOST_KEY_UNKNOWN"}]
  /\ swallowed \subseteq Conns /\ edits \in 0..MaxEdits

\* Trust on first use stays trust on first use when several connections meet
\* the same new host at once: rco records at most one key per host.
OneNewKeyPerHost ==
  \A l, m \in lines : l[3] = "rco" /\ m[3] = "rco" /\ l[1] = m[1] => l[2] = m[2]

\* No key is accepted on the quiet: a verified connection's key is a line of
\* the file, whether it was found there or has just been added.  One connection
\* at most is excepted, the one whose line ran into a last line without newline,
\* which nothing checks: its key is accepted and recorded nowhere, although
\* sshx_test.go says "The recorded key is trusted by a strict client afterwards".
AcceptedIsRecorded ==
  /\ ~Insecure => \A c \in Conns : verdict[c] = "ok" =>
       c \in swallowed \/ \E l \in lines : l[1] = dest[c] /\ l[2] = key[c]
  /\ dangling => swallowed = {}
  /\ \A c, d \in swallowed : c = d

\* Without --accept-new rco never creates, extends or damages known_hosts; with it
\* rco only adds lines, none for a host it has recorded a key for.  No line is ever
\* lost, and a verdict, with the key it is about, is given once.
OnlyAcceptNewWrites ==
  [][/\ lines \subseteq lines'
     /\ \A l \in lines' \ lines : l[3] = "rco" =>
          AcceptNew /\ \A m \in lines : m[1] = l[1] => m[3] = "user"
     /\ ~AcceptNew => UNCHANGED <<exists, torn>>
     /\ \A c \in Conns : verdict[c] # "none" =>
          verdict'[c] = verdict[c] /\ key'[c] = key[c]]_vars

=============================================================================
