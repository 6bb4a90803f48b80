----------------------------- MODULE BastionPool -----------------------------
(***************************************************************************)
(* The connection to one bastion shared by the hosts behind it             *)
(* (internal/sshx/bastion.go) and the calls Dialer.Dial makes on it        *)
(* (internal/sshx/dial.go).  p.mu only guards sections that neither block  *)
(* nor call out, so each section is one step.  Bastions do not share       *)
(* state, so one key is enough.                                            *)
(*                                                                         *)
(* An entry is one *pooled; its connection c is "nil" until the owner's    *)
(* dial succeeded, then "open", "dead" (the bastion or the network ended   *)
(* it) or "closed" (rco closed it).  broken reads e.c without waiting for  *)
(* e.ready while the owner may be writing it; the value read is nil or the *)
(* new connection, and neither is the connection broken compares it with,  *)
(* so the race has one outcome.                                            *)
(***************************************************************************)
EXTENDS Integers, FiniteSets

CONSTANTS
  Hosts,       \* the hosts behind the bastion
  MaxTries     \* bound: how often one host calls Dial (retries, reconnects)

ASSUME BastionPoolAssumption == IsFiniteSet(Hosts) /\ MaxTries \in Nat

VARIABLES
  conns,       \* p.conns[key]: an entry, or 0 when the key is absent
  entries,     \* how many entries were made so far; they are 1..entries
  conn,        \* conn[e]: e.c
  err,         \* err[e]: e.err # nil
  ready,       \* ready[e]: e.ready is closed
  watcher,     \* watcher[e]: the goroutine that waits for e.c to end
  pc,          \* pc[h]: where host h is in Dial
  ent,         \* ent[h]: the entry it got
  tries,       \* tries[h]: calls of Dial so far
  result,      \* result[h]: the category its last Dial failed with, or "ok"
  cancelled,   \* ctx.Done() is closed
  closed       \* Close was called at the end of the run

vars == <<conns, entries, conn, err, ready, watcher, pc, ent, tries, result,
          cancelled, closed>>

\* A bound that follows from MaxTries.
MaxEntries == Cardinality(Hosts) * MaxTries

Entries == 1..MaxEntries

Init ==
  /\ conns = 0 /\ entries = 0
  /\ conn = [e \in Entries |-> "nil"]
  /\ err = [e \in Entries |-> FALSE]
  /\ ready = [e \in Entries |-> FALSE]
  /\ watcher = [e \in Entries |-> "none"]
  /\ pc = [h \in Hosts |-> "start"]
  /\ ent = [h \in Hosts |-> 0]
  /\ tries = [h \in Hosts |-> 0]
  /\ result = [h \in Hosts |-> "none"]
  /\ cancelled = FALSE /\ closed = FALSE

Goto(h, p) == pc' = [pc EXCEPT ![h] = p]

-----------------------------------------------------------------------------
(* get                                                                     *)

ShareOnlyReady == conns # 0 /\ ready[conns]

\* e, ok := p.conns[key]: an entry is shared even while it is being dialled.
Shareable == conns # 0

GetShared(h) ==
  /\ pc[h] = "start" /\ tries[h] < MaxTries
  /\ Shareable
  /\ ent' = [ent EXCEPT ![h] = conns]
  /\ tries' = [tries EXCEPT ![h] = @ + 1]
  /\ Goto(h, "wait")
  /\ UNCHANGED <<conns, entries, conn, err, ready, watcher, result, cancelled, closed>>

GetNew(h) ==
  /\ pc[h] = "start" /\ tries[h] < MaxTries
  /\ ~Shareable
  /\ entries' = entries + 1
  /\ conns' = entries'
  /\ ent' = [ent EXCEPT ![h] = entries']
  /\ tries' = [tries EXCEPT ![h] = @ + 1]
  /\ Goto(h, "dial")
  /\ UNCHANGED <<conn, err, ready, watcher, result, cancelled, closed>>

\* dial(ctx) succeeds: e.c is set and a goroutine waits for its end.
DialOK(h) ==
  /\ pc[h] = "dial"
  /\ conn' = [conn EXCEPT ![ent[h]] = "open"]
  /\ watcher' = [watcher EXCEPT ![ent[h]] = "waiting"]
  /\ Goto(h, "publish")
  /\ UNCHANGED <<conns, entries, err, ready, ent, tries, result, cancelled, closed>>

DialFails(h) ==
  /\ pc[h] = "dial"
  /\ err' = [err EXCEPT ![ent[h]] = TRUE]
  /\ Goto(h, "evict")
  /\ UNCHANGED <<conns, entries, conn, ready, watcher, ent, tries, result, cancelled,
                 closed>>

EvictAny(e) == 0

\* evict: the key is deleted only if it still holds entry e.
Evict(e) == IF conns = e THEN 0 ELSE conns

OwnerEvicts(h) ==
  /\ pc[h] = "evict"
  /\ conns' = Evict(ent[h])
  /\ Goto(h, "publish")
  /\ UNCHANGED <<entries, conn, err, ready, watcher, ent, tries, result, cancelled,
                 closed>>

PublishOnlySuccess(h) ==
  /\ pc[h] = "publish"
  /\ ready' = [ready EXCEPT ![ent[h]] = ~err[ent[h]]]
  /\ Goto(h, "wait")
  /\ UNCHANGED <<conns, entries, conn, err, watcher, ent, tries, result, cancelled,
                 closed>>

\* close(e.ready), after c, err and the map are set.
Publish(h) ==
  /\ pc[h] = "publish"
  /\ ready' = [ready EXCEPT ![ent[h]] = TRUE]
  /\ Goto(h, "wait")
  /\ UNCHANGED <<conns, entries, conn, err, watcher, ent, tries, result, cancelled,
                 closed>>

AlwaysReady(e) == TRUE

\* <-e.ready can proceed.
Ready(e) == ready[e]

\* The select at the end of get: e.ready first ...
GetReturns(h) ==
  /\ pc[h] = "wait"
  /\ Ready(ent[h])
  /\ IF err[ent[h]]
     THEN \E cat \in {"FAILURE"} \cup (IF cancelled THEN {"CANCELLED"} ELSE {}) :
            result' = [result EXCEPT ![h] = cat] /\ Goto(h, "failed")
     ELSE Goto(h, "tunnel") /\ UNCHANGED result
  /\ UNCHANGED <<conns, entries, conn, err, ready, watcher, ent, tries, cancelled,
                 closed>>

\* ... or ctx.Done(), by Ctrl+C or by the deadline of a reconnect: ctx.Err() is no
\* domain.Failure, so prefix makes it INTERNAL_ERROR.
GetInterrupted(h) ==
  /\ pc[h] = "wait"
  /\ cancelled \/ tries[h] > 1
  /\ result' = [result EXCEPT ![h] = "INTERNAL_ERROR"]
  /\ Goto(h, "failed")
  /\ UNCHANGED <<conns, entries, conn, err, ready, watcher, ent, tries, cancelled,
                 closed>>

\* The goroutine started for e: when the connection has ended, the key is freed.
Watch(e) ==
  /\ watcher[e] = "waiting"
  /\ conn[e] \in {"dead", "closed"}
  /\ conns' = Evict(e)
  /\ watcher' = [watcher EXCEPT ![e] = "gone"]
  /\ UNCHANGED <<entries, conn, err, ready, pc, ent, tries, result, cancelled, closed>>

-----------------------------------------------------------------------------
(* Dial, once it has the bastion connection                                *)

\* bc.DialContext opened the tunnel and the handshake with the target is done.
TunnelOK(h) ==
  /\ pc[h] = "tunnel"
  /\ conn[ent[h]] = "open"
  /\ result' = [result EXCEPT ![h] = "ok"]
  /\ Goto(h, "using")
  /\ UNCHANGED <<conns, entries, conn, err, ready, watcher, ent, tries, cancelled,
                 closed>>

\* The bastion refused the tunnel (ssh.OpenChannelError), or it was opened and
\* the handshake with the target failed, perhaps because the bastion went away:
\* broken leaves the shared connection alone, or is not called.
TunnelRefused(h) ==
  /\ pc[h] = "tunnel"
  /\ \E cat \in {"FAILURE"} \cup (IF cancelled THEN {"CANCELLED"} ELSE {}) :
       result' = [result EXCEPT ![h] = cat]
  /\ Goto(h, "failed")
  /\ UNCHANGED <<conns, entries, conn, err, ready, watcher, ent, tries, cancelled,
                 closed>>

\* Any other error: the connection is gone, ConnectTimeout passed, or Ctrl+C.
TunnelFails(h) ==
  /\ pc[h] = "tunnel"
  /\ \E cat \in {"FAILURE"} \cup (IF cancelled THEN {"CANCELLED"} ELSE {}) :
       result' = [result EXCEPT ![h] = cat]
  /\ Goto(h, "broken")
  /\ UNCHANGED <<conns, entries, conn, err, ready, watcher, ent, tries, cancelled,
                 closed>>

\* broken, under the mutex: e.c == c.
BrokenDrops(h) ==
  /\ pc[h] = "broken"
  /\ conns' = IF conns = ent[h] THEN 0 ELSE conns
  /\ Goto(h, "close")
  /\ UNCHANGED <<entries, conn, err, ready, watcher, ent, tries, result, cancelled,
                 closed>>

\* broken, after the mutex: c.Close().
BrokenCloses(h) ==
  /\ pc[h] = "close"
  /\ conn' = [conn EXCEPT ![ent[h]] = "closed"]
  /\ Goto(h, "failed")
  /\ UNCHANGED <<conns, entries, err, ready, watcher, ent, tries, result, cancelled,
                 closed>>

\* The host needs a new connection: a retry of connect, or its session was lost
\* or its step disconnected and waitForHost dials again.
Again(h) ==
  /\ pc[h] \in {"failed", "using"} /\ tries[h] < MaxTries /\ ~cancelled
  /\ Goto(h, "start")
  /\ UNCHANGED <<conns, entries, conn, err, ready, watcher, ent, tries, result,
                 cancelled, closed>>

\* The host is done, with its own connection closed.
Leave(h) ==
  /\ pc[h] \in {"failed", "using"}
  /\ Goto(h, "done")
  /\ UNCHANGED <<conns, entries, conn, err, ready, watcher, ent, tries, result,
                 cancelled, closed>>

-----------------------------------------------------------------------------
(* The run and its surroundings.                                           *)

\* What Close does to the pooled connections: a ready entry's is closed, one
\* that is still being dialled is left to its owner.
CloseEntries ==
  conn' = [e \in Entries |->
             IF e = conns /\ ready[e] /\ conn[e] # "nil" THEN "closed" ELSE conn[e]]

\* Runner.Run, after wg.Wait.
Close ==
  /\ ~closed /\ \A h \in Hosts : pc[h] = "done"
  /\ closed' = TRUE
  /\ CloseEntries
  /\ conns' = 0
  /\ UNCHANGED <<entries, err, ready, watcher, pc, ent, tries, result, cancelled>>

\* The bastion or the network ends a connection.
Die(e) ==
  /\ conn[e] = "open"
  /\ conn' = [conn EXCEPT ![e] = "dead"]
  /\ UNCHANGED <<conns, entries, err, ready, watcher, pc, ent, tries, result, cancelled,
                 closed>>

Cancel ==
  /\ ~cancelled
  /\ cancelled' = TRUE
  /\ UNCHANGED <<conns, entries, conn, err, ready, watcher, pc, ent, tries, result,
                 closed>>

Get(h) ==
  \/ GetShared(h) \/ GetNew(h) \/ DialOK(h) \/ DialFails(h) \/ OwnerEvicts(h)
  \/ Publish(h) \/ GetReturns(h) \/ GetInterrupted(h)

Host(h) ==
  \/ Get(h)
  \/ TunnelOK(h) \/ TunnelRefused(h) \/ TunnelFails(h) \/ BrokenDrops(h)
  \/ BrokenCloses(h) \/ Again(h) \/ Leave(h)

Finished == closed /\ UNCHANGED vars

Next ==
  \/ \E h \in Hosts : Host(h)
  \/ \E e \in Entries : Watch(e) \/ Die(e)
  \/ Close \/ Cancel \/ Finished

Spec == Init /\ [][Next]_vars

\* Goroutines are scheduled and dials end (they carry timeouts).
FairSpec ==
  /\ Spec
  /\ \A h \in Hosts : WF_vars(Host(h))
  /\ \A e \in Entries : WF_vars(Watch(e))
  /\ WF_vars(Close)

-----------------------------------------------------------------------------
(* Properties.                                                             *)

Places == {"start", "dial", "evict", "publish", "wait", "tunnel", "broken", "close",
           "using", "failed", "done"}

\* The type invariant of the pool and of the hosts in Dial: in particular get
\* never returns a nil connection without an error.
TypeOK ==
  /\ \A h \in Hosts : pc[h] = "tunnel" => conn[ent[h]] # "nil"
  /\ entries \in 0..MaxEntries
  /\ conns \in 0..entries
  /\ conn \in [Entries -> {"nil", "open", "dead", "closed"}]
  /\ err \in [Entries -> BOOLEAN]
  /\ ready \in [Entries -> BOOLEAN]
  /\ watcher \in [Entries -> {"none", "waiting", "gone"}]
  /\ pc \in [Hosts -> Places]
  /\ ent \in [Hosts -> 0..entries]
  /\ tries \in [Hosts -> 0..MaxTries]
  /\ result \in [Hosts -> {"none", "ok", "FAILURE", "CANCELLED", "INTERNAL_ERROR"}]
  /\ cancelled \in BOOLEAN /\ closed \in BOOLEAN

\* "Callers that arrive while a dial is in flight wait for it": never two
\* logins to the bastion at the same time.
SingleDial ==
  \A g, h \in Hosts : pc[g] = "dial" /\ pc[h] = "dial" => g = h

\* An open connection is never lost track of: it is the pooled one, or a host
\* is just about to close it.  A late evict or broken for an old entry must
\* not remove the entry that replaced it.
NoOrphan ==
  \A e \in Entries : conn[e] = "open" =>
    \/ conns = e
    \/ \E h \in Hosts : pc[h] = "close" /\ ent[h] = e

\* "Call it when the run is over": after Close no connection to the bastion
\* is open.
NothingOpenAfterClose == closed => \A e \in Entries : conn[e] # "open"

\* "connection closed: redial next time", "the next caller tries again": whatever
\* is in the pool has someone who will take it out when it fails, the host that
\* is dialling it or the goroutine that waits for its end.  An entry left in the
\* pool by both would fail every later host.
PooledIsWatched ==
  conns # 0 =>
    \/ watcher[conns] = "waiting"
    \/ \E h \in Hosts : ent[h] = conns /\ pc[h] \in {"dial", "evict"}

\* The pool and the connections agree at every step, however late an evict, a
\* broken or the end of a connection is noticed, and up to Close.
PoolIsSound == NoOrphan /\ PooledIsWatched /\ NothingOpenAfterClose

\* No host waits for ever for a connection another host is dialling.
EveryHostLeaves == <>(\A h \in Hosts : pc[h] = "done")

\* The safety part of EveryHostLeaves: an entry a host waits for is published, or
\* the one host that owns it is still on its way to close(e.ready).
WaitersAreServed ==
  \A h \in Hosts : pc[h] = "wait" =>
    \/ ready[ent[h]]
    \/ \E g \in Hosts : ent[g] = ent[h] /\ pc[g] \in {"dial", "evict", "publish"}

\* get reads e.c and e.err after <-e.ready without the mutex: once an entry is
\* published its error and whether it has a connection never change, and a
\* connection that has ended never comes back to life in the same entry.
PublishedIsFinal ==
  [][\A e \in Entries :
       /\ ready[e] => /\ ready'[e]
                      /\ err'[e] = err[e]
                      /\ conn'[e] = "nil" <=> conn[e] = "nil"
       /\ conn[e] \in {"dead", "closed"} => conn'[e] \in {"dead", "closed"}]_vars

\* sshx_test.go: "A target the bastion cannot reach does not break the shared
\* connection": rco never closes the connection another host is working over.
InUseNeverClosed ==
  \A h \in Hosts : pc[h] = "using" => conn[ent[h]] # "closed"

=============================================================================
