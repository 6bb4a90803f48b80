-------------------------- MODULE BastionPoolProofs --------------------------
(***************************************************************************)
(* Proofs about module BastionPool, for any number of hosts and of calls   *)
(* of Dial by each: never two logins at a time, and no connection to the   *)
(* bastion is ever lost track of.                                          *)
(***************************************************************************)
EXTENDS BastionPool, FiniteSetTheorems, TLAPS

\* The calls of Dial made so far.
Calls == {p \in Hosts \X (1..MaxTries) : p[2] <= tries[p[1]]}

\* Every entry was made by a call of its own.
Counted == entries <= Cardinality(Calls)

\* Host h is the one that made its entry, and has not closed e.ready yet.
Owner(h) == pc[h] \in {"dial", "evict", "publish"}

\* What an entry's fields say of each other.
EntryOK(e) ==
  /\ conn[e] = "nil" <=> watcher[e] = "none"
  /\ err[e] => conn[e] = "nil" /\ (conns = e => \E h \in Hosts : ent[h] = e /\ pc[h] = "evict")
  /\ ready[e] => e <= entries /\ (err[e] \/ conn[e] # "nil")
  /\ ~ready[e] /\ e <= entries => \E h \in Hosts : ent[h] = e /\ Owner(h)
  /\ e > entries => ~err[e] /\ conn[e] = "nil"

\* What a host may rely on where it is in Dial.
HostOK(h) ==
  /\ pc[h] \notin {"start", "done"} => ent[h] \in 1..entries
  /\ Owner(h) => ~ready[ent[h]]
  /\ pc[h] = "dial" => conns = ent[h] /\ conn[ent[h]] = "nil" /\ ~err[ent[h]]
  /\ pc[h] = "evict" => conns = ent[h] /\ err[ent[h]]
  /\ pc[h] = "publish" => err[ent[h]] \/ conn[ent[h]] # "nil"
  /\ pc[h] \in {"tunnel", "broken", "close"} => ready[ent[h]] /\ ~err[ent[h]]

OneOwner == \A g, h \in Hosts : Owner(g) /\ Owner(h) /\ ent[g] = ent[h] => g = h

\* After Close, which comes after the last host, nothing but the ends of
\* connections is left.
ClosedIsOver == closed => \A h \in Hosts : pc[h] = "done"

\* The inductive invariant.
IInv ==
  /\ TypeOK /\ Counted
  /\ \A e \in Entries : EntryOK(e)
  /\ \A h \in Hosts : HostOK(h)
  /\ OneOwner /\ PoolIsSound /\ ClosedIsOver

-----------------------------------------------------------------------------
(* Entries and calls.                                                      *)

LEMMA MaxEntriesNat == MaxEntries \in Nat
BY BastionPoolAssumption, FS_CardinalityType DEF BastionPoolAssumption, MaxEntries

\* There are no more calls than there are hosts times tries.
LEMMA CallsBounded ==
  /\ IsFiniteSet(Calls) /\ Cardinality(Calls) \in Nat
  /\ Cardinality(Calls) <= MaxEntries
<1>1. IsFiniteSet(1..MaxTries) /\ Cardinality(1..MaxTries) = MaxTries
  BY BastionPoolAssumption, FS_Interval DEF BastionPoolAssumption
<1>2. /\ IsFiniteSet(Hosts \X (1..MaxTries))
      /\ Cardinality(Hosts \X (1..MaxTries)) = MaxEntries
  BY <1>1, BastionPoolAssumption, FS_Product DEF BastionPoolAssumption, MaxEntries
<1>3. Calls \subseteq Hosts \X (1..MaxTries)
  BY DEF Calls
<1> QED
  BY <1>2, <1>3, FS_Subset, FS_CardinalityType

\* A call of Dial is one more of them.
LEMMA OneMoreCall ==
  ASSUME TypeOK, NEW h \in Hosts, tries[h] < MaxTries,
         tries' = [tries EXCEPT ![h] = @ + 1]
  PROVE  /\ Cardinality(Calls') = Cardinality(Calls) + 1
         /\ Cardinality(Calls') <= MaxEntries
<1>1. tries[h] + 1 \in 1..MaxTries
  BY BastionPoolAssumption DEF BastionPoolAssumption, TypeOK
<1>2. Calls' = Calls \cup {<<h, tries[h] + 1>>}
  <2>1. ASSUME NEW p \in Hosts \X (1..MaxTries)
        PROVE  p[2] <= tries'[p[1]] <=> p[2] <= tries[p[1]] \/ p = <<h, tries[h] + 1>>
    <3>1. /\ p[1] \in Hosts /\ p[2] \in 1..MaxTries
          /\ p = <<p[1], p[2]>>
      OBVIOUS
    <3>2. CASE p[1] # h
      BY <3>1, <3>2 DEF TypeOK
    <3>3. CASE p[1] = h
      <4>1. tries'[p[1]] = tries[h] + 1 /\ tries[h] \in Nat
        BY <3>3, BastionPoolAssumption DEF BastionPoolAssumption, TypeOK
      <4>2. p = <<h, tries[h] + 1>> <=> p[2] = tries[h] + 1
        BY <3>1, <3>3
      <4> QED
        BY <3>1, <3>3, <4>1, <4>2
    <3> QED
      BY <3>2, <3>3
  <2>2. <<h, tries[h] + 1>> \in Hosts \X (1..MaxTries)
    BY <1>1
  <2> QED
    BY <2>1, <2>2, Zenon DEF Calls
<1>3. <<h, tries[h] + 1>> \notin Calls
  BY BastionPoolAssumption DEF BastionPoolAssumption, Calls, TypeOK
<1>4. Cardinality(Calls') = Cardinality(Calls) + 1
  BY <1>2, <1>3, CallsBounded, FS_AddElement
<1>5. Cardinality(Calls') <= MaxEntries
  <2>1. IsFiniteSet(1..MaxTries) /\ Cardinality(1..MaxTries) = MaxTries
    BY BastionPoolAssumption, FS_Interval DEF BastionPoolAssumption
  <2>2. /\ IsFiniteSet(Hosts \X (1..MaxTries))
        /\ Cardinality(Hosts \X (1..MaxTries)) = MaxEntries
    BY <2>1, BastionPoolAssumption, FS_Product DEF BastionPoolAssumption, MaxEntries
  <2>3. Calls' \subseteq Hosts \X (1..MaxTries)
    BY DEF Calls
  <2> QED
    BY <2>2, <2>3, FS_Subset
<1> QED
  BY <1>4, <1>5

LEMMA GetSharedStep == ASSUME NEW h \in Hosts, IInv, GetShared(h) PROVE IInv'
<1> USE MaxEntriesNat, BastionPoolAssumption DEF BastionPoolAssumption
<1>1. TypeOK'
  BY DEF IInv, TypeOK, Entries, GetShared, Shareable, Goto, Places, HostOK, EntryOK
<1>2. Counted'
  <2>1. Cardinality(Calls') = Cardinality(Calls) + 1 /\ entries' = entries
    BY OneMoreCall DEF IInv, GetShared
  <2> QED
    BY <2>1, CallsBounded DEF IInv, TypeOK, Counted
<1>3. ASSUME NEW x \in Entries PROVE EntryOK(x)'
  BY DEF IInv, TypeOK, Entries, GetShared, Shareable, Goto, EntryOK, HostOK, Owner,
         OneOwner
<1>4. ASSUME NEW g \in Hosts PROVE HostOK(g)'
  BY DEF IInv, TypeOK, Entries, GetShared, Shareable, Goto, EntryOK, HostOK, Owner,
         OneOwner
<1>5. OneOwner'
  BY DEF IInv, TypeOK, Entries, GetShared, Shareable, Goto, EntryOK, HostOK, Owner,
         OneOwner
<1>6. PoolIsSound'
  BY DEF IInv, TypeOK, Entries, GetShared, Shareable, Goto, PoolIsSound, NoOrphan,
         PooledIsWatched, NothingOpenAfterClose, EntryOK, HostOK, Owner, ClosedIsOver
<1>7. ClosedIsOver'
  BY DEF IInv, TypeOK, Entries, GetShared, Shareable, Goto, ClosedIsOver
<1> QED
  BY <1>1, <1>2, <1>3, <1>4, <1>5, <1>6, <1>7 DEF IInv

LEMMA GetNewStep == ASSUME NEW h \in Hosts, IInv, GetNew(h) PROVE IInv'
<1> USE MaxEntriesNat, BastionPoolAssumption DEF BastionPoolAssumption
<1>0. /\ Cardinality(Calls') = Cardinality(Calls) + 1 /\ Cardinality(Calls') <= MaxEntries
      /\ entries' = entries + 1 /\ conns' = entries + 1 /\ conns = 0 /\ pc[h] = "start"
      /\ ent' = [ent EXCEPT ![h] = entries + 1] /\ pc' = [pc EXCEPT ![h] = "dial"]
      /\ UNCHANGED <<conn, err, ready, watcher, result, cancelled, closed>>
  BY OneMoreCall DEF IInv, GetNew, Goto, Shareable
<1>1. TypeOK'
  <2>1. entries' \in 0..MaxEntries
    BY <1>0, CallsBounded DEF IInv, TypeOK, Counted
  <2>2. tries' \in [Hosts -> 0..MaxTries]
    BY DEF IInv, TypeOK, GetNew
  <2>3. ent' \in [Hosts -> 0..entries']
    BY <1>0 DEF IInv, TypeOK
  <2>4. /\ pc' \in [Hosts -> Places]
        /\ \A g \in Hosts : pc'[g] = "tunnel" => conn'[ent'[g]] # "nil"
    BY <1>0 DEF IInv, TypeOK, Places
  <2>5. conns' \in 0..entries'
    BY <1>0 DEF IInv, TypeOK
  <2> QED
    BY <1>0, <2>1, <2>2, <2>3, <2>4, <2>5 DEF IInv, TypeOK
<1>2. Counted'
  BY <1>0, CallsBounded DEF IInv, TypeOK, Counted
<1>3. ASSUME NEW x \in Entries PROVE EntryOK(x)'
  BY DEF IInv, TypeOK, Entries, GetNew, Shareable, Goto, EntryOK, HostOK, Owner,
         OneOwner
<1>4. ASSUME NEW g \in Hosts PROVE HostOK(g)'
  <2>1. ~Owner(g) \/ pc[g] = "publish"
    BY <1>0 DEF IInv, TypeOK, HostOK, Owner
  <2>2. CASE g = h
    <3>1. entries + 1 \in Entries
      BY <1>0, <1>1 DEF IInv, TypeOK, Entries
    <3>2. conn[entries + 1] = "nil" /\ ~err[entries + 1] /\ ~ready[entries + 1]
      BY <3>1 DEF IInv, TypeOK, EntryOK
    <3> QED
      BY <1>0, <2>2, <3>1, <3>2 DEF IInv, TypeOK, HostOK, Owner
  <2>3. CASE g # h
    BY <1>0, <2>1, <2>3 DEF IInv, TypeOK, HostOK, Owner
  <2> QED
    BY <2>2, <2>3
<1>5. OneOwner'
  BY DEF IInv, TypeOK, Entries, GetNew, Shareable, Goto, EntryOK, HostOK, Owner,
         OneOwner
<1>6. PoolIsSound'
  BY DEF IInv, TypeOK, Entries, GetNew, Shareable, Goto, PoolIsSound, NoOrphan,
         PooledIsWatched, NothingOpenAfterClose, EntryOK, HostOK, Owner, ClosedIsOver
<1>7. ClosedIsOver'
  BY DEF IInv, TypeOK, Entries, GetNew, Shareable, Goto, ClosedIsOver
<1> QED
  BY <1>1, <1>2, <1>3, <1>4, <1>5, <1>6, <1>7 DEF IInv

LEMMA DialOKStep == ASSUME NEW h \in Hosts, IInv, DialOK(h) PROVE IInv'
<1> USE MaxEntriesNat, BastionPoolAssumption DEF BastionPoolAssumption
<1>1. TypeOK'
  <2>1. \A g \in Hosts : pc'[g] = "tunnel" => conn'[ent'[g]] # "nil"
    BY DEF IInv, TypeOK, HostOK, EntryOK, Owner, Entries, DialOK, Goto
  <2>2. err' \in [Entries -> BOOLEAN] /\ ready' \in [Entries -> BOOLEAN]
    BY Zenon DEF IInv, TypeOK, DialOK
  <2>3. /\ conn' \in [Entries -> {"nil", "open", "dead", "closed"}]
        /\ watcher' \in [Entries -> {"none", "waiting", "gone"}]
    BY DEF IInv, TypeOK, DialOK
  <2>4. /\ pc' \in [Hosts -> Places]
        /\ result' \in [Hosts -> {"none", "ok", "FAILURE", "CANCELLED", "INTERNAL_ERROR"}]
    BY DEF IInv, TypeOK, Places, DialOK, Goto
  <2> QED
    BY <2>1, <2>2, <2>3, <2>4 DEF IInv, TypeOK, DialOK
<1>2. Counted'
  BY DEF IInv, TypeOK, Entries, DialOK, Goto, Counted, Calls
<1>3. ASSUME NEW x \in Entries PROVE EntryOK(x)'
  BY DEF IInv, TypeOK, Entries, DialOK, Goto, EntryOK, HostOK, Owner, OneOwner
<1>4. ASSUME NEW g \in Hosts PROVE HostOK(g)'
  BY DEF IInv, TypeOK, Entries, DialOK, Goto, EntryOK, HostOK, Owner, OneOwner
<1>5. OneOwner'
  BY DEF IInv, TypeOK, Entries, DialOK, Goto, EntryOK, HostOK, Owner, OneOwner
<1>6. PoolIsSound'
  BY DEF IInv, TypeOK, Entries, DialOK, Goto, PoolIsSound, NoOrphan, PooledIsWatched,
         NothingOpenAfterClose, EntryOK, HostOK, Owner, ClosedIsOver
<1>7. ClosedIsOver'
  BY DEF IInv, TypeOK, Entries, DialOK, Goto, ClosedIsOver
<1> QED
  BY <1>1, <1>2, <1>3, <1>4, <1>5, <1>6, <1>7 DEF IInv

LEMMA DialFailsStep == ASSUME NEW h \in Hosts, IInv, DialFails(h) PROVE IInv'
<1> USE MaxEntriesNat, BastionPoolAssumption DEF BastionPoolAssumption
<1>1. TypeOK'
  <2>1. \A g \in Hosts : pc'[g] = "tunnel" => conn'[ent'[g]] # "nil"
    BY DEF IInv, TypeOK, HostOK, EntryOK, Owner, Entries, DialFails, Goto
  <2>2. err' \in [Entries -> BOOLEAN] /\ ready' \in [Entries -> BOOLEAN]
    BY Zenon DEF IInv, TypeOK, DialFails
  <2>3. /\ conn' \in [Entries -> {"nil", "open", "dead", "closed"}]
        /\ watcher' \in [Entries -> {"none", "waiting", "gone"}]
    BY DEF IInv, TypeOK, DialFails
  <2>4. /\ pc' \in [Hosts -> Places]
        /\ result' \in [Hosts -> {"none", "ok", "FAILURE", "CANCELLED", "INTERNAL_ERROR"}]
    BY DEF IInv, TypeOK, Places, DialFails, Goto
  <2> QED
    BY <2>1, <2>2, <2>3, <2>4 DEF IInv, TypeOK, DialFails
<1>2. Counted'
  BY DEF IInv, TypeOK, Entries, DialFails, Goto, Counted, Calls
<1>3. ASSUME NEW x \in Entries PROVE EntryOK(x)'
  BY DEF IInv, TypeOK, Entries, DialFails, Goto, EntryOK, HostOK, Owner, OneOwner
<1>4. ASSUME NEW g \in Hosts PROVE HostOK(g)'
  BY DEF IInv, TypeOK, Entries, DialFails, Goto, EntryOK, HostOK, Owner, OneOwner
<1>5. OneOwner'
  BY DEF IInv, TypeOK, Entries, DialFails, Goto, EntryOK, HostOK, Owner, OneOwner
<1>6. PoolIsSound'
  BY DEF IInv, TypeOK, Entries, DialFails, Goto, PoolIsSound, NoOrphan, PooledIsWatched,
         NothingOpenAfterClose, EntryOK, HostOK, Owner, ClosedIsOver
<1>7. ClosedIsOver'
  BY DEF IInv, TypeOK, Entries, DialFails, Goto, ClosedIsOver
<1> QED
  BY <1>1, <1>2, <1>3, <1>4, <1>5, <1>6, <1>7 DEF IInv

LEMMA OwnerEvictsStep == ASSUME NEW h \in Hosts, IInv, OwnerEvicts(h) PROVE IInv'
<1> USE MaxEntriesNat, BastionPoolAssumption DEF BastionPoolAssumption
<1>1. TypeOK'
  BY DEF IInv, TypeOK, Entries, OwnerEvicts, Evict, Goto, Places, HostOK, EntryOK
<1>2. Counted'
  BY DEF IInv, TypeOK, Entries, OwnerEvicts, Evict, Goto, Counted, Calls
<1>3. ASSUME NEW x \in Entries PROVE EntryOK(x)'
  BY DEF IInv, TypeOK, Entries, OwnerEvicts, Evict, Goto, EntryOK, HostOK, Owner,
         OneOwner
<1>4. ASSUME NEW g \in Hosts PROVE HostOK(g)'
  BY DEF IInv, TypeOK, Entries, OwnerEvicts, Evict, Goto, EntryOK, HostOK, Owner,
         OneOwner
<1>5. OneOwner'
  BY DEF IInv, TypeOK, Entries, OwnerEvicts, Evict, Goto, EntryOK, HostOK, Owner,
         OneOwner
<1>6. PoolIsSound'
  BY DEF IInv, TypeOK, Entries, OwnerEvicts, Evict, Goto, PoolIsSound, NoOrphan,
         PooledIsWatched, NothingOpenAfterClose, EntryOK, HostOK, Owner, ClosedIsOver
<1>7. ClosedIsOver'
  BY DEF IInv, TypeOK, Entries, OwnerEvicts, Evict, Goto, ClosedIsOver
<1> QED
  BY <1>1, <1>2, <1>3, <1>4, <1>5, <1>6, <1>7 DEF IInv

LEMMA PublishStep == ASSUME NEW h \in Hosts, IInv, Publish(h) PROVE IInv'
<1> USE MaxEntriesNat, BastionPoolAssumption DEF BastionPoolAssumption
<1>1. TypeOK'
  <2>1. \A g \in Hosts : pc'[g] = "tunnel" => conn'[ent'[g]] # "nil"
    BY DEF IInv, TypeOK, HostOK, EntryOK, Owner, Entries, Publish, Goto
  <2>2. err' \in [Entries -> BOOLEAN] /\ ready' \in [Entries -> BOOLEAN]
    BY Zenon DEF IInv, TypeOK, Publish
  <2>3. /\ conn' \in [Entries -> {"nil", "open", "dead", "closed"}]
        /\ watcher' \in [Entries -> {"none", "waiting", "gone"}]
    BY DEF IInv, TypeOK, Publish
  <2>4. /\ pc' \in [Hosts -> Places]
        /\ result' \in [Hosts -> {"none", "ok", "FAILURE", "CANCELLED", "INTERNAL_ERROR"}]
    BY DEF IInv, TypeOK, Places, Publish, Goto
  <2> QED
    BY <2>1, <2>2, <2>3, <2>4 DEF IInv, TypeOK, Publish
<1>2. Counted'
  BY DEF IInv, TypeOK, Entries, Publish, Goto, Counted, Calls
<1>3. ASSUME NEW x \in Entries PROVE EntryOK(x)'
  BY DEF IInv, TypeOK, Entries, Publish, Goto, EntryOK, HostOK, Owner, OneOwner
<1>4. ASSUME NEW g \in Hosts PROVE HostOK(g)'
  BY DEF IInv, TypeOK, Entries, Publish, Goto, EntryOK, HostOK, Owner, OneOwner
<1>5. OneOwner'
  BY DEF IInv, TypeOK, Entries, Publish, Goto, EntryOK, HostOK, Owner, OneOwner
<1>6. PoolIsSound'
  BY DEF IInv, TypeOK, Entries, Publish, Goto, PoolIsSound, NoOrphan, PooledIsWatched,
         NothingOpenAfterClose, EntryOK, HostOK, Owner, ClosedIsOver
<1>7. ClosedIsOver'
  BY DEF IInv, TypeOK, Entries, Publish, Goto, ClosedIsOver
<1> QED
  BY <1>1, <1>2, <1>3, <1>4, <1>5, <1>6, <1>7 DEF IInv

LEMMA GetReturnsStep == ASSUME NEW h \in Hosts, IInv, GetReturns(h) PROVE IInv'
<1> USE MaxEntriesNat, BastionPoolAssumption DEF BastionPoolAssumption
<1>1. TypeOK'
  <2>1. \A g \in Hosts : pc'[g] = "tunnel" => conn'[ent'[g]] # "nil"
    BY DEF IInv, TypeOK, HostOK, EntryOK, Owner, Entries, GetReturns, Goto, Ready
  <2>2. err' \in [Entries -> BOOLEAN] /\ ready' \in [Entries -> BOOLEAN]
    BY Zenon DEF IInv, TypeOK, GetReturns
  <2>3. /\ conn' \in [Entries -> {"nil", "open", "dead", "closed"}]
        /\ watcher' \in [Entries -> {"none", "waiting", "gone"}]
    BY DEF IInv, TypeOK, GetReturns
  <2>4. /\ pc' \in [Hosts -> Places]
        /\ result' \in [Hosts -> {"none", "ok", "FAILURE", "CANCELLED", "INTERNAL_ERROR"}]
    BY DEF IInv, TypeOK, Places, GetReturns, Goto
  <2> QED
    BY <2>1, <2>2, <2>3, <2>4 DEF IInv, TypeOK, GetReturns
<1>2. Counted'
  BY DEF IInv, TypeOK, Entries, GetReturns, Ready, Goto, Counted, Calls
<1>3. ASSUME NEW x \in Entries PROVE EntryOK(x)'
  <2>1. /\ UNCHANGED <<conns, entries, conn, err, ready, watcher, ent>>
        /\ \A g \in Hosts : g # h => pc'[g] = pc[g]
        /\ pc[h] = "wait"
    BY DEF IInv, TypeOK, GetReturns, Goto
  <2> QED
    BY <2>1 DEF IInv, EntryOK, Owner
<1>4. ASSUME NEW g \in Hosts PROVE HostOK(g)'
  BY DEF IInv, TypeOK, Entries, GetReturns, Ready, Goto, EntryOK, HostOK, Owner,
         OneOwner
<1>5. OneOwner'
  BY DEF IInv, TypeOK, Entries, GetReturns, Ready, Goto, EntryOK, HostOK, Owner,
         OneOwner
<1>6. PoolIsSound'
  BY DEF IInv, TypeOK, Entries, GetReturns, Ready, Goto, PoolIsSound, NoOrphan,
         PooledIsWatched, NothingOpenAfterClose, EntryOK, HostOK, Owner, ClosedIsOver
<1>7. ClosedIsOver'
  BY DEF IInv, TypeOK, Entries, GetReturns, Ready, Goto, ClosedIsOver
<1> QED
  BY <1>1, <1>2, <1>3, <1>4, <1>5, <1>6, <1>7 DEF IInv

LEMMA GetInterruptedStep == ASSUME NEW h \in Hosts, IInv, GetInterrupted(h) PROVE IInv'
<1> USE MaxEntriesNat, BastionPoolAssumption DEF BastionPoolAssumption
<1>1. TypeOK'
  BY DEF IInv, TypeOK, Entries, GetInterrupted, Goto, Places, HostOK, EntryOK
<1>2. Counted'
  BY DEF IInv, TypeOK, Entries, GetInterrupted, Goto, Counted, Calls
<1>3. ASSUME NEW x \in Entries PROVE EntryOK(x)'
  BY DEF IInv, TypeOK, Entries, GetInterrupted, Goto, EntryOK, HostOK, Owner, OneOwner
<1>4. ASSUME NEW g \in Hosts PROVE HostOK(g)'
  BY DEF IInv, TypeOK, Entries, GetInterrupted, Goto, EntryOK, HostOK, Owner, OneOwner
<1>5. OneOwner'
  BY DEF IInv, TypeOK, Entries, GetInterrupted, Goto, EntryOK, HostOK, Owner, OneOwner
<1>6. PoolIsSound'
  BY DEF IInv, TypeOK, Entries, GetInterrupted, Goto, PoolIsSound, NoOrphan,
         PooledIsWatched, NothingOpenAfterClose, EntryOK, HostOK, Owner, ClosedIsOver
<1>7. ClosedIsOver'
  BY DEF IInv, TypeOK, Entries, GetInterrupted, Goto, ClosedIsOver
<1> QED
  BY <1>1, <1>2, <1>3, <1>4, <1>5, <1>6, <1>7 DEF IInv

LEMMA TunnelOKStep == ASSUME NEW h \in Hosts, IInv, TunnelOK(h) PROVE IInv'
<1> USE MaxEntriesNat, BastionPoolAssumption DEF BastionPoolAssumption
<1>1. TypeOK'
  BY DEF IInv, TypeOK, Entries, TunnelOK, Goto, Places, HostOK, EntryOK
<1>2. Counted'
  BY DEF IInv, TypeOK, Entries, TunnelOK, Goto, Counted, Calls
<1>3. ASSUME NEW x \in Entries PROVE EntryOK(x)'
  BY DEF IInv, TypeOK, Entries, TunnelOK, Goto, EntryOK, HostOK, Owner, OneOwner
<1>4. ASSUME NEW g \in Hosts PROVE HostOK(g)'
  BY DEF IInv, TypeOK, Entries, TunnelOK, Goto, EntryOK, HostOK, Owner, OneOwner
<1>5. OneOwner'
  BY DEF IInv, TypeOK, Entries, TunnelOK, Goto, EntryOK, HostOK, Owner, OneOwner
<1>6. PoolIsSound'
  BY DEF IInv, TypeOK, Entries, TunnelOK, Goto, PoolIsSound, NoOrphan, PooledIsWatched,
         NothingOpenAfterClose, EntryOK, HostOK, Owner, ClosedIsOver
<1>7. ClosedIsOver'
  BY DEF IInv, TypeOK, Entries, TunnelOK, Goto, ClosedIsOver
<1> QED
  BY <1>1, <1>2, <1>3, <1>4, <1>5, <1>6, <1>7 DEF IInv

LEMMA TunnelRefusedStep == ASSUME NEW h \in Hosts, IInv, TunnelRefused(h) PROVE IInv'
<1> USE MaxEntriesNat, BastionPoolAssumption DEF BastionPoolAssumption
<1>1. TypeOK'
  BY DEF IInv, TypeOK, Entries, TunnelRefused, Goto, Places, HostOK, EntryOK
<1>2. Counted'
  BY DEF IInv, TypeOK, Entries, TunnelRefused, Goto, Counted, Calls
<1>3. ASSUME NEW x \in Entries PROVE EntryOK(x)'
  BY DEF IInv, TypeOK, Entries, TunnelRefused, Goto, EntryOK, HostOK, Owner, OneOwner
<1>4. ASSUME NEW g \in Hosts PROVE HostOK(g)'
  BY DEF IInv, TypeOK, Entries, TunnelRefused, Goto, EntryOK, HostOK, Owner, OneOwner
<1>5. OneOwner'
  BY DEF IInv, TypeOK, Entries, TunnelRefused, Goto, EntryOK, HostOK, Owner, OneOwner
<1>6. PoolIsSound'
  BY DEF IInv, TypeOK, Entries, TunnelRefused, Goto, PoolIsSound, NoOrphan,
         PooledIsWatched, NothingOpenAfterClose, EntryOK, HostOK, Owner, ClosedIsOver
<1>7. ClosedIsOver'
  BY DEF IInv, TypeOK, Entries, TunnelRefused, Goto, ClosedIsOver
<1> QED
  BY <1>1, <1>2, <1>3, <1>4, <1>5, <1>6, <1>7 DEF IInv

LEMMA TunnelFailsStep == ASSUME NEW h \in Hosts, IInv, TunnelFails(h) PROVE IInv'
<1> USE MaxEntriesNat, BastionPoolAssumption DEF BastionPoolAssumption
<1>1. TypeOK'
  BY DEF IInv, TypeOK, Entries, TunnelFails, Goto, Places, HostOK, EntryOK
<1>2. Counted'
  BY DEF IInv, TypeOK, Entries, TunnelFails, Goto, Counted, Calls
<1>3. ASSUME NEW x \in Entries PROVE EntryOK(x)'
  BY DEF IInv, TypeOK, Entries, TunnelFails, Goto, EntryOK, HostOK, Owner, OneOwner
<1>4. ASSUME NEW g \in Hosts PROVE HostOK(g)'
  BY DEF IInv, TypeOK, Entries, TunnelFails, Goto, EntryOK, HostOK, Owner, OneOwner
<1>5. OneOwner'
  BY DEF IInv, TypeOK, Entries, TunnelFails, Goto, EntryOK, HostOK, Owner, OneOwner
<1>6. PoolIsSound'
  BY DEF IInv, TypeOK, Entries, TunnelFails, Goto, PoolIsSound, NoOrphan,
         PooledIsWatched, NothingOpenAfterClose, EntryOK, HostOK, Owner, ClosedIsOver
<1>7. ClosedIsOver'
  BY DEF IInv, TypeOK, Entries, TunnelFails, Goto, ClosedIsOver
<1> QED
  BY <1>1, <1>2, <1>3, <1>4, <1>5, <1>6, <1>7 DEF IInv

LEMMA BrokenDropsStep == ASSUME NEW h \in Hosts, IInv, BrokenDrops(h) PROVE IInv'
<1> USE MaxEntriesNat, BastionPoolAssumption DEF BastionPoolAssumption
<1>1. TypeOK'
  BY DEF IInv, TypeOK, Entries, BrokenDrops, Goto, Places, HostOK, EntryOK
<1>2. Counted'
  BY DEF IInv, TypeOK, Entries, BrokenDrops, Goto, Counted, Calls
<1>3. ASSUME NEW x \in Entries PROVE EntryOK(x)'
  BY DEF IInv, TypeOK, Entries, BrokenDrops, Goto, EntryOK, HostOK, Owner, OneOwner
<1>4. ASSUME NEW g \in Hosts PROVE HostOK(g)'
  BY DEF IInv, TypeOK, Entries, BrokenDrops, Goto, EntryOK, HostOK, Owner, OneOwner
<1>5. OneOwner'
  BY DEF IInv, TypeOK, Entries, BrokenDrops, Goto, EntryOK, HostOK, Owner, OneOwner
<1>6. PoolIsSound'
  BY DEF IInv, TypeOK, Entries, BrokenDrops, Goto, PoolIsSound, NoOrphan,
         PooledIsWatched, NothingOpenAfterClose, EntryOK, HostOK, Owner, ClosedIsOver
<1>7. ClosedIsOver'
  BY DEF IInv, TypeOK, Entries, BrokenDrops, Goto, ClosedIsOver
<1> QED
  BY <1>1, <1>2, <1>3, <1>4, <1>5, <1>6, <1>7 DEF IInv

LEMMA BrokenClosesStep == ASSUME NEW h \in Hosts, IInv, BrokenCloses(h) PROVE IInv'
<1> USE MaxEntriesNat, BastionPoolAssumption DEF BastionPoolAssumption
<1>1. TypeOK'
  <2>1. \A g \in Hosts : pc'[g] = "tunnel" => conn'[ent'[g]] # "nil"
    BY DEF IInv, TypeOK, HostOK, EntryOK, Owner, Entries, BrokenCloses, Goto
  <2>2. err' \in [Entries -> BOOLEAN] /\ ready' \in [Entries -> BOOLEAN]
    BY Zenon DEF IInv, TypeOK, BrokenCloses
  <2>3. /\ conn' \in [Entries -> {"nil", "open", "dead", "closed"}]
        /\ watcher' \in [Entries -> {"none", "waiting", "gone"}]
    BY DEF IInv, TypeOK, BrokenCloses
  <2>4. /\ pc' \in [Hosts -> Places]
        /\ result' \in [Hosts -> {"none", "ok", "FAILURE", "CANCELLED", "INTERNAL_ERROR"}]
    BY DEF IInv, TypeOK, Places, BrokenCloses, Goto
  <2> QED
    BY <2>1, <2>2, <2>3, <2>4 DEF IInv, TypeOK, BrokenCloses
<1>2. Counted'
  BY DEF IInv, TypeOK, Entries, BrokenCloses, Goto, Counted, Calls
<1>3. ASSUME NEW x \in Entries PROVE EntryOK(x)'
  BY DEF IInv, TypeOK, Entries, BrokenCloses, Goto, EntryOK, HostOK, Owner, OneOwner
<1>4. ASSUME NEW g \in Hosts PROVE HostOK(g)'
  BY DEF IInv, TypeOK, Entries, BrokenCloses, Goto, EntryOK, HostOK, Owner, OneOwner
<1>5. OneOwner'
  BY DEF IInv, TypeOK, Entries, BrokenCloses, Goto, EntryOK, HostOK, Owner, OneOwner
<1>6. PoolIsSound'
  BY DEF IInv, TypeOK, Entries, BrokenCloses, Goto, PoolIsSound, NoOrphan,
         PooledIsWatched, NothingOpenAfterClose, EntryOK, HostOK, Owner, ClosedIsOver
<1>7. ClosedIsOver'
  BY DEF IInv, TypeOK, Entries, BrokenCloses, Goto, ClosedIsOver
<1> QED
  BY <1>1, <1>2, <1>3, <1>4, <1>5, <1>6, <1>7 DEF IInv

LEMMA AgainStep == ASSUME NEW h \in Hosts, IInv, Again(h) PROVE IInv'
<1> USE MaxEntriesNat, BastionPoolAssumption DEF BastionPoolAssumption
<1>1. TypeOK'
  BY DEF IInv, TypeOK, Entries, Again, Goto, Places, HostOK, EntryOK
<1>2. Counted'
  BY DEF IInv, TypeOK, Entries, Again, Goto, Counted, Calls
<1>3. ASSUME NEW x \in Entries PROVE EntryOK(x)'
  BY DEF IInv, TypeOK, Entries, Again, Goto, EntryOK, HostOK, Owner, OneOwner
<1>4. ASSUME NEW g \in Hosts PROVE HostOK(g)'
  BY DEF IInv, TypeOK, Entries, Again, Goto, EntryOK, HostOK, Owner, OneOwner
<1>5. OneOwner'
  BY DEF IInv, TypeOK, Entries, Again, Goto, EntryOK, HostOK, Owner, OneOwner
<1>6. PoolIsSound'
  BY DEF IInv, TypeOK, Entries, Again, Goto, PoolIsSound, NoOrphan, PooledIsWatched,
         NothingOpenAfterClose, EntryOK, HostOK, Owner, ClosedIsOver
<1>7. ClosedIsOver'
  BY DEF IInv, TypeOK, Entries, Again, Goto, ClosedIsOver
<1> QED
  BY <1>1, <1>2, <1>3, <1>4, <1>5, <1>6, <1>7 DEF IInv

LEMMA LeaveStep == ASSUME NEW h \in Hosts, IInv, Leave(h) PROVE IInv'
<1> USE MaxEntriesNat, BastionPoolAssumption DEF BastionPoolAssumption
<1>1. TypeOK'
  BY DEF IInv, TypeOK, Entries, Leave, Goto, Places, HostOK, EntryOK
<1>2. Counted'
  BY DEF IInv, TypeOK, Entries, Leave, Goto, Counted, Calls
<1>3. ASSUME NEW x \in Entries PROVE EntryOK(x)'
  BY DEF IInv, TypeOK, Entries, Leave, Goto, EntryOK, HostOK, Owner, OneOwner
<1>4. ASSUME NEW g \in Hosts PROVE HostOK(g)'
  BY DEF IInv, TypeOK, Entries, Leave, Goto, EntryOK, HostOK, Owner, OneOwner
<1>5. OneOwner'
  BY DEF IInv, TypeOK, Entries, Leave, Goto, EntryOK, HostOK, Owner, OneOwner
<1>6. PoolIsSound'
  BY DEF IInv, TypeOK, Entries, Leave, Goto, PoolIsSound, NoOrphan, PooledIsWatched,
         NothingOpenAfterClose, EntryOK, HostOK, Owner, ClosedIsOver
<1>7. ClosedIsOver'
  BY DEF IInv, TypeOK, Entries, Leave, Goto, ClosedIsOver
<1> QED
  BY <1>1, <1>2, <1>3, <1>4, <1>5, <1>6, <1>7 DEF IInv

LEMMA WatchStep == ASSUME NEW e \in Entries, IInv, Watch(e) PROVE IInv'
<1> USE MaxEntriesNat, BastionPoolAssumption DEF BastionPoolAssumption
<1>1. TypeOK'
  BY DEF IInv, TypeOK, Entries, Watch, Evict, Places, HostOK, EntryOK
<1>2. Counted'
  BY DEF IInv, TypeOK, Entries, Watch, Evict, Counted, Calls
<1>3. ASSUME NEW x \in Entries PROVE EntryOK(x)'
  BY DEF IInv, TypeOK, Entries, Watch, Evict, EntryOK, HostOK, Owner, OneOwner
<1>4. ASSUME NEW g \in Hosts PROVE HostOK(g)'
  BY DEF IInv, TypeOK, Entries, Watch, Evict, EntryOK, HostOK, Owner, OneOwner
<1>5. OneOwner'
  BY DEF IInv, TypeOK, Entries, Watch, Evict, EntryOK, HostOK, Owner, OneOwner
<1>6. PoolIsSound'
  BY DEF IInv, TypeOK, Entries, Watch, Evict, PoolIsSound, NoOrphan, PooledIsWatched,
         NothingOpenAfterClose, EntryOK, HostOK, Owner, ClosedIsOver
<1>7. ClosedIsOver'
  BY DEF IInv, TypeOK, Entries, Watch, Evict, ClosedIsOver
<1> QED
  BY <1>1, <1>2, <1>3, <1>4, <1>5, <1>6, <1>7 DEF IInv

LEMMA DieStep == ASSUME NEW e \in Entries, IInv, Die(e) PROVE IInv'
<1> USE MaxEntriesNat, BastionPoolAssumption DEF BastionPoolAssumption
<1>1. TypeOK'
  BY DEF IInv, TypeOK, Entries, Die, Places, HostOK, EntryOK
<1>2. Counted'
  BY DEF IInv, TypeOK, Entries, Die, Counted, Calls
<1>3. ASSUME NEW x \in Entries PROVE EntryOK(x)'
  BY DEF IInv, TypeOK, Entries, Die, EntryOK, HostOK, Owner, OneOwner
<1>4. ASSUME NEW g \in Hosts PROVE HostOK(g)'
  BY DEF IInv, TypeOK, Entries, Die, EntryOK, HostOK, Owner, OneOwner
<1>5. OneOwner'
  BY DEF IInv, TypeOK, Entries, Die, EntryOK, HostOK, Owner, OneOwner
<1>6. PoolIsSound'
  BY DEF IInv, TypeOK, Entries, Die, PoolIsSound, NoOrphan, PooledIsWatched,
         NothingOpenAfterClose, EntryOK, HostOK, Owner, ClosedIsOver
<1>7. ClosedIsOver'
  BY DEF IInv, TypeOK, Entries, Die, ClosedIsOver
<1> QED
  BY <1>1, <1>2, <1>3, <1>4, <1>5, <1>6, <1>7 DEF IInv

LEMMA CloseStep == ASSUME IInv, Close PROVE IInv'
<1> USE MaxEntriesNat, BastionPoolAssumption DEF BastionPoolAssumption
<1>1. TypeOK'
  BY DEF IInv, TypeOK, Entries, Close, CloseEntries, Places, HostOK, EntryOK
<1>2. Counted'
  BY DEF IInv, TypeOK, Entries, Close, CloseEntries, Counted, Calls
<1>3. ASSUME NEW x \in Entries PROVE EntryOK(x)'
  BY DEF IInv, TypeOK, Entries, Close, CloseEntries, EntryOK, HostOK, Owner, OneOwner
<1>4. ASSUME NEW g \in Hosts PROVE HostOK(g)'
  BY DEF IInv, TypeOK, Entries, Close, CloseEntries, EntryOK, HostOK, Owner, OneOwner
<1>5. OneOwner'
  BY DEF IInv, TypeOK, Entries, Close, CloseEntries, EntryOK, HostOK, Owner, OneOwner
<1>6. PoolIsSound'
  <2>1. conns' = 0 /\ UNCHANGED <<pc, ent, ready>>
    BY DEF Close
  <2>2. ASSUME NEW x \in Entries PROVE conn'[x] # "open"
    <3>1. conn[x] # "open" \/ conns = x
      BY DEF IInv, PoolIsSound, NoOrphan, Close
    <3>2. ready[x] \/ x > entries
      <4>1. \A g \in Hosts : ~Owner(g)
        BY DEF Close, Owner
      <4>2. x \in Int /\ entries \in Int
        BY DEF IInv, TypeOK, Entries
      <4> QED
        BY <4>1, <4>2 DEF IInv, EntryOK
    <3>3. x > entries => conn[x] = "nil"
      BY DEF IInv, EntryOK
    <3> QED
      BY <3>1, <3>2, <3>3 DEF IInv, TypeOK, Close, CloseEntries
  <2> QED
    BY <2>1, <2>2 DEF PoolIsSound, NoOrphan, PooledIsWatched, NothingOpenAfterClose
<1>7. ClosedIsOver'
  BY DEF IInv, TypeOK, Entries, Close, CloseEntries, ClosedIsOver
<1> QED
  BY <1>1, <1>2, <1>3, <1>4, <1>5, <1>6, <1>7 DEF IInv

LEMMA CancelStep == ASSUME IInv, Cancel PROVE IInv'
<1> USE MaxEntriesNat, BastionPoolAssumption DEF BastionPoolAssumption
<1>1. TypeOK'
  BY DEF IInv, TypeOK, Entries, Cancel, Places, HostOK, EntryOK
<1>2. Counted'
  BY DEF IInv, TypeOK, Entries, Cancel, Counted, Calls
<1>3. ASSUME NEW x \in Entries PROVE EntryOK(x)'
  BY DEF IInv, TypeOK, Entries, Cancel, EntryOK, HostOK, Owner, OneOwner
<1>4. ASSUME NEW g \in Hosts PROVE HostOK(g)'
  BY DEF IInv, TypeOK, Entries, Cancel, EntryOK, HostOK, Owner, OneOwner
<1>5. OneOwner'
  BY DEF IInv, TypeOK, Entries, Cancel, EntryOK, HostOK, Owner, OneOwner
<1>6. PoolIsSound'
  BY DEF IInv, TypeOK, Entries, Cancel, PoolIsSound, NoOrphan, PooledIsWatched,
         NothingOpenAfterClose, EntryOK, HostOK, Owner, ClosedIsOver
<1>7. ClosedIsOver'
  BY DEF IInv, TypeOK, Entries, Cancel, ClosedIsOver
<1> QED
  BY <1>1, <1>2, <1>3, <1>4, <1>5, <1>6, <1>7 DEF IInv

LEMMA StutterStep == ASSUME IInv, UNCHANGED vars PROVE IInv'
<1> USE DEF vars
<1>1. TypeOK' /\ Counted'
  BY DEF IInv, TypeOK, Counted, Calls
<1>2. (\A e \in Entries : EntryOK(e)') /\ (\A h \in Hosts : HostOK(h)')
  BY DEF IInv, EntryOK, HostOK, Owner
<1>3. OneOwner' /\ PoolIsSound' /\ ClosedIsOver'
  BY DEF IInv, OneOwner, Owner, PoolIsSound, NoOrphan, PooledIsWatched,
         NothingOpenAfterClose, ClosedIsOver
<1> QED
  BY <1>1, <1>2, <1>3 DEF IInv

LEMMA InitIInv == Init => IInv
<1> SUFFICES ASSUME Init PROVE IInv
  OBVIOUS
<1> USE MaxEntriesNat, BastionPoolAssumption DEF BastionPoolAssumption
<1>1. TypeOK
  <2>1. /\ err \in [Entries -> BOOLEAN] /\ ready \in [Entries -> BOOLEAN]
        /\ cancelled \in BOOLEAN /\ closed \in BOOLEAN
    BY Zenon DEF Init
  <2>2. /\ conn \in [Entries -> {"nil", "open", "dead", "closed"}]
        /\ watcher \in [Entries -> {"none", "waiting", "gone"}]
        /\ pc \in [Hosts -> Places]
        /\ result \in [Hosts -> {"none", "ok", "FAILURE", "CANCELLED", "INTERNAL_ERROR"}]
        /\ \A h \in Hosts : pc[h] # "tunnel"
    BY DEF Init, Places
  <2>3. /\ entries \in 0..MaxEntries /\ conns \in 0..entries
        /\ ent \in [Hosts -> 0..entries] /\ tries \in [Hosts -> 0..MaxTries]
    BY DEF Init
  <2> QED
    BY <2>1, <2>2, <2>3 DEF TypeOK
<1>2. Counted
  BY CallsBounded DEF Init, Counted
<1>3. (\A e \in Entries : EntryOK(e)) /\ (\A h \in Hosts : HostOK(h))
  BY DEF Init, Entries, EntryOK, HostOK, Owner
<1>4. OneOwner /\ ClosedIsOver
  BY DEF Init, OneOwner, Owner, ClosedIsOver
<1>5. PoolIsSound
  BY DEF Init, PoolIsSound, NoOrphan, PooledIsWatched, NothingOpenAfterClose
<1> QED
  BY <1>1, <1>2, <1>3, <1>4, <1>5 DEF IInv

LEMMA HostStep == ASSUME NEW h \in Hosts, IInv, Host(h) PROVE IInv'
<1>1. CASE Get(h)
  BY <1>1, GetSharedStep, GetNewStep, DialOKStep, DialFailsStep, OwnerEvictsStep,
     PublishStep, GetReturnsStep, GetInterruptedStep DEF Get
<1>2. CASE ~Get(h)
  BY <1>2, TunnelOKStep, TunnelRefusedStep, TunnelFailsStep, BrokenDropsStep,
     BrokenClosesStep, AgainStep, LeaveStep DEF Host
<1> QED
  BY <1>1, <1>2

LEMMA NextIInv == IInv /\ [Next]_vars => IInv'
<1> SUFFICES ASSUME IInv, [Next]_vars PROVE IInv'
  OBVIOUS
<1>1. CASE \E h \in Hosts : Host(h)
  BY <1>1, HostStep
<1>2. CASE \E e \in Entries : Watch(e) \/ Die(e)
  BY <1>2, WatchStep, DieStep
<1>3. CASE Close \/ Cancel
  BY <1>3, CloseStep, CancelStep
<1>4. CASE UNCHANGED vars
  BY <1>4, StutterStep
<1> QED
  BY <1>1, <1>2, <1>3, <1>4 DEF Next, Finished

-----------------------------------------------------------------------------

\* The inductive invariant holds of every run.
THEOREM Invariance == Spec => []IInv
BY InitIInv, NextIInv, PTL DEF Spec

\* The pool and the hosts stay within their types: no entry beyond those the
\* calls of Dial can make, and get returns no nil connection without an error.
THEOREM TypeCorrect == Spec => []TypeOK
<1>1. IInv => TypeOK
  BY DEF IInv
<1> QED
  BY <1>1, Invariance, PTL

\* However many hosts call get at once, and whenever connections die, at most one
\* of them is logging in to the bastion.
THEOREM OneDialAtATime == Spec => []SingleDial
<1>1. IInv => SingleDial
  BY DEF IInv, HostOK, OneOwner, Owner, SingleDial
<1> QED
  BY <1>1, Invariance, PTL

\* No open connection is lost track of, whatever is in the pool is watched, and
\* Close leaves nothing open, with evict, broken and the end of a connection in
\* any order.
THEOREM PoolSound == Spec => []PoolIsSound
<1>1. IInv => PoolIsSound
  BY DEF IInv
<1> QED
  BY <1>1, Invariance, PTL

\* Whoever waits for an entry has an owner of it to wait for: get never blocks on
\* a channel that nobody is left to close.
THEOREM WaitersServed == Spec => []WaitersAreServed
<1>1. IInv => WaitersAreServed
  <2> SUFFICES ASSUME IInv, NEW h \in Hosts, pc[h] = "wait", ~ready[ent[h]]
               PROVE  \E g \in Hosts : ent[g] = ent[h] /\ Owner(g)
    BY DEF WaitersAreServed, Owner
  <2>1. ent[h] \in 1..entries /\ ent[h] \in Entries
    <3>1. HostOK(h) /\ entries \in 0..MaxEntries
      BY DEF IInv, TypeOK
    <3> QED
      BY <3>1, MaxEntriesNat DEF HostOK, Entries
  <2>2. EntryOK(ent[h]) /\ ent[h] <= entries
    BY <2>1 DEF IInv, TypeOK
  <2> QED
    BY <2>2 DEF EntryOK
<1> QED
  BY <1>1, Invariance, PTL

\* A step of a host leaves published entries alone: only the owner writes e.c and
\* e.err, before it closes e.ready, and broken closes a connection that is there.
LEMMA HostLeavesPublished ==
  ASSUME IInv, NEW h \in Hosts, Host(h), NEW e \in Entries
  PROVE  /\ ready[e] => /\ ready'[e]
                        /\ err'[e] = err[e]
                        /\ conn'[e] = "nil" <=> conn[e] = "nil"
         /\ conn[e] \in {"dead", "closed"} => conn'[e] \in {"dead", "closed"}
<1>1. /\ conn \in [Entries -> {"nil", "open", "dead", "closed"}]
      /\ err \in [Entries -> BOOLEAN] /\ ready \in [Entries -> BOOLEAN]
      /\ HostOK(h) /\ EntryOK(e)
  BY DEF IInv, TypeOK
<1>2. CASE UNCHANGED <<conn, err, ready>>
  BY <1>2
<1>3. CASE DialOK(h)
  BY <1>1, <1>3 DEF DialOK, HostOK, Owner
<1>4. CASE DialFails(h)
  BY <1>1, <1>4 DEF DialFails, HostOK, Owner
<1>5. CASE Publish(h)
  BY <1>1, <1>5 DEF Publish
<1>6. CASE BrokenCloses(h)
  BY <1>1, <1>6 DEF BrokenCloses, HostOK, EntryOK
<1> QED
  BY <1>2, <1>3, <1>4, <1>5, <1>6
     DEF Host, Get, GetShared, GetNew, OwnerEvicts, GetReturns, GetInterrupted,
         TunnelOK, TunnelRefused, TunnelFails, BrokenDrops, Again, Leave

\* What <-e.ready lets the waiting hosts read is final, with no mutex: no later
\* dial, evict, broken, Watch or Close writes the error or the connection of an
\* entry that was published, and an ended connection never becomes usable again.
THEOREM PublishedStays == Spec => PublishedIsFinal
<1> DEFINE Kept(e) ==
             /\ ready[e] => /\ ready'[e]
                            /\ err'[e] = err[e]
                            /\ conn'[e] = "nil" <=> conn[e] = "nil"
             /\ conn[e] \in {"dead", "closed"} => conn'[e] \in {"dead", "closed"}
<1>1. IInv /\ [Next]_vars => [\A e \in Entries : Kept(e)]_vars
  <2> SUFFICES ASSUME IInv, Next, NEW e \in Entries
               PROVE  Kept(e)
    OBVIOUS
  <2>1. conn \in [Entries -> {"nil", "open", "dead", "closed"}]
    BY DEF IInv, TypeOK
  <2>2. CASE \E h \in Hosts : Host(h)
    BY <2>2, HostLeavesPublished
  <2>3. CASE \E d \in Entries : Die(d)
    BY <2>1, <2>3 DEF Die
  <2>4. CASE Close
    BY <2>1, <2>4 DEF Close, CloseEntries
  <2>5. CASE UNCHANGED <<conn, err, ready>>
    BY <2>5
  <2> QED
    BY <2>2, <2>3, <2>4, <2>5 DEF Next, Watch, Cancel, Finished, vars
<1> QED
  BY <1>1, Invariance, PTL DEF Spec, PublishedIsFinal

=============================================================================
