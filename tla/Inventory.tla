------------------------------ MODULE Inventory ------------------------------
(***************************************************************************)
(* Inventory files, how they are combined, and which hosts a selection     *)
(* resolves to (internal/inventory/inventory.go).  Host names are numbers, *)
(* in the order of their sorting; 0 is a name hostNamePattern refuses.     *)
(* Text is "" and a port 0 where the file sets nothing; tags are sets, and *)
(* variables functions from names to values.  A value is a sequence of     *)
(* letters, of which "ctl" is a control character.                         *)
(***************************************************************************)
EXTENDS Integers, Sequences, SequencesExt, TLC

NoDefaults == [port |-> 0, username |-> "", credential |-> "", bastion |-> "",
               tags |-> {}, variables |-> <<>>]

NoInventory == [credentials |-> <<>>, bastions |-> <<>>, defaults |-> NoDefaults,
                groups |-> <<>>, hosts |-> <<>>]

\* job.CheckValue
CheckValue(v) == \A i \in DOMAIN v : v[i] # "ctl"

-----------------------------------------------------------------------------
(* Load                                                                    *)

\* mergeInto returns an error, or defaults are set a second time.
Clash(inv, f) ==
  \/ inv.defaults # NoDefaults /\ f.defaults # NoDefaults
  \/ \E kind \in {"credentials", "bastions", "groups"} :
       DOMAIN inv[kind] \cap DOMAIN f[kind] # {}

Merge(inv, f) ==
  [credentials |-> inv.credentials @@ f.credentials,
   bastions |-> inv.bastions @@ f.bastions,
   groups |-> inv.groups @@ f.groups,
   defaults |-> IF f.defaults # NoDefaults THEN f.defaults ELSE inv.defaults,
   hosts |-> inv.hosts \o f.hosts]

-----------------------------------------------------------------------------
(* resolve                                                                 *)

\* first: the first value that is not the zero value.
First(vals, zero) ==
  LET set == SelectSeq(vals, LAMBDA v : v # zero)
  IN IF set = <<>> THEN zero ELSE Head(set)

NoCredential == [name |-> "", type |-> "", passwordEnv |-> "", keyFile |-> "",
                 passphraseEnv |-> "", sudoEnv |-> "", username |-> ""]

\* credential: NoCredential stands for its errors.
Credential(inv, name) ==
  IF name = "" \/ name \notin DOMAIN inv.credentials THEN NoCredential
  ELSE LET c == inv.credentials[name]
       IN IF \/ c.type = "password" /\ c.passwordEnv # ""
             \/ c.type = "private_key" /\ c.keyFile # ""
          THEN [c EXCEPT !.name = name] ELSE NoCredential

NoBastion == [name |-> "", port |-> 0, username |-> "", credential |-> NoCredential]

\* The bastion called name; NoBastion stands for an error.
BastionOf(inv, name) ==
  IF name \notin DOMAIN inv.bastions THEN NoBastion
  ELSE LET b == inv.bastions[name]
           c == Credential(inv, b.credential)
           user == First(<<b.username, c.username>>, "")
       IN IF c = NoCredential \/ b.address = "" \/ user = "" THEN NoBastion
          ELSE [name |-> name, port |-> First(<<b.port, 22>>, 0), username |-> user,
                credential |-> c]

\* Host h of a group with defaults gd: its settings, and whether one is wrong.
Resolved(inv, group, gd, h) ==
  LET d == inv.defaults
      Inherited(field) == First(<<h[field], gd[field], d[field]>>, "")
      port == First(<<h.port, gd.port, d.port, 22>>, 0)
      cred == Credential(inv, Inherited("credential"))
      user == First(<<Inherited("username"), cred.username>>, "")
      bastion == BastionOf(inv, Inherited("bastion"))
  IN [err |-> \/ h.address = ""
              \/ port \notin 1..65535
              \/ \E m \in {d.variables, gd.variables, h.variables} :
                   \E k \in DOMAIN m : ~CheckValue(m[k])
              \/ cred = NoCredential
              \/ user = ""
              \/ Inherited("bastion") # "" /\ bastion = NoBastion,
      target |-> [name |-> h.name, group |-> group, port |-> port, username |-> user,
                  credential |-> cred, bastion |-> bastion,
                  tags |-> d.tags \cup gd.tags \cup h.tags,
                  variables |-> h.variables @@ gd.variables @@ d.variables]]

-----------------------------------------------------------------------------
(* Select                                                                  *)

AnyOf(want, have) == want = {} \/ want \cap have # {}

Matches(sel, t) ==
  /\ AnyOf(sel.groups, {t.group})
  /\ AnyOf(sel.tags, t.tags)
  /\ AnyOf(sel.hosts, {t.name})

\* The closure add, for one host entry e.
Add(inv, acc, e) ==
  IF e.host.name = 0 \/ e.host.name \in acc.seen THEN [acc EXCEPT !.err = TRUE]
  ELSE LET r == Resolved(inv, e.group, e.defaults, e.host)
       IN [seen |-> acc.seen \cup {e.host.name},
           err |-> acc.err \/ r.err,
           all |-> IF r.err THEN acc.all ELSE Append(acc.all, r.target)]

\* The entries in the order in which add sees them: groups is a Go map, so its
\* order is any.
Entries(inv, order) ==
  FlattenSeq([i \in DOMAIN order |->
    LET g == inv.groups[order[i]]
    IN [j \in DOMAIN g.hosts |->
          [group |-> order[i], defaults |-> g.defaults, host |-> g.hosts[j]]]])
  \o [j \in DOMAIN inv.hosts |->
        [group |-> "", defaults |-> NoDefaults, host |-> inv.hosts[j]]]

Select(inv, sel, order) ==
  LET added == FoldLeft(LAMBDA acc, e : Add(inv, acc, e),
                        [seen |-> {}, err |-> FALSE, all |-> <<>>], Entries(inv, order))
  IN [err |-> \/ added.err
              \/ ~(sel.groups \subseteq DOMAIN inv.groups)
              \/ ~(sel.hosts \subseteq added.seen),
      targets |-> SortSeq(SelectSeq(added.all, LAMBDA t : Matches(sel, t)),
                          LAMBDA t, u : t.name < u.name)]

=============================================================================
