------------------------------ MODULE MCPrepare ------------------------------
(* Model checking of module Prepare.  The inputs are four products: one    *)
(* varies how hosts are listed and selected, one the failure limit, one    *)
(* where a variable is set and what its job says of it, and one which      *)
(* secrets a login needs.                                                  *)
EXTENDS Prepare

X == <<"a", "b", "c", "d">>  \* secrets: Y lies within X, Z is too short
Y == <<"b", "c", "d">>
Z == <<"c", "d">>
V(value) == [v |-> value]

Host(n) == [name |-> n, address |-> "ip", port |-> 0, username |-> "", credential |-> "",
            bastion |-> "", tags |-> {}, variables |-> <<>>]

Group(defaults, hosts) == [g |-> [defaults |-> defaults, hosts |-> hosts]]

Password == [NoCredential EXCEPT !.type = "password", !.passwordEnv = "PW", !.username = "root"]
Key == [NoCredential EXCEPT !.type = "private_key", !.keyFile = "id", !.sudoEnv = "PW"]
LockedKey == [Key EXCEPT !.passphraseEnv = "PASS", !.username = "ops"]

Top == [NoDefaults EXCEPT !.credential = "pw"]
FullTop == [Top EXCEPT !.port = 2222, !.username = "top", !.tags = {"t"}, !.variables = V(Z)]
GroupDefaults == [NoDefaults EXCEPT !.port = 2200, !.credential = "pw", !.username = "group",
                                    !.tags = {"u"}, !.variables = V(Y)]

File(defaults, groups, hosts) ==
  [NoInventory EXCEPT !.credentials = [pw |-> Password, key |-> LockedKey],
                      !.bastions = [b |-> [address |-> "ip", port |-> 0, username |-> "",
                                           credential |-> "key"]],
                      !.defaults = defaults, !.groups = groups, !.hosts = hosts]

Declared(required, default, sensitive) ==
  [v |-> [required |-> required, default |-> default, sensitive |-> sensitive],
   w |-> [required |-> FALSE, default |-> {<<"w">>}, sensitive |-> FALSE]]

Job(variables, sensitive, shown) ==
  [variables |-> variables, maxFailures |-> [pct |-> TRUE, num |-> 1, den |-> 1],
   steps |-> <<[sensitive |-> sensitive, shown |-> shown, uploaded |-> <<Ref("v")>>],
               [sensitive |-> FALSE, shown |-> <<Lit(<<"a">>), Ref("w")>>, uploaded |-> <<>>]>>]

PlainJob == Job(Declared(FALSE, {<<"x">>}, FALSE), FALSE, <<Lit(<<"a">>), Ref("v"), Lit(Y)>>)

Input(files, plan) ==
  [files |-> files, sel |-> NoSelector, job |-> plan, limit |-> {}, varFlags |-> <<>>,
   envFlags |-> <<>>, env |-> [PW |-> Y, E |-> X, PASS |-> <<"e", "f", "g">>],
   keys |-> [id |-> <<"e", "f", "g">>], preview |-> FALSE]

Flag(name, value) == [name |-> name, value |-> value]

Selectors ==
  {NoSelector, [NoSelector EXCEPT !.groups = {"g"}], [NoSelector EXCEPT !.groups = {"nog"}],
   [NoSelector EXCEPT !.tags = {"u", "s"}], [NoSelector EXCEPT !.hosts = {2, 3}],
   [NoSelector EXCEPT !.tags = {"t"}, !.hosts = {1}]}

Limits ==
  {{}, {[pct |-> TRUE, num |-> 0, den |-> 1]}, {[pct |-> TRUE, num |-> 100, den |-> 1]},
   {[pct |-> TRUE, num |-> 67, den |-> 1]}, {[pct |-> TRUE, num |-> 25, den |-> 2]},
   {[pct |-> FALSE, num |-> 2, den |-> 1]}, {[pct |-> FALSE, num |-> 3, den |-> 2]},
   {[pct |-> FALSE, num |-> IntTop, den |-> 1]}}

SelectionInputs ==
  {[Input(<<File(top, Group(gd, <<h>>), rest)>> \o more, PlainJob) EXCEPT !.sel = sel] :
     top \in {Top, FullTop}, gd \in {NoDefaults, GroupDefaults},
     h \in {Host(3), [Host(3) EXCEPT !.port = 22, !.tags = {"s"}, !.bastion = "b"],
            [Host(3) EXCEPT !.port = 70000], [Host(3) EXCEPT !.bastion = "nob"]},
     rest \in {<<>>, <<Host(1)>>, <<Host(3)>>, <<Host(0)>>},
     more \in {<<>>, <<[NoInventory EXCEPT !.hosts = <<Host(2)>>]>>,
               <<[NoInventory EXCEPT !.groups = Group(NoDefaults, <<Host(2)>>)]>>,
               <<[NoInventory EXCEPT !.groups = [k |-> [defaults |-> NoDefaults, hosts |-> <<Host(2)>>]]]>>,
               <<[NoInventory EXCEPT !.defaults = Top]>>},
     sel \in Selectors}

LimitInputs ==
  {[Input(<<File(Top, <<>>, hosts)>>, PlainJob) EXCEPT !.limit = l] :
     hosts \in {<<Host(1)>>, <<Host(2), Host(1)>>, <<Host(3), Host(1), Host(2)>>,
               [i \in 1..8 |-> Host(i)]}, l \in Limits}

VariableInputs ==
  {[Input(<<File([Top EXCEPT !.variables = top],
                 Group([NoDefaults EXCEPT !.variables = gv],
                       <<[Host(1) EXCEPT !.variables = hv], Host(2)>>), <<>>)>>,
          Job(Declared(required, default, sensitive), masked, shown))
      EXCEPT !.varFlags = flags, !.envFlags = envs, !.preview = preview] :
     required \in BOOLEAN, default \in {{}, {<<"x">>}}, sensitive \in BOOLEAN,
     masked \in BOOLEAN, preview \in BOOLEAN,
     shown \in {<<Lit(<<"a">>), Ref("v"), Lit(Y)>>, <<Ref("u")>>},
     top \in {<<>>, V(Z)}, gv \in {<<>>, V(Y)}, hv \in {<<>>, V(<<>>), V(<<"a", "ctl">>)},
     flags \in {<<>>, <<Flag("v", X), Flag("v", Y)>>, <<Flag("typo", X)>>},
     envs \in {<<>>, <<Flag("v", "E")>>, <<Flag("w", "NOENV")>>}}

LoginInputs ==
  {[Input(<<[File([Top EXCEPT !.bastion = b], <<>>,
                  <<[Host(1) EXCEPT !.credential = "key", !.username = "u"], Host(2)>>)
               EXCEPT !.credentials = [pw |-> Password, key |-> key]]>>, PlainJob)
      EXCEPT !.env = env, !.keys = keys, !.preview = preview, !.envFlags = envs] :
     b \in {"", "b"}, key \in {Key, LockedKey, [Key EXCEPT !.keyFile = ""]},
     env \in {<<>>, [PW |-> Y, PASS |-> X], [PW |-> Y, PASS |-> <<>>, E |-> X], [PW |-> <<>>, E |-> Z]},
     keys \in {<<>>, [id |-> <<>>], [id |-> X]},
     preview \in BOOLEAN, envs \in {<<>>, <<Flag("v", "E")>>}}

MCInputs == SelectionInputs \cup LimitInputs \cup VariableInputs \cup LoginInputs

=============================================================================
