------------------------------- MODULE Prepare -------------------------------
(***************************************************************************)
(* From the command line to plans that may run (run of internal/cli/cli.go *)
(* up to runner.Prepare, inventory.Load and Prepare itself): the job, then *)
(* the inventory files, the selection, the failure limit, the flags, and   *)
(* each host's variables, templates and secrets.  Nothing has been         *)
(* contacted when it ends.  --only-failed, which thins out the targets, is *)
(* in module Reports.                                                      *)
(***************************************************************************)
EXTENDS JobFile, Credentials, FiniteSets

\* An input: files, the inventory files, at least one; sel, the selector; job; limit, the
\* set of at most one --max-failures; varFlags and envFlags, the sequences of
\* --var and --var-env, each [name, value], name "" if it is not NAME=VALUE;
\* env and keys (module Credentials); preview, whether neither --execute nor
\* validate was asked for.
CONSTANT Inputs

ASSUME PrepareAssumption == IntTop \in Nat \ {0}

VARIABLES
  input,    \* the command line, its files and the environment
  pc,       \* how far run is; "refused", "invalid" (Prepare's issues) and "ready" end it
  next,     \* the next file or target
  inv,      \* merged
  targets,
  limit,    \* o.MaxFailures, 0 before it is known; Run takes a negative one for none
  secrets,  \* what the redactor knows
  auths,    \* the names of the credentials resolved so far
  issues,   \* <<host, kind>> of each issue
  plans     \* [target, vars, shown] of each host prepared; vars is history

vars == <<input, pc, next, inv, targets, limit, secrets, auths, issues, plans>>
prepared == <<secrets, auths, issues, plans>>

Ended == {"refused", "invalid", "ready"}

Init ==
  /\ input \in Inputs
  /\ pc = "job" /\ next = 1 /\ inv = NoInventory /\ targets = <<>> /\ limit = 0
  /\ secrets = {} /\ auths = {} /\ issues = {} /\ plans = <<>>

job == input.job

\* pairs: a name given twice has its last value.
Pairs(flags) ==
  [n \in {flags[i].name : i \in DOMAIN flags} |->
     LET last == CHOOSE i \in DOMAIN flags :
                   flags[i].name = n /\ \A j \in (i + 1)..Len(flags) : flags[j].name # n
     IN flags[last].value]

flagged == [vars |-> Pairs(input.varFlags), varEnv |-> Pairs(input.envFlags), env |-> input.env]

-----------------------------------------------------------------------------
(* run, and inventory.Load                                                 *)

\* A file cannot be read, or is no YAML of the expected form.
Unreadable ==
  /\ pc = "job" \/ (pc = "files" /\ next <= Len(input.files))
  /\ pc' = "refused"
  /\ UNCHANGED <<input, next, inv, targets, limit, prepared>>

LoadJob ==
  /\ pc = "job"
  /\ pc' = IF Validate(job) THEN "files" ELSE "refused"
  /\ UNCHANGED <<input, next, inv, targets, limit, prepared>>

LoadFile ==
  /\ pc = "files" /\ next <= Len(input.files)
  /\ LET f == input.files[next]
     IN \/ Clash(inv, f) /\ pc' = "refused" /\ UNCHANGED <<next, inv>>
        \/ ~Clash(inv, f) /\ inv' = Merge(inv, f) /\ next' = next + 1 /\ UNCHANGED pc
  /\ UNCHANGED <<input, targets, limit, prepared>>

NoSelector == [groups |-> {}, tags |-> {}, hosts |-> {}]

\* Load's last step resolves every host.
CheckInventory ==
  /\ pc = "files" /\ next > Len(input.files)
  /\ \E order \in SetToSeqs(DOMAIN inv.groups) :
       pc' = IF Select(inv, NoSelector, order).err THEN "refused" ELSE "select"
  /\ next' = 1
  /\ UNCHANGED <<input, inv, targets, limit, prepared>>

SelectTargets ==
  /\ pc = "select"
  /\ \E order \in SetToSeqs(DOMAIN inv.groups) :
       LET s == Select(inv, input.sel, order)
       IN IF s.err \/ s.targets = <<>> THEN pc' = "refused" /\ UNCHANGED targets
          ELSE pc' = "limit" /\ targets' = s.targets
  /\ UNCHANGED <<input, next, inv, limit, prepared>>

\* The limit as it was written: the flag's, or else the job's.
Given == IF input.limit = {} THEN job.maxFailures ELSE CHOOSE v \in input.limit : TRUE

TakeLimit ==
  /\ pc = "limit"
  /\ LET limits == ParseMaxFailures(Given, Len(targets))
     IN \/ limits = {} /\ pc' = "refused" /\ UNCHANGED limit
        \/ pc' = "flags" /\ limit' \in limits
  /\ UNCHANGED <<input, next, inv, targets, prepared>>

\* pairs, and the check of declared names at the start of Prepare.
CheckFlags ==
  /\ pc = "flags"
  /\ pc' = IF (DOMAIN flagged.vars \cup DOMAIN flagged.varEnv) \subseteq DOMAIN job.variables
           THEN "hosts" ELSE "refused"
  /\ UNCHANGED <<input, next, inv, targets, limit, prepared>>

-----------------------------------------------------------------------------
(* The loop over the targets in Prepare.                                   *)

\* The credentials of t that resolve has to look up, for what they are needed.
Login(t) == [credential |-> t.credential, bastion |-> t.bastion.credential]

Wanted(t) ==
  IF input.preview THEN {}
  ELSE {role \in DOMAIN Login(t) :
          Login(t)[role] # NoCredential /\ Login(t)[role].name \notin auths}

\* A host whose variables are wrong, or whose templates are, has no plan, and its
\* credentials are not looked at.
PrepareHost ==
  /\ pc = "hosts" /\ next <= Len(targets)
  /\ LET t == targets[next]
         r == Resolve(job, flagged, t.variables)
         b == Build(job, r.vars)
         found == {role \in Wanted(t) : CredentialOK(Login(t)[role], input.env, input.keys)}
         Report(kinds) == issues' = issues \cup {<<t.name, kind>> : kind \in kinds}
     IN \/ /\ r.err
           /\ Report({"variables"})
           /\ UNCHANGED <<secrets, auths, plans>>
        \/ /\ ~r.err /\ b.err
           /\ Report({"templates"})
           /\ secrets' = AddSecrets(secrets, r.secrets)
           /\ UNCHANGED <<auths, plans>>
        \/ /\ ~r.err /\ ~b.err
           /\ Report(Wanted(t) \ found)
           /\ secrets' = AddSecrets(secrets, r.secrets
                            \cup UNION {SecretsOf(Login(t)[role], input.env) : role \in found})
           /\ auths' = auths \cup {Login(t)[role].name : role \in found}
           /\ plans' = Append(plans, [target |-> t, vars |-> r.vars, shown |-> b.shown])
  /\ next' = next + 1
  /\ UNCHANGED <<input, pc, inv, targets, limit>>

\* The redactor knows every secret; every Display goes through it.
Finish ==
  /\ pc = "hosts" /\ next > Len(targets)
  /\ \E order \in LongestFirst(secrets) :
       plans' = [p \in DOMAIN plans |->
                   [plans[p] EXCEPT !.shown =
                      [i \in DOMAIN plans[p].shown |-> Redact(order, plans[p].shown[i])]]]
  /\ pc' = IF issues = {} THEN "ready" ELSE "invalid"
  /\ UNCHANGED <<input, next, inv, targets, limit, secrets, auths, issues>>

Done == pc \in Ended /\ UNCHANGED vars

Next ==
  \/ Unreadable \/ LoadJob \/ LoadFile \/ CheckInventory \/ SelectTargets
  \/ TakeLimit \/ CheckFlags \/ PrepareHost \/ Finish \/ Done

Spec == Init /\ [][Next]_vars
-----------------------------------------------------------------------------
(* What the input says, read off the files as they are.                    *)

Files == DOMAIN input.files

\* Every host entry of every file, with the defaults of its group.
Listed ==
  UNION {LET f == input.files[i]
             Grouped(g) == {[at |-> <<i, g, j>>, group |-> g, defaults |-> f.groups[g].defaults,
                             host |-> f.groups[g].hosts[j]] : j \in DOMAIN f.groups[g].hosts}
         IN UNION {Grouped(g) : g \in DOMAIN f.groups}
            \cup {[at |-> <<i, "", j>>, group |-> "", defaults |-> NoDefaults,
                   host |-> f.hosts[j]] : j \in DOMAIN f.hosts}
         : i \in Files}

TopDefaults ==
  IF \A i \in Files : input.files[i].defaults = NoDefaults THEN NoDefaults
  ELSE input.files[CHOOSE i \in Files : input.files[i].defaults # NoDefaults].defaults

\* Where a host's settings may come from, the closest first; likewise its
\* variables, a function for each place.
SettingLevels(e) == <<e.host, e.defaults, TopDefaults>>

VariableLevels(e) ==
  <<[n \in {m \in DOMAIN flagged.varEnv : flagged.varEnv[m] \in DOMAIN input.env} |->
        input.env[flagged.varEnv[n]]],
    flagged.vars, e.host.variables, e.defaults.variables, TopDefaults.variables,
    [n \in {m \in DOMAIN job.variables : job.variables[m].default # {}} |->
        CHOOSE d \in job.variables[n].default : TRUE]>>

\* No name and no defaults are overridden by another file.
DefinedOnce ==
  /\ \A i, j \in Files : i # j =>
       /\ \A kind \in {"credentials", "bastions", "groups"} :
            DOMAIN input.files[i][kind] \cap DOMAIN input.files[j][kind] = {}
       /\ NoDefaults \in {input.files[i].defaults, input.files[j].defaults}
  /\ \A e, f \in Listed : e.host.name = f.host.name => e = f

\* The targets are the hosts that the selector means, in order.
TargetsExact ==
  LET sel == input.sel
      Meant(e) ==
        /\ sel.groups = {} \/ e.group \in sel.groups
        /\ sel.hosts = {} \/ e.host.name \in sel.hosts
        /\ sel.tags = {} \/ \E level \in {e.host, e.defaults, TopDefaults} :
                              sel.tags \cap level.tags # {}
  IN /\ {targets[i].name : i \in DOMAIN targets} = {e.host.name : e \in {x \in Listed : Meant(x)}}
     /\ \A i, j \in DOMAIN targets : i < j => targets[i].name < targets[j].name

EntryOf(t) == CHOOSE e \in Listed : e.host.name = t.name

\* A setting is the one of the closest level that has it.
SettingsExact ==
  \A i \in DOMAIN targets :
    LET t == targets[i]
        levels == SettingLevels(EntryOf(t))
        Has(k, field) == levels[k][field] # IF field = "port" THEN 0 ELSE ""
        Got(field) == IF field \in {"credential", "bastion"} THEN t[field].name ELSE t[field]
    IN \A field \in {"port", "username", "credential", "bastion"}, k \in DOMAIN levels :
         Has(k, field) /\ (\A c \in 1..(k - 1) : ~Has(c, field)) => Got(field) = levels[k][field]

\* So is a variable.
VariablesExact ==
  \A p \in DOMAIN plans :
    LET levels == VariableLevels(EntryOf(plans[p].target))
        got == plans[p].vars
    IN /\ DOMAIN got = UNION {DOMAIN levels[k] : k \in DOMAIN levels}
       /\ \A k \in DOMAIN levels : \A n \in DOMAIN levels[k] :
            (\A c \in 1..(k - 1) : n \notin DOMAIN levels[c]) => got[n] = levels[k][n]

\* A percentage is the least number of hosts that is no smaller share, at least
\* one, and 100 % is all hosts; but a fraction of a percent that makes a whole
\* number of hosts may give one more.  A number is itself, if it fits an int.
LimitExact ==
  LET share == Given.num * Len(targets)
      whole == 100 * Given.den
  IN IF Given.pct
     THEN /\ whole * limit >= share /\ limit >= 1
          /\ \/ limit = 1
             \/ whole * (limit - 1) < share
             \/ Given.den > 1 /\ whole * (limit - 1) = share
          /\ Given.num = whole => limit = Len(targets)
     ELSE limit * Given.den = Given.num \/ Given.num >= IntTop * Given.den

\* A variable of e's host is missing or refused.
VariableTrouble(e) ==
  LET levels == VariableLevels(e)
      sources == DOMAIN levels
      Sets(k, n) == n \in DOMAIN levels[k]
      Closest(k, n) == Sets(k, n) /\ \A c \in 1..(k - 1) : ~Sets(c, n)
  IN \/ \E n \in DOMAIN flagged.varEnv : ~Sets(1, n)
     \/ \E k \in sources : \E n \in DOMAIN levels[k] : Closest(k, n) /\ ~CheckValue(levels[k][n])
     \/ \E n \in DOMAIN job.variables :
          \/ job.variables[n].sensitive /\ \E k \in 2..5 : Sets(k, n)
          \/ job.variables[n].required
             /\ ~\E k \in sources : Closest(k, n) /\ levels[k][n] # <<>>

\* A template needs a variable that has no value.
TemplateTrouble(e) ==
  LET levels == VariableLevels(e)
      used == UNION {References(s.shown) \cup References(s.uploaded) :
                       s \in {job.steps[i] : i \in DOMAIN job.steps}}
  IN \E n \in used : \A k \in DOMAIN levels : n \notin DOMAIN levels[k]

\* The logins of t that have no credential to use.
LoginTrouble(t) ==
  {role \in {"credential", "bastion"} :
     LET c == IF role = "bastion" THEN t.bastion.credential ELSE t.credential
     IN ~input.preview /\ c # NoCredential /\ ~CredentialOK(c, input.env, input.keys)}

\* The problems of every host are named, and no others: its variables, or else its
\* templates, or else both its logins.
IssuesExact ==
  LET Problems(t) ==
        CASE VariableTrouble(EntryOf(t)) -> {"variables"}
          [] ~VariableTrouble(EntryOf(t)) /\ TemplateTrouble(EntryOf(t)) -> {"templates"}
          [] OTHER -> LoginTrouble(t)
  IN issues = UNION {{<<targets[i].name, kind>> : kind \in Problems(targets[i])} :
                       i \in DOMAIN targets}

-----------------------------------------------------------------------------
(* Properties                                                              *)

\* Every step finds what it uses: a limit is positive once it is taken (otherwise
\* Run has none), unless its number does not fit an int; run goes on only with
\* targets; Prepare hands over either a plan for every target or its issues; and a
\* plan's steps are the job's.
TypeOK ==
  /\ pc \in {"job", "files", "select", "limit", "flags", "hosts"} \cup Ended
  /\ next \in 1..(1 + IF pc \in {"job", "files", "refused"} THEN Len(input.files) ELSE Len(targets))
  /\ pc \in {"limit", "flags", "hosts", "invalid", "ready"} => targets # <<>>
  /\ limit \in -IntTop..(IntTop - 1)
  /\ pc \in {"hosts", "invalid", "ready"} =>
       limit > 0 \/ (~Given.pct /\ Given.num >= IntTop * Given.den)
  /\ auths \subseteq DOMAIN inv.credentials
  /\ issues \subseteq {targets[i].name : i \in DOMAIN targets}
                      \X {"variables", "templates", "credential", "bastion"}
  /\ \A p \in DOMAIN plans : Len(plans[p].shown) = Len(job.steps)
  /\ pc = "ready" => issues = {} /\ [p \in DOMAIN plans |-> plans[p].target] = targets
  /\ pc = "invalid" => issues # {}

\* What Prepare hands over is what the files and flags say, whatever order Go's
\* maps are walked in.  inventory.go:80 says "a name defined in two files is an
\* error, never a silent override", inventory.go:39 "inventory defaults < group
\* defaults < host", variables.go:71 "Job/JobEnv > Host > job file defaults".
\* Two comments promise more than the code does, and than is stated here: job.go:382
\* has a percentage round up and no further (LimitExact has the exception), and
\* runner.go:78 all problems at once (IssuesExact: a host with a wrong variable
\* keeps those of its templates and logins to itself).
PreparedExactly ==
  pc \in {"invalid", "ready"} =>
    /\ DefinedOnce
    /\ TargetsExact
    /\ SettingsExact
    /\ VariablesExact
    /\ LimitExact
    /\ IssuesExact

\* The secrets a run reads from the environment, those too short left out.
EnvSecrets ==
  LET credentials == IF input.preview THEN {} ELSE
        UNION {{targets[i].credential, targets[i].bastion.credential} : i \in DOMAIN targets}
      names == {flagged.varEnv[n] : n \in DOMAIN flagged.varEnv}
               \cup {c.sudoEnv : c \in credentials}
               \cup {c.passwordEnv : c \in {d \in credentials : d.type = "password"}}
               \cup {c.passphraseEnv : c \in {d \in credentials : d.type = "private_key"}}
  IN {s \in {input.env[e] : e \in names \cap DOMAIN input.env} : Len(s) >= 3}

\* The places <<first, last>> of secrets in text.
Places(text) ==
  {<<i, j>> \in (1..Len(text)) \X (1..Len(text)) : i <= j /\ SubSeq(text, i, j) \in EnvSecrets}

Nested(places) ==
  \A p, q \in places : \/ p[2] < q[1] \/ q[2] < p[1]
                       \/ p[1] <= q[1] /\ q[2] <= p[2]
                       \/ q[1] <= p[1] /\ p[2] <= q[2]

\* No secret that any host's step or login uses can be read in what is shown of
\* any step of any host, also a secret found only after that step was rendered;
\* secrets within one another leave no remainder (credentials.go:130, "Longest
\* first so overlapping secrets are fully replaced") and nothing else is lost.
\* A step that may use a sensitive variable shows nothing at all.
ShownIsClean ==
  pc = "ready" =>
    \A p \in DOMAIN plans : \A i \in DOMAIN job.steps :
      LET step == job.steps[i]
          shown == plans[p].shown[i]
          raw == Render(step.shown, plans[p].vars)
          places == Places(raw)
          Covered(k) == \E q \in places : q[1] <= k /\ k <= q[2]
          open == {k \in DOMAIN raw : ~Covered(k)}
      IN IF step.sensitive THEN shown = Mask
         ELSE /\ \A n \in References(step.shown) : ~job.variables[n].sensitive
              /\ Places(shown) = {}
              /\ Nested(places) =>
                   SelectSeq(shown, LAMBDA l : l # Redacted[1])
                     = [k \in 1..Cardinality(open) |->
                          raw[CHOOSE o \in open : Cardinality({x \in open : x < o}) = k - 1]]

=============================================================================
