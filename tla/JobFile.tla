------------------------------- MODULE JobFile -------------------------------
(***************************************************************************)
(* What a job file says about variables and failures, and what becomes of  *)
(* it for one host (internal/job/variables.go; checkRefs, Validate and     *)
(* ParseMaxFailures of job.go; Build of build.go).                         *)
(*                                                                         *)
(* A step has a text that is shown (its command, or the destination of a   *)
(* copy) and one that is only uploaded (a copy's template).  A text is a   *)
(* sequence of parts, each a literal or a reference {{ .name }}.  A        *)
(* variable's default is the set of at most one value.                     *)
(***************************************************************************)
EXTENDS Integers, Sequences, SequencesExt, Inventory

CONSTANT IntTop  \* an int is in -IntTop..(IntTop - 1); 2^63 in Go

Lit(letters) == [ref |-> "", letters |-> letters]

Ref(name) == [ref |-> name, letters |-> <<>>]

\* References, of a text whose template syntax is right.
References(text) == {text[i].ref : i \in DOMAIN text} \ {""}

\* checkRefs finds nothing wrong.
RefsOK(job, text, allowSensitive) ==
  \A r \in References(text) :
    r \in DOMAIN job.variables /\ (job.variables[r].sensitive => allowSensitive)

\* int(n) of a float: what does not fit is the smallest int on amd64, the largest
\* on arm64.
ToInt(n) == IF n < IntTop THEN {n} ELSE {-IntTop, IntTop - 1}

\* ParseMaxFailures: v is num/den in lowest terms, a percentage if pct.  It gives
\* the set of values it can return, none for an error: in floating point a
\* percentage that is not whole may come out just above the whole number of hosts
\* it stands for.  ("inf" is a number that does not fit; "nan%" is a share that is
\* too small.)
LimitRoundsDown(v, total) ==
  IF v.num <= 0 \/ (v.pct /\ v.num > 100 * v.den) THEN {}
  ELSE IF v.pct THEN {(v.num * total) \div (100 * v.den)}
  ELSE IF v.num % v.den # 0 THEN {} ELSE ToInt(v.num \div v.den)

ParseMaxFailures(v, total) ==
  LET share == v.num * total
      whole == 100 * v.den
      ceil == (share + whole - 1) \div whole
  IN IF v.num <= 0 \/ (v.pct /\ v.num > whole) THEN {}
     ELSE IF v.pct
          THEN {IF n < 1 THEN 1 ELSE n :
                  n \in {ceil} \cup (IF v.den > 1 /\ share % whole = 0 THEN {ceil + 1} ELSE {})}
     ELSE IF v.num % v.den # 0 THEN {} ELSE ToInt(v.num \div v.den)

\* Validate, and Load for the text of uploaded files.
Validate(job) ==
  /\ ParseMaxFailures(job.maxFailures, 1) # {}
  /\ \A n \in DOMAIN job.variables :
       LET v == job.variables[n]
       IN v.default # {} => ~v.sensitive /\ \A d \in v.default : CheckValue(d)
  /\ job.steps # <<>>
  /\ \A i \in DOMAIN job.steps :
       LET s == job.steps[i]
       IN RefsOK(job, s.shown, s.sensitive) /\ RefsOK(job, s.uploaded, TRUE)

-----------------------------------------------------------------------------
(* Resolve                                                                 *)

Defaults(job) ==
  LET named == {n \in DOMAIN job.variables : job.variables[n].default # {}}
  IN [n \in named |-> CHOOSE d \in job.variables[n].default : TRUE]

\* The --var-env values whose environment variable is set.
FromEnv(in) ==
  [k \in {k \in DOMAIN in.varEnv : in.varEnv[k] \in DOMAIN in.env} |-> in.env[in.varEnv[k]]]

HostOverVar(job, in, host) == FromEnv(in) @@ host @@ in.vars @@ Defaults(job)

\* Precedence: --var-env, --var, the inventory, the job's defaults.
Values(job, in, host) == FromEnv(in) @@ in.vars @@ host @@ Defaults(job)

\* host is the target's variables, in the --var and --var-env flags and the
\* environment.  On an issue the secrets are not returned.
Resolve(job, in, host) ==
  LET vars == Values(job, in, host)
      declared == DOMAIN job.variables
      Set(n) == n \in DOMAIN vars /\ vars[n] # <<>>
      sensitive == {n \in declared : job.variables[n].sensitive}
      fromEnv == FromEnv(in)
  IN [err |-> \/ DOMAIN fromEnv # DOMAIN in.varEnv
              \/ \E n \in DOMAIN vars : ~CheckValue(vars[n])
              \/ sensitive \cap (DOMAIN in.vars \cup DOMAIN host) # {}
              \/ \E n \in declared : job.variables[n].required /\ ~Set(n),
      vars |-> vars,
      secrets |-> {fromEnv[k] : k \in DOMAIN fromEnv}
                  \cup {vars[n] : n \in {m \in sensitive : Set(m)}}]

\* Render, of a text whose references all have a value.
Render(text, vars) ==
  FlattenSeq([i \in DOMAIN text |->
                IF text[i].ref = "" THEN text[i].letters ELSE vars[text[i].ref]])

Mask == <<"[SENSITIVE]">>

\* Build: what is shown of each step; a reference without a value is an error.
Build(job, vars) ==
  LET err == \E i \in DOMAIN job.steps :
               ~((References(job.steps[i].shown) \cup References(job.steps[i].uploaded))
                    \subseteq DOMAIN vars)
  IN [err |-> err,
      shown |-> IF err THEN <<>>
                ELSE [i \in DOMAIN job.steps |->
                        IF job.steps[i].sensitive THEN Mask
                        ELSE Render(job.steps[i].shown, vars)]]

=============================================================================
