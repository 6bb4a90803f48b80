----------------------------- MODULE Credentials -----------------------------
(***************************************************************************)
(* Secrets behind credentials, and the Redactor that keeps them out of     *)
(* what is shown (internal/credentials/credentials.go).  env is a function *)
(* from the environment variables that are set to their values; keys maps  *)
(* the key files that can be read to their passphrase, <<>> for none.      *)
(***************************************************************************)
EXTENDS Integers, Sequences, SequencesExt

\* A variable that is not set counts like an empty one.
Lookup(env, name) == IF name \in DOMAIN env THEN env[name] ELSE <<>>

\* loadKey: a passphrase for a key that has none does not decrypt it either.
KeyLoads(c, env, keys) ==
  /\ c.keyFile \in DOMAIN keys
  /\ c.passphraseEnv # "" => /\ c.passphraseEnv \in DOMAIN env
                             /\ keys[c.keyFile] # <<>>
  /\ keys[c.keyFile] = IF c.passphraseEnv = "" THEN <<>> ELSE env[c.passphraseEnv]

\* Resolve: does it succeed, and with which secrets.
CredentialOK(c, env, keys) ==
  /\ \/ c.type = "password" /\ Lookup(env, c.passwordEnv) # <<>>
     \/ c.type = "private_key" /\ KeyLoads(c, env, keys)
  /\ c.sudoEnv # "" => Lookup(env, c.sudoEnv) # <<>>

SecretsOf(c, env) ==
  LET used == {c.sudoEnv, IF c.type = "password" THEN c.passwordEnv ELSE c.passphraseEnv}
  IN {env[e] : e \in used \ {""}}

-----------------------------------------------------------------------------
(* The Redactor.                                                           *)

MinSecretLen == 3

LongOnly(secrets) == {s \in secrets : Len(s) >= MinSecretLen}

\* Add: duplicates and short values are left out.
AddSecrets(known, secrets) == known \cup LongOnly(secrets)

AnyOrder(secrets) == SetToSeqs(secrets)

\* The orders of r.secrets: longest first; sort.Slice is not stable.
LongestFirst(secrets) ==
  {o \in SetToSeqs(secrets) : \A i, j \in DOMAIN o : i < j => Len(o[i]) >= Len(o[j])}

Redacted == <<"[REDACTED]">>

OccursAt(s, text, i) ==
  i + Len(s) - 1 <= Len(text) /\ SubSeq(text, i, i + Len(s) - 1) = s

\* strings.ReplaceAll(text, s, "[REDACTED]"), from left to right.
Replaced(text, s) ==
  LET from[i \in 1..(Len(text) + 1)] ==
        IF i > Len(text) THEN <<>>
        ELSE IF OccursAt(s, text, i) THEN Redacted \o from[i + Len(s)]
        ELSE <<text[i]>> \o from[i + 1]
  IN from[1]

\* String: the secrets are replaced one after the other.
Redact(order, text) == FoldLeft(LAMBDA t, s : Replaced(t, s), text, order)

=============================================================================
