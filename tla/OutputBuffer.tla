---------------------------- MODULE OutputBuffer ----------------------------
(***************************************************************************)
(* Buffer (internal/sshx/buffer.go): one stream of a command's output with *)
(* bounded memory, searched for patterns as it arrives.  stream is history *)
(* only: everything that was ever written.                                 *)
(***************************************************************************)
EXTENDS Integers, Sequences

CONSTANTS
  Byte,       \* the bytes that occur
  Pats,       \* Request.Patterns
  Limit,      \* Request.MaxOutput
  MaxWrite,   \* bound: bytes in one Write
  MaxStream   \* bound: bytes in the stream

ASSUME OutputBufferAssumption ==
  /\ Pats \in Seq(Seq(Byte))
  /\ Limit \in Nat /\ MaxWrite \in Nat /\ MaxStream \in Nat

VARIABLES stream, head, tail, total, truncated, found, carry

vars == <<stream, head, tail, total, truncated, found, carry>>

half == Limit \div 2

\* s[max(0, len(s)-n):]
LastOf(s, n) == SubSeq(s, (IF Len(s) > n THEN Len(s) - n ELSE 0) + 1, Len(s))

\* bytes.Contains
Contains(s, p) ==
  \E o \in 0..(Len(s) - Len(p)) : SubSeq(s, o + 1, o + Len(p)) = p

KeepTooFew ==
  LET lens == {Len(Pats[i]) - 1 : i \in DOMAIN Pats} \cup {0}
  IN CHOOSE n \in lens : \A m \in lens : n <= m

\* NewBuffer: the length of the longest pattern, less one.
keep ==
  LET lens == {Len(Pats[i]) - 1 : i \in DOMAIN Pats} \cup {0}
  IN CHOOSE n \in lens : \A m \in lens : m <= n

Init ==
  /\ stream = <<>> /\ head = <<>> /\ tail = <<>> /\ carry = <<>>
  /\ total = 0 /\ truncated = FALSE
  /\ found = [i \in DOMAIN Pats |-> FALSE]

\* scan: the pattern may span the last writes.
Scan(p) ==
  IF Pats = <<>> \/ p = <<>> THEN UNCHANGED <<found, carry>>
  ELSE LET buf == carry \o p
       IN /\ found' = [i \in DOMAIN Pats |-> found[i] \/ Contains(buf, Pats[i])]
          /\ carry' = LastOf(buf, keep)

TrimTooMuch(t) == IF Len(t) > half THEN LastOf(t, half - 1) ELSE t

NoTrim(t) == t

\* The amortised trim at the end of Write.
Trim(t) == IF Len(t) > 2 * half THEN LastOf(t, half) ELSE t

FitsHalf(p) == Len(head) + Len(p) <= half

\* !b.truncated && len(b.head)+len(p) <= b.limit, given !b.truncated
Fits(p) == Len(head) + Len(p) <= Limit

Retain(p) ==
  \/ /\ ~truncated /\ Fits(p)
     /\ head' = head \o p /\ tail' = Trim(tail)
     /\ UNCHANGED truncated
  \/ /\ ~truncated /\ ~Fits(p)
     /\ truncated' = TRUE
     /\ LET all == head \o p
        IN /\ head' = SubSeq(all, 1, half)
           /\ tail' = Trim(SubSeq(all, half + 1, Len(all)))
  \/ /\ truncated
     /\ tail' = Trim(tail \o p)
     /\ UNCHANGED <<head, truncated>>

Write(p) ==
  /\ total' = total + Len(p)
  /\ Scan(p)
  /\ Retain(p)
  /\ stream' = stream \o p

\* What String shows: head, the number of bytes left out, tail.
Shown == IF ~truncated THEN [head |-> head, dropped |-> 0, tail |-> <<>>]
         ELSE LET t == LastOf(tail, half)
              IN [head |-> head, dropped |-> total - Len(head) - Len(t), tail |-> t]

Chunks == UNION {[1..n -> Byte] : n \in 0..MaxWrite}

Next == \E p \in Chunks : Len(stream) + Len(p) <= MaxStream /\ Write(p)

Spec == Init /\ [][Next]_vars

-----------------------------------------------------------------------------
(* Properties.                                                             *)

\* The type invariant; carry is the end of the stream, as much of it as a
\* pattern that is not complete yet can have begun in; and what is kept "keeps
\* memory <= ~1.5x limit", whatever is written.
TypeOK ==
  /\ stream \in Seq(Byte) /\ head \in Seq(Byte) /\ tail \in Seq(Byte)
  /\ total = Len(stream)
  /\ truncated \in BOOLEAN
  /\ found \in [DOMAIN Pats -> BOOLEAN]
  /\ Pats # <<>> => carry = LastOf(stream, keep)
  /\ 2 * (Len(head) + Len(tail)) <= 3 * Limit

\* "Patterns are searched over the whole stream as it arrives, so text in the
\* dropped middle still counts": found is the truth about the stream, however
\* the output was cut into writes and whatever was dropped.
FoundIsExact ==
  \A i \in DOMAIN Pats : Len(Pats[i]) > 0 => (found[i] <=> Contains(stream, Pats[i]))

\* "While output fits in limit bytes everything is kept.  Beyond that the first
\* limit/2 bytes and the last limit/2 bytes are kept", and the number in the
\* truncation marker is the number of bytes left out.
KeepsBothEnds ==
  /\ truncated <=> Len(stream) > Limit
  /\ ~truncated => Shown.head = stream
  /\ truncated =>
       /\ Shown.head = SubSeq(stream, 1, half)
       /\ Shown.tail = LastOf(stream, half)
       /\ Shown.dropped = Len(stream) - 2 * half
       /\ Shown.dropped > 0

=============================================================================
