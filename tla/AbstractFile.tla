----------------------------- MODULE AbstractFile -----------------------------
(* What the io library promises of a file that one stream is open on: the   *)
(* contents and one position.  A read answers what stands at the position,  *)
(* a write goes to the position, or to the end if the stream appends, and   *)
(* there is no buffer.                                                      *)
EXTENDS Integers, Sequences, SequencesExt, FiniteSets, FiniteSetsExt

CONSTANTS
  Writes,      \* the strings a program writes
  Formats,     \* the formats it reads with
  Modes,       \* the modes it opens with
  Offsets,     \* the offsets it seeks with
  NumberLimit  \* a run of so many digits is no number any more

VARIABLES contents, position, stream, result

vars == <<contents, position, stream, result>>

Newline == "\n"
Hole == "0"           \* what the file system puts between the end and a write beyond it
Digits == {"1"}
NoStream == "closed"

\* A call, and what it answers with: strings and numbers, a position, a handle or
\* a truth, an error it returns, or an error it raises.
Answer(op, arg, kind) == [op |-> op, arg |-> arg, kind |-> kind, values |-> <<>>, at |-> 0]
Nil == <<"nil">>
Number(s) == <<"number">> \o s

CanRead(mode) == mode \in {"r", "r+", "w+", "a+"}
CanWrite(mode) == mode \in {"w", "a", "r+", "w+", "a+"}
Appends(mode) == mode \in {"a", "a+"}
Truncates(mode) == mode \in {"w", "w+"}

Rest == SubSeq(contents, position + 1, Len(contents))

\* s written at p of a file with contents c.
Overlaid(c, p, s) ==
  [i \in 1..Max({Len(c), p + Len(s)}) |->
     IF i \in (p + 1)..(p + Len(s)) THEN s[i - p]
     ELSE IF i <= Len(c) THEN c[i] ELSE Hole]

\* The length of the longest prefix of s all of whose elements are in set.
Run(s, set) == Max({n \in 0..Len(s) : \A i \in 1..n : s[i] \in set})

LineLength(s) == Run(s, {s[i] : i \in DOMAIN s} \ {Newline})

Count(format) == CHOOSE n \in 0..2 : <<"0", "1", "2">>[n + 1] = format

\* One format read from s: what it answers and how much of s it takes.
ReadOne(s, format) ==
  CASE format = "a" -> [answer |-> s, used |-> Len(s)]
    [] format \in {"l", "L"} /\ s = <<>> -> [answer |-> Nil, used |-> 0]
    [] format = "l" /\ s # <<>> ->
         [answer |-> SubSeq(s, 1, LineLength(s)), used |-> Min({Len(s), LineLength(s) + 1})]
    [] format = "L" /\ s # <<>> ->
         LET n == Min({Len(s), LineLength(s) + 1}) IN [answer |-> SubSeq(s, 1, n), used |-> n]
    [] format = "n" ->
         LET blank == Run(s, {Newline})
             digits == Run(SubSeq(s, blank + 1, Len(s)), Digits)
         IN IF digits \in 1..(NumberLimit - 1)
            THEN [answer |-> Number(SubSeq(s, blank + 1, blank + digits)), used |-> blank + digits]
            ELSE [answer |-> Nil, used |-> blank + Min({digits, NumberLimit})]
    [] format \in {"0", "1", "2"} ->
         LET n == Min({Count(format), Len(s)})
         IN [answer |-> IF s = <<>> THEN Nil ELSE SubSeq(s, 1, n), used |-> n]

\* Several formats in turn: after one that fails the others answer nil.
ReadAlso(s, acc, format) ==
  LET one == ReadOne(SubSeq(s, acc.used + 1, Len(s)), format)
  IN IF acc.failed THEN [acc EXCEPT !.answers = Append(@, Nil)]
     ELSE [answers |-> Append(acc.answers, one.answer), used |-> acc.used + one.used,
           failed |-> one.answer = Nil]

ReadFormats(s, formats) ==
  LET passes[n \in 0..Len(formats)] ==
        IF n = 0 THEN [answers |-> <<>>, used |-> 0, failed |-> FALSE]
        ELSE ReadAlso(s, passes[n - 1], formats[n])
  IN passes[Len(formats)]

Init ==
  /\ contents \in [1..2 -> {"1", Newline}]
  /\ position = 0 /\ stream = NoStream /\ result = Answer("none", <<>>, "true")

Answers(op, kind) == result'.op = op /\ result'.kind = kind

Open(mode) ==
  /\ Answers("open", "handle") /\ result'.arg = mode
  /\ stream = NoStream /\ stream' = mode
  /\ contents' = IF Truncates(mode) THEN <<>> ELSE contents
  /\ position' = IF mode = "a" THEN Len(contents) ELSE 0

Read(formats) ==
  LET read == ReadFormats(Rest, formats)
  IN
  /\ Answers("read", "values") /\ result'.arg = formats /\ CanRead(stream)
  /\ result'.values = read.answers /\ position' = position + read.used
  /\ UNCHANGED <<contents, stream>>

\* A loop over lines ends at the end of the file.
ReadNone ==
  /\ Answers("next", "end") /\ CanRead(stream) /\ Rest = <<>>
  /\ UNCHANGED <<contents, position, stream>>

\* One over a file that io.lines opened closes it, too.
ReadLast ==
  /\ Answers("next", "end") /\ CanRead(stream) /\ Rest = <<>>
  /\ position' = 0 /\ stream' = NoStream
  /\ UNCHANGED contents

Write(strings) ==
  LET s == FlattenSeq(strings)
      at == IF Appends(stream) /\ s # <<>> THEN Len(contents) ELSE position
  IN
  /\ Answers("write", "handle") /\ result'.arg = strings /\ CanWrite(stream)
  /\ contents' = IF s = <<>> THEN contents ELSE Overlaid(contents, at, s)
  /\ position' = at + Len(s)
  /\ UNCHANGED stream

Target(whence, offset) ==
  offset + CASE whence = "set" -> 0 [] whence = "cur" -> position [] whence = "end" -> Len(contents)

Seek(whence, offset) ==
  LET p == Target(whence, offset)
  IN
  /\ Answers("seek", "position") /\ result'.arg = <<whence, offset>>
  /\ stream # NoStream /\ p >= 0
  /\ position' = p /\ result'.at = p
  /\ UNCHANGED <<contents, stream>>

\* Closing, whoever does it, leaves everything that was written in the file.
Close ==
  /\ stream # NoStream
  /\ Answers("close", "true") \/ result' = result
  /\ position' = 0 /\ stream' = NoStream
  /\ UNCHANGED contents

\* A call that has nothing to do with the contents, or is refused: for what the
\* stream was opened for, for the place sought, and if it is closed.
Refuse ==
  /\ \/ Answers("buffer", "true") \/ Answers("default", "handle")
     \/ result'.kind = "raise" /\ (result'.op \in {"read", "write", "seek", "buffer"} => stream = NoStream)
     \/ Answers("io", "raise") \/ Answers("close", "error")
     \/ Answers("write", "error") /\ ~CanWrite(stream)
     \/ result'.op = "read" /\ result'.kind \in {"error", "values"} /\ ~CanRead(stream)
     \/ Answers("seek", "error") /\ Target(result'.arg[1], result'.arg[2]) < 0
  /\ UNCHANGED <<contents, position, stream>>

Next ==
  \/ \E mode \in Modes : Open(mode)
  \/ \E formats \in Formats : Read(formats)
  \/ ReadNone \/ ReadLast \/ Close \/ Refuse
  \/ \E strings \in Writes : Write(strings)
  \/ \E whence \in {"set", "cur", "end"}, offset \in Offsets : Seek(whence, offset)

Spec == Init /\ [][Next]_vars
=============================================================================
