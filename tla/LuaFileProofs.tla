---------------------------- MODULE LuaFileProofs ----------------------------
(***************************************************************************)
(* A file read and written through the buffers of FullIoProvider is the    *)
(* file of AbstractFile, with one position.  The argument: what the        *)
(* program sees is what the file will hold once the writer is flushed      *)
(* (Contents), and a place in it (Place).  Writing through the buffers     *)
(* writes there (Wrote), reading takes what stands there (Takes), and the  *)
(* rule of stdio keeps apart what the reader and the writer hold (Inv).    *)
(***************************************************************************)
EXTENDS LuaFile, SequenceTheorems, LoopProofs, TLAPS

-----------------------------------------------------------------------------
(* What a fullFile can be, and what a write does to it.                     *)

\* The modes, what a fullFile can be, and what a call can find.
Streams == {"r", "w", "a", "r+", "w+", "a+"}
Stream == [closed : BOOLEAN, opened : Streams, bufMode : {"no", "full", "line"}, size : Nat \ {0},
           pos : Nat, rbuf : Seq(Char), wbuf : Seq(Char)]
Worlds == [disk : Seq(Char), file : Stream]

\* What the model names of the bytes are bytes.
LEMMA BytesAre == /\ Newline \in Char /\ Hole \in Char /\ Digits \subseteq Char
BY FileBytes

\* An answer that says nil, error or number is none of the strings a read may answer.
LEMMA MarksAreNoStrings ==
  \A s \in Seq(Char) : s # Nil /\ s # <<"error">> /\ Number(s) # Nil /\ Number(s) # <<"error">>
<1>1. "nil" \notin Char /\ "error" \notin Char
  BY FileBytes
<1> TAKE s \in Seq(Char)
<1>2. s # Nil /\ s # <<"error">>
  BY <1>1 DEF Nil
<1>3. Number(s)[1] = "number"
  BY DEF Number
<1> QED BY <1>2, <1>3 DEF Nil

\* The larger of two numbers.
LEMMA MaxOfTwo ==
  ASSUME NEW a \in Int, NEW b \in Int
  PROVE  Max({a, b}) = IF a >= b THEN a ELSE b
BY DEF Max

\* The smaller of two numbers.
LEMMA MinOfTwo ==
  ASSUME NEW a \in Int, NEW b \in Int
  PROVE  Min({a, b}) = IF a <= b THEN a ELSE b
BY DEF Min

\* What write(2) leaves: s where it was written, what was there around it, and
\* holes between the end and a place beyond it.
LEMMA OverlaidIs ==
  ASSUME NEW c \in Seq(Char), NEW p \in Nat, NEW s \in Seq(Char)
  PROVE  LET o == Overlaid(c, p, s)
         IN  /\ o \in Seq(Char) /\ Len(o) \in Nat
             /\ Len(c) >= p + Len(s) => Len(o) = Len(c)
             /\ Len(c) <= p + Len(s) => Len(o) = p + Len(s)
             /\ \A i \in 1 .. Len(o) : o[i] = IF i \in p + 1 .. p + Len(s) THEN s[i - p]
                                              ELSE IF i <= Len(c) THEN c[i] ELSE Hole
<1> DEFINE n == IF Len(c) >= p + Len(s) THEN Len(c) ELSE p + Len(s)
           e(i) == IF i \in p + 1 .. p + Len(s) THEN s[i - p] ELSE IF i <= Len(c) THEN c[i] ELSE Hole
<1>1. Len(c) \in Nat /\ Len(s) \in Nat /\ n \in Nat
  OBVIOUS
<1>2. Overlaid(c, p, s) = [i \in 1 .. n |-> e(i)]
  BY <1>1, MaxOfTwo DEF Overlaid
<1>3. \A i \in 1 .. n : e(i) \in Char
  BY <1>1, BytesAre
<1>4. (Len(c) >= p + Len(s) => n = Len(c)) /\ (Len(c) <= p + Len(s) => n = p + Len(s))
  BY <1>1
<1> HIDE DEF e, n
<1>5. [i \in 1 .. n |-> e(i)] \in Seq(Char)
  BY <1>1, <1>3, IsASeq
<1>6. Len([i \in 1 .. n |-> e(i)]) = n
  BY <1>1, <1>5
<1> QED BY <1>1, <1>2, <1>4, <1>5, <1>6 DEF e

\* Two strings written one after the other are their concatenation written.
LEMMA OverlaidTwice ==
  ASSUME NEW c \in Seq(Char), NEW p \in Nat, NEW s \in Seq(Char), NEW t \in Seq(Char)
  PROVE  Overlaid(Overlaid(c, p, s), p + Len(s), t) = Overlaid(c, p, s \o t)
<1> DEFINE a == Overlaid(c, p, s)
           u == s \o t
           q == p + Len(s)
           l == Overlaid(a, q, t)
           r == Overlaid(c, p, u)
<1>1. u \in Seq(Char) /\ Len(u) = Len(s) + Len(t)
  BY ConcatProperties
<1>2. \A i \in 1 .. Len(s) + Len(t) : u[i] = IF i <= Len(s) THEN s[i] ELSE t[i - Len(s)]
  BY ConcatProperties
<1>3. Len(c) \in Nat /\ Len(s) \in Nat /\ Len(t) \in Nat /\ q \in Nat
  OBVIOUS
<1> HIDE DEF u
<1>4. a \in Seq(Char) /\ Len(a) \in Nat /\ (Len(c) >= q => Len(a) = Len(c)) /\ (Len(c) <= q => Len(a) = q)
  BY OverlaidIs
<1>5. \A i \in 1 .. Len(a) : a[i] = IF i \in p + 1 .. p + Len(s) THEN s[i - p]
                                    ELSE IF i <= Len(c) THEN c[i] ELSE Hole
  BY OverlaidIs
<1>6. /\ r \in Seq(Char) /\ Len(r) \in Nat
      /\ (Len(c) >= p + Len(u) => Len(r) = Len(c)) /\ (Len(c) <= p + Len(u) => Len(r) = p + Len(u))
  BY <1>1, OverlaidIs
<1>7. \A i \in 1 .. Len(r) : r[i] = IF i \in p + 1 .. p + Len(u) THEN u[i - p]
                                    ELSE IF i <= Len(c) THEN c[i] ELSE Hole
  BY <1>1, OverlaidIs
<1>8. q = p + Len(s)
  OBVIOUS
<1> HIDE DEF a, q
<1>9. /\ l \in Seq(Char) /\ Len(l) \in Nat
      /\ (Len(a) >= q + Len(t) => Len(l) = Len(a)) /\ (Len(a) <= q + Len(t) => Len(l) = q + Len(t))
  BY <1>3, <1>4, OverlaidIs
<1>10. \A i \in 1 .. Len(l) : l[i] = IF i \in q + 1 .. q + Len(t) THEN t[i - q]
                                     ELSE IF i <= Len(a) THEN a[i] ELSE Hole
  BY <1>3, <1>4, OverlaidIs
<1> HIDE DEF l, r
<1>11. Len(l) = Len(r)
  BY <1>1, <1>3, <1>4, <1>6, <1>8, <1>9
<1>12. ASSUME NEW i \in 1 .. Len(l) PROVE l[i] = r[i]
  <2>1. i \in Int /\ i >= 1 /\ i <= Len(l) /\ i \in 1 .. Len(r)
    BY <1>9, <1>11
  <2>2. r[i] = IF i \in p + 1 .. p + Len(u) THEN u[i - p] ELSE IF i <= Len(c) THEN c[i] ELSE Hole
    BY <1>7, <2>1
  <2>3. l[i] = IF i \in q + 1 .. q + Len(t) THEN t[i - q] ELSE IF i <= Len(a) THEN a[i] ELSE Hole
    BY <1>10, <2>1
  <2>4. CASE i \in q + 1 .. q + Len(t)
    <3>1. /\ i - p \in 1 .. Len(s) + Len(t) /\ ~(i - p <= Len(s))
          /\ i - p - Len(s) = i - q /\ i \in p + 1 .. p + Len(u)
      BY <1>1, <1>3, <1>8, <2>1, <2>4
    <3>2. u[i - p] = t[i - p - Len(s)]
      BY <1>2, <3>1
    <3> QED BY <2>2, <2>3, <2>4, <3>1, <3>2
  <2>5. CASE i \in p + 1 .. q
    <3>1. i \in p + 1 .. p + Len(u) /\ i - p \in 1 .. Len(s) /\ i <= Len(a) /\ i \notin q + 1 .. q + Len(t)
      BY <1>1, <1>3, <1>4, <1>8, <2>1, <2>5
    <3>2. u[i - p] = s[i - p]
      BY <1>2, <1>3, <3>1
    <3>3. a[i] = s[i - p]
      BY SMTT(30), <1>3, <1>5, <1>8, <2>1, <2>5, <3>1
    <3> QED BY <2>2, <2>3, <3>1, <3>2, <3>3
  <2>6. CASE i <= p \/ i > q + Len(t)
    <3>1. i \notin p + 1 .. p + Len(u) /\ i \notin q + 1 .. q + Len(t) /\ i \notin p + 1 .. p + Len(s)
      BY <1>1, <1>3, <1>8, <2>1, <2>6
    <3>2. CASE i <= Len(a)
      <4>1. a[i] = IF i <= Len(c) THEN c[i] ELSE Hole
        BY <1>5, <2>1, <3>1, <3>2
      <4> QED BY <2>2, <2>3, <3>1, <3>2, <4>1
    <3>3. CASE i > Len(a)
      <4>1. ~(i <= Len(c)) /\ ~(i <= Len(a))
        BY <1>3, <1>4, <2>1, <3>3
      <4> QED BY <2>2, <2>3, <3>1, <4>1
    <3> QED BY <1>4, <2>1, <3>2, <3>3
  <2> QED BY <1>3, <1>8, <2>1, <2>4, <2>5, <2>6
<1> QED BY <1>6, <1>9, <1>11, <1>12, SeqEqual DEF l, r, a, q, u

\* What no call but setvbuf and close changes of a fullFile.
Stays(f, g) == g.closed = f.closed /\ g.opened = f.opened /\ g.bufMode = f.bufMode /\ g.size = f.size

\* What the file will hold once the writer is flushed, and where the program is in it.
Contents(w) == WriterFlush(w).disk
Place(w) ==
  IF w.file.wbuf = <<>> THEN w.file.pos - Len(w.file.rbuf)
  ELSE (IF Appending(w.file) THEN Len(w.disk) ELSE w.file.pos) + Len(w.file.wbuf)
Start(w) == IF Appending(w.file) THEN Len(Contents(w)) ELSE Place(w)

\* From w to v, s has been written: at the place, or at the end.
Wrote(w, v, s) ==
  /\ v \in Worlds /\ Stays(w.file, v.file) /\ v.file.rbuf = <<>>
  /\ s = <<>> => Contents(v) = Contents(w) /\ Place(v) = Place(w)
  /\ s # <<>> => Contents(v) = Overlaid(Contents(w), Start(w), s) /\ Place(v) = Start(w) + Len(s)

\* The types of what a world holds.
LEMMA WorldFields ==
  ASSUME NEW w \in Worlds
  PROVE  /\ w.disk \in Seq(Char) /\ w.file \in Stream
         /\ w.file.closed \in BOOLEAN /\ w.file.opened \in Streams /\ w.file.bufMode \in {"no", "full", "line"}
         /\ w.file.size \in Nat \ {0} /\ w.file.pos \in Nat
         /\ w.file.rbuf \in Seq(Char) /\ w.file.wbuf \in Seq(Char)
         /\ Len(w.disk) \in Nat /\ Len(w.file.rbuf) \in Nat /\ Len(w.file.wbuf) \in Nat
<1>1. w.disk \in Seq(Char) /\ w.file \in Stream
  BY DEF Worlds
<1>2. /\ w.file.closed \in BOOLEAN /\ w.file.opened \in Streams /\ w.file.bufMode \in {"no", "full", "line"}
      /\ w.file.size \in Nat \ {0} /\ w.file.pos \in Nat
      /\ w.file.rbuf \in Seq(Char) /\ w.file.wbuf \in Seq(Char)
  BY <1>1 DEF Stream
<1> QED BY <1>1, <1>2

\* The writer's buffer is replaced.
LEMMA WithWriter ==
  ASSUME NEW w \in Worlds, NEW b \in Seq(Char)
  PROVE  LET v == [w EXCEPT !.file.wbuf = b]
         IN  /\ v \in Worlds /\ Stays(w.file, v.file) /\ v.disk = w.disk
             /\ v.file.wbuf = b /\ v.file.rbuf = w.file.rbuf /\ v.file.pos = w.file.pos
<1>1. w.file \in Stream /\ w.disk \in Seq(Char)
  BY DEF Worlds
<1>2. [w EXCEPT !.file.wbuf = b] = [w EXCEPT !.file = [w.file EXCEPT !.wbuf = b]]
  BY DEF Worlds
<1> DEFINE f == [w.file EXCEPT !.wbuf = b]
<1>3. /\ f \in Stream /\ Stays(w.file, f) /\ f.wbuf = b /\ f.rbuf = w.file.rbuf /\ f.pos = w.file.pos
  BY <1>1 DEF Stream, Stays
<1> HIDE DEF f
<1>4. [w EXCEPT !.file = f].file = f /\ [w EXCEPT !.file = f].disk = w.disk /\ [w EXCEPT !.file = f] \in Worlds
  BY <1>3 DEF Worlds
<1> QED BY <1>2, <1>3, <1>4 DEF f

\* The reader's buffer and the descriptor's position are replaced.
Reached(w, b, p) == [w EXCEPT !.file.rbuf = b, !.file.pos = p]

\* A world whose reader holds b and whose descriptor stands at p.
LEMMA WithReader ==
  ASSUME NEW w \in Worlds, NEW b \in Seq(Char), NEW p \in Nat
  PROVE  LET v == Reached(w, b, p)
         IN  /\ v \in Worlds /\ Stays(w.file, v.file) /\ v.disk = w.disk
             /\ v.file.wbuf = w.file.wbuf /\ v.file.rbuf = b /\ v.file.pos = p
<1>1. w.file \in Stream /\ w.disk \in Seq(Char)
  BY DEF Worlds
<1>2. Reached(w, b, p) = [w EXCEPT !.file = [w.file EXCEPT !.rbuf = b, !.pos = p]]
  BY DEF Worlds, Reached
<1> DEFINE f == [w.file EXCEPT !.rbuf = b, !.pos = p]
<1>3. /\ f \in Stream /\ Stays(w.file, f) /\ f.wbuf = w.file.wbuf /\ f.rbuf = b /\ f.pos = p
  BY <1>1 DEF Stream, Stays
<1> HIDE DEF f
<1>4. [w EXCEPT !.file = f].file = f /\ [w EXCEPT !.file = f].disk = w.disk /\ [w EXCEPT !.file = f] \in Worlds
  BY <1>3 DEF Worlds
<1> QED BY <1>2, <1>3, <1>4 DEF f

\* A write(2) of s.
LEMMA OsWriteFields ==
  ASSUME NEW w \in Worlds, NEW s \in Seq(Char)
  PROVE  LET v == OsWrite(w, s)
             p == IF Appending(w.file) THEN Len(w.disk) ELSE w.file.pos
         IN  /\ p \in Nat /\ v \in Worlds /\ Stays(w.file, v.file)
             /\ v.file.rbuf = w.file.rbuf /\ v.file.wbuf = w.file.wbuf
             /\ s = <<>> => v = w
             /\ s # <<>> => v.disk = Overlaid(w.disk, p, s) /\ v.file.pos = p + Len(s)
<1> DEFINE p == IF Appending(w.file) THEN Len(w.disk) ELSE w.file.pos
           q == p + Len(s)
           f == [w.file EXCEPT !.pos = q]
           d == Overlaid(w.disk, p, s)
<1>1. p \in Nat /\ w.file \in Stream /\ w.disk \in Seq(Char) /\ q \in Nat
  BY WorldFields
<1>2. d \in Seq(Char)
  BY <1>1, OverlaidIs
<1> HIDE DEF q
<1>3. /\ f \in Stream /\ Stays(w.file, f) /\ f.wbuf = w.file.wbuf /\ f.rbuf = w.file.rbuf
      /\ f.pos = q
  BY <1>1 DEF Stream, Stays
<1>4. OsWrite(w, s) = IF s = <<>> THEN w ELSE [disk |-> d, file |-> f]
  BY DEF OsWrite, q
<1> HIDE DEF p, d, f
<1>5. [disk |-> d, file |-> f] \in Worlds
  BY <1>2, <1>3 DEF Worlds
<1>6. Stays(w.file, w.file)
  BY DEF Stays
<1> QED BY <1>1, <1>3, <1>4, <1>5, <1>6 DEF p, d, q

\* Flushing the writer leaves what the file is to hold and where the program is.
LEMMA FlushFields ==
  ASSUME NEW w \in Worlds
  PROVE  LET v == WriterFlush(w)
         IN  /\ v \in Worlds /\ Stays(w.file, v.file) /\ v.file.rbuf = w.file.rbuf /\ v.file.wbuf = <<>>
             /\ v.disk = Contents(w)
             /\ w.file.wbuf = <<>> => v = w /\ v.disk = w.disk /\ v.file.pos = w.file.pos
             /\ w.file.wbuf # <<>> => v.file.pos = Place(w)
             /\ w.file.wbuf # <<>> =>
                  v.disk = Overlaid(w.disk, IF Appending(w.file) THEN Len(w.disk) ELSE w.file.pos, w.file.wbuf)
<1> DEFINE u == OsWrite(w, w.file.wbuf)
           v == WriterFlush(w)
           p == IF Appending(w.file) THEN Len(w.disk) ELSE w.file.pos
<1>1. w.file.wbuf \in Seq(Char)
  BY WorldFields
<1>2. /\ u \in Worlds /\ Stays(w.file, u.file) /\ u.file.rbuf = w.file.rbuf /\ u.file.wbuf = w.file.wbuf
      /\ w.file.wbuf = <<>> => u = w
      /\ w.file.wbuf # <<>> => u.disk = Overlaid(w.disk, p, w.file.wbuf) /\ u.file.pos = p + Len(w.file.wbuf)
  BY <1>1, OsWriteFields
<1>3. v = [u EXCEPT !.file.wbuf = <<>>]
  BY DEF WriterFlush, Emptied
<1>4. Contents(w) = v.disk
  BY DEF Contents
<1>5. w.file.wbuf # <<>> => Place(w) = p + Len(w.file.wbuf)
  BY DEF Place
<1> HIDE DEF u, v, p
<1>6. <<>> \in Seq(Char)
  OBVIOUS
<1>7. /\ v \in Worlds /\ Stays(u.file, v.file) /\ v.disk = u.disk
      /\ v.file.wbuf = <<>> /\ v.file.rbuf = u.file.rbuf /\ v.file.pos = u.file.pos
  BY <1>2, <1>3, <1>6, WithWriter
<1>8. Stays(w.file, v.file)
  BY <1>2, <1>7 DEF Stays
<1>9. ASSUME w.file.wbuf = <<>> PROVE v = w
  <2>1. v = [w EXCEPT !.file.wbuf = <<>>]
    BY <1>2, <1>3, <1>9
  <2>2. [w EXCEPT !.file.wbuf = <<>>] = [w EXCEPT !.file = [w.file EXCEPT !.wbuf = <<>>]]
    BY DEF Worlds
  <2>3. [w.file EXCEPT !.wbuf = <<>>] = w.file
    BY <1>9, WorldFields DEF Stream
  <2>4. [w EXCEPT !.file = w.file] = w
    BY DEF Worlds
  <2> QED BY <2>1, <2>2, <2>3, <2>4
<1> QED BY <1>2, <1>4, <1>5, <1>7, <1>8, <1>9 DEF v, p

\* Where the writer's buffer begins.
Base(w) == IF Appending(w.file) THEN Len(w.disk) ELSE w.file.pos

\* With nothing read ahead, the next write goes to the end of the writer's buffer.
LEMMA StartIs ==
  ASSUME NEW w \in Worlds, w.file.rbuf = <<>>
  PROVE  /\ Base(w) \in Nat /\ Contents(w) \in Seq(Char) /\ Len(Contents(w)) \in Nat /\ Place(w) \in Nat
         /\ Start(w) = Base(w) + Len(w.file.wbuf)
         /\ w.file.wbuf = <<>> => Contents(w) = w.disk /\ Place(w) = w.file.pos /\ Start(w) = Base(w)
         /\ w.file.wbuf # <<>> => /\ Contents(w) = Overlaid(w.disk, Base(w), w.file.wbuf)
                                  /\ Place(w) = Base(w) + Len(w.file.wbuf)
<1>1. /\ w.disk \in Seq(Char) /\ w.file.wbuf \in Seq(Char) /\ w.file.pos \in Nat
      /\ Len(w.disk) \in Nat /\ Len(w.file.wbuf) \in Nat /\ Len(w.file.rbuf) = 0
  BY WorldFields
<1>2. Base(w) \in Nat
  BY <1>1 DEF Base
<1>3. CASE w.file.wbuf = <<>>
  <2>1. Contents(w) = w.disk
    BY <1>3, FlushFields
  <2>2. Place(w) = w.file.pos
    BY <1>1, <1>3 DEF Place
  <2>3. Len(w.file.wbuf) = 0
    BY <1>3
  <2>4. Start(w) = Base(w)
    BY <2>1, <2>2 DEF Start, Base
  <2> QED BY <1>1, <1>2, <1>3, <2>1, <2>2, <2>3, <2>4
<1>4. CASE w.file.wbuf # <<>>
  <2>1. Contents(w) = Overlaid(w.disk, Base(w), w.file.wbuf)
    BY <1>4, FlushFields DEF Base
  <2>2. Place(w) = Base(w) + Len(w.file.wbuf)
    BY <1>4 DEF Place, Base
  <2>3. Contents(w) \in Seq(Char) /\ Len(Contents(w)) \in Nat
    BY <1>1, <1>2, <2>1, OverlaidIs
  <2>4. ASSUME Appending(w.file) PROVE Len(Contents(w)) = Base(w) + Len(w.file.wbuf)
    <3>1. Base(w) = Len(w.disk)
      BY <2>4 DEF Base
    <3>2. Base(w) <= Base(w) + Len(w.file.wbuf)
      BY <1>1, <1>2
    <3>3. Len(w.disk) <= Base(w) + Len(w.file.wbuf)
      BY <3>1, <3>2
    <3> QED BY <1>1, <1>2, <2>1, <3>3, OverlaidIs
  <2>5. Start(w) = Base(w) + Len(w.file.wbuf)
    BY <2>2, <2>4 DEF Start
  <2> QED BY <1>1, <1>2, <1>4, <2>1, <2>2, <2>3, <2>5
<1> QED BY <1>3, <1>4

\* Where writes go does not change with the buffers.
LEMMA SameMode ==
  ASSUME NEW f, NEW g, Stays(f, g)
  PROVE  Appending(f) <=> Appending(g)
BY DEF Stays, Appending

\* A flush writes nothing new.
LEMMA FlushWrote ==
  ASSUME NEW w \in Worlds, w.file.rbuf = <<>>
  PROVE  Wrote(w, WriterFlush(w), <<>>) /\ WriterFlush(w).file.wbuf = <<>>
<1> DEFINE v == WriterFlush(w)
<1>1. /\ v \in Worlds /\ Stays(w.file, v.file) /\ v.file.rbuf = <<>> /\ v.file.wbuf = <<>>
      /\ v.disk = Contents(w)
      /\ w.file.wbuf = <<>> => v = w
      /\ w.file.wbuf # <<>> => v.file.pos = Place(w)
  BY FlushFields
<1> HIDE DEF v
<1>2. Contents(v) = v.disk /\ Place(v) = v.file.pos
  BY <1>1, StartIs
<1>3. w.file.wbuf = <<>> => Place(w) = w.file.pos
  BY StartIs
<1>4. Place(v) = Place(w)
  BY <1>1, <1>2, <1>3
<1> QED BY <1>1, <1>2, <1>4 DEF Wrote, v

\* A write(2) with nothing in the writer.
LEMMA OsWrote ==
  ASSUME NEW w \in Worlds, NEW s \in Seq(Char), w.file.rbuf = <<>>, w.file.wbuf = <<>>
  PROVE  Wrote(w, OsWrite(w, s), s) /\ OsWrite(w, s).file.wbuf = <<>>
<1> DEFINE v == OsWrite(w, s)
<1>1. /\ v \in Worlds /\ Stays(w.file, v.file) /\ v.file.rbuf = <<>> /\ v.file.wbuf = <<>>
      /\ s = <<>> => v = w
      /\ s # <<>> => v.disk = Overlaid(w.disk, Base(w), s) /\ v.file.pos = Base(w) + Len(s)
  BY OsWriteFields DEF Base
<1> HIDE DEF v
<1>2. Contents(v) = v.disk /\ Place(v) = v.file.pos
  BY <1>1, StartIs
<1>3. Contents(w) = w.disk /\ Start(w) = Base(w)
  BY StartIs
<1> QED BY <1>1, <1>2, <1>3 DEF Wrote, v

\* What is added to the writer's buffer is written.
LEMMA HeldWrote ==
  ASSUME NEW w \in Worlds, NEW s \in Seq(Char), w.file.rbuf = <<>>
  PROVE  LET v == [w EXCEPT !.file.wbuf = w.file.wbuf \o s]
         IN  Wrote(w, v, s) /\ v.file.wbuf = w.file.wbuf \o s /\ v.file.rbuf = <<>>
<1> DEFINE b == w.file.wbuf \o s
           v == [w EXCEPT !.file.wbuf = b]
<1>1. w.file.wbuf \in Seq(Char) /\ w.disk \in Seq(Char) /\ Len(w.file.wbuf) \in Nat /\ Len(s) \in Nat
  BY WorldFields
<1>2. b \in Seq(Char) /\ Len(b) = Len(w.file.wbuf) + Len(s)
  BY <1>1, ConcatProperties
<1>3. (w.file.wbuf = <<>> => b = s) /\ (s = <<>> => b = w.file.wbuf) /\ (b = <<>> => s = <<>>)
  BY SMTT(30), <1>1, ConcatEmptySeq, ConcatEqualIffEmpty
<1>4. Overlaid(Overlaid(w.disk, Base(w), w.file.wbuf), Base(w) + Len(w.file.wbuf), s) = Overlaid(w.disk, Base(w), b)
  <2>1. PICK p \in Nat : p = Base(w)
    BY StartIs
  <2>2. PICK h \in Seq(Char) : h = w.file.wbuf
    BY <1>1
  <2>3. PICK c \in Seq(Char) : c = w.disk
    BY <1>1
  <2>4. Overlaid(Overlaid(c, p, h), p + Len(h), s) = Overlaid(c, p, h \o s)
    BY ONLY c \in Seq(Char), p \in Nat, h \in Seq(Char), s \in Seq(Char), OverlaidTwice
  <2> QED BY <2>1, <2>2, <2>3, <2>4
<1> HIDE DEF b
<1>5. /\ v \in Worlds /\ Stays(w.file, v.file) /\ v.disk = w.disk
      /\ v.file.wbuf = b /\ v.file.rbuf = <<>> /\ v.file.pos = w.file.pos
  BY <1>2, WithWriter
<1> HIDE DEF v
<1>6. Base(v) = Base(w) /\ Base(w) \in Nat
  BY <1>5, SameMode, StartIs DEF Base
<1>7. CASE s = <<>>
  <2>1. Contents(v) = Contents(w) /\ Place(v) = Place(w)
    BY <1>3, <1>5, <1>6, <1>7, StartIs
  <2> QED BY <1>5, <1>7, <2>1 DEF Wrote, v, b
<1>8. CASE s # <<>>
  <2>1. Contents(v) = Overlaid(w.disk, Base(w), b) /\ Place(v) = Base(w) + Len(b)
    BY <1>3, <1>5, <1>6, <1>8, StartIs
  <2>2. Start(w) = Base(w) + Len(w.file.wbuf)
    BY StartIs
  <2>3. Place(v) = Start(w) + Len(s)
    <3>1. PICK p \in Nat : p = Base(w)
      BY <1>6
    <3>2. PICK h \in Nat : h = Len(w.file.wbuf)
      BY <1>1
    <3>3. PICK k \in Nat : k = Len(s)
      BY <1>1
    <3>4. Place(v) = p + (h + k) /\ Start(w) = p + h
      BY <1>2, <2>1, <2>2, <3>1, <3>2, <3>3
    <3>5. p + (h + k) = (p + h) + k
      BY ONLY p \in Nat, h \in Nat, k \in Nat
    <3> QED BY <3>3, <3>4, <3>5
  <2>4. Contents(v) = Overlaid(Contents(w), Start(w), s)
    <3>1. CASE w.file.wbuf = <<>>
      BY <1>3, <2>1, <3>1, StartIs
    <3>2. CASE w.file.wbuf # <<>>
      BY <1>4, <2>1, <2>2, <3>2, StartIs
    <3> QED BY <3>1, <3>2
  <2> QED BY <1>5, <1>8, <2>3, <2>4 DEF Wrote, v, b
<1> QED BY <1>7, <1>8

\* One write after another is the write of both.
LEMMA WroteBoth ==
  ASSUME NEW w \in Worlds, NEW u, NEW v, NEW s \in Seq(Char), NEW t \in Seq(Char), w.file.rbuf = <<>>,
         Wrote(w, u, s), Wrote(u, v, t)
  PROVE  Wrote(w, v, s \o t)
<1>1. u \in Worlds /\ v \in Worlds /\ u.file.rbuf = <<>> /\ v.file.rbuf = <<>>
      /\ Stays(w.file, u.file) /\ Stays(u.file, v.file)
  BY DEF Wrote
<1>2. Stays(w.file, v.file) /\ (Appending(w.file) <=> Appending(u.file))
  BY <1>1, SameMode DEF Stays
<1>3. Contents(w) \in Seq(Char) /\ Len(Contents(w)) \in Nat /\ Start(w) \in Nat /\ Len(s) \in Nat /\ Len(t) \in Nat
  BY StartIs, WorldFields
<1>4. CASE s = <<>>
  <2>1. Contents(u) = Contents(w) /\ Place(u) = Place(w)
    BY <1>4 DEF Wrote
  <2>2. Start(u) = Start(w)
    BY <1>2, <2>1 DEF Start
  <2>3. s \o t = t
    BY <1>4, ConcatEmptySeq
  <2> QED BY <1>1, <1>2, <2>1, <2>2, <2>3 DEF Wrote
<1>5. CASE t = <<>>
  <2>1. Contents(v) = Contents(u) /\ Place(v) = Place(u)
    BY <1>5 DEF Wrote
  <2>2. s \o t = s
    BY <1>5, ConcatEmptySeq
  <2> QED BY <1>1, <1>2, <2>1, <2>2 DEF Wrote
<1>6. CASE s # <<>> /\ t # <<>>
  <2>1. Contents(u) = Overlaid(Contents(w), Start(w), s) /\ Place(u) = Start(w) + Len(s)
    BY <1>6 DEF Wrote
  <2>2. Contents(v) = Overlaid(Contents(u), Start(u), t) /\ Place(v) = Start(u) + Len(t)
    BY <1>6 DEF Wrote
  <2>3. Appending(w.file) => Len(Contents(u)) = Start(w) + Len(s)
    <3>1. Appending(w.file) => Start(w) = Len(Contents(w)) /\ Len(Contents(w)) <= Start(w) + Len(s)
      BY <1>3 DEF Start
    <3> QED BY <1>3, <2>1, <3>1, OverlaidIs
  <2>4. Start(u) = Start(w) + Len(s)
    BY <1>2, <2>1, <2>3 DEF Start
  <2>5. Contents(v) = Overlaid(Contents(w), Start(w), s \o t)
    BY <1>3, <2>1, <2>2, <2>4, OverlaidTwice
  <2>6. s \o t # <<>> /\ Len(s \o t) = Len(s) + Len(t)
    BY <1>6, ConcatProperties, ConcatEqualIffEmpty
  <2>7. Place(v) = Start(w) + Len(s \o t)
    BY <1>3, <2>2, <2>4, <2>6
  <2> QED BY <1>1, <1>2, <2>5, <2>6, <2>7 DEF Wrote
<1> QED BY <1>4, <1>5, <1>6

\* Writer's buffers are in bounds, and unused by a stream that has none.
Fits(f) == Len(f.wbuf) <= f.size /\ (f.bufMode = "no" => f.wbuf = <<>>)

\* A writer that holds nothing fits whatever its buffer and its mode are.
LEMMA EmptyFits ==
  ASSUME NEW w \in Worlds, w.file.wbuf = <<>>
  PROVE  Fits(w.file)
<1>1. w.file.size \in Nat /\ Len(w.file.wbuf) = 0
  BY WorldFields
<1> QED BY <1>1 DEF Fits

\* Nothing is written by doing nothing.
LEMMA NoneWritten ==
  ASSUME NEW w \in Worlds, w.file.rbuf = <<>>
  PROVE  Wrote(w, w, <<>>)
BY DEF Wrote, Stays

\* bufio.Writer.WriteString, by whichever of its ways, writes s and keeps to the
\* size of the buffer.
LEMMA BufferedIs ==
  ASSUME NEW w \in Worlds, NEW s \in Seq(Char), w.file.rbuf = <<>>, Len(w.file.wbuf) <= w.file.size
  PROVE  Wrote(w, Buffered(w, s), s) /\ Len(Buffered(w, s).file.wbuf) <= w.file.size
<1> DEFINE f == w.file
           room == f.size - Len(f.wbuf)
           k == Min({room, Len(s)})
           first == SubSeq(s, 1, k)
           rest == SubSeq(s, room + 1, Len(s))
           head == [w EXCEPT !.file.wbuf = f.wbuf \o first]
           v == Buffered(w, s)
<1>1. /\ f.size \in Nat \ {0} /\ f.wbuf \in Seq(Char) /\ Len(f.wbuf) \in Nat /\ Len(s) \in Nat /\ room \in Nat
  BY WorldFields
<1>2. /\ Len(s) <= room => k = Len(s)
      /\ Len(s) > room => k = room
  BY <1>1, MinOfTwo
<1>3. v = IF Len(s) <= room THEN head
          ELSE IF f.wbuf = <<>> THEN OsWrite(w, s)
          ELSE IF Len(rest) > f.size THEN OsWrite(WriterFlush(head), rest)
          ELSE [WriterFlush(head) EXCEPT !.file.wbuf = rest]
  BY DEF Buffered
<1>4. room = f.size - Len(f.wbuf)
  OBVIOUS
<1> HIDE DEF room, k
<1>5. first \in Seq(Char) /\ rest \in Seq(Char)
  BY <1>1, <1>2
<1>6. Len(s) <= room => first = s
  BY <1>1, <1>2, SubSeqFull
<1>7. Len(s) > room => Len(first) = room /\ Len(rest) = Len(s) - room /\ first \o rest = s
  <2> SUFFICES ASSUME Len(s) > room PROVE Len(first) = room /\ Len(rest) = Len(s) - room /\ first \o rest = s
    OBVIOUS
  <2>1. k = room
    BY <1>2
  <2>2. Len(first) = room /\ Len(rest) = Len(s) - room
    BY <1>1, <2>1
  <2>3. first \o rest = SubSeq(s, 1, Len(s))
    <3>1. 1 \in 1 .. Len(s) + 1 /\ room \in 1 - 1 .. Len(s) /\ Len(s) \in room .. Len(s)
      BY <1>1
    <3> QED BY <2>1, <3>1, ConcatAdjacentSubSeq
  <2> QED BY <2>2, <2>3, SubSeqFull
<1> HIDE DEF first, rest
<1>8. Wrote(w, head, first) /\ head.file.wbuf = f.wbuf \o first /\ head.file.rbuf = <<>> /\ head \in Worlds
  BY <1>5, HeldWrote DEF Wrote
<1> HIDE DEF head, v
<1>9. CASE Len(s) <= room
  <2>1. v = head /\ first = s
    BY <1>3, <1>6, <1>9
  <2>2. Len(head.file.wbuf) = Len(f.wbuf) + Len(s)
    BY <1>1, <1>8, <2>1, ConcatProperties
  <2>3. Len(head.file.wbuf) <= f.size
    BY <1>1, <1>4, <1>9, <2>2
  <2> QED BY <1>8, <2>1, <2>3 DEF v
<1>10. CASE Len(s) > room /\ f.wbuf = <<>>
  <2>1. v = OsWrite(w, s)
    BY <1>1, <1>3, <1>10
  <2>2. Wrote(w, v, s) /\ v.file.wbuf = <<>>
    BY <1>10, <2>1, OsWrote
  <2>3. Len(v.file.wbuf) <= f.size
    BY <1>1, <2>2
  <2> QED BY <2>2, <2>3 DEF v
<1> DEFINE u == WriterFlush(head)
<1>11. Wrote(head, u, <<>>) /\ u.file.wbuf = <<>>
  BY <1>8, FlushWrote
<1>12. first \o <<>> = first /\ <<>> \in Seq(Char)
  BY <1>5, ConcatEmptySeq
<1>13. Wrote(w, u, first) /\ u \in Worlds /\ u.file.rbuf = <<>> /\ u.file.size = f.size
  <2>1. Wrote(w, u, first \o <<>>)
    BY <1>5, <1>8, <1>11, <1>12, WroteBoth
  <2> QED BY <1>12, <2>1 DEF Wrote, Stays
<1> HIDE DEF u
<1>14. CASE Len(s) > room /\ f.wbuf # <<>> /\ Len(rest) > f.size
  <2>1. v = OsWrite(u, rest)
    BY <1>1, <1>3, <1>14 DEF u
  <2>2. Wrote(u, v, rest) /\ v.file.wbuf = <<>>
    BY <1>5, <1>11, <1>13, <2>1, OsWrote
  <2>3. Wrote(w, v, first \o rest)
    BY <1>5, <1>13, <2>2, WroteBoth
  <2>4. Len(v.file.wbuf) <= f.size
    BY <1>1, <2>2
  <2> QED BY <1>7, <1>14, <2>3, <2>4 DEF v
<1>15. CASE Len(s) > room /\ f.wbuf # <<>> /\ ~(Len(rest) > f.size)
  <2>1. v = [u EXCEPT !.file.wbuf = rest]
    BY <1>1, <1>3, <1>15 DEF u
  <2>2. rest = u.file.wbuf \o rest
    BY <1>5, <1>11, ConcatEmptySeq
  <2>3. Wrote(u, v, rest) /\ v.file.wbuf = rest
    BY <1>5, <1>13, <2>1, <2>2, HeldWrote
  <2>4. Wrote(w, v, first \o rest)
    BY <1>5, <1>13, <2>3, WroteBoth
  <2>5. Len(v.file.wbuf) <= f.size
    BY <1>1, <1>5, <1>15, <2>3
  <2> QED BY <1>7, <1>15, <2>4, <2>5 DEF v
<1> QED BY <1>1, <1>9, <1>10, <1>14, <1>15

\* fullFile.Write writes s whatever the buffer mode is, and an unbuffered stream
\* holds nothing back.
LEMMA Write1Is ==
  ASSUME NEW w \in Worlds, NEW s \in Seq(Char), w.file.rbuf = <<>>, Fits(w.file)
  PROVE  Wrote(w, Write1(w, s), s) /\ Fits(Write1(w, s).file)
<1> DEFINE v == Write1(w, s)
           b == Buffered(w, s)
<1>1. Wrote(w, b, s) /\ Len(b.file.wbuf) <= w.file.size
  BY BufferedIs DEF Fits
<1>2. b \in Worlds /\ b.file.rbuf = <<>> /\ Stays(w.file, b.file)
  BY <1>1 DEF Wrote
<1>3. v = IF w.file.bufMode = "no" THEN OsWrite(w, s)
          ELSE IF w.file.bufMode = "line" /\ Newline \in Range(s) THEN WriterFlush(b)
          ELSE b
  BY DEF Write1
<1> HIDE DEF v, b
<1>4. CASE w.file.bufMode = "no"
  <2>1. v = OsWrite(w, s) /\ w.file.wbuf = <<>>
    BY <1>3, <1>4 DEF Fits
  <2>2. Wrote(w, v, s) /\ v.file.wbuf = <<>> /\ v \in Worlds
    BY <2>1, OsWrote DEF Wrote
  <2> QED BY <2>2, EmptyFits DEF v
<1>5. CASE w.file.bufMode # "no" /\ v = WriterFlush(b)
  <2>1. Wrote(b, v, <<>>) /\ v.file.wbuf = <<>> /\ v \in Worlds
    BY <1>2, <1>5, FlushWrote DEF Wrote
  <2>2. s \o <<>> = s /\ <<>> \in Seq(Char)
    BY ConcatEmptySeq
  <2>3. Wrote(w, v, s \o <<>>)
    BY <1>1, <2>1, <2>2, WroteBoth
  <2> QED BY <2>1, <2>2, <2>3, EmptyFits DEF v
<1>6. CASE w.file.bufMode # "no" /\ v = b
  <2>1. b.file.bufMode # "no" /\ b.file.size = w.file.size
    BY <1>2, <1>6 DEF Stays
  <2> QED BY <1>1, <1>6, <2>1 DEF v, Fits
<1> QED BY <1>3, <1>4, <1>5, <1>6

\* What strings amount to, one after another.
LEMMA FlattenIs ==
  ASSUME NEW strings \in Seq(Seq(Char))
  PROVE  \E J \in [0 .. Len(strings) -> Seq(Char)] :
           /\ J[0] = <<>> /\ J[Len(strings)] = FlattenSeq(strings)
           /\ \A n \in 1 .. Len(strings) : J[n] = J[n - 1] \o strings[n]
<1> DEFINE N == Len(strings)
           G == [n \in 0 .. N |-> Seq(Char)]
           F == [p \in (1 .. N) \X Seq(Char) |-> p[2] \o strings[p[1]]]
<1>1. N \in Nat /\ \A n \in 1 .. N : strings[n] \in Seq(Char) /\ n \in 0 .. N /\ n - 1 \in 0 .. N
  OBVIOUS
<1> HIDE DEF N
<1>2. \A n \in 1 .. N : \A u \in Seq(Char) : F[<<n, u>>] = u \o strings[n]
  OBVIOUS
<1>3. \A n \in 1 .. N : \A u \in Seq(Char) : u \o strings[n] \in Seq(Char)
  BY <1>1, ConcatProperties
<1>4. \A n \in 0 .. N : G[n] = Seq(Char)
  OBVIOUS
<1> HIDE DEF F, G
<1>5. <<>> \in G[0] /\ 0 \in 0 .. N
  <2>1. 0 \in 0 .. N /\ <<>> \in Seq(Char)
    BY <1>1
  <2> QED BY <1>4, <2>1
<1>6. ASSUME NEW n \in 1 .. N, NEW u \in G[n - 1] PROVE F[<<n, u>>] \in G[n]
  <2>1. u \in Seq(Char) /\ G[n] = Seq(Char)
    BY <1>1, <1>4
  <2> QED BY <1>2, <1>3, <2>1
<1>7. PICK J : IsRun(J, N, <<>>, F) /\ \A n \in 0 .. N : J[n] \in G[n]
  BY <1>1, <1>5, <1>6, PassesRun
<1>8. J \in [0 .. N -> Seq(Char)] /\ J[0] = <<>> /\ \A n \in 1 .. N : J[n] = J[n - 1] \o strings[n]
  <2>1. J = [n \in 0 .. N |-> IF n = 0 THEN <<>> ELSE F[<<n, J[n - 1]>>]]
    BY <1>7 DEF IsRun
  <2>2. \A n \in 0 .. N : J[n] \in Seq(Char)
    BY <1>4, <1>7
  <2>3. J = [n \in 0 .. N |-> J[n]]
    BY <2>1
  <2>4. J \in [0 .. N -> Seq(Char)]
    BY <2>2, <2>3
  <2>5. J[0] = <<>>
    BY <1>5, <2>1
  <2>6. \A n \in 1 .. N : J[n] = F[<<n, J[n - 1]>>]
    BY <1>1, <2>1
  <2> QED BY <1>1, <1>2, <2>2, <2>4, <2>5, <2>6
<1>9. J[N] = FlattenSeq(strings)
  <2>1. CASE N = 0
    <3>1. strings = <<>> /\ FlattenSeq(strings) = strings
      BY <2>1 DEF FlattenSeq, N
    <3> QED BY <1>8, <2>1, <3>1
  <2>2. CASE N # 0
    <3> DEFINE R == CHOOSE f : f = [i \in 1 .. N |-> IF i = 1 THEN strings[i] ELSE f[i - 1] \o strings[i]]
               j == [i \in 1 .. N |-> J[i]]
    <3>1. FlattenSeq(strings) = R[N]
      BY <2>2 DEF FlattenSeq, N
    <3>2. \A i \in 1 .. N : j[i] = IF i = 1 THEN strings[i] ELSE j[i - 1] \o strings[i]
      <4> TAKE i \in 1 .. N
      <4>1. CASE i = 1
        <5>1. i - 1 = 0 /\ strings[i] \in Seq(Char)
          BY <1>1, <4>1
        <5>2. J[i] = <<>> \o strings[i]
          BY <1>8, <5>1
        <5> QED BY <4>1, <5>1, <5>2, ConcatEmptySeq
      <4>2. CASE i # 1
        <5>1. i - 1 \in 1 .. N
          BY <1>1, <4>2
        <5> QED BY <1>8, <4>2, <5>1
      <4> QED BY <4>1, <4>2
    <3>3. j = [i \in 1 .. N |-> IF i = 1 THEN strings[i] ELSE j[i - 1] \o strings[i]]
      <4>1. j = [i \in 1 .. N |-> j[i]]
        OBVIOUS
      <4> HIDE DEF j
      <4> QED BY <3>2, <4>1
    <3> HIDE DEF j
    <3>4. R = [i \in 1 .. N |-> IF i = 1 THEN strings[i] ELSE R[i - 1] \o strings[i]]
      BY <3>3
    <3> HIDE DEF R
    <3>5. \A i \in 1 .. N : R[i] = IF i = 1 THEN strings[i] ELSE R[i - 1] \o strings[i]
      BY <3>4
    <3> DEFINE T == {n \in Nat : n \in 1 .. N => R[n] = J[n]}
    <3>6. 0 \in T
      OBVIOUS
    <3>7. ASSUME NEW n \in Nat, n \in T PROVE n + 1 \in T
      <4>1. ASSUME n + 1 \in 1 .. N PROVE R[n + 1] = J[n + 1]
        <5>1. (n + 1) - 1 = n /\ strings[n + 1] \in Seq(Char)
          BY <1>1, <4>1
        <5>2. J[n + 1] = J[n] \o strings[n + 1]
          BY <1>8, <4>1, <5>1
        <5>3. CASE n = 0
          <6>1. R[n + 1] = strings[n + 1] /\ J[n] = <<>>
            BY <1>8, <3>5, <4>1, <5>3
          <6> QED BY <5>1, <5>2, <6>1, ConcatEmptySeq
        <5>4. CASE n # 0
          <6>1. n \in 1 .. N /\ n + 1 # 1
            BY <1>1, <4>1, <5>4
          <6>2. R[n] = J[n]
            BY <3>7, <6>1
          <6> QED BY <3>5, <4>1, <5>1, <5>2, <6>1, <6>2
        <5> QED BY <5>3, <5>4
      <4> QED BY <4>1
    <3>8. \A n \in Nat : n \in T
      <4> HIDE DEF T
      <4> QED BY <3>6, <3>7, Counting
    <3>9. N \in 1 .. N
      BY <1>1, <2>2
    <3>10. R[N] = J[N]
      BY <3>8, <3>9
    <3> QED BY <3>1, <3>10 DEF R
  <2> QED BY <2>1, <2>2
<1> QED BY <1>8, <1>9 DEF N

\* All the strings of a write, one after another, are one write.
LEMMA WriteAllIs ==
  ASSUME NEW w \in Worlds, w.file.rbuf = <<>>, Fits(w.file), NEW strings \in Seq(Seq(Char))
  PROVE  /\ Wrote(w, WriteAll(w, strings), FlattenSeq(strings)) /\ Fits(WriteAll(w, strings).file)
         /\ FlattenSeq(strings) \in Seq(Char)
<1> DEFINE N == Len(strings)
<1>1. N \in Nat /\ \A n \in 1 .. N : strings[n] \in Seq(Char) /\ n \in 0 .. N /\ n - 1 \in 0 .. N
  OBVIOUS
<1>2. PICK J \in [0 .. N -> Seq(Char)] :
        /\ J[0] = <<>> /\ J[N] = FlattenSeq(strings)
        /\ \A n \in 1 .. N : J[n] = J[n - 1] \o strings[n]
  BY FlattenIs
<1> DEFINE S(n) == {v \in Worlds : Wrote(w, v, J[n]) /\ Fits(v.file)}
           G == [n \in 0 .. N |-> S(n)]
           F == [p \in (1 .. N) \X Worlds |-> Write1(p[2], strings[p[1]])]
           R == CHOOSE f : f = [n \in 0 .. N |-> IF n = 0 THEN w ELSE Write1(f[n - 1], strings[n])]
<1>3. WriteAll(w, strings) = R[N]
  BY DEF WriteAll
<1> HIDE DEF N
<1>4. ASSUME NEW n \in 1 .. N, NEW u \in S(n - 1) PROVE Write1(u, strings[n]) \in S(n)
  <2>1. u \in Worlds /\ Wrote(w, u, J[n - 1]) /\ Fits(u.file) /\ u.file.rbuf = <<>>
    BY DEF Wrote
  <2>2. strings[n] \in Seq(Char) /\ J[n - 1] \in Seq(Char) /\ J[n] = J[n - 1] \o strings[n]
    BY <1>1, <1>2
  <2>3. Wrote(u, Write1(u, strings[n]), strings[n]) /\ Fits(Write1(u, strings[n]).file)
    BY <2>1, <2>2, Write1Is
  <2>4. Write1(u, strings[n]) \in Worlds
    BY <2>3 DEF Wrote
  <2>5. Wrote(w, Write1(u, strings[n]), J[n])
    BY <2>1, <2>2, <2>3, WroteBoth
  <2> QED BY <2>3, <2>4, <2>5
<1>5. w \in S(0)
  BY <1>1, <1>2, NoneWritten
<1>6. \A n \in 0 .. N : S(n) \subseteq Worlds
  OBVIOUS
<1>7. \A n \in 1 .. N : \A u \in Worlds : F[<<n, u>>] = Write1(u, strings[n])
  OBVIOUS
<1>8. \A n \in 0 .. N : G[n] = S(n)
  OBVIOUS
<1>9. \A v \in S(N) : Wrote(w, v, J[N]) /\ Fits(v.file)
  OBVIOUS
<1> HIDE DEF S, F, G
<1>10. w \in G[0] /\ N \in 0 .. N
  BY <1>1, <1>5, <1>8
<1>11. ASSUME NEW n \in 1 .. N, NEW u \in G[n - 1] PROVE F[<<n, u>>] \in G[n]
  <2>1. u \in S(n - 1) /\ u \in Worlds /\ G[n] = S(n)
    BY <1>1, <1>6, <1>8
  <2> QED BY <1>4, <1>7, <2>1
<1>12. PICK f : IsRun(f, N, w, F) /\ \A n \in 0 .. N : f[n] \in G[n]
  BY <1>1, <1>10, <1>11, PassesRun
<1>13. f = [n \in 0 .. N |-> IF n = 0 THEN w ELSE Write1(f[n - 1], strings[n])]
  <2>1. ASSUME NEW n \in 0 .. N, n # 0 PROVE F[<<n, f[n - 1]>>] = Write1(f[n - 1], strings[n])
    <3>1. n \in 1 .. N
      BY <1>1, <2>1
    <3>2. f[n - 1] \in Worlds
      BY <1>1, <1>6, <1>8, <1>12, <3>1
    <3> QED BY <1>7, <3>1, <3>2
  <2> QED BY <1>12, <2>1 DEF IsRun
<1>14. R = [n \in 0 .. N |-> IF n = 0 THEN w ELSE Write1(R[n - 1], strings[n])]
  BY <1>13
<1> HIDE DEF R
<1>15. R[0] = w /\ \A n \in 1 .. N : R[n] = Write1(R[n - 1], strings[n])
  BY <1>1, <1>14
<1>16. \A n \in 1 .. N : R[n - 1] \in G[n - 1] => R[n] \in G[n]
  BY <1>1, <1>4, <1>8, <1>15
<1>17. \A n \in 0 .. N : R[n] \in G[n]
  BY <1>1, <1>10, <1>15, <1>16, RunStays
<1>18. R[N] \in S(N)
  BY <1>8, <1>10, <1>17
<1>19. J[N] \in Seq(Char)
  BY <1>2, <1>10
<1> QED BY <1>2, <1>3, <1>9, <1>18, <1>19 DEF R

-----------------------------------------------------------------------------
(* What a read takes.                                                       *)

\* Where the program is in a file that it reads.
At(w) == w.file.pos - Len(w.file.rbuf)

\* The reader holds what stands before the descriptor's position.
Aligned(w) ==
  /\ Len(w.file.rbuf) <= w.file.pos
  /\ w.file.rbuf # <<>> => w.file.pos <= Len(w.disk)
  /\ \A i \in 1 .. Len(w.file.rbuf) : w.file.rbuf[i] = w.disk[At(w) + i]

\* From w to v, n bytes have been read, and nothing else.
Takes(w, v, n) ==
  /\ v \in Worlds /\ Stays(w.file, v.file) /\ v.disk = w.disk /\ v.file.wbuf = w.file.wbuf
  /\ Aligned(v) /\ At(v) = At(w) + n

\* The elements from m + 1 to n of a sequence that has n of them.
LEMMA PartIs ==
  ASSUME NEW s \in Seq(Char), NEW m \in Nat, NEW n \in 0 .. Len(s)
  PROVE  LET t == SubSeq(s, m + 1, n)
         IN  /\ t \in Seq(Char) /\ Len(t) \in Nat
             /\ m <= n => Len(t) = n - m
             /\ m >= n => Len(t) = 0
             /\ \A i \in 1 .. Len(t) : t[i] = s[m + i]
<1> DEFINE t == SubSeq(s, m + 1, n)
<1>1. Len(s) \in Nat /\ n \in Nat /\ \A i \in m + 1 .. n : s[i] \in Char
  OBVIOUS
<1>2. /\ t \in Seq(Char)
      /\ Len(t) = IF m + 1 <= n THEN n - (m + 1) + 1 ELSE 0
      /\ \A i \in 1 .. n - (m + 1) + 1 : t[i] = s[m + 1 + i - 1]
  BY <1>1, SubSeqProperties
<1> HIDE DEF t
<1>3. CASE m < n
  <2>1. Len(t) = n - m
    BY <1>1, <1>2, <1>3
  <2>2. ASSUME NEW i \in 1 .. Len(t) PROVE t[i] = s[m + i]
    <3>1. i \in 1 .. n - (m + 1) + 1 /\ m + 1 + i - 1 = m + i
      BY <1>1, <2>1
    <3> QED BY <1>2, <3>1
  <2> QED BY <1>1, <1>2, <1>3, <2>1, <2>2 DEF t
<1>4. CASE m >= n
  <2>1. Len(t) = 0
    BY <1>1, <1>2, <1>4
  <2> QED BY <1>1, <1>2, <1>4, <2>1 DEF t
<1> QED BY <1>1, <1>3, <1>4

\* What the reader would yield is what is in the file from where the program is.
LEMMA AheadIs ==
  ASSUME NEW w \in Worlds, Aligned(w)
  PROVE  /\ At(w) \in Nat /\ Ahead(w) \in Seq(Char) /\ Len(Ahead(w)) \in Nat
         /\ Ahead(w) = SubSeq(w.disk, At(w) + 1, Len(w.disk))
         /\ At(w) <= Len(w.disk) => Len(Ahead(w)) = Len(w.disk) - At(w)
         /\ At(w) >= Len(w.disk) => Len(Ahead(w)) = 0
         /\ w.file.rbuf = SubSeq(w.disk, At(w) + 1, w.file.pos)
         /\ w.file.rbuf # <<>> => At(w) < w.file.pos /\ w.file.pos <= Len(w.disk)
<1> DEFINE r == w.file.rbuf
           d == w.disk
           p == w.file.pos
<1>1. d \in Seq(Char) /\ r \in Seq(Char) /\ p \in Nat /\ Len(d) \in Nat /\ Len(r) \in Nat /\ Len(r) <= p
  BY WorldFields DEF Aligned
<1>2. Ahead(w) = r \o SubSeq(d, p + 1, Len(d))
  BY DEF Ahead, Unread
<1>3. At(w) = p - Len(r) /\ (r # <<>> => p <= Len(d)) /\ \A i \in 1 .. Len(r) : r[i] = d[At(w) + i]
  BY DEF At, Aligned
<1> HIDE DEF r, d, p
<1>4. At(w) \in Nat /\ (r = <<>> => At(w) = p) /\ (r # <<>> => At(w) < p)
  BY <1>1, <1>3
<1>5. SubSeq(d, p + 1, Len(d)) \in Seq(Char) /\ SubSeq(d, At(w) + 1, Len(d)) \in Seq(Char)
  BY <1>1, <1>4
<1>6. r = SubSeq(d, At(w) + 1, p)
  <2>1. CASE r = <<>>
    BY <1>1, <1>4, <2>1, SubSeqEmpty
  <2>2. CASE r # <<>>
    <3>1. \A i \in At(w) + 1 .. p : d[i] \in Char
      BY <1>1, <1>3, <1>4, <2>2
    <3>2. /\ SubSeq(d, At(w) + 1, p) \in Seq(Char)
          /\ Len(SubSeq(d, At(w) + 1, p)) = p - (At(w) + 1) + 1
          /\ \A i \in 1 .. p - (At(w) + 1) + 1 : SubSeq(d, At(w) + 1, p)[i] = d[At(w) + 1 + i - 1]
      BY <1>1, <1>4, <2>2, <3>1, SubSeqProperties
    <3>3. Len(SubSeq(d, At(w) + 1, p)) = Len(r)
      BY <1>1, <1>3, <1>4, <3>2
    <3>4. ASSUME NEW i \in 1 .. Len(r) PROVE SubSeq(d, At(w) + 1, p)[i] = r[i]
      <4>1. i \in 1 .. p - (At(w) + 1) + 1 /\ At(w) + 1 + i - 1 = At(w) + i
        BY <1>1, <1>3, <1>4
      <4> QED BY <1>3, <3>2, <4>1
    <3> QED BY <1>1, <3>2, <3>3, <3>4, SeqEqual
  <2> QED BY <2>1, <2>2
<1>7. Ahead(w) = SubSeq(d, At(w) + 1, Len(d))
  <2>1. CASE r = <<>>
    BY <1>2, <1>4, <1>5, <2>1, ConcatEmptySeq
  <2>2. CASE r # <<>>
    <3>1. /\ At(w) + 1 \in 1 .. Len(d) + 1 /\ p \in (At(w) + 1) - 1 .. Len(d) /\ Len(d) \in p .. Len(d)
      BY <1>1, <1>3, <1>4, <2>2
    <3> QED BY <1>1, <1>2, <1>6, <3>1, ConcatAdjacentSubSeq
  <2> QED BY <2>1, <2>2
<1>8. /\ Len(Ahead(w)) \in Nat
      /\ At(w) <= Len(d) => Len(Ahead(w)) = Len(d) - At(w)
      /\ At(w) >= Len(d) => Len(Ahead(w)) = 0
  BY <1>1, <1>4, <1>5, <1>7
<1> QED BY <1>3, <1>4, <1>5, <1>6, <1>7, <1>8 DEF r, d, p

\* s without its first m elements.
Drop(s, m) == SubSeq(s, m + 1, Len(s))

\* What is left of a string without its first m bytes.
LEMMA DropIs ==
  ASSUME NEW s \in Seq(Char), NEW m \in Nat
  PROVE  /\ Drop(s, m) \in Seq(Char) /\ Len(Drop(s, m)) \in Nat
         /\ m <= Len(s) => Len(Drop(s, m)) = Len(s) - m
         /\ m >= Len(s) => Len(Drop(s, m)) = 0
         /\ \A i \in 1 .. Len(Drop(s, m)) : Drop(s, m)[i] = s[m + i]
<1>1. Len(s) \in 0 .. Len(s)
  OBVIOUS
<1> QED BY <1>1, PartIs DEF Drop

\* Bytes dropped in two goes.
LEMMA DropTwice ==
  ASSUME NEW s \in Seq(Char), NEW m \in Nat, NEW n \in Nat, n <= Len(Drop(s, m))
  PROVE  Drop(Drop(s, m), n) = Drop(s, m + n)
<1> DEFINE a == Drop(s, m)
           b == Drop(s, m + n)
           c == Drop(a, n)
<1>1. /\ a \in Seq(Char) /\ Len(a) \in Nat /\ Len(s) \in Nat
      /\ m <= Len(s) => Len(a) = Len(s) - m
      /\ m >= Len(s) => Len(a) = 0
      /\ \A i \in 1 .. Len(a) : a[i] = s[m + i]
  BY DropIs
<1>2. /\ b \in Seq(Char) /\ Len(b) \in Nat
      /\ m + n <= Len(s) => Len(b) = Len(s) - (m + n)
      /\ m + n >= Len(s) => Len(b) = 0
      /\ \A i \in 1 .. Len(b) : b[i] = s[m + n + i]
  <2>1. m + n \in Nat
    OBVIOUS
  <2> QED BY <2>1, DropIs
<1>3. n <= Len(a)
  OBVIOUS
<1> HIDE DEF a, b
<1>4. /\ c \in Seq(Char) /\ Len(c) \in Nat
      /\ n <= Len(a) => Len(c) = Len(a) - n
      /\ \A i \in 1 .. Len(c) : c[i] = a[n + i]
  BY <1>1, DropIs
<1> HIDE DEF c
<1>5. Len(b) = Len(c)
  BY <1>1, <1>2, <1>3, <1>4
<1>6. ASSUME NEW i \in 1 .. Len(b) PROVE b[i] = c[i]
  <2>1. i \in 1 .. Len(c) /\ n + i \in 1 .. Len(a) /\ m + n + i = m + (n + i)
    BY <1>1, <1>3, <1>4, <1>5
  <2> QED BY <1>1, <1>2, <1>4, <2>1
<1> QED BY <1>2, <1>4, <1>5, <1>6, SeqEqual DEF a, b, c

\* After n bytes, the rest is ahead.
LEMMA AheadLater ==
  ASSUME NEW w \in Worlds, Aligned(w), NEW v, NEW n \in 0 .. Len(Ahead(w)), Takes(w, v, n)
  PROVE  Ahead(v) = Drop(Ahead(w), n)
<1>1. w.disk \in Seq(Char) /\ At(w) \in Nat /\ Len(Ahead(w)) \in Nat /\ Ahead(w) = Drop(w.disk, At(w))
  BY WorldFields, AheadIs DEF Drop
<1>2. Ahead(v) = Drop(w.disk, At(w) + n)
  BY AheadIs DEF Takes, Drop
<1>3. n \in Nat /\ n <= Len(Drop(w.disk, At(w)))
  BY <1>1
<1> QED BY <1>1, <1>2, <1>3, DropTwice

\* The reader holds what stands between q and the descriptor's position.
LEMMA Moved ==
  ASSUME NEW w \in Worlds, Aligned(w), NEW q \in Nat, NEW p \in Nat, q <= p, q < p => p <= Len(w.disk)
  PROVE  Takes(w, Reached(w, SubSeq(w.disk, q + 1, p), p), q - At(w))
<1> DEFINE b == SubSeq(w.disk, q + 1, p)
           v == Reached(w, b, p)
<1>1. w.disk \in Seq(Char) /\ Len(w.disk) \in Nat /\ At(w) \in Nat
  BY WorldFields, AheadIs
<1>2. \A i \in q + 1 .. p : w.disk[i] \in Char
  BY <1>1
<1>3. b \in Seq(Char) /\ Len(b) = p - q /\ \A i \in 1 .. p - q : b[i] = w.disk[q + i]
  <2>1. /\ b \in Seq(Char)
        /\ Len(b) = IF q + 1 <= p THEN p - (q + 1) + 1 ELSE 0
        /\ \A i \in 1 .. p - (q + 1) + 1 : b[i] = w.disk[q + 1 + i - 1]
    BY <1>2, SubSeqProperties
  <2> QED BY <2>1
<1> HIDE DEF b
<1>4. /\ v \in Worlds /\ Stays(w.file, v.file) /\ v.disk = w.disk
      /\ v.file.wbuf = w.file.wbuf /\ v.file.rbuf = b /\ v.file.pos = p
  BY <1>3, WithReader
<1> HIDE DEF v
<1>5. At(v) = q
  BY <1>3, <1>4 DEF At
<1>6. Aligned(v)
  <2>1. Len(v.file.rbuf) <= v.file.pos
    BY <1>3, <1>4
  <2>2. v.file.rbuf # <<>> => v.file.pos <= Len(v.disk)
    BY <1>3, <1>4
  <2>3. \A i \in 1 .. Len(v.file.rbuf) : v.file.rbuf[i] = v.disk[At(v) + i]
    BY <1>3, <1>4, <1>5
  <2> QED BY <2>1, <2>2, <2>3 DEF Aligned
<1>7. At(v) = At(w) + (q - At(w))
  BY <1>1, <1>5
<1> QED BY <1>4, <1>6, <1>7 DEF Takes, v, b

\* The buffers' worth of bytes that n bytes need.
LEMMA WholeBuffers ==
  ASSUME NEW n \in Nat, NEW b \in Nat \ {0}
  PROVE  /\ ((n + b - 1) \div b) * b \in Nat
         /\ ((n + b - 1) \div b) * b >= n
<1> DEFINE m == n + b - 1
<1>1. m \in Nat
  OBVIOUS
<1>2. m = b * (m \div b) + (m % b) /\ m % b \in 0 .. b - 1 /\ m \div b \in Nat
  BY <1>1
<1> QED BY <1>1, <1>2

\* From w to v, n bytes have been read, or what there was if that is less.
TakesUpTo(w, v, n) ==
  /\ n <= Len(Ahead(w)) => Takes(w, v, n)
  /\ n >= Len(Ahead(w)) => Takes(w, v, Len(Ahead(w)))

\* How much is ahead, by what the reader holds and what it does not.
LEMMA AheadSum ==
  ASSUME NEW w \in Worlds, Aligned(w)
  PROVE  /\ Len(w.file.rbuf) \in Nat /\ w.file.pos \in Nat /\ Len(w.disk) \in Nat /\ At(w) \in Nat
         /\ Len(Ahead(w)) \in Nat
         /\ w.file.pos = At(w) + Len(w.file.rbuf)
         /\ w.file.pos <= Len(w.disk) => Len(Ahead(w)) = Len(w.file.rbuf) + (Len(w.disk) - w.file.pos)
         /\ w.file.pos >= Len(w.disk) => Len(Ahead(w)) = Len(w.file.rbuf)
<1>1. /\ Len(w.file.rbuf) \in Nat /\ w.file.pos \in Nat /\ Len(w.disk) \in Nat /\ At(w) \in Nat
      /\ Len(Ahead(w)) \in Nat
  BY WorldFields, AheadIs
<1>2. At(w) = w.file.pos - Len(w.file.rbuf) /\ (Len(w.file.rbuf) > 0 => w.file.pos <= Len(w.disk))
  BY <1>1 DEF At, Aligned
<1>3. /\ At(w) <= Len(w.disk) => Len(Ahead(w)) = Len(w.disk) - At(w)
      /\ At(w) >= Len(w.disk) => Len(Ahead(w)) = 0
  BY AheadIs
<1> QED BY SMTT(30), <1>1, <1>2, <1>3

\* The position of a descriptor that moves on to c, but no further than the end b.
LEMMA Clamped ==
  ASSUME NEW a \in Nat, NEW b \in Nat, NEW c \in Int
  PROVE  LET p == Max({a, Min({b, c})})
         IN  /\ p \in Nat /\ p >= a /\ (p > a => p <= b)
             /\ a >= b => p = a
             /\ a <= b /\ c >= b => p = b
             /\ a <= c /\ c <= b => p = c
<1>1. Min({b, c}) = (IF b <= c THEN b ELSE c) /\ Min({b, c}) \in Int
  BY MinOfTwo
<1> DEFINE m == Min({b, c})
<1> HIDE DEF m
<1>2. m \in Int /\ (b <= c => m = b) /\ (c <= b => m = c)
  BY <1>1 DEF m
<1>3. Max({a, m}) = IF a >= m THEN a ELSE m
  BY <1>2, MaxOfTwo
<1> DEFINE p == Max({a, m})
<1> HIDE DEF p
<1>4. p = IF a >= m THEN a ELSE m
  BY <1>3 DEF p
<1> QED BY <1>2, <1>4 DEF p, m

\* Nothing is taken by doing nothing.
LEMMA NoneTaken ==
  ASSUME NEW w \in Worlds, Aligned(w)
  PROVE  Takes(w, w, 0)
<1>1. At(w) = At(w) + 0
  BY AheadIs
<1> QED BY <1>1 DEF Takes, Stays

\* The first n bytes of the reader's buffer are taken.
LEMMA Kept ==
  ASSUME NEW w \in Worlds, Aligned(w), NEW n \in 0 .. Len(w.file.rbuf)
  PROVE  Takes(w, Reached(w, Drop(w.file.rbuf, n), w.file.pos), n)
<1> DEFINE r == w.file.rbuf
           b == Drop(r, n)
           v == Reached(w, b, w.file.pos)
<1>1. r \in Seq(Char) /\ Len(r) \in Nat /\ n \in Nat /\ n <= Len(r) /\ w.file.pos \in Nat /\ At(w) \in Nat
  BY WorldFields, AheadIs
<1>2. At(w) = w.file.pos - Len(r) /\ Len(r) <= w.file.pos /\ (r # <<>> => w.file.pos <= Len(w.disk))
      /\ \A i \in 1 .. Len(r) : r[i] = w.disk[At(w) + i]
  BY DEF At, Aligned
<1> HIDE DEF r
<1>3. b \in Seq(Char) /\ Len(b) = Len(r) - n /\ \A i \in 1 .. Len(b) : b[i] = r[n + i]
  BY <1>1, DropIs
<1> HIDE DEF b
<1>4. /\ v \in Worlds /\ Stays(w.file, v.file) /\ v.disk = w.disk
      /\ v.file.wbuf = w.file.wbuf /\ v.file.rbuf = b /\ v.file.pos = w.file.pos
  BY <1>1, <1>3, WithReader
<1> HIDE DEF v
<1>5. At(v) = At(w) + n
  <2>1. At(v) = w.file.pos - Len(b)
    BY <1>4 DEF At
  <2> QED BY <1>1, <1>2, <1>3, <2>1
<1>6. Len(b) <= w.file.pos /\ (b # <<>> => r # <<>>)
  BY <1>1, <1>2, <1>3
<1>7. ASSUME NEW i \in 1 .. Len(b) PROVE b[i] = w.disk[At(w) + n + i]
  <2>1. n + i \in 1 .. Len(r) /\ At(w) + (n + i) = At(w) + n + i
    BY <1>1, <1>3
  <2> QED BY <1>2, <1>3, <2>1
<1>8. Aligned(v)
  BY <1>2, <1>4, <1>5, <1>6, <1>7 DEF Aligned
<1> QED BY <1>4, <1>5, <1>8 DEF Takes, v, b, r

\* The reader is emptied, and the descriptor stands at p.
LEMMA Passed ==
  ASSUME NEW w \in Worlds, Aligned(w), NEW p \in Nat
  PROVE  Takes(w, Reached(w, <<>>, p), p - At(w))
<1>1. w.disk \in Seq(Char)
  BY WorldFields
<1>2. SubSeq(w.disk, p + 1, p) = <<>>
  BY <1>1, SubSeqEmpty
<1>3. p <= p /\ ~(p < p)
  OBVIOUS
<1>4. Takes(w, Reached(w, SubSeq(w.disk, p + 1, p), p), p - At(w))
  BY <1>3, Moved
<1> QED BY <1>2, <1>4

\* Taking bytes one at a time, with a refill of the reader whenever it is empty,
\* takes what is there of the n bytes and no more.
LEMMA TookIs ==
  ASSUME NEW w \in Worlds, Aligned(w), NEW n \in Nat
  PROVE  TakesUpTo(w, Took(w, n), n)
<1> DEFINE r == Len(w.file.rbuf)
           d == Len(w.disk)
           pos == w.file.pos
           at == At(w)
           a == Len(Ahead(w))
           need == n - r
           g == ((need + ReadBuf - 1) \div ReadBuf) * ReadBuf
           p == Max({pos, Min({d, pos + g})})
           q == pos + need
           v == Took(w, n)
<1>1. /\ r \in Nat /\ pos \in Nat /\ d \in Nat /\ at \in Nat /\ a \in Nat
      /\ pos = at + r
      /\ pos <= d => a = r + (d - pos)
      /\ pos >= d => a = r
  BY AheadSum
<1>2. w.disk \in Seq(Char) /\ w.file.rbuf \in Seq(Char)
  BY WorldFields
<1>3. /\ need <= 0 => v = [w EXCEPT !.file.rbuf = SubSeq(@, n + 1, Len(@))]
      /\ ~(need <= 0) => v = [w EXCEPT !.file.rbuf = SubSeq(w.disk, q + 1, p), !.file.pos = p]
  BY DEF Took
<1>4. /\ need <= 0 => v = Reached(w, Drop(w.file.rbuf, n), w.file.pos)
      /\ ~(need <= 0) => v = Reached(w, SubSeq(w.disk, q + 1, p), p)
  BY ZenonT(30), <1>3 DEF Reached, Drop, Worlds, Stream
<1>5. need = n - r /\ q = pos + need
  OBVIOUS
<1> HIDE DEF r, d, pos, at, a, q, v
<1>6. CASE need <= 0
  <2> HIDE DEF need, g, p
  <2>1. n \in 0 .. r /\ n <= a
    BY <1>1, <1>5, <1>6
  <2>2. Takes(w, v, n)
    BY <1>4, <1>6, <2>1, Kept DEF r
  <2>3. n >= a => n = a
    BY <1>1, <2>1
  <2> QED BY <2>2, <2>3 DEF TakesUpTo, a, v
<1>7. CASE need > 0
  <2>1. need \in Nat /\ ~(need <= 0)
    BY <1>1, <1>7
  <2> HIDE DEF need
  <2>2. g \in Nat /\ g >= need
    <3>1. ReadBuf \in Nat \ {0}
      BY BufferSizes
    <3> QED BY <2>1, <3>1, WholeBuffers
  <2> HIDE DEF g
  <2>3. q = at + n /\ q \in Nat
    BY <1>1, <1>5, <2>1
  <2>4. /\ p \in Nat
        /\ pos >= d => p = pos
        /\ pos <= d /\ pos + g >= d => p = d
        /\ pos <= d /\ pos + g <= d => p = pos + g
    <3>1. pos + g \in Int /\ pos <= pos + g
      BY <1>1, <2>2
    <3> QED BY <1>1, <3>1, Clamped
  <2> HIDE DEF p
  <2>5. ASSUME n <= a PROVE Takes(w, v, n)
    <3>1. pos < d /\ q <= d
      BY <1>1, <1>5, <1>7, <2>1, <2>3, <2>5
    <3>2. q <= p /\ p <= d /\ q - at = n
      BY <1>1, <1>5, <2>1, <2>2, <2>3, <2>4, <3>1
    <3>3. Takes(w, Reached(w, SubSeq(w.disk, q + 1, p), p), q - at)
      BY <2>3, <2>4, <3>2, Moved DEF d, at
    <3> QED BY <1>4, <2>1, <3>2, <3>3
  <2>6. ASSUME n >= a PROVE Takes(w, v, a)
    <3>1. q >= p /\ p - at = a
      BY <1>1, <1>5, <1>7, <2>1, <2>2, <2>3, <2>4, <2>6
    <3>2. SubSeq(w.disk, q + 1, p) = <<>>
      <4>1. q + 1 \in Int /\ p \in Int /\ q + 1 > p
        BY <2>3, <2>4, <3>1
      <4> HIDE DEF q
      <4> QED BY <1>2, <4>1, SubSeqEmpty
    <3>3. Takes(w, Reached(w, <<>>, p), p - at)
      BY <2>4, Passed DEF at
    <3> QED BY <1>4, <2>1, <3>1, <3>2, <3>3
  <2> QED BY <2>5, <2>6 DEF TakesUpTo, a, v
<1> QED BY <1>1, <1>5, <1>6, <1>7

\* Looking ahead takes nothing, however much it reads from the descriptor.
LEMMA LookedIs ==
  ASSUME NEW w \in Worlds, Aligned(w), NEW n \in Nat
  PROVE  Takes(w, Looked(w, n), 0)
<1> DEFINE r == Len(w.file.rbuf)
           d == Len(w.disk)
           pos == w.file.pos
           at == At(w)
           c == pos + ReadBuf - r
           p == Max({pos, Min({d, c})})
           v == Looked(w, n)
<1>1. /\ r \in Nat /\ pos \in Nat /\ d \in Nat /\ at \in Nat
      /\ pos = at + r /\ ReadBuf \in Nat
  BY AheadSum, BufferSizes
<1>2. /\ w.disk \in Seq(Char) /\ w.file.rbuf = SubSeq(w.disk, at + 1, pos)
      /\ w.file.rbuf \in Seq(Char) /\ (w.file.rbuf # <<>> => at < pos /\ pos <= d)
      /\ (w.file.rbuf = <<>> => r = 0)
  BY WorldFields, AheadIs
<1>3. CASE r >= n
  BY <1>3, NoneTaken DEF Looked
<1>4. CASE ~(r >= n)
  <2>1. v = [w EXCEPT !.file.rbuf = @ \o SubSeq(w.disk, pos + 1, p), !.file.pos = p]
    BY <1>4 DEF Looked
  <2>2. v = Reached(w, w.file.rbuf \o SubSeq(w.disk, pos + 1, p), p)
    BY <2>1 DEF Reached
  <2> HIDE DEF r, d, pos, at, v
  <2>3. c \in Int
    BY <1>1
  <2> HIDE DEF c
  <2>4. p \in Nat /\ p >= pos /\ (p > pos => p <= d)
    BY <1>1, <2>3, Clamped
  <2> HIDE DEF p
  <2>5. w.file.rbuf \o SubSeq(w.disk, pos + 1, p) = SubSeq(w.disk, at + 1, p)
    <3>1. CASE p = pos
      <4>1. pos + 1 \in Int /\ pos \in Int /\ pos + 1 > pos
        BY <1>1
      <4>2. SubSeq(w.disk, pos + 1, pos) = <<>>
        BY <1>2, <4>1, SubSeqEmpty
      <4>3. w.file.rbuf \o <<>> = w.file.rbuf
        BY <1>2, ConcatEmptySeq
      <4> QED BY <1>2, <3>1, <4>2, <4>3
    <3>2. CASE p > pos
      <4>1. /\ at + 1 \in 1 .. d + 1 /\ pos \in (at + 1) - 1 .. d /\ p \in pos .. d
        BY <1>1, <2>4, <3>2
      <4>2. SubSeq(w.disk, at + 1, pos) \o SubSeq(w.disk, pos + 1, p) = SubSeq(w.disk, at + 1, p)
        BY <1>2, <4>1, ConcatAdjacentSubSeq DEF d
      <4> QED BY <1>2, <4>2
    <3>3. p = pos \/ p > pos
      BY <1>1, <2>4
    <3> QED BY <3>1, <3>2, <3>3
  <2>6. at <= p /\ (at < p => p <= d) /\ at - at = 0
    <3>1. at <= p /\ at - at = 0
      BY <1>1, <2>4
    <3>2. CASE w.file.rbuf = <<>>
      BY <1>1, <1>2, <2>4, <3>1, <3>2
    <3>3. CASE w.file.rbuf # <<>>
      BY <1>1, <1>2, <2>4, <3>1, <3>3
    <3> QED BY <3>2, <3>3
  <2>7. Takes(w, Reached(w, SubSeq(w.disk, at + 1, p), p), at - at)
    BY <1>1, <2>4, <2>6, Moved DEF d, at
  <2> QED BY <2>2, <2>5, <2>6, <2>7 DEF v
<1> QED BY <1>3, <1>4

\* readAtMost takes what is there of the n bytes, whether the reads go through the
\* buffer or past it.
LEMMA AtMostIs ==
  ASSUME NEW w \in Worlds, Aligned(w), NEW n \in Nat
  PROVE  TakesUpTo(w, readAtMost(w, n), n)
<1> DEFINE r == Len(w.file.rbuf)
           d == Len(w.disk)
           pos == w.file.pos
           at == At(w)
           a == Len(Ahead(w))
           need == n - r
           c == pos + need
           p == Max({pos, Min({d, c})})
           v == readAtMost(w, n)
<1>1. /\ r \in Nat /\ pos \in Nat /\ d \in Nat /\ at \in Nat /\ a \in Nat
      /\ pos = at + r
      /\ pos <= d => a = r + (d - pos)
      /\ pos >= d => a = r
      /\ ReadBuf \in Nat
  BY AheadSum, BufferSizes
<1>2. CASE need < ReadBuf
  BY <1>2, TookIs DEF readAtMost
<1>3. CASE ~(need < ReadBuf)
  <2>1. v = Reached(w, <<>>, p)
    BY <1>3 DEF readAtMost, Reached, Worlds, Stream
  <2> HIDE DEF r, d, pos, at, a, v
  <2>2. need \in Nat /\ need = n - r
    BY <1>1, <1>3
  <2> HIDE DEF need
  <2>3. c \in Int /\ pos <= c /\ c = pos + need
    BY <1>1, <2>2
  <2> HIDE DEF c
  <2>4. /\ p \in Nat
        /\ pos >= d => p = pos
        /\ pos <= d /\ c >= d => p = d
        /\ pos <= d /\ c <= d => p = c
    BY <1>1, <2>3, Clamped
  <2> HIDE DEF p
  <2>5. Takes(w, v, p - at)
    BY <2>1, <2>4, Passed DEF at
  <2>6. n <= a => p - at = n
    BY <1>1, <2>2, <2>3, <2>4
  <2>7. n >= a => p - at = a
    BY <1>1, <2>2, <2>3, <2>4
  <2> QED BY <2>5, <2>6, <2>7 DEF TakesUpTo, v, a
<1> QED BY <1>2, <1>3

\* Reading to the end takes all that is ahead.
LEMMA DrainedIs ==
  ASSUME NEW w \in Worlds, Aligned(w)
  PROVE  Takes(w, Drained(w), Len(Ahead(w)))
<1> DEFINE r == Len(w.file.rbuf)
           d == Len(w.disk)
           pos == w.file.pos
           at == At(w)
           a == Len(Ahead(w))
           p == Max({pos, d})
<1>1. /\ r \in Nat /\ pos \in Nat /\ d \in Nat /\ at \in Nat /\ a \in Nat
      /\ pos = at + r
      /\ pos <= d => a = r + (d - pos)
      /\ pos >= d => a = r
  BY AheadSum
<1>2. Drained(w) = Reached(w, <<>>, p)
  BY DEF Drained, Reached, Worlds, Stream
<1> HIDE DEF r, d, pos, at, a
<1>3. p = IF pos >= d THEN pos ELSE d
  BY <1>1, MaxOfTwo
<1> HIDE DEF p
<1>4. p \in Nat /\ p - at = a
  BY <1>1, <1>3
<1>5. Takes(w, Reached(w, <<>>, p), p - at)
  BY <1>4, Passed DEF at
<1> QED BY <1>2, <1>4, <1>5 DEF a

-----------------------------------------------------------------------------
(* What the formats answer.                                                 *)

\* The abstract file has the operators of the detailed one under names of its own.
LEMMA FileNames ==
  /\ \A S : File!Max(S) = Max(S) /\ File!Min(S) = Min(S)
  /\ \A strings : File!FlattenSeq(strings) = FlattenSeq(strings)
  /\ \A c, p, s : File!Overlaid(c, p, s) = Overlaid(c, p, s)
  /\ \A format : File!Count(format) = Count(format)
  /\ \A op, arg, kind : File!Answer(op, arg, kind) = Answer(op, arg, kind)
  /\ File!Nil = Nil
  /\ \A s : File!Number(s) = Number(s)
<1>1. \A S : File!Max(S) = Max(S) /\ File!Min(S) = Min(S)
  BY DEF File!Max, Max, File!Min, Min
<1>2. \A strings : File!FlattenSeq(strings) = FlattenSeq(strings)
  BY DEF File!FlattenSeq, FlattenSeq
<1>3. \A c, p, s : File!Overlaid(c, p, s) = Overlaid(c, p, s)
  BY <1>1 DEF File!Overlaid, Overlaid, File!Hole, Hole
<1>4. \A format : File!Count(format) = Count(format)
  BY DEF File!Count, Count
<1>5. /\ \A op, arg, kind : File!Answer(op, arg, kind) = Answer(op, arg, kind)
      /\ File!Nil = Nil
      /\ \A s : File!Number(s) = Number(s)
  BY DEF File!Answer, Answer, File!Nil, Nil, File!Number, Number
<1> QED BY <1>1, <1>2, <1>3, <1>4, <1>5

\* The largest number of a set.
LEMMA MaxIs ==
  ASSUME NEW S \in SUBSET Int, NEW m \in S, \A y \in S : m >= y
  PROVE  Max(S) = m
<1>1. \E x \in S : \A y \in S : x >= y
  OBVIOUS
<1>2. Max(S) \in S /\ \A y \in S : Max(S) >= y
  BY <1>1 DEF Max
<1> DEFINE x == Max(S)
<1> HIDE DEF x
<1>3. x \in Int /\ m \in Int /\ x >= m /\ m >= x
  BY <1>2 DEF x
<1>4. x = m
  BY <1>3
<1> QED BY <1>4 DEF x

\* The smallest number of a set.
LEMMA MinIs ==
  ASSUME NEW S \in SUBSET Int, NEW m \in S, \A y \in S : m <= y
  PROVE  Min(S) = m
<1>1. \E x \in S : \A y \in S : x <= y
  OBVIOUS
<1>2. Min(S) \in S /\ \A y \in S : Min(S) <= y
  BY <1>1 DEF Min
<1> DEFINE x == Min(S)
<1> HIDE DEF x
<1>3. x \in Int /\ m \in Int /\ x <= m /\ m <= x
  BY <1>2 DEF x
<1>4. x = m
  BY <1>3
<1> QED BY <1>4 DEF x

\* The first n elements of s are in set, and no more.
Prefix(s, set, n) ==
  /\ n \in 0 .. Len(s)
  /\ \A i \in 1 .. n : s[i] \in set
  /\ n < Len(s) => s[n + 1] \notin set

\* Every string has a longest prefix of bytes of a set.
LEMMA PrefixExists ==
  ASSUME NEW s \in Seq(Char), NEW set
  PROVE  \E n \in Nat : Prefix(s, set, n)
<1> DEFINE T == {n \in Nat : n <= Len(s) /\ (n < Len(s) => s[n + 1] \notin set)}
<1>1. Len(s) \in Nat
  OBVIOUS
<1>2. Len(s) \in T
  BY <1>1
<1>3. PICK n \in T : \A m \in T : n <= m
  <2>1. T \in SUBSET Nat /\ T # {}
    BY <1>2
  <2> HIDE DEF T
  <2> QED BY <2>1, LeastExists
<1>4. n \in Nat /\ n <= Len(s) /\ (n < Len(s) => s[n + 1] \notin set)
  OBVIOUS
<1>5. ASSUME NEW i \in 1 .. n PROVE s[i] \in set
  <2>1. i \in Nat /\ i - 1 \in Nat /\ i - 1 < n /\ i - 1 < Len(s) /\ (i - 1) + 1 = i
    BY <1>1, <1>4
  <2>2. i - 1 \notin T
    BY <1>3, <1>4, <2>1
  <2> QED BY <2>1, <2>2
<1> QED BY <1>1, <1>4, <1>5 DEF Prefix

\* The abstract file finds its length.
LEMMA RunIs ==
  ASSUME NEW s \in Seq(Char), NEW set
  PROVE  Prefix(s, set, File!Run(s, set)) /\ File!Run(s, set) \in Nat
<1>1. PICK n \in Nat : Prefix(s, set, n)
  BY PrefixExists
<1>2. Len(s) \in Nat
  OBVIOUS
<1> DEFINE S == {k \in 0 .. Len(s) : \A i \in 1 .. k : s[i] \in set}
<1>3. n \in S /\ S \in SUBSET Int
  BY <1>1, <1>2 DEF Prefix
<1>4. ASSUME NEW y \in S PROVE n >= y
  <2>1. y \in Int /\ y <= Len(s) /\ \A i \in 1 .. y : s[i] \in set
    BY <1>2
  <2>2. ASSUME y > n PROVE FALSE
    <3>1. n + 1 \in 1 .. y /\ n < Len(s)
      BY <1>2, <2>1, <2>2
    <3> QED BY <1>1, <2>1, <3>1 DEF Prefix
  <2> QED BY <2>1, <2>2
<1>5. File!Run(s, set) = Max(S)
  BY FileNames DEF File!Run
<1> HIDE DEF S
<1>6. Max(S) = n
  BY <1>3, <1>4, MaxIs
<1> QED BY <1>1, <1>5, <1>6

\* A span is the run of the rest, as far as the limit.
LEMMA SpanIs ==
  ASSUME NEW s \in Seq(Char), NEW m \in Nat, m <= Len(s), NEW i, i = m + 1, NEW set, NEW limit \in Nat
  PROVE  LET n == Span(s, i, set, limit)
             k == File!Run(Drop(s, m), set)
         IN  n \in Nat /\ (k <= limit => n = k) /\ (k >= limit => n = limit)
<1> DEFINE l == Len(s)
           t == Drop(s, m)
           k == File!Run(t, set)
           S == {limit} \union {n \in 0 .. l : (m + 1) + n = l + 1 \/ ((m + 1) + n <= l /\ s[(m + 1) + n] \notin set)}
           n == IF k <= limit THEN k ELSE limit
<1>1. l \in Nat /\ t \in Seq(Char) /\ Len(t) = l - m /\ \A j \in 1 .. Len(t) : t[j] = s[m + j]
  BY DropIs
<1>2. Span(s, i, set, limit) = Min(S)
  BY DEF Span
<1>3. m <= l
  OBVIOUS
<1> HIDE DEF t, l
<1>4. Prefix(t, set, k) /\ k \in Nat
  BY <1>1, RunIs
<1> HIDE DEF k
<1>5. k <= l - m /\ (\A j \in 1 .. k : t[j] \in set) /\ (k < l - m => t[k + 1] \notin set)
  BY <1>1, <1>4 DEF Prefix
<1>6. k \in S
  <2>1. k \in 0 .. l
    BY <1>1, <1>3, <1>4, <1>5
  <2>2. CASE k = l - m
    <3>1. (m + 1) + k = l + 1
      BY <1>1, <1>4, <2>2
    <3> QED BY <2>1, <3>1
  <2>3. CASE k < l - m
    <3>1. k + 1 \in 1 .. Len(t) /\ m + (k + 1) = (m + 1) + k /\ (m + 1) + k <= l
      BY <1>1, <1>4, <2>3
    <3>2. s[(m + 1) + k] \notin set
      BY <1>1, <1>5, <2>3, <3>1
    <3> QED BY <2>1, <3>1, <3>2
  <2> QED BY <1>1, <1>4, <1>5, <2>2, <2>3
<1>7. \A y \in S : y = limit \/ y >= k
  <2> TAKE y \in S
  <2>1. y = limit \/ (y \in 0 .. l /\ ((m + 1) + y = l + 1 \/ ((m + 1) + y <= l /\ s[(m + 1) + y] \notin set)))
    OBVIOUS
  <2>2. ASSUME y \in 0 .. l, y < k PROVE ~((m + 1) + y = l + 1 \/ ((m + 1) + y <= l /\ s[(m + 1) + y] \notin set))
    <3>1. y + 1 \in 1 .. k /\ y + 1 \in 1 .. Len(t) /\ m + (y + 1) = (m + 1) + y /\ ~((m + 1) + y = l + 1)
      BY <1>1, <1>4, <1>5, <2>2
    <3>2. s[(m + 1) + y] \in set
      BY <1>1, <1>5, <3>1
    <3> QED BY <3>1, <3>2
  <2> QED BY <1>1, <1>4, <2>1, <2>2
<1>8. S \in SUBSET Int /\ limit \in S
  BY <1>1
<1> HIDE DEF S
<1>9. n \in S /\ \A y \in S : n <= y
  BY <1>4, <1>6, <1>7, <1>8
<1>10. Min(S) = n
  BY <1>8, <1>9, MinIs
<1> QED BY <1>2, <1>4, <1>10 DEF k, t

\* Reading on from where a read has come to.
LEMMA TakesBoth ==
  ASSUME NEW w \in Worlds, Aligned(w), NEW u, NEW v, NEW m \in Nat, NEW n \in Nat, Takes(w, u, m), Takes(u, v, n)
  PROVE  Takes(w, v, m + n)
<1>1. At(w) \in Nat /\ At(u) = At(w) + m /\ At(v) = At(u) + n
  BY AheadIs DEF Takes
<1>2. At(v) = At(w) + (m + n)
  BY <1>1
<1> QED BY <1>2 DEF Takes, Stays

\* What a format may answer.
Replies == Seq(Char) \union {Number(s) : s \in Seq(Char)} \union {Nil, <<"error">>}

\* A read that answers as two says it is to, and takes as much.
ReadsAs(w, one, two) ==
  /\ one.answer = two.answer /\ one.answer \in Replies \ {<<"error">>} /\ (one.failed <=> two.answer = Nil)
  /\ two.used \in 0 .. Len(Ahead(w)) /\ Takes(w, one.world, two.used)

\* Where a line ends.
LEMMA LineIs ==
  ASSUME NEW s \in Seq(Char), s # <<>>
  PROVE  LET ends == {i \in DOMAIN s : s[i] = Newline}
             n == IF ends = {} THEN Len(s) ELSE Min(ends)
             k == File!LineLength(s)
         IN  /\ n \in 1 .. Len(s) /\ n = File!Min({Len(s), k + 1})
             /\ k = IF ends = {} THEN n ELSE n - 1
<1> DEFINE l == Len(s)
           ends == {i \in DOMAIN s : s[i] = Newline}
           n == IF ends = {} THEN l ELSE Min(ends)
           set == {s[i] : i \in DOMAIN s} \ {File!Newline}
           k == File!LineLength(s)
<1>1. l \in Nat \ {0} /\ DOMAIN s = 1 .. l
  OBVIOUS
<1>2. k = File!Run(s, set)
  BY DEF File!LineLength
<1>3. \A i \in 1 .. l : s[i] \in set <=> s[i] # Newline
  BY <1>1 DEF File!Newline, Newline
<1>4. Prefix(s, set, File!Run(s, set)) /\ File!Run(s, set) \in Nat
  <2> HIDE DEF set
  <2> QED BY RunIs
<1>5. ends = {i \in 1 .. l : s[i] = Newline}
  BY <1>1
<1> HIDE DEF set, k, ends
<1>6. k \in Nat /\ k <= l /\ (\A i \in 1 .. k : s[i] \in set) /\ (k < l => s[k + 1] \notin set)
  BY <1>1, <1>2, <1>4 DEF Prefix, l
<1> HIDE DEF l
<1>7. CASE k = l
  <2>1. ends = {}
    BY <1>3, <1>5, <1>6, <1>7
  <2>2. n = l
    BY <2>1
  <2> HIDE DEF n
  <2>3. Min({l, k + 1}) = l
    BY <1>1, <1>6, <1>7, MinOfTwo
  <2>4. File!Min({l, k + 1}) = l
    BY <2>3, FileNames
  <2> QED BY <1>1, <1>7, <2>1, <2>2, <2>4 DEF ends, l, k, n
<1>8. CASE k < l
  <2>1. k + 1 \in 1 .. l
    BY <1>1, <1>6, <1>8
  <2>2. k + 1 \in ends /\ ends # {} /\ ends \in SUBSET Int
    BY <1>3, <1>5, <1>6, <1>8, <2>1
  <2>3. ASSUME NEW y \in ends PROVE k + 1 <= y
    <3>1. y \in 1 .. l /\ s[y] = Newline
      BY <1>5
    <3>2. ASSUME y <= k PROVE FALSE
      <4>1. y \in 1 .. k
        BY <1>6, <3>1, <3>2
      <4> QED BY <1>3, <1>6, <3>1, <4>1
    <3> QED BY <1>6, <3>1, <3>2
  <2>4. Min(ends) = k + 1
    BY <2>2, <2>3, MinIs
  <2>5. n = k + 1
    BY <2>2, <2>4
  <2> HIDE DEF n
  <2>6. Min({l, k + 1}) = k + 1
    BY <1>1, <1>6, <1>8, MinOfTwo
  <2>7. File!Min({l, k + 1}) = k + 1
    BY <2>6, FileNames
  <2>8. k = n - 1
    BY <1>6, <2>5
  <2> QED BY <2>1, <2>2, <2>5, <2>7, <2>8 DEF ends, l, k, n
<1> QED BY <1>1, <1>6, <1>7, <1>8

\* Bytes that are there are taken.
LEMMA TakesExactly ==
  ASSUME NEW w \in Worlds, Aligned(w), NEW n \in 0 .. Len(Ahead(w))
  PROVE  Takes(w, Took(w, n), n)
<1>1. Len(Ahead(w)) \in Nat
  BY AheadIs
<1>2. n \in Nat /\ n <= Len(Ahead(w))
  BY <1>1
<1> QED BY <1>2, TookIs DEF TakesUpTo

\* readLine answers the line that stands at the position, with its newline if it is
\* to be kept, and takes the newline.
LEMMA LineRead ==
  ASSUME NEW w \in Worlds, Aligned(w), NEW keep \in BOOLEAN
  PROVE  ReadsAs(w, readLine(w, keep), File!ReadOne(Ahead(w), IF keep THEN "L" ELSE "l"))
<1> DEFINE s == Ahead(w)
           ends == {i \in DOMAIN s : s[i] = Newline}
           n == IF ends = {} THEN Len(s) ELSE Min(ends)
           answer == IF s = <<>> THEN Nil ELSE SubSeq(s, 1, IF ends = {} \/ keep THEN n ELSE n - 1)
           k == File!LineLength(s)
           two == File!ReadOne(s, IF keep THEN "L" ELSE "l")
           one == readLine(w, keep)
<1>1. s \in Seq(Char) /\ Len(s) \in Nat
  BY AheadIs
<1>2. one.world = Took(w, n) /\ one.answer = answer /\ (one.failed <=> answer = Nil)
  BY DEF readLine, Reading
<1>3. CASE s = <<>>
  <2>1. n = 0
    <3>1. ends = {} /\ Len(s) = 0
      BY <1>3
    <3> QED BY <3>1
  <2>2. answer = Nil /\ Nil \in Replies \ {<<"error">>}
    BY <1>3 DEF Nil, Replies
  <2>3. two = [answer |-> Nil, used |-> 0]
    BY <1>3, FileNames DEF File!ReadOne
  <2>4. 0 \in 0 .. Len(s)
    BY <1>1
  <2>5. Takes(w, one.world, 0)
    BY <1>2, <2>1, <2>4, TakesExactly
  <2> HIDE DEF n, answer, two, one
  <2>6. two.answer = Nil /\ two.used = 0
    BY <2>3
  <2> QED BY <1>2, <2>2, <2>4, <2>5, <2>6 DEF ReadsAs, one, two
<1>4. CASE s # <<>>
  <2>1. n \in 1 .. Len(s) /\ n = File!Min({Len(s), k + 1}) /\ k = IF ends = {} THEN n ELSE n - 1
    BY <1>1, <1>4, LineIs
  <2>2. answer = SubSeq(s, 1, IF keep THEN n ELSE k)
    BY <1>4, <2>1
  <2>3. two = [answer |-> SubSeq(s, 1, IF keep THEN n ELSE k), used |-> n]
    <3>1. CASE keep
      BY <1>4, <2>1, <3>1 DEF File!ReadOne
    <3>2. CASE ~keep
      BY <1>4, <2>1, <3>2 DEF File!ReadOne
    <3> QED BY <3>1, <3>2
  <2> HIDE DEF n, answer, k, ends, two, one
  <2>4. answer \in Seq(Char)
    <3>1. \A i \in 1 .. Len(s) : s[i] \in Char
      BY <1>1
    <3>2. (IF keep THEN n ELSE k) \in 0 .. Len(s)
      <4>1. n \in 0 .. Len(s) /\ n - 1 \in 0 .. Len(s)
        BY <1>1, <2>1
      <4> QED BY <2>1, <4>1
    <3> QED BY <1>1, <2>2, <3>2
  <2>5. answer # Nil /\ answer \in Replies \ {<<"error">>}
    BY <2>4, MarksAreNoStrings DEF Replies
  <2>6. n \in 0 .. Len(s)
    BY <1>1, <2>1
  <2>7. Takes(w, one.world, n)
    BY <1>2, <2>6, TakesExactly
  <2> QED BY <1>2, <2>2, <2>3, <2>5, <2>6, <2>7 DEF ReadsAs, one, two
<1> QED BY <1>3, <1>4

\* readNumber answers the digits after the blanks and takes these; a run of digits
\* that is too long is nil, and what the buffer could not hold of it stays.
LEMMA NumberRead ==
  ASSUME NEW w \in Worlds, Aligned(w), w.file.wbuf = <<>>
  PROVE  ReadsAs(w, readNumber(w), File!ReadOne(Ahead(w), "n"))
<1> DEFINE s == Ahead(w)
           l == Len(s)
           blank == Span(s, 1, {Newline}, l)
           digits == Span(s, blank + 1, Digits, MaxNumLen)
           skipped == Took(w, blank)
           start == Looked(skipped, 1)
           far == Min({digits + 1, MaxNumLen})
           scanned == Looked(start, far)
           last == Took(scanned, digits)
           answer == IF digits \in 1 .. (MaxNumLen - 1) THEN Number(SubSeq(s, blank + 1, blank + digits)) ELSE Nil
           one == readNumber(w)
           two == File!ReadOne(s, "n")
           run == File!Run(Drop(s, blank), Digits)
<1>1. s \in Seq(Char) /\ l \in Nat
  BY AheadIs
<1>2. WriterFlush(w) = w
  BY FlushFields
<1>3. one.world = last /\ one.answer = answer /\ (one.failed <=> answer = Nil)
  BY <1>2 DEF readNumber, Reading
<1>4. MaxNumLen \in Nat \ {0}
  BY BuffersHoldNumerals, BufferSizes
<1> HIDE DEF l, s
<1>5. blank = File!Run(s, {Newline}) /\ blank \in Nat /\ blank <= l
  <2>1. Drop(s, 0) = s
    <3>1. Drop(s, 0) = SubSeq(s, 1, Len(s))
      BY DEF Drop
    <3> QED BY <1>1, <3>1, SubSeqFull
  <2>2. Prefix(s, {Newline}, File!Run(s, {Newline})) /\ File!Run(s, {Newline}) \in Nat
    BY <1>1, RunIs
  <2>3. File!Run(s, {Newline}) <= l
    BY <1>1, <2>2 DEF Prefix, l
  <2>4. 0 \in Nat /\ 0 <= Len(s) /\ 1 = 0 + 1
    BY <1>1
  <2>5. /\ Span(s, 1, {Newline}, l) \in Nat
        /\ File!Run(Drop(s, 0), {Newline}) <= l => Span(s, 1, {Newline}, l) = File!Run(Drop(s, 0), {Newline})
    BY <1>1, <2>4, SpanIs
  <2> QED BY <2>1, <2>2, <2>3, <2>4, <2>5
<1> HIDE DEF blank
<1>6. /\ digits \in Nat
      /\ run <= MaxNumLen => digits = run
      /\ run >= MaxNumLen => digits = MaxNumLen
  <2>1. blank <= Len(s) /\ MaxNumLen \in Nat
    BY <1>4, <1>5 DEF l
  <2> DEFINE i == blank + 1
  <2>2. i = blank + 1
    OBVIOUS
  <2> HIDE DEF i
  <2>3. /\ Span(s, i, Digits, MaxNumLen) \in Nat
        /\ run <= MaxNumLen => Span(s, i, Digits, MaxNumLen) = run
        /\ run >= MaxNumLen => Span(s, i, Digits, MaxNumLen) = MaxNumLen
    BY <1>1, <1>5, <2>1, <2>2, SpanIs
  <2> HIDE DEF run
  <2> QED BY <2>2, <2>3
<1>7. run \in Nat /\ run <= l - blank /\ Drop(s, blank) \in Seq(Char)
  <2>1. Drop(s, blank) \in Seq(Char) /\ Len(Drop(s, blank)) = l - blank
    BY <1>1, <1>5, DropIs DEF l
  <2>2. Prefix(Drop(s, blank), Digits, run) /\ run \in Nat
    BY <2>1, RunIs
  <2> QED BY <2>1, <2>2 DEF Prefix
<1>8. two = IF run \in 1 .. (MaxNumLen - 1)
            THEN [answer |-> Number(SubSeq(s, blank + 1, blank + run)), used |-> blank + run]
            ELSE [answer |-> Nil, used |-> blank + Min({run, MaxNumLen})]
  <2>1. SubSeq(s, blank + 1, Len(s)) = Drop(s, blank)
    BY DEF Drop
  <2>2. File!Run(s, {File!Newline}) = blank
    BY <1>5 DEF File!Newline, Newline
  <2>3. File!Run(SubSeq(s, blank + 1, Len(s)), File!Digits) = run
    BY <2>1 DEF File!Digits, Digits
  <2> HIDE DEF run
  <2> QED BY <2>2, <2>3, FileNames DEF File!ReadOne
<1> HIDE DEF run, digits, far, skipped, start, scanned, last, one, two
<1>9. two = [answer |-> answer, used |-> blank + digits]
  <2>1. run \in 1 .. (MaxNumLen - 1) <=> digits \in 1 .. (MaxNumLen - 1)
    BY <1>4, <1>6, <1>7
  <2>2. Min({run, MaxNumLen}) = digits
    <3>1. Min({run, MaxNumLen}) = IF run <= MaxNumLen THEN run ELSE MaxNumLen
      BY <1>4, <1>7, MinOfTwo
    <3> QED BY <1>4, <1>6, <1>7, <3>1
  <2>3. digits \in 1 .. (MaxNumLen - 1) => run = digits
    BY <1>4, <1>6, <1>7
  <2> QED BY <1>8, <2>1, <2>2, <2>3
<1>10. answer \in Replies \ {<<"error">>}
  <2>1. CASE digits \in 1 .. (MaxNumLen - 1)
    <3>1. SubSeq(s, blank + 1, blank + digits) \in Seq(Char)
      <4>1. digits <= l - blank
        BY <1>4, <1>6, <1>7, <2>1
      <4>2. blank + digits \in 0 .. l
        BY <1>1, <1>5, <1>6, <4>1
      <4> QED BY <1>1, <1>5, <4>2, PartIs DEF l
    <3> QED BY <2>1, <3>1, MarksAreNoStrings DEF Replies
  <2>2. CASE digits \notin 1 .. (MaxNumLen - 1)
    BY <2>2 DEF Nil, Replies
  <2> QED BY <2>1, <2>2
<1>11. digits <= l - blank /\ blank + digits \in 0 .. l
  BY <1>1, <1>4, <1>5, <1>6, <1>7
<1>12. Takes(w, skipped, blank)
  <2>1. blank \in 0 .. l
    BY <1>1, <1>5
  <2> QED BY <2>1, TakesExactly DEF skipped, l, s
<1>13. Takes(w, start, blank)
  <2>1. Takes(skipped, start, 0)
    BY <1>12, LookedIs DEF start, Takes
  <2>2. Takes(w, start, blank + 0)
    BY <1>5, <1>12, <2>1, TakesBoth
  <2> QED BY <1>5, <2>2
<1>14. Takes(w, scanned, blank)
  <2>1. far \in Nat
    <3>1. far = IF digits + 1 <= MaxNumLen THEN digits + 1 ELSE MaxNumLen
      BY <1>4, <1>6, MinOfTwo DEF far
    <3> QED BY <1>4, <1>6, <3>1
  <2>2. Takes(start, scanned, 0)
    BY <1>13, <2>1, LookedIs DEF scanned, Takes
  <2>3. Takes(w, scanned, blank + 0)
    BY <1>5, <1>13, <2>2, TakesBoth
  <2> QED BY <1>5, <2>3
<1>15. Takes(w, last, blank + digits)
  <2>1. blank \in 0 .. Len(Ahead(w))
    BY <1>1, <1>5 DEF l, s
  <2>2. Ahead(scanned) = Drop(s, blank)
    BY <1>14, <2>1, AheadLater DEF s
  <2>3. Len(Ahead(scanned)) = l - blank
    BY <1>1, <1>5, <2>2, DropIs DEF l
  <2>4. digits \in 0 .. Len(Ahead(scanned))
    BY <1>1, <1>5, <1>6, <1>11, <2>3
  <2>5. Takes(scanned, last, digits)
    BY <1>14, <2>4, TakesExactly DEF last, Takes
  <2> QED BY <1>5, <1>6, <1>14, <2>5, TakesBoth
<1> HIDE DEF answer
<1> QED BY <1>3, <1>9, <1>10, <1>11, <1>15 DEF ReadsAs, l, s, one, two

\* The formats.
FormatNames == {"a", "l", "L", "n", "0", "1", "2"}

\* What the formats that are numbers ask for.
LEMMA Counts == Count("0") = 0 /\ Count("1") = 1 /\ Count("2") = 2
<1>1. \A n \in 0 .. 2 : n = 0 \/ n = 1 \/ n = 2
  OBVIOUS
<1>2. ASSUME NEW n \in 0 .. 2
      PROVE  /\ n = 0 => <<"0", "1", "2">>[n + 1] = "0"
             /\ n = 1 => <<"0", "1", "2">>[n + 1] = "1"
             /\ n = 2 => <<"0", "1", "2">>[n + 1] = "2"
  OBVIOUS
<1>3. ASSUME NEW m \in 0 .. 2, NEW format, \A n \in 0 .. 2 : <<"0", "1", "2">>[n + 1] = format <=> n = m
      PROVE  Count(format) = m
  BY <1>3 DEF Count
<1>4. 0 \in 0 .. 2 /\ 1 \in 0 .. 2 /\ 2 \in 0 .. 2
  OBVIOUS
<1>5. \A n \in 0 .. 2 : /\ <<"0", "1", "2">>[n + 1] = "0" <=> n = 0
                        /\ <<"0", "1", "2">>[n + 1] = "1" <=> n = 1
                        /\ <<"0", "1", "2">>[n + 1] = "2" <=> n = 2
  BY <1>1, <1>2
<1> QED BY <1>3, <1>4, <1>5

\* ReadBytes answers what is there of the bytes asked for, and at the end nil; for
\* none it tells whether there is one, and takes none.
LEMMA BytesRead ==
  ASSUME NEW w \in Worlds, Aligned(w), NEW format \in {"0", "1", "2"}
  PROVE  ReadsAs(w, ReadBytes(w, Count(format)), File!ReadOne(Ahead(w), format))
<1> DEFINE s == Ahead(w)
           l == Len(s)
           n == Count(format)
           m == IF n <= l THEN n ELSE l
           one == ReadBytes(w, n)
           two == File!ReadOne(s, format)
           answer == IF s = <<>> THEN Nil ELSE SubSeq(s, 1, m)
<1>1. s \in Seq(Char) /\ l \in Nat /\ n \in Nat /\ SubSeq(s, 1, 0) = <<>>
  <2>1. s \in Seq(Char) /\ l \in Nat
    BY AheadIs
  <2>2. n \in Nat
    BY Counts
  <2>3. SubSeq(s, 1, 0) = <<>>
    BY <2>1, SubSeqEmpty
  <2> QED BY <2>1, <2>2, <2>3
<1>2. Min({n, l}) = m
  BY <1>1, MinOfTwo
<1>3. two = [answer |-> answer, used |-> m]
  BY <1>2, FileNames DEF File!ReadOne
<1>4. /\ n = 0 => one = Reading(Looked(w, 1), IF s = <<>> THEN Nil ELSE <<>>)
      /\ n # 0 => one = Reading(readAtMost(w, n), IF s = <<>> THEN Nil ELSE SubSeq(s, 1, Min({n, l})))
  BY DEF ReadBytes
<1>5. /\ one.answer = answer /\ (one.failed <=> answer = Nil)
      /\ one.world = IF n = 0 THEN Looked(w, 1) ELSE readAtMost(w, n)
  <2>1. CASE n = 0
    <3>1. m = 0
      BY <1>1, <2>1
    <3>2. answer = IF s = <<>> THEN Nil ELSE <<>>
      BY <1>1, <3>1
    <3>3. one = Reading(Looked(w, 1), answer)
      BY <1>4, <2>1, <3>2
    <3> HIDE DEF answer, one
    <3> QED BY <2>1, <3>3 DEF Reading
  <2>2. CASE n # 0
    <3>1. one = Reading(readAtMost(w, n), answer)
      BY <1>2, <1>4, <2>2
    <3> HIDE DEF answer, one
    <3> QED BY <2>2, <3>1 DEF Reading
  <2> HIDE DEF answer, one, n
  <2> QED BY <2>1, <2>2
<1>6. m \in 0 .. l
  BY <1>1
<1>7. answer \in Replies \ {<<"error">>}
  <2>1. CASE s = <<>>
    BY <2>1 DEF Nil, Replies
  <2>2. CASE s # <<>>
    <3>1. SubSeq(s, 1, m) \in Seq(Char)
      BY <1>1, <1>6
    <3> QED BY <2>2, <3>1, MarksAreNoStrings DEF Replies
  <2> QED BY <2>1, <2>2
<1>8. Takes(w, one.world, m)
  <2>1. CASE n = 0
    <3>1. m = 0 /\ 1 \in Nat
      BY <1>1, <2>1
    <3> QED BY <1>5, <2>1, <3>1, LookedIs
  <2>2. CASE n # 0
    <3>1. TakesUpTo(w, readAtMost(w, n), n)
      BY <1>1, AtMostIs
    <3>2. (m = n /\ n <= l) \/ (m = l /\ n >= l)
      BY <1>1
    <3> HIDE DEF m, n
    <3> QED BY <1>5, <2>2, <3>1, <3>2 DEF TakesUpTo
  <2> QED BY <2>1, <2>2
<1> HIDE DEF answer, one, two, m
<1>9. two.answer = answer /\ two.used = m
  BY <1>3
<1> QED BY <1>5, <1>6, <1>7, <1>8, <1>9 DEF ReadsAs, one, two

\* A format read through the buffer answers as one read from the file.
LEMMA Read1Is ==
  ASSUME NEW w \in Worlds, Aligned(w), w.file.wbuf = <<>>, Readable(w.file), NEW format \in FormatNames
  PROVE  ReadsAs(w, Read1(w, format), File!ReadOne(Ahead(w), format))
<1>1. CASE format = "a"
  <2>1. Read1(w, format) = Reading(Drained(w), Ahead(w))
    BY <1>1 DEF Read1
  <2>2. File!ReadOne(Ahead(w), format) = [answer |-> Ahead(w), used |-> Len(Ahead(w))]
    BY <1>1 DEF File!ReadOne
  <2>3. Ahead(w) \in Seq(Char) /\ Len(Ahead(w)) \in Nat
    BY AheadIs
  <2>4. Ahead(w) \in Replies \ {<<"error">>}
    BY <2>3, MarksAreNoStrings DEF Replies
  <2>5. Len(Ahead(w)) \in 0 .. Len(Ahead(w))
    BY <2>3
  <2> DEFINE s == Ahead(w)
             v == Drained(w)
             one == Reading(v, s)
             two == [answer |-> s, used |-> Len(s)]
  <2>6. Takes(w, v, Len(s))
    BY DrainedIs
  <2> HIDE DEF s, v
  <2>7. one.answer = s /\ one.world = v /\ (one.failed <=> s = Nil) /\ two.answer = s /\ two.used = Len(s)
    BY DEF Reading
  <2> HIDE DEF one, two
  <2>8. ReadsAs(w, one, two)
    BY <2>4, <2>5, <2>6, <2>7 DEF ReadsAs, s
  <2> QED BY <2>1, <2>2, <2>8 DEF one, two, s, v
<1>2. CASE format = "l"
  <2>1. Read1(w, format) = readLine(w, FALSE)
    BY <1>2 DEF Read1
  <2>2. ReadsAs(w, readLine(w, FALSE), File!ReadOne(Ahead(w), IF FALSE THEN "L" ELSE "l"))
    BY LineRead
  <2> QED BY <1>2, <2>1, <2>2
<1>3. CASE format = "L"
  <2>1. Read1(w, format) = readLine(w, TRUE)
    BY <1>3 DEF Read1
  <2>2. ReadsAs(w, readLine(w, TRUE), File!ReadOne(Ahead(w), IF TRUE THEN "L" ELSE "l"))
    BY LineRead
  <2> QED BY <1>3, <2>1, <2>2
<1>4. CASE format = "n"
  <2>1. Read1(w, format) = readNumber(w)
    BY <1>4 DEF Read1
  <2> QED BY <1>4, <2>1, NumberRead
<1>5. CASE format \in {"0", "1", "2"}
  <2>1. Read1(w, format) = ReadBytes(w, Count(format))
    BY <1>5 DEF Read1
  <2> QED BY <1>5, <2>1, BytesRead
<1> QED BY <1>1, <1>2, <1>3, <1>4, <1>5 DEF FormatNames

\* A stream that cannot read leaves everything as it is.
LEMMA Read1Refused ==
  ASSUME NEW w \in Worlds, w.file.wbuf = <<>>, ~Readable(w.file), NEW format \in FormatNames
  PROVE  LET one == Read1(w, format)
         IN  one.world = w /\ one.answer \in {Nil, <<"error">>} /\ one.failed
<1>1. WriterFlush(w) = w
  BY FlushFields
<1> QED BY <1>1 DEF Read1, Reading, Failing

\* Where the loop over the formats stands, and where the promise of it does.
Passes == [world : Worlds, answers : Seq(Replies), failed : BOOLEAN, error : BOOLEAN]
Progress == [answers : Seq(Replies), used : Nat, failed : BOOLEAN]

\* The loop that read from w has answered as promised, and stands where it should.
Agree(w, c, a) ==
  /\ c.answers = a.answers /\ (c.failed <=> a.failed) /\ ~c.error
  /\ a.used \in 0 .. Len(Ahead(w)) /\ Takes(w, c.world, a.used)

\* One pass of the loop over the formats keeps the agreement.
LEMMA NextPass ==
  ASSUME NEW w \in Worlds, Aligned(w), w.file.wbuf = <<>>, Readable(w.file),
         NEW c \in Passes, NEW a \in Progress, Agree(w, c, a), NEW format \in FormatNames
  PROVE  /\ ReadNext(c, format) \in Passes /\ File!ReadAlso(Ahead(w), a, format) \in Progress
         /\ Agree(w, ReadNext(c, format), File!ReadAlso(Ahead(w), a, format))
<1> DEFINE s == Ahead(w)
           nc == ReadNext(c, format)
           na == File!ReadAlso(s, a, format)
<1>1. /\ c.world \in Worlds /\ c.answers \in Seq(Replies) /\ c.failed \in BOOLEAN /\ c.error \in BOOLEAN
      /\ a.answers \in Seq(Replies) /\ a.used \in Nat /\ a.failed \in BOOLEAN
  BY DEF Passes, Progress
<1>2. /\ c.answers = a.answers /\ (c.failed <=> a.failed) /\ ~c.error
      /\ a.used \in 0 .. Len(s) /\ Takes(w, c.world, a.used)
  BY DEF Agree
<1>3. s \in Seq(Char) /\ Len(s) \in Nat
  BY AheadIs
<1>4. CASE c.failed
  <2> DEFINE more == Append(c.answers, Nil)
  <2>1. nc = [c EXCEPT !.answers = more]
    BY <1>4 DEF ReadNext
  <2>2. na = [a EXCEPT !.answers = more]
    BY <1>2, <1>4, FileNames DEF File!ReadAlso
  <2>3. more \in Seq(Replies)
    BY <1>1 DEF Replies
  <2> HIDE DEF more
  <2>4. nc \in Passes /\ nc.answers = more /\ nc.failed = c.failed /\ nc.error = c.error /\ nc.world = c.world
    BY <2>1, <2>3 DEF Passes
  <2>5. na \in Progress /\ na.answers = more /\ na.failed = a.failed /\ na.used = a.used
    BY <2>2, <2>3 DEF Progress
  <2> HIDE DEF nc, na
  <2> QED BY <1>2, <2>4, <2>5 DEF Agree, nc, na, s
<1>5. CASE ~c.failed
  <2> DEFINE one == Read1(c.world, format)
             two == File!ReadOne(SubSeq(s, a.used + 1, Len(s)), format)
             more == Append(c.answers, two.answer)
             far == a.used + two.used
  <2>1. Aligned(c.world) /\ c.world.file.wbuf = <<>> /\ Readable(c.world.file)
    BY <1>2 DEF Takes, Stays, Readable
  <2>2. Ahead(c.world) = SubSeq(s, a.used + 1, Len(s))
    BY <1>2, AheadLater DEF Drop
  <2>16. Ahead(c.world) = Drop(s, a.used) /\ a.used <= Len(s)
    BY <1>2, <1>3, AheadLater
  <2>3. ReadsAs(c.world, one, two)
    BY <1>1, <2>1, <2>2, Read1Is
  <2>4. Len(Ahead(c.world)) = Len(s) - a.used
    BY <1>1, <1>3, <2>16, DropIs
  <2>5. nc = [world |-> one.world, answers |-> Append(c.answers, one.answer),
              failed |-> one.failed, error |-> one.answer = <<"error">>]
    BY <1>5 DEF ReadNext
  <2>6. na = [answers |-> Append(a.answers, two.answer), used |-> far, failed |-> two.answer = Nil]
    BY <1>2, <1>5, FileNames DEF File!ReadAlso
  <2> HIDE DEF one, two
  <2>7. /\ one.answer = two.answer /\ two.answer \in Replies /\ two.answer # <<"error">>
        /\ (one.failed <=> two.answer = Nil)
        /\ two.used \in 0 .. Len(Ahead(c.world)) /\ Takes(c.world, one.world, two.used)
    BY <2>3 DEF ReadsAs
  <2>8. two.used \in Nat /\ far \in 0 .. Len(s)
    BY <1>1, <1>2, <1>3, <2>4, <2>7
  <2>9. Takes(w, one.world, far) /\ one.world \in Worlds
    BY <1>1, <1>2, <2>7, <2>8, TakesBoth DEF Takes
  <2>10. one.failed \in BOOLEAN
    BY DEF one, Read1, Reading, Failing, readLine, readNumber, ReadBytes
  <2>11. more \in Seq(Replies)
    BY <1>1, <2>7
  <2>17. Append(c.answers, one.answer) = more /\ Append(a.answers, two.answer) = more
    BY <1>2, <2>7
  <2> DEFINE wrong == one.answer = <<"error">>
             none == two.answer = Nil
  <2>18. /\ nc = [world |-> one.world, answers |-> more, failed |-> one.failed, error |-> wrong]
         /\ na = [answers |-> more, used |-> far, failed |-> none]
         /\ wrong \in BOOLEAN /\ none \in BOOLEAN /\ ~wrong /\ (one.failed <=> none)
    BY <2>5, <2>6, <2>7, <2>17
  <2> HIDE DEF far, more, wrong, none, nc, na
  <2>12. nc.world = one.world /\ nc.answers = more /\ (nc.failed <=> none) /\ ~nc.error
    BY <2>18
  <2>13. nc \in Passes
    BY <2>9, <2>10, <2>11, <2>18 DEF Passes
  <2>14. na.answers = more /\ na.used = far /\ (na.failed <=> none)
    BY <2>18
  <2>15. na \in Progress
    <3>1. far \in Nat
      BY <1>3, <2>8
    <3> QED BY <2>11, <2>18, <3>1 DEF Progress
  <2> QED BY <2>8, <2>9, <2>12, <2>13, <2>14, <2>15 DEF Agree, nc, na, s
<1> QED BY <1>1, <1>4, <1>5

\* All the formats of a read, one after another, answer as promised.
LEMMA ReadsIs ==
  ASSUME NEW w \in Worlds, Aligned(w), w.file.wbuf = <<>>, Readable(w.file), NEW formats \in Seq(FormatNames)
  PROVE  LET read == doFileReadFormats(w, formats)
             two == File!ReadFormats(Ahead(w), formats)
         IN  /\ ~read.error /\ read.answers = two.answers
             /\ two.used \in 0 .. Len(Ahead(w)) /\ Takes(w, read.world, two.used)
<1> DEFINE N == Len(formats)
           s == Ahead(w)
           x == [world |-> w, answers |-> <<>>, failed |-> FALSE, error |-> FALSE]
           y == [answers |-> <<>>, used |-> 0, failed |-> FALSE]
           C == CHOOSE f : f = [n \in 0 .. N |-> IF n = 0 THEN x ELSE ReadNext(f[n - 1], formats[n])]
           A == CHOOSE f : f = [n \in 0 .. N |-> IF n = 0 THEN y ELSE File!ReadAlso(s, f[n - 1], formats[n])]
           P == Passes \X Progress
           S == {p \in P : Agree(w, p[1], p[2])}
           F == [p \in (1 .. N) \X P |-> <<ReadNext(p[2][1], formats[p[1]]),
                                           File!ReadAlso(s, p[2][2], formats[p[1]])>>]
           G == [n \in 0 .. N |-> S]
<1>1. doFileReadFormats(w, formats) = C[N]
  BY DEF doFileReadFormats
<1>2. File!ReadFormats(s, formats) = A[N]
  BY DEF File!ReadFormats
<1>3. N \in Nat /\ N \in 0 .. N /\ \A n \in 1 .. N : formats[n] \in FormatNames /\ n \in 0 .. N /\ n - 1 \in 0 .. N
  OBVIOUS
<1>4. x \in Passes /\ y \in Progress /\ Agree(w, x, y)
  <2>1. x \in Passes /\ y \in Progress
    <3>1. <<>> \in Seq(Replies)
      OBVIOUS
    <3> QED BY <3>1 DEF Passes, Progress
  <2>2. 0 \in 0 .. Len(s)
    <3>1. Len(s) \in Nat
      BY AheadIs
    <3> QED BY <3>1
  <2> QED BY <2>1, <2>2, NoneTaken DEF Agree
<1> HIDE DEF N, x, y, s
<1>5. <<x, y>> \in S
  BY <1>4
<1>6. ASSUME NEW n \in 1 .. N, NEW u \in S
      PROVE  /\ u[1] \in Passes /\ u[2] \in Progress
             /\ F[<<n, u>>] = <<ReadNext(u[1], formats[n]), File!ReadAlso(s, u[2], formats[n])>>
             /\ F[<<n, u>>] \in S
  <2>1. u \in P /\ u[1] \in Passes /\ u[2] \in Progress /\ Agree(w, u[1], u[2])
    OBVIOUS
  <2>2. F[<<n, u>>] = <<ReadNext(u[1], formats[n]), File!ReadAlso(s, u[2], formats[n])>>
    BY <2>1
  <2>3. /\ ReadNext(u[1], formats[n]) \in Passes /\ File!ReadAlso(s, u[2], formats[n]) \in Progress
        /\ Agree(w, ReadNext(u[1], formats[n]), File!ReadAlso(s, u[2], formats[n]))
    BY <1>3, <2>1, NextPass DEF s
  <2> DEFINE a == ReadNext(u[1], formats[n])
             b == File!ReadAlso(s, u[2], formats[n])
  <2>4. <<a, b>> \in S
    <3> HIDE DEF a, b
    <3> QED BY <2>3 DEF a, b
  <2> QED BY <2>1, <2>2, <2>4
<1>7. \A n \in 0 .. N : G[n] = S
  OBVIOUS
<1>8. \A p \in S : Agree(w, p[1], p[2])
  OBVIOUS
<1> HIDE DEF S, F, G
<1>9. PICK f : IsRun(f, N, <<x, y>>, F) /\ \A n \in 0 .. N : f[n] \in G[n]
  <2>1. <<x, y>> \in G[0]
    BY <1>3, <1>5, <1>7
  <2>2. ASSUME NEW n \in 1 .. N, NEW u \in G[n - 1] PROVE F[<<n, u>>] \in G[n]
    BY <1>3, <1>6, <1>7
  <2> QED BY <1>3, <2>1, <2>2, PassesRun
<1>10. f[0] = <<x, y>> /\ \A n \in 1 .. N : f[n] = F[<<n, f[n - 1]>>]
  <2>1. f = [n \in 0 .. N |-> IF n = 0 THEN <<x, y>> ELSE F[<<n, f[n - 1]>>]]
    BY <1>9 DEF IsRun
  <2>2. 0 \in 0 .. N
    BY <1>3
  <2>3. f[0] = <<x, y>>
    BY <2>1, <2>2
  <2>4. ASSUME NEW n \in 1 .. N PROVE f[n] = F[<<n, f[n - 1]>>]
    <3>1. n \in 0 .. N /\ n # 0
      BY <1>3
    <3> QED BY <2>1, <3>1
  <2> QED BY <2>3, <2>4
<1>11. \A n \in 0 .. N : f[n] \in S
  BY <1>7, <1>9
<1> DEFINE c == [n \in 0 .. N |-> f[n][1]]
           a == [n \in 0 .. N |-> f[n][2]]
<1>12. c[0] = x /\ a[0] = y
  BY <1>3, <1>10
<1>13. ASSUME NEW n \in 1 .. N
       PROVE  c[n] = ReadNext(c[n - 1], formats[n]) /\ a[n] = File!ReadAlso(s, a[n - 1], formats[n])
  <2>1. f[n] = <<ReadNext(f[n - 1][1], formats[n]), File!ReadAlso(s, f[n - 1][2], formats[n])>>
    BY <1>3, <1>6, <1>10, <1>11
  <2>2. c[n] = f[n][1] /\ a[n] = f[n][2] /\ c[n - 1] = f[n - 1][1] /\ a[n - 1] = f[n - 1][2]
    BY <1>3
  <2> HIDE DEF c, a
  <2> QED BY <2>1, <2>2
<1>14. c = [n \in 0 .. N |-> c[n]] /\ a = [n \in 0 .. N |-> a[n]] /\ c[N] = f[N][1] /\ a[N] = f[N][2]
  BY <1>3
<1> HIDE DEF c, a
<1>15. c = [n \in 0 .. N |-> IF n = 0 THEN x ELSE ReadNext(c[n - 1], formats[n])]
  <2>1. \A n \in 0 .. N : c[n] = IF n = 0 THEN x ELSE ReadNext(c[n - 1], formats[n])
    <3> TAKE n \in 0 .. N
    <3>1. n # 0 => n \in 1 .. N
      BY <1>3
    <3> QED BY <1>12, <1>13, <3>1
  <2> QED BY <1>14, <2>1
<1>16. a = [n \in 0 .. N |-> IF n = 0 THEN y ELSE File!ReadAlso(s, a[n - 1], formats[n])]
  <2>1. \A n \in 0 .. N : a[n] = IF n = 0 THEN y ELSE File!ReadAlso(s, a[n - 1], formats[n])
    <3> TAKE n \in 0 .. N
    <3>1. n # 0 => n \in 1 .. N
      BY <1>3
    <3> QED BY <1>12, <1>13, <3>1
  <2> QED BY <1>14, <2>1
<1>17. C = [n \in 0 .. N |-> IF n = 0 THEN x ELSE ReadNext(C[n - 1], formats[n])]
  BY <1>15
<1>18. A = [n \in 0 .. N |-> IF n = 0 THEN y ELSE File!ReadAlso(s, A[n - 1], formats[n])]
  BY <1>16
<1> HIDE DEF C, A
<1>19. C[N] = c[N]
  <2> DEFINE H == [n \in 0 .. N |-> {c[n]}]
  <2>1. \A n \in 0 .. N : H[n] = {c[n]}
    OBVIOUS
  <2> HIDE DEF H
  <2>2. C[0] \in H[0]
    BY <1>3, <1>12, <1>17, <2>1
  <2>3. \A n \in 1 .. N : C[n - 1] \in H[n - 1] => C[n] \in H[n]
    <3> TAKE n \in 1 .. N
    <3>1. C[n] = ReadNext(C[n - 1], formats[n])
      BY <1>3, <1>17
    <3> QED BY <1>3, <1>13, <2>1, <3>1
  <2>4. C[N] \in H[N]
    BY <1>3, <2>2, <2>3, RunStays
  <2> QED BY <1>3, <2>1, <2>4
<1>20. A[N] = a[N]
  <2> DEFINE H == [n \in 0 .. N |-> {a[n]}]
  <2>1. \A n \in 0 .. N : H[n] = {a[n]}
    OBVIOUS
  <2> HIDE DEF H
  <2>2. A[0] \in H[0]
    BY <1>3, <1>12, <1>18, <2>1
  <2>3. \A n \in 1 .. N : A[n - 1] \in H[n - 1] => A[n] \in H[n]
    <3> TAKE n \in 1 .. N
    <3>1. A[n] = File!ReadAlso(s, A[n - 1], formats[n])
      BY <1>3, <1>18
    <3> QED BY <1>3, <1>13, <2>1, <3>1
  <2>4. A[N] \in H[N]
    BY <1>3, <2>2, <2>3, RunStays
  <2> QED BY <1>3, <2>1, <2>4
<1>21. Agree(w, C[N], A[N])
  BY <1>3, <1>8, <1>11, <1>14, <1>19, <1>20
<1> QED BY <1>1, <1>2, <1>21 DEF Agree, s, C, A

\* A stream that cannot read is not disturbed by formats.
LEMMA ReadsRefused ==
  ASSUME NEW w \in Worlds, w.file.wbuf = <<>>, ~Readable(w.file), NEW formats \in Seq(FormatNames)
  PROVE  doFileReadFormats(w, formats).world = w
<1> DEFINE N == Len(formats)
           x == [world |-> w, answers |-> <<>>, failed |-> FALSE, error |-> FALSE]
           C == CHOOSE f : f = [n \in 0 .. N |-> IF n = 0 THEN x ELSE ReadNext(f[n - 1], formats[n])]
           S == {c \in Passes : c.world = w}
           F == [p \in (1 .. N) \X Passes |-> ReadNext(p[2], formats[p[1]])]
           G == [n \in 0 .. N |-> S]
<1>1. doFileReadFormats(w, formats) = C[N]
  BY DEF doFileReadFormats
<1>2. N \in Nat /\ N \in 0 .. N /\ \A n \in 1 .. N : formats[n] \in FormatNames /\ n \in 0 .. N /\ n - 1 \in 0 .. N
  OBVIOUS
<1>3. x \in S
  <2>1. <<>> \in Seq(Replies)
    OBVIOUS
  <2> QED BY <2>1 DEF Passes
<1> HIDE DEF N, x
<1>4. ASSUME NEW n \in 1 .. N, NEW u \in S PROVE ReadNext(u, formats[n]) \in S
  <2> DEFINE one == Read1(u.world, formats[n])
             v == ReadNext(u, formats[n])
             again == Append(u.answers, Nil)
             more == Append(u.answers, one.answer)
  <2>1. u.world = w /\ u.answers \in Seq(Replies) /\ u.failed \in BOOLEAN /\ u.error \in BOOLEAN
    BY DEF Passes
  <2>2. one.world = w /\ one.answer \in {Nil, <<"error">>} /\ one.failed
    BY <1>2, <2>1, Read1Refused
  <2>3. again \in Seq(Replies) /\ more \in Seq(Replies)
    BY <2>1, <2>2 DEF Replies
  <2>4. CASE u.failed
    <3>1. v = [u EXCEPT !.answers = again]
      BY <2>4 DEF ReadNext
    <3> HIDE DEF again
    <3> QED BY <2>3, <3>1 DEF Passes
  <2>5. CASE ~u.failed
    <3>1. v = [world |-> one.world, answers |-> more, failed |-> one.failed, error |-> one.answer = <<"error">>]
      BY <2>5 DEF ReadNext
    <3>2. one.failed \in BOOLEAN
      BY DEF Read1, Reading, Failing, readLine, readNumber, ReadBytes
    <3> HIDE DEF more, one
    <3> QED BY <2>2, <2>3, <3>1, <3>2 DEF Passes
  <2> QED BY <2>1, <2>4, <2>5
<1>5. \A n \in 0 .. N : G[n] = S
  OBVIOUS
<1>6. S \subseteq Passes /\ \A c \in S : c.world = w
  OBVIOUS
<1>7. \A n \in 1 .. N : \A u \in Passes : F[<<n, u>>] = ReadNext(u, formats[n])
  OBVIOUS
<1> HIDE DEF S, F, G
<1>8. x \in G[0]
  BY <1>2, <1>3, <1>5
<1>9. PICK f : IsRun(f, N, x, F) /\ \A n \in 0 .. N : f[n] \in G[n]
  <2>1. ASSUME NEW n \in 1 .. N, NEW u \in G[n - 1] PROVE F[<<n, u>>] \in G[n]
    <3>1. u \in S /\ u \in Passes /\ G[n] = S
      BY <1>2, <1>5, <1>6
    <3> QED BY <1>4, <1>7, <3>1
  <2> QED BY <1>2, <1>8, <2>1, PassesRun
<1>10. f = [n \in 0 .. N |-> IF n = 0 THEN x ELSE ReadNext(f[n - 1], formats[n])]
  <2>1. ASSUME NEW n \in 0 .. N, n # 0 PROVE F[<<n, f[n - 1]>>] = ReadNext(f[n - 1], formats[n])
    <3>1. n \in 1 .. N
      BY <1>2, <2>1
    <3>2. f[n - 1] \in Passes
      BY <1>2, <1>5, <1>6, <1>9, <3>1
    <3> QED BY <1>7, <3>1, <3>2
  <2> QED BY <1>9, <2>1 DEF IsRun
<1>11. C = [n \in 0 .. N |-> IF n = 0 THEN x ELSE ReadNext(C[n - 1], formats[n])]
  BY <1>10
<1> HIDE DEF C
<1>12. C[0] \in G[0] /\ \A n \in 1 .. N : C[n] = ReadNext(C[n - 1], formats[n])
  BY <1>2, <1>8, <1>11
<1>13. ASSUME NEW n \in 1 .. N, C[n - 1] \in G[n - 1] PROVE C[n] \in G[n]
  <2>1. C[n - 1] \in S /\ G[n] = S
    BY <1>2, <1>5, <1>13
  <2>2. ReadNext(C[n - 1], formats[n]) \in S
    BY <1>4, <2>1
  <2> QED BY <1>12, <2>1, <2>2
<1>15. \A n \in 0 .. N : C[n] \in G[n]
  BY <1>2, <1>12, <1>13, RunStays
<1>14. C[N] \in S
  BY <1>2, <1>5, <1>15
<1> QED BY <1>1, <1>6, <1>14 DEF C

-----------------------------------------------------------------------------
(* The invariant and the steps.                                             *)

\* What the rule of stdio may allow.
Turns == {"any", "read", "write"}

\* What the rule of stdio and the buffers of an open stream keep to.
Consistent(w, t) ==
  IF w.file.closed THEN w.file.wbuf = <<>>
  ELSE /\ Aligned(w) /\ Fits(w.file)
       /\ t # "write" => w.file.wbuf = <<>>
       /\ t # "read" => w.file.rbuf = <<>>

\* The inductive invariant.
Inv ==
  /\ World \in Worlds /\ turn \in Turns
  /\ handle \in [closed : BOOLEAN, held : BOOLEAN, queued : BOOLEAN]
  /\ handle.closed => file.closed
  /\ Consistent(World, turn)

\* What the abstract file sees of a world.
Position(w) == IF w.file.closed THEN 0 ELSE Place(w)
StreamOf(w) == IF w.file.closed THEN "closed" ELSE w.file.opened

\* What the abstract file sees now.
LEMMA Views ==
  /\ WriterFlush(World).disk = Contents(World) /\ Logical = Position(World)
  /\ (IF file.closed THEN "closed" ELSE file.opened) = StreamOf(World)
  /\ World.file = file /\ World.disk = disk
BY DEF Contents, Logical, Pending, Position, Place, StreamOf, World

\* What the abstract file sees after a step to a world v.
LEMMA ViewsNext ==
  ASSUME NEW v \in Worlds, World' = v
  PROVE  /\ WriterFlush(World)'.disk = Contents(v) /\ Logical' = Position(v)
         /\ (IF file.closed THEN "closed" ELSE file.opened)' = StreamOf(v)
<1>1. file' = v.file /\ disk' = v.disk
  BY DEF World, Worlds
<1> QED BY <1>1 DEF Contents, Logical, Pending, Position, Place, StreamOf

\* A call that sets the world to v ends in v.
LEMMA WorldSet ==
  ASSUME NEW v \in Worlds, SetWorld(v)
  PROVE  World' = v
BY DEF SetWorld, World, Worlds

\* A call that leaves the file and the stream ends where it began.
LEMMA WorldStays ==
  ASSUME UNCHANGED <<disk, file>>
  PROVE  World' = World
BY DEF World

\* What stands at the position is what the reader would yield.
LEMMA RestIs ==
  ASSUME NEW w \in Worlds, ~w.file.closed, Aligned(w), w.file.wbuf = <<>>
  PROVE  /\ Contents(w) = w.disk /\ Position(w) = At(w)
         /\ SubSeq(Contents(w), Position(w) + 1, Len(Contents(w))) = Ahead(w)
<1>1. Contents(w) = w.disk
  BY FlushFields
<1>2. Position(w) = At(w)
  BY DEF Position, Place, At
<1> QED BY <1>1, <1>2, AheadIs

\* A stream that has been read from is as it should be.
LEMMA TookKeeps ==
  ASSUME NEW w \in Worlds, ~w.file.closed, Aligned(w), Fits(w.file), w.file.wbuf = <<>>,
         NEW v, NEW n \in Nat, Takes(w, v, n)
  PROVE  /\ v \in Worlds /\ Consistent(v, IF Ahead(v) = <<>> THEN "any" ELSE "read")
         /\ Contents(v) = Contents(w) /\ Position(v) = Position(w) + n /\ StreamOf(v) = StreamOf(w)
         /\ v.file.closed = w.file.closed /\ (Readable(v.file) <=> Readable(w.file))
<1>1. /\ v \in Worlds /\ Stays(w.file, v.file) /\ v.disk = w.disk /\ v.file.wbuf = <<>>
      /\ Aligned(v) /\ At(v) = At(w) + n
  BY DEF Takes
<1>2. v.file.closed = w.file.closed /\ v.file.opened = w.file.opened
  BY <1>1 DEF Stays
<1>3. Contents(v) = v.disk /\ Position(v) = At(v) /\ Contents(w) = w.disk /\ Position(w) = At(w)
  BY <1>1, <1>2, RestIs
<1>4. Fits(v.file)
  BY <1>1, EmptyFits
<1>5. Ahead(v) = <<>> => v.file.rbuf = <<>>
  <2>1. v.file.rbuf \in Seq(Char) /\ Unread(v) \in Seq(Char)
    BY <1>1, WorldFields DEF Unread
  <2> QED BY <2>1, ConcatEqualIffEmpty DEF Ahead
<1>6. Consistent(v, IF Ahead(v) = <<>> THEN "any" ELSE "read")
  BY <1>1, <1>4, <1>5 DEF Consistent
<1> QED BY <1>1, <1>2, <1>3, <1>6 DEF StreamOf, Readable

\* A stream that has been written to is as it should be.
LEMMA WroteKeeps ==
  ASSUME NEW w \in Worlds, ~w.file.closed, NEW v, NEW s, Wrote(w, v, s), Fits(v.file)
  PROVE  /\ v \in Worlds /\ Consistent(v, "write") /\ StreamOf(v) = StreamOf(w) /\ v.file.closed = w.file.closed
         /\ s = <<>> => Contents(v) = Contents(w) /\ Position(v) = Position(w)
         /\ s # <<>> => Contents(v) = Overlaid(Contents(w), Start(w), s) /\ Position(v) = Start(w) + Len(s)
<1>1. v \in Worlds /\ Stays(w.file, v.file) /\ v.file.rbuf = <<>>
  BY DEF Wrote
<1>2. v.file.closed = w.file.closed /\ v.file.opened = w.file.opened
  BY <1>1 DEF Stays
<1>3. Position(v) = Place(v) /\ Position(w) = Place(w) /\ StreamOf(v) = StreamOf(w)
  BY <1>2 DEF Position, StreamOf
<1>4. Aligned(v)
  <2>1. Len(v.file.rbuf) = 0 /\ v.file.pos \in Nat
    BY <1>1, WorldFields
  <2> QED BY <1>1, <2>1 DEF Aligned
<1> QED BY <1>1, <1>2, <1>3, <1>4 DEF Consistent, Wrote

\* A flushed stream is as it should be, and seen as it was.
LEMMA FlushKeeps ==
  ASSUME NEW w \in Worlds, ~w.file.closed, NEW t \in Turns, Consistent(w, t)
  PROVE  LET v == WriterFlush(w)
         IN  /\ v \in Worlds /\ Aligned(v) /\ Fits(v.file) /\ v.file.wbuf = <<>> /\ Stays(w.file, v.file)
             /\ t # "read" => v.file.rbuf = <<>>
             /\ Contents(v) = Contents(w) /\ Position(v) = Position(w) /\ StreamOf(v) = StreamOf(w)
<1> DEFINE v == WriterFlush(w)
<1>1. /\ v \in Worlds /\ Stays(w.file, v.file) /\ v.file.rbuf = w.file.rbuf /\ v.file.wbuf = <<>>
      /\ w.file.wbuf = <<>> => v = w
  BY FlushFields
<1>2. Fits(v.file)
  BY <1>1, EmptyFits
<1>3. Aligned(w) /\ (t # "write" => w.file.wbuf = <<>>) /\ (t # "read" => w.file.rbuf = <<>>)
  BY DEF Consistent
<1>4. CASE w.file.wbuf = <<>>
  BY <1>1, <1>2, <1>3, <1>4
<1>5. CASE w.file.wbuf # <<>>
  <2>1. t = "write" /\ w.file.rbuf = <<>>
    BY <1>3, <1>5
  <2>2. Wrote(w, v, <<>>)
    BY <2>1, FlushWrote
  <2> HIDE DEF v
  <2>3. Consistent(v, "write") /\ StreamOf(v) = StreamOf(w) /\ Contents(v) = Contents(w)
        /\ Position(v) = Position(w) /\ v.file.closed = w.file.closed
    BY <1>2, <2>2, WroteKeeps
  <2>4. Aligned(v)
    BY <2>3 DEF Consistent
  <2> QED BY <1>1, <1>2, <2>1, <2>3, <2>4 DEF v
<1> QED BY <1>4, <1>5

\* What the invariant says of the world and of the rule of stdio.
Good(v, t) == v \in Worlds /\ t \in Turns /\ Consistent(v, t)

\* The inputs are lists of formats.
LEMMA FormatsAre == \A formats \in Formats : formats \in Seq(FormatNames)
BY FileInputs DEF FormatNames

\* An open stream, seen as the file it is on.
LEMMA Seen ==
  ASSUME Inv, ~file.closed
  PROVE  /\ World \in Worlds /\ ~World.file.closed /\ World.file = file /\ World.disk = disk
         /\ Consistent(World, turn) /\ turn \in Turns
         /\ WriterFlush(World).disk = Contents(World) /\ Logical = Position(World)
         /\ Position(World) = Place(World) /\ StreamOf(World) = file.opened
BY Views DEF Inv, Position, StreamOf

\* A stream the program may read from holds nothing to be written.
LEMMA Unwritten ==
  ASSUME Inv, ~file.closed, turn # "write"
  PROVE  /\ Aligned(World) /\ Fits(World.file) /\ World.file.wbuf = <<>>
         /\ Contents(World) = World.disk /\ Position(World) = At(World)
         /\ File!Rest = Ahead(World)
<1>1. Aligned(World) /\ Fits(World.file) /\ World.file.wbuf = <<>>
  BY Seen DEF Consistent
<1>2. /\ Contents(World) = World.disk /\ Position(World) = At(World)
      /\ SubSeq(Contents(World), Position(World) + 1, Len(Contents(World))) = Ahead(World)
  BY <1>1, Seen, RestIs
<1> QED BY <1>1, <1>2, Seen DEF File!Rest

\* file:read and io.read of an open stream.
LEMMA ReadStep ==
  ASSUME Inv, ~file.closed, NEW formats \in Formats, doFileRead(formats)
  PROVE  (File!Read(formats) \/ File!Refuse) /\ Good(World', turn') /\ ~file'.closed
<1> DEFINE w == World
           read == doFileReadFormats(w, formats)
           v == read.world
           two == File!ReadFormats(Ahead(w), formats)
<1>1. turn # "write" /\ SetWorld(v) /\ AfterRead(v)
  BY DEF doFileRead
<1>2. result' = [Answer("read", formats, IF read.error THEN "error" ELSE "values") EXCEPT
                   !.values = IF read.error THEN <<>> ELSE read.answers]
  BY DEF doFileRead
<1>3. /\ w \in Worlds /\ ~w.file.closed /\ w.file = file /\ turn \in Turns /\ Consistent(w, turn)
      /\ WriterFlush(World).disk = Contents(w) /\ Logical = Position(w) /\ StreamOf(w) = file.opened
  BY Seen
<1>4. Aligned(w) /\ Fits(w.file) /\ w.file.wbuf = <<>> /\ File!Rest = Ahead(w)
  BY <1>1, Unwritten
<1>5. formats \in Seq(FormatNames)
  BY FormatsAre
<1>6. /\ result'.op = "read" /\ result'.arg = formats
      /\ result'.kind = IF read.error THEN "error" ELSE "values"
      /\ ~read.error => result'.values = read.answers
  BY <1>2 DEF Answer
<1> HIDE DEF w
<1>7. CASE Readable(file)
  <2>1. ~read.error /\ read.answers = two.answers /\ two.used \in 0 .. Len(Ahead(w)) /\ Takes(w, v, two.used)
    BY <1>3, <1>4, <1>5, <1>7, ReadsIs
  <2> HIDE DEF read, v, two
  <2>2. two.used \in Nat
    BY <1>3, <1>4, <2>1, AheadIs
  <2>3. /\ v \in Worlds /\ Consistent(v, IF Ahead(v) = <<>> THEN "any" ELSE "read")
        /\ Contents(v) = Contents(w) /\ Position(v) = Position(w) + two.used /\ StreamOf(v) = StreamOf(w)
        /\ ~v.file.closed /\ Readable(v.file)
    BY <1>3, <1>4, <1>7, <2>1, <2>2, TookKeeps
  <2>4. World' = v /\ file' = v.file
    BY <1>1, <2>3, WorldSet DEF SetWorld
  <2>5. turn' = IF Ahead(v) = <<>> THEN "any" ELSE "read"
    BY <1>1, <2>3 DEF AfterRead
  <2>6. Good(World', turn') /\ ~file'.closed
    BY <2>3, <2>4, <2>5 DEF Good, Turns
  <2>7. /\ WriterFlush(World)'.disk = Contents(v) /\ Logical' = Position(v)
        /\ (IF file.closed THEN "closed" ELSE file.opened)' = StreamOf(v)
    BY <2>3, <2>4, ViewsNext
  <2>8. /\ result'.op = "read" /\ result'.kind = "values" /\ result'.arg = formats
        /\ result'.values = File!ReadFormats(Ahead(w), formats).answers
    BY <1>6, <2>1 DEF two
  <2>9. Logical' = Logical + File!ReadFormats(Ahead(w), formats).used
    BY <1>3, <2>3, <2>7 DEF two
  <2>10. /\ WriterFlush(World)'.disk = WriterFlush(World).disk
         /\ (IF file.closed THEN "closed" ELSE file.opened)' = (IF file.closed THEN "closed" ELSE file.opened)
    BY <1>3, <2>3, <2>7
  <2>11. File!CanRead(IF file.closed THEN "closed" ELSE file.opened)
    BY <1>7 DEF Readable, File!CanRead
  <2>12. File!Read(formats)
    BY <1>4, <2>8, <2>9, <2>10, <2>11 DEF File!Read, File!Answers
  <2> QED BY <2>6, <2>12
<1>8. CASE ~Readable(file)
  <2>1. v = w
    BY <1>3, <1>4, <1>5, <1>8, ReadsRefused
  <2>2. result'.op = "read" /\ result'.kind \in {"error", "values"}
    BY <1>6
  <2> HIDE DEF read, v, two
  <2>3. World' = w /\ file' = file
    BY <1>1, <1>3, <2>1, WorldSet DEF SetWorld
  <2>4. turn' = turn
    BY <1>1, <1>3, <1>8, <2>1 DEF AfterRead
  <2>5. Good(World', turn') /\ ~file'.closed
    BY <1>3, <2>3, <2>4 DEF Good
  <2>6. /\ WriterFlush(World)'.disk = Contents(w) /\ Logical' = Position(w)
        /\ (IF file.closed THEN "closed" ELSE file.opened)' = StreamOf(w)
    BY <1>3, <2>3, ViewsNext
  <2>7. UNCHANGED <<WriterFlush(World).disk, Logical, IF file.closed THEN "closed" ELSE file.opened>>
    BY <1>3, <2>6
  <2>8. ~File!CanRead(IF file.closed THEN "closed" ELSE file.opened)
    BY <1>8 DEF Readable, File!CanRead
  <2>9. File!Refuse
    BY <2>2, <2>7, <2>8 DEF File!Refuse
  <2> QED BY <2>5, <2>9
<1> QED BY <1>7, <1>8

\* file:write and io.write of an open stream.
LEMMA WriteStep ==
  ASSUME Inv, ~file.closed, NEW strings \in Writes, doFileWrite(strings)
  PROVE  (File!Write(strings) \/ File!Refuse) /\ Good(World', turn') /\ ~file'.closed
<1> DEFINE w == World
           v == WriteAll(w, strings)
           s == FlattenSeq(strings)
<1>1. /\ turn # "read"
      /\ Writable(file) => SetWorld(v) /\ turn' = "write" /\ result' = Answer("write", strings, "handle")
      /\ ~Writable(file) => result' = Answer("write", strings, "error") /\ UNCHANGED <<disk, file, turn>>
  BY DEF doFileWrite
<1>2. /\ w \in Worlds /\ ~w.file.closed /\ w.file = file /\ turn \in Turns /\ Consistent(w, turn)
      /\ WriterFlush(World).disk = Contents(w) /\ Logical = Position(w) /\ StreamOf(w) = file.opened
      /\ Position(w) = Place(w)
  BY Seen
<1>3. w.file.rbuf = <<>> /\ Fits(w.file)
  BY <1>1, <1>2 DEF Consistent
<1>4. strings \in Seq(Seq(Char))
  BY FileInputs
<1> HIDE DEF w
<1>5. CASE Writable(file)
  <2>1. Wrote(w, v, s) /\ Fits(v.file) /\ s \in Seq(Char)
    BY <1>2, <1>3, <1>4, WriteAllIs
  <2> HIDE DEF v
  <2>2. FlattenSeq(strings) = s /\ File!FlattenSeq(strings) = s
    BY FileNames
  <2> HIDE DEF s
  <2>3. /\ v \in Worlds /\ Consistent(v, "write") /\ StreamOf(v) = StreamOf(w) /\ ~v.file.closed
        /\ s = <<>> => Contents(v) = Contents(w) /\ Position(v) = Position(w)
        /\ s # <<>> => Contents(v) = Overlaid(Contents(w), Start(w), s) /\ Position(v) = Start(w) + Len(s)
    BY <1>2, <2>1, WroteKeeps
  <2>4. World' = v /\ file' = v.file /\ turn' = "write"
    BY <1>1, <1>5, <2>3, WorldSet DEF SetWorld
  <2>5. Good(World', turn') /\ ~file'.closed
    BY <2>3, <2>4 DEF Good, Turns
  <2>6. /\ WriterFlush(World)'.disk = Contents(v) /\ Logical' = Position(v)
        /\ (IF file.closed THEN "closed" ELSE file.opened)' = StreamOf(v)
    BY <2>3, <2>4, ViewsNext
  <2>7. result'.op = "write" /\ result'.kind = "handle" /\ result'.arg = strings
    BY <1>1, <1>5 DEF Answer
  <2>8. /\ File!CanWrite(IF file.closed THEN "closed" ELSE file.opened)
        /\ File!Appends(IF file.closed THEN "closed" ELSE file.opened) <=> Appending(w.file)
    BY <1>2, <1>5 DEF Writable, Appending, File!CanWrite, File!Appends
  <2> DEFINE at == IF Appending(w.file) /\ s # <<>> THEN Len(Contents(w)) ELSE Position(w)
  <2>9. s # <<>> => at = Start(w)
    BY <1>2 DEF Start
  <2>10. Position(w) \in Nat
    BY <1>2, <1>3, StartIs
  <2>11. Position(v) = at + Len(s)
    <3>1. CASE s = <<>>
      <4>1. Len(s) = 0 /\ at = Position(w)
        BY <3>1
      <4> QED BY <2>3, <2>10, <3>1, <4>1
    <3>2. CASE s # <<>>
      BY <2>3, <2>9, <3>2
    <3> QED BY <3>1, <3>2
  <2>12. Contents(v) = IF s = <<>> THEN Contents(w) ELSE Overlaid(Contents(w), at, s)
    BY <2>3, <2>9
  <2>13. File!Write(strings)
    <3>1. at = IF File!Appends(IF file.closed THEN "closed" ELSE file.opened) /\ s # <<>>
               THEN Len(WriterFlush(World).disk) ELSE Logical
      BY <1>2, <2>8
    <3> HIDE DEF at
    <3>2. /\ Logical' = at + Len(s)
          /\ WriterFlush(World)'.disk = IF s = <<>> THEN WriterFlush(World).disk
                                        ELSE File!Overlaid(WriterFlush(World).disk, at, s)
      BY <1>2, <2>6, <2>11, <2>12, FileNames
    <3>3. (IF file.closed THEN "closed" ELSE file.opened)' = (IF file.closed THEN "closed" ELSE file.opened)
      BY <1>2, <2>3, <2>6
    <3> QED BY <2>2, <2>7, <2>8, <3>1, <3>2, <3>3 DEF File!Write, File!Answers
  <2> QED BY <2>5, <2>13
<1>6. CASE ~Writable(file)
  <2>1. World' = w /\ file' = file /\ turn' = turn
    BY <1>1, <1>6, WorldStays DEF w
  <2>2. Good(World', turn') /\ ~file'.closed
    BY <1>2, <2>1 DEF Good
  <2>3. /\ WriterFlush(World)'.disk = Contents(w) /\ Logical' = Position(w)
        /\ (IF file.closed THEN "closed" ELSE file.opened)' = StreamOf(w)
    BY <1>2, <2>1, ViewsNext
  <2>4. UNCHANGED <<WriterFlush(World).disk, Logical, IF file.closed THEN "closed" ELSE file.opened>>
    BY <1>2, <2>3
  <2>5. result'.op = "write" /\ result'.kind = "error"
    BY <1>1, <1>6 DEF Answer
  <2>6. ~File!CanWrite(IF file.closed THEN "closed" ELSE file.opened)
    BY <1>6 DEF Writable, File!CanWrite
  <2>7. File!Refuse
    BY <2>4, <2>5, <2>6 DEF File!Refuse, File!Answers
  <2> QED BY <2>2, <2>7
<1> QED BY <1>5, <1>6

\* A call that leaves the contents, the position and the stream as they are.
Unseen == UNCHANGED <<WriterFlush(World).disk, Logical, IF file.closed THEN "closed" ELSE file.opened>>

\* A step between two worlds that look the same is not seen.
LEMMA UnseenIs ==
  ASSUME NEW v \in Worlds, World' = v,
         Contents(v) = Contents(World), Position(v) = Position(World), StreamOf(v) = StreamOf(World)
  PROVE  Unseen
BY Views, ViewsNext DEF Unseen

\* A call that touches neither the file nor the stream.
LEMMA Untouched ==
  ASSUME Inv, UNCHANGED <<disk, file>>
  PROVE  Unseen /\ World' = World
<1>1. World' = World /\ World \in Worlds
  BY WorldStays DEF Inv
<1> QED BY <1>1, UnseenIs

\* The reader is emptied, and the position is p.
LEMMA PlacedAt ==
  ASSUME NEW w \in Worlds, ~w.file.closed, w.file.wbuf = <<>>, NEW p \in Nat
  PROVE  LET v == Reached(w, <<>>, p)
         IN  /\ v \in Worlds /\ Consistent(v, "any") /\ ~v.file.closed
             /\ Contents(v) = Contents(w) /\ Position(v) = p /\ StreamOf(v) = StreamOf(w)
<1> DEFINE v == Reached(w, <<>>, p)
<1>1. <<>> \in Seq(Char) /\ Len(<<>>) = 0
  OBVIOUS
<1>2. /\ v \in Worlds /\ Stays(w.file, v.file) /\ v.disk = w.disk
      /\ v.file.wbuf = <<>> /\ v.file.rbuf = <<>> /\ v.file.pos = p
  <2> DEFINE b == <<>>
  <2>1. b \in Seq(Char)
    OBVIOUS
  <2>2. b = <<>>
    OBVIOUS
  <2> HIDE DEF b
  <2>3. LET u == Reached(w, b, p)
        IN  /\ u \in Worlds /\ Stays(w.file, u.file) /\ u.disk = w.disk
            /\ u.file.wbuf = w.file.wbuf /\ u.file.rbuf = b /\ u.file.pos = p
    BY <2>1, WithReader
  <2> QED BY <2>2, <2>3
<1> HIDE DEF v
<1>3. v.file.closed = w.file.closed /\ v.file.opened = w.file.opened
  BY <1>2 DEF Stays
<1>4. Contents(v) = v.disk /\ Contents(w) = w.disk
  BY <1>2, FlushFields
<1>5. Place(v) = p
  BY <1>1, <1>2 DEF Place
<1>6. Aligned(v)
  BY <1>1, <1>2 DEF Aligned
<1>7. Fits(v.file)
  BY <1>2, EmptyFits
<1> QED BY <1>2, <1>3, <1>4, <1>5, <1>6, <1>7 DEF v, Consistent, Position, StreamOf

\* file:seek of an open stream.
LEMMA SeekStep ==
  ASSUME Inv, ~file.closed, NEW whence \in {"set", "cur", "end"}, NEW offset \in Offsets,
         handle.held, Live, fileSeek(whence, offset)
  PROVE  (File!Seek(whence, offset) \/ File!Refuse) /\ Good(World', turn') /\ ~file'.closed
<1> DEFINE w == World
           f == WriterFlush(w)
           base == CASE whence = "set" -> 0 [] whence = "cur" -> f.file.pos [] whence = "end" -> Len(f.disk)
           p == base + offset - (IF whence = "cur" THEN Len(f.file.rbuf) ELSE 0)
           v == IF p < 0 THEN f ELSE Reached(f, <<>>, p)
           s == SeekTo(w, whence, offset)
           q == File!Target(whence, offset)
<1>1. /\ w \in Worlds /\ ~w.file.closed /\ w.file = file /\ turn \in Turns /\ Consistent(w, turn)
      /\ WriterFlush(World).disk = Contents(w) /\ Logical = Position(w) /\ StreamOf(w) = file.opened
      /\ Position(w) = Place(w)
  BY Seen
<1>2. s.at = p /\ s.world = v
  BY DEF SeekTo, Reached
<1>3. /\ SetWorld(s.world)
      /\ s.at < 0 => result' = Answer("seek", <<whence, offset>>, "error") /\ UNCHANGED turn
      /\ ~(s.at < 0) => /\ result' = [Answer("seek", <<whence, offset>>, "position") EXCEPT !.at = s.at]
                        /\ turn' = "any"
  BY DEF fileSeek
<1> HIDE DEF w, s
<1>4. /\ f \in Worlds /\ Aligned(f) /\ Fits(f.file) /\ f.file.wbuf = <<>> /\ Stays(w.file, f.file)
      /\ turn # "read" => f.file.rbuf = <<>>
      /\ Contents(f) = Contents(w) /\ Position(f) = Position(w) /\ StreamOf(f) = StreamOf(w)
  BY <1>1, FlushKeeps
<1>5. f.disk = Contents(w) /\ ~f.file.closed
  BY <1>1, <1>4, FlushFields DEF Stays
<1>6. Position(w) = f.file.pos - Len(f.file.rbuf) /\ f.file.pos \in Nat /\ Len(f.file.rbuf) \in Nat
      /\ Len(Contents(w)) \in Nat
  <2>1. Position(f) = f.file.pos - Len(f.file.rbuf)
    BY <1>4, <1>5 DEF Position, Place
  <2> QED BY <1>4, <1>5, <2>1, WorldFields
<1>7. offset \in Int
  BY FileInputs
<1>8. p = q /\ p \in Int
  <2>1. q = offset + (CASE whence = "set" -> 0 [] whence = "cur" -> Position(w) [] whence = "end" -> Len(Contents(w)))
    BY <1>1 DEF File!Target
  <2> HIDE DEF q
  <2>2. CASE whence = "set"
    <3>1. p = 0 + offset - 0
      BY <2>2
    <3>2. q = offset + 0
      BY <2>1, <2>2
    <3> HIDE DEF p
    <3> QED BY <1>7, <3>1, <3>2
  <2>3. CASE whence = "cur"
    <3>1. p = f.file.pos + offset - Len(f.file.rbuf)
      BY <2>3
    <3>2. q = offset + Position(w)
      BY <2>1, <2>3
    <3> HIDE DEF p, f
    <3> QED BY <1>6, <1>7, <3>1, <3>2
  <2>4. CASE whence = "end"
    <3>1. p = Len(f.disk) + offset - 0
      BY <2>4
    <3>2. q = offset + Len(Contents(w))
      BY <2>1, <2>4
    <3> HIDE DEF p, f
    <3> QED BY <1>5, <1>6, <1>7, <3>1, <3>2
  <2> QED BY <2>2, <2>3, <2>4
<1> HIDE DEF p, q, f
<1>9. CASE p < 0
  <2>1. v = f
    BY <1>9
  <2>2. World' = f /\ file' = f.file /\ turn' = turn
    BY <1>2, <1>3, <1>4, <1>9, <2>1, WorldSet DEF SetWorld
  <2>3. Unseen
    BY <1>4, <2>2, UnseenIs DEF w
  <2>4. Consistent(f, turn)
    BY <1>4, <1>5 DEF Consistent
  <2>5. result'.op = "seek" /\ result'.kind = "error" /\ result'.arg = <<whence, offset>>
    BY <1>2, <1>3, <1>9 DEF Answer
  <2>6. result'.arg[1] = whence /\ result'.arg[2] = offset
    BY <2>5
  <2>7. File!Target(result'.arg[1], result'.arg[2]) < 0
    BY <1>8, <1>9, <2>6 DEF q
  <2>8. File!Refuse
    BY <2>3, <2>5, <2>7 DEF Unseen, File!Refuse, File!Answers
  <2> QED BY <1>1, <1>4, <1>5, <2>2, <2>4, <2>8 DEF Good
<1>10. CASE ~(p < 0)
  <2>1. v = Reached(f, <<>>, p) /\ p \in Nat
    BY <1>8, <1>10
  <2> HIDE DEF v
  <2>2. /\ v \in Worlds /\ Consistent(v, "any") /\ ~v.file.closed
        /\ Contents(v) = Contents(f) /\ Position(v) = p /\ StreamOf(v) = StreamOf(f)
    BY <1>4, <1>5, <2>1, PlacedAt
  <2>3. World' = v /\ file' = v.file /\ turn' = "any"
    BY <1>2, <1>3, <1>10, <2>2, WorldSet DEF SetWorld
  <2>4. /\ WriterFlush(World)'.disk = Contents(v) /\ Logical' = Position(v)
        /\ (IF file.closed THEN "closed" ELSE file.opened)' = StreamOf(v)
    BY <2>2, <2>3, ViewsNext
  <2>5. /\ result'.op = "seek" /\ result'.kind = "position" /\ result'.arg = <<whence, offset>>
        /\ result'.at = p
    BY <1>2, <1>3, <1>10 DEF Answer
  <2>6. /\ WriterFlush(World)'.disk = WriterFlush(World).disk
        /\ (IF file.closed THEN "closed" ELSE file.opened)' = (IF file.closed THEN "closed" ELSE file.opened)
    BY <1>1, <1>4, <2>2, <2>4
  <2>7. (IF file.closed THEN "closed" ELSE file.opened) # File!NoStream
    BY <1>1, WorldFields DEF File!NoStream, Streams
  <2>8. p = File!Target(whence, offset) /\ p >= 0 /\ Logical' = p
    BY <1>8, <1>10, <2>2, <2>4 DEF q
  <2>9. File!Seek(whence, offset)
    BY <2>5, <2>6, <2>7, <2>8 DEF File!Seek, File!Answers
  <2> QED BY <2>2, <2>3, <2>9 DEF Good, Turns
<1> QED BY <1>8, <1>9, <1>10

\* file:flush and io.flush of an open stream.
LEMMA FlushStep ==
  ASSUME Inv, ~file.closed, Flush
  PROVE  File!Refuse /\ Good(World', turn') /\ ~file'.closed
<1> DEFINE w == World
           v == WriterFlush(w)
<1>1. /\ w \in Worlds /\ ~w.file.closed /\ w.file = file /\ turn \in Turns /\ Consistent(w, turn)
  BY Seen
<1>2. SetWorld(v) /\ result' = Answer("buffer", <<>>, "true") /\ turn' = IF turn = "write" THEN "any" ELSE turn
  BY DEF Flush
<1>3. /\ v \in Worlds /\ Aligned(v) /\ Fits(v.file) /\ v.file.wbuf = <<>> /\ Stays(w.file, v.file)
      /\ turn # "read" => v.file.rbuf = <<>>
      /\ Contents(v) = Contents(w) /\ Position(v) = Position(w) /\ StreamOf(v) = StreamOf(w)
  BY <1>1, FlushKeeps
<1>4. World' = v /\ file' = v.file
  BY <1>2, <1>3, WorldSet DEF SetWorld
<1>5. Unseen
  BY <1>3, <1>4, UnseenIs
<1> HIDE DEF w, v
<1>6. ~v.file.closed /\ turn' \in Turns /\ (turn' # "read" => v.file.rbuf = <<>>)
  BY <1>1, <1>2, <1>3 DEF Stays, Turns
<1>7. Consistent(v, turn')
  BY <1>3, <1>6 DEF Consistent
<1>8. result'.op = "buffer" /\ result'.kind = "true"
  BY <1>2 DEF Answer
<1>9. File!Refuse
  BY <1>5, <1>8 DEF Unseen, File!Refuse, File!Answers
<1> QED BY <1>3, <1>4, <1>6, <1>7, <1>9 DEF Good

\* file:setvbuf of an open stream.
LEMMA SetVBufStep ==
  ASSUME Inv, ~file.closed, NEW mode \in {"no", "full", "line"}, NEW size \in Buffers,
         SetWorld(Buffering(World, mode, size)), result' = Answer("buffer", <<>>, "true"), UNCHANGED turn
  PROVE  File!Refuse /\ Good(World', turn') /\ ~file'.closed
<1> DEFINE w == World
           f == WriterFlush(w)
           n == IF mode = "no" THEN WriteBuf ELSE VBufSize(size)
           g == [f.file EXCEPT !.bufMode = mode, !.size = n]
           v == Buffering(w, mode, size)
<1>1. /\ w \in Worlds /\ ~w.file.closed /\ w.file = file /\ turn \in Turns /\ Consistent(w, turn)
  BY Seen
<1>2. /\ f \in Worlds /\ Aligned(f) /\ Fits(f.file) /\ f.file.wbuf = <<>> /\ Stays(w.file, f.file)
      /\ turn # "read" => f.file.rbuf = <<>>
      /\ Contents(f) = Contents(w) /\ Position(f) = Position(w) /\ StreamOf(f) = StreamOf(w)
  BY <1>1, FlushKeeps
<1>3. n \in Nat \ {0}
  <2>1. WriteBuf \in Nat \ {0} /\ MaxVBuf \in Nat \ {0} /\ size \in Int
    BY BufferSizes
  <2>2. CASE mode = "no" \/ size <= 0
    BY <2>1, <2>2 DEF VBufSize
  <2>3. CASE ~(mode = "no") /\ ~(size <= 0)
    <3>1. n = Min({size, MaxVBuf})
      BY <2>3 DEF VBufSize
    <3>2. Min({size, MaxVBuf}) = IF size <= MaxVBuf THEN size ELSE MaxVBuf
      BY <2>1, MinOfTwo
    <3> HIDE DEF n
    <3> QED BY <2>1, <2>3, <3>1, <3>2
  <2> QED BY <2>2, <2>3
<1>4. v = [f EXCEPT !.file.bufMode = mode, !.file.size = n]
  BY DEF Buffering
<1> HIDE DEF n, f, w, v
<1>5. v = [f EXCEPT !.file = g]
  BY <1>2, <1>4 DEF Worlds
<1>6. /\ g \in Stream /\ g.wbuf = f.file.wbuf /\ g.rbuf = f.file.rbuf /\ g.pos = f.file.pos
      /\ g.closed = f.file.closed /\ g.opened = f.file.opened
  BY <1>2, <1>3 DEF Worlds, Stream
<1> HIDE DEF g
<1>7. v \in Worlds /\ v.disk = f.disk /\ v.file = g
  BY <1>2, <1>5, <1>6 DEF Worlds
<1>8. World' = v /\ file' = v.file
  BY <1>7, WorldSet DEF SetWorld, v, w
<1>9. Contents(v) = v.disk /\ Contents(f) = f.disk
  BY <1>2, <1>6, <1>7, FlushFields
<1>10. Position(v) = Position(f) /\ StreamOf(v) = StreamOf(f)
  BY <1>2, <1>6, <1>7 DEF Position, Place, StreamOf
<1>11. Aligned(v) /\ Fits(v.file) /\ ~v.file.closed
  <2>1. Aligned(v)
    BY <1>2, <1>6, <1>7 DEF Aligned, At
  <2>2. Fits(v.file)
    BY <1>2, <1>6, <1>7, EmptyFits
  <2> QED BY <1>1, <1>2, <1>6, <1>7, <2>1, <2>2 DEF Stays
<1>12. Consistent(v, turn)
  BY <1>2, <1>6, <1>7, <1>11 DEF Consistent
<1>13. Unseen
  <2>1. Contents(v) = Contents(w) /\ Position(v) = Position(w) /\ StreamOf(v) = StreamOf(w)
    BY <1>2, <1>7, <1>9, <1>10
  <2> QED BY <1>7, <1>8, <2>1, UnseenIs DEF w
<1>14. result'.op = "buffer" /\ result'.kind = "true"
  BY DEF Answer
<1>15. File!Refuse
  BY <1>13, <1>14 DEF Unseen, File!Refuse, File!Answers
<1> QED BY <1>1, <1>7, <1>8, <1>11, <1>12, <1>15 DEF Good

\* Whoever closes the stream: what was written is in the file, and no stream is left.
LEMMA ClosedIs ==
  ASSUME Inv, NEW u \in Worlds, ~u.file.closed, Contents(u) = Contents(World), SetWorld(Closed(u)), NEW t
  PROVE  /\ WriterFlush(World)'.disk = WriterFlush(World).disk /\ Logical' = 0
         /\ (IF file.closed THEN "closed" ELSE file.opened)' = "closed"
         /\ World' \in Worlds /\ Consistent(World', t) /\ file'.closed
<1> DEFINE f == WriterFlush(u)
           g == [f.file EXCEPT !.closed = TRUE]
           v == Closed(u)
<1>1. f \in Worlds /\ f.file.wbuf = <<>> /\ f.disk = Contents(u)
  BY FlushFields
<1>2. v = [f EXCEPT !.file.closed = TRUE]
  BY DEF Closed
<1> HIDE DEF f, v
<1>3. v = [f EXCEPT !.file = g]
  BY <1>1, <1>2 DEF Worlds
<1>4. g \in Stream /\ g.wbuf = <<>> /\ g.closed
  BY <1>1 DEF Worlds, Stream
<1> HIDE DEF g
<1>5. v \in Worlds /\ v.disk = f.disk /\ v.file = g
  BY <1>1, <1>3, <1>4 DEF Worlds
<1>6. World' = v /\ file' = v.file
  BY <1>5, WorldSet DEF SetWorld, v
<1>7. Contents(v) = v.disk
  BY <1>4, <1>5, FlushFields
<1>8. /\ WriterFlush(World)'.disk = Contents(v) /\ Logical' = Position(v)
      /\ (IF file.closed THEN "closed" ELSE file.opened)' = StreamOf(v)
  BY <1>5, <1>6, ViewsNext
<1>9. Position(v) = 0 /\ StreamOf(v) = "closed" /\ Consistent(v, t)
  BY <1>4, <1>5 DEF Position, StreamOf, Consistent
<1> QED BY <1>1, <1>4, <1>5, <1>6, <1>7, <1>8, <1>9, Views

\* An open stream is closed by a call that says so, or by one that says nothing.
LEMMA CloseStep ==
  ASSUME Inv, ~file.closed, SetWorld(Closed(World)),
         (result'.op = "close" /\ result'.kind = "true") \/ result' = result
  PROVE  File!Close /\ World' \in Worlds /\ Consistent(World', turn') /\ file'.closed
<1>1. /\ WriterFlush(World)'.disk = WriterFlush(World).disk /\ Logical' = 0
      /\ (IF file.closed THEN "closed" ELSE file.opened)' = "closed"
      /\ World' \in Worlds /\ Consistent(World', turn') /\ file'.closed
  BY Seen, ClosedIs
<1>2. (IF file.closed THEN "closed" ELSE file.opened) # File!NoStream
  BY Seen, WorldFields DEF File!NoStream, Streams
<1>3. File!Close
  BY <1>1, <1>2 DEF File!Close, File!Answers, File!NoStream
<1> QED BY <1>1, <1>3

\* A stream is opened, by whatever call.
LEMMA OpenStep ==
  ASSUME Inv, file.closed, NEW mode \in Modes, OpenFile(mode), result' = Answer("open", mode, "handle")
  PROVE  File!Open(mode) /\ Good(World', turn') /\ ~file'.closed
<1> DEFINE d == IF mode \in {"w", "w+"} THEN <<>> ELSE disk
           p == IF mode = "a" THEN Len(d) ELSE 0
           g == NewFile(mode, d)
           v == [disk |-> d, file |-> g]
<1>1. World \in Worlds /\ World.disk = disk /\ World.file = file /\ file.wbuf = <<>>
  BY Views DEF Inv, Consistent
<1>2. disk \in Seq(Char) /\ WriterFlush(World).disk = disk
  BY <1>1, Views, FlushFields, WorldFields
<1>3. d \in Seq(Char) /\ p \in Nat /\ p = IF mode = "a" THEN Len(disk) ELSE 0
  <2>1. <<>> \in Seq(Char)
    OBVIOUS
  <2>2. d \in Seq(Char)
    BY <1>2, <2>1
  <2>3. mode = "a" => d = disk
    OBVIOUS
  <2> HIDE DEF d
  <2>4. Len(d) \in Nat
    BY <2>2
  <2> QED BY <2>2, <2>3, <2>4
<1>4. disk' = d /\ file' = g /\ turn' = "any"
  BY DEF OpenFile
<1>5. mode \in Streams /\ WriteBuf \in Nat \ {0}
  BY FileInputs, BufferSizes DEF Streams
<1>6. g = [closed |-> FALSE, opened |-> mode, bufMode |-> "full", size |-> WriteBuf,
           pos |-> p, rbuf |-> <<>>, wbuf |-> <<>>]
  BY DEF NewFile
<1>7. d = IF mode \in {"w", "w+"} THEN <<>> ELSE disk
  OBVIOUS
<1> HIDE DEF d, p, g
<1>8. /\ g \in Stream /\ ~g.closed /\ g.opened = mode /\ g.pos = p /\ g.rbuf = <<>> /\ g.wbuf = <<>>
  <2>1. <<>> \in Seq(Char)
    OBVIOUS
  <2> QED BY <1>3, <1>5, <1>6, <2>1 DEF Stream
<1>9. v \in Worlds /\ v.disk = d /\ v.file = g
  BY <1>3, <1>8 DEF Worlds
<1> HIDE DEF v
<1>10. World' = v
  BY <1>4 DEF World, v
<1>11. /\ WriterFlush(World)'.disk = Contents(v) /\ Logical' = Position(v)
       /\ (IF file.closed THEN "closed" ELSE file.opened)' = StreamOf(v)
  BY <1>9, <1>10, ViewsNext
<1>12. Len(<<>>) = 0
  OBVIOUS
<1>13. Contents(v) = d /\ Position(v) = p /\ StreamOf(v) = mode
  <2>1. Contents(v) = v.disk
    BY <1>8, <1>9, FlushFields
  <2>2. Place(v) = p - 0
    BY <1>8, <1>9, <1>12 DEF Place
  <2> QED BY <1>3, <1>8, <1>9, <2>1, <2>2 DEF Position, StreamOf
<1>14. Good(World', turn')
  <2>1. Aligned(v)
    BY <1>3, <1>8, <1>9, <1>12 DEF Aligned
  <2>2. Fits(v.file)
    BY <1>8, <1>9, EmptyFits
  <2> QED BY <1>4, <1>8, <1>9, <1>10, <2>1, <2>2 DEF Good, Consistent, Turns
<1>15. (IF file.closed THEN "closed" ELSE file.opened) = File!NoStream
  BY DEF File!NoStream
<1>16. result'.op = "open" /\ result'.kind = "handle" /\ result'.arg = mode
  BY DEF Answer
<1>17. File!Open(mode)
  BY <1>2, <1>3, <1>7, <1>11, <1>13, <1>15, <1>16 DEF File!Open, File!Answers, File!Truncates
<1> QED BY <1>4, <1>8, <1>14, <1>17

\* What a line read from s answers.
LEMMA LineAnswers ==
  ASSUME NEW s \in Seq(Char)
  PROVE  LET one == File!ReadOne(s, "l")
         IN  (one.answer = Nil <=> s = <<>>) /\ (s = <<>> => one.used = 0)
<1>1. CASE s = <<>>
  BY <1>1, FileNames DEF File!ReadOne
<1>2. CASE s # <<>>
  <2>1. File!ReadOne(s, "l").answer = SubSeq(s, 1, File!LineLength(s))
    BY <1>2 DEF File!ReadOne
  <2> DEFINE ends == {i \in DOMAIN s : s[i] = Newline}
             n == IF ends = {} THEN Len(s) ELSE Min(ends)
  <2>2. n \in 1 .. Len(s) /\ File!LineLength(s) = IF ends = {} THEN n ELSE n - 1
    BY <1>2, LineIs
  <2> HIDE DEF n
  <2>3. File!LineLength(s) \in 0 .. Len(s)
    BY <2>2
  <2>4. SubSeq(s, 1, File!LineLength(s)) \in Seq(Char)
    BY <2>3
  <2> QED BY <1>2, <2>1, <2>4, MarksAreNoStrings
<1> QED BY <1>1, <1>2

\* A read with one format is a read of that.
LEMMA OneFormat ==
  ASSUME NEW s, NEW format
  PROVE  LET read == File!ReadFormats(s, <<format>>)
             one == File!ReadOne(SubSeq(s, 1, Len(s)), format)
         IN  read.answers = <<one.answer>> /\ read.used = 0 + one.used
<1> DEFINE y == [answers |-> <<>>, used |-> 0, failed |-> FALSE]
           z == File!ReadAlso(s, y, format)
           A == CHOOSE f : f = [n \in 0 .. Len(<<format>>) |-> IF n = 0 THEN y ELSE File!ReadAlso(s, f[n - 1], <<format>>[n])]
           B == CHOOSE f : f = [n \in 0 .. 1 |-> IF n = 0 THEN y ELSE File!ReadAlso(s, f[n - 1], <<format>>[n])]
           a == [n \in 0 .. 1 |-> IF n = 0 THEN y ELSE z]
<1>1. File!ReadFormats(s, <<format>>) = A[Len(<<format>>)]
  BY DEF File!ReadFormats
<1>2. Len(<<format>>) = 1 /\ <<format>>[1] = format
  OBVIOUS
<1>3. File!ReadFormats(s, <<format>>) = B[1]
  BY <1>1, <1>2
<1>4. z = [answers |-> <<File!ReadOne(SubSeq(s, 1, Len(s)), format).answer>>,
           used |-> 0 + File!ReadOne(SubSeq(s, 1, Len(s)), format).used,
           failed |-> File!ReadOne(SubSeq(s, 1, Len(s)), format).answer = Nil]
  BY FileNames DEF File!ReadAlso
<1> HIDE DEF y, z
<1>5. a = [n \in 0 .. 1 |-> IF n = 0 THEN y ELSE File!ReadAlso(s, a[n - 1], <<format>>[n])]
  <2>1. a[0] = y /\ a[1] = z
    OBVIOUS
  <2>2. ASSUME NEW n \in 0 .. 1 PROVE a[n] = IF n = 0 THEN y ELSE File!ReadAlso(s, a[n - 1], <<format>>[n])
    <3>1. CASE n = 0
      BY <2>1, <3>1
    <3>2. CASE n # 0
      <4>1. n = 1 /\ n - 1 = 0
        BY <3>2
      <4> HIDE DEF a
      <4> QED BY <1>2, <2>1, <4>1 DEF z
    <3> QED BY <3>1, <3>2
  <2>3. a = [n \in 0 .. 1 |-> a[n]]
    OBVIOUS
  <2> HIDE DEF a
  <2> QED BY <2>2, <2>3
<1>6. B = [n \in 0 .. 1 |-> IF n = 0 THEN y ELSE File!ReadAlso(s, B[n - 1], <<format>>[n])]
  <2> HIDE DEF a
  <2> QED BY <1>5
<1> HIDE DEF B
<1>7. B[0] = y
  BY <1>6
<1>8. B[1] = File!ReadAlso(s, B[0], format)
  <2>1. 1 \in 0 .. 1 /\ 1 # 0 /\ 1 - 1 = 0
    OBVIOUS
  <2> QED BY <1>2, <1>6, <2>1
<1>9. B[1] = z
  BY <1>7, <1>8 DEF z
<1> QED BY <1>3, <1>4, <1>9 DEF B

\* A call that has nothing to do with the contents, or is refused.
Refusal ==
  \/ result'.op = "buffer" /\ result'.kind = "true"
  \/ result'.op = "default" /\ result'.kind = "handle"
  \/ result'.op = "close" /\ result'.kind = "error"
  \/ result'.kind = "raise" /\ (result'.op \in {"read", "write", "seek", "buffer"} => file.closed)

\* A call that is refused is one the abstract file refuses.
LEMMA RefusedStep ==
  ASSUME Inv, World' = World, UNCHANGED <<file, turn>>, Refusal
  PROVE  File!Refuse /\ Good(World', turn')
<1>1. Unseen
  BY UnseenIs DEF Inv
<1>2. file.closed => (IF file.closed THEN "closed" ELSE file.opened) = File!NoStream
  BY DEF File!NoStream
<1>3. File!Refuse
  BY <1>1, <1>2 DEF Refusal, Unseen, File!Refuse, File!Answers
<1> QED BY <1>3 DEF Inv, Good

\* One call of the iterator of a loop over the lines of an open stream.
LEMMA LineStep ==
  ASSUME Inv, ~file.closed, lines # "done", NextLine, Live
  PROVE  File!Next /\ Good(World', turn')
<1> DEFINE w == World
           line == Read1(w, "l")
           v == line.world
           ended == line.answer = Nil
           closes == ended /\ lines = "named"
           two == File!ReadOne(Ahead(w), "l")
<1>1. /\ turn # "write" /\ AfterRead(v)
      /\ SetWorld(IF closes THEN Closed(v) ELSE v)
      /\ result' = IF line.answer = <<"error">> THEN Declined("next")
                   ELSE IF ended THEN Answer("next", <<>>, "end")
                   ELSE [Answer("read", <<"l">>, "values") EXCEPT !.values = <<line.answer>>]
  BY DEF NextLine
<1>2. /\ w \in Worlds /\ ~w.file.closed /\ w.file = file /\ turn \in Turns /\ Consistent(w, turn)
      /\ WriterFlush(World).disk = Contents(w) /\ Logical = Position(w) /\ StreamOf(w) = file.opened
  BY Seen
<1>3. Aligned(w) /\ Fits(w.file) /\ w.file.wbuf = <<>> /\ File!Rest = Ahead(w)
  BY <1>1, Unwritten
<1>4. Ahead(w) \in Seq(Char) /\ "l" \in FormatNames
  BY <1>2, <1>3, AheadIs DEF FormatNames
<1> HIDE DEF w
<1>5. CASE Readable(file)
  <2>1. ReadsAs(w, line, two)
    BY <1>2, <1>3, <1>4, <1>5, Read1Is
  <2>2. /\ line.answer = two.answer /\ line.answer # <<"error">>
        /\ two.used \in 0 .. Len(Ahead(w)) /\ Takes(w, v, two.used)
    BY <2>1 DEF ReadsAs
  <2>3. (two.answer = Nil <=> Ahead(w) = <<>>) /\ (Ahead(w) = <<>> => two.used = 0)
    BY <1>4, LineAnswers
  <2> DEFINE used == two.used
             answer == two.answer
  <2>4. used \in Nat
    BY <1>2, <1>3, <2>2, AheadIs
  <2>5. File!CanRead(IF file.closed THEN "closed" ELSE file.opened)
    BY <1>5 DEF Readable, File!CanRead
  <2>6. /\ File!ReadFormats(Ahead(w), <<"l">>).answers = <<answer>>
        /\ File!ReadFormats(Ahead(w), <<"l">>).used = 0 + used
    <3>1. SubSeq(Ahead(w), 1, Len(Ahead(w))) = Ahead(w)
      BY <1>4, SubSeqFull
    <3> QED BY <3>1, OneFormat
  <2> HIDE DEF two, used, v
  <2>7. /\ v \in Worlds /\ Consistent(v, IF Ahead(v) = <<>> THEN "any" ELSE "read")
        /\ Contents(v) = Contents(w) /\ Position(v) = Position(w) + used /\ StreamOf(v) = StreamOf(w)
        /\ ~v.file.closed /\ Readable(v.file)
    BY <1>2, <1>3, <1>5, <2>2, <2>4, TookKeeps DEF used
  <2>8. turn' = (IF Ahead(v) = <<>> THEN "any" ELSE "read") /\ turn' \in Turns
    BY <1>1, <2>7 DEF AfterRead, Turns
  <2>9. CASE closes
    <3>1. SetWorld(Closed(v))
      BY <1>1, <2>9
    <3>2. /\ WriterFlush(World)'.disk = WriterFlush(World).disk /\ Logical' = 0
          /\ (IF file.closed THEN "closed" ELSE file.opened)' = "closed"
          /\ World' \in Worlds /\ Consistent(World', turn') /\ file'.closed
      BY <2>7, <3>1, ClosedIs DEF w
    <3>3. result'.op = "next" /\ result'.kind = "end"
      BY <1>1, <2>2, <2>9 DEF Answer
    <3>4. File!Rest = <<>>
      BY <1>3, <2>2, <2>3, <2>9
    <3>5. File!ReadLast
      BY <2>5, <3>2, <3>3, <3>4 DEF File!ReadLast, File!Answers, File!NoStream
    <3>6. File!Next
      BY <3>5 DEF File!Next
    <3> QED BY <2>8, <3>2, <3>6 DEF Good
  <2>10. CASE ~closes
    <3>1. World' = v /\ file' = v.file
      BY <1>1, <2>7, <2>10, WorldSet DEF SetWorld
    <3>2. /\ WriterFlush(World)'.disk = Contents(v) /\ Logical' = Position(v)
          /\ (IF file.closed THEN "closed" ELSE file.opened)' = StreamOf(v)
      BY <2>7, <3>1, ViewsNext
    <3>3. Good(World', turn')
      BY <2>7, <2>8, <3>1 DEF Good
    <3>4. /\ WriterFlush(World)'.disk = WriterFlush(World).disk
          /\ (IF file.closed THEN "closed" ELSE file.opened)' = (IF file.closed THEN "closed" ELSE file.opened)
          /\ Logical' = Logical + used
      BY <1>2, <2>7, <3>2
    <3>5. CASE ended
      <4>1. result'.op = "next" /\ result'.kind = "end"
        BY <1>1, <2>2, <3>5 DEF Answer
      <4>2. File!Rest = <<>> /\ used = 0
        BY <1>3, <2>2, <2>3, <3>5 DEF used
      <4>3. Logical' = Logical
        <5>1. Logical \in Int
          <6>1. Position(w) = At(w)
            BY <1>2, <1>3, RestIs
          <6> QED BY <1>2, <1>3, <6>1, AheadIs
        <5> QED BY <3>4, <4>2, <5>1
      <4>4. File!ReadNone
        BY <2>5, <3>4, <4>1, <4>2, <4>3 DEF File!ReadNone, File!Answers
      <4>5. File!Next
        BY <4>4 DEF File!Next
      <4> QED BY <3>3, <4>5
    <3>6. CASE ~ended
      <4>1. result' = [Answer("read", <<"l">>, "values") EXCEPT !.values = <<answer>>]
        BY <1>1, <2>2, <3>6
      <4> HIDE DEF answer
      <4>2. result'.op = "read" /\ result'.kind = "values" /\ result'.arg = <<"l">> /\ result'.values = <<answer>>
        BY <4>1 DEF Answer
      <4>3. Logical' = Logical + File!ReadFormats(Ahead(w), <<"l">>).used
        BY <2>4, <2>6, <3>4
      <4>4. File!Read(<<"l">>)
        BY <1>3, <2>5, <2>6, <3>4, <4>2, <4>3 DEF File!Read, File!Answers
      <4>5. File!Next
        BY <4>4, LoopsReadLines DEF File!Next
      <4> QED BY <3>3, <4>5
    <3> QED BY <3>5, <3>6
  <2> QED BY <2>9, <2>10
<1>6. CASE ~Readable(file)
  <2>1. v = w /\ line.answer = <<"error">>
    BY <1>2, <1>6 DEF Read1, Failing
  <2>2. line.answer # Nil
    BY <2>1 DEF Nil
  <2>3. SetWorld(w) /\ result' = Declined("next")
    BY <1>1, <2>1, <2>2
  <2> HIDE DEF line, v
  <2>4. World' = w /\ file' = file
    BY <1>2, <2>3, WorldSet DEF SetWorld
  <2>5. turn' = turn
    BY <1>1, <1>2, <1>6, <2>1 DEF AfterRead
  <2>6. Refusal
    BY <2>3 DEF Refusal, Declined, Answer
  <2>7. File!Refuse /\ Good(World', turn')
    BY <2>4, <2>5, <2>6, RefusedStep DEF w
  <2> QED BY <2>7 DEF File!Next
<1> QED BY <1>5, <1>6

\* The handle of a closed file may still say that it is open: no call finds it live.
LEMMA LiveIs ==
  ASSUME Inv
  PROVE  Live <=> ~file.closed
BY DEF Inv, Live

\* A call that leaves the handle alone and closes nothing.
LEMMA OpenStays ==
  ASSUME Inv, Good(World', turn'), UNCHANGED handle, handle.closed => file'.closed
  PROVE  Inv'
BY DEF Inv, Good

\* A call that closes the file, and that may change what the handle says.
LEMMA ClosedStays ==
  ASSUME World' \in Worlds, turn \in Turns, turn' = turn, Consistent(World', turn'), file'.closed,
         handle' \in [closed : BOOLEAN, held : BOOLEAN, queued : BOOLEAN]
  PROVE  Inv'
BY DEF Inv

\* A call that is refused, or that only the io table notices.
LEMMA Refused ==
  ASSUME Inv, UNCHANGED <<disk, file, handle, turn>>, Refusal
  PROVE  Inv' /\ File!Next
<1>1. World' = World
  BY WorldStays
<1>2. File!Refuse /\ Good(World', turn')
  BY <1>1, RefusedStep
<1>3. handle.closed => file'.closed
  BY DEF Inv
<1> QED BY <1>2, <1>3, OpenStays DEF File!Next

\* A step of the collector or of a loop that touches neither the file nor the result.
LEMMA Unnoticed ==
  ASSUME Inv, UNCHANGED <<disk, file, result, turn>>,
         handle' \in [closed : BOOLEAN, held : BOOLEAN, queued : BOOLEAN], handle'.closed => file.closed
  PROVE  Inv' /\ UNCHANGED File!vars
<1>1. Unseen /\ World' = World
  BY Untouched
<1> QED BY <1>1 DEF Unseen, File!vars, Inv

\* A new handle around a new stream.
LEMMA Opened ==
  ASSUME Inv, file.closed, NEW mode \in Modes, OpenFile(mode), result' = Answer("open", mode, "handle"),
         NEW held \in BOOLEAN, handle' = NewHandle(held)
  PROVE  Inv' /\ File!Next
<1>1. File!Open(mode) /\ Good(World', turn')
  BY OpenStep
<1>2. handle' \in [closed : BOOLEAN, held : BOOLEAN, queued : BOOLEAN] /\ ~handle'.closed
  BY DEF NewHandle
<1> QED BY <1>1, <1>2 DEF Inv, Good, File!Next

\* What closing a handle leaves of it.
LEMMA HandleClosed ==
  ASSUME Inv
  PROVE  /\ [handle EXCEPT !.closed = TRUE] \in [closed : BOOLEAN, held : BOOLEAN, queued : BOOLEAN]
         /\ [handle EXCEPT !.queued = FALSE, !.closed = TRUE] \in [closed : BOOLEAN, held : BOOLEAN, queued : BOOLEAN]
         /\ [handle EXCEPT !.closed = TRUE].closed
BY DEF Inv

\* A stream that is open is closed.
LEMMA Closes ==
  ASSUME Inv, ~file.closed, SetWorld(Closed(World)), UNCHANGED turn,
         (result'.op = "close" /\ result'.kind = "true") \/ result' = result,
         handle' \in [closed : BOOLEAN, held : BOOLEAN, queued : BOOLEAN]
  PROVE  Inv' /\ File!Next
<1>1. File!Close /\ World' \in Worlds /\ Consistent(World', turn') /\ file'.closed
  BY CloseStep
<1> QED BY <1>1, ClosedStays DEF Inv, File!Next

\* A call that works on the open stream and leaves the handle alone.
LEMMA Worked ==
  ASSUME Inv, ~file.closed, Good(World', turn'), UNCHANGED handle
  PROVE  Inv'
<1>1. ~handle.closed
  BY DEF Inv
<1> QED BY <1>1, OpenStays

\* Every step of the io library keeps the invariant, and is a step of the
\* abstract file or one it does not see.
LEMMA StepIs ==
  ASSUME Inv, [Next]_vars
  PROVE  Inv' /\ [File!Next]_(File!vars)
<1>1. ASSUME NEW mode \in Modes, IoOpen(mode)
      PROVE  Inv' /\ File!Next
  BY <1>1, Opened DEF IoOpen
<1>2. CASE IoInputName
  <2>1. PICK held \in BOOLEAN : handle' = NewHandle(held)
    BY <1>2 DEF IoInputName
  <2> QED BY <1>2, <2>1, Opened DEF IoInputName
<1>3. CASE IoOutputName
  <2>1. PICK held \in BOOLEAN : handle' = NewHandle(held)
    BY <1>3 DEF IoOutputName
  <2> QED BY <1>3, <2>1, Opened DEF IoOutputName
<1>4. CASE IoLinesName
  BY <1>4, Opened DEF IoLinesName
<1>5. CASE IoInputFile \/ IoOutputFile \/ fileLines \/ IoLinesDefault
  <2>1. UNCHANGED <<disk, file, handle, turn>>
    BY <1>5 DEF IoInputFile, IoOutputFile, fileLines, IoLinesDefault
  <2>2. result' = Answer("default", <<>>, "handle") \/ result' = Declined("io")
    BY <1>5 DEF IoInputFile, IoOutputFile, fileLines, IoLinesDefault
  <2>3. Refusal
    BY <2>2 DEF Refusal, Declined, Answer
  <2> QED BY <2>1, <2>3, Refused
<1>6. ASSUME NEW formats \in Formats, fileRead(formats) \/ IoRead(formats)
      PROVE  Inv' /\ File!Next
  <2>1. UNCHANGED handle
    BY <1>6 DEF fileRead, IoRead
  <2>2. CASE Live /\ doFileRead(formats)
    <3>1. ~file.closed
      BY <2>2, LiveIs
    <3>2. (File!Read(formats) \/ File!Refuse) /\ Good(World', turn')
      BY <2>2, <3>1, ReadStep
    <3> QED BY <2>1, <3>1, <3>2, Worked DEF File!Next
  <2>3. CASE /\ UNCHANGED <<disk, file, turn>>
             /\ result' = Declined("io") \/ (result' = Declined("read") /\ file.closed)
    <3>1. Refusal
      BY <2>3 DEF Refusal, Declined, Answer
    <3> QED BY <2>1, <2>3, <3>1, Refused
  <2> QED BY <1>6, <2>2, <2>3, LiveIs DEF fileRead, IoRead
<1>7. ASSUME NEW strings \in Writes, fileWrite(strings) \/ IoWrite(strings)
      PROVE  Inv' /\ File!Next
  <2>1. UNCHANGED handle
    BY <1>7 DEF fileWrite, IoWrite
  <2>2. CASE Live /\ doFileWrite(strings)
    <3>1. ~file.closed
      BY <2>2, LiveIs
    <3>2. (File!Write(strings) \/ File!Refuse) /\ Good(World', turn')
      BY <2>2, <3>1, WriteStep
    <3> QED BY <2>1, <3>1, <3>2, Worked DEF File!Next
  <2>3. CASE /\ UNCHANGED <<disk, file, turn>>
             /\ result' = Declined("io") \/ (result' = Declined("write") /\ file.closed)
    <3>1. Refusal
      BY <2>3 DEF Refusal, Declined, Answer
    <3> QED BY <2>1, <2>3, <3>1, Refused
  <2> QED BY <1>7, <2>2, <2>3, LiveIs DEF fileWrite, IoWrite
<1>8. ASSUME NEW whence \in {"set", "cur", "end"}, NEW offset \in Offsets, fileSeek(whence, offset)
      PROVE  Inv' /\ File!Next
  <2>1. UNCHANGED handle /\ handle.held
    BY <1>8 DEF fileSeek
  <2>2. CASE Live
    <3>1. ~file.closed
      BY <2>2, LiveIs
    <3>2. (File!Seek(whence, offset) \/ File!Refuse) /\ Good(World', turn')
      BY <1>8, <2>1, <2>2, <3>1, SeekStep
    <3> QED BY <2>1, <3>1, <3>2, Worked DEF File!Next
  <2>3. CASE ~Live
    <3>1. UNCHANGED <<disk, file, turn>> /\ result' = Declined("seek")
      BY <1>8, <2>3 DEF fileSeek
    <3>2. Refusal
      BY <2>3, <3>1, LiveIs DEF Refusal, Declined, Answer
    <3> QED BY <2>1, <3>1, <3>2, Refused
  <2> QED BY <2>2, <2>3
<1>9. CASE fileFlush \/ IoFlush
  <2>1. UNCHANGED handle
    BY <1>9 DEF fileFlush, IoFlush
  <2>2. CASE Live /\ Flush
    <3>1. ~file.closed
      BY <2>2, LiveIs
    <3>2. File!Refuse /\ Good(World', turn')
      BY <2>2, <3>1, FlushStep
    <3> QED BY <2>1, <3>1, <3>2, Worked DEF File!Next
  <2>3. CASE /\ UNCHANGED <<disk, file, turn>>
             /\ result' = Declined("io") \/ (result' = Declined("buffer") /\ file.closed)
    <3>1. Refusal
      BY <2>3 DEF Refusal, Declined, Answer
    <3> QED BY <2>1, <2>3, <3>1, Refused
  <2> QED BY <1>9, <2>2, <2>3, LiveIs DEF fileFlush, IoFlush
<1>10. ASSUME NEW mode \in {"no", "full", "line"}, NEW size \in Buffers, fileSetVBuf(mode, size)
       PROVE  Inv' /\ File!Next
  <2>1. UNCHANGED <<handle, turn>>
    BY <1>10 DEF fileSetVBuf
  <2>2. CASE Live
    <3>1. ~file.closed
      BY <2>2, LiveIs
    <3>2. SetWorld(Buffering(World, mode, size)) /\ result' = Answer("buffer", <<>>, "true")
      BY <1>10, <2>2 DEF fileSetVBuf
    <3>3. File!Refuse /\ Good(World', turn')
      BY <2>1, <3>1, <3>2, SetVBufStep
    <3> QED BY <2>1, <3>1, <3>3, Worked DEF File!Next
  <2>3. CASE ~Live
    <3>1. UNCHANGED <<disk, file>> /\ result' = Declined("buffer")
      BY <1>10, <2>3 DEF fileSetVBuf
    <3>2. Refusal
      BY <2>3, <3>1, LiveIs DEF Refusal, Declined, Answer
    <3> QED BY <2>1, <3>1, <3>2, Refused
  <2> QED BY <2>2, <2>3
<1>11. CASE fileClose \/ IoClose
  <2>1. UNCHANGED turn
    BY <1>11 DEF fileClose, IoClose
  <2>2. CASE Live /\ CloseHandle /\ result' = Answer("close", <<>>, "true")
    <3>1. ~file.closed
      BY <2>2, LiveIs
    <3>2. result'.op = "close" /\ result'.kind = "true"
      BY <2>2 DEF Answer
    <3>3. SetWorld(Closed(World)) /\ handle' \in [closed : BOOLEAN, held : BOOLEAN, queued : BOOLEAN]
      BY <2>2, HandleClosed DEF CloseHandle
    <3> QED BY <2>1, <3>1, <3>2, <3>3, Closes
  <2>3. CASE /\ UNCHANGED <<disk, file, handle>>
             /\ result' \in {Answer("close", <<>>, "error"), Declined("close"), Declined("io")}
    <3>1. Refusal
      BY <2>3 DEF Refusal, Declined, Answer
    <3> QED BY <2>1, <2>3, <3>1, Refused
  <2> QED BY <1>11, <2>2, <2>3 DEF fileClose, IoClose
<1>12. CASE NextLine
  <2>1. UNCHANGED handle
    BY <1>12 DEF NextLine
  <2>2. CASE lines = "done" \/ ~Live
    <3>1. UNCHANGED <<disk, file, turn>> /\ result' = Declined("next")
      BY <1>12, <2>2 DEF NextLine
    <3>2. Refusal
      BY <3>1 DEF Refusal, Declined, Answer
    <3> QED BY <2>1, <3>1, <3>2, Refused
  <2>3. CASE lines # "done" /\ Live
    <3>1. ~file.closed
      BY <2>3, LiveIs
    <3>2. File!Next /\ Good(World', turn')
      BY <1>12, <2>3, <3>1, LineStep
    <3> QED BY <2>1, <3>1, <3>2, Worked
  <2> QED BY <2>2, <2>3
<1>13. CASE LeaveLoop
  <2>1. UNCHANGED <<result, turn>>
    BY <1>13 DEF LeaveLoop
  <2>2. CASE Live /\ CloseHandle
    <3>1. ~file.closed
      BY <2>2, LiveIs
    <3>2. SetWorld(Closed(World)) /\ handle' \in [closed : BOOLEAN, held : BOOLEAN, queued : BOOLEAN]
      BY <2>2, HandleClosed DEF CloseHandle
    <3> QED BY <2>1, <3>1, <3>2, Closes
  <2>3. CASE UNCHANGED <<disk, file, handle>>
    BY <2>1, <2>3, Unnoticed DEF Inv
  <2> QED BY <1>13, <2>2, <2>3 DEF LeaveLoop
<1>14. CASE Forget \/ Collect
  <2>1. UNCHANGED <<disk, file, result, turn>>
    BY <1>14 DEF Forget, Collect
  <2>2. /\ handle' \in [closed : BOOLEAN, held : BOOLEAN, queued : BOOLEAN]
        /\ handle'.closed => file.closed
    BY <1>14 DEF Forget, Collect, Inv
  <2> QED BY <2>1, <2>2, Unnoticed
<1>15. CASE fileCloseGC
  <2>1. UNCHANGED <<result, turn>> /\ handle' = [handle EXCEPT !.queued = FALSE, !.closed = TRUE]
    BY <1>15 DEF fileCloseGC
  <2>2. handle' \in [closed : BOOLEAN, held : BOOLEAN, queued : BOOLEAN]
    BY <2>1, HandleClosed
  <2>3. CASE Live
    <3>1. SetWorld(Closed(World)) /\ ~file.closed
      BY <1>15, <2>3, LiveIs DEF fileCloseGC
    <3> QED BY <2>1, <2>2, <3>1, Closes
  <2>4. CASE ~Live
    <3>1. UNCHANGED <<disk, file>> /\ file.closed
      BY <1>15, <2>4, LiveIs DEF fileCloseGC
    <3> QED BY <2>1, <2>2, <3>1, Unnoticed
  <2> QED BY <2>3, <2>4
<1>16. CASE UNCHANGED vars
  BY <1>16, Unnoticed DEF vars, Inv
<1> QED
  BY <1>1, <1>2, <1>3, <1>4, <1>5, <1>6, <1>7, <1>8, <1>9, <1>10, <1>11, <1>12, <1>13, <1>14, <1>15, <1>16 DEF Next

\* No stream is open at first, and every byte of the file is a byte.
LEMMA InitIs == Init => Inv /\ File!Init
<1> SUFFICES ASSUME Init
             PROVE  Inv /\ File!Init
  OBVIOUS
<1>1. disk \in Seq(Char)
  <2>1. disk \in [1..2 -> Char]
    <3>1. "1" \in Char /\ Newline \in Char
      BY BytesAre DEF Digits
    <3> QED BY <3>1 DEF Init
  <2> QED BY <2>1, 2 \in Nat, SeqDef
<1>2. /\ file.closed /\ file.opened = "r" /\ file.bufMode = "full" /\ file.size = WriteBuf
      /\ file.pos = 0 /\ file.rbuf = <<>> /\ file.wbuf = <<>>
      /\ file = [closed |-> TRUE, opened |-> "r", bufMode |-> "full", size |-> WriteBuf,
                 pos |-> 0, rbuf |-> <<>>, wbuf |-> <<>>]
  BY DEF Init, NoFile, NewFile
<1> DEFINE b == <<>>
<1>3. b \in Seq(Char)
  OBVIOUS
<1>4. file \in Stream
  <2> HIDE DEF b
  <2>1. file.rbuf = b /\ file.wbuf = b
    BY <1>2 DEF b
  <2>2. file = [closed |-> TRUE, opened |-> "r", bufMode |-> "full", size |-> WriteBuf,
                pos |-> 0, rbuf |-> b, wbuf |-> b]
    BY <1>2 DEF b
  <2> QED BY <1>3, <2>2, BufferSizes DEF Stream, Streams
<1>5. World \in Worlds
  BY <1>1, <1>4 DEF World, Worlds
<1>6. Consistent(World, turn)
  BY <1>2 DEF Consistent, World
<1>7. handle \in [closed : BOOLEAN, held : BOOLEAN, queued : BOOLEAN] /\ turn \in Turns
  BY DEF Init, Turns
<1>8. Inv
  BY <1>2, <1>5, <1>6, <1>7 DEF Inv
<1>9. WriterFlush(World).disk = disk
  BY <1>2, <1>5, Views, FlushFields, WorldFields
<1>10. result = File!Answer("none", <<>>, "true")
  BY DEF Init, Answer, File!Answer
<1>11. WriterFlush(World).disk \in [1..2 -> {"1", Newline}]
  BY <1>9 DEF Init
<1>12. File!Init
  BY <1>2, <1>10, <1>11 DEF Logical, File!Init, File!NoStream, File!Newline, Newline
<1> QED BY <1>8, <1>12

\* The buffers of an open stream stand where the descriptor is, a stream that has
\* been read from holds nothing to be written nor one written to anything that was
\* read ahead, and a handle that says it is closed is of a file that is.
THEOREM BuffersConsistent == Spec => []Inv
BY InitIs, StepIs, PTL DEF Spec

\* Whatever the buffers hold, whatever setvbuf asks for and whoever closes the
\* file, a program that keeps to the rule of stdio sees what AbstractFile promises:
\* one position, every read what stands there, every write in the file where it
\* belongs, for every file, every buffer size and every list of formats.
THEOREM FilesImplementAbstract == Spec => FileImplements
BY InitIs, StepIs, PTL DEF Spec, FileImplements, File!Spec
=============================================================================
