------------------------------- MODULE LuaFile -------------------------------
(* A file of FullIoProvider and the io library over it: vm/full_io.go       *)
(* (fullFile), stdlib/io.go and stdlib/io_read.go.  A fullFile reads        *)
(* through a bufio.Reader and writes through a bufio.Writer over one        *)
(* descriptor, whose position is ahead of the program by what the reader    *)
(* holds and behind it by what the writer holds.                            *)
(*                                                                          *)
(* One stream at a time is open on the file.  The program keeps to the rule *)
(* of stdio (`turn`): it seeks or flushes between writing and reading, and  *)
(* seeks between reading and writing unless it has read to the end.         *)
EXTENDS Integers, Sequences, SequencesExt, FiniteSets, FiniteSetsExt

CONSTANTS
  Char,         \* bytes: Newline is the one blank of them, Digits are what numerals are made of
  Writes, Formats, Modes, Offsets,
  Buffers,      \* the sizes setvbuf asks for; 0 leaves the size to the provider
  MaxLen,       \* bound: the longest file, written and to be written
  ReadBuf,      \* the size of a bufio.Reader
  WriteBuf,     \* the size of a bufio.Writer by default
  MaxVBuf,      \* maxVBufRequest
  MaxNumLen     \* maxNumLen of readNumberFromBuf

Newline == "\n"
Hole == "0"
Digits == {"1"}

\* No byte is one of the words that mark an answer.
ASSUME FileBytes == {Newline, Hole} \union Digits \subseteq Char /\ {"nil", "number", "error"} \intersect Char = {}
ASSUME BuffersHoldNumerals == MaxNumLen \in 1..ReadBuf
ASSUME BufferSizes == {ReadBuf, WriteBuf, MaxVBuf} \subseteq Nat \ {0} /\ Buffers \subseteq Int
ASSUME FileInputs ==
  /\ Writes \subseteq Seq(Seq(Char))
  /\ Formats \subseteq Seq({"a", "l", "L", "n", "0", "1", "2"}) \ {<<>>}
  /\ Modes \subseteq {"r", "w", "a", "r+", "w+", "a+"}
  /\ Offsets \subseteq Int
\* A call of an iterator that was made without formats reads a line.
ASSUME LoopsReadLines == <<"l">> \in Formats

VARIABLES
  disk,     \* what the file holds
  file,     \* the fullFile the stream is
  handle,   \* the fileHandle around it, and the userdata around that
  input, output,  \* __input and __output of the io table
  lines,    \* the iterator of a loop over lines: which function made it
  result,   \* what the last call answered
  turn      \* what the rule of stdio allows next

vars == <<disk, file, handle, input, output, lines, result, turn>>

\* A call and what it answers; a call through the io table that is refused says "io".
Answer(op, arg, kind) == [op |-> op, arg |-> arg, kind |-> kind, values |-> <<>>, at |-> 0]
Declined(op) == Answer(op, <<>>, "raise")
Nil == <<"nil">>
Number(s) == <<"number">> \o s

Readable(f) == f.opened \in {"r", "r+", "w+", "a+"}
Writable(f) == f.opened \in {"w", "a", "r+", "w+", "a+"}
Appending(f) == f.opened \in {"a", "a+"}

\* The world a call works on: the file and the stream on it.
World == [disk |-> disk, file |-> file]
SetWorld(w) == disk' = w.disk /\ file' = w.file

Unread(w) == SubSeq(w.disk, w.file.pos + 1, Len(w.disk))
\* What the reader would yield.
Ahead(w) == w.file.rbuf \o Unread(w)

\* -------------------------------------------------------------------------
\* The descriptor and the buffers over it

Overlaid(c, p, s) ==
  [i \in 1..Max({Len(c), p + Len(s)}) |->
     IF i \in (p + 1)..(p + Len(s)) THEN s[i - p]
     ELSE IF i <= Len(c) THEN c[i] ELSE Hole]

\* write(2): at the position, at the end of a file opened with O_APPEND.
OsWrite(w, s) ==
  LET p == IF Appending(w.file) THEN Len(w.disk) ELSE w.file.pos
  IN IF s = <<>> THEN w
     ELSE [disk |-> Overlaid(w.disk, p, s), file |-> [w.file EXCEPT !.pos = p + Len(s)]]

Emptied(w) == [w EXCEPT !.file.wbuf = <<>>]
WriterFlush(w) == Emptied(OsWrite(w, w.file.wbuf))

\* bufio.Writer.WriteString: fill the buffer, flush it, and what does not fit
\* an empty buffer goes straight to the file.
Buffered(w, s) ==
  LET f == w.file
      room == f.size - Len(f.wbuf)
      head == [w EXCEPT !.file.wbuf = @ \o SubSeq(s, 1, Min({room, Len(s)}))]
      tail == SubSeq(s, room + 1, Len(s))
  IN IF Len(s) <= room THEN head
     ELSE IF f.wbuf = <<>> THEN OsWrite(w, s)
     ELSE IF Len(tail) > f.size THEN OsWrite(WriterFlush(head), tail)
     ELSE [WriterFlush(head) EXCEPT !.file.wbuf = tail]

\* bufio.Reader.fill as far as n bytes are there, or the file ends.
Looked(w, n) ==
  IF Len(w.file.rbuf) >= n THEN w
  ELSE LET p == Max({w.file.pos, Min({Len(w.disk), w.file.pos + ReadBuf - Len(w.file.rbuf)})})
       IN [w EXCEPT !.file.rbuf = @ \o SubSeq(w.disk, w.file.pos + 1, p), !.file.pos = p]

\* n bytes taken one at a time, each from a reader that fills when it is empty.
Took(w, n) ==
  LET need == n - Len(w.file.rbuf)
      p == Max({w.file.pos,
                Min({Len(w.disk), w.file.pos + ((need + ReadBuf - 1) \div ReadBuf) * ReadBuf})})
  IN IF need <= 0 THEN [w EXCEPT !.file.rbuf = SubSeq(@, n + 1, Len(@))]
     ELSE [w EXCEPT !.file.rbuf = SubSeq(w.disk, w.file.pos + need + 1, p), !.file.pos = p]

\* readAtMost: what is buffered, then reads that pass the buffer by when they
\* are at least as large.
readAtMost(w, n) ==
  LET need == n - Len(w.file.rbuf)
  IN IF need < ReadBuf THEN Took(w, n)
     ELSE [w EXCEPT !.file.rbuf = <<>>,
                    !.file.pos = Max({@, Min({Len(w.disk), @ + need})})]

Drained(w) == [w EXCEPT !.file.rbuf = <<>>, !.file.pos = Max({@, Len(w.disk)})]

\* -------------------------------------------------------------------------
\* fullFile

NewFile(mode, d) ==
  [closed |-> FALSE, opened |-> mode, bufMode |-> "full", size |-> WriteBuf,
   pos |-> IF mode = "a" THEN Len(d) ELSE 0, rbuf |-> <<>>, wbuf |-> <<>>]

NoFile == [NewFile("r", <<>>) EXCEPT !.closed = TRUE]

Reading(w, answer) == [world |-> w, answer |-> answer, failed |-> answer = Nil]
Failing(w) == [world |-> w, answer |-> <<"error">>, failed |-> TRUE]

readLine(w, keep) ==
  LET s == Ahead(w)
      ends == {i \in DOMAIN s : s[i] = Newline}
      n == IF ends = {} THEN Len(s) ELSE Min(ends)
  IN Reading(Took(w, n), IF s = <<>> THEN Nil
                         ELSE SubSeq(s, 1, IF ends = {} \/ keep THEN n ELSE n - 1))

\* How many of the elements of s from i on are in set, no more than limit.
Span(s, i, set, limit) ==
  Min({limit} \union {n \in 0..Len(s) : i + n = Len(s) + 1 \/ (i + n <= Len(s) /\ s[i + n] \notin set)})

\* Only blanks and digits stand in the files here: Numeral has all of the scanner.
\* It looks at one byte more than it takes, and at MaxNumLen at most.
readNumber(w) ==
  LET flushed == WriterFlush(w)
      s == Ahead(flushed)
      blank == Span(s, 1, {Newline}, Len(s))
      digits == Span(s, blank + 1, Digits, MaxNumLen)
      start == Looked(Took(flushed, blank), 1)
      scanned == Looked(start, Min({digits + 1, MaxNumLen}))
  IN Reading(Took(scanned, digits),
             IF digits \in 1..(MaxNumLen - 1) THEN Number(SubSeq(s, blank + 1, blank + digits)) ELSE Nil)

ReadBytes(w, n) ==
  IF n = 0 THEN Reading(Looked(w, 1), IF Ahead(w) = <<>> THEN Nil ELSE <<>>)
  ELSE Reading(readAtMost(w, n),
               IF Ahead(w) = <<>> THEN Nil ELSE SubSeq(Ahead(w), 1, Min({n, Len(Ahead(w))})))

Count(format) == CHOOSE n \in 0..2 : <<"0", "1", "2">>[n + 1] = format

\* fullFile.Read and ReadBytes of a stream that is open.  The descriptor of one
\* that only writes refuses; an end-of-file test takes that for the end.
Read1(w, format) ==
  IF ~Readable(w.file) /\ format # "0" THEN Failing(IF format = "n" THEN WriterFlush(w) ELSE w)
  ELSE IF ~Readable(w.file) THEN Reading(w, Nil)
  ELSE CASE format = "a" -> Reading(Drained(w), Ahead(w))
         [] format = "l" -> readLine(w, FALSE)
         [] format = "L" -> readLine(w, TRUE)
         [] format = "n" -> readNumber(w)
         [] OTHER -> ReadBytes(w, Count(format))

Write1(w, s) ==
  LET b == Buffered(w, s)
  IN IF w.file.bufMode = "no" THEN OsWrite(w, s)
     ELSE IF w.file.bufMode = "line" /\ Newline \in Range(s) THEN WriterFlush(b)
     ELSE b

\* Mutant: what the reader holds is not taken off the descriptor's position.
BugSeekTo(w, whence, offset) ==
  LET f == WriterFlush(w)
      p == offset + CASE whence = "set" -> 0 [] whence = "cur" -> f.file.pos [] whence = "end" -> Len(f.disk)
  IN [world |-> IF p < 0 THEN f ELSE [f EXCEPT !.file.pos = p, !.file.rbuf = <<>>], at |-> p]

SeekTo(w, whence, offset) ==
  LET f == WriterFlush(w)
      base == CASE whence = "set" -> 0 [] whence = "cur" -> f.file.pos [] whence = "end" -> Len(f.disk)
      p == base + offset - (IF whence = "cur" THEN Len(f.file.rbuf) ELSE 0)
  IN [world |-> IF p < 0 THEN f ELSE [f EXCEPT !.file.pos = p, !.file.rbuf = <<>>], at |-> p]

VBufSize(size) == IF size <= 0 THEN WriteBuf ELSE Min({size, MaxVBuf})

Buffering(w, mode, size) ==
  [WriterFlush(w) EXCEPT !.file.bufMode = mode,
                         !.file.size = IF mode = "no" THEN WriteBuf ELSE VBufSize(size)]

Closed(w) == [WriterFlush(w) EXCEPT !.file.closed = TRUE]

\* -------------------------------------------------------------------------
\* The io library

Live == ~handle.closed /\ ~file.closed

Init ==
  /\ disk \in [1..2 -> {"1", Newline}]
  /\ file = NoFile
  /\ handle = [closed |-> TRUE, held |-> FALSE, queued |-> FALSE]
  /\ input = "std" /\ output = "std" /\ lines = "none"
  /\ result = Answer("none", <<>>, "true") /\ turn = "any"

\* What the io table names when a new stream takes the place of the old one.
Displaced(default) == IF default = "file" THEN "closed" ELSE default

OpenFile(mode) ==
  LET d == IF mode \in {"w", "w+"} THEN <<>> ELSE disk
  IN disk' = d /\ file' = NewFile(mode, d) /\ turn' = "any"

NewHandle(held) == [closed |-> FALSE, held |-> held, queued |-> FALSE]

IoOpen(mode) ==
  /\ file.closed /\ lines = "none"
  /\ OpenFile(mode)
  /\ handle' = NewHandle(TRUE) /\ result' = Answer("open", mode, "handle")
  /\ input' = Displaced(input) /\ output' = Displaced(output)
  /\ UNCHANGED lines

\* io.input(name) and io.output(name): the io table holds the handle, and the
\* program if it keeps what they return.
IoInputName ==
  /\ file.closed /\ lines = "none" /\ "r" \in Modes
  /\ OpenFile("r")
  /\ \E held \in BOOLEAN : handle' = NewHandle(held)
  /\ input' = "file" /\ output' = Displaced(output) /\ result' = Answer("open", "r", "handle")
  /\ UNCHANGED lines

IoOutputName ==
  /\ file.closed /\ lines = "none" /\ "w" \in Modes
  /\ OpenFile("w")
  /\ \E held \in BOOLEAN : handle' = NewHandle(held)
  /\ output' = "file" /\ input' = Displaced(input) /\ result' = Answer("open", "w", "handle")
  /\ UNCHANGED lines

\* io.input(file) and io.output(file).
IoInputFile ==
  /\ handle.held
  /\ IF Live THEN input' = "file" /\ result' = Answer("default", <<>>, "handle")
     ELSE result' = Declined("io") /\ UNCHANGED input
  /\ UNCHANGED <<disk, file, handle, output, lines, turn>>

IoOutputFile ==
  /\ handle.held
  /\ IF Live THEN output' = "file" /\ result' = Answer("default", <<>>, "handle")
     ELSE result' = Declined("io") /\ UNCHANGED output
  /\ UNCHANGED <<disk, file, handle, input, lines, turn>>

\* One pass of the loop over the formats: after one that fails the others are nil.
ReadNext(acc, format) ==
  LET one == Read1(acc.world, format)
  IN IF acc.failed THEN [acc EXCEPT !.answers = Append(@, Nil)]
     ELSE [world |-> one.world, answers |-> Append(acc.answers, one.answer),
           failed |-> one.failed, error |-> one.answer = <<"error">>]

doFileReadFormats(w, formats) ==
  LET passes[n \in 0..Len(formats)] ==
        IF n = 0 THEN [world |-> w, answers |-> <<>>, failed |-> FALSE, error |-> FALSE]
        ELSE ReadNext(passes[n - 1], formats[n])
  IN passes[Len(formats)]

\* The rule of stdio after a read: another read, or anything at the end.
AfterRead(w) ==
  turn' = IF ~Readable(w.file) THEN turn ELSE IF Ahead(w) = <<>> THEN "any" ELSE "read"

doFileRead(formats) ==
  LET read == doFileReadFormats(World, formats)
  IN
  /\ turn # "write"
  /\ SetWorld(read.world)
  /\ result' = [Answer("read", formats, IF read.error THEN "error" ELSE "values") EXCEPT
                 !.values = IF read.error THEN <<>> ELSE read.answers]
  /\ AfterRead(read.world)

\* file:read(...)
fileRead(formats) ==
  /\ handle.held
  /\ IF Live THEN doFileRead(formats) ELSE result' = Declined("read") /\ UNCHANGED <<disk, file, turn>>
  /\ UNCHANGED <<handle, input, output, lines>>

\* io.read(...)
IoRead(formats) ==
  /\ input # "std"
  /\ IF input = "file" /\ Live THEN doFileRead(formats)
     ELSE result' = Declined("io") /\ UNCHANGED <<disk, file, turn>>
  /\ UNCHANGED <<handle, input, output, lines>>

\* The world after every string has been written in turn.
WriteAll(w, strings) ==
  LET passes[n \in 0..Len(strings)] == IF n = 0 THEN w ELSE Write1(passes[n - 1], strings[n])
  IN passes[Len(strings)]

doFileWrite(strings) ==
  LET w == WriteAll(World, strings)
  IN
  /\ turn # "read"
  /\ Len(WriterFlush(w).disk) <= MaxLen
  /\ IF Writable(file) THEN SetWorld(w) /\ turn' = "write" /\ result' = Answer("write", strings, "handle")
     ELSE result' = Answer("write", strings, "error") /\ UNCHANGED <<disk, file, turn>>

\* file:write(...)
fileWrite(strings) ==
  /\ handle.held
  /\ IF Live THEN doFileWrite(strings) ELSE result' = Declined("write") /\ UNCHANGED <<disk, file, turn>>
  /\ UNCHANGED <<handle, input, output, lines>>

\* io.write(...)
IoWrite(strings) ==
  /\ output # "std"
  /\ IF output = "file" /\ Live THEN doFileWrite(strings)
     ELSE result' = Declined("io") /\ UNCHANGED <<disk, file, turn>>
  /\ UNCHANGED <<handle, input, output, lines>>

\* file:seek(whence, offset)
fileSeek(whence, offset) ==
  LET s == SeekTo(World, whence, offset)
  IN
  /\ handle.held
  /\ IF Live
     THEN /\ s.at <= MaxLen
          /\ SetWorld(s.world)
          /\ IF s.at < 0 THEN result' = Answer("seek", <<whence, offset>>, "error") /\ UNCHANGED turn
             ELSE result' = [Answer("seek", <<whence, offset>>, "position") EXCEPT !.at = s.at] /\ turn' = "any"
     ELSE result' = Declined("seek") /\ UNCHANGED <<disk, file, turn>>
  /\ UNCHANGED <<handle, input, output, lines>>

Flush ==
  /\ SetWorld(WriterFlush(World))
  /\ turn' = IF turn = "write" THEN "any" ELSE turn
  /\ result' = Answer("buffer", <<>>, "true")

\* file:flush()
fileFlush ==
  /\ handle.held
  /\ IF Live THEN Flush ELSE result' = Declined("buffer") /\ UNCHANGED <<disk, file, turn>>
  /\ UNCHANGED <<handle, input, output, lines>>

\* io.flush()
IoFlush ==
  /\ output # "std"
  /\ IF output = "file" /\ Live THEN Flush
     ELSE result' = Declined("io") /\ UNCHANGED <<disk, file, turn>>
  /\ UNCHANGED <<handle, input, output, lines>>

\* file:setvbuf(mode, size)
fileSetVBuf(mode, size) ==
  /\ handle.held
  /\ IF Live THEN SetWorld(Buffering(World, mode, size)) /\ result' = Answer("buffer", <<>>, "true")
     ELSE result' = Declined("buffer") /\ UNCHANGED <<disk, file>>
  /\ UNCHANGED <<handle, input, output, lines, turn>>

CloseHandle == SetWorld(Closed(World)) /\ handle' = [handle EXCEPT !.closed = TRUE]

\* file:close() and io.close(file)
fileClose ==
  /\ handle.held
  /\ IF Live THEN CloseHandle /\ result' = Answer("close", <<>>, "true")
     ELSE result' = Declined("close") /\ UNCHANGED <<disk, file, handle>>
  /\ UNCHANGED <<input, output, lines, turn>>

\* io.close(): the default output, which no program may close while it is stdout.
IoClose ==
  /\ IF output = "file" /\ Live THEN CloseHandle /\ result' = Answer("close", <<>>, "true")
     ELSE /\ result' = IF output = "std" THEN Answer("close", <<>>, "error") ELSE Declined("io")
          /\ UNCHANGED <<disk, file, handle>>
  /\ UNCHANGED <<input, output, lines, turn>>

\* -------------------------------------------------------------------------
\* Loops over lines

\* file:lines()
fileLines ==
  /\ handle.held /\ lines = "none"
  /\ IF Live THEN lines' = "method" /\ result' = Answer("default", <<>>, "handle")
     ELSE result' = Declined("io") /\ UNCHANGED lines
  /\ UNCHANGED <<disk, file, handle, input, output, turn>>

\* io.lines(name): a stream of its own, which the loop keeps and closes.
IoLinesName ==
  /\ file.closed /\ lines = "none" /\ "r" \in Modes
  /\ OpenFile("r")
  /\ handle' = NewHandle(TRUE) /\ lines' = "named" /\ result' = Answer("open", "r", "handle")
  /\ input' = Displaced(input) /\ output' = Displaced(output)

\* io.lines(): the default input.
IoLinesDefault ==
  /\ input # "std" /\ lines = "none"
  /\ IF input = "file" /\ Live THEN lines' = "default" /\ result' = Answer("default", <<>>, "handle")
     ELSE result' = Declined("io") /\ UNCHANGED lines
  /\ UNCHANGED <<disk, file, handle, input, output, turn>>

\* One call of an iterator.  Only the one that io.lines(name) made closes the
\* file at its end, and it leaves the handle to find that out.
NextLine ==
  LET line == Read1(World, "l")
      ended == line.answer = Nil
      closes == ended /\ lines = "named"
  IN
  /\ lines # "none"
  /\ IF lines = "done" \/ ~Live
     THEN result' = Declined("next") /\ UNCHANGED <<disk, file, lines, turn>>
     ELSE /\ turn # "write"
          /\ SetWorld(IF closes THEN Closed(line.world) ELSE line.world)
          /\ lines' = IF closes THEN "done" ELSE lines
          /\ result' = IF line.answer = <<"error">> THEN Declined("next")
                       ELSE IF ended THEN Answer("next", <<>>, "end")
                       ELSE [Answer("read", <<"l">>, "values") EXCEPT !.values = <<line.answer>>]
          /\ AfterRead(line.world)
  /\ UNCHANGED <<handle, input, output>>

\* The loop is left: the variable of io.lines(name) that is to be closed is
\* the handle, whose __close says nothing of a file that is closed already.
LeaveLoop ==
  /\ lines # "none" /\ lines' = "none"
  /\ IF lines \in {"named", "done"} /\ Live
     THEN CloseHandle ELSE UNCHANGED <<disk, file, handle>>
  /\ UNCHANGED <<input, output, result, turn>>

\* -------------------------------------------------------------------------
\* The collector

\* The program gives up the handle; while it loops over lines it keeps it.
Forget ==
  /\ handle.held /\ lines = "none"
  /\ handle' = [handle EXCEPT !.held = FALSE]
  /\ UNCHANGED <<disk, file, input, output, lines, result, turn>>

\* Go's collector finds the userdata unreachable: its finalizer queues it.
Collect ==
  /\ ~handle.held /\ "file" \notin {input, output} /\ ~handle.queued
  /\ handle' = [handle EXCEPT !.queued = TRUE]
  /\ UNCHANGED <<disk, file, input, output, lines, result, turn>>

\* The VM drains the queue and calls __gc.
fileCloseGC ==
  /\ handle.queued
  /\ IF Live THEN SetWorld(Closed(World)) ELSE UNCHANGED <<disk, file>>
  /\ handle' = [handle EXCEPT !.queued = FALSE, !.closed = TRUE]
  /\ UNCHANGED <<input, output, lines, result, turn>>

Next ==
  \/ \E mode \in Modes : IoOpen(mode)
  \/ IoInputName \/ IoOutputName \/ IoInputFile \/ IoOutputFile
  \/ \E formats \in Formats : fileRead(formats) \/ IoRead(formats)
  \/ \E strings \in Writes : fileWrite(strings) \/ IoWrite(strings)
  \/ \E whence \in {"set", "cur", "end"}, offset \in Offsets : fileSeek(whence, offset)
  \/ fileFlush \/ IoFlush
  \/ \E mode \in {"no", "full", "line"}, size \in Buffers : fileSetVBuf(mode, size)
  \/ fileClose \/ IoClose
  \/ fileLines \/ IoLinesName \/ IoLinesDefault \/ NextLine \/ LeaveLoop
  \/ Forget \/ Collect \/ fileCloseGC

Spec == Init /\ [][Next]_vars

\* -------------------------------------------------------------------------

Pending == file.wbuf # <<>>

Logical ==
  IF file.closed THEN 0
  ELSE IF ~Pending THEN file.pos - Len(file.rbuf)
  ELSE (IF Appending(file) THEN Len(disk) ELSE file.pos) + Len(file.wbuf)

File == INSTANCE AbstractFile WITH
  contents <- WriterFlush(World).disk,
  position <- Logical,
  stream <- IF file.closed THEN "closed" ELSE file.opened,
  NumberLimit <- MaxNumLen

\* Buffers or not, setvbuf or not, whoever closes it: a program that keeps to
\* the rule of stdio sees a file with one position, reads what it wrote and
\* leaves in the file all it wrote.
FileImplements == File!Spec
=============================================================================
