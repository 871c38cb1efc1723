-------------------------------- MODULE Library --------------------------------
(* The library of a state: a program works on a file, sorts a list with a     *)
(* comparator of its own, or asks one of the functions that have no state.    *)
(* The three share no state, and a behaviour shows one of them.               *)
EXTENDS LuaFile, LuaSort, LibraryMeaning

CONSTANT Questions   \* the calls of the functions without state

VARIABLES
  part,       \* what the behaviour shows: "file", "sort" or "ask"
  question,   \* the call
  answer      \* what it answers

fileVars == <<disk, file, handle, input, output, lines, result, turn>>
libraryVars == <<fileVars, sortVars, part, question, answer>>

NoQuestion == [ask |-> "nothing"]
NoAnswer == Raises("none yet")

LibraryInit ==
  /\ part \in {"file", "sort", "ask"}
  /\ Init /\ (part # "file" => disk = <<Newline, Newline>>)
  /\ SortInit /\ (part # "sort" => given = <<>> /\ order = "less")
  /\ question \in (IF part = "ask" THEN Questions ELSE {NoQuestion})
  /\ answer = NoAnswer

FileStep == part = "file" /\ Next /\ UNCHANGED <<sortVars, part, question, answer>>
SortStep == part = "sort" /\ SortNext /\ UNCHANGED <<fileVars, part, question, answer>>

Answers(ask, given_answer) ==
  /\ part = "ask" /\ question.ask = ask /\ answer = NoAnswer
  /\ answer' = given_answer
  /\ UNCHANGED <<fileVars, sortVars, part, question>>

q == question

AskSub == Answers("sub", StringSub(q.s, q.i, q.j))
AskByte == Answers("byte", StringByte(q.s, q.i, q.j))
AskRep == Answers("rep", StringRep(q.s, q.n, q.sep))
AskFind == Answers("find", StringFind(q.s, PatternText(q.p), q.init, q.plain))
AskMatch == Answers("match", StringMatch(q.s, PatternText(q.p), q.init))
AskGmatch == Answers("gmatch", StringGmatch(q.s, PatternText(q.p), q.init))
AskGsub == Answers("gsub", StringGsub(q.s, PatternText(q.p), q.repl, q.limit))
AskInsert == Answers("insert", TableInsert(q.t, q.length, q.pos, q.value))
AskRemove == Answers("remove", TableRemove(q.t, q.length, q.pos))
AskMove == Answers("move", TableMove(q.t, q.other, q.same, q.f, q.e, q.tt))
AskUnpack == Answers("unpack", TableUnpack(q.t, q.i, q.j))
AskPackTable == Answers("table.pack", TablePack(q.values))
AskConcat == Answers("concat", TableConcat(q.t, q.sep, q.i, q.j))
AskPack == Answers("pack", StringPack(q.format, q.args))
AskUnpackString == Answers("string.unpack", StringUnpack(q.format, q.data, q.pos))
AskPacksize == Answers("packsize", StringPacksize(q.format))
AskNumber == Answers("number", ReadNumber(q.s))

LibraryNext ==
  \/ FileStep \/ SortStep
  \/ AskSub \/ AskByte \/ AskRep
  \/ AskFind \/ AskMatch \/ AskGmatch \/ AskGsub
  \/ AskInsert \/ AskRemove \/ AskMove \/ AskUnpack \/ AskPackTable \/ AskConcat
  \/ AskPack \/ AskUnpackString \/ AskPacksize
  \/ AskNumber

LibrarySpec == LibraryInit /\ [][LibraryNext]_libraryVars

\* -------------------------------------------------------------------------

Answered(ask) == question.ask = ask /\ answer # NoAnswer
Agrees(meant) ==
  IF meant.raise = "" THEN answer = meant ELSE answer.raise # ""

\* What the matcher finds by trying, coming back and undoing its captures is what
\* the pattern means: the leftmost match, of the layouts there are the one that
\* is preferred, with its captures, for find, match, gmatch and gsub; an error
\* exactly where a malformed item is come to or a capture is asked for that is
\* not finished; and never "too complex" for the sake of a long subject.
PatternsMean ==
  /\ Answered("find") => Agrees(FindMeans(q.s, q.p, q.init, q.plain))
  /\ Answered("match") => Agrees(MatchMeans(q.s, q.p, q.init))
  /\ Answered("gmatch") =>
       Agrees(GmatchMeans(q.s, (IF q.p.anchored THEN <<One(<<"^">>, {})>> ELSE <<>>) \o q.p.items, q.init))
  /\ Answered("gsub") => Agrees(GsubMeans(q.s, q.p, q.repl, q.limit))

\* Whatever integers it is asked with, up to the largest and the smallest one, a
\* function on places answers and leaves what the mathematical integers say: no
\* sum that wraps, no element that is read after it was written, no place missed.
\* And the scanner of numerals, which looks one character ahead and never back,
\* takes the longest beginning of a numeral there is and succeeds on numerals only.
AnswersExact ==
  /\ Answered("sub") => Agrees(SubMeans(q.s, q.i, q.j))
  /\ Answered("byte") => Agrees(ByteMeans(q.s, q.i, q.j))
  /\ Answered("rep") => Agrees(RepMeans(q.s, q.n, q.sep))
  /\ Answered("insert") => Agrees(InsertMeans(q.t, q.length, q.pos, q.value))
  /\ Answered("remove") => Agrees(RemoveMeans(q.t, q.length, q.pos))
  /\ Answered("move") => Agrees(MoveMeans(q.t, q.other, q.same, q.f, q.e, q.tt))
  /\ Answered("unpack") => Agrees(UnpackMeans(q.t, q.i, q.j))
  /\ Answered("table.pack") =>
       \A k \in DOMAIN q.values : At(answer.list, k) = q.values[k]
  /\ Answered("concat") => Agrees(ConcatMeans(q.t, q.sep, q.i, q.j))
  /\ Answered("number") => answer = NumeralMeans(q.s)

\* pack takes exactly what its format can hold and lays it out where the
\* alignment says, packsize foretells the length, unpack gives back what was
\* packed; and what unpack reads from any data without padding packs to the same
\* data again, so that it has read nothing else.
PackRoundTrip ==
  /\ Answered("pack") =>
       /\ (answer.raise = "") = CanPack(q.format, q.args)
       /\ answer.raise = "" =>
            LET back == StringUnpack(q.format, answer.out, 1)
            IN /\ Len(answer.out) = EndOf(q.format, q.args, Len(q.format))
               /\ back.raise = "" /\ back.offset = Len(answer.out)
               /\ back.values = ComesBack(q.format, q.args)
  /\ Answered("packsize") =>
       IF \/ VariableLength(q.format)
          \/ \E k \in DOMAIN q.format : BadOption(q.format, k)
          \/ EndOf(q.format, <<>>, Len(q.format)) > MaxInteger
       THEN answer.raise # ""
       ELSE answer.raise = "" /\ answer.offset = EndOf(q.format, <<>>, Len(q.format))
  /\ Answered("string.unpack") /\ answer.raise = "" =>
       /\ answer.offset <= Len(q.data)
       /\ WithoutPadding(q.format) =>
            StringPack(q.format, answer.values).out =
              SubSeq(q.data, Min({Max({1, Place(q.data, q.pos)}), Len(q.data) + 1}), answer.offset)

LibraryView == <<disk, file, handle, input, output, lines, turn, sortVars, part, question, answer>>
=============================================================================
