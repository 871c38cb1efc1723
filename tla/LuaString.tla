------------------------------ MODULE LuaString ------------------------------
(* The functions of the string library that take positions or patterns       *)
(* (stdlib/string.go, posRelat of stdlib/helpers.go).  Integers are as wide   *)
(* as MaxInteger says.  An answer is a sequence of values, or an error.       *)
EXTENDS LuaPattern

CONSTANTS
  MaxInteger,      \* math.MaxInt64
  MaxRepSize,      \* maxSize of stringRep
  MaxStrResult     \* maxStrResultSize

MinInteger == -MaxInteger - 1
Wrap(n) == ((n - MinInteger) % (2 * (MaxInteger + 1))) + MinInteger

Gives(values) == [values |-> values, raise |-> ""]
Raises(word) == [values |-> <<>>, raise |-> word]
NilValue == [kind |-> "nil", text |-> <<>>, at |-> 0]

\* -------------------------------------------------------------------------
\* Positions and sizes

PosRelat(pos, len) == IF pos >= 0 THEN pos ELSE Wrap(len + pos + 1)

Clipped(s, i, j) == <<Max({1, PosRelat(i, Len(s))}), Min({Len(s), PosRelat(j, Len(s))})>>

StringSub(s, i, j) ==
  LET r == Clipped(s, i, j)
  IN Gives(<<Text(IF r[1] > r[2] THEN <<>> ELSE SubSeq(s, r[1], r[2]))>>)

StringByte(s, i, j) ==
  LET r == Clipped(s, i, j)
  IN Gives(IF r[1] > r[2] THEN <<>>
           ELSE [k \in 1..(r[2] - r[1] + 1) |-> Integer(Byte[s[r[1] + k - 1]])])

StringRep(s, n, sep) ==
  LET unit == Len(s) + Len(sep)
      total == Wrap(Wrap(Len(s) * n) + Wrap(Len(sep) * (n - 1)))
  IN CASE n <= 0 -> Gives(<<Text(<<>>)>>)
       [] n > 0 /\ unit > MaxInteger \div n -> Raises("resulting string too large")
       [] n > 0 /\ unit <= MaxInteger \div n /\ total >= MaxInteger -> Raises("resulting string too large")
       [] n > 0 /\ unit <= MaxInteger \div n /\ total \in (MaxRepSize + 1)..(MaxInteger - 1) ->
            Raises("not enough memory")
       [] OTHER -> Gives(<<Text(FlattenSeq([k \in 1..n |-> IF k = 1 THEN s ELSE sep \o s]))>>)

\* -------------------------------------------------------------------------
\* Searches

Specials == {"^", "$", "*", "+", "?", ".", "(", "[", "%", "-"}
HasPatternSpecials(p) == Range(p) \intersect Specials # {}

\* strings.Index from start on (1-based), 0 if there is none.
IndexFrom(s, p, start) ==
  LET at == {i \in start..(Len(s) - Len(p) + 1) : SubSeq(s, i, i + Len(p) - 1) = p}
  IN IF at = {} THEN 0 ELSE Min(at)

StringFind(s, p, init, plain) ==
  LET start == Max({1, PosRelat(init, Len(s))})
      index == IndexFrom(s, p, start)
      m == LuaMatchFrom(s, p, init)
  IN CASE start > Len(s) + 1 -> Gives(<<NilValue>>)
       [] start <= Len(s) + 1 /\ (plain \/ ~HasPatternSpecials(p)) ->
            Gives(IF index = 0 THEN <<NilValue>> ELSE <<Integer(index), Integer(index + Len(p) - 1)>>)
       [] OTHER ->
            IF m.raise # "" THEN Raises(m.raise)
            ELSE IF ~m.found THEN Gives(<<NilValue>>)
            ELSE IF ~CheckCaptures(m.caps) THEN Raises("unfinished capture")
            ELSE Gives(<<Integer(m.from + 1), Integer(m.to)>> \o m.caps)

\* What a match answers with: its captures, or all of it.
CapturesOf(s, m) == IF m.caps = <<>> THEN <<Text(SubSeq(s, m.from + 1, m.to))>> ELSE m.caps

StringMatch(s, p, init) ==
  LET m == LuaMatchFrom(s, p, init)
  IN IF m.raise # "" THEN Raises(m.raise)
     ELSE IF ~m.found THEN Gives(<<NilValue>>)
     ELSE IF ~CheckCaptures(m.caps) THEN Raises("unfinished capture")
     ELSE Gives(CapturesOf(s, m))

\* The iterator of gmatch, called until it answers nothing: st is its state.
\* A "^" is a character like any other here.
RECURSIVE GmatchCalls(_, _, _)
GmatchCalls(s, p, st) ==
  LET m == MatchAt(s, p, st.pos)
      next == [pos |-> IF m.to = st.pos THEN st.pos + 1 ELSE m.to, lastMatch |-> m.to]
      rest == GmatchCalls(s, p, next)
  IN CASE st.pos > Len(s) -> Gives(<<>>)
       [] st.pos <= Len(s) /\ m.raise # "" -> Raises(m.raise)
       [] st.pos <= Len(s) /\ m.found /\ m.to # st.lastMatch ->
            IF ~CheckCaptures(m.caps) THEN Raises("unfinished capture")
            ELSE [rest EXCEPT !.values = CapturesOf(s, m) \o @]
       [] OTHER -> GmatchCalls(s, p, [st EXCEPT !.pos = @ + 1])

StringGmatch(s, p, init) ==
  LET first == Max({1, IF init < 0 THEN Wrap(Len(s) + init + 1) ELSE init})
  IN GmatchCalls(s, p, [pos |-> first - 1, lastMatch |-> -1])

\* -------------------------------------------------------------------------
\* gsub

\* capBuilder: no piece is added that would take the result past its limit.
Added(out, piece, limit) ==
  IF out.raise # "" THEN out
  ELSE IF Len(piece) > limit - Len(out.text) THEN [out EXCEPT !.raise = "resulting string too large"]
  ELSE [out EXCEPT !.text = @ \o piece]

Empty == [text |-> <<>>, raise |-> ""]
Decimal(n) == <<ToString(n)>>

\* What %x stands for in a replacement string.
Expansion(x, s, m, caps) ==
  LET idx == CASE x = "0" -> 0 [] x \in Range(CaptureDigits) -> DigitOf(x) [] OTHER -> -1
      c == caps[idx]
  IN CASE x = "%" -> [text |-> <<"%">>, raise |-> ""]
       [] idx = 0 -> [text |-> SubSeq(s, m.from + 1, m.to), raise |-> ""]
       [] idx > Len(caps) -> [text |-> <<>>, raise |-> "invalid capture index"]
       [] idx \in DOMAIN caps ->
            IF c = Unfinished THEN [text |-> <<>>, raise |-> "unfinished capture"]
            ELSE [text |-> IF c.kind = "integer" THEN Decimal(c.at) ELSE c.text, raise |-> ""]
       [] OTHER -> [text |-> <<>>, raise |-> "invalid use of %"]

RECURSIVE ExpandReplacement(_, _, _, _, _, _)
ExpandReplacement(repl, i, out, s, m, budget) ==
  LET piece == Expansion(CharAt(repl, i + 1), s, m, CapturesOf(s, m))
  IN IF i >= Len(repl) \/ out.raise # "" THEN out
     ELSE IF repl[i + 1] # "%"
     THEN ExpandReplacement(repl, i + 1, Added(out, <<repl[i + 1]>>, budget), s, m, budget)
     ELSE IF piece.raise # "" THEN [out EXCEPT !.raise = piece.raise]
     ELSE ExpandReplacement(repl, i + 2, Added(out, piece.text, budget), s, m, budget)

\* A table is asked for the first capture and a function is called with all of
\* them; nil and false leave the match as it is, another value is an error.
Replaced(repl, s, m) ==
  LET caps == CapturesOf(s, m)
      value == IF caps[1] \in DOMAIN repl.of THEN repl.of[caps[1]] ELSE NilValue
  IN IF caps[1] = Unfinished \/ (repl.kind = "function" /\ ~CheckCaptures(caps))
     THEN [text |-> <<>>, raise |-> "unfinished capture"]
     ELSE CASE value.kind = "string" -> [text |-> value.text, raise |-> ""]
            [] value.kind = "integer" -> [text |-> Decimal(value.at), raise |-> ""]
            [] value.kind \in {"nil", "false"} -> [text |-> SubSeq(s, m.from + 1, m.to), raise |-> ""]
            [] OTHER -> [text |-> <<>>, raise |-> "invalid replacement value"]

Replacement(repl, s, m, room) ==
  IF repl.kind = "string" THEN ExpandReplacement(repl.of, 0, Empty, s, m, room) ELSE Replaced(repl, s, m)

\* The loop of gsub: g is where it stands.
RECURSIVE GsubLoop(_, _, _, _, _)
GsubLoop(s, p, repl, maxRepl, g) ==
  LET m == MatchAt(s, SearchPat(p), g.pos)
      new == Replacement(repl, s, m, MaxStrResult - Len(g.out.text))
      here == IF g.pos < Len(s) THEN <<s[g.pos + 1]>> ELSE <<>>
      taken == m.found /\ m.to # g.lastMatch
      out == IF taken /\ m.to = g.pos THEN Added(Added(g.out, new.text, MaxStrResult), here, MaxStrResult)
             ELSE Added(g.out, IF taken THEN new.text ELSE here, MaxStrResult)
      next == [pos |-> IF taken /\ m.to # g.pos THEN m.to ELSE g.pos + 1,
               lastMatch |-> IF taken THEN m.to ELSE g.lastMatch,
               count |-> IF taken THEN g.count + 1 ELSE g.count, out |-> out]
  IN CASE g.out.raise # "" -> g
       [] g.out.raise = "" /\ (g.pos > Len(s) \/ g.count = maxRepl) -> g
       [] OTHER ->
            IF m.raise # "" THEN [g EXCEPT !.out.raise = m.raise]
            ELSE IF taken /\ new.raise # "" THEN [g EXCEPT !.out.raise = new.raise]
            ELSE IF Anchored(p) THEN next
            ELSE GsubLoop(s, p, repl, maxRepl, next)

\* limit is <<>> or how many matches are replaced at most.
StringGsub(s, p, repl, limit) ==
  LET maxRepl == IF limit = <<>> THEN -1 ELSE Max({0, limit[1]})
      g == GsubLoop(s, p, repl, maxRepl, [pos |-> 0, lastMatch |-> -1, count |-> 0, out |-> Empty])
      out == IF g.pos <= Len(s) THEN Added(g.out, SubSeq(s, g.pos + 1, Len(s)), MaxStrResult) ELSE g.out
  IN IF out.raise # "" THEN Raises(out.raise) ELSE Gives(<<Text(out.text), Integer(g.count)>>)
=============================================================================
