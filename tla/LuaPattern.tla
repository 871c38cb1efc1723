------------------------------ MODULE LuaPattern ------------------------------
(* The matcher of Lua patterns (stdlib/pattern.go).  match works on the text  *)
(* of the pattern: it loops over what always goes on in one way and calls     *)
(* itself where it may have to come back, with the captures as a stack that   *)
(* every call must leave as it was when it fails.                             *)
(*                                                                            *)
(* Strings are sequences of characters, positions count the characters before *)
(* them, as in the code.                                                      *)
EXTENDS Integers, Sequences, SequencesExt, FiniteSets, FiniteSetsExt, TLC

CONSTANTS
  MatchAt(_, _, _),  \* what the searches call: LuaMatchAt
  MaxCaptures,    \* luaMaxCaptures
  MaxMatchCalls   \* maxMatchCalls

CapUnfinished == -1
CapPosition == -2

\* The bytes of the characters that occur; NUL stands for both ends of a subject.
Byte ==
  [c \in {"NUL"} |-> 0] @@ (" " :> 32) @@ ("%" :> 37) @@ ("-" :> 45) @@ ("1" :> 49)
  @@ ("2" :> 50) @@ ("A" :> 65) @@ ("]" :> 93) @@ ("^" :> 94)
  @@ ("a" :> 97) @@ ("b" :> 98) @@ ("c" :> 99)

CharAt(p, k) == IF k < Len(p) THEN p[k + 1] ELSE ""

\* -------------------------------------------------------------------------
\* Pattern elements

AnyChar == [kind |-> "any"]
Literal(c) == [kind |-> "literal", ch |-> c]
Class(c, neg) == [kind |-> "class", class |-> c, neg |-> neg]
Between(low, high) == [kind |-> "range", low |-> low, high |-> high]

IsLetter(b) == b \in 97..122 \/ b \in 65..90
IsDigit(b) == b \in 48..57

InClass(class, b) ==
  CASE class = "a" -> IsLetter(b)
    [] class = "d" -> IsDigit(b)
    [] class = "s" -> b \in {32} \union 9..13
    [] class = "w" -> IsLetter(b) \/ IsDigit(b)
    [] class = "l" -> b \in 97..122
    [] class = "u" -> b \in 65..90
    [] class = "c" -> b < 32 \/ b = 127
    [] class = "g" -> b \in 33..126
    [] class = "p" -> b \in 33..126 /\ ~IsLetter(b) /\ ~IsDigit(b)
    [] class = "x" -> IsDigit(b) \/ b \in 97..102 \/ b \in 65..70
    [] class = "z" -> b = 0

Classes == {"a", "d", "s", "w", "l", "u", "c", "g", "p", "x", "z"}
Complements ==
  [c \in {"A"} |-> "a"] @@ ("D" :> "d") @@ ("S" :> "s") @@ ("W" :> "w") @@ ("L" :> "l")
  @@ ("U" :> "u") @@ ("C" :> "c") @@ ("G" :> "g") @@ ("P" :> "p") @@ ("X" :> "x") @@ ("Z" :> "z")

Single(e, c) ==
  CASE e.kind = "any" -> TRUE
    [] e.kind = "literal" -> c = e.ch
    [] e.kind = "class" -> InClass(e.class, Byte[c]) # e.neg
    [] e.kind = "range" -> Byte[c] \in Byte[e.low]..Byte[e.high]

Matches(e, c) ==
  IF e.kind = "set" THEN (\E k \in DOMAIN e.elems : Single(e.elems[k], c)) # e.neg
  ELSE Single(e, c)

\* %x: a class, the complement of one, or x itself.
Escaped(x) ==
  IF x \in Classes THEN Class(x, FALSE)
  ELSE IF x \in DOMAIN Complements THEN Class(Complements[x], TRUE)
  ELSE Literal(x)

RECURSIVE ParseCharSetElems(_, _)
ParseCharSetElems(set, i) ==
  IF i >= Len(set) THEN <<>>
  ELSE IF set[i + 1] = "%" /\ i + 1 < Len(set)
  THEN <<Escaped(set[i + 2])>> \o ParseCharSetElems(set, i + 2)
  ELSE IF i + 2 < Len(set) /\ set[i + 2] = "-"
  THEN <<Between(set[i + 1], set[i + 3])>> \o ParseCharSetElems(set, i + 3)
  ELSE <<Literal(set[i + 1])>> \o ParseCharSetElems(set, i + 1)

\* The place of the bracket that closes a set, from k on.
RECURSIVE SetEnd(_, _)
SetEnd(p, k) ==
  IF k >= Len(p) \/ CharAt(p, k) = "]" THEN k
  ELSE SetEnd(p, IF CharAt(p, k) = "%" /\ k + 1 < Len(p) THEN k + 2 ELSE k + 1)

Elem(elem, n) == [elem |-> elem, len |-> n, raise |-> ""]
BadElem(word) == [elem |-> AnyChar, len |-> 0, raise |-> word]

ParseCharSetAt(p, at) ==
  LET neg == CharAt(p, at + 1) = "^"
      start == IF neg THEN at + 2 ELSE at + 1
      end == SetEnd(p, IF CharAt(p, start) = "]" THEN start + 1 ELSE start)
      elems == ParseCharSetElems(SubSeq(p, start + 1, end), 0)
  IN IF end >= Len(p) THEN BadElem("missing ]")
     ELSE Elem([kind |-> "set", elems |-> elems, neg |-> neg], end - at + 1)

GetPatternElem(p, at) ==
  CASE CharAt(p, at) = "%" /\ at + 1 >= Len(p) -> BadElem("ends with %")
    [] CharAt(p, at) = "%" /\ at + 1 < Len(p) -> Elem(Escaped(p[at + 2]), 2)
    [] CharAt(p, at) = "[" -> ParseCharSetAt(p, at)
    [] CharAt(p, at) = "." -> Elem(AnyChar, 1)
    [] OTHER -> Elem(Literal(p[at + 1]), 1)

\* -------------------------------------------------------------------------
\* The matcher.  A result is the end of the match, or -1, and the captures.

Found(ms, si) == [at |-> si, caps |-> ms.caps, raise |-> ""]
Failed(ms) == [at |-> -1, caps |-> ms.caps, raise |-> ""]
Raised(word) == [at |-> -1, caps |-> <<>>, raise |-> word]
Settled(r) == r.at # -1 \/ r.raise # ""
After(ms, r) == [ms EXCEPT !.caps = r.caps]

\* The end of the balanced run at si, or -1.
MatchBalance(s, si, open, close) ==
  LET depth[k \in si..Len(s)] ==
        IF k = si THEN 0
        ELSE depth[k - 1] + (IF s[k] = open THEN 1 ELSE IF s[k] = close THEN -1 ELSE 0)
      ends == IF open = close THEN {k \in (si + 2)..Len(s) : s[k] = close}
              ELSE {k \in (si + 1)..Len(s) : depth[k] = 0}
  IN IF CharAt(s, si) # open \/ ends = {} THEN -1 ELSE Min(ends)

MatchFrontier(s, si, set) ==
  LET prev == IF si > 0 THEN s[si] ELSE "NUL"
      curr == IF si < Len(s) THEN s[si + 1] ELSE "NUL"
  IN Matches(set, curr) /\ ~Matches(set, prev)

CaptureDigits == <<"1", "2", "3", "4", "5", "6", "7", "8", "9">>
DigitOf(c) == CHOOSE l \in DOMAIN CaptureDigits : CaptureDigits[l] = c

\* The end of what capture l matched, once more at si.
MatchBackRef(ms, si, l) ==
  LET c == ms.caps[l]
      text == SubSeq(ms.s, c.init + 1, c.init + c.len)
  IN IF c.len = CapPosition \/ si + c.len > Len(ms.s) THEN -1
     ELSE IF SubSeq(ms.s, si + 1, si + c.len) = text THEN si + c.len ELSE -1

RECURSIVE Match(_, _, _), Loop(_, _, _), MatchGreedy(_, _, _, _, _), MatchLazy(_, _, _, _)

\* A call of match: one more on the stack.
Match(ms, si, pp) ==
  IF ms.depth = MaxMatchCalls THEN Raised("too complex")
  ELSE Loop([ms EXCEPT !.depth = @ + 1], si, pp)

\* Mutant: a capture that was opened in vain stays.
BugMatchOpenCapture(ms, si, pp, len) ==
  IF Len(ms.caps) >= MaxCaptures THEN Raised("too many captures")
  ELSE Match([ms EXCEPT !.caps = Append(@, [init |-> si, len |-> len])], si, pp)

MatchOpenCapture(ms, si, pp, len) ==
  LET r == Match([ms EXCEPT !.caps = Append(@, [init |-> si, len |-> len])], si, pp)
  IN IF Len(ms.caps) >= MaxCaptures THEN Raised("too many captures")
     ELSE IF Settled(r) THEN r
     ELSE [r EXCEPT !.caps = SubSeq(@, 1, Len(ms.caps))]

MatchCloseCapture(ms, si, pp) ==
  LET open == {l \in DOMAIN ms.caps : ms.caps[l].len = CapUnfinished}
      l == Max(open)
      r == Match([ms EXCEPT !.caps[l].len = si - ms.caps[l].init], si, pp)
  IN IF open = {} THEN Raised("invalid pattern capture")
     ELSE IF Settled(r) THEN r
     ELSE [r EXCEPT !.caps[l].len = CapUnfinished]

\* As many as there are from si on, then one less at a time.
CountRun(s, si, elem) ==
  Max({n \in 0..(Len(s) - si) : \A k \in 1..n : Matches(elem, s[si + k])})

MatchGreedy(ms, si, pp, count, min) ==
  LET r == Match(ms, si + count, pp)
  IN IF count < min THEN Failed(ms)
     ELSE IF Settled(r) THEN r
     ELSE MatchGreedy(After(ms, r), si, pp, count - 1, min)

MatchLazy(ms, si, pp, elem) ==
  LET r == Match(ms, si, pp)
  IN IF Settled(r) THEN r
     ELSE IF si >= Len(ms.s) \/ ~Matches(elem, CharAt(ms.s, si)) THEN Failed(After(ms, r))
     ELSE MatchLazy(After(ms, r), si + 1, pp, elem)

\* A single element and what may follow it.
LoopElem(ms, si, pp) ==
  LET e == GetPatternElem(ms.p, pp)
      suffix == CharAt(ms.p, pp + e.len)
      next == pp + e.len + 1
      here == si < Len(ms.s) /\ Matches(e.elem, CharAt(ms.s, si))
      once == Match(ms, si + 1, next)
  IN CASE e.raise # "" -> Raised(e.raise)
       [] e.raise = "" /\ ~here ->
            IF suffix \in {"*", "-", "?"} THEN Loop(ms, si, next) ELSE Failed(ms)
       [] e.raise = "" /\ here /\ suffix \in {"*", "+"} ->
            MatchGreedy(ms, si, next, CountRun(ms.s, si, e.elem), IF suffix = "+" THEN 1 ELSE 0)
       [] e.raise = "" /\ here /\ suffix = "-" -> MatchLazy(ms, si, next, e.elem)
       [] e.raise = "" /\ here /\ suffix = "?" ->
            IF Settled(once) THEN once ELSE Loop(After(ms, once), si, next)
       [] OTHER -> Loop(ms, si + 1, pp + e.len)

\* The escapes that are not single elements.
LoopEscape(ms, si, pp, x) ==
  LET balance == MatchBalance(ms.s, si, CharAt(ms.p, pp + 2), CharAt(ms.p, pp + 3))
      set == ParseCharSetAt(ms.p, pp + 2)
      l == DigitOf(x)
      back == MatchBackRef(ms, si, l)
  IN CASE x = "b" ->
            IF pp + 3 >= Len(ms.p) THEN Raised("missing arguments to %b")
            ELSE IF balance = -1 THEN Failed(ms) ELSE Loop(ms, balance, pp + 4)
       [] x = "f" ->
            IF CharAt(ms.p, pp + 2) # "[" THEN Raised("missing [ after %f")
            ELSE IF set.raise # "" THEN Raised(set.raise)
            ELSE IF MatchFrontier(ms.s, si, set.elem) THEN Loop(ms, si, pp + 2 + set.len)
            ELSE Failed(ms)
       [] x = "0" -> Raised("invalid capture index")
       [] OTHER ->
            IF l > Len(ms.caps) THEN Raised("invalid capture index")
            ELSE IF ms.caps[l].len = CapUnfinished THEN Raised("invalid capture index")
            ELSE IF back = -1 THEN Failed(ms) ELSE Loop(ms, back, pp + 2)

Loop(ms, si, pp) ==
  LET ch == CharAt(ms.p, pp)
      next == CharAt(ms.p, pp + 1)
  IN CASE pp >= Len(ms.p) -> Found(ms, si)
       [] ch = "(" -> IF next = ")" THEN MatchOpenCapture(ms, si, pp + 2, CapPosition)
                      ELSE MatchOpenCapture(ms, si, pp + 1, CapUnfinished)
       [] ch = ")" -> MatchCloseCapture(ms, si, pp + 1)
       [] ch = "$" /\ pp + 1 = Len(ms.p) -> IF si = Len(ms.s) THEN Found(ms, si) ELSE Failed(ms)
       [] ch = "%" /\ next \in {"b", "f", "0"} \union Range(CaptureDigits) -> LoopEscape(ms, si, pp, next)
       [] OTHER -> LoopElem(ms, si, pp)

\* -------------------------------------------------------------------------
\* Captures and searches

Text(s) == [kind |-> "string", text |-> s, at |-> 0]
Integer(n) == [kind |-> "integer", text |-> <<>>, at |-> n]
Unfinished == [kind |-> "unfinished", text |-> <<>>, at |-> 0]

GetCaptures(s, caps) ==
  [l \in DOMAIN caps |->
     CASE caps[l].len = CapPosition -> Integer(caps[l].init + 1)
       [] caps[l].len = CapUnfinished -> Unfinished
       [] OTHER -> Text(SubSeq(s, caps[l].init + 1, caps[l].init + caps[l].len))]

CheckCaptures(caps) == \A l \in DOMAIN caps : caps[l] # Unfinished

NoMatch == [found |-> FALSE, from |-> 0, to |-> 0, caps |-> <<>>, raise |-> ""]

LuaMatchAt(s, p, pos) ==
  LET r == Match([s |-> s, p |-> p, caps |-> <<>>, depth |-> 0], pos, 0)
  IN [found |-> r.at # -1, from |-> pos, to |-> r.at, caps |-> GetCaptures(s, r.caps), raise |-> r.raise]

Anchored(p) == CharAt(p, 0) = "^"
SearchPat(p) == IF Anchored(p) THEN SubSeq(p, 2, Len(p)) ELSE p

LuaMatchFrom(s, p, init) ==
  LET start == Max({1, IF init < 0 THEN Len(s) + init + 1 ELSE init}) - 1
      tried == [i \in start..(IF Anchored(p) THEN start ELSE Len(s)) |-> MatchAt(s, SearchPat(p), i)]
      hits == {i \in DOMAIN tried : tried[i].found \/ tried[i].raise # ""}
  IN IF start > Len(s) \/ hits = {} THEN NoMatch ELSE tried[Min(hits)]
=============================================================================
