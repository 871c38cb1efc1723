---------------------------- MODULE PatternMeaning ----------------------------
(* What a pattern means, without a matcher.  A pattern is a sequence of items *)
(* and a match is a layout: where each item ends in the subject, every item   *)
(* fitting its place.  Of the layouts that start as far left as possible, the *)
(* one is meant that gives each item in turn as much as it can (as little, if *)
(* it is lazy) and leaves the others a fit.                                   *)
EXTENDS LuaString

CONSTANT MeaningAt(_, _, _)   \* what a pattern means at a place: MeantAt

\* Items.  The text of an item is its spelling; chars are those it accepts.
One(text, chars) == [kind |-> "char", text |-> text, chars |-> chars, suffix |-> ""]
Quantified(item, suffix) == [item EXCEPT !.suffix = suffix]
Item(kind, text) == [kind |-> kind, text |-> text, chars |-> {}, suffix |-> ""]

Spelled(items) == FlattenSeq([i \in DOMAIN items |->
  items[i].text \o IF items[i].suffix = "" THEN <<>> ELSE <<items[i].suffix>>])
PatternText(p) == (IF p.anchored THEN <<"^">> ELSE <<>>) \o Spelled(p.items)

Opens(items) == {i \in DOMAIN items : items[i].kind \in {"open", "position"}}
NthOpen(items, n) == CHOOSE i \in Opens(items) : Cardinality({j \in Opens(items) : j <= i}) = n

\* The parenthesis that closes the one at i, 0 if there is none.
Closer(items, i) ==
  LET excess(j) == Cardinality({k \in i..j : items[k].kind = "open"})
                   - Cardinality({k \in i..j : items[k].kind = "close"})
      ends == {j \in (i + 1)..Len(items) : excess(j) = 0}
  IN IF ends = {} THEN 0 ELSE Min(ends)

\* Item i cannot be gone on from: it is malformed, closes or repeats a capture
\* that is not there, or opens one too many.
Wrong(items, i) ==
  LET opened == Cardinality({j \in Opens(items) : j < i})
      n == items[i].capture
  IN CASE items[i].kind = "malformed" -> TRUE
       [] items[i].kind \in {"open", "position"} -> opened >= MaxCaptures
       [] items[i].kind = "close" ->
            ~\E j \in 1..(i - 1) : items[j].kind = "open" /\ Closer(items, j) = i
       [] items[i].kind = "back" ->
            \/ n > opened
            \/ LET j == NthOpen(items, n)
               IN items[j].kind = "open" /\ Closer(items, j) \notin 1..(i - 1)
       [] OTHER -> FALSE

\* What capture n is in a layout: layout[i] is where item i begins.
CaptureIn(s, items, layout, n) ==
  LET i == NthOpen(items, n)
      j == Closer(items, i)
  IN IF items[i].kind = "position" THEN Integer(layout[i] + 1)
     ELSE IF j = 0 THEN Unfinished
     ELSE Text(SubSeq(s, layout[i] + 1, layout[j]))

CapturesIn(s, items, layout) ==
  [n \in 1..Cardinality(Opens(items)) |-> CaptureIn(s, items, layout, n)]

Repeats(suffix, n) ==
  CASE suffix = "" -> n = 1
    [] suffix = "?" -> n \in {0, 1}
    [] suffix = "+" -> n >= 1
    [] OTHER -> TRUE

CharOr(s, k) == IF k \in DOMAIN s THEN s[k] ELSE "NUL"
Times(c, s) == Cardinality({k \in DOMAIN s : s[k] = c})

\* A run that begins with open and is balanced at its end and no earlier.
IsBalanced(run, open, close) ==
  /\ Len(run) >= 2 /\ run[1] = open
  /\ IF open = close THEN run[Len(run)] = close /\ Times(open, run) = 2
     ELSE \A k \in 1..Len(run) :
            (Times(open, SubSeq(run, 1, k)) = Times(close, SubSeq(run, 1, k))) <=> (k = Len(run))

\* Item i fits between b and e.
Fits(s, items, i, layout, e) ==
  LET item == items[i]
      b == Last(layout)
      run == SubSeq(s, b + 1, e)
  IN CASE item.kind = "char" -> Repeats(item.suffix, e - b) /\ Range(run) \subseteq item.chars
       [] item.kind \in {"open", "close", "position"} -> e = b
       [] item.kind = "end" -> e = b /\ e = Len(s)
       [] item.kind = "frontier" ->
            e = b /\ CharOr(s, b + 1) \in item.chars /\ CharOr(s, b) \notin item.chars
       [] item.kind = "balance" -> IsBalanced(run, item.open, item.close)
       [] item.kind = "back" -> CaptureIn(s, items, layout, item.capture) = Text(run)

\* The layouts of the first n items from start on.
Layouts(s, items, n, start) ==
  FoldLeft(LAMBDA found, i :
             UNION {{Append(l, e) : e \in {x \in Last(l)..Len(s) : Fits(s, items, i, l, x)}} : l \in found},
           {<<start>>}, [i \in 1..n |-> i])

Preferred(items, l, m) ==
  \E d \in DOMAIN l :
    /\ \A k \in 1..(d - 1) : l[k] = m[k]
    /\ l[d] # m[d]
    /\ IF items[d - 1].suffix = "-" THEN l[d] < m[d] ELSE l[d] > m[d]

\* A malformed item raises an error where the items before it fit.
MeantAt(s, items, start) ==
  LET wrong == {i \in DOMAIN items : Wrong(items, i)}
      fits == Layouts(s, items, IF wrong = {} THEN Len(items) ELSE Min(wrong) - 1, start)
      best == CHOOSE l \in fits : \A m \in fits \ {l} : Preferred(items, l, m)
  IN IF fits = {} THEN NoMatch
     ELSE IF wrong # {} THEN [NoMatch EXCEPT !.raise = "error"]
     ELSE [found |-> TRUE, from |-> start, to |-> Last(best), raise |-> "",
           caps |-> CapturesIn(s, items, best)]

Meant(s, p, init) ==
  LET start == Max({1, IF init < 0 THEN Len(s) + init + 1 ELSE init}) - 1
      hits == {i \in start..(IF p.anchored THEN Min({start, Len(s)}) ELSE Len(s)) :
                 MeaningAt(s, p.items, i) # NoMatch}
  IN IF hits = {} THEN NoMatch ELSE MeaningAt(s, p.items, Min(hits))

Finished(m) == \A k \in DOMAIN m.caps : m.caps[k] # Unfinished
Error == Raises("error")

AnswerMeant(s, m, values) ==
  IF m.raise # "" \/ (m.found /\ ~Finished(m)) THEN Error
  ELSE Gives(IF m.found THEN values ELSE <<NilValue>>)

MatchMeans(s, p, init) == LET m == Meant(s, p, init) IN AnswerMeant(s, m, CapturesOf(s, m))

\* A text without a special character is looked for as it is.
IsPlain(p) ==
  /\ ~p.anchored
  /\ \A i \in DOMAIN p.items : p.items[i].kind \in {"char", "close"} /\ p.items[i].suffix = ""
                               /\ Cardinality(p.items[i].chars) <= 1 /\ Len(p.items[i].text) = 1

FindMeans(s, p, init, plain) ==
  LET m == Meant(s, p, init)
      text == PatternText(p)
      start == Max({1, IF init < 0 THEN Len(s) + init + 1 ELSE init})
      at == {i \in start..(Len(s) + 1) : IsPrefix(text, SubSeq(s, i, Len(s)))}
  IN IF plain \/ IsPlain(p)
     THEN Gives(IF at = {} THEN <<NilValue>> ELSE <<Integer(Min(at)), Integer(Min(at) + Len(text) - 1)>>)
     ELSE AnswerMeant(s, m, <<Integer(m.from + 1), Integer(m.to)>> \o m.caps)

\* The matches gmatch and gsub take one after the other: where they start.  One
\* begins where no other is and does not end where the one before it ended.
Taken(s, p, first) ==
  LET at == [i \in first..Len(s) |-> IF p.anchored /\ i > first THEN NoMatch ELSE MeaningAt(s, p.items, i)]
      fine(T, i) ==
        /\ at[i].found
        /\ \A j \in T : j < i => at[j].to <= i /\ at[j].to # at[i].to
  IN CHOOSE T \in SUBSET DOMAIN at : \A i \in DOMAIN at : i \in T <=> fine({j \in T : j < i}, i)

Raising(s, p, T, first) ==
  \E i \in first..Len(s) :
    /\ MeaningAt(s, p.items, i).raise # ""
    /\ (p.anchored => i = first)
    /\ \A j \in T : j < i => MeaningAt(s, p.items, j).to <= i

InOrder(T) == SetToSortSeq(T, <)

\* gmatch knows no anchor.
GmatchMeans(s, items, init) ==
  LET p == [anchored |-> FALSE, items |-> items]
      first == Max({1, IF init < 0 THEN Len(s) + init + 1 ELSE init}) - 1
      T == Taken(s, p, first)
      each == [k \in 1..Cardinality(T) |-> MeaningAt(s, items, InOrder(T)[k])]
  IN IF Raising(s, p, T, first) \/ \E k \in DOMAIN each : ~Finished(each[k]) THEN Error
     ELSE Gives(FlattenSeq([k \in DOMAIN each |-> CapturesOf(s, each[k])]))

\* What is put in place of a match.  A replacement string has parts here: texts
\* and the numbers of captures.
Substitute(s, m, repl) ==
  LET caps == CapturesOf(s, m)
      whole == Text(SubSeq(s, m.from + 1, m.to))
      got == IF caps[1] \in DOMAIN repl.of THEN repl.of[caps[1]] ELSE NilValue
      part(x) == IF x.kind = "string" THEN x ELSE IF x.at = 0 THEN whole ELSE caps[x.at]
      text(v) == IF v.kind = "integer" THEN <<ToString(v.at)>> ELSE v.text
  IN IF repl.kind = "string" THEN FlattenSeq([k \in DOMAIN repl.parts |-> text(part(repl.parts[k]))])
     ELSE IF got.kind \in {"nil", "false"} THEN whole.text ELSE text(got)

SubstituteFails(s, m, repl) ==
  LET caps == CapturesOf(s, m)
      got == IF caps[1] \in DOMAIN repl.of THEN repl.of[caps[1]] ELSE NilValue
      wanted == IF repl.kind = "string" THEN {x.at : x \in {y \in Range(repl.parts) : y.kind = "integer"}} \ {0}
                ELSE IF repl.kind = "table" THEN {1} ELSE DOMAIN caps
  IN \/ ~(wanted \subseteq {k \in DOMAIN caps : caps[k] # Unfinished})
     \/ repl.kind # "string" /\ got.kind = "other"

GsubMeans(s, p, repl, limit) ==
  LET most == IF limit = <<>> THEN Len(s) + 1 ELSE Max({0, limit[1]})
      all == InOrder(Taken(s, p, 0))
      T == Range(SubSeq(all, 1, Min({most, Len(all)})))
      m(i) == MeaningAt(s, p.items, i)
      inside(i) == \E j \in T : j <= i /\ i < m(j).to
      pieces == [k \in 1..(Len(s) + 1) |->
                   (IF k - 1 \in T THEN Substitute(s, m(k - 1), repl) ELSE <<>>)
                   \o (IF k <= Len(s) /\ ~inside(k - 1) THEN <<s[k]>> ELSE <<>>)]
      reached == Cardinality(T) < most
  IN IF (reached /\ Raising(s, p, T, 0)) \/ (\E i \in T : SubstituteFails(s, m(i), repl)) THEN Error
     ELSE IF Len(FlattenSeq(pieces)) > MaxStrResult THEN Error
     ELSE Gives(<<Text(FlattenSeq(pieces)), Integer(Cardinality(T))>>)
=============================================================================
