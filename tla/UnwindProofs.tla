---------------------------- MODULE UnwindProofs ----------------------------
(***************************************************************************)
(* Proofs about Unwind: for every set of roots and protected calls and     *)
(* every bound, a message handler that is set is that of an xpcall in      *)
(* progress with no pcall inside it, what pcall and the outermost call     *)
(* report is the last error raised on their behalf, and a Lua function     *)
(* that goes on finds the call stack and top as they were.                 *)
(*                                                                         *)
(* The first two are about the Go stack, the message handler and the error *)
(* in flight alone, so the invariant is a predicate Good(g, m, p)          *)
(* of these three.  Every step of the system pops a record, replaces the   *)
(* last one or pushes one, at most four times in a row; there is a lemma   *)
(* for each of these, and Good holds in between.  The third adds the       *)
(* predicate Frames(g, c, t, p), with the call stack and top.              *)
(***************************************************************************)
EXTENDS Unwind, SequenceTheorems, WellFoundedInduction, TLAPS

-----------------------------------------------------------------------------
(***************************************************************************)
(* The invariant.                                                          *)
(***************************************************************************)
\* A record has the fields of the Go function it stands for.
LuaFields == {"k", "base", "n", "of"}
ScopeFields == {"k", "level", "todo", "ret"}
CallFields == {"k", "kind", "st", "top", "cs", "uv", "mh", "h", "err", "raw"}
MsghFields == {"k", "err", "snap", "back", "tries"}
ClosersFields == {"k", "list", "err", "use", "all", "st", "last", "tbc", "cs", "top"}
HandlerFields == {"h", "used", "ans"}

IsRecord(r) ==
    \/ r.k = "lua" /\ DOMAIN r = LuaFields
    \/ r.k = "scope" /\ DOMAIN r = ScopeFields
    \/ r.k = "pc" /\ DOMAIN r = CallFields /\ DOMAIN r.mh = HandlerFields
    \/ r.k = "msgh" /\ DOMAIN r = MsghFields
    \/ r.k = "closers" /\ DOMAIN r = ClosersFields

IsSeq(g) == g \in Seq(Range(g))
IsCall(r, kinds) == r.k = "pc" /\ r.kind \in kinds
IsOver(r) == r.k = "pc" /\ r.st \in {"report", "done"}

\* How the records lie on each other: a scope on its Lua function; a Lua function
\* on a protected call only while that runs its body; hcall on its callMsgHandler
\* or on the xpcall that falls back; nothing on a call that has its outcome.
Seated(g, i) ==
    /\ IsRecord(g[i])
    /\ i = 1 => g[i].k = "closers" \/ IsCall(g[i], {"run", "co"})
    /\ i > 1 => ~IsOver(g[i - 1]) /\ ~IsCall(g[i], {"run", "co"})
    /\ g[i].k = "scope" => i > 1 /\ g[i - 1].k = "lua"
    /\ g[i].k = "lua" /\ i > 1 /\ g[i - 1].k = "pc" => g[i - 1].st = "body"
    /\ IsCall(g[i], {"hcall"}) =>
         i > 1 /\ (g[i - 1].k = "msgh" \/ IsCall(g[i - 1], {"xpcall"}))

\* Handler h, up to record n, is none or that of an xpcall with no pcall inside.
Live(h, g, n) ==
    h # 0 => /\ h \in 1 .. n /\ IsCall(g[h], {"xpcall"})
             /\ \A j \in h + 1 .. n : ~IsCall(g[j], {"pcall"})

\* The handler a pcall has put aside and the one a recovery has taken are live
\* where they will be set again.
Saved(g, i) ==
    g[1].k = "pc" =>
        /\ IsCall(g[i], {"pcall"}) => Live(g[i].mh.h, g, i - 1)
        /\ g[i].k = "pc" => Live(g[i].h, g, i)

\* Errors are raised on behalf of the last call that is not a library function's:
\* at record i, of call b. Where that is a pcall or the outermost call, there is
\* no message handler.
Bound(r) == r.k = "pc" /\ r.kind # "callback"
InZone(g, b, i) ==
    /\ i \in 1 .. Len(g) /\ b \in 1 .. i
    /\ IsCall(g[b], {"pcall", "run", "co"})
    /\ \A j \in b + 1 .. i : ~Bound(g[j])

Unhandled(m) == m.h = 0 /\ ~m.used

Shielded(g, i) ==
    /\ IsCall(g[i], {"pcall"}) =>
         \A b \in 1 .. i - 1 : InZone(g, b, i - 1) => Unhandled(g[i].mh)
    /\ \A b \in 1 .. i : InZone(g, b, i) =>
         g[i].k # "msgh" /\ (g[i].k = "pc" => g[i].h = 0)

\* The error a record keeps: that of a recovery, or of a loop over handlers.
Caught == {"handled", "closing", "report"}
Keeps(r) == IF r.k = "closers" THEN r.last
            ELSE IF r.k = "pc" /\ r.st \in Caught THEN r.err ELSE 0

\* The last record that keeps an error keeps the one raised last.
Settled(g, b, i) ==
    \A j \in b .. i : Keeps(g[j]) # 0 /\ (\A l \in j + 1 .. i : Keeps(g[l]) = 0) =>
        Keeps(g[j]) = g[b].raw

\* So it is below every call on behalf of which other errors are raised, and a
\* recovery has an error.
Remembered(g, i) ==
    /\ i > 1 /\ Bound(g[i]) =>
         \A b \in 1 .. i - 1 : InZone(g, b, i - 1) => Settled(g, b, i - 1)
    /\ (\E b \in 1 .. i : InZone(g, b, i)) /\ g[i].k = "pc" /\ g[i].st \in Caught =>
         g[i].err # 0

At(g, i) == Seated(g, i) /\ Saved(g, i) /\ Shielded(g, i) /\ Remembered(g, i)

\* The handler that is set is live, and the error in flight is the last one.
OnTop(g, m, p) ==
    /\ g[1].k = "pc" => Live(m.h, g, Len(g))
    /\ \A b \in 1 .. Len(g) : InZone(g, b, Len(g)) =>
         /\ Unhandled(m)
         /\ IF p # 0 THEN p = g[b].raw ELSE Settled(g, b, Len(g))
    /\ p # 0 => ~IsOver(g[Len(g)])

Good(g, m, p) ==
    /\ IsSeq(g) /\ DOMAIN m = HandlerFields
    /\ \A i \in 1 .. Len(g) : At(g, i)
    /\ IF Len(g) = 0 THEN p = 0 ELSE OnTop(g, m, p)

-----------------------------------------------------------------------------
(***************************************************************************)
(* Sequences: what pushing, popping, replacing and cutting do.             *)
(***************************************************************************)
\* A sequence over any set is one over its own elements.
LEMMA SeqOver ==
  ASSUME NEW S, NEW g \in Seq(S)
  PROVE  IsSeq(g)
  BY SeqOfRange DEF IsSeq

\* What the definition says of a sequence.
LEMMA SeqParts ==
  ASSUME NEW g, IsSeq(g)
  PROVE  /\ Len(g) \in Nat /\ DOMAIN g = 1 .. Len(g)
         /\ Len(g) = 0 <=> g = <<>>
  <1>1. /\ Len(g) \in Nat
        /\ DOMAIN g = 1 .. Len(g)
    BY LenProperties DEF IsSeq
  <1>2. g # <<>> => Len(g) # 0
    BY EmptySeq DEF IsSeq
  <1>3. g = <<>> => Len(g) = 0
    BY EmptySeq DEF IsSeq
  <1> QED BY <1>1, <1>2, <1>3

\* g2 begins with the first k elements of g.
Alike(g, g2, k) ==
    /\ IsSeq(g) /\ IsSeq(g2) /\ k \in Nat /\ k <= Len(g) /\ k <= Len(g2)
    /\ \A i \in 1 .. k : g2[i] = g[i]

\* Pushing a record.
LEMMA Pushed ==
  ASSUME NEW g, IsSeq(g), NEW r
  PROVE  /\ Alike(g, Append(g, r), Len(g))
         /\ Len(Append(g, r)) = Len(g) + 1
         /\ Append(g, r)[Len(g) + 1] = r
  <1> DEFINE S == Range(g) \cup {r}
  <1>1. g \in Seq(S)
    BY SeqMonotonic DEF IsSeq
  <1>2. /\ Append(g, r) \in Seq(S)
        /\ Len(Append(g, r)) = Len(g) + 1
        /\ \A i \in 1 .. Len(g) : Append(g, r)[i] = g[i]
        /\ Append(g, r)[Len(g) + 1] = r
    BY <1>1, AppendProperties
  <1>3. IsSeq(Append(g, r))
    BY <1>2, SeqOver
  <1> QED BY <1>2, <1>3, SeqParts DEF Alike

\* Keeping the first k records.
LEMMA Shortened ==
  ASSUME NEW g, IsSeq(g), NEW k \in Nat, k <= Len(g)
  PROVE  Alike(g, SubSeq(g, 1, k), k) /\ Len(SubSeq(g, 1, k)) = k
  <1>0. Len(g) \in Nat
    BY SeqParts
  <1>1. \A i \in 1 .. k : g[i] \in Range(g)
    BY <1>0, ElementOfSeq DEF IsSeq
  <1>2. /\ SubSeq(g, 1, k) \in Seq(Range(g))
        /\ Len(SubSeq(g, 1, k)) = IF 1 <= k THEN k - 1 + 1 ELSE 0
        /\ \A i \in 1 .. k - 1 + 1 : SubSeq(g, 1, k)[i] = g[1 + i - 1]
    BY <1>1, SubSeqProperties
  <1>3. IsSeq(SubSeq(g, 1, k))
    BY <1>2, SeqOver
  <1>4. Len(SubSeq(g, 1, k)) = k
    BY <1>2
  <1>5. \A i \in 1 .. k : SubSeq(g, 1, k)[i] = g[i]
    BY <1>2
  <1> QED BY <1>0, <1>3, <1>4, <1>5 DEF Alike

\* Popping a record.
LEMMA Popped ==
  ASSUME NEW g, IsSeq(g), Len(g) > 0
  PROVE  /\ Alike(g, Front(g), Len(g) - 1)
         /\ Len(Front(g)) = Len(g) - 1
         /\ Last(g) = g[Len(g)]
  <1>1. Len(g) - 1 \in Nat /\ Len(g) - 1 <= Len(g)
    BY SeqParts
  <1> QED BY <1>1, Shortened DEF Front, Last

\* Replacing the last record.
LEMMA Replaced ==
  ASSUME NEW g, IsSeq(g), Len(g) > 0, NEW r
  PROVE  /\ Alike(g, Append(Front(g), r), Len(g) - 1)
         /\ Len(Append(Front(g), r)) = Len(g)
         /\ Append(Front(g), r)[Len(g)] = r
  <1>0. Len(g) \in Nat
    BY SeqParts
  <1>1. Alike(g, Front(g), Len(g) - 1) /\ Len(Front(g)) = Len(g) - 1
    BY Popped
  <1>2. /\ Alike(Front(g), Append(Front(g), r), Len(g) - 1)
        /\ Len(Append(Front(g), r)) = Len(g) - 1 + 1
        /\ Append(Front(g), r)[Len(g) - 1 + 1] = r
    BY <1>1, Pushed DEF Alike
  <1> QED BY <1>0, <1>1, <1>2 DEF Alike

-----------------------------------------------------------------------------
(***************************************************************************)
(* Zones and what is kept in them, one record at a time.                   *)
(***************************************************************************)
\* What is said of record i is about the first i records.
LEMMA Below ==
  ASSUME NEW g, NEW g2, NEW k, Alike(g, g2, k), NEW i \in 1 .. k
  PROVE  /\ \A b : InZone(g2, b, i) <=> InZone(g, b, i)
         /\ \A b \in 1 .. i : Settled(g2, b, i) <=> Settled(g, b, i)
         /\ \A h : Live(h, g2, i) <=> Live(h, g, i)
  <1>0. /\ Len(g) \in Nat /\ Len(g2) \in Nat /\ k \in Nat
        /\ i \in 1 .. Len(g) /\ i \in 1 .. Len(g2)
        /\ \A j \in 1 .. i : g2[j] = g[j]
    BY SeqParts DEF Alike
  <1>1. \A b : InZone(g2, b, i) <=> InZone(g, b, i)
    BY <1>0 DEF InZone
  <1>2. \A b \in 1 .. i : Settled(g2, b, i) <=> Settled(g, b, i)
    <2> TAKE b \in 1 .. i
    <2>1. \A j \in b .. i : g2[j] = g[j] /\ Keeps(g2[j]) = Keeps(g[j])
      BY <1>0
    <2>2. g2[b].raw = g[b].raw
      BY <1>0
    <2> HIDE DEF Keeps
    <2> QED BY <1>0, <2>1, <2>2 DEF Settled
  <1>3. \A h : Live(h, g2, i) <=> Live(h, g, i)
    BY <1>0 DEF Live
  <1> QED BY <1>1, <1>2, <1>3

\* So the invariant of a record is, too.
LEMMA Carried ==
  ASSUME NEW g, NEW g2, NEW k, Alike(g, g2, k), NEW i \in 1 .. k, At(g, i)
  PROVE  At(g2, i)
  <1>0. /\ k \in Nat /\ \A j \in 1 .. i : g2[j] = g[j]
        /\ g2[i] = g[i] /\ g2[1] = g[1]
        /\ i > 1 => g2[i - 1] = g[i - 1] /\ i - 1 \in 1 .. k
    BY SeqParts DEF Alike
  <1>1. /\ \A b : InZone(g2, b, i) <=> InZone(g, b, i)
        /\ \A h : Live(h, g2, i) <=> Live(h, g, i)
    BY Below
  <1>2. i > 1 => /\ \A b : InZone(g2, b, i - 1) <=> InZone(g, b, i - 1)
                 /\ \A b \in 1 .. i - 1 : Settled(g2, b, i - 1) <=> Settled(g, b, i - 1)
                 /\ \A h : Live(h, g2, i - 1) <=> Live(h, g, i - 1)
    BY <1>0, Below
  <1>3. Seated(g2, i)
    BY <1>0 DEF At, Seated
  <1>4. ASSUME g2[1].k = "pc", IsCall(g2[i], {"pcall"})
        PROVE  Live(g2[i].mh.h, g2, i - 1)
    <2>1. Live(g[i].mh.h, g, i - 1)
      BY <1>0, <1>4 DEF At, Saved
    <2>2. i > 1
      BY <1>3, <1>4 DEF Seated, IsCall
    <2> QED BY <2>1, <2>2, <1>0, <1>2
  <1>5. Saved(g2, i)
    BY <1>0, <1>1, <1>4 DEF At, Saved
  <1>6. Shielded(g2, i)
    BY <1>0, <1>1, <1>2 DEF At, Shielded
  <1>7. Remembered(g2, i)
    BY <1>0, <1>1, <1>2 DEF At, Remembered
  <1> QED BY <1>3, <1>5, <1>6, <1>7 DEF At

\* A zone begins at a call that is not a library function's ...
LEMMA ZoneAt ==
  ASSUME NEW g, IsSeq(g), NEW i \in 1 .. Len(g), Bound(g[i])
  PROVE  \A b : InZone(g, b, i) <=> b = i /\ IsCall(g[i], {"pcall", "run", "co"})
  <1>1. Len(g) \in Nat
    BY SeqParts
  <1> QED BY <1>1 DEF InZone, Bound

\* ... and goes on with the others.
LEMMA ZoneOn ==
  ASSUME NEW g, IsSeq(g), NEW i \in 1 .. Len(g), ~Bound(g[i])
  PROVE  \A b : InZone(g, b, i) <=> i > 1 /\ InZone(g, b, i - 1)
  <1>1. Len(g) \in Nat
    BY SeqParts
  <1>2. ASSUME NEW b, InZone(g, b, i)
        PROVE  i > 1 /\ InZone(g, b, i - 1)
    <2>1. b # i
      BY <1>2 DEF InZone, Bound, IsCall
    <2> QED BY <1>1, <1>2, <2>1 DEF InZone
  <1>3. ASSUME NEW b, i > 1, InZone(g, b, i - 1)
        PROVE  InZone(g, b, i)
    <2>1. \A j \in b + 1 .. i : j \in b + 1 .. i - 1 \/ j = i
      BY <1>1, <1>3 DEF InZone
    <2> QED BY <1>1, <1>3, <2>1 DEF InZone
  <1> QED BY <1>2, <1>3

\* At the call itself it is what the call keeps,
LEMMA SettledAt ==
  ASSUME NEW g, NEW i \in Nat
  PROVE  Settled(g, i, i) <=> (Keeps(g[i]) # 0 => Keeps(g[i]) = g[i].raw)
  <1> HIDE DEF Keeps
  <1>1. \A j \in i .. i : j = i
    OBVIOUS
  <1>2. i \in i .. i /\ \A l \in i + 1 .. i : FALSE
    OBVIOUS
  <1> QED BY <1>1, <1>2 DEF Settled

\* and further up the last record that keeps an error decides.
LEMMA SettledOn ==
  ASSUME NEW g, NEW i \in Nat, NEW b \in Nat, b < i
  PROVE  Settled(g, b, i) <=> IF Keeps(g[i]) # 0 THEN Keeps(g[i]) = g[b].raw
                              ELSE Settled(g, b, i - 1)
  <1> HIDE DEF Keeps
  <1>1. CASE Keeps(g[i]) # 0
    <2>1. ASSUME Settled(g, b, i) PROVE Keeps(g[i]) = g[b].raw
      <3>1. i \in b .. i /\ \A l \in i + 1 .. i : FALSE
        OBVIOUS
      <3> QED BY <1>1, <2>1, <3>1 DEF Settled
    <2>2. ASSUME Keeps(g[i]) = g[b].raw PROVE Settled(g, b, i)
      <3>1. \A j \in b .. i : j # i => i \in j + 1 .. i
        OBVIOUS
      <3> QED BY <1>1, <2>2, <3>1 DEF Settled
    <2> QED BY <1>1, <2>1, <2>2
  <1>2. CASE Keeps(g[i]) = 0
    <2>1. \A j : j \in b .. i <=> j \in b .. i - 1 \/ j = i
      OBVIOUS
    <2>2. \A j \in b .. i - 1 : \A l : l \in j + 1 .. i <=> l \in j + 1 .. i - 1 \/ l = i
      OBVIOUS
    <2>3. \A j \in b .. i - 1 : (\A l \in j + 1 .. i : Keeps(g[l]) = 0)
                                  <=> (\A l \in j + 1 .. i - 1 : Keeps(g[l]) = 0)
      BY <1>2, <2>2
    <2> QED BY <1>2, <2>1, <2>3 DEF Settled
  <1> QED BY <1>1, <1>2

-----------------------------------------------------------------------------
(***************************************************************************)
(* The steps: popping a record, replacing the last one, pushing one.       *)
(***************************************************************************)
\* What holds of the records below holds of the records kept.
LEMMA Assembled ==
  ASSUME NEW g, NEW g2, NEW k, NEW m2, NEW p2, Alike(g, g2, k),
         \A i \in 1 .. Len(g) : At(g, i),
         \A i \in k + 1 .. Len(g2) : At(g2, i),
         Len(g2) > 0, OnTop(g2, m2, p2), DOMAIN m2 = HandlerFields
  PROVE  Good(g2, m2, p2)
  <1>0. Len(g2) \in Nat /\ Len(g) \in Nat /\ k \in Nat /\ k <= Len(g) /\ IsSeq(g2)
    BY SeqParts DEF Alike
  <1>1. \A i \in 1 .. k : At(g2, i)
    BY <1>0, Carried
  <1>2. \A i \in 1 .. Len(g2) : i \in 1 .. k \/ i \in k + 1 .. Len(g2)
    BY <1>0
  <1> QED BY <1>0, <1>1, <1>2 DEF Good

\* An empty stack.
LEMMA NothingLeft ==
  ASSUME NEW m, DOMAIN m = HandlerFields
  PROVE  Good(<<>>, m, 0)
  <1>1. <<>> \in Seq({}) /\ Len(<<>>) = 0
    BY EmptySeq
  <1>2. IsSeq(<<>>)
    BY <1>1, SeqOver
  <1> QED BY <1>1, <1>2 DEF Good

\* A stack with one record, a loop over close handlers: nothing is said of the
\* message handler.
LEMMA OnlyClosers ==
  ASSUME NEW m, DOMAIN m = HandlerFields, NEW r, r.k = "closers", IsRecord(r)
  PROVE  Good(<<r>>, m, 0)
  <1> DEFINE g == <<r>>
  <1>1. g \in Seq({r}) /\ Len(g) = 1 /\ g[1] = r
    OBVIOUS
  <1>2. IsSeq(g)
    BY <1>1, SeqOver
  <1>3. \A b, i : ~InZone(g, b, i)
    BY <1>1 DEF InZone, IsCall
  <1>4. At(g, 1)
    BY <1>1, <1>3 DEF At, Seated, Saved, Shielded, Remembered, IsCall, Bound
  <1>5. OnTop(g, m, 0)
    BY <1>1, <1>3 DEF OnTop
  <1> HIDE DEF g
  <1>6. Good(g, m, 0)
    BY <1>1, <1>2, <1>4, <1>5 DEF Good
  <1> QED BY <1>6 DEF g

\* What a good stack is.
LEMMA GoodParts ==
  ASSUME NEW g, NEW m, NEW p, Good(g, m, p)
  PROVE  /\ IsSeq(g) /\ Len(g) \in Nat /\ DOMAIN m = HandlerFields
         /\ Len(g) = 0 <=> g = <<>>
         /\ \A i \in 1 .. Len(g) : At(g, i) /\ IsRecord(g[i])
         /\ Len(g) > 0 => OnTop(g, m, p)
         /\ p # 0 => Len(g) > 0 /\ ~IsOver(g[Len(g)])
  <1>1. Len(g) \in Nat
    BY SeqParts DEF Good
  <1> QED BY <1>1, SeqParts DEF Good, At, Seated, OnTop

\* Popping: the handler that is then set must be live below, and the error in
\* flight, or that kept below, the last one raised.
LEMMA Pop ==
  ASSUME NEW g, NEW m, NEW p, Good(g, m, p), Len(g) > 1,
         NEW m2, NEW p2, DOMAIN m2 = HandlerFields,
         g[1].k = "pc" => Live(m2.h, g, Len(g) - 1),
         \A b \in 1 .. Len(g) - 1 : InZone(g, b, Len(g) - 1) =>
            /\ Unhandled(m2)
            /\ IF p2 # 0 THEN p2 = g[b].raw ELSE Settled(g, b, Len(g) - 1)
  PROVE  Good(Front(g), m2, p2)
  <1> DEFINE g2 == Front(g)
             n == Len(g) - 1
  <1>0. IsSeq(g) /\ Len(g) \in Nat /\ At(g, Len(g)) /\ \A i \in 1 .. Len(g) : At(g, i)
    BY GoodParts
  <1>1. Alike(g, g2, n) /\ Len(g2) = n /\ n \in Nat /\ n > 0
    BY <1>0, Popped
  <1>2. g2[1] = g[1] /\ g2[n] = g[n]
    BY <1>1 DEF Alike
  <1> HIDE DEF g2
  <1>3. /\ \A b : InZone(g2, b, n) <=> InZone(g, b, n)
        /\ \A b \in 1 .. n : Settled(g2, b, n) <=> Settled(g, b, n)
        /\ Live(m2.h, g2, n) <=> Live(m2.h, g, n)
    BY <1>1, Below
  <1>4. ~IsOver(g[n])
    BY <1>0, <1>1 DEF At, Seated
  <1>5. \A b \in 1 .. n : g2[b].raw = g[b].raw
    BY <1>1 DEF Alike
  <1>6. OnTop(g2, m2, p2)
    <2>1. g2[1].k = "pc" => Live(m2.h, g2, Len(g2))
      BY <1>1, <1>2, <1>3
    <2>2. ASSUME NEW b \in 1 .. Len(g2), InZone(g2, b, Len(g2))
          PROVE  /\ Unhandled(m2)
                 /\ IF p2 # 0 THEN p2 = g2[b].raw ELSE Settled(g2, b, Len(g2))
      BY <2>2, <1>1, <1>3, <1>5
    <2>3. p2 # 0 => ~IsOver(g2[Len(g2)])
      BY <1>1, <1>2, <1>4
    <2> QED BY <2>1, <2>2, <2>3 DEF OnTop
  <1>7. \A i \in n + 1 .. Len(g2) : At(g2, i)
    BY <1>1
  <1>8. Good(g2, m2, p2)
    BY <1>0, <1>1, <1>6, <1>7, Assembled
  <1> QED BY <1>8 DEF g2

\* Replacing the last record by another of its kind: on behalf of a call whose
\* errors are reported as they are, it keeps what was kept, or what was in flight.
LEMMA Retop ==
  ASSUME NEW g, NEW m, NEW p, Good(g, m, p), Len(g) > 0,
         NEW q, IsRecord(q), q.k = Last(g).k,
         q.k = "pc" => /\ q.kind = Last(g).kind /\ q.mh = Last(g).mh
                       /\ q.raw = Last(g).raw /\ q.h \in {Last(g).h, m.h},
         NEW m2, DOMAIN m2 = HandlerFields, m2.used = m.used,
         m2.h \in {0, m.h} \/ (q.k = "pc" /\ m2.h = q.h),
         \A b \in 1 .. Len(g) : InZone(g, b, Len(g)) =>
            /\ Keeps(q) = IF p # 0 THEN p ELSE Keeps(Last(g))
            /\ q.k = "pc" /\ q.st \in Caught => q.err # 0
  PROVE  Good(Append(Front(g), q), m2, 0)
  <1> DEFINE g2 == Append(Front(g), q)
             n == Len(g)
  <1>0. /\ IsSeq(g) /\ n \in Nat /\ At(g, n) /\ OnTop(g, m, p)
        /\ \A i \in 1 .. n : At(g, i)
    BY GoodParts
  <1>1. Alike(g, g2, n - 1) /\ Len(g2) = n /\ g2[n] = q /\ Last(g) = g[n]
    BY <1>0, Replaced, Popped
  <1>2. \A i \in 1 .. n - 1 : g2[i] = g[i]
    BY <1>1 DEF Alike
  <1> HIDE DEF g2
  <1>3. Bound(q) <=> Bound(g[n])
    BY <1>1 DEF Bound
  <1>4. \A kinds : IsCall(q, kinds) <=> IsCall(g[n], kinds)
    BY <1>1 DEF IsCall
  <1>5. g2[1].k = g[1].k /\ \A j \in 1 .. n : \A kinds : IsCall(g2[j], kinds) <=> IsCall(g[j], kinds)
    BY <1>0, <1>1, <1>2, <1>4
  <1>6. \A j \in 1 .. n : Bound(g2[j]) <=> Bound(g[j])
    BY <1>0, <1>1, <1>2, <1>3
  <1>7. \A b : InZone(g2, b, n) <=> InZone(g, b, n)
    BY <1>0, <1>1, <1>5, <1>6 DEF InZone
  <1>8. n > 1 => /\ \A b : InZone(g2, b, n - 1) <=> InZone(g, b, n - 1)
                 /\ \A b \in 1 .. n - 1 : Settled(g2, b, n - 1) <=> Settled(g, b, n - 1)
                 /\ \A h : Live(h, g2, n - 1) <=> Live(h, g, n - 1)
    <2>1. n > 1 => n - 1 \in 1 .. n - 1
      BY <1>0
    <2> QED BY <1>1, <2>1, Below
  <1>9. \A h : Live(h, g2, n) <=> Live(h, g, n)
    <2>1. \A j \in 1 .. n : /\ IsCall(g2[j], {"xpcall"}) <=> IsCall(g[j], {"xpcall"})
                            /\ IsCall(g2[j], {"pcall"}) <=> IsCall(g[j], {"pcall"})
      BY <1>5
    <2>2. ASSUME NEW h, h \in 1 .. n, NEW j \in h + 1 .. n
          PROVE  j \in 1 .. n
      BY <1>0, <2>2
    <2> QED BY <2>1, <2>2 DEF Live
  <1>10. Seated(g2, n)
    <2>1. Seated(g, n)
      BY <1>0 DEF At
    <2>2. n > 1 => g2[n - 1] = g[n - 1]
      BY <1>0, <1>2
    <2> QED BY <2>1, <2>2, <1>0, <1>1, <1>4 DEF Seated
  <1>11. Saved(g2, n)
    <2> SUFFICES ASSUME g2[1].k = "pc"
                 PROVE  /\ IsCall(g2[n], {"pcall"}) => Live(g2[n].mh.h, g2, n - 1)
                        /\ g2[n].k = "pc" => Live(g2[n].h, g2, n)
      BY DEF Saved
    <2>1. g[1].k = "pc" /\ Saved(g, n)
      BY <1>0, <1>5 DEF At
    <2>2. ASSUME IsCall(g2[n], {"pcall"}) PROVE Live(g2[n].mh.h, g2, n - 1)
      <3>1. n > 1
        BY <1>0, <1>1, <1>10, <2>2 DEF Seated, IsCall
      <3>2. Live(g[n].mh.h, g, n - 1)
        BY <2>1, <2>2, <1>1, <1>4 DEF Saved
      <3>3. g2[n].mh = g[n].mh
        BY <1>1, <2>2 DEF IsCall
      <3> QED BY <3>1, <3>2, <3>3, <1>8
    <2>3. ASSUME g2[n].k = "pc" PROVE Live(g2[n].h, g2, n)
      <3>1. Live(g[n].h, g, n) /\ Live(m.h, g, n)
        BY <2>1, <2>3, <1>0, <1>1 DEF Saved, OnTop
      <3> QED BY <3>1, <1>1, <1>9, <2>3
    <2> QED BY <2>2, <2>3
  <1>12. ASSUME NEW b \in 1 .. n, InZone(g2, b, n)
         PROVE  /\ InZone(g, b, n) /\ Unhandled(m) /\ g[n].k # "msgh"
                /\ q.k = "pc" => q.h = 0
    <2>1. InZone(g, b, n)
      BY <1>7, <1>12
    <2>2. Unhandled(m)
      BY <2>1, <1>0 DEF OnTop
    <2>3. g[n].k # "msgh" /\ (g[n].k = "pc" => g[n].h = 0)
      BY <2>1, <1>0 DEF At, Shielded
    <2> QED BY <2>1, <2>2, <2>3, <1>1 DEF Unhandled
  <1>13. Shielded(g2, n)
    <2>1. ASSUME IsCall(g2[n], {"pcall"}), NEW b \in 1 .. n - 1, InZone(g2, b, n - 1)
          PROVE  Unhandled(g2[n].mh)
      <3>1. n > 1
        BY <1>0, <2>1
      <3>2. InZone(g, b, n - 1)
        BY <3>1, <2>1, <1>8
      <3>3. Unhandled(g[n].mh)
        BY <3>2, <2>1, <1>0, <1>1, <1>4 DEF At, Shielded
      <3> QED BY <3>3, <1>1, <2>1 DEF IsCall
    <2>2. ASSUME NEW b \in 1 .. n, InZone(g2, b, n)
          PROVE  g2[n].k # "msgh" /\ (g2[n].k = "pc" => g2[n].h = 0)
      BY <2>2, <1>1, <1>12
    <2> QED BY <2>1, <2>2 DEF Shielded
  <1>14. Remembered(g2, n)
    <2>1. ASSUME n > 1, Bound(g2[n]), NEW b \in 1 .. n - 1, InZone(g2, b, n - 1)
          PROVE  Settled(g2, b, n - 1)
      BY <2>1, <1>0, <1>1, <1>3, <1>8 DEF At, Remembered
    <2>2. ASSUME NEW b \in 1 .. n, InZone(g2, b, n), g2[n].k = "pc", g2[n].st \in Caught
          PROVE  g2[n].err # 0
      BY <2>2, <1>1, <1>7
    <2> QED BY <2>1, <2>2 DEF Remembered
  <1>15. OnTop(g2, m2, 0)
    <2>1. ASSUME g2[1].k = "pc" PROVE Live(m2.h, g2, n)
      <3>1. Live(m.h, g, n)
        BY <1>0, <1>5, <2>1 DEF OnTop
      <3>2. q.k = "pc" => Live(q.h, g2, n)
        BY <1>1, <1>11, <2>1 DEF Saved
      <3>3. Live(0, g2, n)
        BY DEF Live
      <3> QED BY <3>1, <3>2, <3>3, <1>9
    <2>2. ASSUME NEW b \in 1 .. n, InZone(g2, b, n)
          PROVE  Unhandled(m2)
      BY <2>2, <1>12 DEF Unhandled
    <2>3. ASSUME NEW b \in 1 .. n, InZone(g2, b, n)
          PROVE  Settled(g2, b, n)
      <3>0. InZone(g, b, n)
        BY <2>3, <1>12
      <3>1. Keeps(q) = IF p # 0 THEN p ELSE Keeps(g[n])
        BY <3>0, <1>1
      <3>2. IF p # 0 THEN p = g[b].raw ELSE Settled(g, b, n)
        BY <3>0, <1>0 DEF OnTop
      <3> HIDE DEF Keeps
      <3>3. CASE b = n
        <4>1. g2[b].raw = g[b].raw
          BY <3>0, <3>3, <1>1 DEF InZone, IsCall
        <4>2. Settled(g, n, n) <=> (Keeps(g[n]) # 0 => Keeps(g[n]) = g[n].raw)
          BY <1>0, SettledAt
        <4>3. Settled(g2, n, n) <=> (Keeps(g2[n]) # 0 => Keeps(g2[n]) = g2[n].raw)
          BY <1>0, SettledAt
        <4> QED BY <3>1, <3>2, <3>3, <4>1, <4>2, <4>3, <1>1
      <3>4. CASE b # n
        <4>0. b < n /\ b \in Nat /\ n > 1 /\ b \in 1 .. n - 1
          BY <1>0, <3>4
        <4>1. g2[b].raw = g[b].raw
          BY <4>0, <1>2
        <4>2. Settled(g, b, n) <=> IF Keeps(g[n]) # 0 THEN Keeps(g[n]) = g[b].raw
                                   ELSE Settled(g, b, n - 1)
          BY <1>0, <4>0, SettledOn
        <4>3. Settled(g2, b, n) <=> IF Keeps(g2[n]) # 0 THEN Keeps(g2[n]) = g2[b].raw
                                    ELSE Settled(g2, b, n - 1)
          BY <1>0, <4>0, SettledOn
        <4>4. Settled(g2, b, n - 1) <=> Settled(g, b, n - 1)
          BY <4>0, <1>8
        <4> QED BY <3>1, <3>2, <4>1, <4>2, <4>3, <4>4, <1>1
      <3> QED BY <3>3, <3>4
    <2> QED BY <2>1, <2>2, <2>3, <1>1 DEF OnTop
  <1>16. \A i \in n - 1 + 1 .. Len(g2) : At(g2, i)
    <2>1. At(g2, n)
      BY <1>10, <1>11, <1>13, <1>14 DEF At
    <2>2. \A i \in n - 1 + 1 .. Len(g2) : i = n
      BY <1>0, <1>1
    <2> QED BY <2>1, <2>2
  <1>17. Good(g2, m2, 0)
    BY <1>0, <1>1, <1>15, <1>16, Assembled
  <1> QED BY <1>17 DEF g2

\* Pushing a record that raises no errors of its own.
LEMMA Push ==
  ASSUME NEW g, NEW m, Good(g, m, 0), Len(g) > 0, ~IsOver(Last(g)),
         NEW r, IsRecord(r), ~Bound(r), Keeps(r) = 0,
         r.k = "pc" => r.h = 0 /\ r.st = "body" /\ r.kind = "callback",
         r.k = "scope" => Last(g).k = "lua",
         r.k = "lua" /\ Last(g).k = "pc" => Last(g).st = "body",
         r.k = "msgh" => \A b : ~InZone(g, b, Len(g))
  PROVE  Good(Append(g, r), m, 0)
  <1> DEFINE g2 == Append(g, r)
             n == Len(g)
  <1>0. /\ IsSeq(g) /\ n \in Nat /\ n > 0 /\ OnTop(g, m, 0) /\ DOMAIN m = HandlerFields
        /\ \A i \in 1 .. n : At(g, i)
    BY GoodParts
  <1>1. Alike(g, g2, n) /\ Len(g2) = n + 1 /\ g2[n + 1] = r /\ Last(g) = g[n]
    BY <1>0, Pushed, Popped
  <1>2. g2[1] = g[1] /\ \A i \in 1 .. n : g2[i] = g[i]
    BY <1>0, <1>1 DEF Alike
  <1>3. IsSeq(g2) /\ n + 1 \in 1 .. Len(g2) /\ n \in 1 .. n /\ n + 1 > 1 /\ n + 1 - 1 = n
    BY <1>0, <1>1 DEF Alike
  <1> HIDE DEF g2
  <1>4. /\ \A b : InZone(g2, b, n) <=> InZone(g, b, n)
        /\ \A b \in 1 .. n : Settled(g2, b, n) <=> Settled(g, b, n)
        /\ \A h : Live(h, g2, n) <=> Live(h, g, n)
    BY <1>1, <1>3, Below
  <1>5. \A b : InZone(g2, b, n + 1) <=> InZone(g, b, n)
    BY <1>1, <1>3, <1>4, ZoneOn
  <1>6. /\ ~IsCall(r, {"pcall"}) /\ ~IsCall(r, {"xpcall"}) /\ ~IsCall(r, {"hcall"})
        /\ ~IsCall(r, {"run", "co"})
    BY DEF IsCall, Bound
  <1>7. ASSUME NEW h, Live(h, g, n) PROVE Live(h, g2, n + 1)
    BY <1>0, <1>1, <1>2, <1>6, <1>7 DEF Live
  <1>8. Seated(g2, n + 1)
    BY <1>0, <1>1, <1>2, <1>3, <1>6 DEF Seated
  <1>9. Saved(g2, n + 1)
    BY <1>1, <1>6 DEF Saved, Live
  <1>10. Shielded(g2, n + 1)
    BY <1>1, <1>5, <1>6 DEF Shielded
  <1>11. Remembered(g2, n + 1)
    BY <1>1 DEF Remembered, Caught
  <1>12. OnTop(g2, m, 0)
    <2>1. g2[1].k = "pc" => Live(m.h, g2, n + 1)
      BY <1>0, <1>2, <1>7 DEF OnTop
    <2>2. ASSUME NEW b \in 1 .. n + 1, InZone(g2, b, n + 1)
          PROVE  Unhandled(m) /\ Settled(g2, b, n + 1)
      <3>1. InZone(g, b, n) /\ b \in 1 .. n
        BY <1>0, <1>5, <2>2 DEF InZone
      <3>2. Unhandled(m) /\ Settled(g, b, n)
        BY <3>1, <1>0 DEF OnTop
      <3>3. b \in Nat /\ n + 1 \in Nat /\ b < n + 1
        BY <3>1, <1>0
      <3> HIDE DEF Keeps
      <3>4. Settled(g2, b, n + 1) <=> IF Keeps(g2[n + 1]) # 0 THEN Keeps(g2[n + 1]) = g2[b].raw
                                      ELSE Settled(g2, b, n + 1 - 1)
        BY <3>3, SettledOn
      <3> QED BY <3>1, <3>2, <3>4, <1>1, <1>3, <1>4
    <2> QED BY <1>1, <2>1, <2>2 DEF OnTop
  <1>13. \A i \in n + 1 .. Len(g2) : At(g2, i)
    <2>1. At(g2, n + 1)
      BY <1>8, <1>9, <1>10, <1>11 DEF At
    <2>2. \A i \in n + 1 .. Len(g2) : i = n + 1
      BY <1>0, <1>1
    <2> QED BY <2>1, <2>2
  <1>14. Good(g2, m, 0)
    BY <1>0, <1>1, <1>3, <1>12, <1>13, Assembled
  <1> QED BY <1>14 DEF g2

\* Pushing a protected call: pcall puts the message handler aside, xpcall sets its
\* own, the call of a message handler leaves it.
LEMMA PushCall ==
  ASSUME NEW g, NEW m, Good(g, m, 0), Len(g) > 0, ~IsOver(Last(g)),
         NEW r, IsRecord(r), r.k = "pc", r.h = 0, r.st = "body",
         NEW m2, DOMAIN m2 = HandlerFields,
         \/ r.kind = "pcall" /\ r.mh = m /\ Unhandled(m2)
         \/ r.kind = "xpcall" /\ m2.h = Len(g) + 1
         \/ r.kind = "hcall" /\ m2 = m /\ (Last(g).k = "msgh" \/ IsCall(Last(g), {"xpcall"}))
  PROVE  Good(Append(g, r), m2, 0)
  <1> DEFINE g2 == Append(g, r)
             n == Len(g)
  <1>0. /\ IsSeq(g) /\ n \in Nat /\ n > 0 /\ OnTop(g, m, 0) /\ DOMAIN m = HandlerFields
        /\ \A i \in 1 .. n : At(g, i)
    BY GoodParts
  <1>1. Alike(g, g2, n) /\ Len(g2) = n + 1 /\ g2[n + 1] = r /\ Last(g) = g[n]
    BY <1>0, Pushed, Popped
  <1>2. g2[1] = g[1] /\ \A i \in 1 .. n : g2[i] = g[i]
    BY <1>0, <1>1 DEF Alike
  <1>3. IsSeq(g2) /\ n + 1 \in 1 .. Len(g2) /\ n \in 1 .. n /\ n + 1 > 1 /\ n + 1 - 1 = n
    BY <1>0, <1>1 DEF Alike
  <1> HIDE DEF g2
  <1>4. /\ \A b : InZone(g2, b, n) <=> InZone(g, b, n)
        /\ \A b \in 1 .. n : Settled(g2, b, n) <=> Settled(g, b, n)
        /\ \A h : Live(h, g2, n) <=> Live(h, g, n)
    BY <1>1, <1>3, Below
  <1>5. Bound(r)
    BY DEF Bound
  <1>6. \A b : InZone(g2, b, n + 1) <=> b = n + 1 /\ IsCall(r, {"pcall", "run", "co"})
    BY <1>1, <1>3, <1>5, ZoneAt
  <1>7. ~IsCall(r, {"run", "co"})
    BY DEF IsCall
  <1>8. Seated(g2, n + 1)
    BY <1>0, <1>1, <1>2, <1>3, <1>7 DEF Seated, IsCall
  <1>9. Saved(g2, n + 1)
    BY <1>0, <1>1, <1>2, <1>3, <1>4 DEF Saved, Live, OnTop, IsCall
  <1>10. Shielded(g2, n + 1)
    BY <1>0, <1>1, <1>3, <1>4, <1>6 DEF Shielded, OnTop, IsCall
  <1>11. Remembered(g2, n + 1)
    <2>1. ASSUME NEW b \in 1 .. n, InZone(g2, b, n) PROVE Settled(g2, b, n)
      BY <2>1, <1>0, <1>4 DEF OnTop
    <2> QED BY <2>1, <1>1, <1>3 DEF Remembered, Caught
  <1>12. OnTop(g2, m2, 0)
    <2>1. ASSUME g2[1].k = "pc" PROVE Live(m2.h, g2, n + 1)
      <3>1. CASE r.kind = "pcall"
        BY <3>1 DEF Live, Unhandled
      <3>2. CASE r.kind = "xpcall"
        <4>1. m2.h = n + 1 /\ \A j : ~(j \in n + 2 .. n + 1)
          BY <3>2, <1>0
        <4> QED BY <3>2, <4>1, <1>0, <1>1, <1>3 DEF Live, IsCall
      <3>3. CASE r.kind = "hcall"
        <4>1. Live(m.h, g, n) /\ m2 = m
          BY <3>3, <2>1, <1>0, <1>2 DEF OnTop
        <4> QED BY <3>3, <4>1, <1>0, <1>1, <1>2 DEF Live, IsCall
      <3> QED BY <3>1, <3>2, <3>3
    <2>2. ASSUME NEW b \in 1 .. n + 1, InZone(g2, b, n + 1)
          PROVE  Unhandled(m2) /\ Settled(g2, b, n + 1)
      <3>1. b = n + 1 /\ r.kind = "pcall" /\ n + 1 \in Nat
        BY <1>0, <1>6, <2>2 DEF IsCall
      <3>2. Keeps(g2[n + 1]) = 0
        BY <1>1 DEF Keeps, Caught
      <3>3. Unhandled(m2)
        BY <3>1
      <3> HIDE DEF Keeps
      <3> QED BY <3>1, <3>2, <3>3, SettledAt
    <2>3. ~IsOver(r)
      BY DEF IsOver
    <2> QED BY <1>1, <2>1, <2>2 DEF OnTop
  <1>13. \A i \in n + 1 .. Len(g2) : At(g2, i)
    <2>1. At(g2, n + 1)
      BY <1>8, <1>9, <1>10, <1>11 DEF At
    <2>2. \A i \in n + 1 .. Len(g2) : i = n + 1
      BY <1>0, <1>1
    <2> QED BY <2>1, <2>2
  <1>14. Good(g2, m2, 0)
    BY <1>0, <1>1, <1>3, <1>12, <1>13, Assembled
  <1> QED BY <1>14 DEF g2

\* A panic that leaves records that keep nothing and are no calls.
LEMMA Truncate ==
  ASSUME NEW g, NEW m, NEW p, Good(g, m, p), p # 0,
         NEW k \in 1 .. Len(g), ~IsOver(g[k]),
         \A i \in k + 1 .. Len(g) : g[i].k \in {"lua", "scope"}
  PROVE  Good(SubSeq(g, 1, k), m, p)
  <1> DEFINE g2 == SubSeq(g, 1, k)
             n == Len(g)
  <1>0. /\ IsSeq(g) /\ n \in Nat /\ n > 0 /\ OnTop(g, m, p) /\ DOMAIN m = HandlerFields
        /\ \A i \in 1 .. n : At(g, i)
    BY GoodParts
  <1>1. Alike(g, g2, k) /\ Len(g2) = k /\ k \in 1 .. k /\ k \in Nat
    BY <1>0, Shortened
  <1>2. g2[1] = g[1] /\ \A i \in 1 .. k : g2[i] = g[i]
    BY <1>0, <1>1 DEF Alike
  <1> HIDE DEF g2
  <1>3. /\ \A b : InZone(g2, b, k) <=> InZone(g, b, k)
        /\ \A h : Live(h, g2, k) <=> Live(h, g, k)
    BY <1>1, Below
  <1>4. \A i \in k + 1 .. n : ~Bound(g[i]) /\ ~IsCall(g[i], {"xpcall"})
    BY DEF Bound, IsCall
  <1>5. ASSUME NEW b, InZone(g, b, k) PROVE InZone(g, b, n)
    <2>1. \A j \in b + 1 .. n : j \in b + 1 .. k \/ j \in k + 1 .. n
      BY <1>0, <1>5 DEF InZone
    <2> QED BY <2>1, <1>0, <1>4, <1>5 DEF InZone
  <1>6. ASSUME NEW h, Live(h, g, n) PROVE Live(h, g, k)
    <2>1. h # 0 => h \in 1 .. k
      BY <1>0, <1>4, <1>6 DEF Live
    <2> QED BY <2>1, <1>0, <1>6 DEF Live
  <1>7. OnTop(g2, m, p)
    <2>1. g2[1].k = "pc" => Live(m.h, g2, k)
      BY <1>0, <1>2, <1>3, <1>6 DEF OnTop
    <2>2. ASSUME NEW b \in 1 .. k, InZone(g2, b, k)
          PROVE  Unhandled(m) /\ p = g2[b].raw
      <3>1. InZone(g, b, n) /\ b \in 1 .. n
        BY <1>0, <1>3, <1>5, <2>2
      <3> QED BY <3>1, <1>0, <1>2 DEF OnTop
    <2>3. ~IsOver(g2[k])
      BY <1>1, <1>2
    <2> QED BY <1>1, <2>1, <2>2, <2>3 DEF OnTop
  <1>8. \A i \in k + 1 .. Len(g2) : At(g2, i)
    BY <1>1
  <1>9. Good(g2, m, p)
    BY <1>0, <1>1, <1>7, <1>8, Assembled
  <1> QED BY <1>9 DEF g2

\* An error raised: the calls on behalf of which it is raised know it.
RaisedOn(g) ==
    {i \in DOMAIN g : /\ g[i].k = "pc" /\ g[i].kind # "callback"
                      /\ \A j \in i + 1 .. Len(g) :
                            g[j].k = "pc" => g[j].kind = "callback"}
Told(g, e) == [i \in DOMAIN g |-> IF i \in RaisedOn(g)
                                  THEN [g[i] EXCEPT !.raw = e] ELSE g[i]]

\* Raising an error keeps the invariant: it is then the last one of every zone it is in.
LEMMA RaiseOne ==
  ASSUME NEW g, NEW m, Good(g, m, 0), Len(g) > 0, ~IsOver(Last(g)), NEW e, e # 0
  PROVE  Good(Told(g, e), m, e)
  <1> DEFINE g2 == Told(g, e)
             n == Len(g)
  <1>0. /\ IsSeq(g) /\ n \in Nat /\ n > 0 /\ OnTop(g, m, 0) /\ DOMAIN m = HandlerFields
        /\ \A i \in 1 .. n : At(g, i) /\ IsRecord(g[i])
        /\ DOMAIN g = 1 .. n
    BY GoodParts, SeqParts
  <1>1. IsSeq(g2) /\ Len(g2) = n
    <2> DEFINE S == {g2[i] : i \in 1 .. n}
    <2>1. g2 \in [1 .. n -> S]
      BY <1>0 DEF Told
    <2>2. g2 \in Seq(S)
      BY <2>1, <1>0, SeqDef
    <2>3. DOMAIN g2 = 1 .. n
      BY <2>1
    <2> QED BY <2>2, <2>3, <1>0, SeqOver, SeqParts
  <1>2. \A i \in 1 .. n : g2[i] = IF i \in RaisedOn(g) THEN [g[i] EXCEPT !.raw = e] ELSE g[i]
    BY <1>0 DEF Told
  <1> HIDE DEF g2
  <1>3. ASSUME NEW i \in 1 .. n
        PROVE  /\ IsRecord(g2[i]) /\ g2[i].k = g[i].k
               /\ g[i].k = "pc" => /\ g2[i].kind = g[i].kind /\ g2[i].st = g[i].st
                                   /\ g2[i].mh = g[i].mh /\ g2[i].h = g[i].h
                                   /\ g2[i].err = g[i].err
               /\ g[i].k = "closers" => g2[i].last = g[i].last
               /\ i \notin RaisedOn(g) => g2[i] = g[i]
               /\ i \in RaisedOn(g) => g2[i].raw = e
    <2>1. CASE i \notin RaisedOn(g)
      BY <2>1, <1>0, <1>2
    <2>2. CASE i \in RaisedOn(g)
      <3>1. g[i].k = "pc" /\ DOMAIN g[i] = CallFields /\ DOMAIN g[i].mh = HandlerFields
        BY <2>2, <1>0 DEF RaisedOn, IsRecord
      <3>2. g2[i] = [g[i] EXCEPT !.raw = e]
        BY <2>2, <1>2
      <3>3. DOMAIN g2[i] = CallFields /\ g2[i].raw = e
        BY <3>1, <3>2 DEF CallFields
      <3>4. /\ g2[i].k = g[i].k /\ g2[i].kind = g[i].kind /\ g2[i].st = g[i].st
            /\ g2[i].mh = g[i].mh /\ g2[i].h = g[i].h /\ g2[i].err = g[i].err
        BY <3>1, <3>2 DEF CallFields
      <3> QED BY <2>2, <3>1, <3>3, <3>4 DEF IsRecord
    <2> QED BY <2>1, <2>2
  <1>4. \A i \in 1 .. n : /\ Bound(g2[i]) <=> Bound(g[i])
                          /\ IsOver(g2[i]) <=> IsOver(g[i])
                          /\ Keeps(g2[i]) = Keeps(g[i])
                          /\ \A kinds : IsCall(g2[i], kinds) <=> IsCall(g[i], kinds)
    BY <1>3 DEF Bound, IsOver, Keeps, IsCall
  <1>5. \A i \in 1 .. n : \A b : InZone(g2, b, i) <=> InZone(g, b, i)
    BY <1>0, <1>1, <1>4 DEF InZone
  <1>6. \A i \in 0 .. n : \A h : Live(h, g2, i) <=> Live(h, g, i)
    <2> SUFFICES ASSUME NEW i \in 0 .. n, NEW h PROVE Live(h, g2, i) <=> Live(h, g, i)
      OBVIOUS
    <2>1. h \in 1 .. i => h \in 1 .. n
      BY <1>0
    <2>2. h \in 1 .. i => \A j \in h + 1 .. i : j \in 1 .. n
      BY <1>0
    <2> QED BY <2>1, <2>2, <1>4 DEF Live
  <1>7. ASSUME NEW i \in 1 .. n PROVE At(g2, i)
    <2>0. At(g, i) /\ 1 \in 1 .. n /\ (i > 1 => i - 1 \in 1 .. n)
      BY <1>0
    <2>1. Seated(g2, i)
      <3>1. Seated(g, i)
        BY <2>0 DEF At
      <3> QED BY <3>1, <2>0, <1>3, <1>4 DEF Seated
    <2>2. Saved(g2, i)
      <3>1. ASSUME g2[1].k = "pc", IsCall(g2[i], {"pcall"})
            PROVE  Live(g2[i].mh.h, g2, i - 1)
        <4>1. Live(g[i].mh.h, g, i - 1)
          BY <3>1, <2>0, <1>3, <1>4 DEF At, Saved
        <4>2. g2[i].mh = g[i].mh
          BY <3>1, <1>3, <1>4 DEF IsCall
        <4>3. i - 1 \in 0 .. n
          BY <1>0
        <4> QED BY <4>1, <4>2, <4>3, <1>6
      <3>2. ASSUME g2[1].k = "pc", g2[i].k = "pc"
            PROVE  Live(g2[i].h, g2, i)
        <4>1. Live(g[i].h, g, i) /\ g2[i].h = g[i].h
          BY <3>2, <2>0, <1>3 DEF At, Saved
        <4>2. i \in 0 .. n
          OBVIOUS
        <4> QED BY <4>1, <4>2, <1>6
      <3> QED BY <3>1, <3>2 DEF Saved
    <2>3. Shielded(g2, i)
      <3>1. Shielded(g, i)
        BY <2>0 DEF At
      <3>2. ASSUME IsCall(g2[i], {"pcall"}), NEW b \in 1 .. i - 1, InZone(g2, b, i - 1)
            PROVE  Unhandled(g2[i].mh)
        <4>1. InZone(g, b, i - 1) /\ IsCall(g[i], {"pcall"})
          BY <3>2, <2>0, <1>4, <1>5
        <4>2. g2[i].mh = g[i].mh
          BY <4>1, <1>3 DEF IsCall
        <4> QED BY <3>1, <4>1, <4>2 DEF Shielded
      <3>3. ASSUME NEW b \in 1 .. i, InZone(g2, b, i)
            PROVE  g2[i].k # "msgh" /\ (g2[i].k = "pc" => g2[i].h = 0)
        BY <3>1, <3>3, <1>3, <1>5 DEF Shielded
      <3> QED BY <3>2, <3>3 DEF Shielded
    <2>4. Remembered(g2, i)
      <3>1. Remembered(g, i)
        BY <2>0 DEF At
      <3>2. ASSUME i > 1, Bound(g2[i]), NEW b \in 1 .. i - 1, InZone(g2, b, i - 1)
            PROVE  Settled(g2, b, i - 1)
        <4>1. Bound(g[i]) /\ InZone(g, b, i - 1)
          BY <3>2, <2>0, <1>4, <1>5
        <4>2. Settled(g, b, i - 1)
          BY <3>1, <3>2, <4>1 DEF Remembered
        <4>3. b \in 1 .. n /\ i \in b + 1 .. n
          BY <1>0
        <4>4. b \notin RaisedOn(g)
          BY <4>1, <4>3, <1>0 DEF RaisedOn, Bound
        <4>5. g2[b].raw = g[b].raw
          BY <4>3, <4>4, <1>3
        <4>6. \A j \in b .. i - 1 : j \in 1 .. n /\ \A l \in j + 1 .. i - 1 : l \in 1 .. n
          BY <4>3, <1>0
        <4>7. \A j \in 1 .. n : Keeps(g2[j]) = Keeps(g[j])
          BY <1>4
        <4> HIDE DEF Keeps
        <4> QED BY <4>2, <4>5, <4>6, <4>7 DEF Settled
      <3>3. ASSUME NEW b \in 1 .. i, InZone(g2, b, i), g2[i].k = "pc", g2[i].st \in Caught
            PROVE  g2[i].err # 0
        BY <3>1, <3>3, <1>3, <1>5 DEF Remembered
      <3> QED BY <3>2, <3>3 DEF Remembered
    <2> QED BY <2>1, <2>2, <2>3, <2>4 DEF At
  <1>8. OnTop(g2, m, e)
    <2>0. 1 \in 1 .. n /\ n \in 1 .. n /\ n \in 0 .. n
      BY <1>0
    <2>1. g2[1].k = "pc" => Live(m.h, g2, n)
      BY <2>0, <1>0, <1>3, <1>6 DEF OnTop
    <2>2. ASSUME NEW b \in 1 .. n, InZone(g2, b, n)
          PROVE  Unhandled(m) /\ IF e # 0 THEN e = g2[b].raw ELSE Settled(g2, b, n)
      <3>1. InZone(g, b, n)
        BY <2>0, <2>2, <1>5
      <3>2. Unhandled(m) /\ Settled(g, b, n)
        BY <3>1, <1>0 DEF OnTop
      <3>3. b \in RaisedOn(g)
        BY <3>1, <1>0 DEF RaisedOn, InZone, IsCall, Bound
      <3>4. g2[b].raw = e
        BY <3>3, <1>3
      <3> QED BY <3>2, <3>4
    <2>3. ~IsOver(g2[n])
      BY <2>0, <1>0, <1>4, Popped
    <2> QED BY <1>1, <2>1, <2>2, <2>3 DEF OnTop
  <1>9. Good(g2, m, e)
    BY <1>0, <1>1, <1>7, <1>8 DEF Good
  <1> QED BY <1>9 DEF g2

-----------------------------------------------------------------------------
(***************************************************************************)
(* The records the steps make.                                             *)
(***************************************************************************)
LEMMA NewRecords ==
  /\ \A b, v : LET r == LuaFrame(b, v)
               IN  IsRecord(r) /\ r.k = "lua" /\ ~Bound(r) /\ Keeps(r) = 0
  /\ \A l, t, e : LET r == Scope(l, t, e)
                  IN  IsRecord(r) /\ r.k = "scope" /\ ~Bound(r) /\ Keeps(r) = 0
  /\ \A e, s, b : LET r == Handling(e, s, b)
                  IN  IsRecord(r) /\ r.k = "msgh" /\ ~Bound(r) /\ Keeps(r) = 0
  /\ \A l, e, u, a : LET r == Closers(l, e, u, a)
                     IN  IsRecord(r) /\ r.k = "closers" /\ ~Bound(r) /\ Keeps(r) = 0
  <1>1. ASSUME NEW b, NEW v, NEW r, r = LuaFrame(b, v)
        PROVE  IsRecord(r) /\ r.k = "lua" /\ ~Bound(r) /\ Keeps(r) = 0
    BY <1>1 DEF LuaFrame, IsRecord, LuaFields, Bound, Keeps
  <1>2. ASSUME NEW l, NEW t, NEW e, NEW r, r = Scope(l, t, e)
        PROVE  IsRecord(r) /\ r.k = "scope" /\ ~Bound(r) /\ Keeps(r) = 0
    BY <1>2 DEF Scope, IsRecord, ScopeFields, Bound, Keeps
  <1>3. ASSUME NEW e, NEW s, NEW b, NEW r, r = Handling(e, s, b)
        PROVE  IsRecord(r) /\ r.k = "msgh" /\ ~Bound(r) /\ Keeps(r) = 0
    BY <1>3 DEF Handling, IsRecord, MsghFields, Bound, Keeps
  <1>4. ASSUME NEW l, NEW e, NEW u, NEW a, NEW r, r = Closers(l, e, u, a)
        PROVE  IsRecord(r) /\ r.k = "closers" /\ ~Bound(r) /\ Keeps(r) = 0
    BY <1>4 DEF Closers, IsRecord, ClosersFields, Bound, Keeps
  <1> QED BY <1>1, <1>2, <1>3, <1>4

\* The record of a protected call.
LEMMA NewCall ==
  ASSUME NEW kind, NEW t, NEW c, DOMAIN mh = HandlerFields
  PROVE  LET r == Protected(kind, t, c)
         IN  /\ IsRecord(r) /\ r.k = "pc" /\ r.kind = kind /\ r.st = "body" /\ r.h = 0
             /\ Keeps(r) = 0 /\ (kind = "pcall" => r.mh = mh)
  <1>1. DOMAIN NoHandler = HandlerFields
    BY DEF NoHandler, HandlerFields
  <1>2. ASSUME NEW r, r = Protected(kind, t, c)
        PROVE  /\ DOMAIN r = CallFields
               /\ r.k = "pc" /\ r.kind = kind /\ r.st = "body" /\ r.h = 0
               /\ r.mh = IF kind = "pcall" THEN mh ELSE NoHandler
    BY <1>2 DEF Protected, CallFields
  <1>3. ASSUME NEW r, r = Protected(kind, t, c)
        PROVE  /\ IsRecord(r) /\ r.k = "pc" /\ r.kind = kind /\ r.st = "body" /\ r.h = 0
               /\ Keeps(r) = 0 /\ (kind = "pcall" => r.mh = mh)
    BY <1>1, <1>2, <1>3 DEF IsRecord, Keeps, Caught
  <1> QED BY <1>3

\* A record with some fields changed is one of the same function.
LEMMA ChangedRecord ==
  ASSUME NEW r, IsRecord(r), NEW q, DOMAIN q = DOMAIN r, q.k = r.k,
         r.k = "pc" => q.mh = r.mh
  PROVE  IsRecord(q)
  BY DEF IsRecord

\* The last record and the one below it.
LEMMA Tops ==
  ASSUME NEW g, NEW m, NEW p, Good(g, m, p), g # <<>>
  PROVE  /\ Len(g) \in Nat /\ Len(g) > 0 /\ IsSeq(g) /\ DOMAIN m = HandlerFields
         /\ IsRecord(Last(g)) /\ Last(g) = g[Len(g)]
         /\ Last(g).k \notin {"pc", "closers"} => Len(g) > 1
         /\ Last(g).k = "pc" /\ Last(g).kind \notin {"run", "co"} => Len(g) > 1
         /\ Len(g) > 1 =>
              LET r == Last(Front(g))
              IN  /\ Front(g) # <<>> /\ Len(Front(g)) = Len(g) - 1 /\ Front(g)[1] = g[1]
                  /\ r = g[Len(g) - 1] /\ IsRecord(r) /\ ~IsOver(r)
                  /\ Last(g).k = "scope" => r.k = "lua"
                  /\ Last(g).k = "lua" /\ r.k = "pc" => r.st = "body"
                  /\ IsCall(Last(g), {"hcall"}) => r.k = "msgh" \/ IsCall(r, {"xpcall"})
  <1>1. /\ Len(g) \in Nat /\ Len(g) > 0 /\ IsSeq(g) /\ DOMAIN m = HandlerFields
        /\ \A i \in 1 .. Len(g) : At(g, i) /\ IsRecord(g[i])
    BY GoodParts
  <1>2. Last(g) = g[Len(g)] /\ Alike(g, Front(g), Len(g) - 1) /\ Len(Front(g)) = Len(g) - 1
    BY <1>1, Popped
  <1>3. Seated(g, Len(g))
    BY <1>1 DEF At
  <1>4. Last(g).k \notin {"pc", "closers"} => Len(g) > 1
    BY <1>1, <1>2, <1>3 DEF Seated, IsCall
  <1>5. Last(g).k = "pc" /\ Last(g).kind \notin {"run", "co"} => Len(g) > 1
    BY <1>1, <1>2, <1>3 DEF Seated, IsCall
  <1>6. ASSUME Len(g) > 1
        PROVE  /\ Front(g) # <<>> /\ Front(g)[1] = g[1]
               /\ Last(Front(g)) = g[Len(g) - 1] /\ IsRecord(g[Len(g) - 1])
    <2>1. IsSeq(Front(g)) /\ Len(Front(g)) > 0
      BY <1>1, <1>2, <1>6 DEF Alike
    <2>2. \A i \in 1 .. Len(g) - 1 : Front(g)[i] = g[i]
      BY <1>2 DEF Alike
    <2>3. Last(Front(g)) = Front(g)[Len(Front(g))]
      BY <2>1, Popped
    <2> QED BY <2>1, <2>2, <2>3, <1>1, <1>2, <1>6, SeqParts
  <1> QED BY <1>1, <1>2, <1>3, <1>4, <1>5, <1>6 DEF Seated

\* The fields of a message handler's record.
LEMMA HandlerParts ==
  ASSUME NEW m, DOMAIN m = HandlerFields, NEW x
  PROVE  /\ DOMAIN NoHandler = HandlerFields /\ NoHandler.h = 0 /\ Unhandled(NoHandler)
         /\ LET q == [m EXCEPT !.h = x]
            IN  DOMAIN q = HandlerFields /\ q.h = x /\ q.used = m.used
         /\ LET q == [NoHandler EXCEPT !.h = x]
            IN  DOMAIN q = HandlerFields /\ q.h = x
  <1>1. DOMAIN NoHandler = HandlerFields /\ NoHandler.h = 0 /\ Unhandled(NoHandler)
    BY DEF NoHandler, HandlerFields, Unhandled
  <1>2. ASSUME NEW q, q = [m EXCEPT !.h = x]
        PROVE  DOMAIN q = HandlerFields /\ q.h = x /\ q.used = m.used
    BY <1>2 DEF HandlerFields
  <1>3. ASSUME NEW q, q = [NoHandler EXCEPT !.h = x]
        PROVE  DOMAIN q = HandlerFields /\ q.h = x
    BY <1>1, <1>3 DEF HandlerFields
  <1> QED BY <1>1, <1>2, <1>3

-----------------------------------------------------------------------------
(***************************************************************************)
(* Popping each kind of record.                                            *)
(***************************************************************************)
\* One on whose behalf no error is raised: what it keeps is raised, or nothing.
LEMMA PopFree ==
  ASSUME NEW g, NEW m, Good(g, m, 0), Len(g) > 1, ~Bound(Last(g))
  PROVE  Good(Front(g), m, Keeps(Last(g)))
  <1> DEFINE n == Len(g)
             p2 == Keeps(Last(g))
  <1>0. /\ IsSeq(g) /\ n \in Nat /\ OnTop(g, m, 0) /\ DOMAIN m = HandlerFields
        /\ Last(g) = g[n] /\ n \in 1 .. n /\ n - 1 \in Nat
    BY GoodParts, Popped
  <1>1. \A b : InZone(g, b, n) <=> n > 1 /\ InZone(g, b, n - 1)
    BY <1>0, ZoneOn
  <1>2. g[1].k = "pc" => Live(m.h, g, n - 1)
    <2> SUFFICES ASSUME g[1].k = "pc" PROVE Live(m.h, g, n - 1)
      OBVIOUS
    <2>1. Live(m.h, g, n) /\ ~IsCall(g[n], {"xpcall"})
      BY <1>0 DEF OnTop, Bound, IsCall
    <2> QED BY <2>1, <1>0 DEF Live
  <1>3. ASSUME NEW b \in 1 .. n - 1, InZone(g, b, n - 1)
        PROVE  /\ Unhandled(m)
               /\ IF p2 # 0 THEN p2 = g[b].raw ELSE Settled(g, b, n - 1)
    <2>1. InZone(g, b, n) /\ b \in 1 .. n /\ b \in Nat /\ b < n
      BY <1>0, <1>1, <1>3
    <2>2. Unhandled(m) /\ Settled(g, b, n)
      BY <2>1, <1>0 DEF OnTop
    <2> HIDE DEF Keeps
    <2>3. Settled(g, b, n) <=> IF Keeps(g[n]) # 0 THEN Keeps(g[n]) = g[b].raw
                               ELSE Settled(g, b, n - 1)
      BY <2>1, <1>0, SettledOn
    <2> QED BY <2>2, <2>3, <1>0
  <1> HIDE DEF p2
  <1>4. Good(Front(g), m, p2)
    BY <1>0, <1>2, <1>3, Pop
  <1> QED BY <1>4 DEF p2

\* callMsgHandler: there is no zone it is in.
LEMMA PopHandling ==
  ASSUME NEW g, NEW m, Good(g, m, 0), Len(g) > 1, Last(g).k = "msgh",
         NEW m2, DOMAIN m2 = HandlerFields, m2.h = m.h
  PROVE  Good(Front(g), m2, 0)
  <1> DEFINE n == Len(g)
  <1>0. /\ IsSeq(g) /\ n \in Nat /\ OnTop(g, m, 0) /\ At(g, n)
        /\ Last(g) = g[n] /\ n \in 1 .. n /\ n - 1 \in Nat
    BY GoodParts, Popped
  <1>1. ~Bound(g[n])
    BY <1>0 DEF Bound
  <1>2. \A b : InZone(g, b, n) <=> n > 1 /\ InZone(g, b, n - 1)
    BY <1>0, <1>1, ZoneOn
  <1>3. g[1].k = "pc" => Live(m2.h, g, n - 1)
    <2> SUFFICES ASSUME g[1].k = "pc" PROVE Live(m2.h, g, n - 1)
      OBVIOUS
    <2>1. Live(m.h, g, n) /\ ~IsCall(g[n], {"xpcall"})
      BY <1>0 DEF OnTop, IsCall
    <2> QED BY <2>1, <1>0 DEF Live
  <1>4. \A b \in 1 .. n - 1 : ~InZone(g, b, n - 1)
    BY <1>0, <1>2 DEF At, Shielded
  <1> QED BY <1>0, <1>3, <1>4, Pop

\* A protected call: pcall sets the message handler again that it had put aside,
\* xpcall none.
LEMMA PopCall ==
  ASSUME NEW g, NEW m, Good(g, m, 0), Len(g) > 1, Last(g).k = "pc",
         NEW m2, DOMAIN m2 = HandlerFields,
         \/ Last(g).kind = "pcall" /\ m2 = Last(g).mh
         \/ Last(g).kind = "xpcall" /\ Unhandled(m2)
         \/ Last(g).kind = "hcall" /\ m2 = m
  PROVE  Good(Front(g), m2, 0)
  <1> DEFINE n == Len(g)
  <1>0. /\ IsSeq(g) /\ n \in Nat /\ OnTop(g, m, 0) /\ At(g, n)
        /\ \A i \in 1 .. n : At(g, i)
        /\ Last(g) = g[n] /\ n \in 1 .. n /\ n - 1 \in Nat /\ n - 1 \in 1 .. n
    BY GoodParts, Popped
  <1>1. Bound(g[n])
    BY <1>0 DEF Bound
  <1>2. \A b \in 1 .. n - 1 : InZone(g, b, n - 1) => Settled(g, b, n - 1)
    BY <1>0, <1>1 DEF At, Remembered
  <1>3. CASE Last(g).kind = "pcall" /\ m2 = Last(g).mh
    <2>1. g[1].k = "pc" => Live(m2.h, g, n - 1)
      BY <1>0, <1>3 DEF At, Saved, IsCall
    <2>2. \A b \in 1 .. n - 1 : InZone(g, b, n - 1) => Unhandled(m2)
      BY <1>0, <1>3 DEF At, Shielded, IsCall
    <2> QED BY <2>1, <2>2, <1>2, Pop
  <1>4. CASE Last(g).kind = "xpcall" /\ Unhandled(m2)
    <2>1. Live(m2.h, g, n - 1)
      BY <1>4 DEF Live, Unhandled
    <2> QED BY <2>1, <1>2, <1>4, Pop
  <1>5. CASE Last(g).kind = "hcall" /\ m2 = m
    <2>1. g[1].k = "pc" => Live(m2.h, g, n - 1)
      <3> SUFFICES ASSUME g[1].k = "pc" PROVE Live(m2.h, g, n - 1)
        OBVIOUS
      <3>1. Live(m.h, g, n) /\ ~IsCall(g[n], {"xpcall"})
        BY <1>0, <1>5 DEF OnTop, IsCall
      <3> QED BY <3>1, <1>0, <1>5 DEF Live
    <2>2. g[n - 1].k = "msgh" \/ IsCall(g[n - 1], {"xpcall"})
      BY <1>0, <1>5 DEF At, Seated, IsCall
    <2>3. \A b \in 1 .. n - 1 : ~InZone(g, b, n - 1)
      <3>1. CASE g[n - 1].k = "msgh"
        BY <3>1, <1>0 DEF At, Shielded
      <3>2. CASE IsCall(g[n - 1], {"xpcall"})
        <4>1. Bound(g[n - 1]) /\ ~IsCall(g[n - 1], {"pcall", "run", "co"})
          BY <3>2 DEF Bound, IsCall
        <4> QED BY <4>1, <1>0, ZoneAt
      <3> QED BY <2>2, <3>1, <3>2
    <2> QED BY <2>1, <2>3, Pop
  <1> QED BY <1>3, <1>4, <1>5

-----------------------------------------------------------------------------
(***************************************************************************)
(* The steps of the system.                                                *)
(***************************************************************************)
Here == Good(go, mh, panic)
There == Good(go', mh', panic')

\* A local variable is declared: the Lua function only grows.
LEMMA DeclareStep == Here /\ (DeclareClose \/ DeclareCaptured) => There
  <1> SUFFICES ASSUME Here, Declare PROVE There
    BY DEF DeclareClose, DeclareCaptured
  <1> DEFINE f == Last(go)
             q == [f EXCEPT !.n = @ + 1]
  <1>1. /\ panic = 0 /\ go # <<>> /\ f.k = "lua" /\ go' = Append(Front(go), q)
        /\ mh' = mh /\ panic' = panic
    BY DEF Declare, Running, Calm, On, WithLast
  <1>2. Good(go, mh, 0) /\ Len(go) > 0 /\ IsRecord(f) /\ DOMAIN mh = HandlerFields
    BY <1>1, Tops DEF Here
  <1>3. DOMAIN q = DOMAIN f /\ q.k = f.k
    BY <1>1, <1>2 DEF IsRecord, LuaFields
  <1>4. IsRecord(q) /\ Keeps(q) = 0 /\ Keeps(f) = 0
    BY <1>1, <1>2, <1>3, ChangedRecord DEF Keeps
  <1> HIDE DEF q, f
  <1>5. Good(Append(Front(go), q), mh, 0)
    BY <1>1, <1>2, <1>3, <1>4, Retop DEF f
  <1> QED BY <1>1, <1>5 DEF There

\* A block or a function is left: its scope goes on top, and keeps nothing.
LEMMA ScopeStep == Here /\ (EndBlock \/ Return) => There
  <1> SUFFICES ASSUME Here, Running, NEW level, NEW ret, CloseScope(level, ret)
               PROVE  There
    BY DEF EndBlock, Return
  <1>1. PICK todo : go' = Append(go, Scope(level, todo, ret))
    BY DEF CloseScope
  <1>2. panic = 0 /\ go # <<>> /\ Last(go).k = "lua" /\ mh' = mh /\ panic' = panic
    BY DEF CloseScope, Running, Calm, On
  <1> DEFINE r == Scope(level, todo, ret)
  <1>3. IsRecord(r) /\ r.k = "scope" /\ ~Bound(r) /\ Keeps(r) = 0
    BY NewRecords
  <1>4. Good(go, mh, 0) /\ Len(go) > 0 /\ ~IsOver(Last(go))
    BY <1>2, Tops DEF Here, IsOver
  <1> HIDE DEF r
  <1>5. Good(Append(go, r), mh, 0)
    BY <1>2, <1>3, <1>4, Push
  <1> QED BY <1>1, <1>2, <1>5 DEF There, r

\* Pushing a Lua function on a record that calls one.
LEMMA PushLua ==
  ASSUME NEW g, NEW m, Good(g, m, 0), Len(g) > 0, NEW base, NEW v,
         Last(g).k = "pc" => Last(g).st = "body"
  PROVE  Good(Append(g, LuaFrame(base, v)), m, 0)
  <1> DEFINE r == LuaFrame(base, v)
  <1>1. IsRecord(r) /\ r.k = "lua" /\ ~Bound(r) /\ Keeps(r) = 0
    BY NewRecords
  <1>2. ~IsOver(Last(g))
    BY DEF IsOver
  <1> HIDE DEF r
  <1>3. Good(Append(g, r), m, 0)
    BY <1>1, <1>2, Push
  <1> QED BY <1>3 DEF r

\* A Lua function calls another.
LEMMA CallStep == Here /\ Call => There
  <1> SUFFICES ASSUME Here, Call PROVE There
    OBVIOUS
  <1>1. /\ panic = 0 /\ go # <<>> /\ Last(go).k = "lua" /\ mh' = mh /\ panic' = panic
        /\ go' = Append(go, LuaFrame(top, 0))
    BY DEF Call, EnterLua, Running, Calm, On
  <1>2. Good(go, mh, 0) /\ Len(go) > 0
    BY <1>1, Tops DEF Here
  <1> QED BY <1>1, <1>2, PushLua DEF There

\* A Lua function raises an error.
LEMMA RaiseStep == Here /\ nerr \in Nat /\ Raise => There
  <1> SUFFICES ASSUME Here, nerr \in Nat, Raise PROVE There
    OBVIOUS
  <1>1. /\ panic = 0 /\ go # <<>> /\ Last(go).k = "lua" /\ mh' = mh
        /\ panic' = nerr + 1
        /\ go' = [i \in DOMAIN go |-> IF i \in Boundary
                                      THEN [go[i] EXCEPT !.raw = nerr + 1] ELSE go[i]]
    BY DEF Raise, Running, Calm, On
  <1>2. Boundary = RaisedOn(go)
    BY DEF Boundary, RaisedOn
  <1>3. go' = Told(go, nerr + 1)
    BY <1>1, <1>2 DEF Told
  <1>4. Good(go, mh, 0) /\ Len(go) > 0 /\ ~IsOver(Last(go)) /\ nerr + 1 # 0
    BY <1>1, Tops DEF Here, IsOver
  <1> QED BY <1>1, <1>3, <1>4, RaiseOne DEF There

\* pcall, xpcall, or a library function that calls back.
LEMMA ProtectedCallStep == Here /\ (\E kind \in Kinds : ProtectedCall(kind)) => There
  <1> SUFFICES ASSUME Here, NEW kind \in Kinds, ProtectedCall(kind) PROVE There
    OBVIOUS
  <1>1. PICK t, c : /\ go' = Append(Append(go, Protected(kind, t, c)), LuaFrame(t, 0))
                    /\ mh' = HandlerFor(kind)
    BY DEF ProtectedCall, EnterLua
  <1>2. panic = 0 /\ go # <<>> /\ Last(go).k = "lua" /\ panic' = panic
    BY DEF ProtectedCall, Running, Calm, On
  <1> DEFINE r == Protected(kind, t, c)
  <1>3. /\ Good(go, mh, 0) /\ Len(go) > 0 /\ ~IsOver(Last(go)) /\ IsSeq(go)
        /\ DOMAIN mh = HandlerFields
    BY <1>2, Tops DEF Here, IsOver
  <1>4. /\ IsRecord(r) /\ r.k = "pc" /\ r.kind = kind /\ r.st = "body" /\ r.h = 0
        /\ Keeps(r) = 0 /\ (kind = "pcall" => r.mh = mh)
    BY <1>3, NewCall
  <1> HIDE DEF r
  <1>5. /\ DOMAIN mh' = HandlerFields
        /\ kind = "pcall" => Unhandled(mh')
        /\ kind = "xpcall" => mh'.h = Len(go) + 1
        /\ kind = "callback" => mh' = mh
    <2>1. mh' = IF kind = "pcall" THEN NoHandler
                ELSE IF kind = "xpcall" THEN [NoHandler EXCEPT !.h = Len(go) + 1]
                ELSE mh
      BY <1>1 DEF HandlerFor
    <2>2. /\ DOMAIN NoHandler = HandlerFields /\ Unhandled(NoHandler)
          /\ LET q == [NoHandler EXCEPT !.h = Len(go) + 1]
             IN  DOMAIN q = HandlerFields /\ q.h = Len(go) + 1
      BY <1>3, HandlerParts
    <2> QED BY <2>1, <2>2, <1>3
  <1>6. kind \in {"pcall", "xpcall", "callback"}
    BY UnwindAssumption
  <1>7. Good(Append(go, r), mh', 0)
    <2>1. CASE kind = "pcall"
      BY <2>1, <1>3, <1>4, <1>5, PushCall
    <2>2. CASE kind = "xpcall"
      BY <2>2, <1>3, <1>4, <1>5, PushCall
    <2>3. CASE kind = "callback"
      <3>1. ~Bound(r) /\ r.k # "scope" /\ r.k # "lua" /\ r.k # "msgh" /\ r.kind = "callback"
        BY <2>3, <1>4 DEF Bound
      <3>2. Good(Append(go, r), mh, 0)
        BY <3>1, <1>3, <1>4, Push
      <3> QED BY <2>3, <3>2, <1>5
    <2> QED BY <2>1, <2>2, <2>3, <1>6
  <1>8. Len(Append(go, r)) > 0 /\ Last(Append(go, r)) = r
    <2>1. Len(Append(go, r)) = Len(go) + 1 /\ Append(go, r)[Len(go) + 1] = r
      BY <1>3, Pushed
    <2> QED BY <2>1, <1>3, SeqParts DEF Last
  <1>9. Good(Append(Append(go, r), LuaFrame(t, 0)), mh', 0)
    BY <1>4, <1>7, <1>8, PushLua
  <1> QED BY <1>1, <1>2, <1>9 DEF There, r

\* The record on top after a push or a replacement.
LEMMA NowLast ==
  ASSUME NEW g, IsSeq(g), NEW r
  PROVE  /\ Len(Append(g, r)) > 0 /\ Last(Append(g, r)) = r
         /\ Len(Append(g, r)) = Len(g) + 1 /\ IsSeq(Append(g, r))
         /\ Len(g) > 0 => IsSeq(Front(g))
  <1>1. Len(g) \in Nat /\ Len(Append(g, r)) = Len(g) + 1 /\ Append(g, r)[Len(g) + 1] = r
    BY Pushed, SeqParts
  <1>2. IsSeq(Append(g, r))
    BY Pushed DEF Alike
  <1>3. Len(g) > 0 => IsSeq(Front(g))
    BY Popped DEF Alike
  <1> QED BY <1>1, <1>2, <1>3 DEF Last

\* callCloseMetamethod, called by a scope or by a loop over close handlers.
LEMMA CallsClose ==
  ASSUME NEW g, Good(g, mh, 0), Len(g) > 0, Last(g).k # "pc", NEW slot,
         CallClose(g, slot)
  PROVE  Good(go', mh, 0)
  <1>1. CASE Held(slot) = 0
    BY <1>1 DEF CallClose
  <1>2. CASE Held(slot) # 0
    <2>1. go' = Append(g, LuaFrame(top, Held(slot)))
      BY <1>2 DEF CallClose, EnterLua
    <2> QED BY <2>1, PushLua
  <1> QED BY <1>1, <1>2

\* A scope calls its next close handler.
LEMMA ScopeNextStep == Here /\ ScopeNext => There
  <1> SUFFICES ASSUME Here, ScopeNext PROVE There
    OBVIOUS
  <1> DEFINE s == Last(go)
             q == [s EXCEPT !.todo = Front(@)]
  <1>1. /\ panic = 0 /\ go # <<>> /\ s.k = "scope" /\ mh' = mh /\ panic' = panic
    BY DEF ScopeNext, Calm, On
  <1>2. PICK slot : CallClose(Append(Front(go), q), slot)
    BY DEF ScopeNext, WithLast
  <1>3. /\ Good(go, mh, 0) /\ Len(go) > 0 /\ IsRecord(s) /\ DOMAIN mh = HandlerFields
        /\ IsSeq(go)
    BY <1>1, Tops DEF Here
  <1>4. DOMAIN q = DOMAIN s /\ q.k = s.k
    BY <1>1, <1>3 DEF IsRecord, ScopeFields
  <1>5. IsRecord(q) /\ Keeps(q) = 0 /\ Keeps(s) = 0
    BY <1>1, <1>3, <1>4, ChangedRecord DEF Keeps
  <1> HIDE DEF q, s
  <1>6. Good(Append(Front(go), q), mh, 0)
    BY <1>1, <1>3, <1>4, <1>5, Retop DEF s
  <1>7. Len(Append(Front(go), q)) > 0 /\ Last(Append(Front(go), q)) = q
    BY <1>3, NowLast
  <1>8. Good(go', mh, 0)
    BY <1>1, <1>2, <1>4, <1>6, <1>7, CallsClose
  <1> QED BY <1>1, <1>8 DEF There

\* A block has been left: back to its Lua function.
LEMMA BlockDoneStep == Here /\ BlockDone => There
  <1> SUFFICES ASSUME Here, BlockDone PROVE There
    OBVIOUS
  <1> DEFINE g == Front(go)
             f == Last(Front(go))
             q == [f EXCEPT !.n = Last(go).level - f.base]
  <1>1. /\ panic = 0 /\ go # <<>> /\ Last(go).k = "scope" /\ mh' = mh /\ panic' = panic
        /\ go' = Append(Front(g), q)
    BY DEF BlockDone, Calm, On
  <1>2. Good(go, mh, 0) /\ Len(go) > 1 /\ DOMAIN mh = HandlerFields
    BY <1>1, Tops DEF Here
  <1>3. f.k = "lua" /\ g # <<>>
    BY <1>1, <1>2, Tops
  <1>4. ~Bound(Last(go)) /\ Keeps(Last(go)) = 0
    BY <1>1 DEF Bound, Keeps
  <1>5. Good(g, mh, 0)
    BY <1>2, <1>4, PopFree
  <1>6. Len(g) > 0 /\ IsRecord(f) /\ f = Last(g)
    BY <1>3, <1>5, Tops
  <1>7. DOMAIN q = DOMAIN f /\ q.k = f.k
    BY <1>3, <1>6 DEF IsRecord, LuaFields
  <1>8. IsRecord(q) /\ Keeps(q) = 0 /\ Keeps(f) = 0
    BY <1>3, <1>6, <1>7, ChangedRecord DEF Keeps
  <1> HIDE DEF q, f, g
  <1>9. Good(Append(Front(g), q), mh, 0)
    BY <1>2, <1>3, <1>5, <1>6, <1>7, <1>8, Retop
  <1> QED BY <1>1, <1>9 DEF There

\* A Lua function returns: back to whoever called it.
LEMMA FrameDoneStep == Here /\ FrameDone => There
  <1> SUFFICES ASSUME Here, FrameDone PROVE There
    OBVIOUS
  <1> DEFINE g == Front(go)
             b == Front(Front(go))
             r == Last(b)
             q == [r EXCEPT !.st = IF r.k = "pc" THEN "done" ELSE "next"]
  <1>1. /\ panic = 0 /\ go # <<>> /\ Last(go).k = "scope" /\ mh' = mh /\ panic' = panic
        /\ go' = IF r.k \in {"pc", "closers"} THEN Append(Front(b), q) ELSE b
    BY DEF FrameDone, Calm, On
  <1>2. Good(go, mh, 0) /\ Len(go) > 1 /\ DOMAIN mh = HandlerFields
    BY <1>1, Tops DEF Here
  <1>3. Last(g).k = "lua" /\ g # <<>>
    BY <1>1, <1>2, Tops
  <1>4. ~Bound(Last(go)) /\ Keeps(Last(go)) = 0 /\ ~Bound(Last(g)) /\ Keeps(Last(g)) = 0
    BY <1>1, <1>3 DEF Bound, Keeps
  <1>5. Good(g, mh, 0)
    BY <1>2, <1>4, PopFree
  <1>6. /\ Len(g) > 1 /\ b # <<>> /\ IsRecord(r) /\ (r.k = "pc" => r.st = "body")
    BY <1>3, <1>5, Tops
  <1>7. Good(b, mh, 0)
    BY <1>4, <1>5, <1>6, PopFree
  <1>8. Len(b) > 0
    BY <1>6, <1>7, Tops
  <1>9. CASE r.k \notin {"pc", "closers"}
    BY <1>1, <1>7, <1>9 DEF There
  <1>10. CASE r.k \in {"pc", "closers"}
    <2>1. ASSUME r.k = "pc" PROVE Good(Append(Front(b), q), mh, 0)
      <3>0. q = [r EXCEPT !.st = "done"] /\ DOMAIN r = CallFields
        BY <2>1, <1>6 DEF IsRecord
      <3>1. /\ DOMAIN q = DOMAIN r /\ q.k = r.k /\ q.mh = r.mh
            /\ q.kind = r.kind /\ q.raw = r.raw /\ q.h = r.h /\ q.st = "done"
        BY <3>0 DEF CallFields
      <3>2. IsRecord(q) /\ Keeps(q) = 0 /\ Keeps(r) = 0 /\ q.st \notin Caught
        BY <2>1, <3>1, <1>6, ChangedRecord DEF Keeps, Caught
      <3> HIDE DEF q, r, b, g
      <3> QED BY <3>1, <3>2, <2>1, <1>2, <1>7, <1>8, Retop DEF r
    <2>2. ASSUME r.k = "closers" PROVE Good(Append(Front(b), q), mh, 0)
      <3>0. q = [r EXCEPT !.st = "next"] /\ DOMAIN r = ClosersFields
        BY <2>2, <1>6 DEF IsRecord
      <3>1. DOMAIN q = DOMAIN r /\ q.k = r.k /\ q.last = r.last
        BY <3>0 DEF ClosersFields
      <3>2. IsRecord(q) /\ Keeps(q) = Keeps(r)
        BY <2>2, <3>1, <1>6, ChangedRecord DEF Keeps
      <3> HIDE DEF q, r, b, g
      <3> QED BY <3>1, <3>2, <2>2, <1>2, <1>7, <1>8, Retop DEF r
    <2>3. Good(Append(Front(b), q), mh, 0)
      BY <2>1, <2>2, <1>10
    <2> HIDE DEF q, r, b, g
    <2> QED BY <2>3, <1>1, <1>10 DEF There
  <1> QED BY <1>9, <1>10

\* A set of numbers up to n has a greatest one.
LEMMA Greatest ==
  ASSUME NEW n \in Nat, NEW S, S \subseteq 0 .. n, S # {}
  PROVE  Max(S) \in S /\ \A y \in S : y <= Max(S)
  <1> DEFINE R == OpToRel(<, Nat)
             T == {n - x : x \in S}
  <1>1. \A x, y \in Nat : x < y => <<x, y>> \in R
    BY DEF OpToRel
  <1>3. IsWellFoundedOn(R, Nat)
    BY NatLessThanWellFounded
  <1> HIDE DEF R
  <1>2. T \subseteq Nat /\ T # {}
    <2>1. \A x \in S : x \in 0 .. n /\ n - x \in Nat
      OBVIOUS
    <2> QED BY <2>1
  <1>4. PICK t \in T : \A y \in T : ~ (<<y, t>> \in R)
    BY <1>2, <1>3, WFMin
  <1>5. PICK x \in S : t = n - x
    BY <1>4
  <1>6. \A y \in S : x >= y
    <2> SUFFICES ASSUME NEW y \in S PROVE x >= y
      OBVIOUS
    <2>1. n - y \in T /\ n - y \in Nat /\ t \in Nat
      BY <1>2, <1>4
    <2>2. ~(n - y < t)
      BY <1>1, <1>4, <2>1
    <2>3. x \in Int /\ y \in Int
      OBVIOUS
    <2> QED BY <1>5, <2>2, <2>3
  <1>7. \E z \in S : \A y \in S : z >= y
    BY <1>6
  <1>8. Max(S) \in S /\ \A y \in S : Max(S) >= y
    BY <1>7 DEF Max
  <1>9. \A y \in S : y \in Int
    OBVIOUS
  <1> HIDE DEF T
  <1> QED BY <1>8, <1>9

\* A panic unwinds Lua functions and scopes, which keep nothing and are no calls.
LEMMA PropagateStep == Here /\ Propagate => There
  <1> SUFFICES ASSUME Here, Propagate PROVE There
    OBVIOUS
  <1> DEFINE n == Len(go)
             S == Catching \cup {0}
  <1>1. /\ panic # 0 /\ go # <<>> /\ mh' = mh /\ Last(go).k \in {"lua", "scope"}
        /\ go' = SubSeq(go, 1, Max(S))
        /\ panic' = IF Catching = {} THEN 0 ELSE panic
    BY DEF Propagate, On
  <1>0. \A i \in 1 .. n : At(go, i)
    BY <1>1, GoodParts DEF Here
  <1>2. n \in Nat /\ n > 0 /\ IsSeq(go) /\ Last(go) = go[n]
    BY <1>1, GoodParts, Popped DEF Here
  <1>2a. \A i : i \in Catching <=> i \in 1 .. n /\ go[i].k \notin {"lua", "scope"}
    <2>1. DOMAIN go = 1 .. n
      BY <1>2, SeqParts
    <2> QED BY <2>1 DEF Catching
  <1>3. go[1].k \in {"closers", "pc"}
    BY <1>0, <1>2 DEF At, Seated, IsCall
  <1>4. 1 \in Catching /\ S \subseteq 0 .. n
    BY <1>2, <1>3, <1>2a
  <1>5. PICK to : to = Max(S) /\ to \in S /\ \A y \in S : y <= to
    BY <1>2, <1>4, Greatest
  <1>6. go' = SubSeq(go, 1, to)
    BY <1>1, <1>5, Zenon
  <1> HIDE DEF S
  <1>7. to \in 1 .. n /\ go[to].k \notin {"lua", "scope"} /\ to # n
    <2>1. to \in 0 .. n
      BY <1>4, <1>5
    <2>2. 1 <= to
      BY <1>4, <1>5 DEF S
    <2>3. to \in Catching
      BY <1>5, <2>1, <2>2 DEF S
    <2> QED BY <2>1, <2>2, <2>3, <1>1, <1>2, <1>2a
  <1>8. \A i \in to + 1 .. n : go[i].k \in {"lua", "scope"}
    <2> SUFFICES ASSUME NEW i \in to + 1 .. n, go[i].k \notin {"lua", "scope"} PROVE FALSE
      OBVIOUS
    <2>1. i \in 1 .. n /\ ~(i <= to)
      BY <1>2, <1>7
    <2>2. i \in S
      BY <1>2a, <2>1 DEF S
    <2> QED BY <2>1, <2>2, <1>5
  <1>8a. ~IsOver(go[to])
    <2>1. PICK i \in 1 .. n : i > 1 /\ i - 1 = to
      BY <1>2, <1>7
    <2>2. Seated(go, i)
      BY <1>0 DEF At
    <2>3. ~IsOver(go[i - 1])
      BY <2>1, <2>2 DEF Seated
    <2> QED BY <2>1, <2>3
  <1>9. Good(SubSeq(go, 1, to), mh, panic)
    BY <1>1, <1>7, <1>8, <1>8a, Truncate DEF Here
  <1>10. panic' = panic
    BY <1>1, <1>4
  <1> QED BY <1>1, <1>6, <1>9, <1>10 DEF There

\* A recovery: the call keeps the error in flight and takes the message handler.
LEMMA RecoverStep == Here /\ Recover => There
  <1> SUFFICES ASSUME Here, Recover PROVE There
    OBVIOUS
  <1> DEFINE p == Last(go)
             q == [p EXCEPT !.st = "handled", !.err = panic, !.h = mh.h]
             m2 == [mh EXCEPT !.h = 0]
  <1>1. PICK snap, back :
          go' = IF mh.h = 0 THEN Append(Front(go), q)
                ELSE Append(Append(Front(go), q), Handling(panic, snap, back))
    BY DEF Recover, WithLast
  <1>2. panic # 0 /\ go # <<>> /\ p.k = "pc" /\ panic' = 0 /\ mh' = m2
    BY DEF Recover, On
  <1>3. /\ Good(go, mh, panic) /\ Len(go) > 0 /\ IsRecord(p) /\ DOMAIN mh = HandlerFields
        /\ IsSeq(go) /\ Len(go) \in Nat
    BY <1>2, Tops DEF Here
  <1>4. DOMAIN p = CallFields
    BY <1>2, <1>3 DEF IsRecord
  <1>5. /\ DOMAIN q = DOMAIN p /\ q.k = "pc" /\ q.kind = p.kind /\ q.mh = p.mh
        /\ q.raw = p.raw /\ q.h = mh.h /\ q.err = panic /\ q.st = "handled"
    BY <1>2, <1>4 DEF CallFields
  <1>6. IsRecord(q) /\ Keeps(q) = panic /\ ~IsOver(q)
    BY <1>2, <1>3, <1>5, ChangedRecord DEF Keeps, Caught, IsOver
  <1>7. DOMAIN m2 = HandlerFields /\ m2.h = 0 /\ m2.used = mh.used
    BY <1>3, HandlerParts
  <1> HIDE DEF q, m2, p
  <1>8. Good(Append(Front(go), q), m2, 0)
    BY <1>2, <1>3, <1>5, <1>6, <1>7, Retop DEF p
  <1>9. CASE mh.h = 0
    BY <1>1, <1>2, <1>8, <1>9 DEF There
  <1>10. CASE mh.h # 0
    <2> DEFINE g2 == Append(Front(go), q)
               r == Handling(panic, snap, back)
    <2>1. Len(g2) = Len(go) /\ g2[Len(go)] = q /\ IsSeq(g2) /\ Last(g2) = q
      BY <1>3, Replaced DEF Alike, Last
    <2>2. IsRecord(r) /\ r.k = "msgh" /\ ~Bound(r) /\ Keeps(r) = 0
      BY NewRecords
    <2> HIDE DEF r, g2
    <2>3. ASSUME NEW b, InZone(g2, b, Len(g2)) PROVE FALSE
      <3>1. q.h = 0
        <4>0. Good(g2, m2, 0) /\ Len(g2) \in 1 .. Len(g2)
          BY <1>3, <1>8, <2>1 DEF g2
        <4>1. At(g2, Len(g2))
          BY <4>0, GoodParts
        <4> QED BY <4>0, <4>1, <2>1, <2>3, <1>5 DEF At, Shielded, InZone
      <3> QED BY <3>1, <1>5, <1>10
    <2>4. Good(Append(g2, r), m2, 0)
      BY <1>3, <1>6, <1>8, <2>1, <2>2, <2>3, Push DEF g2
    <2> QED BY <1>1, <1>2, <1>10, <2>4 DEF There, g2, r
  <1> QED BY <1>9, <1>10

\* A recovery sets the handler it took again and closes the variables left.
LEMMA CloseTBCStep == Here /\ CloseTBC => There
  <1> SUFFICES ASSUME Here, CloseTBC PROVE There
    OBVIOUS
  <1> DEFINE p == Last(go)
             q == [p EXCEPT !.st = "closing"]
             m2 == IF p.h = 0 THEN mh ELSE [mh EXCEPT !.h = p.h]
  <1>1. PICK list, err : go' = Append(Append(Front(go), q),
                                      Closers(list, err, p.h # 0, FALSE))
    BY DEF CloseTBC, WithLast
  <1>2. /\ panic = 0 /\ go # <<>> /\ p.k = "pc" /\ p.st = "handled" /\ panic' = panic
        /\ mh' = m2
    BY DEF CloseTBC, Calm, On
  <1>3. /\ Good(go, mh, 0) /\ Len(go) > 0 /\ IsRecord(p) /\ DOMAIN mh = HandlerFields
        /\ IsSeq(go) /\ Len(go) \in Nat /\ p = go[Len(go)]
    BY <1>2, Tops DEF Here
  <1>4. DOMAIN p = CallFields
    BY <1>2, <1>3 DEF IsRecord
  <1>5. /\ DOMAIN q = DOMAIN p /\ q.k = "pc" /\ q.kind = p.kind /\ q.mh = p.mh
        /\ q.raw = p.raw /\ q.h = p.h /\ q.err = p.err /\ q.st = "closing"
    BY <1>2, <1>4 DEF CallFields
  <1>6. IsRecord(q) /\ Keeps(q) = Keeps(p) /\ ~IsOver(q)
    BY <1>2, <1>3, <1>5, ChangedRecord DEF Keeps, Caught, IsOver
  <1>7. DOMAIN m2 = HandlerFields /\ (m2 = mh \/ (m2.h = p.h /\ m2.used = mh.used))
    BY <1>3, HandlerParts
  <1>8. \A b \in 1 .. Len(go) : InZone(go, b, Len(go)) => p.err # 0
    <2>1. At(go, Len(go))
      BY <1>3, GoodParts
    <2> QED BY <2>1, <1>2, <1>3 DEF At, Remembered, Caught
  <1> HIDE DEF q, m2, p
  <1>9. Good(Append(Front(go), q), m2, 0)
    BY <1>2, <1>3, <1>5, <1>6, <1>7, <1>8, Retop DEF p
  <1> DEFINE g2 == Append(Front(go), q)
             r == Closers(list, err, p.h # 0, FALSE)
  <1>10. Len(g2) > 0 /\ Last(g2) = q
    BY <1>3, NowLast
  <1>11. IsRecord(r) /\ r.k = "closers" /\ ~Bound(r) /\ Keeps(r) = 0
    BY NewRecords
  <1> HIDE DEF r, g2
  <1>12. Good(Append(g2, r), m2, 0)
    BY <1>6, <1>9, <1>10, <1>11, Push DEF g2
  <1> QED BY <1>1, <1>2, <1>12 DEF There, g2, r

\* A recovery that leaves the variables to others.
LEMMA SkipTBCStep == Here /\ SkipTBC => There
  <1> SUFFICES ASSUME Here, SkipTBC PROVE There
    OBVIOUS
  <1> DEFINE p == Last(go)
             q == [p EXCEPT !.st = "report"]
  <1>1. /\ panic = 0 /\ go # <<>> /\ p.k = "pc" /\ p.st = "handled" /\ panic' = panic
        /\ mh' = mh /\ go' = Append(Front(go), q)
    BY DEF SkipTBC, Calm, On, WithLast
  <1>2. /\ Good(go, mh, 0) /\ Len(go) > 0 /\ IsRecord(p) /\ DOMAIN mh = HandlerFields
        /\ Len(go) \in Nat /\ p = go[Len(go)]
    BY <1>1, Tops DEF Here
  <1>3. DOMAIN p = CallFields
    BY <1>1, <1>2 DEF IsRecord
  <1>4. /\ DOMAIN q = DOMAIN p /\ q.k = "pc" /\ q.kind = p.kind /\ q.mh = p.mh
        /\ q.raw = p.raw /\ q.h = p.h /\ q.err = p.err /\ q.st = "report"
    BY <1>1, <1>3 DEF CallFields
  <1>5. IsRecord(q) /\ Keeps(q) = Keeps(p)
    BY <1>1, <1>2, <1>4, ChangedRecord DEF Keeps, Caught
  <1>6. \A b \in 1 .. Len(go) : InZone(go, b, Len(go)) => p.err # 0
    <2>1. At(go, Len(go))
      BY <1>2, GoodParts
    <2> QED BY <2>1, <1>1, <1>2 DEF At, Remembered, Caught
  <1> HIDE DEF q, p
  <1>7. Good(Append(Front(go), q), mh, 0)
    BY <1>1, <1>2, <1>4, <1>5, <1>6, Retop DEF p
  <1> QED BY <1>1, <1>7 DEF There

\* A recovery ends: the error of a close handler replaces the one it kept, and in a
\* zone no answer of a message handler does.
LEMMA RecoveredStep == Here /\ Recovered => There
  <1> SUFFICES ASSUME Here, Recovered PROVE There
    OBVIOUS
  <1> DEFINE p == Last(go)
             e == FinalErr(p)
             q == [p EXCEPT !.st = "report", !.err = e]
             m2 == [mh EXCEPT !.h = 0]
  <1>1. /\ go # <<>> /\ p.k = "pc" /\ p.st = "closing" /\ panic' = 0
        /\ mh' = m2 /\ go' = Append(Front(go), q)
    BY DEF Recovered, On, WithLast
  <1>2. /\ Good(go, mh, panic) /\ Len(go) > 0 /\ IsRecord(p) /\ DOMAIN mh = HandlerFields
        /\ Len(go) \in Nat /\ p = go[Len(go)] /\ At(go, Len(go))
    BY <1>1, Tops, GoodParts DEF Here
  <1>3. DOMAIN p = CallFields
    BY <1>1, <1>2 DEF IsRecord
  <1>4. \A b \in 1 .. Len(go) : InZone(go, b, Len(go)) => p.err # 0 /\ p.h = 0
    BY <1>1, <1>2 DEF At, Remembered, Shielded, Caught
  <1>5. \A b \in 1 .. Len(go) : InZone(go, b, Len(go)) =>
          e = (IF panic # 0 THEN panic ELSE p.err) /\ e # 0
    BY <1>4 DEF FinalErr
  <1> HIDE DEF e
  <1>6. /\ DOMAIN q = DOMAIN p /\ q.k = "pc" /\ q.kind = p.kind /\ q.mh = p.mh
        /\ q.raw = p.raw /\ q.h = p.h /\ q.err = e /\ q.st = "report"
    BY <1>1, <1>3 DEF CallFields
  <1>7. IsRecord(q) /\ Keeps(q) = e /\ Keeps(p) = p.err
    BY <1>1, <1>2, <1>6, ChangedRecord DEF Keeps, Caught
  <1>8. DOMAIN m2 = HandlerFields /\ m2.h = 0 /\ m2.used = mh.used
    BY <1>2, HandlerParts
  <1> HIDE DEF q, p, m2
  <1>9. Good(Append(Front(go), q), m2, 0)
    BY <1>1, <1>2, <1>5, <1>6, <1>7, <1>8, Retop DEF p
  <1> QED BY <1>1, <1>9 DEF There

\* pcall returns, with either outcome, and sets the handler it had put aside.
LEMMA PcallReturnsStep == Here /\ PcallReturns => There
  <1> SUFFICES ASSUME Here, PcallReturns PROVE There
    OBVIOUS
  <1>1. /\ panic = 0 /\ go # <<>> /\ Last(go).k = "pc" /\ Last(go).kind = "pcall"
        /\ go' = Front(go) /\ mh' = Last(go).mh /\ panic' = panic
    BY DEF PcallReturns, Outcome, Calm, On, BackToLua
  <1>2. Good(go, mh, 0) /\ Len(go) > 1 /\ DOMAIN Last(go).mh = HandlerFields
    BY <1>1, Tops DEF Here, IsRecord
  <1> QED BY <1>1, <1>2, PopCall DEF There

\* xpcall returns, with either outcome, and leaves no handler.
LEMMA XpcallReturnsStep == Here /\ XpcallReturns => There
  <1> SUFFICES ASSUME Here, XpcallReturns PROVE There
    OBVIOUS
  <1>1. /\ panic = 0 /\ go # <<>> /\ Last(go).k = "pc" /\ Last(go).kind = "xpcall"
        /\ go' = Front(go) /\ mh' = NoHandler /\ panic' = panic
    BY DEF XpcallReturns, Outcome, Calm, On, BackToLua
  <1>2. Good(go, mh, 0) /\ Len(go) > 1 /\ DOMAIN mh = HandlerFields
    BY <1>1, Tops DEF Here
  <1>3. DOMAIN NoHandler = HandlerFields /\ Unhandled(NoHandler)
    BY <1>2, HandlerParts
  <1> QED BY <1>1, <1>2, <1>3, PopCall DEF There

\* A library function returns, or raises the error of its callback again.
LEMMA CallbackStep == Here /\ (CallbackReturns \/ CallbackRaises) => There
  <1> SUFFICES ASSUME Here, CallbackReturns \/ CallbackRaises PROVE There
    OBVIOUS
  <1>1. /\ panic = 0 /\ go # <<>> /\ Last(go).k = "pc" /\ Last(go).kind = "callback"
        /\ go' = Front(go) /\ mh' = mh
        /\ \/ Last(go).st = "done" /\ panic' = panic
           \/ Last(go).st = "report" /\ panic' = Last(go).err
    BY DEF CallbackReturns, CallbackRaises, Outcome, Calm, On, BackToLua
  <1>2. Good(go, mh, 0) /\ Len(go) > 1 /\ ~Bound(Last(go))
    BY <1>1, Tops DEF Here, Bound
  <1>3. panic' = Keeps(Last(go))
    BY <1>1 DEF Keeps, Caught
  <1> QED BY <1>1, <1>2, <1>3, PopFree DEF There

\* The outermost call ends.
LEMMA RootEndsStep == Here /\ RootEnds => There
  <1> SUFFICES ASSUME Here, RootEnds PROVE There
    OBVIOUS
  <1>1. panic = 0 /\ go # <<>> /\ go' = <<>> /\ mh' = mh /\ panic' = panic
    BY DEF RootEnds, Outcome, Calm, On
  <1>2. DOMAIN mh = HandlerFields
    BY <1>1, Tops DEF Here
  <1> QED BY <1>1, <1>2, NothingLeft DEF There

\* A message handler is called, by callMsgHandler or by xpcall.
LEMMA CallsHandler ==
  ASSUME NEW g, Good(g, mh, 0), Len(g) > 0, ~IsOver(Last(g)),
         Last(g).k = "msgh" \/ IsCall(Last(g), {"xpcall"}), NEW t, NEW c, NEW base
  PROVE  Good(Append(Append(g, Protected("hcall", t, c)), LuaFrame(base, 0)), mh, 0)
  <1> DEFINE r == Protected("hcall", t, c)
  <1>0. DOMAIN mh = HandlerFields /\ IsSeq(g)
    BY GoodParts
  <1>1. /\ IsRecord(r) /\ r.k = "pc" /\ r.kind = "hcall" /\ r.st = "body" /\ r.h = 0
    BY <1>0, NewCall
  <1> HIDE DEF r
  <1>2. Good(Append(g, r), mh, 0)
    BY <1>0, <1>1, PushCall
  <1>3. Len(Append(g, r)) > 0 /\ Last(Append(g, r)) = r
    BY <1>0, NowLast
  <1>4. Good(Append(Append(g, r), LuaFrame(base, 0)), mh, 0)
    BY <1>1, <1>2, <1>3, PushLua
  <1> QED BY <1>4 DEF r

\* callMsgHandler calls the handler.
LEMMA TryHandlerStep == Here /\ TryHandler => There
  <1> SUFFICES ASSUME Here, TryHandler PROVE There
    OBVIOUS
  <1>1. PICK c : go' = Append(Append(go, Protected("hcall", top, c)), LuaFrame(top, 0))
    BY DEF TryHandler, EnterLua
  <1>2. panic = 0 /\ go # <<>> /\ Last(go).k = "msgh" /\ mh' = mh /\ panic' = panic
    BY DEF TryHandler, Calm, On
  <1>3. Good(go, mh, 0) /\ Len(go) > 0 /\ ~IsOver(Last(go))
    BY <1>2, Tops DEF Here, IsOver
  <1> QED BY <1>1, <1>2, <1>3, CallsHandler DEF There

\* A call of xpcall that goes from its outcome to the fallback, or on from there.
LEMMA RetopXpcall ==
  ASSUME NEW g, NEW m, Good(g, m, 0), Len(g) > 0, IsCall(Last(g), {"xpcall"}), NEW st
  PROVE  /\ Good(Append(Front(g), [Last(g) EXCEPT !.st = st]), m, 0)
         /\ IsCall([Last(g) EXCEPT !.st = st], {"xpcall"})
         /\ [Last(g) EXCEPT !.st = st].st = st
  <1> DEFINE p == Last(g)
             q == [p EXCEPT !.st = st]
  <1>1. /\ IsSeq(g) /\ Len(g) \in Nat /\ IsRecord(p) /\ DOMAIN m = HandlerFields
        /\ p = g[Len(g)]
    BY Tops, GoodParts
  <1>2. p.k = "pc" /\ p.kind = "xpcall" /\ DOMAIN p = CallFields
    BY <1>1 DEF IsRecord, IsCall
  <1>3. /\ DOMAIN q = DOMAIN p /\ q.k = "pc" /\ q.kind = p.kind /\ q.mh = p.mh
        /\ q.raw = p.raw /\ q.h = p.h /\ q.err = p.err /\ q.st = st
    BY <1>2 DEF CallFields
  <1>4. IsRecord(q)
    BY <1>1, <1>2, <1>3, ChangedRecord
  <1>5. \A b : ~InZone(g, b, Len(g))
    <2>1. Bound(g[Len(g)]) /\ ~IsCall(g[Len(g)], {"pcall", "run", "co"})
      BY <1>1, <1>2 DEF Bound, IsCall
    <2> QED BY <1>1, <2>1, ZoneAt
  <1>6. IsCall(q, {"xpcall"})
    BY <1>2, <1>3 DEF IsCall
  <1> HIDE DEF q, p
  <1>7. Good(Append(Front(g), q), m, 0)
    BY <1>1, <1>2, <1>3, <1>4, <1>5, Retop DEF p
  <1> QED BY <1>3, <1>6, <1>7 DEF q, p

\* xpcall calls its handler itself.
LEMMA XpcallFallbackStep == Here /\ XpcallFallback => There
  <1> SUFFICES ASSUME Here, XpcallFallback PROVE There
    OBVIOUS
  <1> DEFINE q == [Last(go) EXCEPT !.st = "fallback"]
             g == Append(Front(go), q)
  <1>1. /\ panic = 0 /\ go # <<>> /\ Last(go).k = "pc" /\ Last(go).kind = "xpcall"
        /\ mh' = mh /\ panic' = panic
        /\ go' = Append(Append(g, Protected("hcall", top, cs)), LuaFrame(top, 0))
    BY DEF XpcallFallback, Outcome, Calm, On, EnterLua, WithLast
  <1>2. Good(go, mh, 0) /\ Len(go) > 0 /\ IsCall(Last(go), {"xpcall"}) /\ IsSeq(go)
    BY <1>1, Tops DEF Here, IsCall
  <1>3. Good(g, mh, 0) /\ IsCall(q, {"xpcall"}) /\ q.st = "fallback"
    BY <1>2, RetopXpcall
  <1>4. Len(g) > 0 /\ Last(g) = q
    BY <1>2, NowLast
  <1> HIDE DEF q, g
  <1>5. ~IsOver(q)
    BY <1>3 DEF IsOver
  <1> QED BY <1>1, <1>3, <1>4, <1>5, CallsHandler DEF There

\* ... and goes on when it has answered.
LEMMA FallbackAnswersStep == Here /\ FallbackAnswers => There
  <1> SUFFICES ASSUME Here, FallbackAnswers PROVE There
    OBVIOUS
  <1> DEFINE g == Front(go)
             q == [Last(g) EXCEPT !.st = "answered"]
  <1>1. /\ panic = 0 /\ go # <<>> /\ Last(go).k = "pc" /\ Last(go).kind = "hcall"
        /\ Last(g).k = "pc" /\ mh' = mh /\ panic' = panic /\ go' = Append(Front(g), q)
    BY DEF FallbackAnswers, Outcome, Calm, On
  <1>2. Good(go, mh, 0) /\ Len(go) > 1 /\ DOMAIN mh = HandlerFields
    BY <1>1, Tops DEF Here
  <1>3. g # <<>> /\ IsCall(Last(g), {"xpcall"})
    BY <1>1, <1>2, Tops DEF IsCall
  <1>4. Good(g, mh, 0)
    BY <1>1, <1>2, PopCall
  <1>5. Len(g) > 0
    BY <1>3, <1>4, Tops
  <1> HIDE DEF g
  <1>6. Good(Append(Front(g), q), mh, 0)
    BY <1>3, <1>4, <1>5, RetopXpcall
  <1> QED BY <1>1, <1>6 DEF There

\* callMsgHandler's call failed: it will be made again.
LEMMA HandlerFailsStep == Here /\ HandlerFails => There
  <1> SUFFICES ASSUME Here, HandlerFails PROVE There
    OBVIOUS
  <1> DEFINE g == Front(go)
             r == Last(g)
             q == [r EXCEPT !.tries = @ + 1]
  <1>1. /\ panic = 0 /\ go # <<>> /\ Last(go).k = "pc" /\ Last(go).kind = "hcall"
        /\ r.k = "msgh" /\ mh' = mh /\ panic' = panic /\ go' = Append(Front(g), q)
    BY DEF HandlerFails, Outcome, Calm, On
  <1>2. Good(go, mh, 0) /\ Len(go) > 1 /\ DOMAIN mh = HandlerFields
    BY <1>1, Tops DEF Here
  <1>3. g # <<>>
    BY <1>1, <1>2, Tops
  <1>4. Good(g, mh, 0)
    BY <1>1, <1>2, PopCall
  <1>5. Len(g) > 0 /\ IsRecord(r)
    BY <1>3, <1>4, Tops
  <1>6. DOMAIN q = DOMAIN r /\ q.k = r.k
    BY <1>1, <1>5 DEF IsRecord, MsghFields
  <1>7. IsRecord(q) /\ Keeps(q) = 0 /\ Keeps(r) = 0
    BY <1>1, <1>5, <1>6, ChangedRecord DEF Keeps
  <1> HIDE DEF q, r, g
  <1>8. Good(Append(Front(g), q), mh, 0)
    BY <1>1, <1>2, <1>4, <1>5, <1>6, <1>7, Retop DEF r
  <1> QED BY <1>1, <1>8 DEF There

\* callMsgHandler is done: the answer is set where no zone is.
LEMMA HandlerAnswersStep == Here /\ HandlerAnswers => There
  <1> SUFFICES ASSUME Here, HandlerAnswers PROVE There
    OBVIOUS
  <1> DEFINE g == Front(go)
             e == -Last(g).err
             m2 == [mh EXCEPT !.used = TRUE, !.ans = e]
  <1>1. /\ panic = 0 /\ go # <<>> /\ Last(go).k = "pc" /\ Last(go).kind = "hcall"
        /\ Last(g).k = "msgh" /\ mh' = m2 /\ panic' = panic /\ go' = Front(g)
    BY DEF HandlerAnswers, Outcome, Calm, On
  <1>2. Good(go, mh, 0) /\ Len(go) > 1 /\ DOMAIN mh = HandlerFields
    BY <1>1, Tops DEF Here
  <1>3. g # <<>>
    BY <1>1, <1>2, Tops
  <1>4. Good(g, mh, 0)
    BY <1>1, <1>2, PopCall
  <1>5. Len(g) > 1
    BY <1>1, <1>3, <1>4, Tops
  <1> HIDE DEF e
  <1>6. DOMAIN m2 = HandlerFields /\ m2.h = mh.h
    BY <1>2 DEF HandlerFields
  <1> HIDE DEF m2, g
  <1>7. Good(Front(g), m2, 0)
    BY <1>1, <1>4, <1>5, <1>6, PopHandling
  <1> QED BY <1>1, <1>7 DEF There

\* A loop over close handlers that goes on: what it keeps is what it kept, or what
\* was in flight.
LEMMA RetopClosers ==
  ASSUME NEW g, NEW m, NEW p, Good(g, m, p), Len(g) > 0, Last(g).k = "closers",
         NEW q, DOMAIN q = DOMAIN Last(g), q.k = "closers",
         q.last = IF p # 0 THEN p ELSE Last(g).last
  PROVE  Good(Append(Front(g), q), m, 0)
  <1>1. IsRecord(Last(g)) /\ DOMAIN m = HandlerFields
    BY GoodParts, Tops
  <1>2. IsRecord(q)
    BY <1>1, ChangedRecord
  <1>3. Keeps(q) = IF p # 0 THEN p ELSE Keeps(Last(g))
    BY DEF Keeps
  <1> HIDE DEF Keeps
  <1> QED BY <1>1, <1>2, <1>3, Retop

\* A loop over close handlers calls the next one.
LEMMA CloserNextStep == Here /\ CloserNext => There
  <1> SUFFICES ASSUME Here, CloserNext PROVE There
    OBVIOUS
  <1> DEFINE c == Last(go)
             slot == NextToClose(c.list)
             q == [c EXCEPT !.list = Front(@),
                            !.st = IF Held(slot) = 0 THEN "next" ELSE "running",
                            !.tbc = Len(tbc), !.cs = Len(cs), !.top = top]
  <1>1. /\ panic = 0 /\ go # <<>> /\ c.k = "closers" /\ mh' = mh /\ panic' = panic
        /\ CallClose(Append(Front(go), q), slot)
    BY DEF CloserNext, Calm, On, WithLast
  <1>2. Good(go, mh, 0) /\ Len(go) > 0 /\ IsRecord(c) /\ IsSeq(go)
    BY <1>1, Tops DEF Here
  <1>3. DOMAIN c = ClosersFields
    BY <1>1, <1>2 DEF IsRecord
  <1> HIDE DEF slot
  <1>4. DOMAIN q = DOMAIN c /\ q.k = "closers" /\ q.last = c.last
    BY <1>1, <1>3 DEF ClosersFields
  <1> HIDE DEF q, c
  <1>5. Good(Append(Front(go), q), mh, 0)
    BY <1>1, <1>2, <1>4, RetopClosers DEF c
  <1>6. Len(Append(Front(go), q)) > 0 /\ Last(Append(Front(go), q)) = q
    BY <1>2, NowLast
  <1>7. Good(go', mh, 0)
    BY <1>1, <1>4, <1>5, <1>6, CallsClose
  <1> QED BY <1>1, <1>7 DEF There

\* A close handler failed: the loop keeps its error, and may ask the message
\* handler, which is set outside zones only.
LEMMA CloserFailsStep == Here /\ CloserFails => There
  <1> SUFFICES ASSUME Here, CloserFails PROVE There
    OBVIOUS
  <1> DEFINE c == Last(go)
             ask == c.use /\ mh.h # 0 /\ panic # c.err
             q == [c EXCEPT !.last = panic, !.err = panic,
                            !.st = IF ask THEN "asked" ELSE "failed"]
             g == Append(Front(go), q)
             r == Handling(panic, cs, cs)
  <1>1. /\ panic # 0 /\ go # <<>> /\ c.k = "closers" /\ mh' = mh /\ panic' = 0
        /\ go' = IF ask THEN Append(g, r) ELSE g
    BY DEF CloserFails, On, WithLast
  <1>2. Good(go, mh, panic) /\ Len(go) > 0 /\ IsRecord(c) /\ IsSeq(go)
    BY <1>1, Tops DEF Here
  <1>3. DOMAIN c = ClosersFields
    BY <1>1, <1>2 DEF IsRecord
  <1>4. PICK st : q = [c EXCEPT !.last = panic, !.err = panic, !.st = st]
    OBVIOUS
  <1>5. ask => mh.h # 0
    OBVIOUS
  <1> HIDE DEF q, ask
  <1>6. DOMAIN q = DOMAIN c /\ q.k = "closers" /\ q.last = panic
    BY <1>1, <1>3, <1>4 DEF ClosersFields
  <1> HIDE DEF c
  <1>7. Good(g, mh, 0)
    BY <1>1, <1>2, <1>6, RetopClosers DEF c
  <1>8. Len(g) > 0 /\ Last(g) = q
    BY <1>2, NowLast
  <1>9. IsRecord(r) /\ r.k = "msgh" /\ ~Bound(r) /\ Keeps(r) = 0
    BY NewRecords
  <1> HIDE DEF r, g
  <1>10. ASSUME ask PROVE Good(Append(g, r), mh, 0)
    <2>1. \A b : ~InZone(g, b, Len(g))
      <3>1. OnTop(g, mh, 0) /\ Len(g) \in Nat
        BY <1>7, <1>8, GoodParts
      <3>2. ~Unhandled(mh)
        BY <1>5, <1>10 DEF Unhandled
      <3> QED BY <3>1, <3>2 DEF OnTop, InZone
    <2>2. ~IsOver(q) /\ q.k # "lua"
      BY <1>6 DEF IsOver
    <2> QED BY <1>7, <1>8, <1>9, <2>1, <2>2, Push
  <1> QED BY <1>1, <1>7, <1>10 DEF There

\* The message handler has answered the loop.
LEMMA CloserAnsweredStep == Here /\ CloserAnswered => There
  <1> SUFFICES ASSUME Here, CloserAnswered PROVE There
    OBVIOUS
  <1> DEFINE c == Last(go)
             q == [c EXCEPT !.st = "failed", !.err = IF mh.used THEN mh.ans ELSE @]
  <1>1. /\ panic = 0 /\ go # <<>> /\ c.k = "closers" /\ mh' = mh /\ panic' = panic
        /\ go' = Append(Front(go), q)
    BY DEF CloserAnswered, Calm, On, WithLast
  <1>2. Good(go, mh, 0) /\ Len(go) > 0 /\ IsRecord(c)
    BY <1>1, Tops DEF Here
  <1>3. DOMAIN c = ClosersFields
    BY <1>1, <1>2 DEF IsRecord
  <1>4. DOMAIN q = DOMAIN c /\ q.k = "closers" /\ q.last = c.last
    BY <1>1, <1>3 DEF ClosersFields
  <1> HIDE DEF q, c
  <1>5. Good(Append(Front(go), q), mh, 0)
    BY <1>1, <1>2, <1>4, RetopClosers DEF c
  <1> QED BY <1>1, <1>5 DEF There

\* What the failed handler had declared is closed by a loop of its own.
LEMMA CloserInnerStep == Here /\ CloserInner => There
  <1> SUFFICES ASSUME Here, CloserInner PROVE There
    OBVIOUS
  <1> DEFINE c == Last(go)
             inner == SubSeq(tbc, c.tbc + 1, Len(tbc))
             r == Closers(inner, c.err, c.use, FALSE)
  <1>1. PICK st : go' = IF inner = <<>> THEN Append(Front(go), [c EXCEPT !.st = "next"])
                        ELSE Append(Append(Front(go), [c EXCEPT !.st = st]), r)
    BY DEF CloserInner, WithLast
  <1>2. panic = 0 /\ go # <<>> /\ c.k = "closers" /\ mh' = mh /\ panic' = panic
    BY DEF CloserInner, Calm, On
  <1>3. Good(go, mh, 0) /\ Len(go) > 0 /\ IsRecord(c) /\ IsSeq(go)
    BY <1>2, Tops DEF Here
  <1>4. DOMAIN c = ClosersFields
    BY <1>2, <1>3 DEF IsRecord
  <1>5. ASSUME NEW x
        PROVE  /\ Good(Append(Front(go), [c EXCEPT !.st = x]), mh, 0)
               /\ [c EXCEPT !.st = x].k = "closers"
    <2> DEFINE q == [c EXCEPT !.st = x]
    <2>1. DOMAIN q = DOMAIN c /\ q.k = "closers" /\ q.last = c.last
      BY <1>2, <1>4 DEF ClosersFields
    <2> HIDE DEF q, c
    <2>2. Good(Append(Front(go), q), mh, 0)
      BY <1>2, <1>3, <2>1, RetopClosers DEF c
    <2> QED BY <2>1, <2>2 DEF q
  <1>6. IsRecord(r) /\ r.k = "closers" /\ ~Bound(r) /\ Keeps(r) = 0
    BY NewRecords
  <1> HIDE DEF r, inner
  <1> DEFINE q == [c EXCEPT !.st = st]
             g == Append(Front(go), q)
  <1>7. Good(g, mh, 0) /\ q.k = "closers"
    BY <1>5
  <1>8. Len(g) > 0 /\ Last(g) = q
    BY <1>3, NowLast
  <1> HIDE DEF q, c
  <1>9. ~IsOver(q) /\ q.k # "lua"
    BY <1>7 DEF IsOver
  <1> HIDE DEF g
  <1>10. Good(Append(g, r), mh, 0)
    BY <1>6, <1>7, <1>8, <1>9, Push
  <1> QED BY <1>1, <1>2, <1>5, <1>10 DEF There, g, q

\* The inner loop is done: an error of it is the one that the outer keeps.
LEMMA CloserInnerDoneStep == Here /\ CloserInnerDone => There
  <1> SUFFICES ASSUME Here, CloserInnerDone PROVE There
    OBVIOUS
  <1> DEFINE c == Last(go)
             q == IF panic = 0 THEN [c EXCEPT !.st = "next"]
                  ELSE [c EXCEPT !.st = "next", !.last = panic, !.err = panic]
  <1>1. /\ go # <<>> /\ c.k = "closers" /\ mh' = mh /\ panic' = 0
        /\ go' = Append(Front(go), q)
    BY DEF CloserInnerDone, On, WithLast
  <1>2. Good(go, mh, panic) /\ Len(go) > 0 /\ IsRecord(c)
    BY <1>1, Tops DEF Here
  <1>3. DOMAIN c = ClosersFields
    BY <1>1, <1>2 DEF IsRecord
  <1>4. /\ DOMAIN q = DOMAIN c /\ q.k = "closers"
        /\ q.last = IF panic # 0 THEN panic ELSE c.last
    BY <1>1, <1>3 DEF ClosersFields
  <1> HIDE DEF q, c
  <1>5. Good(Append(Front(go), q), mh, 0)
    BY <1>1, <1>2, <1>4, RetopClosers DEF c
  <1> QED BY <1>1, <1>5 DEF There

\* A loop over close handlers ends: what it keeps is in flight again.
LEMMA CloserDoneStep == Here /\ CloserDone => There
  <1> SUFFICES ASSUME Here, CloserDone PROVE There
    OBVIOUS
  <1> DEFINE c == Last(go)
  <1>1. /\ panic = 0 /\ go # <<>> /\ c.k = "closers" /\ mh' = mh
        /\ (go' = <<>> /\ c.last = 0) \/ go' = Front(go)
        /\ panic' = IF Len(go) = 1 THEN 0 ELSE c.last
    BY DEF CloserDone, Calm, On
  <1>2. /\ Good(go, mh, 0) /\ Len(go) > 0 /\ Len(go) \in Nat /\ IsSeq(go)
        /\ DOMAIN mh = HandlerFields
    BY <1>1, Tops DEF Here
  <1>3. CASE go' = <<>> /\ c.last = 0
    BY <1>1, <1>2, <1>3, NothingLeft DEF There
  <1>0. ASSUME NEW n \in Nat, n > 0 PROVE n = 1 \/ (n > 1 /\ n # 1)
    BY <1>0
  <1>4. CASE go' = Front(go)
    <2>0. Len(go) = 1 \/ (Len(go) > 1 /\ Len(go) # 1)
      BY <1>0, <1>2
    <2>1. CASE Len(go) = 1
      <3>1. IsSeq(Front(go)) /\ Len(Front(go)) = 0
        BY <1>2, <2>1, Popped DEF Alike
      <3>2. Front(go) = <<>>
        BY <3>1, SeqParts
      <3> QED BY <1>1, <1>2, <1>4, <2>1, <3>2, NothingLeft DEF There
    <2>2. CASE Len(go) > 1 /\ Len(go) # 1
      <3>1. ~Bound(c) /\ Keeps(c) = c.last
        BY <1>1 DEF Bound, Keeps
      <3>2. Good(Front(go), mh, Keeps(c))
        BY <1>2, <2>2, <3>1, PopFree
      <3>3. panic' = c.last
        BY <1>1, <2>2
      <3> QED BY <1>1, <1>4, <3>1, <3>2, <3>3 DEF There
    <2> QED BY <2>0, <2>1, <2>2
  <1> QED BY <1>1, <1>3, <1>4

\* A coroutine is closed: while nothing of it recovers, only the loop over its
\* close handlers is left.
LEMMA KillStep == Here /\ ~KillMidUnwind /\ Kill => There
  <1> SUFFICES ASSUME Here, ~KillMidUnwind, Kill PROVE There
    OBVIOUS
  <1> DEFINE r == Closers(tbc, 0, FALSE, TRUE)
  <1>1. go' = Append(<<>>, r) /\ panic = 0 /\ go # <<>> /\ mh' = mh /\ panic' = panic
    BY DEF Kill, Running, Calm, On
  <1>2. IsRecord(r) /\ r.k = "closers"
    BY NewRecords
  <1>3. DOMAIN mh = HandlerFields
    BY <1>1, Tops DEF Here
  <1> HIDE DEF r
  <1>4. Append(<<>>, r) = <<r>>
    OBVIOUS
  <1>5. Good(<<r>>, mh, 0)
    BY <1>2, <1>3, OnlyClosers
  <1> QED BY <1>1, <1>4, <1>5 DEF There

\* What an ended VM left to be closed is closed by a loop of its own.
LEMMA ClosePendingTBCStep == Here /\ ClosePendingTBC => There
  <1> SUFFICES ASSUME Here, ClosePendingTBC PROVE There
    OBVIOUS
  <1> DEFINE r == Closers(tbc, 0, FALSE, FALSE)
  <1>1. go' = <<r>> /\ go = <<>> /\ mh' = mh /\ panic' = panic
    BY DEF ClosePendingTBC
  <1>2. IsRecord(r) /\ r.k = "closers"
    BY NewRecords
  <1>3. DOMAIN mh = HandlerFields /\ panic = 0
    BY <1>1, GoodParts DEF Here
  <1> HIDE DEF r
  <1>4. Good(<<r>>, mh, 0)
    BY <1>2, <1>3, OnlyClosers
  <1> QED BY <1>1, <1>3, <1>4 DEF There

-----------------------------------------------------------------------------
(***************************************************************************)
(* The theorems.                                                           *)
(***************************************************************************)
IInv == Good(go, mh, panic) /\ nerr \in Nat

\* A stack of two records.
LEMMA TwoRecords ==
  ASSUME NEW a, NEW b
  PROVE  Append(<<a>>, b) = <<a, b>>
  <1> DEFINE S == {a, b}
  <1>1. <<a>> \in Seq(S) /\ b \in S /\ Len(<<a>>) = 1
    OBVIOUS
  <1>2. /\ Append(<<a>>, b) \in Seq(S) /\ Len(Append(<<a>>, b)) = Len(<<a>>) + 1
        /\ \A i \in 1 .. Len(<<a>>) : Append(<<a>>, b)[i] = <<a>>[i]
        /\ Append(<<a>>, b)[Len(<<a>>) + 1] = b
    BY <1>1, AppendProperties
  <1>3. /\ Len(Append(<<a>>, b)) = 2
        /\ Append(<<a>>, b)[1] = a /\ Append(<<a>>, b)[2] = b
    BY <1>1, <1>2
  <1>4. /\ <<a, b>> \in Seq(S) /\ Len(<<a, b>>) = 2
        /\ <<a, b>>[1] = a /\ <<a, b>>[2] = b
    OBVIOUS
  <1>5. \A i \in 1 .. 2 : i = 1 \/ i = 2
    OBVIOUS
  <1>6. \A i \in 1 .. 2 : Append(<<a>>, b)[i] = <<a, b>>[i]
    BY <1>3, <1>4, <1>5
  <1> HIDE DEF S
  <1> QED BY <1>2, <1>3, <1>4, <1>6, SeqEqual

\* The outermost call has begun to run a Lua function.
LEMMA InitGood == Init => IInv
  <1> SUFFICES ASSUME Init PROVE IInv
    OBVIOUS
  <1> DEFINE p(r) == [k |-> "pc", kind |-> r, st |-> "body", top |-> 0, cs |-> 0,
                      uv |-> 0, mh |-> NoHandler, h |-> 0, err |-> 0, raw |-> 0]
  <1>1. PICK kind \in Roots : go = <<p(kind), LuaFrame(0, 0)>>
    BY DEF Init
  <1>2. mh = NoHandler /\ panic = 0 /\ nerr = 0
    BY DEF Init
  <1>3. kind \in {"run", "co"}
    BY UnwindAssumption
  <1> DEFINE r == p(kind)
             g == <<r>>
  <1>4. DOMAIN NoHandler = HandlerFields /\ NoHandler.h = 0 /\ Unhandled(NoHandler)
    BY DEF NoHandler, HandlerFields, Unhandled
  <1>5. /\ IsRecord(r) /\ r.k = "pc" /\ r.kind = kind /\ r.h = 0 /\ r.st = "body"
        /\ r.raw = 0
    <2>1. /\ r.k = "pc" /\ r.kind = kind /\ r.h = 0 /\ r.st = "body" /\ r.raw = 0
          /\ r.mh = NoHandler /\ DOMAIN r = CallFields
      BY DEF CallFields
    <2> QED BY <1>4, <2>1 DEF IsRecord
  <1> HIDE DEF p, r
  <1>6. g \in Seq({r}) /\ Len(g) = 1 /\ g[1] = r
    OBVIOUS
  <1>7. IsSeq(g)
    BY <1>6, SeqOver
  <1>8. Bound(r) /\ Keeps(r) = 0 /\ ~IsOver(r)
    BY <1>3, <1>5 DEF Bound, Keeps, Caught, IsOver
  <1>9. At(g, 1)
    BY <1>3, <1>5, <1>6, <1>8 DEF At, Seated, Saved, Shielded, Remembered, IsCall, Live, Caught
  <1>10. OnTop(g, NoHandler, 0)
    <2> HIDE DEF Keeps, g
    <2>1. Settled(g, 1, 1)
      BY <1>6, <1>8, SettledAt
    <2>2. \A b \in 1 .. Len(g) : b = 1
      BY <1>6
    <2> QED BY <2>1, <2>2, <1>4, <1>6, <1>8 DEF OnTop, Live
  <1> HIDE DEF g
  <1>11. Good(g, NoHandler, 0)
    BY <1>4, <1>6, <1>7, <1>9, <1>10 DEF Good
  <1>12. Len(g) > 0 /\ Last(g) = r
    BY <1>6, <1>7, Popped
  <1>13. Good(Append(g, LuaFrame(0, 0)), NoHandler, 0)
    BY <1>5, <1>11, <1>12, PushLua
  <1>14. Append(g, LuaFrame(0, 0)) = <<r, LuaFrame(0, 0)>>
    BY TwoRecords DEF g
  <1> QED BY <1>1, <1>2, <1>13, <1>14 DEF IInv, r

\* Every step keeps the invariant.
LEMMA StepGood == ~KillMidUnwind /\ IInv /\ [Next]_vars => IInv'
  <1> SUFFICES ASSUME ~KillMidUnwind, IInv, [Next]_vars PROVE IInv'
    OBVIOUS
  <1>1. Here /\ nerr \in Nat
    BY DEF IInv, Here
  <1>2. ASSUME There, nerr' \in Nat PROVE IInv'
    BY <1>2 DEF IInv, There
  <1>3. CASE DeclareClose \/ DeclareCaptured
    <2>1. nerr' = nerr
      BY <1>3 DEF DeclareClose, DeclareCaptured, Declare
    <2> QED BY <1>1, <1>2, <1>3, <2>1, DeclareStep
  <1>4. CASE EndBlock \/ Return
    <2>1. nerr' = nerr
      BY <1>4 DEF EndBlock, Return, CloseScope, counts
    <2> QED BY <1>1, <1>2, <1>4, <2>1, ScopeStep
  <1>5. CASE Call
    <2>1. nerr' = nerr
      BY <1>5 DEF Call, counts
    <2> QED BY <1>1, <1>2, <1>5, <2>1, CallStep
  <1>6. CASE Raise
    <2>1. nerr' = nerr + 1
      BY <1>6 DEF Raise
    <2> QED BY <1>1, <1>2, <1>6, <2>1, RaiseStep
  <1>7. CASE \E kind \in Kinds : ProtectedCall(kind)
    <2>1. nerr' = nerr
      BY <1>7 DEF ProtectedCall, counts
    <2> QED BY <1>1, <1>2, <1>7, <2>1, ProtectedCallStep
  <1>8. CASE ScopeNext
    <2>1. nerr' = nerr
      BY <1>8 DEF ScopeNext
    <2> QED BY <1>1, <1>2, <1>8, <2>1, ScopeNextStep
  <1>9. CASE BlockDone \/ FrameDone
    <2>1. nerr' = nerr
      BY <1>9 DEF BlockDone, FrameDone, counts
    <2> QED BY <1>1, <1>2, <1>9, <2>1, BlockDoneStep, FrameDoneStep
  <1>10. CASE Propagate
    <2>1. nerr' = nerr
      BY <1>10 DEF Propagate, counts
    <2> QED BY <1>1, <1>2, <1>10, <2>1, PropagateStep
  <1>11. CASE Recover \/ CloseTBC \/ SkipTBC \/ Recovered
    <2>1. nerr' = nerr
      BY <1>11 DEF Recover, CloseTBC, SkipTBC, Recovered, counts
    <2> QED BY <1>1, <1>2, <1>11, <2>1, RecoverStep, CloseTBCStep, SkipTBCStep, RecoveredStep
  <1>12. CASE PcallReturns \/ XpcallReturns \/ CallbackReturns \/ CallbackRaises \/ RootEnds
    <2>1. nerr' = nerr
      BY <1>12 DEF PcallReturns, XpcallReturns, CallbackReturns, CallbackRaises, RootEnds, counts
    <2> QED BY <1>1, <1>2, <1>12, <2>1, PcallReturnsStep, XpcallReturnsStep, CallbackStep,
               RootEndsStep
  <1>13. CASE XpcallFallback \/ TryHandler \/ HandlerFails \/ HandlerAnswers \/ FallbackAnswers
    <2>1. nerr' = nerr
      BY <1>13 DEF XpcallFallback, TryHandler, HandlerFails, HandlerAnswers, FallbackAnswers, counts
    <2> QED BY <1>1, <1>2, <1>13, <2>1, XpcallFallbackStep, TryHandlerStep, HandlerFailsStep,
               HandlerAnswersStep, FallbackAnswersStep
  <1>14. CASE CloserNext \/ CloserFails \/ CloserAnswered
    <2>1. nerr' = nerr
      BY <1>14 DEF CloserNext, CloserFails, CloserAnswered, counts
    <2> QED BY <1>1, <1>2, <1>14, <2>1, CloserNextStep, CloserFailsStep, CloserAnsweredStep
  <1>15. CASE CloserInner \/ CloserInnerDone \/ CloserDone
    <2>1. nerr' = nerr
      BY <1>15 DEF CloserInner, CloserInnerDone, CloserDone, counts
    <2> QED BY <1>1, <1>2, <1>15, <2>1, CloserInnerStep, CloserInnerDoneStep, CloserDoneStep
  <1>16. CASE Kill \/ ClosePendingTBC
    <2>1. nerr' = nerr
      BY <1>16 DEF Kill, ClosePendingTBC, counts
    <2> QED BY <1>1, <1>2, <1>16, <2>1, KillStep, ClosePendingTBCStep
  <1>17. CASE Finished \/ UNCHANGED vars
    <2>1. go' = go /\ mh' = mh /\ panic' = panic /\ nerr' = nerr
      BY <1>17 DEF Finished, vars
    <2> QED BY <2>1 DEF IInv
  <1> QED BY <1>3, <1>4, <1>5, <1>6, <1>7, <1>8, <1>9, <1>10, <1>11, <1>12, <1>13, <1>14,
             <1>15, <1>16, <1>17 DEF Next

\* What a good stack says of the message handler and of what calls report.
LEMMA GoodIsLive == IInv => HandlerIsLive
  <1> SUFFICES ASSUME IInv, go # <<>>, go[1].k = "pc", mh.h # 0
               PROVE  /\ mh.h \in Calls /\ go[mh.h].kind = "xpcall"
                      /\ \A i \in Calls : i > mh.h => go[i].kind # "pcall"
    BY DEF HandlerIsLive
  <1>1. Len(go) \in Nat /\ Len(go) > 0 /\ OnTop(go, mh, panic) /\ IsSeq(go)
    BY GoodParts DEF IInv
  <1>2. Live(mh.h, go, Len(go))
    BY <1>1 DEF OnTop
  <1>3. \A i : i \in Calls <=> i \in 1 .. Len(go) /\ go[i].k = "pc"
    <2>1. DOMAIN go = 1 .. Len(go)
      BY <1>1, SeqParts
    <2> QED BY <2>1 DEF Calls
  <1>4. mh.h \in 1 .. Len(go) /\ IsCall(go[mh.h], {"xpcall"})
    BY <1>2 DEF Live
  <1>5. ASSUME NEW i \in Calls, i > mh.h PROVE go[i].kind # "pcall"
    <2>1. i \in mh.h + 1 .. Len(go) /\ go[i].k = "pc"
      BY <1>1, <1>3, <1>4, <1>5
    <2>2. ~IsCall(go[i], {"pcall"})
      BY <1>2, <2>1 DEF Live
    <2> QED BY <2>1, <2>2 DEF IsCall
  <1> QED BY <1>3, <1>4, <1>5 DEF IsCall

\* A call that reports is on top and in a zone of its own: what it keeps is the last
\* error raised.
LEMMA GoodReports == IInv => ReportsLast
  <1> SUFFICES ASSUME IInv, NEW i \in Calls, go[i].st = "report",
                      go[i].kind \in {"pcall", "run", "co"}
               PROVE  go[i].err = go[i].raw
    BY DEF ReportsLast
  <1> DEFINE n == Len(go)
  <1>1. IsSeq(go) /\ n \in Nat /\ \A j \in 1 .. n : At(go, j)
    BY GoodParts DEF IInv
  <1>2. i \in 1 .. n /\ go[i].k = "pc"
    <2>1. DOMAIN go = 1 .. n
      BY <1>1, SeqParts
    <2> QED BY <2>1 DEF Calls
  <1>3. i = n
    <2> SUFFICES ASSUME i # n PROVE FALSE
      OBVIOUS
    <2>1. PICK j \in 1 .. n : j > 1 /\ j - 1 = i
      BY <1>1, <1>2
    <2>2. ~IsOver(go[j - 1])
      BY <1>1, <2>1 DEF At, Seated
    <2> QED BY <1>2, <2>1, <2>2 DEF IsOver
  <1>4. OnTop(go, mh, panic) /\ panic = 0
    <2>1. n > 0
      BY <1>1, <1>2
    <2>2. IsOver(go[n])
      BY <1>2, <1>3 DEF IsOver
    <2> QED BY <2>1, <2>2, GoodParts DEF IInv
  <1>5. Bound(go[i]) /\ IsCall(go[i], {"pcall", "run", "co"})
    BY <1>2 DEF Bound, IsCall
  <1>6. InZone(go, i, n)
    BY <1>1, <1>2, <1>3, <1>5, ZoneAt
  <1>7. Settled(go, i, i)
    BY <1>2, <1>3, <1>4, <1>6 DEF OnTop
  <1>8. Keeps(go[i]) = go[i].err /\ go[i].err # 0
    BY <1>1, <1>2, <1>3, <1>6 DEF Keeps, Caught, At, Remembered
  <1>9. Settled(go, i, i) <=> (Keeps(go[i]) # 0 => Keeps(go[i]) = go[i].raw)
    BY <1>2, SettledAt
  <1> QED BY <1>7, <1>8, <1>9

\* While no coroutine is closed inside the unwinding of its own error, the records
\* of the Go stack, the message handler and the error in flight fit together.
THEOREM StackIsGood == ~KillMidUnwind /\ Spec => []IInv
  <1>1. KillMidUnwind \/ ~KillMidUnwind
    OBVIOUS
  <1> SUFFICES ASSUME ~KillMidUnwind PROVE Spec => []IInv
    OBVIOUS
  <1>2. IInv /\ [Next]_vars => IInv'
    BY StepGood
  <1> QED BY <1>2, InitGood, PTL DEF Spec

\* A message handler that is set is that of an xpcall in progress, with no pcall
\* inside it (pcall and xpcall of stdlib/globals.go set and restore vm.msgHandler;
\* ProtectedCall's recovery takes it and sets it again).
THEOREM HandlersAreLive == ~KillMidUnwind /\ Spec => []HandlerIsLive
  BY StackIsGood, GoodIsLive, PTL

\* What pcall and the outermost call report is the last error raised on their
\* behalf: by the body, by a close handler, or by one that closes the variables of
\* a close handler.
THEOREM ReportsTheLast == ~KillMidUnwind /\ Spec => []ReportsLast
  BY StackIsGood, GoodReports, PTL

-----------------------------------------------------------------------------
(***************************************************************************)
(* The call stack.                                                         *)
(*                                                                         *)
(* Every record of the Go stack has a depth: how much of the call stack    *)
(* was there when the function got to run, its own frame included.  The    *)
(* call stack keeps every Lua function's base at its depth, and so does    *)
(* every copy that callMsgHandler has taken; a recovery cuts it at the     *)
(* depth of the call that recovers.                                        *)
(***************************************************************************)
\* The Lua function that record i is, or is a scope of.
LuaOf(g, i) == IF g[i].k = "lua" THEN g[i] ELSE g[i - 1]

\* Call stack c has the frames of the Lua functions among the first n records.
Holds(c, g, d, n) ==
    \A j \in 1 .. n : g[j].k = "lua" => d[j] \in 1 .. Len(c) /\ c[d[j]] = g[j].base

\* What lies below a Lua function ...
LuaDeep(g, d, i) ==
    /\ i > 1 /\ d[i] > 0 /\ g[i - 1].k # "msgh"
    /\ g[i - 1].k \in {"lua", "scope"} => g[i].base = LuaOf(g, i - 1).base + MaxStack
    /\ g[i - 1].k = "closers" => g[i - 1].st = "running"
    /\ ~(g[i - 1].k = "closers" /\ g[i - 1].all) => d[i] = d[i - 1] + 1

\* ... a protected call, which keeps its depth ...
CallDeep(g, d, i) ==
    /\ g[i].cs = d[i]
    /\ g[i].kind = "callback" =>
         /\ g[i].st # "closing"
         /\ g[i].st \in {"handled", "report"} => g[i].err # 0
    /\ g[i].kind \in {"pcall", "xpcall", "callback"} =>
         i > 1 /\ g[i - 1].k = "lua" /\ d[i] = d[i - 1] + 1
    /\ g[i].kind = "hcall" =>
         /\ i > 1
         /\ \/ g[i - 1].k = "msgh" /\ d[i] = Len(g[i - 1].snap)
            \/ IsCall(g[i - 1], {"xpcall"}) /\ g[i - 1].st = "fallback" /\ d[i] = d[i - 1]

\* ... callMsgHandler with its two copies of the call stack ...
MsghDeep(g, d, i) ==
    /\ i > 1 /\ d[i] = d[i - 1]
    /\ IsSeq(g[i].snap) /\ d[i] <= Len(g[i].snap) /\ Holds(g[i].snap, g, d, i - 1)
    /\ IsSeq(g[i].back) /\ d[i] <= Len(g[i].back) /\ Holds(g[i].back, g, d, i - 1)
    /\ \/ g[i - 1].k = "pc" /\ g[i - 1].st = "handled" /\ Len(g[i].back) = d[i]
       \/ g[i - 1].k = "closers" /\ g[i - 1].st = "asked"

\* ... and a loop over close handlers. CloseAllTBC does not cut the call stack.
ClosersDeep(g, d, i) ==
    /\ g[i].all => i = 1 /\ d[i] = 0
    /\ ~g[i].all /\ g[i].st # "next" => g[i].cs = d[i]
    /\ i > 1 => \/ g[i - 1].k = "pc" /\ g[i - 1].st = "closing" /\ d[i] = d[i - 1]
                \/ /\ g[i - 1].k = "closers" /\ g[i - 1].st = "inner"
                   /\ ~g[i - 1].all => d[i] = d[i - 1]

Deep(g, d, i) ==
    /\ \A j \in 1 .. i - 1 : d[j] <= d[i]
    /\ g[i].k = "lua" => LuaDeep(g, d, i)
    /\ g[i].k = "scope" => i > 1 /\ g[i - 1].k = "lua" /\ d[i] = d[i - 1]
    /\ g[i].k = "pc" => CallDeep(g, d, i)
    /\ g[i].k = "msgh" => MsghDeep(g, d, i)
    /\ g[i].k = "closers" => ClosersDeep(g, d, i)

Placed(g, d) ==
    IsSeq(g) /\ \A i \in 1 .. Len(g) : d[i] \in Nat /\ Deep(g, d, i)

\* The call stack has all frames of the Go stack; it ends with that of a Lua
\* function that runs, and at its depth where a call or a loop goes on.
Framed(g, d, c, t, p) ==
    LET n == Len(g)
    IN  /\ Holds(c, g, d, n) /\ d[n] <= Len(c)
        /\ p = 0 /\ g[n].k \in {"lua", "scope"} =>
             Len(c) = d[n] /\ t = LuaOf(g, n).base + MaxStack
        /\ g[n].k = "pc" /\ g[n].st # "body" => Len(c) = d[n]
        /\ g[n].k = "closers" /\ ~g[n].all /\ g[n].st \in {"next", "inner"} => Len(c) = d[n]

Frames(g, c, t, p) ==
    IsSeq(c) /\ \E d : Placed(g, d) /\ (Len(g) > 0 => Framed(g, d, c, t, p))

\* What is said of record i is about the first i records.
LEMMA HoldsBelow ==
  ASSUME NEW g, NEW g2, NEW k, Alike(g, g2, k), NEW d, NEW d2,
         \A j \in 1 .. k : d2[j] = d[j], NEW c, NEW n \in Nat, n <= k
  PROVE  Holds(c, g2, d2, n) <=> Holds(c, g, d, n)
  <1>1. k \in Nat /\ \A j \in 1 .. n : j \in 1 .. k /\ g2[j] = g[j] /\ d2[j] = d[j]
    BY DEF Alike
  <1> QED BY <1>1 DEF Holds

LEMMA DeepCarried ==
  ASSUME NEW g, NEW g2, NEW k, Alike(g, g2, k), NEW d, NEW d2,
         \A j \in 1 .. k : d2[j] = d[j], NEW i \in 1 .. k,
         Deep(g, d, i), i > 1 => Deep(g, d, i - 1)
  PROVE  Deep(g2, d2, i)
  <1>1. /\ k \in Nat /\ g2[i] = g[i] /\ d2[i] = d[i]
        /\ \A j \in 1 .. i - 1 : d2[j] = d[j]
        /\ i > 1 => g2[i - 1] = g[i - 1] /\ d2[i - 1] = d[i - 1]
    BY DEF Alike
  <1>2. i > 1 /\ g[i - 1].k \in {"lua", "scope"} => LuaOf(g2, i - 1) = LuaOf(g, i - 1)
    <2> SUFFICES ASSUME i > 1, g[i - 1].k = "scope" PROVE LuaOf(g2, i - 1) = LuaOf(g, i - 1)
      BY <1>1 DEF LuaOf
    <2>1. i - 1 > 1 /\ i - 1 \in Nat
      BY <1>1 DEF Deep
    <2>2. i - 1 - 1 \in 1 .. k
      BY <2>1, <1>1
    <2>3. g2[i - 1 - 1] = g[i - 1 - 1]
      BY <2>2 DEF Alike
    <2> QED BY <1>1, <2>3 DEF LuaOf
  <1>3. g[i].k = "lua" => LuaDeep(g2, d2, i)
    BY <1>1, <1>2 DEF Deep, LuaDeep
  <1>4. g[i].k = "pc" => CallDeep(g2, d2, i)
    BY <1>1 DEF Deep, CallDeep
  <1>5. g[i].k = "msgh" => MsghDeep(g2, d2, i)
    <2> SUFFICES ASSUME g[i].k = "msgh" PROVE MsghDeep(g2, d2, i)
      OBVIOUS
    <2>0. MsghDeep(g, d, i)
      BY DEF Deep
    <2>1. i > 1 /\ i - 1 \in Nat /\ i - 1 <= k
      BY <2>0, <1>1 DEF MsghDeep
    <2>2. \A c : Holds(c, g2, d2, i - 1) <=> Holds(c, g, d, i - 1)
      BY <2>1, HoldsBelow
    <2> QED BY <1>1, <2>0, <2>1, <2>2 DEF MsghDeep
  <1>6. g[i].k = "closers" => ClosersDeep(g2, d2, i)
    BY <1>1 DEF Deep, ClosersDeep
  <1> QED BY <1>1, <1>3, <1>4, <1>5, <1>6 DEF Deep

\* Popping records keeps the others where they are ...
LEMMA CutPlaced ==
  ASSUME NEW g, NEW d, Placed(g, d), NEW g2, Alike(g, g2, Len(g2))
  PROVE  Placed(g2, d) /\ \A c : \A n \in 0 .. Len(g2) : Holds(c, g2, d, n) <=> Holds(c, g, d, n)
  <1>1. IsSeq(g2) /\ Len(g2) \in Nat /\ Len(g2) <= Len(g) /\ Len(g) \in Nat
    BY SeqParts DEF Alike
  <1>2. \A i \in 1 .. Len(g2) : d[i] \in Nat /\ Deep(g2, d, i)
    <2> TAKE i \in 1 .. Len(g2)
    <2>1. i \in 1 .. Len(g) /\ (i > 1 => i - 1 \in 1 .. Len(g))
      BY <1>1
    <2>2. d[i] \in Nat /\ Deep(g, d, i) /\ (i > 1 => Deep(g, d, i - 1))
      BY <2>1 DEF Placed
    <2> QED BY <2>2, DeepCarried
  <1>3. ASSUME NEW c, NEW n \in 0 .. Len(g2)
        PROVE  Holds(c, g2, d, n) <=> Holds(c, g, d, n)
    BY <1>1, HoldsBelow
  <1> QED BY <1>1, <1>2, <1>3 DEF Placed

\* ... and so does pushing one.
Put(d, n, x) == [j \in Nat |-> IF j = n + 1 THEN x ELSE d[j]]

\* Record r is pushed on the n records of g, at depth x.
Pushes(g, d, n, r, x, g2, d2) ==
    /\ Placed(g, d) /\ n = Len(g) /\ n > 0
    /\ x \in Nat /\ d[n] <= x
    /\ g2 = Append(g, r) /\ d2 = Put(d, n, x)

LEMMA PutPlaced ==
  ASSUME NEW g, NEW d, NEW n, NEW r, NEW x, NEW g2, NEW d2, Pushes(g, d, n, r, x, g2, d2),
         Deep(g2, d2, n + 1)
  PROVE  /\ Placed(g2, d2) /\ Len(g2) = n + 1 /\ g2[n + 1] = r /\ d2[n + 1] = x
         /\ \A j \in 1 .. n : g2[j] = g[j] /\ d2[j] = d[j]
         /\ \A c : \A m \in 0 .. n : Holds(c, g2, d2, m) <=> Holds(c, g, d, m)
  <1>0. /\ Placed(g, d) /\ n = Len(g) /\ n > 0 /\ x \in Nat
        /\ g2 = Append(g, r) /\ d2 = Put(d, n, x)
    BY DEF Pushes
  <1>1. IsSeq(g) /\ n \in Nat
    BY <1>0, SeqParts DEF Placed
  <1>2. Alike(g, g2, n) /\ Len(g2) = n + 1 /\ g2[n + 1] = r
    BY <1>0, <1>1, Pushed
  <1>3. /\ d2[n + 1] = x /\ \A j \in 1 .. n : d2[j] = d[j]
        /\ \A i \in 1 .. n + 1 : i \in 1 .. n \/ i = n + 1
        /\ \A i \in 0 .. n : i \in Nat /\ i <= n
    BY <1>0, <1>1 DEF Put
  <1>4. \A i \in 1 .. n : d2[i] \in Nat /\ Deep(g2, d2, i)
    <2> TAKE i \in 1 .. n
    <2>1. i > 1 => i - 1 \in 1 .. n
      BY <1>1
    <2>2. d[i] \in Nat /\ Deep(g, d, i) /\ (i > 1 => Deep(g, d, i - 1))
      BY <1>0, <2>1 DEF Placed
    <2> QED BY <1>2, <1>3, <2>2, DeepCarried
  <1>5. \A i \in 1 .. Len(g2) : d2[i] \in Nat /\ Deep(g2, d2, i)
    BY <1>0, <1>2, <1>3, <1>4
  <1>6. ASSUME NEW c, NEW m \in 0 .. n
        PROVE  Holds(c, g2, d2, m) <=> Holds(c, g, d, m)
    BY <1>1, <1>2, <1>3, HoldsBelow
  <1>7. IsSeq(g2) /\ \A j \in 1 .. n : g2[j] = g[j]
    BY <1>2 DEF Alike
  <1>8. Placed(g2, d2)
    BY <1>3, <1>5, <1>7 DEF Placed
  <1> QED BY <1>2, <1>3, <1>6, <1>7, <1>8

\* What the record on top and the one below it are.
LEMMA PutParts ==
  ASSUME NEW g, NEW d, NEW n, NEW r, NEW x, NEW g2, NEW d2, Pushes(g, d, n, r, x, g2, d2)
  PROVE  /\ n \in Nat /\ IsSeq(g2) /\ Len(g2) = n + 1 /\ g2[n + 1] = r /\ g2[n + 1 - 1] = g[n]
         /\ d2[n + 1] = x /\ d2[n + 1 - 1] = d[n] /\ \A j \in 1 .. n + 1 - 1 : d2[j] <= x
         /\ g[n].k \in {"lua", "scope"} => LuaOf(g2, n + 1 - 1) = LuaOf(g, n)
         /\ \A c : Holds(c, g2, d2, n + 1 - 1) <=> Holds(c, g, d, n)
  <1>0. /\ Placed(g, d) /\ n = Len(g) /\ n > 0 /\ x \in Nat /\ d[n] <= x
        /\ g2 = Append(g, r) /\ d2 = Put(d, n, x)
    BY DEF Pushes
  <1>1. IsSeq(g) /\ n \in Nat /\ \A i \in 1 .. n : d[i] \in Nat /\ Deep(g, d, i)
    BY <1>0, SeqParts DEF Placed
  <1>2. Alike(g, g2, n) /\ Len(g2) = n + 1 /\ g2[n + 1] = r
    BY <1>0, <1>1, Pushed
  <1>3. d2[n + 1] = x /\ \A j \in 1 .. n : d2[j] = d[j]
    BY <1>0, <1>1 DEF Put
  <1>4. Deep(g, d, n) /\ n \in 1 .. n /\ n + 1 - 1 = n
    BY <1>0, <1>1
  <1>5. \A j \in 1 .. n : d2[j] <= x
    <2> TAKE j \in 1 .. n
    <2>1. d[j] <= d[n] /\ d[j] \in Nat /\ d[n] \in Nat
      <3>1. j \in 1 .. n - 1 \/ j = n
        BY <1>1
      <3> QED BY <3>1, <1>1, <1>4 DEF Deep
    <2> QED BY <2>1, <1>0, <1>3
  <1>6. IsSeq(g2) /\ \A j \in 1 .. n : g2[j] = g[j]
    BY <1>2 DEF Alike
  <1>7. g[n].k \in {"lua", "scope"} => LuaOf(g2, n) = LuaOf(g, n)
    <2>1. g[n].k = "scope" => n - 1 \in 1 .. n
      BY <1>1, <1>4 DEF Deep
    <2> QED BY <2>1, <1>4, <1>6 DEF LuaOf
  <1>8. \A c : Holds(c, g2, d2, n) <=> Holds(c, g, d, n)
    BY <1>1, <1>2, <1>3, HoldsBelow
  <1> QED BY <1>1, <1>2, <1>3, <1>4, <1>5, <1>6, <1>7, <1>8

\* The fields of new records that the call stack is about.
LEMMA NewDepths ==
  /\ \A b, v : LuaFrame(b, v).k = "lua" /\ LuaFrame(b, v).base = b
  /\ \A l, t, e : Scope(l, t, e).k = "scope"
  /\ \A kind, t, c : LET r == Protected(kind, t, c)
                     IN  r.k = "pc" /\ r.kind = kind /\ r.st = "body" /\ r.cs = Len(c)
  /\ \A e, s, b : LET r == Handling(e, s, b)
                  IN  r.k = "msgh" /\ r.snap = s /\ r.back = b
  /\ \A l, e, u, a : LET r == Closers(l, e, u, a)
                     IN  r.k = "closers" /\ r.all = a /\ r.st = "next"
  BY DEF LuaFrame, Scope, Protected, Handling, Closers

\* Calling a Lua function: its frame goes on the call stack.
LEMMA LuaPut ==
  ASSUME NEW g, NEW d, Placed(g, d), NEW n, n = Len(g), n > 0,
         NEW c, IsSeq(c), Holds(c, g, d, n), d[n] <= Len(c),
         g[n].k # "msgh", g[n].k = "closers" => g[n].st = "running",
         ~(g[n].k = "closers" /\ g[n].all) => Len(c) = d[n],
         NEW base, g[n].k \in {"lua", "scope"} => base = LuaOf(g, n).base + MaxStack,
         NEW v
  PROVE  Frames(Append(g, LuaFrame(base, v)), Append(c, base), base + MaxStack, 0)
  <1>1. PICK x : x = Len(c) + 1
    OBVIOUS
  <1>2. PICK r : r = LuaFrame(base, v)
    OBVIOUS
  <1>3. PICK g2 : g2 = Append(g, r)
    OBVIOUS
  <1>4. PICK d2 : d2 = Put(d, n, x)
    OBVIOUS
  <1>5. PICK c2 : c2 = Append(c, base)
    OBVIOUS
  <1>6. r.k = "lua" /\ r.base = base
    BY <1>2, NewDepths
  <1>7. /\ IsSeq(c2) /\ Len(c) \in Nat /\ Len(c2) = x /\ x \in Nat /\ c2[x] = base
        /\ \A i \in 1 .. Len(c) : c2[i] = c[i]
    BY <1>1, <1>5, Pushed, SeqParts DEF Alike
  <1>8. n \in Nat /\ d[n] \in Nat /\ n \in 1 .. n
    BY SeqParts DEF Placed
  <1>9. d[n] <= x
    BY <1>1, <1>7, <1>8
  <1>9a. Pushes(g, d, n, r, x, g2, d2)
    BY <1>3, <1>4, <1>7, <1>9 DEF Pushes
  <1>10. /\ IsSeq(g2) /\ Len(g2) = n + 1 /\ g2[n + 1] = r /\ g2[n + 1 - 1] = g[n]
         /\ d2[n + 1] = x /\ d2[n + 1 - 1] = d[n] /\ \A j \in 1 .. n + 1 - 1 : d2[j] <= x
         /\ g[n].k \in {"lua", "scope"} => LuaOf(g2, n + 1 - 1) = LuaOf(g, n)
    BY <1>9a, PutParts
  <1>11. LuaDeep(g2, d2, n + 1)
    BY <1>1, <1>6, <1>7, <1>8, <1>10 DEF LuaDeep
  <1>12. Deep(g2, d2, n + 1)
    BY <1>6, <1>10, <1>11 DEF Deep
  <1>13. Placed(g2, d2) /\ Holds(c, g2, d2, n)
    BY <1>8, <1>9a, <1>12, PutPlaced
  <1>14. Holds(c2, g2, d2, n + 1)
    <2> SUFFICES ASSUME NEW j \in 1 .. n + 1, g2[j].k = "lua"
                 PROVE  d2[j] \in 1 .. Len(c2) /\ c2[d2[j]] = g2[j].base
      BY DEF Holds
    <2>1. CASE j \in 1 .. n
      <3>1. d2[j] \in 1 .. Len(c) /\ c[d2[j]] = g2[j].base
        BY <2>1, <1>13 DEF Holds
      <3> QED BY <3>1, <1>1, <1>7
    <2>2. CASE j = n + 1
      BY <2>2, <1>1, <1>6, <1>7, <1>10
    <2> QED BY <2>1, <2>2, <1>8
  <1>15. LuaOf(g2, n + 1) = r
    BY <1>6, <1>10 DEF LuaOf
  <1>16. Framed(g2, d2, c2, base + MaxStack, 0)
    BY <1>6, <1>7, <1>10, <1>14, <1>15 DEF Framed
  <1> QED BY <1>2, <1>3, <1>5, <1>7, <1>13, <1>16 DEF Frames

\* Any other record: it holds no frame.
LEMMA OtherPut ==
  ASSUME NEW g, NEW d, NEW n, NEW r, NEW x, NEW g2, NEW d2, Pushes(g, d, n, r, x, g2, d2),
         r.k # "lua", Deep(g2, d2, n + 1),
         NEW c, Holds(c, g, d, n)
  PROVE  /\ Placed(g2, d2) /\ Holds(c, g2, d2, n + 1) /\ Len(g2) = n + 1
         /\ g2[n + 1] = r /\ d2[n + 1] = x
  <1>1. n \in Nat /\ n \in 0 .. n
    BY SeqParts DEF Placed, Pushes
  <1>2. /\ Placed(g2, d2) /\ Len(g2) = n + 1 /\ g2[n + 1] = r /\ d2[n + 1] = x
        /\ Holds(c, g2, d2, n)
    BY <1>1, PutPlaced
  <1>3. Holds(c, g2, d2, n + 1)
    BY <1>1, <1>2 DEF Holds
  <1> QED BY <1>2, <1>3

\* Fewer records, a longer call stack, a shorter one.
LEMMA HoldsLess ==
  ASSUME NEW c, NEW g, NEW d, NEW n \in Nat, Holds(c, g, d, n), NEW m \in Nat, m <= n
  PROVE  Holds(c, g, d, m)
  BY DEF Holds

LEMMA HoldsMore ==
  ASSUME NEW c, IsSeq(c), NEW g, NEW d, NEW n, Holds(c, g, d, n), NEW b
  PROVE  Holds(Append(c, b), g, d, n)
  <1>1. PICK c2 : c2 = Append(c, b)
    OBVIOUS
  <1>2. Len(c) \in Nat /\ Len(c2) = Len(c) + 1 /\ \A i \in 1 .. Len(c) : c2[i] = c[i]
    BY <1>1, Pushed, SeqParts DEF Alike
  <1>3. \A i \in 1 .. Len(c) : i \in 1 .. Len(c2)
    BY <1>2
  <1>4. Holds(c2, g, d, n)
    BY <1>2, <1>3 DEF Holds
  <1> QED BY <1>1, <1>4

LEMMA HoldsCut ==
  ASSUME NEW c, IsSeq(c), NEW g, NEW d, NEW n, Holds(c, g, d, n),
         NEW k \in Nat, k <= Len(c), \A j \in 1 .. n : d[j] <= k,
         NEW c2, Alike(c, c2, k), Len(c2) = k
  PROVE  Holds(c2, g, d, n)
  <1>1. Len(c) \in Nat /\ \A i \in 1 .. k : c2[i] = c[i]
    BY SeqParts DEF Alike
  <1>2. \A j \in 1 .. n : g[j].k = "lua" => d[j] \in 1 .. k
    BY <1>1 DEF Holds
  <1> QED BY <1>1, <1>2 DEF Holds

LEMMA Cutting ==
  ASSUME NEW c, IsSeq(c), NEW k \in Nat, k <= Len(c)
  PROVE  Alike(c, Cut(c, k), k) /\ Len(Cut(c, k)) = k
  <1>1. Len(c) \in Nat
    BY SeqParts
  <1>2. CASE Len(c) > k
    BY <1>2, Shortened DEF Cut
  <1>3. CASE ~(Len(c) > k)
    <2>1. Len(c) = k
      BY <1>1, <1>3
    <2> QED BY <1>1, <1>3, <2>1 DEF Cut, Alike
  <1> QED BY <1>2, <1>3

\* The record on top of the n records of g becomes r.
Retops(g, d, n, r, g2) ==
    Placed(g, d) /\ n = Len(g) /\ n > 0 /\ g2 = Append(Front(g), r)

SameDepth(g, d, n, r) ==
    /\ r.k = g[n].k
    /\ r.k = "lua" => r.base = g[n].base
    /\ r.k = "pc" => /\ r.kind = g[n].kind /\ r.cs = g[n].cs
                     /\ r.kind = "callback" =>
                          /\ r.st # "closing"
                          /\ r.st \in {"handled", "report"} => r.err # 0
    /\ r.k = "msgh" => r.snap = g[n].snap /\ r.back = g[n].back
    /\ r.k = "closers" => /\ r.all = g[n].all
                          /\ ~r.all /\ r.st # "next" => r.cs = d[n]

LEMMA RetopPlaced ==
  ASSUME NEW g, NEW d, NEW n, NEW r, NEW g2, Retops(g, d, n, r, g2), SameDepth(g, d, n, r)
  PROVE  /\ Placed(g2, d) /\ Len(g2) = n /\ g2[n] = r /\ n \in Nat /\ d[n] \in Nat
         /\ \A j \in 1 .. n - 1 : g2[j] = g[j]
         /\ \A c : Holds(c, g2, d, n) <=> Holds(c, g, d, n)
         /\ r.k = "scope" => LuaOf(g2, n) = LuaOf(g, n)
  <1>0. Placed(g, d) /\ n = Len(g) /\ n > 0 /\ g2 = Append(Front(g), r)
    BY DEF Retops
  <1>1. IsSeq(g) /\ n \in Nat /\ \A i \in 1 .. n : d[i] \in Nat /\ Deep(g, d, i)
    BY <1>0, SeqParts DEF Placed
  <1>2. Alike(g, g2, n - 1) /\ Len(g2) = n /\ g2[n] = r
    BY <1>0, <1>1, Replaced
  <1>3. /\ IsSeq(g2) /\ n - 1 \in Nat /\ \A j \in 1 .. n - 1 : g2[j] = g[j]
        /\ \A i \in 1 .. n : i \in 1 .. n - 1 \/ i = n
    BY <1>0, <1>1, <1>2 DEF Alike
  <1>4. \A i \in 1 .. n - 1 : Deep(g2, d, i)
    <2> TAKE i \in 1 .. n - 1
    <2>1. i \in 1 .. n /\ (i > 1 => i - 1 \in 1 .. n)
      BY <1>1
    <2>2. Deep(g, d, i) /\ (i > 1 => Deep(g, d, i - 1))
      BY <1>1, <2>1
    <2> QED BY <1>2, <2>2, DeepCarried
  <1>5. \A c : Holds(c, g2, d, n - 1) <=> Holds(c, g, d, n - 1)
    BY <1>2, <1>3, HoldsBelow
  <1>6. Deep(g, d, n) /\ (n > 1 => g2[n - 1] = g[n - 1])
    <2>1. n \in 1 .. n /\ (n > 1 => n - 1 \in 1 .. n - 1)
      BY <1>0, <1>1
    <2> QED BY <2>1, <1>1, <1>3
  <1>7. n > 1 /\ g[n - 1].k \in {"lua", "scope"} => LuaOf(g2, n - 1) = LuaOf(g, n - 1)
    <2> SUFFICES ASSUME n > 1, g[n - 1].k = "scope" PROVE LuaOf(g2, n - 1) = LuaOf(g, n - 1)
      BY <1>6 DEF LuaOf
    <2>1. Deep(g, d, n - 1)
      BY <1>1
    <2>2. n - 1 - 1 \in 1 .. n - 1
      BY <1>1, <2>1 DEF Deep
    <2> QED BY <1>3, <1>6, <2>2 DEF LuaOf
  <1>8. Deep(g2, d, n)
    <2>0. /\ r.k = g[n].k
          /\ r.k = "lua" => r.base = g[n].base
          /\ r.k = "pc" => /\ r.kind = g[n].kind /\ r.cs = g[n].cs
                           /\ r.kind = "callback" =>
                                /\ r.st # "closing"
                                /\ r.st \in {"handled", "report"} => r.err # 0
          /\ r.k = "msgh" => r.snap = g[n].snap /\ r.back = g[n].back
          /\ r.k = "closers" => /\ r.all = g[n].all
                                /\ ~r.all /\ r.st # "next" => r.cs = d[n]
      BY DEF SameDepth
    <2>1. r.k = "lua" => LuaDeep(g2, d, n)
      BY <2>0, <1>2, <1>6, <1>7 DEF Deep, LuaDeep
    <2>2. r.k = "pc" => CallDeep(g2, d, n)
      BY <2>0, <1>2, <1>6 DEF Deep, CallDeep
    <2>3. r.k = "msgh" => MsghDeep(g2, d, n)
      BY <2>0, <1>2, <1>5, <1>6 DEF Deep, MsghDeep
    <2>4. r.k = "closers" => ClosersDeep(g2, d, n)
      BY <2>0, <1>2, <1>6 DEF Deep, ClosersDeep
    <2> QED BY <2>0, <2>1, <2>2, <2>3, <2>4, <1>2, <1>6 DEF Deep
  <1>9. \A i \in 1 .. n : d[i] \in Nat /\ Deep(g2, d, i)
    BY <1>1, <1>3, <1>4, <1>8
  <1>10. \A c : Holds(c, g2, d, n) <=> Holds(c, g, d, n)
    <2> TAKE c
    <2>1. \A j \in 1 .. n : g2[j].k = g[j].k /\ (g[j].k = "lua" => g2[j].base = g[j].base)
      <3>1. r.k = g[n].k /\ (r.k = "lua" => r.base = g[n].base)
        BY DEF SameDepth
      <3> QED BY <3>1, <1>2, <1>3
    <2> QED BY <2>1 DEF Holds
  <1>11. r.k = "scope" => LuaOf(g2, n) = LuaOf(g, n)
    <2>1. r.k = "scope" => n > 1
      BY <1>6 DEF SameDepth, Deep
    <2> QED BY <2>1, <1>2, <1>6 DEF LuaOf, SameDepth
  <1>12. n \in 1 .. n
    BY <1>0, <1>1
  <1> QED BY <1>1, <1>2, <1>3, <1>9, <1>10, <1>11, <1>12 DEF Placed

\* The record on top is gone.
Pops(g, d, n, g2) == Placed(g, d) /\ n = Len(g) /\ n > 0 /\ g2 = Front(g)

LEMMA PopPlaced ==
  ASSUME NEW g, NEW d, NEW n, NEW g2, Pops(g, d, n, g2)
  PROVE  /\ Placed(g2, d) /\ Len(g2) = n - 1 /\ n \in Nat
         /\ \A j \in 1 .. n - 1 : g2[j] = g[j]
         /\ \A c : \A m \in 0 .. n - 1 : Holds(c, g2, d, m) <=> Holds(c, g, d, m)
  <1>1. IsSeq(g) /\ Placed(g, d) /\ n = Len(g) /\ n > 0 /\ g2 = Front(g)
    BY DEF Pops, Placed
  <1>2. Alike(g, g2, Len(g2)) /\ Len(g2) = n - 1 /\ n \in Nat
    BY <1>1, Popped, SeqParts
  <1>3. \A j \in 1 .. n - 1 : g2[j] = g[j]
    BY <1>2 DEF Alike
  <1> QED BY <1>1, <1>2, <1>3, CutPlaced

\* What the two records on top are.
LEMMA PlacedParts ==
  ASSUME NEW g, NEW d, Placed(g, d), NEW n, n = Len(g), n > 0
  PROVE  /\ n \in Nat /\ d[n] \in Nat /\ Deep(g, d, n) /\ Last(g) = g[n] /\ IsSeq(g)
         /\ \A j \in 1 .. n : d[j] \in Nat /\ d[j] <= d[n]
         /\ n > 1 => /\ Deep(g, d, n - 1) /\ d[n - 1] \in Nat
                     /\ Last(Front(g)) = g[n - 1]
                     /\ \A j \in 1 .. n - 1 : d[j] <= d[n - 1]
  <1>1. IsSeq(g) /\ n \in Nat /\ \A i \in 1 .. n : d[i] \in Nat /\ Deep(g, d, i)
    BY SeqParts DEF Placed
  <1>2. \A i \in 1 .. n : \A j \in 1 .. i : d[j] <= d[i]
    <2> TAKE i \in 1 .. n
    <2> TAKE j \in 1 .. i
    <2>1. j \in 1 .. i - 1 \/ j = i
      BY <1>1
    <2> QED BY <2>1, <1>1 DEF Deep
  <1>3. n \in 1 .. n /\ (n > 1 => n - 1 \in 1 .. n)
    BY <1>1
  <1>4. Last(g) = g[n]
    BY <1>1, Popped
  <1>5. n > 1 => Last(Front(g)) = g[n - 1]
    <2> SUFFICES ASSUME n > 1 PROVE Last(Front(g)) = g[n - 1]
      OBVIOUS
    <2>1. PICK g2 : g2 = Front(g)
      OBVIOUS
    <2>2. IsSeq(g2) /\ Len(g2) = n - 1 /\ \A j \in 1 .. n - 1 : g2[j] = g[j]
      BY <2>1, <1>1, Popped DEF Alike
    <2>3. Last(g2) = g2[Len(g2)] /\ n - 1 \in 1 .. n - 1
      BY <2>2, <1>1, Popped
    <2> QED BY <2>1, <2>2, <2>3
  <1> QED BY <1>1, <1>2, <1>3, <1>4, <1>5

HereFramed == Good(go, mh, panic) /\ Frames(go, cs, top, panic)
ThereFramed == Frames(go', cs', top', panic')

\* What holds of the record on top before a step.
LEMMA FramedParts ==
  ASSUME NEW g, NEW m, NEW c, NEW t, NEW p, Good(g, m, p), Frames(g, c, t, p), g # <<>>
  PROVE  /\ IsSeq(c) /\ Len(c) \in Nat /\ IsSeq(g) /\ Len(g) \in Nat /\ Len(g) > 0
         /\ Last(g) = g[Len(g)] /\ IsRecord(Last(g))
         /\ \E d : Placed(g, d) /\ Framed(g, d, c, t, p)
  <1>1. Len(g) \in Nat /\ Len(g) > 0 /\ IsSeq(g) /\ IsRecord(Last(g)) /\ Last(g) = g[Len(g)]
    BY Tops
  <1>2. IsSeq(c) /\ Len(c) \in Nat
    BY SeqParts DEF Frames
  <1> QED BY <1>1, <1>2 DEF Frames

\* A local variable is declared.
LEMMA DeclareFramed == HereFramed /\ Declare => ThereFramed
  <1> SUFFICES ASSUME HereFramed, Declare PROVE ThereFramed
    OBVIOUS
  <1> PICK n : n = Len(go)
    OBVIOUS
  <1> PICK q : q = [Last(go) EXCEPT !.n = @ + 1]
    OBVIOUS
  <1>1. /\ panic = 0 /\ go # <<>> /\ Last(go).k = "lua" /\ go' = Append(Front(go), q)
        /\ cs' = cs /\ top' = top /\ panic' = panic
    BY DEF Declare, Running, Calm, On, WithLast
  <1>2. /\ IsSeq(cs) /\ n \in Nat /\ n > 0 /\ Last(go) = go[n] /\ IsRecord(Last(go))
        /\ \E d : Placed(go, d) /\ Framed(go, d, cs, top, panic)
    BY <1>1, FramedParts DEF HereFramed
  <1> PICK d : Placed(go, d) /\ Framed(go, d, cs, top, panic)
    BY <1>2
  <1>3. q.k = "lua" /\ q.base = go[n].base
    BY <1>1, <1>2 DEF IsRecord, LuaFields
  <1>4. Retops(go, d, n, q, go') /\ SameDepth(go, d, n, q)
    BY <1>1, <1>2, <1>3 DEF Retops, SameDepth
  <1>5. /\ Placed(go', d) /\ Len(go') = n /\ go'[n] = q
        /\ Holds(cs, go', d, n) <=> Holds(cs, go, d, n)
    BY <1>4, RetopPlaced
  <1>6. LuaOf(go', n) = q /\ LuaOf(go, n) = go[n]
    BY <1>1, <1>2, <1>3, <1>5 DEF LuaOf
  <1>7. Framed(go', d, cs, top, panic)
    <2>1. go[n].k = "lua" /\ Len(go) = n
      BY <1>1, <1>2
    <2>2. /\ Holds(cs, go, d, n) /\ d[n] <= Len(cs)
          /\ panic = 0 => Len(cs) = d[n] /\ top = go[n].base + MaxStack
      BY <1>6, <2>1 DEF Framed
    <2>3. go'[n].k = "lua" /\ LuaOf(go', n).base = go[n].base
      BY <1>3, <1>5, <1>6
    <2> QED BY <1>5, <2>2, <2>3 DEF Framed
  <1> QED BY <1>1, <1>2, <1>5, <1>7 DEF ThereFramed, Frames

\* A block or a function is left: its scope goes on top.
LEMMA ScopeFramed == HereFramed /\ (EndBlock \/ Return) => ThereFramed
  <1> SUFFICES ASSUME HereFramed, Running, NEW level, NEW ret, CloseScope(level, ret)
               PROVE  ThereFramed
    BY DEF EndBlock, Return
  <1> PICK n : n = Len(go)
    OBVIOUS
  <1>1. PICK todo : go' = Append(go, Scope(level, todo, ret))
    BY DEF CloseScope
  <1> PICK r : r = Scope(level, todo, ret)
    OBVIOUS
  <1>2. /\ panic = 0 /\ go # <<>> /\ Last(go).k = "lua"
        /\ cs' = cs /\ top' = top /\ panic' = panic
    BY DEF CloseScope, Running, Calm, On
  <1>3. /\ IsSeq(cs) /\ n \in Nat /\ n > 0 /\ Last(go) = go[n]
        /\ \E d : Placed(go, d) /\ Framed(go, d, cs, top, panic)
    BY <1>2, FramedParts DEF HereFramed
  <1> PICK d : Placed(go, d) /\ Framed(go, d, cs, top, panic)
    BY <1>3
  <1> PICK d2 : d2 = Put(d, n, d[n])
    OBVIOUS
  <1>4. r.k = "scope"
    BY NewDepths
  <1>5. d[n] \in Nat
    BY <1>3, PlacedParts
  <1>6. Pushes(go, d, n, r, d[n], go', d2)
    BY <1>1, <1>3, <1>5 DEF Pushes
  <1>7. /\ Len(go') = n + 1 /\ go'[n + 1] = r /\ go'[n + 1 - 1] = go[n]
        /\ d2[n + 1] = d[n] /\ d2[n + 1 - 1] = d[n] /\ \A j \in 1 .. n + 1 - 1 : d2[j] <= d[n]
    BY <1>6, PutParts
  <1>8. Deep(go', d2, n + 1)
    BY <1>2, <1>3, <1>4, <1>7 DEF Deep
  <1>9. Holds(cs, go, d, n) /\ Len(cs) = d[n] /\ top = LuaOf(go, n).base + MaxStack
    BY <1>2, <1>3 DEF Framed
  <1>10. Placed(go', d2) /\ Holds(cs, go', d2, n + 1)
    BY <1>4, <1>6, <1>8, <1>9, OtherPut
  <1>11. LuaOf(go', n + 1) = go[n] /\ LuaOf(go, n) = go[n]
    BY <1>2, <1>3, <1>4, <1>7 DEF LuaOf
  <1>12. Framed(go', d2, cs, top, panic)
    BY <1>4, <1>5, <1>7, <1>9, <1>10, <1>11 DEF Framed
  <1> QED BY <1>2, <1>3, <1>10, <1>12 DEF ThereFramed, Frames

\* A Lua function calls another.
LEMMA CallFramed == HereFramed /\ Call => ThereFramed
  <1> SUFFICES ASSUME HereFramed, Call PROVE ThereFramed
    OBVIOUS
  <1> PICK n : n = Len(go)
    OBVIOUS
  <1>1. /\ panic = 0 /\ go # <<>> /\ Last(go).k = "lua" /\ panic' = 0
        /\ go' = Append(go, LuaFrame(top, 0)) /\ cs' = Append(cs, top) /\ top' = top + MaxStack
    BY DEF Call, EnterLua, Running, Calm, On
  <1>2. /\ IsSeq(cs) /\ n \in Nat /\ n > 0 /\ Last(go) = go[n]
        /\ \E d : Placed(go, d) /\ Framed(go, d, cs, top, panic)
    BY <1>1, FramedParts DEF HereFramed
  <1> PICK d : Placed(go, d) /\ Framed(go, d, cs, top, panic)
    BY <1>2
  <1>3. /\ Holds(cs, go, d, n) /\ Len(cs) = d[n] /\ d[n] <= Len(cs)
        /\ top = LuaOf(go, n).base + MaxStack
    BY <1>1, <1>2 DEF Framed
  <1>4. go[n].k = "lua"
    BY <1>1, <1>2
  <1>5. Frames(Append(go, LuaFrame(top, 0)), Append(cs, top), top + MaxStack, 0)
    BY <1>2, <1>3, <1>4, LuaPut
  <1> QED BY <1>1, <1>5 DEF ThereFramed

\* A Lua function raises an error: calls keep it, and no depth changes.
LEMMA ToldDeep ==
  ASSUME NEW g, NEW d, Placed(g, d), \A i \in 1 .. Len(g) : IsRecord(g[i]), NEW e,
         NEW g2, g2 = Told(g, e)
  PROVE  /\ Placed(g2, d) /\ Len(g2) = Len(g)
         /\ \A i \in 1 .. Len(g) : g2[i].k = g[i].k
         /\ \A c : Holds(c, g2, d, Len(g)) <=> Holds(c, g, d, Len(g))
  <1> PICK n : n = Len(g)
    OBVIOUS
  <1>1. IsSeq(g) /\ n \in Nat /\ DOMAIN g = 1 .. n /\ \A i \in 1 .. n : d[i] \in Nat /\ Deep(g, d, i)
    BY SeqParts DEF Placed
  <1>2. /\ DOMAIN g2 = 1 .. n
        /\ \A i \in 1 .. n : g2[i] = IF i \in RaisedOn(g) THEN [g[i] EXCEPT !.raw = e] ELSE g[i]
    BY <1>1 DEF Told
  <1>3. g2 = [i \in 1 .. n |-> g2[i]]
    BY <1>1 DEF Told
  <1>4. IsSeq(g2) /\ Len(g2) = n
    <2>1. g2 \in Seq(Range(g2))
      <3>1. \A i \in 1 .. n : g2[i] \in Range(g2)
        BY <1>2 DEF Range
      <3> QED BY <3>1, <1>1, <1>3, IsASeq
    <2>2. IsSeq(g2)
      BY <2>1 DEF IsSeq
    <2> QED BY <2>2, <1>1, <1>2, SeqParts
  <1>5. \A i \in 1 .. n :
          /\ g2[i].k = g[i].k
          /\ g[i].k # "pc" => g2[i] = g[i]
          /\ g[i].k = "pc" => /\ g2[i].kind = g[i].kind /\ g2[i].st = g[i].st
                              /\ g2[i].cs = g[i].cs /\ g2[i].err = g[i].err
    <2> TAKE i \in 1 .. n
    <2>1. CASE i \in RaisedOn(g)
      <3>1. g[i].k = "pc" /\ DOMAIN g[i] = CallFields
        BY <2>1 DEF RaisedOn, IsRecord
      <3> QED BY <3>1, <2>1, <1>2 DEF CallFields
    <2>2. CASE i \notin RaisedOn(g)
      BY <2>2, <1>2
    <2> QED BY <2>1, <2>2
  <1>6. \A c : \A m \in 0 .. n : Holds(c, g2, d, m) <=> Holds(c, g, d, m)
    <2> TAKE c
    <2> TAKE m \in 0 .. n
    <2>1. \A j \in 1 .. m : g2[j].k = g[j].k /\ (g[j].k = "lua" => g2[j].base = g[j].base)
      BY <1>1, <1>5
    <2> QED BY <2>1 DEF Holds
  <1>7. \A i \in 1 .. n : Deep(g2, d, i)
    <2> TAKE i \in 1 .. n
    <2>0. Deep(g, d, i) /\ (i > 1 => Deep(g, d, i - 1) /\ i - 1 \in 1 .. n)
      BY <1>1
    <2>1. i > 1 => /\ g2[i - 1].k = g[i - 1].k
                   /\ g[i - 1].k # "pc" => g2[i - 1] = g[i - 1]
                   /\ g[i - 1].k = "pc" => g2[i - 1].kind = g[i - 1].kind
                                           /\ g2[i - 1].st = g[i - 1].st
      BY <2>0, <1>5
    <2>2. /\ g2[i].k = g[i].k
          /\ g[i].k # "pc" => g2[i] = g[i]
          /\ g[i].k = "pc" => /\ g2[i].kind = g[i].kind /\ g2[i].st = g[i].st
                              /\ g2[i].cs = g[i].cs /\ g2[i].err = g[i].err
      BY <1>5
    <2>3. i > 1 /\ g[i - 1].k \in {"lua", "scope"} => LuaOf(g2, i - 1) = LuaOf(g, i - 1)
      <3> SUFFICES ASSUME i > 1, g[i - 1].k = "scope" PROVE LuaOf(g2, i - 1) = LuaOf(g, i - 1)
        BY <2>1 DEF LuaOf
      <3>1. i - 1 - 1 \in 1 .. n /\ g[i - 1 - 1].k = "lua"
        BY <2>0 DEF Deep
      <3>2. g2[i - 1 - 1] = g[i - 1 - 1]
        BY <3>1, <1>5
      <3> QED BY <2>1, <3>2 DEF LuaOf
    <2>4. g[i].k = "lua" => LuaDeep(g2, d, i)
      BY <2>0, <2>1, <2>2, <2>3 DEF Deep, LuaDeep
    <2>5. g[i].k = "pc" => CallDeep(g2, d, i)
      BY <2>0, <2>1, <2>2 DEF Deep, CallDeep, IsCall
    <2>6. g[i].k = "msgh" => MsghDeep(g2, d, i)
      <3> SUFFICES ASSUME g[i].k = "msgh" PROVE MsghDeep(g2, d, i)
        OBVIOUS
      <3>1. MsghDeep(g, d, i)
        BY <2>0 DEF Deep
      <3>2. i - 1 \in 0 .. n
        BY <1>1
      <3>3. \A c : Holds(c, g2, d, i - 1) <=> Holds(c, g, d, i - 1)
        BY <3>2, <1>6
      <3> QED BY <3>1, <3>3, <2>1, <2>2 DEF MsghDeep
    <2>7. g[i].k = "closers" => ClosersDeep(g2, d, i)
      BY <2>0, <2>1, <2>2 DEF Deep, ClosersDeep
    <2> QED BY <2>0, <2>1, <2>2, <2>4, <2>5, <2>6, <2>7 DEF Deep
  <1>8. n \in 0 .. n
    BY <1>1
  <1> QED BY <1>1, <1>4, <1>5, <1>6, <1>7, <1>8 DEF Placed

LEMMA RaiseFramed == HereFramed /\ nerr \in Nat /\ Raise => ThereFramed
  <1> SUFFICES ASSUME HereFramed, nerr \in Nat, Raise PROVE ThereFramed
    OBVIOUS
  <1> PICK n : n = Len(go)
    OBVIOUS
  <1> PICK e : e = nerr + 1
    OBVIOUS
  <1>1. /\ panic = 0 /\ go # <<>> /\ Last(go).k = "lua" /\ cs' = cs /\ panic' = e
        /\ go' = [i \in DOMAIN go |-> IF i \in Boundary
                                      THEN [go[i] EXCEPT !.raw = e] ELSE go[i]]
    BY DEF Raise, Running, Calm, On, machine
  <1>2. Boundary = RaisedOn(go)
    BY DEF Boundary, RaisedOn
  <1>3. go' = Told(go, e) /\ e # 0
    BY <1>1, <1>2 DEF Told
  <1>4. /\ IsSeq(cs) /\ n \in Nat /\ n > 0 /\ Last(go) = go[n]
        /\ \E d : Placed(go, d) /\ Framed(go, d, cs, top, panic)
    BY <1>1, FramedParts DEF HereFramed
  <1> PICK d : Placed(go, d) /\ Framed(go, d, cs, top, panic)
    BY <1>4
  <1>5. \A i \in 1 .. Len(go) : IsRecord(go[i])
    BY GoodParts DEF HereFramed
  <1>6. /\ Placed(go', d) /\ Len(go') = n
        /\ \A i \in 1 .. n : go'[i].k = go[i].k
        /\ Holds(cs, go', d, n) <=> Holds(cs, go, d, n)
    BY <1>3, <1>5, ToldDeep
  <1>7. go'[n].k = "lua"
    BY <1>1, <1>4, <1>6
  <1>8. Framed(go', d, cs, top', panic')
    BY <1>1, <1>3, <1>6, <1>7 DEF Framed
  <1> QED BY <1>1, <1>4, <1>6, <1>8 DEF ThereFramed, Frames

\* A protected call of kind, at the end of call stack c, calls a Lua function at base.
LEMMA CallPut ==
  ASSUME NEW g, NEW d, Placed(g, d), NEW n, n = Len(g), n > 0,
         NEW c, IsSeq(c), Holds(c, g, d, n), d[n] <= Len(c), NEW kind, NEW t,
         \/ g[n].k = "lua" /\ kind \in {"pcall", "xpcall", "callback"} /\ Len(c) = d[n] + 1
         \/ g[n].k = "msgh" /\ kind = "hcall" /\ c = g[n].snap
         \/ IsCall(g[n], {"xpcall"}) /\ g[n].st = "fallback" /\ kind = "hcall" /\ Len(c) = d[n],
         NEW base, NEW v
  PROVE  Frames(Append(Append(g, Protected(kind, t, c)), LuaFrame(base, v)),
                Append(c, base), base + MaxStack, 0)
  <1> PICK x : x = Len(c)
    OBVIOUS
  <1> PICK r : r = Protected(kind, t, c)
    OBVIOUS
  <1> PICK g2 : g2 = Append(g, r)
    OBVIOUS
  <1> PICK d2 : d2 = Put(d, n, x)
    OBVIOUS
  <1>1. r.k = "pc" /\ r.kind = kind /\ r.st = "body" /\ r.cs = x
    BY NewDepths
  <1>2. x \in Nat /\ n \in Nat /\ d[n] \in Nat
    BY SeqParts, PlacedParts
  <1>3. Pushes(g, d, n, r, x, g2, d2)
    BY <1>2 DEF Pushes
  <1>4. /\ Len(g2) = n + 1 /\ g2[n + 1] = r /\ g2[n + 1 - 1] = g[n]
        /\ d2[n + 1] = x /\ d2[n + 1 - 1] = d[n] /\ \A j \in 1 .. n + 1 - 1 : d2[j] <= x
    BY <1>3, PutParts
  <1>5. CallDeep(g2, d2, n + 1)
    BY <1>1, <1>2, <1>4 DEF CallDeep
  <1>6. Deep(g2, d2, n + 1)
    BY <1>1, <1>4, <1>5 DEF Deep
  <1>7. Placed(g2, d2) /\ Holds(c, g2, d2, n + 1)
    BY <1>1, <1>3, <1>6, OtherPut
  <1>8. PICK n2 : n2 = n + 1
    OBVIOUS
  <1>9. /\ n2 = Len(g2) /\ n2 > 0 /\ Holds(c, g2, d2, n2) /\ d2[n2] <= Len(c) /\ Len(c) = d2[n2]
        /\ g2[n2].k = "pc"
    BY <1>1, <1>2, <1>4, <1>7, <1>8
  <1>10. Frames(Append(g2, LuaFrame(base, v)), Append(c, base), base + MaxStack, 0)
    BY <1>7, <1>9, LuaPut
  <1> QED BY <1>10

\* pcall, xpcall, or a library function that calls back.
LEMMA ProtectedCallFramed ==
    HereFramed /\ (\E kind \in Kinds : ProtectedCall(kind)) => ThereFramed
  <1> SUFFICES ASSUME HereFramed, NEW kind \in Kinds, ProtectedCall(kind) PROVE ThereFramed
    OBVIOUS
  <1> PICK n : n = Len(go)
    OBVIOUS
  <1>1. PICK t, c, base :
          /\ go' = Append(Append(go, Protected(kind, t, c)), LuaFrame(t, 0))
          /\ c = Append(cs, base) /\ cs' = Append(c, t) /\ top' = t + MaxStack
    BY DEF ProtectedCall, EnterLua
  <1>2. panic = 0 /\ go # <<>> /\ Last(go).k = "lua" /\ panic' = 0
    BY DEF ProtectedCall, Running, Calm, On
  <1>3. /\ IsSeq(cs) /\ Len(cs) \in Nat /\ n \in Nat /\ n > 0 /\ Last(go) = go[n]
        /\ \E d : Placed(go, d) /\ Framed(go, d, cs, top, panic)
    BY <1>2, FramedParts DEF HereFramed
  <1> PICK d : Placed(go, d) /\ Framed(go, d, cs, top, panic)
    BY <1>3
  <1>4. Holds(cs, go, d, n) /\ Len(cs) = d[n] /\ go[n].k = "lua"
    BY <1>2, <1>3 DEF Framed
  <1>5. Holds(c, go, d, n)
    BY <1>1, <1>3, <1>4, HoldsMore
  <1>6. IsSeq(c) /\ Len(c) = d[n] + 1
    BY <1>1, <1>3, <1>4, NowLast
  <1>7. d[n] <= Len(c)
    BY <1>3, <1>4, <1>6
  <1>8. kind \in {"pcall", "xpcall", "callback"}
    BY UnwindAssumption
  <1>9. Frames(Append(Append(go, Protected(kind, t, c)), LuaFrame(t, 0)),
               Append(c, t), t + MaxStack, 0)
    BY <1>3, <1>4, <1>5, <1>6, <1>7, <1>8, CallPut
  <1> QED BY <1>1, <1>2, <1>9 DEF ThereFramed

\* callCloseMetamethod, called by a scope or by a loop over close handlers.
LEMMA CallsCloseFramed ==
  ASSUME NEW g, NEW d, Placed(g, d), Framed(g, d, cs, top, 0), NEW n, n = Len(g), n > 0,
         IsSeq(cs), NEW slot, CallClose(g, slot),
         \/ g[n].k = "scope"
         \/ /\ g[n].k = "closers" /\ (~g[n].all => Len(cs) = d[n])
            /\ Held(slot) # 0 => g[n].st = "running"
  PROVE  Frames(go', cs', top', 0)
  <1>1. CASE Held(slot) = 0
    BY <1>1 DEF CallClose, Frames
  <1>2. CASE Held(slot) # 0
    <2>1. /\ go' = Append(g, LuaFrame(top, Held(slot)))
          /\ cs' = Append(cs, top) /\ top' = top + MaxStack
      BY <1>2 DEF CallClose, EnterLua
    <2>2. /\ Holds(cs, g, d, n) /\ d[n] <= Len(cs)
          /\ g[n].k = "scope" => Len(cs) = d[n] /\ top = LuaOf(g, n).base + MaxStack
      BY DEF Framed
    <2>3. /\ g[n].k # "msgh" /\ (g[n].k = "closers" => g[n].st = "running")
          /\ ~(g[n].k = "closers" /\ g[n].all) => Len(cs) = d[n]
          /\ g[n].k \in {"lua", "scope"} => top = LuaOf(g, n).base + MaxStack
      BY <1>2, <2>2
    <2>4. Frames(Append(g, LuaFrame(top, Held(slot))), Append(cs, top), top + MaxStack, 0)
      BY <2>2, <2>3, LuaPut
    <2> QED BY <2>1, <2>4
  <1> QED BY <1>1, <1>2

\* A scope calls its next close handler.
LEMMA ScopeNextFramed == HereFramed /\ ScopeNext => ThereFramed
  <1> SUFFICES ASSUME HereFramed, ScopeNext PROVE ThereFramed
    OBVIOUS
  <1> PICK n : n = Len(go)
    OBVIOUS
  <1>q. PICK q : q = [Last(go) EXCEPT !.todo = Front(@)]
    OBVIOUS
  <1>0. PICK g : g = Append(Front(go), q)
    OBVIOUS
  <1>1. panic = 0 /\ go # <<>> /\ Last(go).k = "scope" /\ panic' = 0
    BY DEF ScopeNext, Calm, On
  <1>2. PICK slot : CallClose(g, slot)
    BY <1>0, <1>q DEF ScopeNext, WithLast
  <1>3. /\ IsSeq(cs) /\ n \in Nat /\ n > 0 /\ Last(go) = go[n] /\ IsRecord(Last(go))
        /\ \E d : Placed(go, d) /\ Framed(go, d, cs, top, panic)
    BY <1>1, FramedParts DEF HereFramed
  <1> PICK d : Placed(go, d) /\ Framed(go, d, cs, top, panic)
    BY <1>3
  <1>4. q.k = "scope"
    BY <1>q, <1>1, <1>3 DEF IsRecord, ScopeFields
  <1>5. Retops(go, d, n, q, g) /\ SameDepth(go, d, n, q)
    BY <1>0, <1>1, <1>3, <1>4 DEF Retops, SameDepth
  <1>6. /\ Placed(g, d) /\ Len(g) = n /\ g[n] = q
        /\ Holds(cs, g, d, n) <=> Holds(cs, go, d, n)
        /\ LuaOf(g, n) = LuaOf(go, n)
    BY <1>4, <1>5, RetopPlaced
  <1>7. Framed(g, d, cs, top, 0)
    BY <1>1, <1>3, <1>4, <1>6 DEF Framed
  <1>8. Frames(go', cs', top', 0)
    BY <1>2, <1>3, <1>4, <1>6, <1>7, CallsCloseFramed
  <1> QED BY <1>1, <1>8 DEF ThereFramed

\* A block has been left: back to its Lua function.
LEMMA BlockDoneFramed == HereFramed /\ BlockDone => ThereFramed
  <1> SUFFICES ASSUME HereFramed, BlockDone PROVE ThereFramed
    OBVIOUS
  <1> PICK n : n = Len(go)
    OBVIOUS
  <1> PICK g : g = Front(go)
    OBVIOUS
  <1> PICK q : q = [Last(g) EXCEPT !.n = Last(go).level - Last(g).base]
    OBVIOUS
  <1>1. /\ panic = 0 /\ go # <<>> /\ Last(go).k = "scope" /\ panic' = panic
        /\ go' = Append(Front(g), q) /\ cs' = cs /\ top' = top
    BY DEF BlockDone, Calm, On, machine
  <1>2. /\ IsSeq(cs) /\ n \in Nat /\ n > 0 /\ Last(go) = go[n]
        /\ \E d : Placed(go, d) /\ Framed(go, d, cs, top, panic)
    BY <1>1, FramedParts DEF HereFramed
  <1> PICK d : Placed(go, d) /\ Framed(go, d, cs, top, panic)
    BY <1>2
  <1>3. Deep(go, d, n) /\ d[n] \in Nat /\ (n > 1 => Last(g) = go[n - 1])
    BY <1>2, PlacedParts
  <1>4. n > 1 /\ Last(g) = go[n - 1] /\ go[n - 1].k = "lua" /\ d[n] = d[n - 1]
    BY <1>1, <1>2, <1>3 DEF Deep
  <1>5. IsRecord(go[n - 1])
    <2>1. n - 1 \in 1 .. n
      BY <1>2, <1>4
    <2> QED BY <2>1, GoodParts DEF HereFramed
  <1>6. q.k = "lua" /\ q.base = go[n - 1].base
    BY <1>4, <1>5 DEF IsRecord, LuaFields
  <1>7. PICK m : m = n - 1
    OBVIOUS
  <1>8. /\ Placed(g, d) /\ Len(g) = m /\ m \in Nat /\ m > 0 /\ g[m] = go[m]
        /\ Holds(cs, g, d, m) <=> Holds(cs, go, d, m)
    <2>1. m \in 1 .. n - 1 /\ m \in 0 .. n - 1
      BY <1>2, <1>4, <1>7
    <2>p. Pops(go, d, n, g)
      BY <1>2 DEF Pops
    <2>2. /\ Placed(g, d) /\ Len(g) = n - 1 /\ \A j \in 1 .. n - 1 : g[j] = go[j]
          /\ \A c : \A i \in 0 .. n - 1 : Holds(c, g, d, i) <=> Holds(c, go, d, i)
      BY <2>p, PopPlaced
    <2> QED BY <2>1, <2>2, <1>7
  <1>9. Retops(g, d, m, q, go') /\ SameDepth(g, d, m, q)
    BY <1>1, <1>4, <1>6, <1>7, <1>8 DEF Retops, SameDepth
  <1>10. /\ Placed(go', d) /\ Len(go') = m /\ go'[m] = q
         /\ Holds(cs, go', d, m) <=> Holds(cs, g, d, m)
    BY <1>9, RetopPlaced
  <1>11. /\ Holds(cs, go, d, n) /\ Len(cs) = d[m] /\ top = LuaOf(go, n).base + MaxStack
    BY <1>1, <1>2, <1>4, <1>7 DEF Framed
  <1>12. Holds(cs, go', d, m)
    BY <1>2, <1>4, <1>7, <1>8, <1>10, <1>11, HoldsLess
  <1>13. LuaOf(go', m).base = LuaOf(go, n).base
    BY <1>1, <1>2, <1>4, <1>6, <1>7, <1>10 DEF LuaOf
  <1>14. d[m] \in Nat
    BY <1>3, <1>4, <1>7
  <1>15. Framed(go', d, cs, top, panic)
    BY <1>6, <1>10, <1>11, <1>12, <1>13, <1>14 DEF Framed
  <1> QED BY <1>1, <1>2, <1>10, <1>15 DEF ThereFramed, Frames

\* The call stack without its last frame.
LEMMA PopFrame ==
  ASSUME NEW c, IsSeq(c), Len(c) > 0, NEW g, NEW d, NEW n, Holds(c, g, d, n),
         \A j \in 1 .. n : d[j] <= Len(c) - 1
  PROVE  IsSeq(Front(c)) /\ Len(Front(c)) = Len(c) - 1 /\ Holds(Front(c), g, d, n)
  <1>1. PICK k : k = Len(c) - 1
    OBVIOUS
  <1>2. k \in Nat /\ k <= Len(c)
    BY <1>1, SeqParts
  <1>3. Alike(c, Front(c), k) /\ Len(Front(c)) = k
    BY <1>1, Popped
  <1>4. Holds(Front(c), g, d, n)
    BY <1>1, <1>2, <1>3, HoldsCut
  <1> QED BY <1>1, <1>3, <1>4 DEF Alike

\* A Lua function returns: back to whoever called it.
LEMMA FrameDoneFramed == HereFramed /\ FrameDone => ThereFramed
  <1> SUFFICES ASSUME HereFramed, FrameDone PROVE ThereFramed
    OBVIOUS
  <1> PICK n : n = Len(go)
    OBVIOUS
  <1> PICK g : g = Front(go)
    OBVIOUS
  <1> PICK b : b = Front(g)
    OBVIOUS
  <1> PICK r : r = Last(b)
    OBVIOUS
  <1> PICK q : q = [r EXCEPT !.st = IF r.k = "pc" THEN "done" ELSE "next"]
    OBVIOUS
  <1>1. /\ panic = 0 /\ go # <<>> /\ Last(go).k = "scope" /\ panic' = 0
        /\ go' = (IF r.k \in {"pc", "closers"} THEN Append(Front(b), q) ELSE b)
        /\ cs' = Front(cs) /\ top' = Last(g).base
    BY DEF FrameDone, Calm, On
  <1>2. /\ IsSeq(cs) /\ Len(cs) \in Nat /\ n \in Nat /\ n > 0 /\ Last(go) = go[n]
        /\ \E d : Placed(go, d) /\ Framed(go, d, cs, top, panic)
    BY <1>1, FramedParts DEF HereFramed
  <1> PICK d : Placed(go, d) /\ Framed(go, d, cs, top, panic)
    BY <1>2
  <1>3. Deep(go, d, n) /\ d[n] \in Nat /\ (n > 1 => Last(g) = go[n - 1])
    BY <1>2, PlacedParts
  <1>4. n > 1 /\ Last(g) = go[n - 1] /\ go[n - 1].k = "lua" /\ d[n] = d[n - 1]
    BY <1>1, <1>2, <1>3 DEF Deep
  <1>5. PICK m : m = n - 1
    OBVIOUS
  <1>6. /\ Placed(g, d) /\ Len(g) = m /\ m \in Nat /\ m > 0 /\ g[m] = go[m]
        /\ \A j \in 1 .. m : g[j] = go[j]
        /\ Holds(cs, g, d, m) <=> Holds(cs, go, d, m)
    <2>1. m \in 1 .. n - 1 /\ m \in 0 .. n - 1
      BY <1>2, <1>4, <1>5
    <2>p. Pops(go, d, n, g)
      BY <1>2 DEF Pops
    <2>2. /\ Placed(g, d) /\ Len(g) = n - 1 /\ \A j \in 1 .. n - 1 : g[j] = go[j]
          /\ \A c : \A i \in 0 .. n - 1 : Holds(c, g, d, i) <=> Holds(c, go, d, i)
      BY <2>p, PopPlaced
    <2> QED BY <2>1, <2>2, <1>5
  <1>7. /\ Deep(g, d, m) /\ d[m] \in Nat
        /\ m > 1 => /\ d[m - 1] \in Nat /\ \A j \in 1 .. m - 1 : d[j] <= d[m - 1]
                    /\ Last(b) = g[m - 1] /\ Deep(g, d, m - 1)
    BY <1>6, PlacedParts
  <1>8. g[m].k = "lua" /\ Last(g) = g[m]
    BY <1>4, <1>5, <1>6
  <1>9. m > 1 /\ LuaDeep(g, d, m)
    BY <1>7, <1>8 DEF Deep, LuaDeep
  <1>10. PICK l : l = m - 1
    OBVIOUS
  <1>11. /\ Placed(b, d) /\ Len(b) = l /\ l \in Nat /\ l > 0 /\ b[l] = g[l]
         /\ \A j \in 1 .. l : b[j] = g[j]
         /\ \A c : Holds(c, b, d, l) <=> Holds(c, g, d, l)
    <2>1. l \in 1 .. m - 1 /\ l \in 0 .. m - 1
      BY <1>6, <1>9, <1>10
    <2>p. Pops(g, d, m, b)
      BY <1>6 DEF Pops
    <2>2. /\ Placed(b, d) /\ Len(b) = m - 1 /\ \A j \in 1 .. m - 1 : b[j] = g[j]
          /\ \A c : \A i \in 0 .. m - 1 : Holds(c, b, d, i) <=> Holds(c, g, d, i)
      BY <2>p, PopPlaced
    <2> QED BY <2>1, <2>2, <1>10
  <1>12. /\ r = b[l] /\ d[l] \in Nat /\ \A j \in 1 .. l : d[j] <= d[l]
         /\ Deep(g, d, l)
    BY <1>7, <1>9, <1>10, <1>11
  <1>13. Holds(cs, go, d, n) /\ Len(cs) = d[m]
    BY <1>1, <1>2, <1>4, <1>5 DEF Framed
  <1>14. /\ d[m] > 0 /\ r.k # "msgh"
         /\ r.k \in {"lua", "scope"} => g[m].base = LuaOf(g, l).base + MaxStack
         /\ ~(r.k = "closers" /\ r.all) => d[m] = d[l] + 1
    BY <1>9, <1>10, <1>11, <1>12 DEF LuaDeep
  <1>15. d[l] <= d[m] - 1
    <2>1. CASE r.k = "closers" /\ r.all
      <3>1. d[l] = 0
        BY <2>1, <1>11, <1>12 DEF Deep, ClosersDeep
      <3> QED BY <3>1, <1>7, <1>14
    <2>2. CASE ~(r.k = "closers" /\ r.all)
      BY <2>2, <1>7, <1>12, <1>14
    <2> QED BY <2>1, <2>2
  <1>16. \A j \in 1 .. l : d[j] <= Len(cs) - 1
    <2> TAKE j \in 1 .. l
    <2>1. d[j] <= d[l] /\ d[j] \in Nat
      BY <1>6, <1>10, <1>11, <1>12 DEF Placed
    <2> QED BY <2>1, <1>7, <1>12, <1>13, <1>15
  <1>17. Holds(cs, b, d, l)
    <2>1. Holds(cs, go, d, m)
      BY <1>2, <1>5, <1>6, <1>13, HoldsLess
    <2>2. Holds(cs, g, d, m)
      BY <2>1, <1>6
    <2>3. Holds(cs, g, d, l)
      BY <2>2, <1>6, <1>10, <1>11, HoldsLess
    <2> QED BY <2>3, <1>11
  <1>18. PICK c : c = Front(cs)
    OBVIOUS
  <1>19. IsSeq(c) /\ Len(c) = d[m] - 1 /\ Holds(c, b, d, l)
    <2>1. Len(cs) > 0
      BY <1>13, <1>14
    <2> QED BY <2>1, <1>2, <1>13, <1>16, <1>17, <1>18, PopFrame
  <1>20. d[l] <= Len(c) /\ (~(r.k = "closers" /\ r.all) => Len(c) = d[l])
    BY <1>7, <1>12, <1>14, <1>15, <1>19
  <1>21. CASE r.k \notin {"pc", "closers"}
    <2>1. go' = b /\ r.k \in {"lua", "scope"}
      <3>1. IsRecord(r)
        <4>1. l \in 1 .. n /\ r = go[l]
          <5>1. l \in 1 .. m /\ l \in 1 .. l /\ l \in 1 .. n
            BY <1>2, <1>5, <1>6, <1>10, <1>11
          <5> QED BY <5>1, <1>6, <1>11, <1>12
        <4> QED BY <4>1, GoodParts DEF HereFramed
      <3> QED BY <3>1, <1>1, <1>14, <1>21 DEF IsRecord
    <2>2. LuaOf(b, l) = LuaOf(g, l)
      <3>1. r.k = "scope" => l - 1 \in 1 .. l
        BY <1>11, <1>12 DEF Deep
      <3> QED BY <3>1, <2>1, <1>11, <1>12 DEF LuaOf
    <2>3. Framed(b, d, c, Last(g).base, 0)
      BY <2>1, <2>2, <1>8, <1>11, <1>12, <1>14, <1>19, <1>20 DEF Framed
    <2> QED BY <2>1, <2>3, <1>1, <1>11, <1>18, <1>19 DEF ThereFramed, Frames
  <1>22. CASE r.k \in {"pc", "closers"}
    <2>1. IsRecord(r)
      <3>1. l \in 1 .. m /\ l \in 1 .. l /\ l \in 1 .. n
        BY <1>2, <1>5, <1>6, <1>10, <1>11
      <3>2. r = go[l]
        BY <3>1, <1>6, <1>11, <1>12
      <3> QED BY <3>1, <3>2, GoodParts DEF HereFramed
    <2>2. /\ q.k = r.k
          /\ r.k = "pc" => q.kind = r.kind /\ q.cs = r.cs /\ q.st = "done"
          /\ r.k = "closers" => q.all = r.all /\ q.st = "next"
      BY <2>1, <1>22 DEF IsRecord, CallFields, ClosersFields
    <2>3. Retops(b, d, l, q, go') /\ SameDepth(b, d, l, q)
      BY <2>2, <1>1, <1>11, <1>12, <1>22 DEF Retops, SameDepth
    <2>4. /\ Placed(go', d) /\ Len(go') = l /\ go'[l] = q
          /\ Holds(c, go', d, l) <=> Holds(c, b, d, l)
      BY <2>3, RetopPlaced
    <2>5. Framed(go', d, c, top', 0)
      BY <2>2, <2>4, <1>19, <1>20, <1>22 DEF Framed
    <2> QED BY <2>4, <2>5, <1>1, <1>18, <1>19 DEF ThereFramed, Frames
  <1> QED BY <1>21, <1>22

\* A panic unwinds Lua functions and scopes: below them is a call that runs its body
\* or a loop that runs a handler.
LEMMA PropagateFramed == HereFramed /\ Propagate => ThereFramed
  <1> SUFFICES ASSUME HereFramed, Propagate PROVE ThereFramed
    OBVIOUS
  <1> PICK n : n = Len(go)
    OBVIOUS
  <1>s. PICK S : S = Catching \cup {0}
    OBVIOUS
  <1>1. /\ panic # 0 /\ go # <<>> /\ Last(go).k \in {"lua", "scope"}
        /\ go' = SubSeq(go, 1, Max(S)) /\ cs' = cs
    BY <1>s DEF Propagate, On, machine
  <1>2. /\ IsSeq(cs) /\ Len(cs) \in Nat /\ n \in Nat /\ n > 0 /\ Last(go) = go[n] /\ IsSeq(go)
        /\ \E d : Placed(go, d) /\ Framed(go, d, cs, top, panic)
    BY <1>1, FramedParts DEF HereFramed
  <1> PICK d : Placed(go, d) /\ Framed(go, d, cs, top, panic)
    BY <1>2
  <1>3. \A i : i \in Catching <=> i \in 1 .. n /\ go[i].k \notin {"lua", "scope"}
    <2>1. DOMAIN go = 1 .. n
      BY <1>2, SeqParts
    <2> QED BY <2>1 DEF Catching
  <1>4. S \subseteq 0 .. n /\ S # {} /\ 0 \in S
    BY <1>s, <1>2, <1>3
  <1>5. PICK to : to = Max(S) /\ to \in S /\ \A y \in S : y <= to
    BY <1>2, <1>4, Greatest
  <1>6. go' = SubSeq(go, 1, to)
    BY <1>1, <1>5, Zenon
  <1>7. to \in 0 .. n /\ to \in Nat /\ to <= n
    BY <1>2, <1>4, <1>5
  <1>8. Alike(go, go', to) /\ Len(go') = to
    BY <1>2, <1>6, <1>7, Shortened
  <1>9. /\ Placed(go', d)
        /\ \A c : \A m \in 0 .. to : Holds(c, go', d, m) <=> Holds(c, go, d, m)
    BY <1>8, CutPlaced
  <1>10. Holds(cs, go, d, n) /\ d[n] <= Len(cs)
    BY <1>2 DEF Framed
  <1>11. ASSUME to > 0 PROVE Framed(go', d, cs, top', panic')
    <2>1. to \in Catching /\ to \in 1 .. n /\ to \in 0 .. to
      BY <1>s, <1>5, <1>7, <1>11
    <2>2. go[to].k \notin {"lua", "scope"} /\ to # n
      BY <2>1, <1>1, <1>2, <1>3
    <2>3. go'[to] = go[to]
      BY <2>1, <1>7, <1>8 DEF Alike
    <2>4. Holds(cs, go, d, to)
      BY <1>2, <1>7, <1>10, HoldsLess
    <2>5. Holds(cs, go', d, to)
      BY <2>1, <2>4, <1>9
    <2>6. d[to] <= Len(cs)
      <3>1. d[to] <= d[n] /\ d[to] \in Nat /\ d[n] \in Nat
        BY <2>1, <1>2, PlacedParts
      <3> QED BY <3>1, <1>2, <1>10
    <2>7. PICK i : i = to + 1
      OBVIOUS
    <2>8. i \in 1 .. n /\ i > 1 /\ i - 1 = to
      BY <2>1, <2>2, <2>7, <1>2
    <2>9. go[i].k \in {"lua", "scope"}
      <3>1. i \notin S
        BY <2>7, <1>5, <1>7
      <3> QED BY <3>1, <2>8, <1>s, <1>3
    <2>10. Deep(go, d, i) /\ Seated(go, i)
      BY <2>8, GoodParts DEF Placed, HereFramed, At
    <2>11. go[i].k = "lua"
      BY <2>2, <2>8, <2>9, <2>10 DEF Deep
    <2>12. /\ go[to].k = "pc" => go[to].st = "body"
           /\ go[to].k = "closers" => go[to].st = "running"
      BY <2>8, <2>10, <2>11 DEF Seated, Deep, LuaDeep
    <2> QED BY <2>2, <2>3, <2>5, <2>6, <2>12, <1>8 DEF Framed
  <1>12. to > 0 \/ ~(Len(go') > 0)
    BY <1>7, <1>8
  <1> QED BY <1>1, <1>2, <1>9, <1>11, <1>12 DEF ThereFramed, Frames

\* A recovery cuts the call stack at its call's depth, and keeps a copy of it as it
\* was for the message handler.
LEMMA RecoverFramed == HereFramed /\ Recover => ThereFramed
  <1> SUFFICES ASSUME HereFramed, Recover PROVE ThereFramed
    OBVIOUS
  <1> PICK n : n = Len(go)
    OBVIOUS
  <1> PICK p : p = Last(go)
    OBVIOUS
  <1>q. PICK q : q = [p EXCEPT !.st = "handled", !.err = panic, !.h = mh.h]
    OBVIOUS
  <1>c. PICK c : c = Cut(cs, p.cs)
    OBVIOUS
  <1>g. PICK g : g = Append(Front(go), q)
    OBVIOUS
  <1>1. /\ panic # 0 /\ go # <<>> /\ p.k = "pc" /\ panic' = 0 /\ cs' = c
        /\ go' = IF mh.h = 0 THEN g ELSE Append(g, Handling(panic, cs, c))
    BY <1>q, <1>c, <1>g DEF Recover, On, WithLast, Truncated
  <1>2. /\ IsSeq(cs) /\ Len(cs) \in Nat /\ n \in Nat /\ n > 0 /\ p = go[n] /\ IsRecord(p)
        /\ \E d : Placed(go, d) /\ Framed(go, d, cs, top, panic)
    BY <1>1, FramedParts DEF HereFramed
  <1> PICK d : Placed(go, d) /\ Framed(go, d, cs, top, panic)
    BY <1>2
  <1>3. q.k = "pc" /\ q.kind = p.kind /\ q.cs = p.cs /\ q.st = "handled" /\ q.err = panic
    BY <1>q, <1>1, <1>2 DEF IsRecord, CallFields
  <1>4. Retops(go, d, n, q, g) /\ SameDepth(go, d, n, q)
    BY <1>g, <1>1, <1>2, <1>3 DEF Retops, SameDepth
  <1>5. /\ Placed(g, d) /\ Len(g) = n /\ g[n] = q
        /\ \A e : Holds(e, g, d, n) <=> Holds(e, go, d, n)
    BY <1>4, RetopPlaced
  <1>6. p.cs = d[n] /\ d[n] \in Nat /\ \A j \in 1 .. n : d[j] <= d[n]
    <2>1. Deep(go, d, n) /\ d[n] \in Nat /\ \A j \in 1 .. n : d[j] <= d[n]
      BY <1>2, PlacedParts
    <2> QED BY <2>1, <1>1, <1>2 DEF Deep, CallDeep
  <1>7. Holds(cs, go, d, n) /\ d[n] <= Len(cs)
    BY <1>2 DEF Framed
  <1>8. IsSeq(c) /\ Len(c) = d[n] /\ Holds(c, go, d, n)
    <2>1. Alike(cs, c, d[n]) /\ Len(c) = d[n]
      BY <1>c, <1>2, <1>6, <1>7, Cutting
    <2>2. Holds(c, go, d, n)
      BY <2>1, <1>2, <1>6, <1>7, HoldsCut
    <2> QED BY <2>1, <2>2 DEF Alike
  <1>9. Holds(c, g, d, n) /\ Holds(cs, g, d, n)
    BY <1>5, <1>7, <1>8
  <1>10. CASE mh.h = 0
    <2>1. Framed(g, d, c, top', 0)
      BY <1>3, <1>5, <1>6, <1>8, <1>9 DEF Framed
    <2> QED BY <2>1, <1>1, <1>5, <1>8, <1>10 DEF ThereFramed, Frames
  <1>11. CASE mh.h # 0
    <2>1. PICK r : r = Handling(panic, cs, c)
      OBVIOUS
    <2>2. PICK d2 : d2 = Put(d, n, d[n])
      OBVIOUS
    <2>3. r.k = "msgh" /\ r.snap = cs /\ r.back = c
      BY <2>1, NewDepths
    <2>4. go' = Append(g, r)
      BY <2>1, <1>1, <1>11
    <2>5. Pushes(g, d, n, r, d[n], go', d2)
      BY <2>2, <2>4, <1>2, <1>5, <1>6 DEF Pushes
    <2>6. /\ Len(go') = n + 1 /\ go'[n + 1] = r /\ go'[n + 1 - 1] = q
          /\ d2[n + 1] = d[n] /\ d2[n + 1 - 1] = d[n]
          /\ \A j \in 1 .. n + 1 - 1 : d2[j] <= d[n]
          /\ \A e : Holds(e, go', d2, n + 1 - 1) <=> Holds(e, g, d, n)
      BY <2>5, <1>5, PutParts
    <2>7. MsghDeep(go', d2, n + 1)
      BY <2>3, <2>6, <1>2, <1>3, <1>6, <1>7, <1>8, <1>9 DEF MsghDeep
    <2>8. Deep(go', d2, n + 1)
      BY <2>3, <2>6, <2>7 DEF Deep
    <2>9. Placed(go', d2) /\ Holds(c, go', d2, n + 1)
      BY <2>3, <2>5, <2>8, <1>9, OtherPut
    <2>10. Framed(go', d2, c, top', 0)
      BY <2>3, <2>6, <2>9, <1>6, <1>8 DEF Framed
    <2> QED BY <2>9, <2>10, <1>1, <1>8 DEF ThereFramed, Frames
  <1> QED BY <1>10, <1>11

\* A loop over close handlers is put on a call or on another loop.
LEMMA ClosersPut ==
  ASSUME NEW g, NEW d, Placed(g, d), NEW n, n = Len(g), n > 0, NEW c, IsSeq(c),
         Holds(c, g, d, n), d[n] <= Len(c), NEW t, NEW list, NEW err, NEW use,
         \/ g[n].k = "pc" /\ g[n].st = "closing" /\ d[n] = Len(c)
         \/ g[n].k = "closers" /\ g[n].st = "inner" /\ (~g[n].all => d[n] = Len(c))
  PROVE  Frames(Append(g, Closers(list, err, use, FALSE)), c, t, 0)
  <1> PICK x : x = Len(c)
    OBVIOUS
  <1>r. PICK r : r = Closers(list, err, use, FALSE)
    OBVIOUS
  <1>0. PICK g2 : g2 = Append(g, r)
    OBVIOUS
  <1> PICK d2 : d2 = Put(d, n, x)
    OBVIOUS
  <1>1. r.k = "closers" /\ ~r.all /\ r.st = "next"
    BY <1>r DEF Closers
  <1>2. x \in Nat /\ n \in Nat /\ d[n] \in Nat
    BY SeqParts, PlacedParts
  <1>3. Pushes(g, d, n, r, x, g2, d2)
    BY <1>0, <1>2 DEF Pushes
  <1>4. /\ Len(g2) = n + 1 /\ g2[n + 1] = r /\ g2[n + 1 - 1] = g[n]
        /\ d2[n + 1] = x /\ d2[n + 1 - 1] = d[n] /\ \A j \in 1 .. n + 1 - 1 : d2[j] <= x
    BY <1>3, PutParts
  <1>5. ClosersDeep(g2, d2, n + 1)
    BY <1>1, <1>4 DEF ClosersDeep
  <1>6. Deep(g2, d2, n + 1)
    BY <1>1, <1>4, <1>5 DEF Deep
  <1>7. Placed(g2, d2) /\ Holds(c, g2, d2, n + 1)
    BY <1>1, <1>3, <1>6, OtherPut
  <1>8. Framed(g2, d2, c, t, 0)
    BY <1>1, <1>2, <1>4, <1>7 DEF Framed
  <1>9. Frames(g2, c, t, 0)
    BY <1>7, <1>8 DEF Frames
  <1> QED BY <1>r, <1>0, <1>9

\* A call of the protected kind goes on, at its depth.
LEMMA CallGoesOn ==
  ASSUME NEW g, NEW d, Placed(g, d), NEW n, n = Len(g), n > 0,
         NEW c, IsSeq(c), Holds(c, g, d, n), Len(c) = d[n], NEW t, NEW p,
         g[n].k = "pc", NEW q, SameDepth(g, d, n, q)
  PROVE  Frames(Append(Front(g), q), c, t, p)
  <1>0. PICK g2 : g2 = Append(Front(g), q)
    OBVIOUS
  <1>1. Retops(g, d, n, q, g2)
    BY <1>0 DEF Retops
  <1>2. /\ Placed(g2, d) /\ Len(g2) = n /\ g2[n] = q /\ d[n] \in Nat
        /\ Holds(c, g2, d, n) <=> Holds(c, g, d, n)
    BY <1>1, RetopPlaced
  <1>3. q.k = "pc"
    BY DEF SameDepth
  <1>4. Framed(g2, d, c, t, p)
    BY <1>2, <1>3 DEF Framed
  <1>5. Frames(g2, c, t, p)
    BY <1>2, <1>4 DEF Frames
  <1> QED BY <1>0, <1>5

\* A recovery closes the variables left, leaves them to others, or ends.
LEMMA CloseTBCFramed == HereFramed /\ CloseTBC => ThereFramed
  <1> SUFFICES ASSUME HereFramed, CloseTBC PROVE ThereFramed
    OBVIOUS
  <1> PICK n : n = Len(go)
    OBVIOUS
  <1> PICK p : p = Last(go)
    OBVIOUS
  <1>q. PICK q : q = [p EXCEPT !.st = "closing"]
    OBVIOUS
  <1>g. PICK g : g = Append(Front(go), q)
    OBVIOUS
  <1>1. PICK list, err, use : go' = Append(g, Closers(list, err, use, FALSE))
    BY <1>q, <1>g DEF CloseTBC, WithLast
  <1>2. /\ panic = 0 /\ go # <<>> /\ p.k = "pc" /\ p.st = "handled" /\ p.kind \notin SkipsTBC
        /\ panic' = 0 /\ cs' = cs
    BY DEF CloseTBC, Calm, On
  <1>3. /\ IsSeq(cs) /\ Len(cs) \in Nat /\ n \in Nat /\ n > 0 /\ p = go[n] /\ IsRecord(p)
        /\ \E d : Placed(go, d) /\ Framed(go, d, cs, top, panic)
    BY <1>2, FramedParts DEF HereFramed
  <1> PICK d : Placed(go, d) /\ Framed(go, d, cs, top, panic)
    BY <1>3
  <1>4. q.k = "pc" /\ q.kind = p.kind /\ q.cs = p.cs /\ q.st = "closing"
    BY <1>q, <1>2, <1>3 DEF IsRecord, CallFields
  <1>5. SameDepth(go, d, n, q)
    BY <1>2, <1>3, <1>4 DEF SameDepth, SkipsTBC
  <1>6. Holds(cs, go, d, n) /\ Len(cs) = d[n]
    BY <1>2, <1>3 DEF Framed
  <1>7. Retops(go, d, n, q, g)
    BY <1>g, <1>3 DEF Retops
  <1>8. /\ Placed(g, d) /\ Len(g) = n /\ g[n] = q /\ Holds(cs, g, d, n) /\ d[n] <= Len(cs)
    BY <1>3, <1>5, <1>6, <1>7, RetopPlaced
  <1>9. Frames(Append(g, Closers(list, err, use, FALSE)), cs, top', 0)
    BY <1>3, <1>4, <1>6, <1>8, ClosersPut
  <1> QED BY <1>1, <1>2, <1>9 DEF ThereFramed

LEMMA SkipTBCFramed == HereFramed /\ SkipTBC => ThereFramed
  <1> SUFFICES ASSUME HereFramed, SkipTBC PROVE ThereFramed
    OBVIOUS
  <1> PICK n : n = Len(go)
    OBVIOUS
  <1> PICK p : p = Last(go)
    OBVIOUS
  <1>q. PICK q : q = [p EXCEPT !.st = "report"]
    OBVIOUS
  <1>1. /\ panic = 0 /\ go # <<>> /\ p.k = "pc" /\ p.st = "handled"
        /\ panic' = 0 /\ cs' = cs /\ go' = Append(Front(go), q)
    BY <1>q DEF SkipTBC, Calm, On, WithLast, machine
  <1>2. /\ IsSeq(cs) /\ Len(cs) \in Nat /\ n \in Nat /\ n > 0 /\ p = go[n] /\ IsRecord(p)
        /\ \E d : Placed(go, d) /\ Framed(go, d, cs, top, panic)
    BY <1>1, FramedParts DEF HereFramed
  <1> PICK d : Placed(go, d) /\ Framed(go, d, cs, top, panic)
    BY <1>2
  <1>3. q.k = "pc" /\ q.kind = p.kind /\ q.cs = p.cs /\ q.st = "report" /\ q.err = p.err
    BY <1>q, <1>1, <1>2 DEF IsRecord, CallFields
  <1>4. p.kind = "callback" => p.err # 0
    <2>1. Deep(go, d, n)
      BY <1>2, PlacedParts
    <2> QED BY <2>1, <1>1, <1>2 DEF Deep, CallDeep
  <1>5. SameDepth(go, d, n, q)
    BY <1>1, <1>2, <1>3, <1>4 DEF SameDepth
  <1>6. Holds(cs, go, d, n) /\ Len(cs) = d[n]
    BY <1>1, <1>2 DEF Framed
  <1>7. Frames(Append(Front(go), q), cs, top', 0)
    BY <1>1, <1>2, <1>5, <1>6, CallGoesOn
  <1> QED BY <1>1, <1>7 DEF ThereFramed

LEMMA RecoveredFramed == HereFramed /\ Recovered => ThereFramed
  <1> SUFFICES ASSUME HereFramed, Recovered PROVE ThereFramed
    OBVIOUS
  <1> PICK n : n = Len(go)
    OBVIOUS
  <1> PICK p : p = Last(go)
    OBVIOUS
  <1>e. PICK e : e = FinalErr(p)
    OBVIOUS
  <1>q. PICK q : q = [p EXCEPT !.st = "report", !.err = e]
    OBVIOUS
  <1>1. /\ go # <<>> /\ p.k = "pc" /\ p.st = "closing"
        /\ panic' = 0 /\ cs' = cs /\ go' = Append(Front(go), q)
    BY <1>e, <1>q DEF Recovered, On, WithLast
  <1>2. /\ IsSeq(cs) /\ Len(cs) \in Nat /\ n \in Nat /\ n > 0 /\ p = go[n] /\ IsRecord(p)
        /\ \E d : Placed(go, d) /\ Framed(go, d, cs, top, panic)
    BY <1>1, FramedParts DEF HereFramed
  <1> PICK d : Placed(go, d) /\ Framed(go, d, cs, top, panic)
    BY <1>2
  <1>3. q.k = "pc" /\ q.kind = p.kind /\ q.cs = p.cs
    BY <1>q, <1>1, <1>2 DEF IsRecord, CallFields
  <1>4. p.kind # "callback"
    <2>1. Deep(go, d, n)
      BY <1>2, PlacedParts
    <2> QED BY <2>1, <1>1, <1>2 DEF Deep, CallDeep
  <1>5. SameDepth(go, d, n, q)
    BY <1>1, <1>2, <1>3, <1>4 DEF SameDepth
  <1>6. Holds(cs, go, d, n) /\ Len(cs) = d[n]
    BY <1>1, <1>2 DEF Framed
  <1>7. Frames(Append(Front(go), q), cs, top', 0)
    BY <1>1, <1>2, <1>5, <1>6, CallGoesOn
  <1> QED BY <1>1, <1>7 DEF ThereFramed

\* The native function that made a protected call returns to its Lua caller.
LEMMA BackFramed ==
  HereFramed /\ BackToLua /\ go # <<>> /\ IsCall(Last(go), {"pcall", "xpcall", "callback"})
    /\ Last(go).st # "body" /\ panic' = 0 => ThereFramed
  <1> SUFFICES ASSUME HereFramed, BackToLua, go # <<>>, panic' = 0, Last(go).st # "body",
                      IsCall(Last(go), {"pcall", "xpcall", "callback"})
               PROVE  ThereFramed
    OBVIOUS
  <1> PICK n : n = Len(go)
    OBVIOUS
  <1>1. /\ go' = Front(go) /\ cs' = Front(cs) /\ top' = go[n - 1].base + MaxStack
    BY DEF BackToLua
  <1>2. /\ IsSeq(cs) /\ Len(cs) \in Nat /\ n \in Nat /\ n > 0 /\ Last(go) = go[n]
        /\ \E d : Placed(go, d) /\ Framed(go, d, cs, top, panic)
    BY FramedParts DEF HereFramed
  <1> PICK d : Placed(go, d) /\ Framed(go, d, cs, top, panic)
    BY <1>2
  <1>3. /\ Deep(go, d, n) /\ d[n] \in Nat
        /\ n > 1 => d[n - 1] \in Nat /\ \A j \in 1 .. n - 1 : d[j] <= d[n - 1]
    BY <1>2, PlacedParts
  <1>4. n > 1 /\ go[n - 1].k = "lua" /\ d[n] = d[n - 1] + 1
    BY <1>2, <1>3 DEF Deep, CallDeep, IsCall
  <1>5. PICK m : m = n - 1
    OBVIOUS
  <1>6. Holds(cs, go, d, n) /\ Len(cs) = d[n]
    BY <1>2 DEF Framed, IsCall
  <1>7. /\ Placed(go', d) /\ Len(go') = m /\ m \in Nat /\ m > 0 /\ go'[m] = go[m]
        /\ Holds(cs, go', d, m)
    <2>1. m \in 1 .. n - 1 /\ m \in 0 .. n - 1 /\ m <= n
      BY <1>2, <1>4, <1>5
    <2>0. PICK g : g = Front(go)
      OBVIOUS
    <2>p. Pops(go, d, n, g)
      BY <2>0, <1>2 DEF Pops
    <2>2. /\ Placed(g, d) /\ Len(g) = n - 1 /\ \A j \in 1 .. n - 1 : g[j] = go[j]
          /\ \A c : \A i \in 0 .. n - 1 : Holds(c, g, d, i) <=> Holds(c, go, d, i)
      BY <2>p, PopPlaced
    <2>3. Holds(cs, go, d, m)
      BY <2>1, <1>2, <1>5, <1>6, HoldsLess
    <2>4. go' = g
      BY <2>0, <1>1
    <2> QED BY <2>1, <2>2, <2>3, <2>4, <1>2, <1>5
  <1>8. PICK c : c = Front(cs)
    OBVIOUS
  <1>9. IsSeq(c) /\ Len(c) = d[m] /\ Holds(c, go', d, m)
    <2>1. \A j \in 1 .. m : d[j] <= Len(cs) - 1
      BY <1>2, <1>3, <1>4, <1>5, <1>6
    <2>2. Len(cs) > 0 /\ Len(cs) - 1 = d[m]
      BY <1>3, <1>4, <1>5, <1>6
    <2> QED BY <2>1, <2>2, <1>2, <1>7, <1>8, PopFrame
  <1>10. LuaOf(go', m) = go[m]
    BY <1>4, <1>5, <1>7 DEF LuaOf
  <1>11. d[m] \in Nat
    BY <1>3, <1>4, <1>5
  <1>12. Framed(go', d, c, top', 0)
    BY <1>1, <1>4, <1>5, <1>7, <1>9, <1>10, <1>11 DEF Framed
  <1> QED BY <1>1, <1>7, <1>8, <1>9, <1>12 DEF ThereFramed, Frames

LEMMA ReturnsFramed ==
    HereFramed /\ (PcallReturns \/ XpcallReturns \/ CallbackReturns) => ThereFramed
  <1> SUFFICES ASSUME HereFramed, PcallReturns \/ XpcallReturns \/ CallbackReturns
               PROVE  ThereFramed
    OBVIOUS
  <1>1. /\ BackToLua /\ go # <<>> /\ panic' = 0 /\ Last(go).k = "pc"
        /\ Last(go).kind \in {"pcall", "xpcall", "callback"} /\ Last(go).st # "body"
    BY DEF PcallReturns, XpcallReturns, CallbackReturns, Outcome, Calm, On
  <1> QED BY <1>1, BackFramed DEF IsCall

\* A library function raises the error of its callback again: there is one.
LEMMA CallbackRaisesFramed == HereFramed /\ CallbackRaises => ThereFramed
  <1> SUFFICES ASSUME HereFramed, CallbackRaises PROVE ThereFramed
    OBVIOUS
  <1> PICK n : n = Len(go)
    OBVIOUS
  <1>1. /\ go # <<>> /\ Last(go).k = "pc" /\ Last(go).kind = "callback"
        /\ Last(go).st = "report" /\ go' = Front(go) /\ cs' = cs /\ panic' = Last(go).err
    BY DEF CallbackRaises, Outcome, Calm, On, machine
  <1>2. /\ IsSeq(cs) /\ Len(cs) \in Nat /\ n \in Nat /\ n > 0 /\ Last(go) = go[n]
        /\ \E d : Placed(go, d) /\ Framed(go, d, cs, top, panic)
    BY <1>1, FramedParts DEF HereFramed
  <1> PICK d : Placed(go, d) /\ Framed(go, d, cs, top, panic)
    BY <1>2
  <1>3. /\ Deep(go, d, n) /\ d[n] \in Nat /\ (n > 1 => d[n - 1] \in Nat)
    BY <1>2, PlacedParts
  <1>4. n > 1 /\ go[n - 1].k = "lua" /\ d[n] = d[n - 1] + 1 /\ go[n].err # 0
    BY <1>1, <1>2, <1>3 DEF Deep, CallDeep
  <1>5. PICK m : m = n - 1
    OBVIOUS
  <1>6. Holds(cs, go, d, n) /\ d[n] <= Len(cs)
    BY <1>2 DEF Framed
  <1>7. /\ Placed(go', d) /\ Len(go') = m /\ m \in Nat /\ m > 0 /\ go'[m] = go[m]
        /\ Holds(cs, go', d, m)
    <2>1. m \in 1 .. n - 1 /\ m \in 0 .. n - 1 /\ m <= n
      BY <1>2, <1>4, <1>5
    <2>0. PICK g : g = Front(go)
      OBVIOUS
    <2>p. Pops(go, d, n, g)
      BY <2>0, <1>2 DEF Pops
    <2>2. /\ Placed(g, d) /\ Len(g) = n - 1 /\ \A j \in 1 .. n - 1 : g[j] = go[j]
          /\ \A c : \A i \in 0 .. n - 1 : Holds(c, g, d, i) <=> Holds(c, go, d, i)
      BY <2>p, PopPlaced
    <2>3. Holds(cs, go, d, m)
      BY <2>1, <1>2, <1>5, <1>6, HoldsLess
    <2>4. go' = g
      BY <2>0, <1>1
    <2> QED BY <2>1, <2>2, <2>3, <2>4, <1>2, <1>5
  <1>8. d[m] <= Len(cs)
    BY <1>2, <1>3, <1>4, <1>5, <1>6
  <1>9. panic' # 0
    BY <1>1, <1>2, <1>4
  <1>10. Framed(go', d, cs, top', panic')
    BY <1>4, <1>5, <1>7, <1>8, <1>9 DEF Framed
  <1> QED BY <1>1, <1>2, <1>7, <1>10 DEF ThereFramed, Frames

\* An empty Go stack.
LEMMA NothingFramed ==
  ASSUME NEW c, IsSeq(c), NEW t, NEW p
  PROVE  Frames(<<>>, c, t, p)
  <1>1. PICK g : g = <<>>
    OBVIOUS
  <1>2. IsSeq(g) /\ Len(g) = 0
    <2>1. <<>> \in Seq({}) /\ Len(<<>>) = 0
      BY EmptySeq
    <2>2. IsSeq(<<>>)
      BY <2>1, SeqOver
    <2> QED BY <2>1, <2>2, <1>1
  <1>3. \A d : Placed(g, d)
    BY <1>2 DEF Placed
  <1> QED BY <1>1, <1>2, <1>3 DEF Frames

LEMMA RootEndsFramed == HereFramed /\ RootEnds => ThereFramed
  <1> SUFFICES ASSUME HereFramed, RootEnds PROVE ThereFramed
    OBVIOUS
  <1>1. go' = <<>> /\ cs' = cs
    BY DEF RootEnds, machine
  <1>2. IsSeq(cs)
    BY DEF HereFramed, Frames
  <1>3. Frames(<<>>, cs, top', panic')
    BY <1>2, NothingFramed
  <1> QED BY <1>1, <1>3 DEF ThereFramed

\* callMsgHandler calls the handler on its copy of the call stack.
LEMMA TryHandlerFramed == HereFramed /\ TryHandler => ThereFramed
  <1> SUFFICES ASSUME HereFramed, TryHandler PROVE ThereFramed
    OBVIOUS
  <1> PICK n : n = Len(go)
    OBVIOUS
  <1> PICK c : c = Last(go).snap
    OBVIOUS
  <1>1. /\ go' = Append(Append(go, Protected("hcall", top, c)), LuaFrame(top, 0))
        /\ cs' = Append(c, top) /\ top' = top + MaxStack
    BY DEF TryHandler, EnterLua
  <1>2. panic = 0 /\ go # <<>> /\ Last(go).k = "msgh" /\ panic' = 0
    BY DEF TryHandler, Calm, On
  <1>3. /\ n \in Nat /\ n > 0 /\ Last(go) = go[n]
        /\ \E d : Placed(go, d) /\ Framed(go, d, cs, top, panic)
    BY <1>2, FramedParts DEF HereFramed
  <1> PICK d : Placed(go, d) /\ Framed(go, d, cs, top, panic)
    BY <1>3
  <1>4. Deep(go, d, n) /\ d[n] \in Nat
    BY <1>3, PlacedParts
  <1>5. IsSeq(c) /\ d[n] <= Len(c) /\ Holds(c, go, d, n - 1)
    BY <1>2, <1>3, <1>4 DEF Deep, MsghDeep
  <1>6. Holds(c, go, d, n)
    <2>1. \A j \in 1 .. n : j \in 1 .. n - 1 \/ j = n
      BY <1>3
    <2> QED BY <2>1, <1>2, <1>3, <1>5 DEF Holds
  <1>7. Frames(Append(Append(go, Protected("hcall", top, c)), LuaFrame(top, 0)),
               Append(c, top), top + MaxStack, 0)
    BY <1>2, <1>3, <1>5, <1>6, CallPut
  <1> QED BY <1>1, <1>2, <1>7 DEF ThereFramed

\* xpcall calls its handler itself.
LEMMA XpcallFallbackFramed == HereFramed /\ XpcallFallback => ThereFramed
  <1> SUFFICES ASSUME HereFramed, XpcallFallback PROVE ThereFramed
    OBVIOUS
  <1> PICK n : n = Len(go)
    OBVIOUS
  <1> PICK p : p = Last(go)
    OBVIOUS
  <1>q. PICK q : q = [p EXCEPT !.st = "fallback"]
    OBVIOUS
  <1>g. PICK g : g = Append(Front(go), q)
    OBVIOUS
  <1>1. /\ go' = Append(Append(g, Protected("hcall", top, cs)), LuaFrame(top, 0))
        /\ cs' = Append(cs, top) /\ top' = top + MaxStack
    BY <1>q, <1>g DEF XpcallFallback, EnterLua, WithLast
  <1>2. /\ panic = 0 /\ go # <<>> /\ p.k = "pc" /\ p.kind = "xpcall" /\ p.st = "report"
        /\ panic' = 0
    BY DEF XpcallFallback, Outcome, Calm, On
  <1>3. /\ IsSeq(cs) /\ Len(cs) \in Nat /\ n \in Nat /\ n > 0 /\ p = go[n] /\ IsRecord(p)
        /\ \E d : Placed(go, d) /\ Framed(go, d, cs, top, panic)
    BY <1>2, FramedParts DEF HereFramed
  <1> PICK d : Placed(go, d) /\ Framed(go, d, cs, top, panic)
    BY <1>3
  <1>4. q.k = "pc" /\ q.kind = "xpcall" /\ q.cs = p.cs /\ q.st = "fallback"
    BY <1>q, <1>2, <1>3 DEF IsRecord, CallFields
  <1>5. Retops(go, d, n, q, g) /\ SameDepth(go, d, n, q)
    BY <1>g, <1>2, <1>3, <1>4 DEF Retops, SameDepth
  <1>6. Holds(cs, go, d, n) /\ Len(cs) = d[n]
    BY <1>2, <1>3 DEF Framed
  <1>7. /\ Placed(g, d) /\ Len(g) = n /\ g[n] = q /\ Holds(cs, g, d, n) /\ d[n] <= Len(cs)
    BY <1>3, <1>5, <1>6, RetopPlaced
  <1>8. IsCall(g[n], {"xpcall"}) /\ g[n].st = "fallback"
    BY <1>4, <1>7 DEF IsCall
  <1>9. Frames(Append(Append(g, Protected("hcall", top, cs)), LuaFrame(top, 0)),
               Append(cs, top), top + MaxStack, 0)
    BY <1>3, <1>6, <1>7, <1>8, CallPut
  <1> QED BY <1>1, <1>2, <1>9 DEF ThereFramed

\* Below hcall is the call or the callMsgHandler that made it.
Handled(d, g) ==
    /\ Good(go, mh, 0) /\ Placed(go, d) /\ Framed(go, d, cs, top, 0) /\ IsSeq(cs)
    /\ go # <<>> /\ Last(go).k = "pc" /\ Last(go).kind = "hcall" /\ Last(go).st # "body"
    /\ g = Front(go)

Beneath(d, g, m) ==
    /\ m \in Nat /\ m > 0 /\ Len(g) = m /\ Placed(g, d) /\ Holds(cs, g, d, m)
    /\ Last(g) = g[m] /\ IsRecord(g[m]) /\ Deep(g, d, m)
    /\ d[m] \in Nat /\ d[m] <= Len(cs)
    /\ g[m].k = "pc" => IsCall(g[m], {"xpcall"}) /\ Len(cs) = d[m]

LEMMA BelowHandler ==
  ASSUME NEW d, NEW g, Handled(d, g)
  PROVE  \E m : Beneath(d, g, m)
  <1> PICK n : n = Len(go)
    OBVIOUS
  <1>0. /\ Good(go, mh, 0) /\ Placed(go, d) /\ Framed(go, d, cs, top, 0) /\ IsSeq(cs)
        /\ go # <<>> /\ Last(go).k = "pc" /\ Last(go).kind = "hcall" /\ Last(go).st # "body"
        /\ g = Front(go)
    BY DEF Handled
  <1>1. n \in Nat /\ n > 0 /\ Last(go) = go[n] /\ IsRecord(go[n])
    BY <1>0, Tops
  <1>2. /\ Deep(go, d, n) /\ d[n] \in Nat
        /\ n > 1 => d[n - 1] \in Nat /\ d[n - 1] <= d[n] /\ Last(Front(go)) = go[n - 1]
    <2>1. n > 1 => n - 1 \in 1 .. n
      BY <1>1
    <2> QED BY <2>1, <1>0, <1>1, PlacedParts
  <1>3. /\ n > 1
        /\ \/ go[n - 1].k = "msgh"
           \/ IsCall(go[n - 1], {"xpcall"}) /\ d[n] = d[n - 1]
    BY <1>0, <1>1, <1>2 DEF Deep, CallDeep
  <1>4. Holds(cs, go, d, n) /\ Len(cs) = d[n]
    BY <1>0, <1>1 DEF Framed
  <1>5. PICK m : m = n - 1
    OBVIOUS
  <1>6. m \in 1 .. n - 1 /\ m \in 0 .. n - 1 /\ m <= n /\ m \in Nat /\ m > 0 /\ m \in 1 .. n
    BY <1>1, <1>3, <1>5
  <1>p. Pops(go, d, n, g)
    BY <1>0, <1>1 DEF Pops
  <1>7. /\ Placed(g, d) /\ Len(g) = n - 1 /\ \A j \in 1 .. n - 1 : g[j] = go[j]
        /\ \A c : \A i \in 0 .. n - 1 : Holds(c, g, d, i) <=> Holds(c, go, d, i)
    BY <1>p, PopPlaced
  <1>8. Holds(cs, go, d, m)
    BY <1>1, <1>4, <1>6, HoldsLess
  <1>9. Holds(cs, g, d, m) /\ g[m] = go[m]
    BY <1>6, <1>7, <1>8
  <1>10. IsRecord(g[m])
    BY <1>0, <1>6, <1>9, GoodParts
  <1>11. Deep(g, d, m)
    BY <1>5, <1>6, <1>7, PlacedParts
  <1>12. g[m].k = "pc" => IsCall(g[m], {"xpcall"}) /\ Len(cs) = d[m]
    BY <1>3, <1>4, <1>5, <1>9
  <1>13. Last(g) = g[m] /\ d[m] \in Nat /\ d[m] <= Len(cs)
    BY <1>0, <1>1, <1>2, <1>3, <1>4, <1>5, <1>9
  <1> QED BY <1>5, <1>6, <1>7, <1>9, <1>10, <1>11, <1>12, <1>13 DEF Beneath

LEMMA FallbackAnswersFramed == HereFramed /\ FallbackAnswers => ThereFramed
  <1> SUFFICES ASSUME HereFramed, FallbackAnswers PROVE ThereFramed
    OBVIOUS
  <1> PICK g : g = Front(go)
    OBVIOUS
  <1> PICK x : x = Last(g)
    OBVIOUS
  <1>q. PICK q : q = [x EXCEPT !.st = "answered"]
    OBVIOUS
  <1>1. /\ panic = 0 /\ go # <<>> /\ Last(go).k = "pc" /\ Last(go).kind = "hcall"
        /\ Last(go).st # "body" /\ x.k = "pc" /\ panic' = 0 /\ cs' = cs
        /\ go' = Append(Front(g), q)
    BY <1>q DEF FallbackAnswers, Outcome, Calm, On, machine
  <1>2. IsSeq(cs) /\ \E d : Placed(go, d) /\ Framed(go, d, cs, top, 0)
    BY <1>1, FramedParts DEF HereFramed
  <1> PICK d : Placed(go, d) /\ Framed(go, d, cs, top, 0)
    BY <1>2
  <1>3. Good(go, mh, 0)
    BY <1>1 DEF HereFramed
  <1>h. Handled(d, g)
    BY <1>1, <1>2, <1>3 DEF Handled
  <1>m. PICK m : Beneath(d, g, m)
    BY <1>h, BelowHandler
  <1>b. /\ m \in Nat /\ m > 0 /\ Len(g) = m /\ Placed(g, d) /\ Holds(cs, g, d, m)
        /\ Last(g) = g[m] /\ IsRecord(g[m]) /\ Deep(g, d, m)
        /\ d[m] \in Nat /\ d[m] <= Len(cs)
        /\ g[m].k = "pc" => IsCall(g[m], {"xpcall"}) /\ Len(cs) = d[m]
    BY <1>m DEF Beneath
  <1>4. q.k = "pc" /\ q.kind = "xpcall" /\ x.kind = "xpcall" /\ q.cs = x.cs /\ x = g[m]
    BY <1>b, <1>q, <1>1 DEF IsRecord, CallFields, IsCall
  <1>5. SameDepth(g, d, m, q)
    BY <1>b, <1>1, <1>4 DEF SameDepth
  <1>6. Frames(Append(Front(g), q), cs, top', 0)
    BY <1>b, <1>1, <1>2, <1>4, <1>5, CallGoesOn
  <1> QED BY <1>1, <1>6 DEF ThereFramed

\* callMsgHandler's call failed: it will be made again.
LEMMA HandlerFailsFramed == HereFramed /\ HandlerFails => ThereFramed
  <1> SUFFICES ASSUME HereFramed, HandlerFails PROVE ThereFramed
    OBVIOUS
  <1> PICK g : g = Front(go)
    OBVIOUS
  <1> PICK x : x = Last(g)
    OBVIOUS
  <1>q. PICK q : q = [x EXCEPT !.tries = @ + 1]
    OBVIOUS
  <1>1. /\ panic = 0 /\ go # <<>> /\ Last(go).k = "pc" /\ Last(go).kind = "hcall"
        /\ Last(go).st # "body" /\ x.k = "msgh" /\ panic' = 0 /\ cs' = cs
        /\ go' = Append(Front(g), q)
    BY <1>q DEF HandlerFails, Outcome, Calm, On, machine
  <1>2. IsSeq(cs) /\ \E d : Placed(go, d) /\ Framed(go, d, cs, top, 0)
    BY <1>1, FramedParts DEF HereFramed
  <1> PICK d : Placed(go, d) /\ Framed(go, d, cs, top, 0)
    BY <1>2
  <1>3. Good(go, mh, 0)
    BY <1>1 DEF HereFramed
  <1>h. Handled(d, g)
    BY <1>1, <1>2, <1>3 DEF Handled
  <1>m. PICK m : Beneath(d, g, m)
    BY <1>h, BelowHandler
  <1>b. /\ m \in Nat /\ m > 0 /\ Len(g) = m /\ Placed(g, d) /\ Holds(cs, g, d, m)
        /\ Last(g) = g[m] /\ IsRecord(g[m]) /\ Deep(g, d, m)
        /\ d[m] \in Nat /\ d[m] <= Len(cs)
        /\ g[m].k = "pc" => IsCall(g[m], {"xpcall"}) /\ Len(cs) = d[m]
    BY <1>m DEF Beneath
  <1>4. q.k = "msgh" /\ q.snap = x.snap /\ q.back = x.back /\ x = g[m]
    BY <1>b, <1>q, <1>1 DEF IsRecord, MsghFields
  <1>5. Retops(g, d, m, q, go') /\ SameDepth(g, d, m, q)
    BY <1>b, <1>1, <1>4 DEF Retops, SameDepth
  <1>6. Placed(go', d) /\ Len(go') = m /\ go'[m] = q /\ Holds(cs, go', d, m)
    BY <1>b, <1>5, RetopPlaced
  <1>7. Framed(go', d, cs, top', 0)
    BY <1>b, <1>4, <1>6 DEF Framed
  <1> QED BY <1>1, <1>2, <1>6, <1>7 DEF ThereFramed, Frames

\* callMsgHandler is done: the call stack is what its caller goes on with.
LEMMA HandlerAnswersFramed == HereFramed /\ HandlerAnswers => ThereFramed
  <1> SUFFICES ASSUME HereFramed, HandlerAnswers PROVE ThereFramed
    OBVIOUS
  <1> PICK g : g = Front(go)
    OBVIOUS
  <1> PICK x : x = Last(g)
    OBVIOUS
  <1> PICK c : c = x.back
    OBVIOUS
  <1>1. /\ panic = 0 /\ go # <<>> /\ Last(go).k = "pc" /\ Last(go).kind = "hcall"
        /\ Last(go).st # "body" /\ x.k = "msgh" /\ panic' = 0 /\ cs' = c
        /\ go' = Front(g)
    BY DEF HandlerAnswers, Outcome, Calm, On, machine
  <1>2. IsSeq(cs) /\ \E d : Placed(go, d) /\ Framed(go, d, cs, top, 0)
    BY <1>1, FramedParts DEF HereFramed
  <1> PICK d : Placed(go, d) /\ Framed(go, d, cs, top, 0)
    BY <1>2
  <1>3. Good(go, mh, 0)
    BY <1>1 DEF HereFramed
  <1>h. Handled(d, g)
    BY <1>1, <1>2, <1>3 DEF Handled
  <1>m. PICK m : Beneath(d, g, m)
    BY <1>h, BelowHandler
  <1>b. /\ m \in Nat /\ m > 0 /\ Len(g) = m /\ Placed(g, d) /\ Holds(cs, g, d, m)
        /\ Last(g) = g[m] /\ IsRecord(g[m]) /\ Deep(g, d, m)
        /\ d[m] \in Nat /\ d[m] <= Len(cs)
        /\ g[m].k = "pc" => IsCall(g[m], {"xpcall"}) /\ Len(cs) = d[m]
    BY <1>m DEF Beneath
  <1>4. /\ m > 1 /\ d[m] = d[m - 1] /\ IsSeq(c) /\ d[m] <= Len(c) /\ Holds(c, g, d, m - 1)
        /\ \/ g[m - 1].k = "pc" /\ Len(c) = d[m]
           \/ g[m - 1].k = "closers" /\ g[m - 1].st = "asked"
    BY <1>b, <1>1 DEF Deep, MsghDeep
  <1>5. PICK l : l = m - 1
    OBVIOUS
  <1>6. /\ Placed(go', d) /\ Len(go') = l /\ go'[l] = g[l] /\ Holds(c, go', d, l)
    <2>1. l \in 1 .. m - 1 /\ l \in 0 .. m - 1
      BY <1>b, <1>4, <1>5
    <2>2. PICK b : b = Front(g)
      OBVIOUS
    <2>p. Pops(g, d, m, b)
      BY <2>2, <1>b DEF Pops
    <2>3. /\ Placed(b, d) /\ Len(b) = m - 1 /\ \A j \in 1 .. m - 1 : b[j] = g[j]
          /\ \A e : \A i \in 0 .. m - 1 : Holds(e, b, d, i) <=> Holds(e, g, d, i)
      BY <2>p, PopPlaced
    <2>4. go' = b
      BY <2>2, <1>1
    <2> QED BY <2>1, <2>3, <2>4, <1>b, <1>4, <1>5
  <1>7. Framed(go', d, c, top', 0)
    BY <1>b, <1>4, <1>5, <1>6 DEF Framed
  <1> QED BY <1>1, <1>4, <1>6, <1>7 DEF ThereFramed, Frames

\* What a loop over close handlers is on.
Loops(c, n, d) ==
    /\ IsSeq(cs) /\ Len(cs) \in Nat /\ n = Len(go) /\ n \in Nat /\ n > 0
    /\ c = go[n] /\ c = Last(go) /\ DOMAIN c = ClosersFields
    /\ Placed(go, d) /\ d[n] \in Nat /\ (\A j \in 1 .. n : d[j] <= d[n])
    /\ ClosersDeep(go, d, n) /\ Holds(cs, go, d, n) /\ d[n] <= Len(cs)
    /\ ~c.all /\ c.st \in {"next", "inner"} => Len(cs) = d[n]

LEMMA LoopParts ==
  ASSUME HereFramed, go # <<>>, Last(go).k = "closers"
  PROVE  \E c, n, d : Loops(c, n, d)
  <1> PICK n : n = Len(go)
    OBVIOUS
  <1>1. /\ IsSeq(cs) /\ Len(cs) \in Nat /\ n \in Nat /\ n > 0 /\ Last(go) = go[n]
        /\ IsRecord(Last(go))
        /\ \E d : Placed(go, d) /\ Framed(go, d, cs, top, panic)
    BY FramedParts DEF HereFramed
  <1> PICK d : Placed(go, d) /\ Framed(go, d, cs, top, panic)
    BY <1>1
  <1>2. Deep(go, d, n) /\ d[n] \in Nat /\ \A j \in 1 .. n : d[j] <= d[n]
    BY <1>1, PlacedParts
  <1>3. ClosersDeep(go, d, n) /\ DOMAIN go[n] = ClosersFields
    BY <1>1, <1>2 DEF Deep, IsRecord
  <1>4. /\ Holds(cs, go, d, n) /\ d[n] <= Len(cs)
        /\ ~go[n].all /\ go[n].st \in {"next", "inner"} => Len(cs) = d[n]
    BY <1>1 DEF Framed
  <1>5. Loops(go[n], n, d)
    BY <1>1, <1>2, <1>3, <1>4 DEF Loops
  <1> QED BY <1>5

\* The loop goes on as q, where the call stack is c2.
Goes(c, n, d, q, g, c2) ==
    /\ Loops(c, n, d) /\ go[n].k = "closers" /\ g = Append(Front(go), q)
    /\ q.k = "closers" /\ q.all = c.all /\ (~q.all /\ q.st # "next" => q.cs = d[n])
    /\ IsSeq(c2) /\ Holds(c2, go, d, n) /\ d[n] <= Len(c2)
    /\ ~q.all /\ q.st \in {"next", "inner"} => Len(c2) = d[n]

LEMMA LoopGoesOn ==
  ASSUME NEW c, NEW n, NEW d, NEW q, NEW g, NEW c2, Goes(c, n, d, q, g, c2), NEW t, NEW p
  PROVE  /\ Placed(g, d) /\ Len(g) = n /\ n > 0 /\ g[n] = q /\ Framed(g, d, c2, t, p)
         /\ Holds(c2, g, d, n)
  <1>1. Retops(go, d, n, q, g) /\ SameDepth(go, d, n, q)
    BY DEF Goes, Loops, Retops, SameDepth
  <1>2. /\ Placed(g, d) /\ Len(g) = n /\ g[n] = q
        /\ Holds(c2, g, d, n) <=> Holds(c2, go, d, n)
    BY <1>1, RetopPlaced
  <1>3. Framed(g, d, c2, t, p)
    BY <1>2 DEF Framed, Goes
  <1> QED BY <1>2, <1>3 DEF Loops, Goes

\* A loop over close handlers calls the next one.
LEMMA CloserNextFramed == HereFramed /\ CloserNext => ThereFramed
  <1> SUFFICES ASSUME HereFramed, CloserNext PROVE ThereFramed
    OBVIOUS
  <1>1. /\ panic = 0 /\ go # <<>> /\ Last(go).k = "closers" /\ panic' = 0
        /\ Last(go).st = "next"
    BY DEF CloserNext, Calm, On
  <1>2. PICK c, n, d : Loops(c, n, d)
    BY <1>1, LoopParts
  <1>l. PICK slot : slot = NextToClose(c.list)
    OBVIOUS
  <1>s. PICK st : st = IF Held(slot) = 0 THEN "next" ELSE "running"
    OBVIOUS
  <1>q. PICK q : q = [c EXCEPT !.list = Front(@), !.st = st,
                               !.tbc = Len(tbc), !.cs = Len(cs), !.top = top]
    OBVIOUS
  <1>g. PICK g : g = Append(Front(go), q)
    OBVIOUS
  <1>3. c = Last(go) /\ DOMAIN c = ClosersFields /\ c.k = "closers" /\ c.st = "next"
    BY <1>1, <1>2 DEF Loops
  <1>4. CallClose(g, slot)
    BY <1>3, <1>l, <1>s, <1>q, <1>g DEF CloserNext, WithLast
  <1>5. q.k = "closers" /\ q.all = c.all /\ q.cs = Len(cs) /\ q.st = st
    BY <1>q, <1>3 DEF ClosersFields
  <1>6. /\ IsSeq(cs) /\ Holds(cs, go, d, n) /\ d[n] <= Len(cs) /\ go[n].k = "closers"
        /\ ~c.all => Len(cs) = d[n]
    BY <1>2, <1>3 DEF Loops
  <1>o. Goes(c, n, d, q, g, cs)
    BY <1>2, <1>5, <1>6, <1>g DEF Goes
  <1>7. Placed(g, d) /\ Len(g) = n /\ n > 0 /\ g[n] = q /\ Framed(g, d, cs, top, 0)
    BY <1>o, LoopGoesOn
  <1>8. /\ g[n].k = "closers" /\ (~g[n].all => Len(cs) = d[n])
        /\ Held(slot) # 0 => g[n].st = "running"
    BY <1>5, <1>6, <1>7, <1>s
  <1>9. Frames(go', cs', top', 0)
    BY <1>4, <1>6, <1>7, <1>8, CallsCloseFramed
  <1> QED BY <1>1, <1>9 DEF ThereFramed

\* A close handler failed: the message handler may be called, on the call stack as it
\* was.
LEMMA CloserFailsFramed == HereFramed /\ CloserFails => ThereFramed
  <1> SUFFICES ASSUME HereFramed, CloserFails PROVE ThereFramed
    OBVIOUS
  <1>1. /\ go # <<>> /\ Last(go).k = "closers" /\ panic' = 0
        /\ Last(go).st = "running" /\ cs' = cs
    BY DEF CloserFails, On
  <1>2. PICK c, n, d : Loops(c, n, d)
    BY <1>1, LoopParts
  <1>a. PICK ask : ask = (c.use /\ mh.h # 0 /\ panic # c.err)
    OBVIOUS
  <1>q. PICK q : q = [c EXCEPT !.last = panic, !.err = panic,
                               !.st = IF ask THEN "asked" ELSE "failed"]
    OBVIOUS
  <1>g. PICK g : g = Append(Front(go), q)
    OBVIOUS
  <1>3. c = Last(go) /\ DOMAIN c = ClosersFields /\ c.k = "closers" /\ c.st = "running"
    BY <1>1, <1>2 DEF Loops
  <1>4. go' = IF ask THEN Append(g, Handling(panic, cs, cs)) ELSE g
    BY <1>3, <1>a, <1>q, <1>g DEF CloserFails, WithLast
  <1>5. /\ q.k = "closers" /\ q.all = c.all /\ q.cs = c.cs
        /\ q.st = IF ask THEN "asked" ELSE "failed"
    BY <1>q, <1>3 DEF ClosersFields
  <1>6. /\ IsSeq(cs) /\ Holds(cs, go, d, n) /\ d[n] <= Len(cs) /\ go[n].k = "closers"
        /\ ~c.all => c.cs = d[n]
    BY <1>2, <1>3 DEF Loops, ClosersDeep
  <1>o. Goes(c, n, d, q, g, cs)
    BY <1>2, <1>5, <1>6, <1>g DEF Goes
  <1>7. /\ Placed(g, d) /\ Len(g) = n /\ n > 0 /\ g[n] = q /\ Framed(g, d, cs, top', 0)
        /\ Holds(cs, g, d, n)
    BY <1>o, LoopGoesOn
  <1>8. CASE ~ask
    BY <1>1, <1>4, <1>6, <1>7, <1>8 DEF ThereFramed, Frames
  <1>9. CASE ask
    <2>1. PICK r : r = Handling(panic, cs, cs)
      OBVIOUS
    <2>2. PICK d2 : d2 = Put(d, n, d[n])
      OBVIOUS
    <2>3. r.k = "msgh" /\ r.snap = cs /\ r.back = cs
      BY <2>1, NewDepths
    <2>4. go' = Append(g, r)
      BY <2>1, <1>4, <1>9
    <2>5. d[n] \in Nat /\ n \in Nat
      BY <1>2 DEF Loops
    <2>6. Pushes(g, d, n, r, d[n], go', d2)
      BY <2>2, <2>4, <2>5, <1>7 DEF Pushes
    <2>7. /\ Len(go') = n + 1 /\ go'[n + 1] = r /\ go'[n + 1 - 1] = q
          /\ d2[n + 1] = d[n] /\ d2[n + 1 - 1] = d[n]
          /\ \A j \in 1 .. n + 1 - 1 : d2[j] <= d[n]
          /\ \A e : Holds(e, go', d2, n + 1 - 1) <=> Holds(e, g, d, n)
      BY <2>6, <1>7, PutParts
    <2>8. MsghDeep(go', d2, n + 1)
      BY <2>3, <2>5, <2>7, <1>5, <1>6, <1>7, <1>9 DEF MsghDeep
    <2>9. Deep(go', d2, n + 1)
      <3>1. go'[n + 1].k = "msgh" /\ \A j \in 1 .. n + 1 - 1 : d2[j] <= d2[n + 1]
        BY <2>3, <2>7
      <3> QED BY <3>1, <2>5, <2>8 DEF Deep
    <2>10. Placed(go', d2) /\ Holds(cs, go', d2, n + 1)
      BY <2>3, <2>6, <2>9, <1>7, OtherPut
    <2>11. Framed(go', d2, cs, top', 0)
      BY <2>3, <2>7, <2>10, <1>6 DEF Framed
    <2> QED BY <2>10, <2>11, <1>1, <1>6 DEF ThereFramed, Frames
  <1> QED BY <1>8, <1>9

LEMMA CloserAnsweredFramed == HereFramed /\ CloserAnswered => ThereFramed
  <1> SUFFICES ASSUME HereFramed, CloserAnswered PROVE ThereFramed
    OBVIOUS
  <1>1. /\ go # <<>> /\ Last(go).k = "closers" /\ Last(go).st = "asked" /\ cs' = cs
    BY DEF CloserAnswered, Calm, On, machine
  <1>2. PICK c, n, d : Loops(c, n, d)
    BY <1>1, LoopParts
  <1>q. PICK q : q = [c EXCEPT !.st = "failed", !.err = IF mh.used THEN mh.ans ELSE @]
    OBVIOUS
  <1>g. PICK g : g = Append(Front(go), q)
    OBVIOUS
  <1>3. c = Last(go) /\ DOMAIN c = ClosersFields /\ c.k = "closers" /\ c.st = "asked"
    BY <1>1, <1>2 DEF Loops
  <1>4. go' = g
    BY <1>3, <1>q, <1>g DEF CloserAnswered, WithLast
  <1>5. q.k = "closers" /\ q.all = c.all /\ q.cs = c.cs /\ q.st = "failed"
    BY <1>q, <1>3 DEF ClosersFields
  <1>6. /\ IsSeq(cs) /\ Holds(cs, go, d, n) /\ d[n] <= Len(cs) /\ go[n].k = "closers"
        /\ ~c.all => c.cs = d[n]
    BY <1>2, <1>3 DEF Loops, ClosersDeep
  <1>o. Goes(c, n, d, q, g, cs)
    BY <1>2, <1>5, <1>6, <1>g DEF Goes
  <1>7. Placed(g, d) /\ Framed(g, d, cs, top', panic')
    BY <1>o, LoopGoesOn
  <1> QED BY <1>1, <1>4, <1>6, <1>7 DEF ThereFramed, Frames

\* What the failed handler had declared is closed, after the call stack is cut at the
\* depth of the loop.
LEMMA CloserInnerFramed == HereFramed /\ CloserInner => ThereFramed
  <1> SUFFICES ASSUME HereFramed, CloserInner PROVE ThereFramed
    OBVIOUS
  <1>1. /\ go # <<>> /\ Last(go).k = "closers" /\ Last(go).st = "failed" /\ panic' = 0
    BY DEF CloserInner, Calm, On
  <1>2. PICK c, n, d : Loops(c, n, d)
    BY <1>1, LoopParts
  <1>i. PICK inner : inner = SubSeq(tbc, c.tbc + 1, Len(tbc))
    OBVIOUS
  <1>s. PICK st : st = IF inner = <<>> THEN "next" ELSE "inner"
    OBVIOUS
  <1>q. PICK q : q = [c EXCEPT !.st = st]
    OBVIOUS
  <1>g. PICK g : g = Append(Front(go), q)
    OBVIOUS
  <1>x. PICK c2 : c2 = IF c.all THEN cs ELSE Cut(cs, c.cs)
    OBVIOUS
  <1>3. c = Last(go) /\ DOMAIN c = ClosersFields /\ c.k = "closers" /\ c.st = "failed"
    BY <1>1, <1>2 DEF Loops
  <1>4. /\ cs' = c2
        /\ go' = IF inner = <<>> THEN g ELSE Append(g, Closers(inner, c.err, c.use, FALSE))
    BY <1>3, <1>i, <1>s, <1>q, <1>g, <1>x DEF CloserInner, WithLast
  <1>5. q.k = "closers" /\ q.all = c.all /\ q.cs = c.cs /\ q.st = st
    BY <1>q, <1>3 DEF ClosersFields
  <1>6. /\ IsSeq(cs) /\ Holds(cs, go, d, n) /\ d[n] <= Len(cs) /\ go[n].k = "closers"
        /\ ~c.all => c.cs = d[n]
        /\ d[n] \in Nat /\ n \in Nat /\ \A j \in 1 .. n : d[j] <= d[n]
    BY <1>2, <1>3 DEF Loops, ClosersDeep
  <1>7. IsSeq(c2) /\ Holds(c2, go, d, n) /\ d[n] <= Len(c2) /\ (~c.all => Len(c2) = d[n])
    <2>1. CASE c.all
      BY <2>1, <1>6, <1>x
    <2>2. CASE ~c.all
      <3>1. Alike(cs, c2, d[n]) /\ Len(c2) = d[n]
        BY <2>2, <1>6, <1>x, Cutting
      <3>2. Holds(c2, go, d, n)
        BY <3>1, <1>6, HoldsCut
      <3> QED BY <3>1, <3>2, <1>6 DEF Alike
    <2> QED BY <2>1, <2>2
  <1>o. Goes(c, n, d, q, g, c2)
    BY <1>2, <1>5, <1>6, <1>7, <1>g DEF Goes
  <1>8. /\ Placed(g, d) /\ Len(g) = n /\ n > 0 /\ g[n] = q /\ Framed(g, d, c2, top', 0)
        /\ Holds(c2, g, d, n)
    BY <1>o, LoopGoesOn
  <1>9. CASE inner = <<>>
    BY <1>1, <1>4, <1>7, <1>8, <1>9 DEF ThereFramed, Frames
  <1>10. CASE inner # <<>>
    <2>1. g[n].k = "closers" /\ g[n].st = "inner" /\ (~g[n].all => d[n] = Len(c2))
      BY <1>5, <1>7, <1>8, <1>10, <1>s
    <2>2. Frames(Append(g, Closers(inner, c.err, c.use, FALSE)), c2, top', 0)
      BY <2>1, <1>7, <1>8, ClosersPut
    <2> QED BY <2>2, <1>1, <1>4, <1>10 DEF ThereFramed
  <1> QED BY <1>9, <1>10

LEMMA CloserInnerDoneFramed == HereFramed /\ CloserInnerDone => ThereFramed
  <1> SUFFICES ASSUME HereFramed, CloserInnerDone PROVE ThereFramed
    OBVIOUS
  <1>1. /\ go # <<>> /\ Last(go).k = "closers" /\ Last(go).st = "inner" /\ cs' = cs
    BY DEF CloserInnerDone, On, machine
  <1>2. PICK c, n, d : Loops(c, n, d)
    BY <1>1, LoopParts
  <1>q. PICK q : q = IF panic = 0 THEN [c EXCEPT !.st = "next"]
                     ELSE [c EXCEPT !.st = "next", !.last = panic, !.err = panic]
    OBVIOUS
  <1>g. PICK g : g = Append(Front(go), q)
    OBVIOUS
  <1>3. c = Last(go) /\ DOMAIN c = ClosersFields /\ c.k = "closers" /\ c.st = "inner"
    BY <1>1, <1>2 DEF Loops
  <1>4. go' = g
    BY <1>3, <1>q, <1>g DEF CloserInnerDone, WithLast
  <1>5. q.k = "closers" /\ q.all = c.all /\ q.st = "next"
    BY <1>q, <1>3 DEF ClosersFields
  <1>6. /\ IsSeq(cs) /\ Holds(cs, go, d, n) /\ d[n] <= Len(cs) /\ go[n].k = "closers"
        /\ ~c.all => Len(cs) = d[n]
    BY <1>2, <1>3 DEF Loops
  <1>o. Goes(c, n, d, q, g, cs)
    BY <1>2, <1>5, <1>6, <1>g DEF Goes
  <1>7. Placed(g, d) /\ Framed(g, d, cs, top', panic')
    BY <1>o, LoopGoesOn
  <1> QED BY <1>1, <1>4, <1>6, <1>7 DEF ThereFramed, Frames

\* A loop over close handlers ends: back to the recovery or the loop it is in, or to
\* nothing.
LEMMA CloserDoneFramed == HereFramed /\ CloserDone => ThereFramed
  <1> SUFFICES ASSUME HereFramed, CloserDone PROVE ThereFramed
    OBVIOUS
  <1>1. /\ go # <<>> /\ Last(go).k = "closers" /\ Last(go).st = "next" /\ cs' = cs
        /\ go' = <<>> \/ go' = Front(go)
    BY DEF CloserDone, Calm, On, machine
  <1>2. PICK c, n, d : Loops(c, n, d)
    BY <1>1, LoopParts
  <1>3. /\ IsSeq(cs) /\ Holds(cs, go, d, n) /\ d[n] <= Len(cs) /\ c.st = "next"
        /\ ~c.all => Len(cs) = d[n]
        /\ ClosersDeep(go, d, n) /\ c = go[n] /\ n = Len(go) /\ n \in Nat /\ n > 0
        /\ Placed(go, d) /\ d[n] \in Nat /\ \A j \in 1 .. n : d[j] <= d[n]
    BY <1>1, <1>2 DEF Loops
  <1>0. CASE go' = <<>>
    <2>1. Frames(<<>>, cs, top', panic')
      BY <1>3, NothingFramed
    <2> QED BY <2>1, <1>0, <1>1 DEF ThereFramed
  <1>g. CASE go' = Front(go)
    <2>0. PICK g : g = Front(go)
      OBVIOUS
    <2>1. PICK m : m = n - 1
      OBVIOUS
    <2>2. m \in Nat /\ (m > 0 => m \in 1 .. n - 1 /\ m \in 0 .. n - 1 /\ m <= n /\ n > 1)
      BY <2>1, <1>3
    <2>p. Pops(go, d, n, g)
      BY <2>0, <1>3 DEF Pops
    <2>3. /\ Placed(g, d) /\ Len(g) = n - 1 /\ \A j \in 1 .. n - 1 : g[j] = go[j]
          /\ \A e : \A i \in 0 .. n - 1 : Holds(e, g, d, i) <=> Holds(e, go, d, i)
      BY <2>p, PopPlaced
    <2>4. ASSUME m > 0 PROVE Framed(g, d, cs, top', panic')
      <3>1. Holds(cs, go, d, m)
        BY <2>2, <2>4, <1>3, HoldsLess
      <3>2. Holds(cs, g, d, m) /\ g[m] = go[m] /\ Len(g) = m
        BY <3>1, <2>1, <2>2, <2>3, <2>4
      <3>3. \/ go[m].k = "pc" /\ d[n] = d[m] /\ go[m].st = "closing"
            \/ go[m].k = "closers" /\ (~go[m].all => d[n] = d[m])
        BY <2>1, <2>2, <2>4, <1>3 DEF ClosersDeep
      <3>4. ~c.all
        BY <2>2, <2>4, <1>3 DEF ClosersDeep
      <3>5. d[m] <= Len(cs) /\ (d[n] = d[m] => Len(cs) = d[m])
        <4>1. d[m] <= d[n] /\ Len(cs) = d[n]
          BY <3>4, <2>1, <2>2, <2>4, <1>3
        <4> QED BY <4>1
      <3> QED BY <3>2, <3>3, <3>5 DEF Framed
    <2>5. Len(g) > 0 => m > 0
      BY <2>1, <2>3
    <2>6. Frames(g, cs, top', panic')
      BY <2>3, <2>4, <2>5, <1>3 DEF Frames
    <2> QED BY <2>0, <2>6, <1>1, <1>g DEF ThereFramed
  <1> QED BY <1>0, <1>g, <1>1

\* The loop over the close handlers of a coroutine that is closed, or of an ended VM,
\* is alone on the stack; there is no frame left.
LEMMA OnlyClosersFramed ==
  ASSUME NEW list, NEW all \in BOOLEAN, NEW t
  PROVE  Frames(<<Closers(list, 0, FALSE, all)>>, <<>>, t, 0)
  <1>r. PICK r : r = Closers(list, 0, FALSE, all)
    OBVIOUS
  <1>g. PICK g : g = <<r>>
    OBVIOUS
  <1>c. PICK c : c = <<>>
    OBVIOUS
  <1> DEFINE d == [j \in Nat |-> 0]
  <1>1. r.k = "closers" /\ r.all = all /\ r.st = "next"
    BY <1>r DEF Closers
  <1>2. g \in Seq({r}) /\ Len(g) = 1 /\ g[1] = r
    BY <1>g
  <1>3. IsSeq(g)
    BY <1>2, SeqOver
  <1>4. IsSeq(c) /\ Len(c) = 0
    <2>1. c \in Seq({}) /\ Len(c) = 0
      BY <1>c, EmptySeq
    <2> QED BY <2>1, SeqOver
  <1>5. d[1] = 0
    OBVIOUS
  <1> HIDE DEF d
  <1>6. ClosersDeep(g, d, 1)
    BY <1>1, <1>2, <1>5 DEF ClosersDeep
  <1>7. Deep(g, d, 1)
    BY <1>1, <1>2, <1>6 DEF Deep
  <1>8. Placed(g, d)
    BY <1>2, <1>3, <1>5, <1>7 DEF Placed
  <1>9. Holds(c, g, d, 1)
    BY <1>1, <1>2 DEF Holds
  <1>10. Framed(g, d, c, t, 0)
    BY <1>1, <1>2, <1>4, <1>5, <1>9 DEF Framed
  <1>11. Frames(g, c, t, 0)
    BY <1>4, <1>8, <1>10 DEF Frames
  <1> QED BY <1>11, <1>r, <1>g, <1>c

LEMMA KillFramed == ~KillMidUnwind /\ Kill => ThereFramed
  <1> SUFFICES ASSUME ~KillMidUnwind, Kill PROVE ThereFramed
    OBVIOUS
  <1>1. /\ go' = Append(<<>>, Closers(tbc, 0, FALSE, TRUE)) /\ cs' = <<>> /\ panic' = 0
    BY DEF Kill, Running, Calm, On
  <1>2. Append(<<>>, Closers(tbc, 0, FALSE, TRUE)) = <<Closers(tbc, 0, FALSE, TRUE)>>
    OBVIOUS
  <1>3. Frames(<<Closers(tbc, 0, FALSE, TRUE)>>, <<>>, top', 0)
    BY OnlyClosersFramed
  <1> QED BY <1>1, <1>2, <1>3 DEF ThereFramed

LEMMA ClosePendingTBCFramed == HereFramed /\ ClosePendingTBC => ThereFramed
  <1> SUFFICES ASSUME HereFramed, ClosePendingTBC PROVE ThereFramed
    OBVIOUS
  <1>1. /\ go' = <<Closers(tbc, 0, FALSE, FALSE)>> /\ cs' = <<>> /\ panic' = panic /\ go = <<>>
    BY DEF ClosePendingTBC
  <1>2. panic = 0
    BY <1>1, GoodParts DEF HereFramed
  <1>3. Frames(<<Closers(tbc, 0, FALSE, FALSE)>>, <<>>, top', 0)
    BY OnlyClosersFramed
  <1> QED BY <1>1, <1>2, <1>3 DEF ThereFramed

\* The outermost call has begun to run a Lua function, on an empty call stack.
LEMMA InitFramed == Init => Frames(go, cs, top, panic)
  <1> SUFFICES ASSUME Init PROVE Frames(go, cs, top, panic)
    OBVIOUS
  <1> DEFINE p(r) == [k |-> "pc", kind |-> r, st |-> "body", top |-> 0, cs |-> 0,
                      uv |-> 0, mh |-> NoHandler, h |-> 0, err |-> 0, raw |-> 0]
             d == [j \in Nat |-> 0]
  <1>1. PICK kind \in Roots : go = <<p(kind), LuaFrame(0, 0)>>
    BY DEF Init
  <1>2. cs = <<0>> /\ top = MaxStack /\ panic = 0
    BY DEF Init
  <1>3. kind \in {"run", "co"}
    BY UnwindAssumption
  <1>r. PICK r : r = p(kind)
    OBVIOUS
  <1>4. r.k = "pc" /\ r.kind = kind /\ r.cs = 0 /\ r.st = "body"
    BY <1>r
  <1>g. PICK g : g = <<r>>
    OBVIOUS
  <1>c. PICK c : c = <<>>
    OBVIOUS
  <1>5. g \in Seq({r}) /\ Len(g) = 1 /\ g[1] = r
    BY <1>g
  <1>6. IsSeq(g)
    BY <1>5, SeqOver
  <1>7. IsSeq(c) /\ Len(c) = 0
    <2>1. c \in Seq({}) /\ Len(c) = 0
      BY <1>c, EmptySeq
    <2> QED BY <2>1, SeqOver
  <1>8. d[1] = 0
    OBVIOUS
  <1> HIDE DEF d, p
  <1>9. CallDeep(g, d, 1)
    BY <1>3, <1>4, <1>5, <1>8 DEF CallDeep
  <1>10. Deep(g, d, 1)
    BY <1>4, <1>5, <1>9 DEF Deep
  <1>11. Placed(g, d)
    BY <1>5, <1>6, <1>8, <1>10 DEF Placed
  <1>12. Holds(c, g, d, 1) /\ d[1] <= Len(c) /\ Len(c) = d[1]
    BY <1>4, <1>5, <1>7, <1>8 DEF Holds
  <1>13. Frames(Append(g, LuaFrame(0, 0)), Append(c, 0), 0 + MaxStack, 0)
    <2>1. PICK n : n = 1
      OBVIOUS
    <2>2. /\ n = Len(g) /\ n > 0 /\ Holds(c, g, d, n) /\ d[n] <= Len(c) /\ Len(c) = d[n]
          /\ g[n].k = "pc"
      BY <2>1, <1>4, <1>5, <1>12
    <2> QED BY <2>2, <1>7, <1>11, LuaPut
  <1>14. Append(g, LuaFrame(0, 0)) = go
    BY <1>1, <1>r, <1>g, TwoRecords
  <1>15. Append(c, 0) = cs
    <2>1. Append(<<>>, 0) = <<0>>
      OBVIOUS
    <2> QED BY <2>1, <1>c, <1>2
  <1>16. 0 + MaxStack = top
    BY <1>2, UnwindAssumption DEF MaxStack
  <1> QED BY <1>2, <1>13, <1>14, <1>15, <1>16

\* Every step keeps the frames.
LEMMA StepFramed ==
    ~KillMidUnwind /\ IInv /\ Frames(go, cs, top, panic) /\ [Next]_vars
        => Frames(go', cs', top', panic')
  <1> SUFFICES ASSUME ~KillMidUnwind, IInv, Frames(go, cs, top, panic), [Next]_vars
               PROVE  ThereFramed
    BY DEF ThereFramed
  <1>1. HereFramed /\ nerr \in Nat
    BY DEF IInv, HereFramed
  <1>2. CASE DeclareClose \/ DeclareCaptured \/ EndBlock \/ Return \/ Call \/ Raise
             \/ \E kind \in Kinds : ProtectedCall(kind)
    BY <1>1, <1>2, DeclareFramed, ScopeFramed, CallFramed, RaiseFramed, ProtectedCallFramed
       DEF DeclareClose, DeclareCaptured
  <1>3. CASE ScopeNext \/ BlockDone \/ FrameDone
    BY <1>1, <1>3, ScopeNextFramed, BlockDoneFramed, FrameDoneFramed
  <1>4. CASE Propagate \/ Recover \/ CloseTBC \/ SkipTBC \/ Recovered
    BY <1>1, <1>4, PropagateFramed, RecoverFramed, CloseTBCFramed, SkipTBCFramed,
       RecoveredFramed
  <1>5. CASE PcallReturns \/ XpcallReturns \/ XpcallFallback \/ CallbackReturns
             \/ CallbackRaises \/ RootEnds
    BY <1>1, <1>5, ReturnsFramed, XpcallFallbackFramed, CallbackRaisesFramed, RootEndsFramed
  <1>6. CASE TryHandler \/ HandlerFails \/ HandlerAnswers \/ FallbackAnswers
    BY <1>1, <1>6, TryHandlerFramed, HandlerFailsFramed, HandlerAnswersFramed,
       FallbackAnswersFramed
  <1>7. CASE CloserNext \/ CloserFails \/ CloserAnswered \/ CloserInner
             \/ CloserInnerDone \/ CloserDone
    BY <1>1, <1>7, CloserNextFramed, CloserFailsFramed, CloserAnsweredFramed,
       CloserInnerFramed, CloserInnerDoneFramed, CloserDoneFramed
  <1>8. CASE Kill \/ ClosePendingTBC
    BY <1>1, <1>8, KillFramed, ClosePendingTBCFramed
  <1>9. CASE Finished \/ UNCHANGED vars
    <2>1. go' = go /\ cs' = cs /\ top' = top /\ panic' = panic
      BY <1>9 DEF Finished, vars
    <2> QED BY <2>1 DEF ThereFramed
  <1> QED BY <1>2, <1>3, <1>4, <1>5, <1>6, <1>7, <1>8, <1>9 DEF Next

\* A Lua function that runs is the deepest record: the call stack ends with its frame.
LEMMA FramedIsRestored == IInv /\ Frames(go, cs, top, panic) => FramesRestored
  <1> SUFFICES ASSUME IInv, Frames(go, cs, top, panic), Running
               PROVE  Last(cs) = Last(go).base /\ top = Last(go).base + MaxStack
    BY DEF FramesRestored
  <1> PICK n : n = Len(go)
    OBVIOUS
  <1>1. panic = 0 /\ go # <<>> /\ Last(go).k = "lua"
    BY DEF Running, Calm, On
  <1>2. /\ IsSeq(cs) /\ Len(cs) \in Nat /\ n \in Nat /\ n > 0 /\ Last(go) = go[n]
        /\ \E d : Placed(go, d) /\ Framed(go, d, cs, top, panic)
    BY <1>1, FramedParts DEF IInv
  <1> PICK d : Placed(go, d) /\ Framed(go, d, cs, top, panic)
    BY <1>2
  <1>3. Holds(cs, go, d, n) /\ Len(cs) = d[n] /\ top = LuaOf(go, n).base + MaxStack
    BY <1>1, <1>2 DEF Framed
  <1>4. d[n] \in 1 .. Len(cs) /\ cs[d[n]] = go[n].base
    BY <1>1, <1>2, <1>3 DEF Holds
  <1>5. LuaOf(go, n) = go[n]
    BY <1>1, <1>2 DEF LuaOf
  <1>6. Last(cs) = cs[Len(cs)]
    BY <1>2, <1>3, <1>4, Popped
  <1> QED BY <1>2, <1>3, <1>4, <1>5, <1>6

\* Whatever has been caught and closed: a Lua function that goes on finds its own frame
\* last on vm.callStack, and vm.top just behind its registers.
THEOREM FramesAreRestored == ~KillMidUnwind /\ Spec => []FramesRestored
  <1>1. KillMidUnwind \/ ~KillMidUnwind
    OBVIOUS
  <1> SUFFICES ASSUME ~KillMidUnwind PROVE Spec => []FramesRestored
    OBVIOUS
  <1> DEFINE FInv == Frames(go, cs, top, panic)
  <1>2. IInv /\ FInv /\ [Next]_vars => FInv'
    BY StepFramed
  <1>3. Init => FInv
    BY InitFramed
  <1>4. IInv /\ FInv => FramesRestored
    BY FramedIsRestored
  <1>5. IInv /\ [Next]_vars => IInv'
    BY StepGood
  <1>6. Init => IInv
    BY InitGood
  <1> HIDE DEF FInv
  <1> QED BY <1>2, <1>3, <1>4, <1>5, <1>6, PTL DEF Spec

=============================================================================
