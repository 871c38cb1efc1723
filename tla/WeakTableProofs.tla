--------------------------- MODULE WeakTableProofs ---------------------------
(***************************************************************************)
(* The index of a weak table is exact, and a read under a key answers what *)
(* was last assigned to that key or nil, for any number of objects, keys,  *)
(* traversals and modes.  Both rest on the collector: the entries of two   *)
(* keys with one lookup key are kept apart only because a key that the     *)
(* store holds strongly, or can still read, occupies its address.  On top  *)
(* of that: ws.dead counts the tombstones, and a traversal misses nothing  *)
(* and returns nothing twice.                                              *)
(***************************************************************************)
EXTENDS WeakTable, FiniteSetTheorems, WellFoundedInduction, TLAPS

-----------------------------------------------------------------------------
(* Lemmas about the operators of the store. *)

\* A set of numbers that is not empty has a least element.  (By way of the
\* initial segments 1 .. n, finite sets that strict inclusion orders.)
LEMMA MinExists ==
  ASSUME NEW T \in SUBSET Nat, T # {}
  PROVE  \E x \in T : \A y \in T : x <= y
<1> DEFINE R == StrictSubsetOrdering(Nat)
           F == {1 .. n : n \in T}
<1>1. IsWellFoundedOn(R, FiniteSubsetsOf(Nat))
  BY FS_StrictSubsetOrderingWellFounded
<1>2. \A n \in Nat : IsFiniteSet(1 .. n) /\ 1 .. n \in SUBSET Nat
  BY FS_Interval
<1>3. F \subseteq FiniteSubsetsOf(Nat) /\ F # {}
  BY <1>2 DEF FiniteSubsetsOf
<1>4. \A x, y \in Nat : y < x => <<1 .. y, 1 .. x>> \in R
  <2>1. SUFFICES ASSUME NEW x \in Nat, NEW y \in Nat, y < x
                 PROVE  <<1 .. y, 1 .. x>> \in R
    OBVIOUS
  <2>2. x \in 1 .. x /\ x \notin 1 .. y /\ 1 .. y \subseteq 1 .. x
    BY <2>1
  <2> QED BY <1>2, <2>2 DEF StrictSubsetOrdering
<1> HIDE DEF R
<1>5. \E S \in F : \A U \in F : <<U, S>> \notin R
  BY <1>1, <1>3, WFMin
<1>6. PICK x \in T : \A y \in T : <<1 .. y, 1 .. x>> \notin R
  BY <1>5
<1>7. \A y \in T : ~(y < x)
  BY <1>4, <1>6
<1>8. \A y \in T : x <= y
  BY <1>7
<1> QED BY <1>8

Exact(s) ==
  /\ \A x \in DOMAIN s.index :
       s.index[x] \in AliveAt(s) /\ s.entries[s.index[x]].indexKey = x
  /\ \A i \in AliveAt(s) : /\ s.entries[i].indexKey \in DOMAIN s.index
                           /\ s.index[s.entries[i].indexKey] = i

\* Killing alive entries leaves the index exact.
LEMMA KillExact ==
  ASSUME NEW s, NEW I, Exact(s), I \subseteq AliveAt(s)
  PROVE  Exact(killEntries(s, I))
<1> DEFINE t == killEntries(s, I)
<1>1. /\ DOMAIN t.entries = DOMAIN s.entries
      /\ \A i \in DOMAIN s.entries : i \in I => t.entries[i] = Tombstone(s.entries[i])
      /\ \A i \in DOMAIN s.entries : i \notin I => t.entries[i] = s.entries[i]
      /\ DOMAIN t.index = DOMAIN s.index \ {s.entries[i].indexKey : i \in I}
      /\ \A x \in DOMAIN t.index : t.index[x] = s.index[x]
  BY DEF killEntries
<1>2. \A i : i \in AliveAt(t) <=> i \in AliveAt(s) /\ i \notin I
  <2>1. \A e : ~Tombstone(e).alive
    BY DEF Tombstone
  <2>2. \A i \in DOMAIN s.entries : i \in I => ~t.entries[i].alive
    BY <1>1, <2>1
  <2> HIDE DEF t
  <2> QED BY <1>1, <2>2 DEF AliveAt
<1>3. ASSUME NEW x \in DOMAIN t.index
      PROVE  t.index[x] \in AliveAt(t) /\ t.entries[t.index[x]].indexKey = x
  <2>1. s.index[x] \in AliveAt(s) /\ s.entries[s.index[x]].indexKey = x
    BY <1>1, <1>3 DEF Exact
  <2>2. s.index[x] \notin I
    BY <1>1, <1>3, <2>1
  <2> QED BY <1>1, <1>2, <1>3, <2>1, <2>2 DEF AliveAt
<1>4. ASSUME NEW i \in AliveAt(t)
      PROVE  t.entries[i].indexKey \in DOMAIN t.index /\ t.index[t.entries[i].indexKey] = i
  <2>1. i \in AliveAt(s) /\ i \notin I /\ t.entries[i] = s.entries[i]
    BY <1>1, <1>2 DEF AliveAt
  <2>2. s.entries[i].indexKey \in DOMAIN s.index /\ s.index[s.entries[i].indexKey] = i
    BY <2>1 DEF Exact
  <2>3. \A j \in I : s.entries[j].indexKey # s.entries[i].indexKey
    BY <2>1, <2>2 DEF Exact
  <2> QED BY <1>1, <2>1, <2>2, <2>3
<1> QED BY <1>3, <1>4 DEF Exact

\* ... and it leaves the list well typed.
LEMMA KillTyped ==
  ASSUME NEW s, NEW I, s.entries \in Seq(Entry)
  PROVE  killEntries(s, I).entries \in Seq(Entry)
<1>1. \A e \in Entry : Tombstone(e) \in Entry
  BY DEF Tombstone, Entry
<1>2. \A i \in DOMAIN s.entries : s.entries[i] \in Entry
  OBVIOUS
<1>3. killEntries(s, I).entries
        = [i \in 1 .. Len(s.entries) |->
             IF i \in I THEN Tombstone(s.entries[i]) ELSE s.entries[i]]
  BY DEF killEntries
<1> QED BY <1>1, <1>2, <1>3

\* A new value for an alive entry.
LEMMA UpdateExact ==
  ASSUME NEW s, NEW i \in AliveAt(s), NEW v, Exact(s)
  PROVE  /\ Exact(Update(s, i, v))
         /\ AliveAt(Update(s, i, v)) = AliveAt(s)
<1> DEFINE t == Update(s, i, v)
           e == [key |-> s.entries[i].key, value |-> v,
                 indexKey |-> s.entries[i].indexKey, alive |-> TRUE]
<1>1. i \in DOMAIN s.entries /\ s.entries[i].alive
  BY DEF AliveAt
<1>2. /\ t.entries = [s.entries EXCEPT ![i] = e]
      /\ t.index = s.index
  BY DEF Update
<1>3. /\ DOMAIN t.entries = DOMAIN s.entries
      /\ t.entries[i] = e
      /\ \A j \in DOMAIN s.entries : j # i => t.entries[j] = s.entries[j]
  BY <1>1, <1>2
<1>4. e.alive /\ e.indexKey = s.entries[i].indexKey
  OBVIOUS
<1> HIDE DEF t, e
<1>5. \A j \in DOMAIN s.entries : /\ t.entries[j].alive <=> s.entries[j].alive
                                  /\ t.entries[j].indexKey = s.entries[j].indexKey
  BY <1>1, <1>3, <1>4
<1>6. \A j : j \in AliveAt(t) <=> j \in AliveAt(s)
  BY <1>3, <1>5 DEF AliveAt
<1>7. AliveAt(t) \subseteq DOMAIN s.entries
  BY <1>3 DEF AliveAt
<1>8. Exact(t)
  BY <1>2, <1>5, <1>6, <1>7 DEF Exact
<1> QED BY <1>6, <1>8 DEF t

\* The slot of a new entry: one past the end or a tombstone.
LEMMA FreeSlotFree ==
  ASSUME NEW s, s.entries \in Seq(Entry)
  PROVE  /\ FreeSlot(s) \in 1 .. Len(s.entries) + 1
         /\ FreeSlot(s) \notin AliveAt(s)
<1>1. DOMAIN s.entries = 1 .. Len(s.entries) /\ Len(s.entries) \in Nat
  OBVIOUS
<1>2. CASE s.dead > 0 /\ Tombstones(s) # {}
  <2>1. Tombstones(s) \subseteq 1 .. Len(s.entries)
    BY <1>1 DEF Tombstones
  <2>2. \E i \in Tombstones(s) : \A j \in Tombstones(s) : i <= j
    BY <1>1, <1>2, <2>1, MinExists
  <2>3. FreeSlot(s) \in Tombstones(s)
    BY <1>2, <2>2 DEF FreeSlot
  <2> QED BY <1>1, <2>1, <2>3 DEF Tombstones
<1>3. CASE ~(s.dead > 0 /\ Tombstones(s) # {})
  <2>1. FreeSlot(s) = Len(s.entries) + 1
    BY <1>3 DEF FreeSlot
  <2> QED BY <1>1, <2>1 DEF AliveAt
<1> QED BY <1>2, <1>3

\* A new entry under a lookup key the index does not have, in a slot without
\* an alive entry.
LEMMA InsertExact ==
  ASSUME NEW s, NEW m, NEW i, NEW k, NEW v, Exact(s), i \notin AliveAt(s),
         LookupKey(m, k) \notin DOMAIN s.index
  PROVE  /\ Exact(Insert(m, s, i, k, v))
         /\ \A j : j \in AliveAt(Insert(m, s, i, k, v)) <=> j \in AliveAt(s) \/ j = i
         /\ Insert(m, s, i, k, v).entries[i] = NewEntry(m, k, v)
         /\ \A j \in AliveAt(s) : Insert(m, s, i, k, v).entries[j] = s.entries[j]
<1> DEFINE t == Insert(m, s, i, k, v)
           e == NewEntry(m, k, v)
           x == LookupKey(m, k)
<1>1. /\ DOMAIN t.entries = DOMAIN s.entries \cup {i}
      /\ t.entries[i] = e
      /\ \A j \in DOMAIN s.entries : j # i => t.entries[j] = s.entries[j]
      /\ DOMAIN t.index = DOMAIN s.index \cup {x}
      /\ t.index[x] = i
      /\ \A y \in DOMAIN s.index : y # x => t.index[y] = s.index[y]
  BY DEF Insert
<1>2. e.alive /\ e.indexKey = x
  BY DEF NewEntry
<1> HIDE DEF t, e, x
<1>3. \A j : j \in AliveAt(t) <=> j \in AliveAt(s) \/ j = i
  BY <1>1, <1>2 DEF AliveAt
<1>4. \A j \in AliveAt(s) : t.entries[j] = s.entries[j]
  BY <1>1 DEF AliveAt
<1>5. x \notin DOMAIN s.index
  BY DEF x
<1>6. ASSUME NEW y \in DOMAIN t.index
      PROVE  t.index[y] \in AliveAt(t) /\ t.entries[t.index[y]].indexKey = y
  BY <1>1, <1>2, <1>3, <1>4, <1>5, <1>6 DEF Exact
<1>7. ASSUME NEW j \in AliveAt(t)
      PROVE  t.entries[j].indexKey \in DOMAIN t.index /\ t.index[t.entries[j].indexKey] = j
  BY <1>1, <1>2, <1>3, <1>4, <1>5, <1>7 DEF Exact
<1>8. Exact(t)
  BY <1>6, <1>7 DEF Exact
<1> QED BY <1>1, <1>3, <1>4, <1>8 DEF t, e

-----------------------------------------------------------------------------
(* Every operation but set and a change of mode kills entries, or nothing. *)

SameEntries(s, t) == t.entries = s.entries /\ t.index = s.index /\ t.dead = s.dead
Kills(s, t) == \/ SameEntries(s, t)
               \/ \E I \in SUBSET AliveAt(s) : SameEntries(killEntries(s, I), t)

\* What killing leaves: an exact index, no new entry, and no alive entry with
\* the lookup key of one that was killed.
LEMMA KillsExact ==
  ASSUME NEW s, NEW t, Exact(s), s.entries \in Seq(Entry), Kills(s, t)
  PROVE  /\ Exact(t)
         /\ t.entries \in Seq(Entry)
         /\ \A i \in AliveAt(t) : i \in AliveAt(s) /\ t.entries[i] = s.entries[i]
<1>1. CASE SameEntries(s, t)
  <2>1. AliveAt(t) = AliveAt(s)
    BY <1>1 DEF AliveAt, SameEntries
  <2> QED BY <1>1, <2>1 DEF Exact, SameEntries
<1>2. ASSUME NEW I \in SUBSET AliveAt(s), SameEntries(killEntries(s, I), t)
      PROVE  /\ Exact(t)
             /\ t.entries \in Seq(Entry)
             /\ \A i \in AliveAt(t) : i \in AliveAt(s) /\ t.entries[i] = s.entries[i]
  <2> DEFINE k == killEntries(s, I)
  <2>1. Exact(k) /\ k.entries \in Seq(Entry)
    BY KillExact, KillTyped
  <2>2. \A i \in AliveAt(k) : i \in AliveAt(s) /\ k.entries[i] = s.entries[i]
    <3>1. SUFFICES ASSUME NEW i \in AliveAt(k)
                   PROVE  i \in AliveAt(s) /\ k.entries[i] = s.entries[i]
      OBVIOUS
    <3>2. k.entries = [j \in DOMAIN s.entries |->
                         IF j \in I THEN Tombstone(s.entries[j]) ELSE s.entries[j]]
      BY DEF killEntries
    <3>3. \A e : ~Tombstone(e).alive
      BY DEF Tombstone
    <3> HIDE DEF k
    <3> QED BY <3>1, <3>2, <3>3 DEF AliveAt
  <2> HIDE DEF k
  <2>3. t.entries = k.entries /\ t.index = k.index
    BY <1>2 DEF SameEntries, k
  <2>4. AliveAt(t) = AliveAt(k)
    BY <2>3 DEF AliveAt
  <2> QED BY <2>1, <2>2, <2>3, <2>4 DEF Exact
<1> QED BY <1>1, <1>2 DEF Kills

\* delete only kills.
LEMMA DeleteKills ==
  ASSUME NEW s, NEW m, NEW k, Exact(s)
  PROVE  /\ Kills(s, Delete(m, s, k))
         /\ LookupKey(m, k) \notin DOMAIN Delete(m, s, k).index
<1> DEFINE x == LookupKey(m, k)
<1>1. CASE x \notin DOMAIN s.index
  BY <1>1 DEF Delete, Kills, SameEntries
<1>2. CASE x \in DOMAIN s.index
  <2>1. Delete(m, s, k) = killEntries(s, {s.index[x]})
    BY <1>2 DEF Delete
  <2>2. {s.index[x]} \in SUBSET AliveAt(s) /\ s.entries[s.index[x]].indexKey = x
    BY <1>2 DEF Exact
  <2>3. x \notin DOMAIN killEntries(s, {s.index[x]}).index
    BY <2>2 DEF killEntries
  <2> QED BY <2>1, <2>2, <2>3 DEF Kills, SameEntries
<1> QED BY <1>1, <1>2

\* get only kills: an entry whose pair has been lost.
LEMMA GetKills ==
  ASSUME NEW s, NEW m, NEW k, Exact(s)
  PROVE  Kills(s, AfterGet(m, s, k))
  BY DEF AfterGet, Kills, SameEntries, Exact

\* sweep only kills.
LEMMA SweepKills == \A s, m : Kills(s, AfterSweep(m, s))
  BY DEF AfterSweep, Kills, SameEntries

\* forEach only kills.
LEMMA ForEachKills == \A s, m : Kills(s, AfterForEach(m, s))
  BY DEF AfterForEach, Kills, SameEntries

\* A step of a traversal ends at a readable entry of the list, or past it.
LEMMA NextKills ==
  ASSUME NEW s, NEW m, NEW start \in Nat \ {0}, s.entries \in Seq(Entry),
         s.iterBound \in Nat
  PROVE  /\ Kills(s, AfterNext(m, s, start))
         /\ LET i == NextSlot(m, s, start)
            IN  i # 0 => i \in AliveAt(s) /\ Readable(m, s.entries[i])
<1>1. DOMAIN s.entries = 1 .. Len(s.entries) /\ Len(s.entries) \in Nat
  OBVIOUS
<1>2. window(s) \in Nat /\ window(s) <= Len(s.entries)
  BY <1>1 DEF window
<1>3. Hits(m, s, start) \in SUBSET Nat
  BY <1>2 DEF Hits
<1>4. \/ NextSlot(m, s, start) = 0
      \/ NextSlot(m, s, start) \in Hits(m, s, start)
  <2>1. CASE Hits(m, s, start) = {}
    BY <2>1 DEF NextSlot
  <2>2. CASE Hits(m, s, start) # {}
    <3>1. \E i \in Hits(m, s, start) : \A j \in Hits(m, s, start) : i <= j
      BY <1>3, <2>2, MinExists
    <3> QED BY <2>2, <3>1 DEF NextSlot
  <2> QED BY <2>1, <2>2
<1> DEFINE stop == IF NextSlot(m, s, start) = 0 THEN window(s) + 1
                                                ELSE NextSlot(m, s, start)
           I == {i \in start .. stop - 1 : s.entries[i].alive}
<1>5. stop \in Nat /\ stop - 1 <= Len(s.entries)
  BY <1>2, <1>4 DEF Hits
<1>6. I \in SUBSET AliveAt(s)
  BY <1>1, <1>5 DEF AliveAt
<1>7. SameEntries(killEntries(s, I), AfterNext(m, s, start))
  BY DEF AfterNext, SameEntries
<1>8. NextSlot(m, s, start) # 0 =>
        /\ NextSlot(m, s, start) \in AliveAt(s)
        /\ Readable(m, s.entries[NextSlot(m, s, start)])
  BY <1>1, <1>2, <1>4 DEF Hits, Readable, AliveAt
<1> QED BY <1>6, <1>7, <1>8 DEF Kills

-----------------------------------------------------------------------------
(* The inductive invariant. *)

Typed ==
  /\ mode \in {StrongMode, "k", "v", "kv"}
  /\ ws.entries \in Seq(Entry) /\ ws.iterBound \in Nat
  /\ heap \subseteq Obj /\ held \subseteq heap
  /\ lives \in [Addr -> 0 .. MaxLives]
  /\ last \in [Val -> Val \cup {Nil}]
  /\ IsFiniteSet(DOMAIN strong)

\* One object at a time occupies an address, and no object is older than its
\* address.
Born(o) == IsObj(o) => o[2] <= lives[o[1]]
OnePerAddress ==
  /\ \A o \in heap : Born(o)
  /\ \A o, p \in heap : o[1] = p[1] => o = p

\* An alive entry: what it holds strongly is in the heap, and while its key
\* is there its value is the last assignment to the key.
EntryOK(e) ==
  /\ e.key \in Val /\ Born(e.key)
  /\ e.value \in Val /\ Born(e.value)
  /\ e.indexKey = LookupKey(mode, e.key)
  /\ (IsObj(e.key) /\ ~KeyIsWeak(mode, e)) => e.key \in heap
  /\ (IsObj(e.value) /\ ~ValueIsWeak(mode, e)) => e.value \in heap
  /\ (IsObj(e.key) => e.key \in heap) => entryValue(mode, e) \in {last[e.key], Nil}

\* A pair of the ordinary storage.
PairOK(k, v) ==
  /\ k \in Val /\ v \in Val
  /\ IsObj(k) => k \in heap
  /\ IsObj(v) => v \in heap
  /\ v = last[k]

\* One of the two storages is in use.
OneStorage ==
  IF mode = StrongMode THEN AliveAt(ws) = {} ELSE DOMAIN strong = {}

IInv ==
  /\ Typed
  /\ OnePerAddress
  /\ Exact(ws)
  /\ \A i \in AliveAt(ws) : EntryOK(ws.entries[i])
  /\ \A k \in DOMAIN strong : PairOK(k, strong[k])
  /\ OneStorage

\* Nil is no object ...
LEMMA NilNotObj == Nil \notin Obj
  BY DEF Nil, Obj

\* ... and no value.
LEMMA NilNotVal == Nil \notin Val
  BY DEF Nil, Obj, Prim, Val

\* What a read finds is in the heap.
LEMMA ReadableInHeap ==
  ASSUME NEW e, EntryOK(e), Readable(mode, e)
  PROVE  /\ {e.key, e.value} \cap Obj \subseteq heap
         /\ e.value = last[e.key]
<1>1. IsObj(e.key) => e.key \in heap
  BY DEF EntryOK, Readable, entryKey, Reaches
<1>2. IsObj(e.value) => e.value \in heap
  BY DEF EntryOK, Readable, entryValue, Reaches
<1>3. entryValue(mode, e) = last[e.key] /\ entryValue(mode, e) # Nil
  BY <1>1 DEF EntryOK, Readable
<1>4. e.value = last[e.key]
  BY <1>3 DEF entryValue
<1> QED BY <1>1, <1>2, <1>4 DEF IsObj

\* A new table is empty.
LEMMA InitHolds == Init => IInv
<1> SUFFICES ASSUME Init PROVE IInv
  OBVIOUS
<1>1. DOMAIN strong = {} /\ ws.entries = <<>> /\ ws.iterBound = 0 /\ DOMAIN ws.index = {}
  BY DEF Init, EmptyStore
<1>2. AliveAt(ws) = {}
  BY <1>1 DEF AliveAt
<1>3. IsFiniteSet(DOMAIN strong)
  BY <1>1, FS_EmptySet
<1>4. Typed
  BY <1>1, <1>3, LivesAssumption DEF Init, Typed
<1>5. OnePerAddress
  BY DEF Init, OnePerAddress
<1>6. Exact(ws)
  BY <1>1, <1>2 DEF Exact
<1>7. OneStorage
  BY <1>2 DEF OneStorage, Init
<1> QED BY <1>1, <1>2, <1>4, <1>5, <1>6, <1>7 DEF IInv

\* A step that only kills entries and loads registers.
LEMMA KillStep ==
  ASSUME IInv, Kills(ws, ws'), ws'.iterBound \in Nat,
         UNCHANGED <<mode, strong, heap, lives, last>>, held' \subseteq heap
  PROVE  IInv'
<1>1. /\ Exact(ws)' /\ ws'.entries \in Seq(Entry)
      /\ \A i \in AliveAt(ws)' : i \in AliveAt(ws) /\ ws'.entries[i] = ws.entries[i]
  <2>1. Exact(ws) /\ ws.entries \in Seq(Entry)
    BY DEF IInv, Typed
  <2>2. Exact(ws') /\ ws'.entries \in Seq(Entry)
    BY <2>1, KillsExact
  <2>3. \A i \in AliveAt(ws') : i \in AliveAt(ws) /\ ws'.entries[i] = ws.entries[i]
    BY <2>1, KillsExact
  <2> QED BY <2>2, <2>3 DEF Exact, AliveAt
<1>2. Typed'
  BY <1>1 DEF IInv, Typed
<1>3. OnePerAddress'
  BY DEF IInv, OnePerAddress, Born
<1>4. \A i \in AliveAt(ws)' : EntryOK(ws.entries[i])'
  <2>1. SUFFICES ASSUME NEW i \in AliveAt(ws)' PROVE EntryOK(ws.entries[i])'
    OBVIOUS
  <2>2. EntryOK(ws.entries[i]) /\ ws'.entries[i] = ws.entries[i]
    BY <1>1 DEF IInv
  <2> QED BY <2>2 DEF EntryOK, Born, KeyIsWeak, ValueIsWeak, entryValue, Reaches
<1>5. \A k \in DOMAIN strong' : PairOK(k, strong[k])'
  BY DEF IInv, PairOK
<1>6. OneStorage'
  BY <1>1 DEF IInv, OneStorage
<1> QED BY <1>1, <1>2, <1>3, <1>4, <1>5, <1>6 DEF IInv

\* Steps that leave the store and the heap alone.
LEMMA RegisterStep ==
  ASSUME IInv, UNCHANGED <<mode, ws, strong, heap, lives, last>>, held' \subseteq heap
  PROVE  IInv'
<1>1. Kills(ws, ws') /\ ws'.iterBound \in Nat
  BY DEF Kills, SameEntries, IInv, Typed
<1> QED BY <1>1, KillStep

\* An object is allocated, maybe at the address of a lost one.
LEMMA NewStep ==
  ASSUME IInv, NEW a \in Addr, New(a)
  PROVE  IInv'
<1> PICK n : n = <<a, lives[a] + 1>>
  OBVIOUS
<1>1. /\ lives[a] \in Nat /\ lives[a] < MaxLives
      /\ lives' = [lives EXCEPT ![a] = @ + 1]
      /\ heap' = heap \cup {n} /\ held' = held \cup {n}
      /\ UNCHANGED <<mode, ws, strong, last>>
  BY LivesAssumption DEF New, IInv, Typed
<1>2. /\ n \in Obj /\ n[1] = a /\ n[2] = lives[a] + 1
      /\ lives' \in [Addr -> 0 .. MaxLives]
  BY <1>1, LivesAssumption DEF Obj, IInv, Typed
<1>3. \A o \in heap : o[1] # a
  BY DEF New
<1>4. \A v \in Val : Born(v) => Born(v)' /\ v # n
  <2>1. SUFFICES ASSUME NEW v \in Val, Born(v) PROVE Born(v)' /\ v # n
    OBVIOUS
  <2>2. CASE ~IsObj(v)
    BY <1>2, <2>2 DEF Born, IsObj
  <2>3. CASE IsObj(v)
    <3>1. v[1] \in Addr /\ v[2] \in Nat /\ v[2] <= lives[v[1]]
      BY <2>1, <2>3 DEF Born, IsObj, Obj
    <3>2. lives'[v[1]] = IF v[1] = a THEN lives[a] + 1 ELSE lives[v[1]]
      BY <1>1, <3>1 DEF IInv, Typed
    <3>3. v[2] <= lives'[v[1]]
      BY <1>1, <3>1, <3>2
    <3>4. v # n
      BY <1>1, <1>2, <3>1
    <3> QED BY <3>3, <3>4 DEF Born
  <2> QED BY <2>2, <2>3
<1>5. Typed'
  BY <1>1, <1>2 DEF IInv, Typed
<1>6. OnePerAddress'
  <2>1. Born(n)'
    BY <1>1, <1>2 DEF Born, IInv, Typed
  <2>2. \A o \in heap : Born(o)'
    BY <1>4 DEF IInv, OnePerAddress, Typed, Val
  <2>3. \A o, p \in heap' : o[1] = p[1] => o = p
    BY <1>1, <1>2, <1>3 DEF IInv, OnePerAddress
  <2>4. \A o \in heap' : Born(o)'
    BY <1>1, <2>1, <2>2
  <2> QED BY <2>3, <2>4 DEF OnePerAddress
<1>7. AliveAt(ws)' = AliveAt(ws) /\ Exact(ws)'
  BY <1>1 DEF AliveAt, Exact, IInv
<1>8. \A i \in AliveAt(ws) : EntryOK(ws.entries[i])'
  <2>1. SUFFICES ASSUME NEW i \in AliveAt(ws) PROVE EntryOK(ws.entries[i])'
    OBVIOUS
  <2> DEFINE e == ws.entries[i]
  <2>2. EntryOK(e) /\ e' = e
    BY <1>1 DEF IInv
  <2>3. /\ Born(e.key)' /\ Born(e.value)' /\ e.key # n /\ e.value # n
    BY <1>4, <2>2 DEF EntryOK
  <2>4. /\ e.key \in heap' <=> e.key \in heap
        /\ e.value \in heap' <=> e.value \in heap
    BY <1>1, <2>3
  <2> HIDE DEF e
  <2>5. EntryOK(e)'
    BY <1>1, <2>2, <2>3, <2>4 DEF EntryOK, KeyIsWeak, ValueIsWeak, entryValue, Reaches
  <2> QED BY <2>5 DEF e
<1>9. \A k \in DOMAIN strong' : PairOK(k, strong[k])'
  BY <1>1 DEF IInv, PairOK
<1>10. OneStorage'
  BY <1>1, <1>7 DEF IInv, OneStorage
<1> QED BY <1>1, <1>5, <1>6, <1>7, <1>8, <1>9, <1>10 DEF IInv

\* The value of an alive entry that still answers is in the heap.
LEMMA ValueInHeap ==
  ASSUME NEW e, EntryOK(e)
  PROVE  {entryValue(mode, e)} \cap Obj \subseteq heap
  BY NilNotObj DEF EntryOK, entryValue, Reaches, IsObj

\* A read.
LEMMA GetStep ==
  ASSUME IInv, NEW k \in Val, Get(k)
  PROVE  IInv'
<1>1. held \subseteq heap
  BY DEF IInv, Typed
<1>2. CASE mode = StrongMode
  <2>1. ws' = ws
    BY <1>2 DEF Get
  <2>2. held' \subseteq heap
    BY <1>1, <1>2, NilNotObj DEF Get, IInv, PairOK, IsObj
  <2> QED BY <2>1, <2>2, RegisterStep DEF Get
<1>3. CASE mode # StrongMode
  <2>1. Exact(ws)
    BY DEF IInv
  <2>2. ws' = AfterGet(mode, ws, k)
    BY <1>3 DEF Get
  <2>3. Kills(ws, AfterGet(mode, ws, k))
    BY <2>1, GetKills
  <2>4. ws'.iterBound \in Nat
    BY <2>2 DEF AfterGet, killEntries, IInv, Typed
  <2>5. {Read(mode, ws, k)} \cap Obj \subseteq heap
    <3> DEFINE x == LookupKey(mode, k)
    <3>1. CASE x \notin DOMAIN ws.index \/ KeyCollected(mode, ws.entries[ws.index[x]])
      <4>1. Read(mode, ws, k) = Nil
        BY <3>1 DEF Read
      <4> QED BY <4>1, NilNotObj
    <3>2. CASE x \in DOMAIN ws.index /\ ~KeyCollected(mode, ws.entries[ws.index[x]])
      <4>1. Read(mode, ws, k) = entryValue(mode, ws.entries[ws.index[x]])
        BY <3>2 DEF Read
      <4>2. EntryOK(ws.entries[ws.index[x]])
        BY <2>1, <3>2 DEF Exact, IInv
      <4> QED BY <4>1, <4>2, ValueInHeap
    <3> QED BY <3>1, <3>2
  <2>6. held' \subseteq heap
    BY <1>1, <1>3, <2>5 DEF Get
  <2> QED BY <2>2, <2>3, <2>4, <2>6, KillStep DEF Get
<1> QED BY <1>2, <1>3

\* A sweep.
LEMMA SweepStep ==
  ASSUME IInv, Sweep \/ Length
  PROVE  IInv'
<1>1. Exact(ws)
  BY DEF IInv
<1>2. Kills(ws, ws') /\ ws'.iterBound \in Nat
  <2>1. CASE Sweep
    BY <2>1, SweepKills DEF Sweep, AfterSweep, killEntries, IInv, Typed
  <2>2. CASE Length
    <3>1. ws' = Delete(mode, ws, <<"int", Border(mode, ws) + 1>>)
      BY <2>2 DEF Length, AfterLength
    <3>2. ws'.iterBound \in Nat
      BY <3>1 DEF Delete, killEntries, IInv, Typed
    <3> QED BY <1>1, <3>1, <3>2, DeleteKills
  <2> QED BY <2>1, <2>2
<1> QED BY <1>2, KillStep DEF Sweep, Length, IInv, Typed

\* forEach.
LEMMA ForEachStep ==
  ASSUME IInv, ForEach
  PROVE  IInv'
<1>1. Kills(ws, ws') /\ ws'.iterBound \in Nat
  BY ForEachKills DEF ForEach, AfterForEach, killEntries, IInv, Typed
<1>2. \A e \in Range(ws'.entries) : e.alive => {e.key, e.value} \cap Obj \subseteq heap
  <2>1. SUFFICES ASSUME NEW i \in DOMAIN ws'.entries, ws'.entries[i].alive
                 PROVE  {ws'.entries[i].key, ws'.entries[i].value} \cap Obj \subseteq heap
    BY DEF Range
  <2> DEFINE K == {j \in AliveAt(ws) : ~Readable(mode, ws.entries[j])}
  <2>2. ws'.entries = [j \in DOMAIN ws.entries |->
                         IF j \in K THEN Tombstone(ws.entries[j]) ELSE ws.entries[j]]
    BY DEF ForEach, AfterForEach, killEntries
  <2>3. \A e : ~Tombstone(e).alive
    BY DEF Tombstone
  <2> HIDE DEF K
  <2>4. i \in DOMAIN ws.entries /\ i \notin K /\ ws'.entries[i] = ws.entries[i]
    BY <2>1, <2>2, <2>3
  <2>5. i \in AliveAt(ws) /\ Readable(mode, ws.entries[i])
    BY <2>1, <2>4 DEF AliveAt, K
  <2>6. EntryOK(ws.entries[i])
    BY <2>5 DEF IInv
  <2> QED BY <2>4, <2>5, <2>6, ReadableInHeap
<1>3. held' \subseteq heap
  BY <1>2 DEF ForEach, IInv, Typed
<1> QED BY <1>1, <1>3, KillStep DEF ForEach

\* A step of a traversal, over the list of ws.
LEMMA AdvanceStep ==
  ASSUME IInv, NEW w \in Walks, NEW s, NEW start \in Nat \ {0}, NEW todo, NEW done,
         SameEntries(ws, s), s.iterBound \in Nat, Advance(w, s, start, todo, done)
  PROVE  IInv'
<1> DEFINE i == NextSlot(mode, s, start)
<1>1. ws.entries \in Seq(Entry) /\ held \subseteq heap
  BY DEF IInv, Typed
<1>2. s.entries = ws.entries /\ s.index = ws.index /\ AliveAt(s) = AliveAt(ws)
  BY DEF SameEntries, AliveAt
<1>3. /\ Kills(s, AfterNext(mode, s, start))
      /\ i # 0 => i \in AliveAt(s) /\ Readable(mode, s.entries[i])
  BY <1>1, <1>2, NextKills
<1>4. \A I : SameEntries(killEntries(ws, I), killEntries(s, I))
  BY <1>2 DEF killEntries, SameEntries
<1>5. Kills(ws, ws')
  <2>1. ws' = AfterNext(mode, s, start)
    BY DEF Advance
  <2>2. Kills(s, ws')
    BY <1>3, <2>1
  <2> QED BY <1>2, <1>4, <2>2 DEF Kills, SameEntries
<1>6. ws'.iterBound \in Nat
  BY DEF Advance, AfterNext
<1>7. held' \subseteq heap
  <2>1. CASE i = 0
    BY <1>1, <2>1 DEF Advance
  <2>2. CASE i # 0
    <3>1. EntryOK(s.entries[i]) /\ Readable(mode, s.entries[i])
      BY <1>2, <1>3, <2>2 DEF IInv
    <3>2. held' = held \cup ({s.entries[i].key, s.entries[i].value} \cap Obj)
      BY <2>2 DEF Advance
    <3> QED BY <1>1, <3>1, <3>2, ReadableInHeap
  <2> QED BY <2>1, <2>2
<1> QED BY <1>5, <1>6, <1>7, KillStep DEF Advance

\* next: it clears the entries it finds lost.
LEMMA WalkStep ==
  ASSUME IInv, NEW w \in Walks, Start(w) \/ Step(w)
  PROVE  IInv'
<1>1. ws.entries \in Seq(Entry) /\ ws.iterBound \in Nat /\ Exact(ws)
  BY DEF IInv, Typed
<1>2. CASE Start(w)
  <2>1. SameEntries(ws, Opened(ws)) /\ Opened(ws).iterBound \in Nat
    BY <1>1 DEF SameEntries, Opened
  <2> QED BY <1>2, <2>1, AdvanceStep DEF Start
<1>3. CASE Step(w)
  <2>1. ws.index[LookupKey(mode, walk[w].at)] \in 1 .. Len(ws.entries)
    BY <1>1, <1>3 DEF Step, Exact, AliveAt
  <2>2. ws.index[LookupKey(mode, walk[w].at)] + 1 \in Nat \ {0}
    BY <1>1, <2>1
  <2> QED BY <1>1, <1>3, <2>2, AdvanceStep DEF Step, SameEntries
<1> QED BY <1>2, <1>3

-----------------------------------------------------------------------------
(* Assignments. *)

\* Two keys that can be named have one lookup key only if they are one key.
LEMMA LookupKeyInjective ==
  ASSUME IInv, NEW m, NEW k \in Val, NEW l \in Val,
         IsObj(k) => k \in heap, IsObj(l) => l \in heap,
         LookupKey(m, k) = LookupKey(m, l)
  PROVE  k = l
<1>1. CASE ~WeakKeys(m)
  BY <1>1 DEF LookupKey
<1>2. CASE WeakKeys(m)
  <2>1. CASE IsObj(k) /\ IsObj(l)
    <3>1. k[1] = l[1]
      BY <1>2, <2>1 DEF LookupKey
    <3> QED BY <2>1, <3>1 DEF IInv, OnePerAddress
  <2>2. CASE ~IsObj(k) /\ ~IsObj(l)
    BY <2>2 DEF LookupKey
  <2>3. \A o, p \in Val : IsObj(o) /\ ~IsObj(p) => LookupKey(m, o) # LookupKey(m, p)
    <3>1. SUFFICES ASSUME NEW o \in Val, NEW p \in Val, IsObj(o), ~IsObj(p)
                   PROVE  LookupKey(m, o) # LookupKey(m, p)
      OBVIOUS
    <3>2. LookupKey(m, o) = <<o[1], 0>> /\ LookupKey(m, p) = p
      BY <1>2, <3>1 DEF LookupKey
    <3>3. o[1] \in Addr /\ p[1] = "int"
      BY <3>1 DEF IsObj, Obj, Val, Prim
    <3>4. p # <<o[1], 0>>
      BY <3>3, AddrAssumption
    <3> QED BY <3>2, <3>4
  <2> QED BY <2>1, <2>2, <2>3
<1> QED BY <1>1, <1>2

\* The type of a lookup key.
LEMMA LookupKeyType ==
  ASSUME NEW m, NEW k \in Val
  PROVE  LookupKey(m, k) \in Val \cup (Addr \X {0})
  BY DEF LookupKey, IsObj, Obj

\* An entry that is appended has the type of an entry.
LEMMA NewEntryType ==
  ASSUME NEW m, NEW k \in Val, NEW v \in Val
  PROVE  /\ NewEntry(m, k, v) \in Entry
         /\ NewEntry(m, k, v).key = k /\ NewEntry(m, k, v).value = v
         /\ NewEntry(m, k, v).indexKey = LookupKey(m, k)
         /\ NewEntry(m, k, v).alive
  BY LookupKeyType DEF NewEntry, Entry

\* An entry of another key does not notice an assignment to k.
LEMMA OtherEntry ==
  ASSUME IInv, NEW k \in Val, NEW v, NEW e, EntryOK(e), e.key # k,
         last' = [last EXCEPT ![k] = v], UNCHANGED <<mode, heap, lives>>
  PROVE  EntryOK(e)'
<1>1. e.key \in Val /\ last'[e.key] = last[e.key]
  BY DEF EntryOK, IInv, Typed
<1> QED BY <1>1 DEF EntryOK, Born, KeyIsWeak, ValueIsWeak, entryValue, Reaches

\* The entry under the lookup key of k either holds k or a key that is gone.
LEMMA ThatEntry ==
  ASSUME IInv, NEW k \in Val, IsObj(k) => k \in heap,
         NEW e, EntryOK(e), e.indexKey = LookupKey(mode, k), e.key # k
  PROVE  IsObj(e.key) /\ e.key \notin heap
<1>1. e.key \in Val /\ LookupKey(mode, e.key) = LookupKey(mode, k)
  BY DEF EntryOK
<1>2. SUFFICES ASSUME IsObj(e.key) => e.key \in heap PROVE FALSE
  OBVIOUS
<1> QED BY <1>1, <1>2, LookupKeyInjective

\* An assignment: it updates, deletes, or appends an entry, after a sweep if there are too
\* many tombstones.
LEMMA SetStep ==
  ASSUME IInv, NEW k \in Val, NEW v \in Val, Set(k, v)
  PROVE  IInv'
<1>1. /\ IsObj(k) => k \in heap
      /\ IsObj(v) => v \in heap
      /\ Born(k) /\ Born(v)
  <2>1. {k, v} \subseteq held \cup Prim /\ held \subseteq heap
    BY DEF Set, Nameable, IInv, Typed
  <2>2. \A o \in Prim : ~IsObj(o)
    BY AddrAssumption DEF Prim, IsObj, Obj
  <2>3. /\ IsObj(k) => k \in heap
        /\ IsObj(v) => v \in heap
    BY <2>1, <2>2
  <2> QED BY <2>3 DEF IInv, OnePerAddress, Born
<1>2. /\ last' = [last EXCEPT ![k] = v]
      /\ UNCHANGED <<mode, heap, lives, held>>
  BY DEF Set
<1>3. last'[k] = v /\ last' \in [Val -> Val \cup {Nil}]
  BY <1>2 DEF IInv, Typed
<1>4. OnePerAddress'
  BY <1>2 DEF IInv, OnePerAddress, Born
<1>5. CASE mode = StrongMode
  <2>1. /\ strong' = [x \in DOMAIN strong \cup {k} |-> IF x = k THEN v ELSE strong[x]]
        /\ ws' = ws
    BY <1>5 DEF Set
  <2>2. IsFiniteSet(DOMAIN strong')
    BY <2>1, FS_AddElement DEF IInv, Typed
  <2>3. Typed'
    BY <1>2, <1>3, <2>1, <2>2 DEF IInv, Typed
  <2>4. AliveAt(ws) = {} /\ AliveAt(ws)' = {} /\ Exact(ws)'
    BY <1>5, <2>1 DEF IInv, OneStorage, AliveAt, Exact
  <2>5. ASSUME NEW x \in DOMAIN strong' PROVE PairOK(x, strong[x])'
    <3>1. CASE x = k
      BY <1>1, <1>2, <1>3, <2>1, <3>1 DEF PairOK
    <3>2. CASE x # k
      <4>1. PairOK(x, strong[x]) /\ strong'[x] = strong[x] /\ x \in Val
        BY <2>1, <3>2 DEF IInv, PairOK
      <4>2. last'[x] = last[x]
        BY <1>2, <3>2, <4>1 DEF IInv, Typed
      <4> QED BY <1>2, <4>1, <4>2 DEF PairOK
    <3> QED BY <3>1, <3>2
  <2>6. OneStorage'
    BY <1>2, <1>5, <2>4 DEF OneStorage
  <2> QED BY <1>4, <2>3, <2>4, <2>5, <2>6 DEF IInv
<1>6. CASE mode # StrongMode
  <2> DEFINE x == LookupKey(mode, k)
  <2>1. strong' = strong /\ ws' = Store(mode, ws, k, v) /\ DOMAIN strong = {}
    BY <1>6 DEF Set, IInv, OneStorage
  <2>2. Exact(ws) /\ ws.entries \in Seq(Entry) /\ ws.iterBound \in Nat
    BY DEF IInv, Typed
  <2>3. /\ Exact(ws') /\ ws'.entries \in Seq(Entry) /\ ws'.iterBound \in Nat
        /\ \A i \in AliveAt(ws') : EntryOK(ws.entries[i])'
    <3>1. CASE x \in DOMAIN ws.index
      <4> PICK i : i = ws.index[x]
        OBVIOUS
      <4>1. i \in AliveAt(ws) /\ ws.entries[i].indexKey = x /\ EntryOK(ws.entries[i])
        BY <2>2, <3>1 DEF Exact, IInv
      <4> PICK e : e = [key |-> ws.entries[i].key, value |-> v,
                        indexKey |-> ws.entries[i].indexKey, alive |-> TRUE]
        OBVIOUS
      <4>2. ws' = Update(ws, i, v)
        BY <2>1, <3>1 DEF Store
      <4>3. Exact(ws') /\ AliveAt(ws') = AliveAt(ws)
        BY <2>2, <4>1, <4>2, UpdateExact
      <4>4. ws'.entries = [ws.entries EXCEPT ![i] = e] /\ ws'.iterBound = ws.iterBound
        BY <4>2 DEF Update
      <4>5. ws.entries[i] \in Entry /\ i \in DOMAIN ws.entries
        BY <2>2, <4>1 DEF AliveAt
      <4>6. e \in Entry
        BY <4>5 DEF Entry
      <4>7. ws'.entries \in Seq(Entry)
        BY <2>2, <4>4, <4>5, <4>6
      <4>8. EntryOK(e)'
        <5>1. e.key \in Val /\ Born(e.key) /\ e.value = v
          BY <4>1 DEF EntryOK
        <5>2. e.indexKey = LookupKey(mode, e.key)
          BY <4>1 DEF EntryOK
        <5>3. (IsObj(e.key) /\ ~KeyIsWeak(mode, e)) => e.key \in heap
          BY <4>1 DEF EntryOK, KeyIsWeak
        <5>4. (IsObj(e.key) => e.key \in heap) => e.key = k
          BY <1>1, <4>1, ThatEntry
        <5>5. entryValue(mode, e)' \in {v, Nil}
          BY <1>2, <5>1 DEF entryValue
        <5> QED BY <1>1, <1>2, <1>3, <5>1, <5>2, <5>3, <5>4, <5>5
                DEF EntryOK, Born, KeyIsWeak, ValueIsWeak
      <4>9. ASSUME NEW j \in AliveAt(ws') PROVE EntryOK(ws.entries[j])'
        <5>1. CASE j = i
          BY <4>4, <4>5, <4>8, <5>1
        <5>2. CASE j # i
          <6>1. ws'.entries[j] = ws.entries[j] /\ EntryOK(ws.entries[j])
            BY <4>3, <4>4, <4>9, <5>2 DEF IInv, AliveAt
          <6>2. ws.entries[j].indexKey # x
            BY <2>2, <4>3, <4>9, <5>2 DEF Exact
          <6>3. ws.entries[j].key # k
            BY <6>1, <6>2 DEF EntryOK
          <6> PICK d : d = ws.entries[j]
            OBVIOUS
          <6>4. EntryOK(d)'
            BY <1>2, <6>1, <6>3, OtherEntry
          <6> QED BY <6>1, <6>4
        <5> QED BY <5>1, <5>2
      <4> QED BY <2>2, <4>3, <4>4, <4>7, <4>9
    <3>2. CASE x \notin DOMAIN ws.index
      <4> PICK i : i = FreeSlot(ws)
        OBVIOUS
      <4> PICK e : e = NewEntry(mode, k, v)
        OBVIOUS
      <4>1. i \in 1 .. Len(ws.entries) + 1 /\ i \notin AliveAt(ws)
        BY <2>2, FreeSlotFree
      <4>2. ws' = Insert(mode, ws, i, k, v)
        BY <2>1, <3>2 DEF Store
      <4>3. /\ Exact(ws') /\ ws'.entries[i] = e
            /\ \A j : j \in AliveAt(ws') <=> j \in AliveAt(ws) \/ j = i
            /\ \A j \in AliveAt(ws) : ws'.entries[j] = ws.entries[j]
        BY <2>2, <3>2, <4>1, <4>2, InsertExact
      <4>4. /\ ws'.entries = [j \in DOMAIN ws.entries \cup {i} |->
                               IF j = i THEN e ELSE ws.entries[j]]
            /\ ws'.iterBound = ws.iterBound
        BY <4>2 DEF Insert
      <4>5. /\ e \in Entry /\ e.key = k /\ e.value = v /\ e.indexKey = LookupKey(mode, k)
        BY NewEntryType
      <4>6. ws'.entries \in Seq(Entry)
        <5>1. DOMAIN ws.entries = 1 .. Len(ws.entries) /\ Len(ws.entries) \in Nat
          BY <2>2
        <5>2. \E n \in Nat : DOMAIN ws.entries \cup {i} = 1 .. n
          <6>1. CASE i \in 1 .. Len(ws.entries)
            BY <5>1, <6>1
          <6>2. CASE i = Len(ws.entries) + 1
            BY <5>1, <6>2
          <6> QED BY <4>1, <5>1, <6>1, <6>2
        <5>3. \A j \in DOMAIN ws.entries : ws.entries[j] \in Entry
          BY <2>2
        <5> PICK n \in Nat : DOMAIN ws.entries \cup {i} = 1 .. n
          BY <5>2
        <5>4. ws'.entries = [j \in 1 .. n |-> IF j = i THEN e ELSE ws.entries[j]]
          BY <4>4
        <5>5. \A j \in 1 .. n : (IF j = i THEN e ELSE ws.entries[j]) \in Entry
          BY <4>5, <5>3
        <5> QED BY <5>4, <5>5
      <4>7. EntryOK(e)'
        <5>1. entryValue(mode, e)' \in {v, Nil}
          BY <1>2, <4>5 DEF entryValue
        <5> QED BY <1>1, <1>2, <1>3, <4>5, <5>1 DEF EntryOK, Born, KeyIsWeak, ValueIsWeak
      <4>8. ASSUME NEW j \in AliveAt(ws') PROVE EntryOK(ws.entries[j])'
        <5>1. CASE j = i
          BY <4>3, <4>7, <5>1
        <5>2. CASE j # i
          <6>1. j \in AliveAt(ws) /\ ws'.entries[j] = ws.entries[j] /\ EntryOK(ws.entries[j])
            BY <4>3, <4>8, <5>2 DEF IInv
          <6>2. ws.entries[j].indexKey # x
            BY <2>2, <3>2, <6>1 DEF Exact
          <6>3. ws.entries[j].key # k
            BY <6>1, <6>2 DEF EntryOK
          <6> PICK d : d = ws.entries[j]
            OBVIOUS
          <6>4. EntryOK(d)'
            BY <1>2, <6>1, <6>3, OtherEntry
          <6> QED BY <6>1, <6>4
        <5> QED BY <5>1, <5>2
      <4> QED BY <2>2, <4>3, <4>4, <4>6, <4>8
    <3> QED BY <3>1, <3>2
  <2>4. Typed'
    BY <1>2, <1>3, <2>1, <2>3 DEF IInv, Typed
  <2>5. OneStorage'
    BY <1>2, <1>6, <2>1 DEF OneStorage
  <2>6. Exact(ws)' /\ AliveAt(ws)' = AliveAt(ws')
    BY <2>3 DEF Exact, AliveAt
  <2> QED BY <1>4, <2>1, <2>3, <2>4, <2>5, <2>6 DEF IInv
<1> QED BY <1>5, <1>6

\* clear.
LEMMA ClearStep ==
  ASSUME IInv, NEW k \in Val, Clear(k)
  PROVE  IInv'
<1>1. /\ last' = [last EXCEPT ![k] = Nil]
      /\ UNCHANGED <<mode, heap, lives, held>>
  BY DEF Clear
<1>2. last' \in [Val -> Val \cup {Nil}]
  BY <1>1 DEF IInv, Typed
<1>3. OnePerAddress'
  BY <1>1 DEF IInv, OnePerAddress, Born
<1>4. CASE mode = StrongMode
  <2>1. /\ strong' = [x \in DOMAIN strong \ {k} |-> strong[x]]
        /\ ws' = ws
    BY <1>4 DEF Clear
  <2>2. IsFiniteSet(DOMAIN strong')
    BY <2>1, FS_RemoveElement DEF IInv, Typed
  <2>3. Typed'
    BY <1>1, <1>2, <2>1, <2>2 DEF IInv, Typed
  <2>4. AliveAt(ws) = {} /\ AliveAt(ws)' = {} /\ Exact(ws)'
    BY <1>4, <2>1 DEF IInv, OneStorage, AliveAt, Exact
  <2>5. ASSUME NEW x \in DOMAIN strong' PROVE PairOK(x, strong[x])'
    <3>1. PairOK(x, strong[x]) /\ strong'[x] = strong[x] /\ x \in Val /\ x # k
      BY <2>1 DEF IInv, PairOK
    <3>2. last'[x] = last[x]
      BY <1>1, <3>1 DEF IInv, Typed
    <3> QED BY <1>1, <3>1, <3>2 DEF PairOK
  <2>6. OneStorage'
    BY <1>1, <1>4, <2>4 DEF OneStorage
  <2> QED BY <1>3, <2>3, <2>4, <2>5, <2>6 DEF IInv
<1>5. CASE mode # StrongMode
  <2>1. strong' = strong /\ ws' = Delete(mode, ws, k) /\ DOMAIN strong = {}
    BY <1>5 DEF Clear, IInv, OneStorage
  <2>2. Exact(ws) /\ ws.entries \in Seq(Entry)
    BY DEF IInv, Typed
  <2>3. Kills(ws, ws') /\ LookupKey(mode, k) \notin DOMAIN ws'.index
    BY <2>1, <2>2, DeleteKills
  <2>4. /\ Exact(ws') /\ ws'.entries \in Seq(Entry)
        /\ \A i \in AliveAt(ws') : i \in AliveAt(ws) /\ ws'.entries[i] = ws.entries[i]
    BY <2>2, <2>3, KillsExact
  <2>5. ws'.iterBound \in Nat
    BY <2>1 DEF Delete, killEntries, IInv, Typed
  <2>6. ASSUME NEW i \in AliveAt(ws') PROVE EntryOK(ws.entries[i])'
    <3>1. ws'.entries[i] = ws.entries[i] /\ EntryOK(ws.entries[i])
      BY <2>4 DEF IInv
    <3>2. ws.entries[i].indexKey # LookupKey(mode, k)
      BY <2>3, <2>4, <3>1 DEF Exact
    <3>3. ws.entries[i].key # k
      BY <3>1, <3>2 DEF EntryOK
    <3> PICK d : d = ws.entries[i]
      OBVIOUS
    <3>4. EntryOK(d)'
      BY <1>1, <3>1, <3>3, OtherEntry
    <3> QED BY <3>1, <3>4
  <2>7. Typed'
    BY <1>1, <1>2, <2>1, <2>4, <2>5 DEF IInv, Typed
  <2>8. OneStorage'
    BY <1>1, <1>5, <2>1 DEF OneStorage
  <2>9. Exact(ws)' /\ AliveAt(ws)' = AliveAt(ws')
    BY <2>4 DEF Exact, AliveAt
  <2> QED BY <1>3, <2>1, <2>6, <2>7, <2>8, <2>9 DEF IInv
<1> QED BY <1>4, <1>5

-----------------------------------------------------------------------------
(* The collector. *)

\* It marks every register and every strong reference of the table.
LEMMA MarksRoots ==
  /\ Marked \subseteq heap
  /\ held \cap heap \subseteq Marked
  /\ StoreHolds \cap heap \subseteq Marked
  BY DEF Marked, Registers

\* The collector loses objects.
LEMMA CollectStep ==
  ASSUME IInv, Collect
  PROVE  IInv'
<1>1. /\ heap' = Marked /\ UNCHANGED <<mode, ws, strong, lives, held>>
      /\ last' = [k \in Val |-> IF (IsObj(k) /\ k \notin heap')
                                    \/ (IsObj(last[k]) /\ last[k] \notin heap')
                                 THEN Nil ELSE last[k]]
  BY DEF Collect
<1>2. heap' \subseteq heap /\ held' \subseteq heap' /\ StoreHolds \cap heap \subseteq heap'
  BY <1>1, MarksRoots DEF IInv, Typed
<1>3. last' \in [Val -> Val \cup {Nil}]
  BY <1>1 DEF IInv, Typed
<1>4. Typed'
  BY <1>1, <1>2, <1>3 DEF IInv, Typed
<1>5. OnePerAddress'
  BY <1>1, <1>2 DEF IInv, OnePerAddress, Born
<1>6. AliveAt(ws)' = AliveAt(ws) /\ Exact(ws)'
  BY <1>1 DEF AliveAt, Exact, IInv
<1>7. ASSUME NEW i \in AliveAt(ws) PROVE EntryOK(ws.entries[i])'
  <2> PICK e : e = ws.entries[i]
    OBVIOUS
  <2>1. EntryOK(e)
    BY DEF IInv
  <2>2. e \in Range(ws.entries) /\ e.alive
    BY DEF AliveAt, Range
  <2>3. (IsObj(e.key) /\ ~KeyIsWeak(mode, e)) => e.key \in heap'
    <3>1. ~KeyIsWeak(mode, e) => e.key \in StoreHolds
      BY <2>2 DEF StoreHolds
    <3> QED BY <1>2, <2>1, <3>1 DEF EntryOK
  <2>4. (IsObj(e.value) /\ ~ValueIsWeak(mode, e)) => e.value \in heap'
    <3>1. ~ValueIsWeak(mode, e) => e.value \in StoreHolds
      BY <2>2 DEF StoreHolds
    <3> QED BY <1>2, <2>1, <3>1 DEF EntryOK
  <2>5. ASSUME IsObj(e.key) => e.key \in heap'
        PROVE  entryValue(mode, e)' \in {last'[e.key], Nil}
    <3>1. entryValue(mode, e) \in {last[e.key], Nil} /\ e.key \in Val /\ e.value \in Val
      BY <1>2, <2>1, <2>5 DEF EntryOK
    <3>2. CASE ValueIsWeak(mode, e) /\ ~Reaches(e.value)'
      BY <1>1, <3>2 DEF entryValue, ValueIsWeak
    <3>3. CASE ~(ValueIsWeak(mode, e) /\ ~Reaches(e.value)')
      <4>1. entryValue(mode, e)' = e.value
        BY <1>1, <3>3 DEF entryValue, ValueIsWeak
      <4>2. entryValue(mode, e) = e.value
        BY <1>2, <3>3 DEF entryValue, Reaches
      <4>3. e.value # Nil
        BY <3>1, NilNotVal
      <4>4. last[e.key] = e.value
        BY <3>1, <4>2, <4>3
      <4>5. IsObj(e.value) => e.value \in heap'
        BY <2>4, <3>3 DEF Reaches, ValueIsWeak
      <4>6. last'[e.key] = e.value
        BY <1>1, <2>5, <3>1, <4>4, <4>5
      <4> QED BY <4>1, <4>6
    <3> QED BY <3>2, <3>3
  <2>6. EntryOK(e)'
    BY <1>1, <2>1, <2>3, <2>4, <2>5 DEF EntryOK, Born, KeyIsWeak, ValueIsWeak
  <2> QED BY <1>1, <2>6
<1>8. ASSUME NEW k \in DOMAIN strong' PROVE PairOK(k, strong[k])'
  <2>1. PairOK(k, strong[k]) /\ strong' = strong /\ k \in DOMAIN strong
    BY <1>1 DEF IInv
  <2>2. {k, strong[k]} \subseteq StoreHolds
    BY <2>1 DEF StoreHolds, Range
  <2>3. /\ IsObj(k) => k \in heap'
        /\ IsObj(strong[k]) => strong[k] \in heap'
    BY <1>2, <2>1, <2>2 DEF PairOK
  <2>4. last'[k] = last[k]
    BY <1>1, <2>1, <2>3 DEF PairOK
  <2> QED BY <2>1, <2>3, <2>4 DEF PairOK
<1>9. OneStorage'
  BY <1>1, <1>6 DEF IInv, OneStorage
<1> QED BY <1>1, <1>4, <1>5, <1>6, <1>7, <1>8, <1>9 DEF IInv

-----------------------------------------------------------------------------
(* Changes of mode. *)

\* What migrate takes out of the store is as good as ordinary contents.
LEMMA MigratedOK ==
  ASSUME IInv
  PROVE  /\ IsFiniteSet(DOMAIN Migrated(mode, ws))
         /\ \A k \in DOMAIN Migrated(mode, ws) : PairOK(k, Migrated(mode, ws)[k])
<1> DEFINE live == {i \in AliveAt(ws) : Readable(mode, ws.entries[i])}
           keys == {ws.entries[i].key : i \in live}
           p == Migrated(mode, ws)
<1>1. p = [k \in keys |-> ws.entries[CHOOSE i \in live : ws.entries[i].key = k].value]
  BY DEF Migrated
<1>2. IsFiniteSet(live)
  <2>1. DOMAIN ws.entries = 1 .. Len(ws.entries) /\ Len(ws.entries) \in Int
    BY DEF IInv, Typed
  <2>2. IsFiniteSet(DOMAIN ws.entries)
    BY <2>1, FS_Interval
  <2>3. live \in SUBSET DOMAIN ws.entries
    BY DEF AliveAt
  <2> QED BY <2>2, <2>3, FS_Subset
<1>3. IsFiniteSet(keys)
  <2> DEFINE f == [i \in live |-> ws.entries[i].key]
  <2>1. f \in Surjection(live, keys)
    BY DEF Surjection
  <2> QED BY <1>2, <2>1, FS_Surjection
<1>4. ASSUME NEW k \in keys PROVE PairOK(k, p[k])
  <2> PICK i : i = CHOOSE j \in live : ws.entries[j].key = k
    OBVIOUS
  <2>1. i \in live /\ ws.entries[i].key = k
    BY <1>4
  <2>2. p[k] = ws.entries[i].value
    BY <1>1, <1>4
  <2>3. EntryOK(ws.entries[i]) /\ Readable(mode, ws.entries[i])
    BY <2>1 DEF IInv
  <2>4. k \in Val /\ p[k] \in Val
    BY <2>1, <2>2, <2>3 DEF EntryOK
  <2>5. {k, p[k]} \cap Obj \subseteq heap /\ p[k] = last[k]
    BY <2>1, <2>2, <2>3, ReadableInHeap
  <2> QED BY <2>4, <2>5 DEF PairOK, IsObj
<1> QED BY <1>1, <1>3, <1>4

PairsOK(p) == \A k \in DOMAIN p : PairOK(k, p[k])

\* enableWeakMode builds an exact index, since the keys of the pairs are in
\* the heap, and so at different addresses.
LEMMA EnabledOK ==
  ASSUME IInv, NEW p, PairsOK(p),
         NEW m, NEW n \in Nat, NEW order \in [1 .. n -> DOMAIN p], IsInjective(order)
  PROVE  /\ Exact(Enabled(m, p, order))
         /\ Enabled(m, p, order).entries \in Seq(Entry)
         /\ Enabled(m, p, order).iterBound = 0
         /\ \A i \in AliveAt(Enabled(m, p, order)) :
              \E k \in DOMAIN p : Enabled(m, p, order).entries[i] = NewEntry(m, k, p[k])
<1> DEFINE t == Enabled(m, p, order)
<1>2. DOMAIN order = 1 .. n
  OBVIOUS
<1>3. \A i \in 1 .. n : order[i] \in DOMAIN p
  OBVIOUS
<1>a. \A k \in DOMAIN p : k \in Val /\ p[k] \in Val /\ (IsObj(k) => k \in heap)
  BY DEF PairsOK, PairOK
<1>b. \A i \in 1 .. n : /\ order[i] \in Val
                        /\ p[order[i]] \in Val
                        /\ IsObj(order[i]) => order[i] \in heap
  BY <1>3, <1>a
<1>4. \A i, j \in 1 .. n : LookupKey(m, order[i]) = LookupKey(m, order[j]) => i = j
  <2>1. SUFFICES ASSUME NEW i \in 1 .. n, NEW j \in 1 .. n,
                        LookupKey(m, order[i]) = LookupKey(m, order[j])
                 PROVE  i = j
    OBVIOUS
  <2> PICK k, l : k = order[i] /\ l = order[j]
    OBVIOUS
  <2>2. /\ k \in Val /\ (IsObj(k) => k \in heap)
        /\ l \in Val /\ (IsObj(l) => l \in heap)
    BY <1>b, <2>1
  <2>3. k = l
    BY <2>1, <2>2, LookupKeyInjective
  <2> QED BY <2>3, <1>2 DEF IsInjective
<1>5. /\ t.entries = [i \in 1 .. n |-> NewEntry(m, order[i], p[order[i]])]
      /\ DOMAIN t.index = {LookupKey(m, order[i]) : i \in 1 .. n}
      /\ \A x \in DOMAIN t.index :
           t.index[x] = CHOOSE i \in 1 .. n : LookupKey(m, order[i]) = x
      /\ t.iterBound = 0
  BY <1>2 DEF Enabled
<1> HIDE DEF t
<1>6. \A i \in 1 .. n : t.index[LookupKey(m, order[i])] = i
  BY <1>4, <1>5
<1>7. \A i \in 1 .. n : /\ t.entries[i] = NewEntry(m, order[i], p[order[i]])
                        /\ t.entries[i] \in Entry /\ t.entries[i].alive
                        /\ t.entries[i].indexKey = LookupKey(m, order[i])
  <2>1. SUFFICES ASSUME NEW i \in 1 .. n
                 PROVE  /\ t.entries[i] = NewEntry(m, order[i], p[order[i]])
                        /\ t.entries[i] \in Entry /\ t.entries[i].alive
                        /\ t.entries[i].indexKey = LookupKey(m, order[i])
    OBVIOUS
  <2>0. order[i] \in Val /\ p[order[i]] \in Val
    BY <1>b, <2>1
  <2> PICK k, v : k = order[i] /\ v = p[order[i]]
    OBVIOUS
  <2>2. k \in Val /\ v \in Val
    BY <2>0
  <2>3. t.entries[i] = NewEntry(m, k, v)
    BY <1>5
  <2> QED BY <2>2, <2>3, NewEntryType
<1>8. AliveAt(t) = 1 .. n
  BY <1>5, <1>7 DEF AliveAt
<1>9. t.entries \in Seq(Entry)
  BY <1>5, <1>7
<1>10. Exact(t)
  <2>1. ASSUME NEW x \in DOMAIN t.index
        PROVE  t.index[x] \in AliveAt(t) /\ t.entries[t.index[x]].indexKey = x
    BY <1>5, <1>6, <1>7, <1>8
  <2>2. ASSUME NEW i \in AliveAt(t)
        PROVE  t.entries[i].indexKey \in DOMAIN t.index /\ t.index[t.entries[i].indexKey] = i
    BY <1>5, <1>6, <1>7, <1>8
  <2> QED BY <2>1, <2>2 DEF Exact
<1>11. ASSUME NEW i \in AliveAt(t)
       PROVE  \E k \in DOMAIN p : t.entries[i] = NewEntry(m, k, p[k])
  <2>1. i \in 1 .. n
    BY <1>8
  <2>2. t.entries[i] = NewEntry(m, order[i], p[order[i]]) /\ order[i] \in DOMAIN p
    BY <1>3, <1>7, <2>1
  <2> QED BY <2>2
<1> QED BY <1>5, <1>9, <1>10, <1>11 DEF t

\* The mode changes: the pairs are taken out and assigned again.
LEMMA SetModeStep ==
  ASSUME IInv, NEW m \in Modes \cup {StrongMode}, SetMode(m)
  PROVE  IInv'
<1> PICK p : p = IF mode = StrongMode THEN strong ELSE Migrated(mode, ws)
  OBVIOUS
<1>1. IsFiniteSet(DOMAIN p) /\ \A k \in DOMAIN p : PairOK(k, p[k])
  BY MigratedOK DEF IInv, Typed
<1>2. /\ mode' = m /\ UNCHANGED <<heap, lives, held, last>>
      /\ m \in {StrongMode, "k", "v", "kv"}
  BY ModesAssumption DEF SetMode
<1>3. OnePerAddress'
  BY <1>2 DEF IInv, OnePerAddress, Born
<1>4. CASE m = StrongMode
  <2>1. strong' = p /\ ws' = EmptyStore
    BY <1>4 DEF SetMode
  <2>2. ws'.entries = <<>> /\ ws'.iterBound = 0 /\ DOMAIN ws'.index = {}
    BY <2>1 DEF EmptyStore
  <2>3. AliveAt(ws)' = {} /\ Exact(ws)'
    BY <2>2 DEF AliveAt, Exact
  <2>4. Typed'
    BY <1>1, <1>2, <2>1, <2>2 DEF IInv, Typed
  <2>5. \A k \in DOMAIN strong' : PairOK(k, strong[k])'
    BY <1>1, <1>2, <2>1 DEF PairOK
  <2> QED BY <1>2, <1>3, <1>4, <2>3, <2>4, <2>5 DEF IInv, OneStorage
<1>5. CASE m # StrongMode
  <2>1. PICK order \in SetToSeqs(DOMAIN p) : ws' = Enabled(m, p, order)
    BY <1>5 DEF SetMode
  <2>2. strong' = <<>>
    BY <1>5 DEF SetMode
  <2> PICK n : n = Cardinality(DOMAIN p)
    OBVIOUS
  <2>a. n \in Nat
    BY <1>1, FS_CardinalityType
  <2>b. order \in [1 .. n -> DOMAIN p]
    BY DEF SetToSeqs
  <2>d. IsInjective(order)
    BY DEF SetToSeqs, IsInjective
  <2>c. /\ Exact(Enabled(m, p, order))
        /\ Enabled(m, p, order).entries \in Seq(Entry)
        /\ Enabled(m, p, order).iterBound = 0
        /\ \A i \in AliveAt(Enabled(m, p, order)) :
             \E k \in DOMAIN p : Enabled(m, p, order).entries[i] = NewEntry(m, k, p[k])
    <3>1. PairsOK(p)
      BY <1>1 DEF PairsOK
    <3> QED BY <3>1, <2>a, <2>b, <2>d, EnabledOK
  <2>3. /\ Exact(ws') /\ ws'.entries \in Seq(Entry) /\ ws'.iterBound = 0
        /\ \A i \in AliveAt(ws') :
             \E k \in DOMAIN p : ws'.entries[i] = NewEntry(m, k, p[k])
    BY <2>1, <2>c
  <2>4. DOMAIN strong' = {} /\ IsFiniteSet(DOMAIN strong')
    BY <2>2, FS_EmptySet
  <2>5. Typed'
    BY <1>2, <2>3, <2>4 DEF IInv, Typed
  <2>6. ASSUME NEW i \in AliveAt(ws') PROVE EntryOK(ws.entries[i])'
    <3>1. PICK k \in DOMAIN p : ws'.entries[i] = NewEntry(m, k, p[k])
      BY <2>3
    <3> PICK v : v = p[k]
      OBVIOUS
    <3>2. PairOK(k, v)
      BY <1>1
    <3>3. Born(k) /\ Born(v)
      BY <3>2 DEF PairOK, IInv, OnePerAddress, Born
    <3> PICK e : e = NewEntry(m, k, v)
      OBVIOUS
    <3>4. e.key = k /\ e.value = v /\ e.indexKey = LookupKey(m, k)
      BY DEF NewEntry
    <3>5. entryValue(mode, e)' \in {v, Nil}
      BY <3>4 DEF entryValue
    <3>6. EntryOK(e)'
      BY <1>2, <3>2, <3>3, <3>4, <3>5 DEF EntryOK, PairOK, Born, KeyIsWeak, ValueIsWeak
    <3> QED BY <3>1, <3>6
  <2>7. Exact(ws)' /\ AliveAt(ws)' = AliveAt(ws')
    BY <2>3 DEF Exact, AliveAt
  <2> QED BY <1>2, <1>3, <1>5, <2>4, <2>5, <2>6, <2>7 DEF IInv, OneStorage
<1> QED BY <1>4, <1>5

-----------------------------------------------------------------------------
(* The theorems. *)

\* Every action keeps IInv.
LEMMA StepPreserves == IInv /\ [Next]_vars => IInv'
<1> SUFFICES ASSUME IInv, [Next]_vars PROVE IInv'
  OBVIOUS
<1>1. held \subseteq heap
  BY DEF IInv, Typed
<1>2. CASE UNCHANGED vars
  BY <1>1, <1>2, RegisterStep DEF vars
<1>3. ASSUME NEW a \in Addr, New(a) PROVE IInv'
  BY <1>3, NewStep
<1>4. ASSUME NEW o \in Obj, Drop(o) PROVE IInv'
  BY <1>1, <1>4, RegisterStep DEF Drop
<1>5. ASSUME NEW o \in Obj, NEW q \in Obj \cup {Nil}, SetField(o, q) PROVE IInv'
  BY <1>1, <1>5, RegisterStep DEF SetField
<1>6. ASSUME NEW k \in Val, Get(k) PROVE IInv'
  BY <1>6, GetStep
<1>7. ASSUME NEW k \in Val, NEW v \in Val, Set(k, v) PROVE IInv'
  BY <1>7, SetStep
<1>8. ASSUME NEW k \in Val, Clear(k) PROVE IInv'
  BY <1>8, ClearStep
<1>9. ASSUME NEW m \in Modes \cup {StrongMode}, SetMode(m) PROVE IInv'
  BY <1>9, SetModeStep
<1>10. CASE Length \/ Sweep
  BY <1>10, SweepStep
<1>11. CASE ForEach
  BY <1>11, ForEachStep
<1>12. ASSUME NEW w \in Walks, Start(w) \/ Step(w) PROVE IInv'
  BY <1>12, WalkStep
<1>13. ASSUME NEW w \in Walks, StepFails(w) \/ Abandon(w) PROVE IInv'
  BY <1>1, <1>13, RegisterStep DEF StepFails, Abandon
<1>14. CASE Collect
  BY <1>14, CollectStep
<1> HIDE DEF IInv
<1> QED BY <1>2, <1>3, <1>4, <1>5, <1>6, <1>7, <1>8, <1>9, <1>10, <1>11, <1>12, <1>13, <1>14
        DEF Next

\* The index leads to exactly the alive entries, each under its own lookup
\* key, whatever the program, the collector and the sweeps of other VMs do.
THEOREM IndexIsExact == Spec => []IndexExact
<1>1. IInv => IndexExact
  BY DEF IInv, Exact, IndexExact
<1> QED BY <1>1, InitHolds, StepPreserves, PTL DEF Spec

\* A read answers what was last assigned to that key, or nil, also where an
\* object has taken the address of a collected key, as long as no LuaTable of
\* the host is in play.
THEOREM ReadsOwn == Foreign = {} /\ Spec => []ReadsOwnAssignment
<1>1. ASSUME Foreign = {}, IInv PROVE ReadsOwnAssignment
  <2>1. SUFFICES ASSUME mode # StrongMode, NEW k \in Nameable
                 PROVE  Read(mode, ws, k) \in {last[k], Nil}
    BY DEF ReadsOwnAssignment
  <2>2. k \in Val /\ (IsObj(k) => k \in heap)
    <3>1. held \subseteq heap /\ heap \subseteq Obj
      BY <1>1 DEF IInv, Typed
    <3>2. \A o \in Prim : ~IsObj(o)
      BY AddrAssumption DEF Prim, IsObj, Obj
    <3> QED BY <2>1, <3>1, <3>2 DEF Nameable, Val
  <2> PICK x : x = LookupKey(mode, k)
    OBVIOUS
  <2>3. CASE x \notin DOMAIN ws.index \/ KeyCollected(mode, ws.entries[ws.index[x]])
    BY <2>3 DEF Read
  <2>4. CASE x \in DOMAIN ws.index /\ ~KeyCollected(mode, ws.entries[ws.index[x]])
    <3> PICK e : e = ws.entries[ws.index[x]]
      OBVIOUS
    <3>1. EntryOK(e) /\ e.indexKey = x
      BY <1>1, <2>4 DEF IInv, Exact
    <3>2. Read(mode, ws, k) = entryValue(mode, e)
      BY <2>4 DEF Read
    <3>3. IsObj(e.key) => e.key \in heap
      BY <1>1, <2>4, <3>1 DEF KeyCollected, IsForeign, EntryOK
    <3>4. e.key = k
      BY <1>1, <2>2, <3>1, <3>3, ThatEntry
    <3> QED BY <3>1, <3>2, <3>3, <3>4 DEF EntryOK
  <2> QED BY <2>3, <2>4
<1>2. CASE Foreign = {}
  <2>1. IInv => ReadsOwnAssignment
    BY <1>1, <1>2
  <2>2. Spec => []ReadsOwnAssignment
    BY <2>1, InitHolds, StepPreserves, PTL DEF Spec
  <2> QED BY <2>2
<1> QED BY <1>2

-----------------------------------------------------------------------------
(* ws.dead and the traversals: a second layer of the invariant, over IInv. *)

Counted(s) == s.dead \in Nat /\ s.dead = Cardinality(Tombstones(s))

\* The index has an entry for a key.
Found(m, s, k) == LookupKey(m, k) \in DOMAIN s.index
Slot(m, s, k) == s.index[LookupKey(m, k)]

\* What a traversal that stands at key at has still to return lies ahead of
\* it, inside the window, and what it has returned does not.
Ahead(m, s, at, k) ==
  /\ Found(m, s, at) /\ Found(m, s, k)
  /\ Slot(m, s, at) < Slot(m, s, k) /\ Slot(m, s, k) <= window(s)
  /\ s.entries[Slot(m, s, k)].key = k
Behind(m, s, at, k) ==
  Found(m, s, at) /\ Found(m, s, k) /\ Slot(m, s, k) <= Slot(m, s, at)

WalkOK(m, s, r) ==
  /\ ~r.twice
  /\ ~r.on => r.todo = {} /\ r.done = {}
  /\ r.on => /\ r.at \in Val
             /\ \A k \in r.todo : Ahead(m, s, r.at, k)
             /\ \A k \in r.done : Behind(m, s, r.at, k)

Walk == [on : BOOLEAN, at : Val \cup {Nil}, todo : SUBSET Val,
         done : SUBSET Val, twice : BOOLEAN, failed : BOOLEAN]
WalkType == walk \in [Walks -> Walk]

WInv ==
  /\ mode \in Modes \cup {StrongMode}
  /\ Counted(ws)
  /\ WalkType
  /\ \A w \in Walks : WalkOK(mode, ws, walk[w])

\* A part of the list is finite.
LEMMA ListFinite ==
  ASSUME NEW s, s.entries \in Seq(Entry)
  PROVE  \A T \in SUBSET DOMAIN s.entries : IsFiniteSet(T)
<1>1. DOMAIN s.entries = 1 .. Len(s.entries) /\ Len(s.entries) \in Int
  OBVIOUS
<1>2. IsFiniteSet(DOMAIN s.entries)
  BY <1>1, FS_Interval
<1> QED BY <1>2, FS_Subset

\* Killing alive entries counts each of them once.
LEMMA KillsCounted ==
  ASSUME NEW s, NEW t, s.entries \in Seq(Entry), Counted(s), Kills(s, t)
  PROVE  Counted(t)
<1>1. CASE SameEntries(s, t)
  <2>1. Tombstones(t) = Tombstones(s)
    BY <1>1 DEF SameEntries, Tombstones, AliveAt
  <2> QED BY <1>1, <2>1 DEF SameEntries, Counted
<1>2. ASSUME NEW I \in SUBSET AliveAt(s), SameEntries(killEntries(s, I), t)
      PROVE  Counted(t)
  <2> PICK k : k = killEntries(s, I)
    OBVIOUS
  <2>1. /\ k.entries = [j \in DOMAIN s.entries |->
                          IF j \in I THEN Tombstone(s.entries[j]) ELSE s.entries[j]]
        /\ k.dead = s.dead + Cardinality(I)
    BY DEF killEntries
  <2>2. t.entries = k.entries /\ t.dead = k.dead
    BY <1>2 DEF SameEntries
  <2>3. \A e : ~Tombstone(e).alive
    BY DEF Tombstone
  <2>4. Tombstones(t) = Tombstones(s) \cup I
    BY <2>1, <2>2, <2>3 DEF Tombstones, AliveAt
  <2>5. IsFiniteSet(I) /\ IsFiniteSet(Tombstones(s))
    BY ListFinite DEF AliveAt, Tombstones
  <2>6. Tombstones(s) \cap I = {}
    BY DEF Tombstones
  <2>7. Cardinality(Tombstones(t)) = Cardinality(Tombstones(s)) + Cardinality(I)
    <3>1. Cardinality(Tombstones(s) \cap I) = 0
      BY <2>6, FS_EmptySet
    <3>2. Cardinality(Tombstones(s)) \in Nat /\ Cardinality(I) \in Nat
      BY <2>5, FS_CardinalityType
    <3>3. Cardinality(Tombstones(s) \cup I)
            = Cardinality(Tombstones(s)) + Cardinality(I) - Cardinality(Tombstones(s) \cap I)
      BY <2>5, FS_Union
    <3> QED BY <2>4, <3>1, <3>2, <3>3
  <2>8. Cardinality(I) \in Nat
    BY <2>5, FS_CardinalityType
  <2> QED BY <2>1, <2>2, <2>7, <2>8 DEF Counted
<1> QED BY <1>1, <1>2 DEF Kills

\* An assignment to a new key takes one tombstone, or none.
LEMMA InsertCounted ==
  ASSUME NEW s, NEW m, NEW k, NEW v, s.entries \in Seq(Entry), Counted(s)
  PROVE  Counted(Insert(m, s, FreeSlot(s), k, v))
<1> PICK i : i = FreeSlot(s)
  OBVIOUS
<1> PICK t : t = Insert(m, s, i, k, v)
  OBVIOUS
<1>1. i \in 1 .. Len(s.entries) + 1 /\ i \notin AliveAt(s)
  BY FreeSlotFree
<1>2. /\ DOMAIN t.entries = DOMAIN s.entries \cup {i}
      /\ t.entries[i] = NewEntry(m, k, v)
      /\ \A j \in DOMAIN s.entries : j # i => t.entries[j] = s.entries[j]
      /\ t.dead = IF i \in DOMAIN s.entries THEN s.dead - 1 ELSE s.dead
  BY DEF Insert
<1>3. NewEntry(m, k, v).alive
  BY DEF NewEntry
<1>4. Tombstones(t) = Tombstones(s) \ {i}
  BY <1>2, <1>3 DEF Tombstones, AliveAt
<1>5. IsFiniteSet(Tombstones(s))
  BY ListFinite DEF Tombstones
<1>6. i \in DOMAIN s.entries <=> i \in Tombstones(s)
  BY <1>1 DEF Tombstones
<1>7. Cardinality(Tombstones(t)) = IF i \in Tombstones(s) THEN Cardinality(Tombstones(s)) - 1
                                                          ELSE Cardinality(Tombstones(s))
  <2>1. \A T : IsFiniteSet(T) =>
          Cardinality(T \ {i}) = IF i \in T THEN Cardinality(T) - 1 ELSE Cardinality(T)
    BY FS_RemoveElement
  <2> QED BY <1>4, <1>5, <2>1
<1>8. t.dead = Cardinality(Tombstones(t))
  BY <1>2, <1>6, <1>7 DEF Counted
<1>9. Cardinality(Tombstones(t)) \in Nat
  BY <1>4, <1>5, FS_RemoveElement, FS_CardinalityType
<1> QED BY <1>8, <1>9 DEF Counted

\* What is found after killing was found before, in the same slot, and the list
\* keeps its length.
LEMMA KillsFound ==
  ASSUME NEW s, NEW t, Exact(s), s.entries \in Seq(Entry), Kills(s, t)
  PROVE  /\ Len(t.entries) = Len(s.entries)
         /\ \A m, k : Found(m, t, k) =>
              /\ Found(m, s, k) /\ Slot(m, t, k) = Slot(m, s, k)
              /\ Slot(m, t, k) \in AliveAt(t)
              /\ t.entries[Slot(m, t, k)] = s.entries[Slot(m, s, k)]
<1>1. /\ Exact(t) /\ t.entries \in Seq(Entry)
      /\ \A i \in AliveAt(t) : i \in AliveAt(s) /\ t.entries[i] = s.entries[i]
  BY KillsExact
<1>2. DOMAIN t.entries = DOMAIN s.entries
  BY DEF Kills, SameEntries, killEntries
<1>3. Len(t.entries) = Len(s.entries)
  BY <1>1, <1>2
<1>4. DOMAIN t.index \subseteq DOMAIN s.index
  BY DEF Kills, SameEntries, killEntries
<1>5. \A x \in DOMAIN t.index : t.index[x] = s.index[x]
  BY DEF Kills, SameEntries, killEntries
<1>6. \A x \in DOMAIN t.index : t.index[x] \in AliveAt(t)
  BY <1>1 DEF Exact
<1> QED BY <1>1, <1>3, <1>4, <1>5, <1>6 DEF Found, Slot

\* Neither the end of a traversal, which gives the window up, nor the start of
\* one narrows it.
LEMMA WindowKept ==
  ASSUME NEW s, NEW t, Len(s.entries) \in Nat, Len(t.entries) \in Nat, s.iterBound \in Nat,
         Len(s.entries) <= Len(t.entries),
         t.iterBound \in {0, s.iterBound, Len(s.entries)}
  PROVE  window(s) <= window(t)
  BY DEF window

\* What Lose leaves of a traversal after some entries have been killed.
LEMMA LoseOK ==
  ASSUME NEW s, NEW t, NEW w \in Walks, WalkType, WalkOK(mode, s, walk[w]),
         Exact(s), s.entries \in Seq(Entry), Kills(s, t), window(s) <= window(t),
         window(s) \in Nat, window(t) \in Nat
  PROVE  WalkOK(mode, t, Lose(t)[w])
<1> PICK r : r = walk[w]
  OBVIOUS
<1> PICK q : q = Lose(t)[w]
  OBVIOUS
<1>1. /\ q.on = r.on /\ q.at = r.at /\ q.twice = r.twice
      /\ q.todo = Kept(t, r.at, r.todo) /\ q.done = Kept(t, r.at, r.done)
  BY DEF Lose, WalkType, Walk
<1>2. q.todo \subseteq r.todo /\ q.done \subseteq r.done
  BY <1>1 DEF Kept
<1>3. ASSUME r.on, NEW k \in q.todo \cup q.done
      PROVE  Found(mode, t, r.at) /\ Found(mode, t, k)
  <2>1. r.at # Nil
    BY <1>3, NilNotVal DEF WalkOK
  <2> QED BY <1>1, <1>3, <2>1 DEF Kept, Found
<1>4. \A k : Found(mode, t, k) =>
              /\ Slot(mode, t, k) = Slot(mode, s, k)
              /\ t.entries[Slot(mode, t, k)] = s.entries[Slot(mode, s, k)]
              /\ Slot(mode, s, k) \in Nat
  <2>1. DOMAIN s.entries = 1 .. Len(s.entries)
    OBVIOUS
  <2> QED BY <2>1, KillsFound DEF Found, Slot, Exact, AliveAt
<1>5. ASSUME r.on, NEW k \in q.todo PROVE Ahead(mode, t, r.at, k)
  <2>1. Ahead(mode, s, r.at, k)
    BY <1>2, <1>5 DEF WalkOK
  <2> QED BY <1>3, <1>4, <1>5, <2>1 DEF Ahead
<1>6. ASSUME r.on, NEW k \in q.done PROVE Behind(mode, t, r.at, k)
  <2>1. Behind(mode, s, r.at, k)
    BY <1>2, <1>6 DEF WalkOK
  <2> QED BY <1>3, <1>4, <1>6, <2>1 DEF Behind
<1> QED BY <1>1, <1>2, <1>5, <1>6 DEF WalkOK

-----------------------------------------------------------------------------
(* The steps of the second layer. *)

\* A traversal that is over.
LEMMA IdleWalk ==
  ASSUME NEW f \in BOOLEAN
  PROVE  LET n == [NoWalk EXCEPT !.failed = f]
         IN  n \in Walk /\ ~n.on /\ ~n.twice /\ n.todo = {} /\ n.done = {}
<1>1. NoWalk \in Walk
  BY DEF NoWalk, Walk
<1>2. [NoWalk EXCEPT !.failed = f] \in Walk
  BY <1>1, Zenon DEF Walk
<1>3. ~NoWalk.on /\ ~NoWalk.twice /\ NoWalk.todo = {} /\ NoWalk.done = {}
  BY DEF NoWalk
<1>4. /\ [NoWalk EXCEPT !.failed = f].on = NoWalk.on
      /\ [NoWalk EXCEPT !.failed = f].twice = NoWalk.twice
      /\ [NoWalk EXCEPT !.failed = f].todo = NoWalk.todo
      /\ [NoWalk EXCEPT !.failed = f].done = NoWalk.done
  BY <1>1 DEF Walk
<1> QED BY <1>2, <1>3, <1>4

\* A step that leaves the store alone, and every traversal but one that ends.
LEMMA SameStore ==
  ASSUME WInv, UNCHANGED <<mode, ws>>,
         \/ walk' = walk
         \/ \E v \in Walks : \E n \in Walk :
              /\ walk' = [walk EXCEPT ![v] = n]
              /\ ~n.on /\ ~n.twice /\ n.todo = {} /\ n.done = {}
  PROVE  WInv'
<1>1. Counted(ws)' /\ mode' \in Modes \cup {StrongMode}
  BY DEF WInv, Counted, Tombstones, AliveAt
<1>2. \A r : WalkOK(mode, ws, r)' <=> WalkOK(mode, ws, r)
  BY DEF WalkOK, Ahead, Behind, Found, Slot, window
<1>3. CASE walk' = walk
  BY <1>1, <1>2, <1>3 DEF WInv, WalkType
<1>4. ASSUME NEW v \in Walks, NEW n \in Walk, walk' = [walk EXCEPT ![v] = n],
             ~n.on, ~n.twice, n.todo = {}, n.done = {}
      PROVE  WInv'
  <2>1. WalkOK(mode, ws, n)
    BY <1>4 DEF WalkOK
  <2>2. WalkType'
    BY <1>4 DEF WInv, WalkType
  <2>3. \A w \in Walks : WalkOK(mode, ws, walk'[w])
    BY <1>4, <2>1 DEF WInv, WalkType
  <2>4. \A w \in Walks : WalkOK(mode, ws, walk[w])'
    BY <2>3 DEF WalkOK, Ahead, Behind, Found, Slot, window
  <2> QED BY <1>1, <2>2, <2>4 DEF WInv
<1> QED BY <1>3, <1>4

\* Lose keeps the type of the traversals.
LEMMA LoseType == \A t : WalkType => Lose(t) \in [Walks -> Walk]
<1> SUFFICES ASSUME NEW t, WalkType PROVE Lose(t) \in [Walks -> Walk]
  OBVIOUS
<1>1. \A at, keys : Kept(t, at, keys) \subseteq keys
  BY DEF Kept
<1> QED BY <1>1 DEF Lose, WalkType, Walk

\* A step that kills entries.
LEMMA KillingStep ==
  ASSUME IInv, WInv, Kills(ws, ws'), ws'.iterBound = ws.iterBound, mode' = mode,
         walk' = Lose(ws')
  PROVE  WInv'
<1>1. Exact(ws) /\ ws.entries \in Seq(Entry) /\ ws.iterBound \in Nat
  BY DEF IInv, Typed
<1>2. Counted(ws')
  BY <1>1, KillsCounted DEF WInv
<1>3. Len(ws'.entries) = Len(ws.entries) /\ Len(ws.entries) \in Nat
  BY <1>1, KillsFound
<1>4. window(ws) <= window(ws') /\ window(ws) \in Nat /\ window(ws') \in Nat
  BY <1>1, <1>3 DEF window
<1>5. \A w \in Walks : WalkOK(mode, ws', Lose(ws')[w])
  BY <1>1, <1>4, LoseOK DEF WInv
<1>6. \A w \in Walks : WalkOK(mode, ws, walk[w])'
  BY <1>5 DEF WalkOK, Ahead, Behind, Found, Slot, window
<1>7. WalkType'
  BY LoseType DEF WInv, WalkType
<1>8. Counted(ws)'
  BY <1>2 DEF Counted, Tombstones, AliveAt
<1> QED BY <1>6, <1>7, <1>8 DEF WInv

\* An assignment leaves every entry its slot and its key.
LEMMA SetKeeps ==
  ASSUME IInv, WInv, NEW k \in Val, NEW v \in Val, Set(k, v)
  PROVE  WInv'
<1>1. Exact(ws) /\ ws.entries \in Seq(Entry) /\ ws.iterBound \in Nat
  BY DEF IInv, Typed
<1>2. mode' = mode /\ walk' = walk
  BY DEF Set
<1>3. CASE mode = StrongMode
  <2>1. ws' = ws
    BY <1>3 DEF Set
  <2> QED BY <1>2, <2>1, SameStore
<1>4. CASE mode # StrongMode
  <2> PICK x : x = LookupKey(mode, k)
    OBVIOUS
  <2>1. ws' = Store(mode, ws, k, v)
    BY <1>4 DEF Set
  <2>2. /\ Counted(ws')
        /\ ws'.entries \in Seq(Entry)
        /\ Len(ws.entries) <= Len(ws'.entries) /\ ws'.iterBound = ws.iterBound
        /\ \A y \in DOMAIN ws.index : /\ y \in DOMAIN ws'.index /\ ws'.index[y] = ws.index[y]
                                      /\ ws'.entries[ws.index[y]].key = ws.entries[ws.index[y]].key
    <3>1. CASE x \in DOMAIN ws.index
      <4> PICK i : i = ws.index[x]
        OBVIOUS
      <4>1. i \in AliveAt(ws) /\ i \in DOMAIN ws.entries /\ ws.entries[i].alive
        BY <1>1, <3>1 DEF Exact, AliveAt
      <4> PICK e : e = [key |-> ws.entries[i].key, value |-> v,
                        indexKey |-> ws.entries[i].indexKey, alive |-> TRUE]
        OBVIOUS
      <4>2. ws' = Update(ws, i, v)
        BY <2>1, <3>1 DEF Store
      <4>3. /\ ws'.entries = [ws.entries EXCEPT ![i] = e] /\ ws'.iterBound = ws.iterBound
            /\ ws'.index = ws.index /\ ws'.dead = ws.dead
        BY <4>1, <4>2 DEF Update
      <4>4. e.alive /\ e.key = ws.entries[i].key
        OBVIOUS
      <4>5. Tombstones(ws') = Tombstones(ws)
        BY <4>1, <4>3, <4>4 DEF Tombstones, AliveAt
      <4>6. ws.entries[i] \in Entry
        BY <1>1, <4>1
      <4>7. e \in Entry
        BY <4>6 DEF Entry
      <4>8. ws'.entries \in Seq(Entry) /\ Len(ws'.entries) = Len(ws.entries)
        BY <1>1, <4>1, <4>3, <4>7
      <4>9. \A j \in DOMAIN ws.entries : ws'.entries[j].key = ws.entries[j].key
        BY <4>1, <4>3, <4>4
      <4>10. \A y \in DOMAIN ws.index : ws.index[y] \in DOMAIN ws.entries
        BY <1>1 DEF Exact, AliveAt
      <4>11. Counted(ws')
        BY <4>3, <4>5 DEF Counted, WInv
      <4>12. Len(ws.entries) \in Nat
        BY <1>1
      <4>13. Len(ws.entries) <= Len(ws'.entries)
        BY <4>8, <4>12
      <4>14. ASSUME NEW y \in DOMAIN ws.index
             PROVE  /\ y \in DOMAIN ws'.index /\ ws'.index[y] = ws.index[y]
                    /\ ws'.entries[ws.index[y]].key = ws.entries[ws.index[y]].key
        BY <4>3, <4>9, <4>10
      <4> QED BY <4>3, <4>8, <4>11, <4>13, <4>14
    <3>2. CASE x \notin DOMAIN ws.index
      <4> PICK i : i = FreeSlot(ws)
        OBVIOUS
      <4>1. i \in 1 .. Len(ws.entries) + 1 /\ i \notin AliveAt(ws)
        BY <1>1, FreeSlotFree
      <4>2. ws' = Insert(mode, ws, i, k, v)
        BY <2>1, <3>2 DEF Store
      <4>3. Counted(ws')
        BY <1>1, <4>2, InsertCounted DEF WInv
      <4>4. /\ DOMAIN ws'.entries = DOMAIN ws.entries \cup {i}
            /\ \A j \in DOMAIN ws.entries : j # i => ws'.entries[j] = ws.entries[j]
            /\ DOMAIN ws'.index = DOMAIN ws.index \cup {x}
            /\ \A y \in DOMAIN ws.index : ws'.index[y] = ws.index[y]
            /\ ws'.iterBound = ws.iterBound
        BY <3>2, <4>2 DEF Insert
      <4>5. ws'.entries \in Seq(Entry)
        <5>1. IInv'
          BY SetStep
        <5> QED BY <5>1 DEF IInv, Typed
      <4>6. Len(ws.entries) <= Len(ws'.entries)
        <5>1. /\ DOMAIN ws.entries = 1 .. Len(ws.entries) /\ Len(ws.entries) \in Nat
              /\ DOMAIN ws'.entries = 1 .. Len(ws'.entries) /\ Len(ws'.entries) \in Nat
          BY <1>1, <4>5
        <5>2. Len(ws.entries) # 0 => Len(ws.entries) \in 1 .. Len(ws'.entries)
          BY <4>4, <5>1
        <5> QED BY <5>1, <5>2
      <4>7. \A y \in DOMAIN ws.index : ws.index[y] \in DOMAIN ws.entries /\ ws.index[y] # i
        BY <1>1, <4>1 DEF Exact, AliveAt
      <4> QED BY <4>3, <4>4, <4>5, <4>6, <4>7
    <3> QED BY <3>1, <3>2
  <2>3. window(ws) <= window(ws') /\ window(ws) \in Nat /\ window(ws') \in Nat
    <3>1. Len(ws.entries) \in Nat /\ Len(ws'.entries) \in Nat
      BY <1>1, <2>2
    <3> QED BY <1>1, <2>2, <3>1 DEF window
  <2>4. \A l : Found(mode, ws, l) => /\ Found(mode, ws', l)
                                     /\ Slot(mode, ws', l) = Slot(mode, ws, l)
                                     /\ Slot(mode, ws, l) \in Nat
                                     /\ ws'.entries[Slot(mode, ws', l)].key
                                          = ws.entries[Slot(mode, ws, l)].key
    <3>1. \A y \in DOMAIN ws.index : ws.index[y] \in Nat
      <4>1. DOMAIN ws.entries = 1 .. Len(ws.entries) /\ Len(ws.entries) \in Nat
        BY <1>1
      <4> QED BY <1>1, <4>1 DEF Exact, AliveAt
    <3> QED BY <2>2, <3>1 DEF Found, Slot
  <2>5. \A at, l : /\ Ahead(mode, ws, at, l) => Ahead(mode, ws', at, l)
                   /\ Behind(mode, ws, at, l) => Behind(mode, ws', at, l)
    BY <2>3, <2>4 DEF Ahead, Behind
  <2>6. \A w \in Walks : WalkOK(mode, ws', walk[w])
    BY <2>5 DEF WInv, WalkOK
  <2>7. \A w \in Walks : WalkOK(mode, ws, walk[w])'
    BY <1>2, <2>6 DEF WalkOK, Ahead, Behind, Found, Slot, window
  <2>8. Counted(ws)'
    BY <2>2 DEF Counted, Tombstones, AliveAt
  <2> QED BY <1>2, <2>7, <2>8 DEF WInv, WalkType
<1> QED BY <1>3, <1>4

\* A step of a traversal kills every alive entry it passes, and reaches one
\* inside the window.
LEMMA NextPasses ==
  ASSUME NEW s, NEW m, NEW start \in Nat \ {0}, s.entries \in Seq(Entry),
         s.iterBound \in Nat, NEW t, t = AfterNext(m, s, start)
  PROVE  /\ t.iterBound = IF NextSlot(m, s, start) = 0 THEN 0 ELSE s.iterBound
         /\ NextSlot(m, s, start) = 0 =>
              \A p \in start .. window(s) : ~t.entries[p].alive
         /\ NextSlot(m, s, start) # 0 =>
              /\ NextSlot(m, s, start) \in start .. window(s)
              /\ \A p \in start .. NextSlot(m, s, start) - 1 : ~t.entries[p].alive
              /\ t.entries[NextSlot(m, s, start)] = s.entries[NextSlot(m, s, start)]
<1> PICK i : i = NextSlot(m, s, start)
  OBVIOUS
<1>1. DOMAIN s.entries = 1 .. Len(s.entries) /\ Len(s.entries) \in Nat
  OBVIOUS
<1>2. window(s) \in Nat /\ window(s) <= Len(s.entries)
  BY <1>1 DEF window
<1>3. Hits(m, s, start) \in SUBSET Nat
  BY <1>2 DEF Hits
<1>4. i # 0 => i \in Hits(m, s, start)
  <2>1. CASE Hits(m, s, start) = {}
    BY <2>1 DEF NextSlot
  <2>2. CASE Hits(m, s, start) # {}
    <3>1. \E j \in Hits(m, s, start) : \A l \in Hits(m, s, start) : j <= l
      BY <1>3, <2>2, MinExists
    <3> QED BY <2>2, <3>1 DEF NextSlot
  <2> QED BY <2>1, <2>2
<1> PICK stop : stop = IF i = 0 THEN window(s) + 1 ELSE i
  OBVIOUS
<1> PICK I : I = {p \in start .. stop - 1 : s.entries[p].alive}
  OBVIOUS
<1>5. i # 0 => i \in start .. window(s)
  BY <1>4 DEF Hits
<1>6. stop \in Nat /\ stop - 1 <= Len(s.entries)
  BY <1>2, <1>5
<1>7. /\ t.entries = [p \in DOMAIN s.entries |->
                        IF p \in I THEN Tombstone(s.entries[p]) ELSE s.entries[p]]
      /\ t.iterBound = IF i = 0 THEN 0 ELSE s.iterBound
  BY DEF AfterNext, killEntries
<1>8. \A e : ~Tombstone(e).alive
  BY DEF Tombstone
<1>9. \A p \in start .. stop - 1 : ~t.entries[p].alive
  <2>1. SUFFICES ASSUME NEW p \in start .. stop - 1 PROVE ~t.entries[p].alive
    OBVIOUS
  <2>2. p \in DOMAIN s.entries
    BY <1>1, <1>6
  <2>3. t.entries[p] = IF p \in I THEN Tombstone(s.entries[p]) ELSE s.entries[p]
    BY <1>7, <2>2
  <2> QED BY <1>8, <2>3
<1>10. i # 0 => i \notin I /\ i \in DOMAIN s.entries
  BY <1>1, <1>2, <1>5, <1>6
<1>11. i # 0 => t.entries[i] = s.entries[i]
  BY <1>7, <1>10
<1>12. i = 0 => stop - 1 = window(s)
  BY <1>2
<1> QED BY <1>5, <1>7, <1>9, <1>11, <1>12

\* One step of a traversal, which is owed todo from slot start on and has
\* returned what lies before it.
LEMMA AdvanceKeeps ==
  ASSUME IInv, WInv, NEW w \in Walks, NEW s, NEW start \in Nat \ {0},
         NEW todo \in SUBSET Val, NEW done \in SUBSET Val,
         SameEntries(ws, s), s.iterBound \in Nat, window(ws) <= window(s),
         \A k \in todo : /\ Found(mode, s, k)
                         /\ start <= Slot(mode, s, k) /\ Slot(mode, s, k) <= window(s)
                         /\ s.entries[Slot(mode, s, k)].key = k,
         \A k \in done : Found(mode, s, k) /\ Slot(mode, s, k) < start,
         Advance(w, s, start, todo, done)
  PROVE  WInv'
<1> PICK i : i = NextSlot(mode, s, start)
  OBVIOUS
<1> PICK t : t = AfterNext(mode, s, start)
  OBVIOUS
<1> PICK o : o = s.entries[i].key
  OBVIOUS
<1>1. /\ Exact(ws) /\ ws.entries \in Seq(Entry) /\ ws.iterBound \in Nat
      /\ s.entries = ws.entries /\ s.index = ws.index /\ s.dead = ws.dead
      /\ AliveAt(s) = AliveAt(ws) /\ Tombstones(s) = Tombstones(ws)
  BY DEF IInv, Typed, SameEntries, AliveAt, Tombstones
<1>2. Exact(s) /\ Counted(s)
  BY <1>1 DEF Exact, Counted, WInv
<1>3. /\ Kills(s, t)
      /\ i # 0 => i \in AliveAt(s) /\ Readable(mode, s.entries[i])
  BY <1>1, NextKills
<1>4. /\ t.iterBound = IF i = 0 THEN 0 ELSE s.iterBound
      /\ i = 0 => \A p \in start .. window(s) : ~t.entries[p].alive
      /\ i # 0 => /\ i \in start .. window(s)
                  /\ \A p \in start .. i - 1 : ~t.entries[p].alive
                  /\ t.entries[i] = s.entries[i]
  BY <1>1, NextPasses
<1>5. /\ Exact(t) /\ t.entries \in Seq(Entry) /\ Counted(t)
  BY <1>1, <1>2, <1>3, KillsExact, KillsCounted
<1>6. /\ Len(t.entries) = Len(s.entries)
      /\ \A k : Found(mode, t, k) =>
           /\ Found(mode, s, k) /\ Slot(mode, t, k) = Slot(mode, s, k)
           /\ Slot(mode, t, k) \in AliveAt(t)
           /\ t.entries[Slot(mode, t, k)] = s.entries[Slot(mode, s, k)]
  BY <1>1, <1>2, <1>3, KillsFound
<1>7. DOMAIN s.entries = 1 .. Len(s.entries) /\ Len(s.entries) \in Nat
  BY <1>1
<1>8. window(s) \in Nat /\ window(t) \in Nat /\ window(s) <= window(t)
      /\ (i # 0 => window(t) = window(s))
  BY <1>4, <1>6, <1>7 DEF window
<1>9. \A k : Found(mode, t, k) => Slot(mode, t, k) \in Nat /\ t.entries[Slot(mode, t, k)].alive
  BY <1>1, <1>2, <1>6, <1>7 DEF AliveAt, Found, Slot, Exact
<1>10. /\ ws' = t /\ mode' = mode
       /\ IF i = 0
          THEN walk' = [Lose(t) EXCEPT ![w] = [NoWalk EXCEPT !.todo = Kept(t, Nil, todo)]]
          ELSE walk' = [Lose(t) EXCEPT ![w] =
                          [on |-> TRUE, at |-> o, todo |-> Kept(t, Nil, todo) \ {o},
                           done |-> Kept(t, Nil, done) \cup {o}, twice |-> o \in done,
                           failed |-> FALSE]]
  BY DEF Advance
<1>11. \A keys : Kept(t, Nil, keys) = {k \in keys : Found(mode, t, k)}
  BY DEF Kept, Found
\* The other traversals.
<1>12. ASSUME NEW v \in Walks PROVE WalkOK(mode, t, Lose(t)[v])
  <2>1. WalkOK(mode, s, walk[v])
    <3>1. window(ws) \in Nat /\ \A k : Found(mode, ws, k) => Slot(mode, ws, k) \in Nat
      BY <1>1, <1>7 DEF window, Found, Slot, Exact, AliveAt
    <3>2. \A k : /\ Found(mode, s, k) <=> Found(mode, ws, k)
                 /\ Slot(mode, s, k) = Slot(mode, ws, k)
      BY <1>1 DEF Found, Slot
    <3>3. \A at, k : /\ Ahead(mode, ws, at, k) => Ahead(mode, s, at, k)
                     /\ Behind(mode, ws, at, k) => Behind(mode, s, at, k)
      BY <1>1, <1>8, <3>1, <3>2 DEF Ahead, Behind
    <3>4. WalkOK(mode, ws, walk[v])
      BY DEF WInv
    <3> QED BY <3>3, <3>4 DEF WalkOK
  <2>2. WalkType
    BY DEF WInv
  <2>3. s.entries \in Seq(Entry)
    BY <1>1
  <2> QED BY <1>2, <1>3, <1>8, <2>1, <2>2, <2>3, LoseOK
\* This traversal.
<1> PICK n : n = walk'[w]
  OBVIOUS
<1>13. Lose(t) \in [Walks -> Walk]
  BY LoseType DEF WInv
<1>14. WalkOK(mode, t, n) /\ n \in Walk
  <2>1. CASE i = 0
    <3>1. n = [NoWalk EXCEPT !.todo = Kept(t, Nil, todo)]
      BY <1>10, <1>13, <2>1
    <3>2. n = [on |-> FALSE, at |-> Nil, todo |-> Kept(t, Nil, todo), done |-> {},
               twice |-> FALSE, failed |-> FALSE]
      BY <3>1 DEF NoWalk
    <3>3. ASSUME NEW k \in Kept(t, Nil, todo) PROVE FALSE
      <4>1. k \in todo /\ Found(mode, t, k)
        BY <1>11, <3>3
      <4>2. Slot(mode, t, k) \in start .. window(s)
        BY <1>6, <1>8, <1>9, <4>1
      <4> QED BY <1>4, <1>9, <2>1, <4>1, <4>2
    <3>4. Kept(t, Nil, todo) = {}
      BY <3>3
    <3> QED BY <3>2, <3>4 DEF WalkOK, Walk
  <2>2. CASE i # 0
    <3>1. n = [on |-> TRUE, at |-> o, todo |-> Kept(t, Nil, todo) \ {o},
               done |-> Kept(t, Nil, done) \cup {o}, twice |-> o \in done, failed |-> FALSE]
      BY <1>10, <1>13, <2>2
    <3>2. i \in AliveAt(ws) /\ EntryOK(s.entries[i])
      BY <1>1, <1>3, <2>2 DEF IInv
    <3>3. o \in Val /\ s.entries[i].indexKey = LookupKey(mode, o)
      BY <3>2 DEF EntryOK
    <3>4. i \in AliveAt(t) /\ t.entries[i] = s.entries[i]
      BY <1>3, <1>4, <1>6, <1>7, <1>5, <2>2 DEF AliveAt
    <3>5. Found(mode, t, o) /\ Slot(mode, t, o) = i
      BY <1>5, <3>3, <3>4 DEF Found, Slot, Exact
    <3>6. i \in Nat /\ start <= i /\ i <= window(t)
      BY <1>4, <1>8, <2>2
    <3>7. ASSUME NEW k \in n.todo PROVE Ahead(mode, t, o, k)
      <4>1. k \in todo /\ Found(mode, t, k) /\ k # o
        BY <1>11, <3>1, <3>7
      <4>2. /\ start <= Slot(mode, t, k) /\ Slot(mode, t, k) <= window(t)
            /\ t.entries[Slot(mode, t, k)].key = k /\ Slot(mode, t, k) \in Nat
        BY <1>6, <1>8, <1>9, <2>2, <4>1
      <4>3. Slot(mode, t, k) \notin start .. i - 1
        BY <1>4, <1>9, <2>2, <4>1
      <4>4. Slot(mode, t, k) # i
        BY <3>4, <4>1, <4>2
      <4> QED BY <3>5, <3>6, <4>1, <4>2, <4>3, <4>4 DEF Ahead
    <3>8. ASSUME NEW k \in n.done PROVE Behind(mode, t, o, k)
      <4>1. CASE k = o
        BY <3>5, <3>6, <4>1 DEF Behind
      <4>2. CASE k # o
        <5>1. k \in done /\ Found(mode, t, k)
          BY <1>11, <3>1, <3>8, <4>2
        <5>2. Slot(mode, t, k) < start /\ Slot(mode, t, k) \in Nat
          BY <1>6, <1>9, <5>1
        <5> QED BY <3>5, <3>6, <5>1, <5>2 DEF Behind
      <4> QED BY <4>1, <4>2
    <3>9. o \notin done
      <4>1. Slot(mode, s, o) = i
        BY <1>6, <3>5
      <4> QED BY <3>6, <4>1
    <3>10. n.todo \in SUBSET Val /\ n.done \in SUBSET Val
      BY <1>11, <3>1, <3>3
    <3>11. n = [on |-> TRUE, at |-> o, todo |-> n.todo, done |-> n.done, twice |-> FALSE,
                failed |-> FALSE]
      <4>1. (o \in done) = FALSE
        BY <3>9
      <4>2. n = [on |-> TRUE, at |-> o, todo |-> Kept(t, Nil, todo) \ {o},
                 done |-> Kept(t, Nil, done) \cup {o}, twice |-> FALSE, failed |-> FALSE]
        BY <3>1, <4>1, Zenon
      <4> QED BY <4>2
    <3>12. n \in Walk
      <4> PICK td, dn : td = n.todo /\ dn = n.done
        OBVIOUS
      <4>1. n = [on |-> TRUE, at |-> o, todo |-> td, done |-> dn, twice |-> FALSE,
                 failed |-> FALSE]
        BY <3>11, Zenon
      <4>2. td \in SUBSET Val /\ dn \in SUBSET Val /\ o \in Val \cup {Nil}
        BY <3>3, <3>10
      <4> QED BY <4>1, <4>2 DEF Walk
    <3>13. WalkOK(mode, t, n)
      <4>1. n.on /\ n.at = o /\ ~n.twice
        BY <3>11
      <4> QED BY <3>3, <3>7, <3>8, <4>1 DEF WalkOK
    <3> QED BY <3>12, <3>13
  <2> QED BY <2>1, <2>2
<1>15. walk' = [Lose(t) EXCEPT ![w] = n]
  BY <1>10, <1>13
<1>16. WalkType'
  BY <1>13, <1>14, <1>15 DEF WalkType
<1>17. \A v \in Walks : WalkOK(mode, t, walk'[v])
  BY <1>12, <1>13, <1>14, <1>15
<1>18. \A v \in Walks : WalkOK(mode, ws, walk[v])'
  BY <1>10, <1>17 DEF WalkOK, Ahead, Behind, Found, Slot, window
<1>19. Counted(ws)'
  BY <1>5, <1>10 DEF Counted, Tombstones, AliveAt
<1> QED BY <1>10, <1>16, <1>18, <1>19 DEF WInv

\* next(t, nil) and next(t, k).
LEMMA WalksAdvance ==
  ASSUME IInv, WInv, NEW w \in Walks, Start(w) \/ Step(w)
  PROVE  WInv'
<1>1. Exact(ws) /\ ws.entries \in Seq(Entry) /\ ws.iterBound \in Nat
  BY DEF IInv, Typed
<1>2. DOMAIN ws.entries = 1 .. Len(ws.entries) /\ Len(ws.entries) \in Nat
  BY <1>1
<1>3. CASE Start(w)
  <2> PICK s : s = Opened(ws)
    OBVIOUS
  <2> PICK todo : todo = {ws.entries[i].key : i \in {j \in AliveAt(ws) :
                                                       Readable(mode, ws.entries[j])}}
    OBVIOUS
  <2>1. Advance(w, s, 1, todo, {})
    BY <1>3 DEF Start
  <2>2. /\ SameEntries(ws, s) /\ s.iterBound \in Nat /\ s.iterBound = Len(ws.entries)
        /\ s.entries = ws.entries /\ s.index = ws.index
    BY <1>2 DEF Opened, SameEntries
  <2>3. window(s) = Len(ws.entries) /\ window(ws) <= window(s)
    BY <1>1, <1>2, <2>2 DEF window
  <2>4. ASSUME NEW k \in todo
        PROVE  /\ k \in Val /\ Found(mode, s, k)
               /\ 1 <= Slot(mode, s, k) /\ Slot(mode, s, k) <= window(s)
               /\ s.entries[Slot(mode, s, k)].key = k
    <3>1. PICK i \in AliveAt(ws) : ws.entries[i].key = k
      BY <2>4
    <3>2. k \in Val /\ ws.entries[i].indexKey = LookupKey(mode, k)
      BY <3>1 DEF IInv, EntryOK
    <3>3. Found(mode, ws, k) /\ Slot(mode, ws, k) = i
      BY <1>1, <3>1, <3>2 DEF Exact, Found, Slot
    <3>4. i \in 1 .. Len(ws.entries)
      BY <1>2 DEF AliveAt
    <3> QED BY <1>2, <2>2, <2>3, <3>1, <3>2, <3>3, <3>4 DEF Found, Slot
  <2>5. todo \in SUBSET Val /\ {} \in SUBSET Val
    BY <2>4
  <2>6. /\ \A k \in todo : /\ Found(mode, s, k)
                            /\ 1 <= Slot(mode, s, k) /\ Slot(mode, s, k) <= window(s)
                            /\ s.entries[Slot(mode, s, k)].key = k
        /\ \A k \in {} : Found(mode, s, k) /\ Slot(mode, s, k) < 1
    BY <2>4
  <2> QED BY <2>1, <2>2, <2>3, <2>5, <2>6, AdvanceKeeps
<1>4. CASE Step(w)
  <2> PICK r : r = walk[w]
    OBVIOUS
  <2> PICK p : p = Slot(mode, ws, r.at)
    OBVIOUS
  <2>1. r.on /\ Found(mode, ws, r.at) /\ Advance(w, ws, p + 1, r.todo, r.done)
    BY <1>4 DEF Step, Found, Slot
  <2>2. p \in Nat
    BY <1>1, <1>2, <2>1 DEF Exact, AliveAt, Found, Slot
  <2>3. p + 1 \in Nat \ {0}
    BY <2>2
  <2>4. r.todo \in SUBSET Val /\ r.done \in SUBSET Val
    BY DEF WInv, WalkType, Walk
  <2>5. \A k : Found(mode, ws, k) => Slot(mode, ws, k) \in Nat
    BY <1>1, <1>2 DEF Exact, AliveAt, Found, Slot
  <2>6. \A k \in r.todo : /\ Found(mode, ws, k)
                          /\ p + 1 <= Slot(mode, ws, k) /\ Slot(mode, ws, k) <= window(ws)
                          /\ ws.entries[Slot(mode, ws, k)].key = k
    BY <2>1, <2>2, <2>5 DEF WInv, WalkOK, Ahead
  <2>7. \A k \in r.done : Found(mode, ws, k) /\ Slot(mode, ws, k) < p + 1
    BY <2>1, <2>2, <2>5 DEF WInv, WalkOK, Behind
  <2>8. SameEntries(ws, ws) /\ window(ws) <= window(ws)
    BY <1>1, <1>2 DEF SameEntries, window
  <2> QED BY <1>1, <2>1, <2>3, <2>4, <2>6, <2>7, <2>8, AdvanceKeeps
<1> QED BY <1>3, <1>4

\* The empty store has no tombstone and no traversal.
LEMMA InitWalks == Init => WInv
<1> SUFFICES ASSUME Init PROVE WInv
  OBVIOUS
<1>1. ws.entries = <<>> /\ ws.dead = 0 /\ mode = StrongMode
  BY DEF Init, EmptyStore
<1>2. Tombstones(ws) = {}
  BY <1>1 DEF Tombstones
<1>3. Counted(ws)
  BY <1>1, <1>2, FS_EmptySet DEF Counted
<1>4. NoWalk = [on |-> FALSE, at |-> Nil, todo |-> {}, done |-> {}, twice |-> FALSE,
                failed |-> FALSE]
  BY DEF NoWalk
<1>5. \A w \in Walks : WalkOK(mode, ws, walk[w])
  BY <1>4 DEF Init, WalkOK
<1>6. WalkType
  BY <1>4 DEF Init, WalkType, Walk
<1> QED BY <1>1, <1>3, <1>5, <1>6 DEF WInv

\* A change of mode ends every traversal and counts afresh.
LEMMA SetModeWalks ==
  ASSUME IInv, WInv, NEW m \in Modes \cup {StrongMode}, SetMode(m)
  PROVE  WInv'
<1>1. mode' = m /\ walk' = [w \in Walks |-> NoWalk]
  BY DEF SetMode
<1>2. ws'.dead = 0 /\ Tombstones(ws') = {}
  <2>1. CASE m = StrongMode
    <3>1. ws' = EmptyStore
      BY <2>1 DEF SetMode
    <3> QED BY <3>1 DEF EmptyStore, Tombstones
  <2>2. CASE m # StrongMode
    <3> PICK p : p = IF mode = StrongMode THEN strong ELSE Migrated(mode, ws)
      OBVIOUS
    <3>1. PICK order \in SetToSeqs(DOMAIN p) : ws' = Enabled(m, p, order)
      BY <2>2 DEF SetMode
    <3>2. /\ ws'.entries = [i \in DOMAIN order |-> NewEntry(m, order[i], p[order[i]])]
          /\ ws'.dead = 0
      BY <3>1 DEF Enabled
    <3>3. \A k, v : NewEntry(m, k, v).alive
      BY DEF NewEntry
    <3> QED BY <3>2, <3>3 DEF Tombstones, AliveAt
  <2> QED BY <2>1, <2>2
<1>3. Counted(ws)'
  <2>1. Cardinality(Tombstones(ws')) = 0
    BY <1>2, FS_EmptySet
  <2> QED BY <1>2, <2>1 DEF Counted, Tombstones, AliveAt
<1>4. NoWalk = [on |-> FALSE, at |-> Nil, todo |-> {}, done |-> {}, twice |-> FALSE,
                failed |-> FALSE]
  BY DEF NoWalk
<1>5. \A w \in Walks : WalkOK(mode, ws, walk[w])'
  BY <1>1, <1>4 DEF WalkOK
<1>6. WalkType'
  BY <1>1, <1>4 DEF WalkType, Walk
<1> QED BY <1>1, <1>3, <1>5, <1>6 DEF WInv

\* Every action keeps the second layer.
LEMMA WalksStep == IInv /\ WInv /\ [Next]_vars => WInv'
<1> SUFFICES ASSUME IInv, WInv, [Next]_vars PROVE WInv'
  OBVIOUS
<1>1. Exact(ws) /\ mode \in Modes \cup {StrongMode}
  BY DEF IInv, WInv
<1>2. CASE UNCHANGED vars
  BY <1>2, SameStore DEF vars
<1>3. ASSUME NEW a \in Addr, New(a) PROVE WInv'
  BY <1>3, SameStore DEF New
<1>4. ASSUME NEW o \in Obj, Drop(o) PROVE WInv'
  BY <1>4, SameStore DEF Drop
<1>5. ASSUME NEW o \in Obj, NEW q \in Obj \cup {Nil}, SetField(o, q) PROVE WInv'
  BY <1>5, SameStore DEF SetField
<1>6. ASSUME NEW k \in Val, Get(k) PROVE WInv'
  <2>1. Kills(ws, ws') /\ ws'.iterBound = ws.iterBound
    <3>1. CASE mode = StrongMode
      BY <1>6, <3>1 DEF Get, Kills, SameEntries
    <3>2. CASE mode # StrongMode
      <4>1. ws' = AfterGet(mode, ws, k)
        BY <1>6, <3>2 DEF Get
      <4>2. AfterGet(mode, ws, k).iterBound = ws.iterBound
        BY DEF AfterGet, killEntries
      <4> QED BY <1>1, <4>1, <4>2, GetKills
    <3> QED BY <3>1, <3>2
  <2> QED BY <1>6, <2>1, KillingStep DEF Get
<1>7. ASSUME NEW k \in Val, NEW v \in Val, Set(k, v) PROVE WInv'
  BY <1>7, SetKeeps
<1>8. ASSUME NEW k \in Val, Clear(k) PROVE WInv'
  <2>1. CASE mode = StrongMode
    BY <1>8, <2>1, SameStore DEF Clear
  <2>2. CASE mode # StrongMode
    <3>1. ws' = Delete(mode, ws, k) /\ walk' = Lose(ws') /\ mode' = mode
      BY <1>8, <2>2 DEF Clear
    <3>2. Delete(mode, ws, k).iterBound = ws.iterBound
      BY DEF Delete, killEntries
    <3>3. Kills(ws, Delete(mode, ws, k))
      BY <1>1, DeleteKills
    <3> QED BY <3>1, <3>2, <3>3, KillingStep
  <2> QED BY <2>1, <2>2
<1>9. ASSUME NEW m \in Modes \cup {StrongMode}, SetMode(m) PROVE WInv'
  BY <1>9, SetModeWalks
<1>10. CASE Length
  <2> PICK k : k = <<"int", Border(mode, ws) + 1>>
    OBVIOUS
  <2>1. ws' = Delete(mode, ws, k) /\ walk' = Lose(ws') /\ mode' = mode
    BY <1>10 DEF Length, AfterLength
  <2>2. Delete(mode, ws, k).iterBound = ws.iterBound
    BY DEF Delete, killEntries
  <2>3. Kills(ws, Delete(mode, ws, k))
    BY <1>1, DeleteKills
  <2> QED BY <2>1, <2>2, <2>3, KillingStep
<1>11. CASE ForEach
  <2>1. ws' = AfterForEach(mode, ws) /\ walk' = Lose(ws') /\ mode' = mode
    BY <1>11 DEF ForEach
  <2>2. AfterForEach(mode, ws).iterBound = ws.iterBound
    BY DEF AfterForEach, killEntries
  <2> QED BY <2>1, <2>2, ForEachKills, KillingStep
<1>12. ASSUME NEW w \in Walks, Start(w) \/ Step(w) PROVE WInv'
  BY <1>12, WalksAdvance
<1>13. ASSUME NEW w \in Walks, StepFails(w) \/ Abandon(w) PROVE WInv'
  <2>1. CASE StepFails(w)
    BY <2>1, SameStore, IdleWalk DEF StepFails
  <2>2. CASE Abandon(w)
    <3>1. NoWalk \in Walk /\ ~NoWalk.on /\ ~NoWalk.twice /\ NoWalk.todo = {} /\ NoWalk.done = {}
      BY DEF NoWalk, Walk
    <3> QED BY <2>2, <3>1, SameStore DEF Abandon
  <2> QED BY <1>13, <2>1, <2>2
<1>14. CASE Collect
  BY <1>14, SameStore DEF Collect
<1>15. CASE Sweep
  <2>1. ws' = AfterSweep(mode, ws) /\ walk' = Lose(ws') /\ mode' = mode
    BY <1>15 DEF Sweep
  <2>2. AfterSweep(mode, ws).iterBound = ws.iterBound
    BY DEF AfterSweep, killEntries
  <2> QED BY <2>1, <2>2, SweepKills, KillingStep
<1> QED
  <2> HIDE DEF IInv, WInv
  <2> QED BY <1>2, <1>3, <1>4, <1>5, <1>6, <1>7, <1>8, <1>9, <1>10, <1>11, <1>12, <1>13, <1>14,
             <1>15 DEF Next

\* ws.dead is the number of tombstones, whatever operations, traversals, sweeps
\* and changes of mode have done to the list: set finds a free slot by it, and
\* sweep and forEach decide by it whether they need to look (weak_store.go:162,
\* :333, :367).
THEOREM DeadIsExact == Spec => []DeadExact
<1>1. IInv /\ WInv => DeadExact
  <2> SUFFICES ASSUME IInv, WInv PROVE DeadExact
    OBVIOUS
  <2>1. DOMAIN strong \subseteq Val /\ Range(strong) \subseteq Val
    BY DEF IInv, PairOK, Range
  <2>2. TypeOK
    BY <2>1 DEF IInv, Typed, WInv, Counted, TypeOK
  <2> QED BY <2>2 DEF WInv, Counted, Tombstones, DeadExact
<1> QED BY <1>1, InitHolds, StepPreserves, InitWalks, WalksStep, PTL DEF Spec

\* A traversal of a weak table that comes to its end has returned every pair
\* that could be read when it began and whose entry was not lost meanwhile, and
\* no entry twice, however many traversals share the window and whatever the
\* program assigns and the collector takes between two steps
\* (weak_store.go:242-297).
THEOREM TraversalsExact == Spec => []TraversalExact
<1>1. IInv /\ WInv => TraversalExact
  BY DEF WInv, WalkOK, TraversalExact
<1> QED BY <1>1, InitHolds, StepPreserves, InitWalks, WalksStep, PTL DEF Spec

=============================================================================
