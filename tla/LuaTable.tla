------------------------------ MODULE LuaTable -------------------------------
(***************************************************************************)
(* One ordinary Lua table (vm/table.go): an array part, the storage maps   *)
(* of the hash part, the ordered keys slice with its tombstones, the two   *)
(* lazily built indexes over that slice, the promotion of integer keys     *)
(* into the array, and the traversals that next() resumes from the key it  *)
(* is handed.  A table belongs to one VM at a time, so an operation is one *)
(* action; what interleaves are the operations of the program: the steps   *)
(* of several traversals, the assignments of their bodies, the fields of a *)
(* constructor.                                                            *)
(*                                                                         *)
(* The string store (sstr, then strHash), intHash and hash hold disjoint   *)
(* kinds of keys and are one function here, hash.  Its general part never  *)
(* holds an integer: Set normalises every number that is one.  Slots count *)
(* from 1, as in TLA+ sequences, and 0 says "none".                        *)
(*                                                                         *)
(* The definitions named Bug... are seeded faults: wrong variants of the   *)
(* definition that follows each, which one of the properties must catch.   *)
(***************************************************************************)
EXTENDS Integers, Sequences, SequencesExt, FiniteSets, FiniteSetsExt, Functions

CONSTANTS Nil,
          Over,               \* no key: next() answered nil, or no traversal
          Failed,             \* no key: next() raised "invalid key to 'next'"
          IntKeys,            \* integers used as keys
          StrKeys,            \* strings used as keys
          OtherKeys,          \* booleans, floats and objects used as keys
          Val,                \* the values assigned, nil apart
          Walks,              \* traversals that may be in flight at once
          Hints,              \* array sizes a table is created for
          Rooms,              \* array sizes a host asks for later
          MaxListed,          \* bound: positional fields of a constructor
          NilFields,          \* whether a constructor's keyed field may be nil
          deadIndexThreshold, keyIndexThreshold, promoteMinHash, maxTableEntries,
          maxVicinity,        \* slots the length walks before it bisects
          maxInt              \* the largest Go int

Key == IntKeys \cup StrKeys \cup OtherKeys

ASSUME KeysAssumption == /\ IntKeys \subseteq Int
                         /\ \A k \in IntKeys : k >= -(maxInt + 1) /\ k <= maxInt
                         /\ (StrKeys \cup OtherKeys) \cap Int = {}
                         /\ 1 .. MaxListed \subseteq IntKeys
ASSUME ValAssumption == Nil \notin Val /\ {Over, Failed} \cap Key = {} /\ Over /= Failed
ASSUME BoundsAssumption == {MaxListed} \cup Hints \cup Rooms \subseteq Nat /\ NilFields \in BOOLEAN
ASSUME ThresholdAssumption ==
  {deadIndexThreshold, keyIndexThreshold, promoteMinHash, maxTableEntries, maxVicinity,
   maxInt} \subseteq Nat

VARIABLES
  tbl,     \* the Table
  listed,  \* the constructor's positional fields so far, 0 - 1 once it is done
  walk     \* the traversals: the key each was handed last, and what it promises

vars == <<tbl, listed, walk>>

-----------------------------------------------------------------------------
(* The ordered keys and their tombstones. *)

NoDeadIndex == [on |-> FALSE, keys |-> {}, scan |-> 1]
NoKeyIndex == [on |-> FALSE, slot |-> <<>>]

NewTableWithSize(narray) ==
  [array |-> <<>>, cap |-> narray, hash |-> <<>>, keys |-> <<>>, deadKeys |-> 0,
   dead |-> NoDeadIndex, kidx |-> NoKeyIndex, noPromote |-> 0,
   iterBound |-> 0, iterShape |-> 0, iterCur |-> 0]

alive(t, k) == k \in DOMAIN t.hash
Least(I) == IF I = {} THEN 0 ELSE Min(I)
Store(t, k, v) == [t EXCEPT !.hash = [x \in DOMAIN @ \cup {k} |-> IF x = k THEN v ELSE @[x]]]
Unstore(t, K) == [t EXCEPT !.hash = Restrict(@, DOMAIN @ \ K)]

\* deadKeys++ and markDeadStr, markDeadInt, markDeadOther.
NoteDead(d, k, scan) ==
  IF d.on THEN [on |-> TRUE, keys |-> d.keys \cup {k}, scan |-> scan] ELSE d
BugMarkDead(t, k) ==
  [t EXCEPT !.deadKeys = @ + 1, !.dead = NoteDead(t.dead, k, t.dead.scan)]
MarkDead(t, k) ==
  [t EXCEPT !.deadKeys = @ + 1, !.dead = NoteDead(t.dead, k, 1)]

dropDeadKey(t) ==
  [t EXCEPT !.deadKeys = @ - 1, !.dead = IF t.deadKeys = 1 THEN NoDeadIndex ELSE @]

\* The first deadKeys tombstones.  The caller has stored the string it inserts
\* before it asks, so that string (pending) is taken for a tombstone by name.
buildDeadIndex(t, pending) ==
  LET found == {i \in DOMAIN t.keys : t.keys[i] \in pending \/ ~alive(t, t.keys[i])}
      first == {i \in found : Cardinality({j \in found : j <= i}) <= t.deadKeys}
  IN  [t EXCEPT !.dead = [on |-> TRUE, keys |-> {t.keys[i] : i \in first}, scan |-> 1]]

\* reviveDeadStr, reviveDeadInt, reviveDeadOther: the tombstone of the key that
\* is inserted counts as live again and keeps its slot.  On a short slice, and
\* near the front of a long one, the slot is looked for without the index.
ReviveDead(t, k, pending) ==
  LET near == \E i \in DOMAIN t.keys : i <= deadIndexThreshold /\ t.keys[i] = k
      d == IF t.dead.on THEN t ELSE buildDeadIndex(t, pending)
  IN  CASE ~t.dead.on /\ near -> [found |-> TRUE, t |-> [t EXCEPT !.deadKeys = @ - 1]]
        [] ~t.dead.on /\ ~near /\ Len(t.keys) <= deadIndexThreshold ->
             [found |-> FALSE, t |-> t]
        [] OTHER ->
             [found |-> k \in d.dead.keys,
              t |-> IF k \in d.dead.keys
                    THEN dropDeadKey([d EXCEPT !.dead = [on |-> TRUE, keys |-> @.keys \ {k}, scan |-> @.scan]])
                    ELSE d]

\* The slot index, if there is one: slot i is key k's, and the keys gone have none.
NoteSlot(x, gone, k, i) ==
  IF x.on
  THEN [on |-> TRUE, slot |-> [y \in (DOMAIN x.slot \ gone) \cup {k} |->
                                 IF y = k THEN i ELSE x.slot[y]]]
  ELSE x

appendKey(t, k) ==
  [t EXCEPT !.keys = Append(@, k), !.kidx = NoteSlot(@, {}, k, Len(t.keys) + 1)]

BugTakeKeySlot(t, i, k) == [t EXCEPT !.keys[i] = k]
takeKeySlot(t, i, k) ==
  [t EXCEPT !.keys[i] = k, !.kidx = NoteSlot(@, {t.keys[i]}, k, i)]

\* A new key takes the first tombstone's slot, or a slot of its own: on a short
\* slice the slots are probed, on a long one the index knows them.
takeProbedSlot(t, k) ==
  LET i == Least({j \in DOMAIN t.keys : ~alive(t, t.keys[j])})
  IN  IF i = 0 THEN appendKey(t, k)
      ELSE [takeKeySlot(t, i, k) EXCEPT !.deadKeys = @ - 1]

takeKnownSlot(t, k) ==
  LET i == Least({j \in DOMAIN t.keys : j >= t.dead.scan /\ t.keys[j] \in t.dead.keys})
  IN  IF i = 0 THEN appendKey(t, k)
      ELSE dropDeadKey([takeKeySlot(t, i, k) EXCEPT
                          !.dead = [on |-> TRUE, keys |-> @.keys \ {t.keys[i]}, scan |-> i + 1]])

reuseOrAppendKey(t, k) ==
  CASE t.deadKeys <= 0 -> appendKey(t, k)
    [] t.deadKeys > 0 /\ ~t.dead.on /\ Len(t.keys) <= deadIndexThreshold -> takeProbedSlot(t, k)
    [] OTHER -> takeKnownSlot(IF t.dead.on THEN t ELSE buildDeadIndex(t, {}), k)

\* The slot of a key that becomes live: its own tombstone's, or another.
BugAddKey(t, k, pending) == reuseOrAppendKey(t, k)
AddKey(t, k, pending) ==
  LET r == ReviveDead(t, k, pending)
  IN  IF t.deadKeys <= 0 THEN reuseOrAppendKey(t, k)
      ELSE IF r.found THEN r.t ELSE reuseOrAppendKey(r.t, k)

-----------------------------------------------------------------------------
(* Where a key is: the cursor hint, the slot index, the scan. *)

keyIndexOf(t) ==
  [on |-> TRUE,
   slot |-> [k \in Range(t.keys) |-> CHOOSE i \in DOMAIN t.keys :
               t.keys[i] = k /\ \A j \in DOMAIN t.keys : t.keys[j] = k => j <= i]]

BugScanForSlot(t, k) ==
  Least({i \in DOMAIN t.keys : (i <= t.iterBound \/ t.iterBound = 0) /\ t.keys[i] = k})
scanForSlot(t, k) == Least({i \in DOMAIN t.keys : t.keys[i] = k})
indexedSlot(t, k, x) ==
  IF k \in DOMAIN x.slot /\ x.slot[k] \in DOMAIN t.keys /\ t.keys[x.slot[k]] = k
  THEN x.slot[k] ELSE 0
AtCursor(t, k) == t.iterCur \in DOMAIN t.keys /\ t.keys[t.iterCur] = k

SlotBy(t, k, x) ==
  CASE AtCursor(t, k) -> t.iterCur
    [] ~AtCursor(t, k) /\ indexedSlot(t, k, x) /= 0 -> indexedSlot(t, k, x)
    [] OTHER -> scanForSlot(t, k)

keySlot(t, k) == SlotBy(t, k, t.kidx)

\* A traversal step builds the slot index when the hint does not answer.
Indexed(t, k) ==
  IF ~AtCursor(t, k) /\ ~t.kidx.on /\ Len(t.keys) > keyIndexThreshold
  THEN [t EXCEPT !.kidx = keyIndexOf(t)] ELSE t

-----------------------------------------------------------------------------
(* The array part. *)

\* Go's append doubles a full backing array of this size.
GoAppendCap(t) == IF Len(t.array) < t.cap THEN t.cap ELSE IF t.cap = 0 THEN 1 ELSE 2 * t.cap
growArrayForAppend(t) ==
  IF Len(t.array) = t.cap /\ t.cap < 64
  THEN [t EXCEPT !.cap = IF @ = 0 THEN 4 ELSE 4 * @] ELSE t
AppendArray(t, v) == [t EXCEPT !.array = Append(@, v), !.cap = GoAppendCap(t)]

Filled(array) == {i \in DOMAIN array : array[i] /= Nil}
shrinkArray(t) == [t EXCEPT !.array = SubSeq(@, 1, Max(Filled(@) \cup {0}))]

\* The slot of a key whose value has just moved to the array: gone if it is the
\* last one, else a tombstone.
removeLiveKey(t, k) ==
  LET i == keySlot(t, k) IN
  CASE i = 0 -> t
    [] i /= 0 /\ i = Len(t.keys) ->
         [t EXCEPT !.keys = Front(@),
                   !.kidx = IF @.on
                            THEN [on |-> TRUE, slot |-> Restrict(@.slot, DOMAIN @.slot \ {k})]
                            ELSE @]
    [] OTHER ->
         [t EXCEPT !.deadKeys = @ + 1,
                   !.dead = NoteDead(@, k, IF i < @.scan THEN i ELSE @.scan)]

dropAllDeadKeys(t) ==
  IF t.deadKeys = 0 \/ t.deadKeys /= Len(t.keys) THEN t
  ELSE [t EXCEPT !.keys = <<>>, !.deadKeys = 0, !.dead = NoDeadIndex, !.kidx = NoKeyIndex,
                 !.iterBound = 0, !.iterShape = 0, !.iterCur = 0]

\* One pass of the loop of rehashToArray: the integer that continues the array.
MoveNext(t) ==
  LET k == Len(t.array) + 1
  IN  IF k \in DOMAIN t.hash /\ k <= maxTableEntries
      THEN removeLiveKey(Unstore(AppendArray(t, t.hash[k]), {k}), k)
      ELSE t

\* The table after n passes: once nothing continues the array, they change nothing.
Rehashing(t) ==
  LET passes[n \in 0 .. Cardinality(DOMAIN t.hash)] ==
        IF n = 0 THEN t ELSE MoveNext(passes[n - 1])
  IN  passes

rehashToArray(t) ==
  LET u == Rehashing(t)[Cardinality(DOMAIN t.hash)]
  IN  IF Len(u.array) = Len(t.array) \/ Len(u.array) >= maxTableEntries
      THEN u ELSE dropAllDeadKeys(u)

\* The keys that are not in K, in their order.
Without(keys, K) ==
  LET kept == {i \in DOMAIN keys : keys[i] \notin K}
      nth(n) == CHOOSE i \in kept : Cardinality({j \in kept : j <= i}) = n
  IN  [n \in 1 .. Cardinality(kept) |-> keys[nth(n)]]

\* Every integer key of 1 .. size leaves the ordered keys: a live one for the
\* array, a tombstone for good.
promoteIntKeysTo(t, size) ==
  LET covered == {i \in DOMAIN t.keys : t.keys[i] \in 1 .. size}
      deadLeft == t.deadKeys - Cardinality({i \in covered : ~alive(t, t.keys[i])})
      moved == {t.keys[i] : i \in covered} \cap DOMAIN t.hash
  IN  rehashToArray(
        [Unstore(t, moved) EXCEPT
           !.array = [i \in 1 .. size |-> IF i \in moved THEN t.hash[i]
                                          ELSE IF i <= Len(t.array) THEN t.array[i] ELSE Nil],
           !.cap = size,
           !.keys = Without(@, 1 .. size),
           !.deadKeys = deadLeft,
           !.dead = IF @.on /\ deadLeft > 0
                    THEN [on |-> TRUE, keys |-> @.keys \ (1 .. size), scan |-> 1]
                    ELSE NoDeadIndex,
           !.kidx = NoKeyIndex,
           !.noPromote = 0])

Powers2 == {2 ^ b : b \in 0 .. maxTableEntries} \cap (1 .. maxTableEntries)

\* The largest power of two of which more than half would be occupied.
PromotedSize(t) ==
  LET used == (DOMAIN t.hash \cap (1 .. maxTableEntries)) \cup Filled(t.array)
  IN  Max({0} \cup {s \in Powers2 : 2 * Cardinality(used \cap (1 .. s)) > s})

maybePromoteIntKeys(t) ==
  LET n == Cardinality(DOMAIN t.hash \cap IntKeys)
  IN  CASE n < promoteMinHash \/ n \notin {2 ^ b : b \in 0 .. n} \/ n <= t.noPromote -> t
        [] OTHER -> IF PromotedSize(t) <= Len(t.array)
                    THEN [t EXCEPT !.noPromote = n]
                    ELSE promoteIntKeysTo(t, PromotedSize(t))

-----------------------------------------------------------------------------
(* Reading and writing. *)

Get(t, k) ==
  IF k \in DOMAIN t.array THEN t.array[k] ELSE IF alive(t, k) THEN t.hash[k] ELSE Nil

\* setStrHash, setIntHash, setHash: a string is stored before its slot is found,
\* the others after.
SetHash(t, k, v) ==
  CASE v = Nil /\ ~alive(t, k) -> t
    [] v = Nil /\ alive(t, k) -> MarkDead(Unstore(t, {k}), k)
    [] v /= Nil /\ alive(t, k) -> Store(t, k, v)
    [] v /= Nil /\ ~alive(t, k) ->
         CASE k \in StrKeys -> AddKey(Store(t, k, v), k, {k})
           [] k \in IntKeys -> maybePromoteIntKeys(Store(AddKey(t, k, {}), k, v))
           [] k \in OtherKeys -> Store(AddKey(t, k, {}), k, v)

Appends(t, k, v) == k = Len(t.array) + 1 /\ v /= Nil /\ ~alive(t, k)
OutOfMemory(t, k, v) == Appends(t, k, v) /\ Len(t.array) >= maxTableEntries

\* Set and SetInt.  updateHashResidentInt is the first disjunct of SetHash: an
\* index the hash part holds stays there when it is assigned.
SetTable(t, k, v) ==
  CASE k \in DOMAIN t.array ->
         IF v = Nil THEN shrinkArray([t EXCEPT !.array[k] = Nil]) ELSE [t EXCEPT !.array[k] = v]
    [] OutOfMemory(t, k, v) -> t
    [] Appends(t, k, v) /\ ~OutOfMemory(t, k, v) ->
         rehashToArray(AppendArray(growArrayForAppend(t), v))
    [] OTHER -> SetHash(t, k, v)

Grown(t, n) ==
  [t EXCEPT !.array = [i \in 1 .. n |-> IF i <= Len(@) THEN @[i] ELSE Nil],
            !.cap = IF n > @ THEN n ELSE @]

MoveCovered(t, k) ==
  removeLiveKey(Unstore([t EXCEPT !.array[k] = t.hash[k]], {k}), k)

\* absorbHashIndices meets the covered keys in the order of a Go map: the table
\* after n of them.
Absorbing(t, order) ==
  LET passes[n \in 0 .. Len(order)] ==
        IF n = 0 THEN t ELSE MoveCovered(passes[n - 1], order[n])
  IN  passes

absorbHashIndices(t, order) ==
  IF order = <<>> THEN t ELSE dropAllDeadKeys(Absorbing(t, order)[Len(order)])

\* OP_SETLIST: the values of offset, offset + 1, ...
BugSetList(t, offset, vs) ==
  LET needed == offset + Len(vs) - 1
      u == IF needed > Len(t.array) THEN [Grown(t, needed) EXCEPT !.cap = needed] ELSE t
  IN  [u EXCEPT !.array = [i \in DOMAIN @ |-> IF i \in offset .. needed THEN vs[i - offset + 1]
                                              ELSE @[i]]]
WriteField(t, i, v) == SetHash([t EXCEPT !.array[i] = v], i, Nil)

\* The table after n of the values have been written.
Listing(t, offset, vs) ==
  LET passes[n \in 0 .. Len(vs)] ==
        IF n = 0 THEN t ELSE WriteField(passes[n - 1], offset + n - 1, vs[n])
  IN  passes

SetList(t, offset, vs) ==
  LET needed == offset + Len(vs) - 1
      u == IF needed > Len(t.array) THEN [Grown(t, needed) EXCEPT !.cap = needed] ELSE t
  IN  Listing(u, offset, vs)[Len(vs)]

-----------------------------------------------------------------------------
(* The length. *)

\* The positions that hold a value.
Positions(t) == {i \in DOMAIN t.array \cup (DOMAIN t.hash \cap IntKeys) : Get(t, i) /= Nil}

\* One pass of a binary search of the array: lo is 0 or in P, hi is not in P.  Their
\* sum does not wrap around, for a slice in memory is far shorter than maxInt.
Halve(P, b) ==
  LET mid == (b.lo + b.hi) \div 2
  IN  CASE b.hi - b.lo <= 1 -> b
        [] b.hi - b.lo > 1 /\ mid \in P -> [lo |-> mid, hi |-> b.hi]
        [] b.hi - b.lo > 1 /\ mid \notin P -> [lo |-> b.lo, hi |-> mid]

Halving(P, lo, hi) ==
  LET passes[n \in 0 .. hi] == IF n = 0 THEN [lo |-> lo, hi |-> hi] ELSE Halve(P, passes[n - 1])
  IN  passes

Bisect(P, lo, hi) == Halving(P, lo, hi)[hi].lo

\* One pass of the probe of the hash part: on from hi to twice as far while hi is
\* in P, and to maxInt at most.
Double(P, b) ==
  CASE b.hi \notin P -> b
    [] b.hi \in P /\ b.hi > maxInt \div 2 -> [lo |-> b.hi, hi |-> maxInt]
    [] b.hi \in P /\ b.hi <= maxInt \div 2 -> [lo |-> b.hi, hi |-> 2 * b.hi]

Doubling(P, lo, hi) ==
  LET passes[n \in 0 .. maxInt] ==
        IF n = 0 THEN [lo |-> lo, hi |-> hi] ELSE Double(P, passes[n - 1])
  IN  passes

\* The sum or the difference of two Go ints, which wraps around once at most, and
\* Go's division by 2, which truncates.
Wrapped(n) ==
  CASE n > maxInt -> n - 2 * (maxInt + 1)
    [] n < -(maxInt + 1) -> n + 2 * (maxInt + 1)
    [] OTHER -> n
Half(n) == IF n >= 0 THEN n \div 2 ELSE -((-n) \div 2)

\* One pass of the binary search of the hash part, whose ends may be any Go ints.
HalveInt(P, b) ==
  LET mid == Half(Wrapped(b.lo + b.hi))
      gap == Wrapped(b.hi - b.lo)
  IN  CASE gap <= 1 -> b
        [] gap > 1 /\ mid \in P -> [lo |-> mid, hi |-> b.hi]
        [] gap > 1 /\ mid \notin P -> [lo |-> b.lo, hi |-> mid]

HalvingInt(P, lo, hi) ==
  LET passes[n \in 0 .. hi] ==
        IF n = 0 THEN [lo |-> lo, hi |-> hi] ELSE HalveInt(P, passes[n - 1])
  IN  passes

hashSearchBorder(t, asize) ==
  LET b == Doubling(Positions(t), asize + 1, asize + 2)[maxInt]
  IN  IF b.hi \in Positions(t) THEN maxInt ELSE HalvingInt(Positions(t), b.lo, b.hi)[b.hi].lo

BugLenOf(t) ==
  LET n == Len(t.array)
      F == Filled(t.array)
  IN  IF n > 0 /\ n \notin F THEN Bisect(F, 0, n) ELSE n
LenOf(t) ==
  LET n == Len(t.array)
      F == Filled(t.array)
      limit == IF n \div 2 < 1 THEN 1 ELSE n \div 2
      back == {i \in F : i < limit /\ i >= limit - maxVicinity}
      ahead == {i \in limit + 1 .. n : i <= limit + maxVicinity /\ i \notin F}
  IN  CASE n > 0 /\ limit \notin F /\ back /= {} -> Max(back)
        [] n > 0 /\ limit \notin F /\ back = {} -> Bisect(F, 0, Max({1, limit - maxVicinity}))
        [] n > 0 /\ limit \in F /\ ahead /= {} -> Min(ahead) - 1
        [] n > 0 /\ limit \in F /\ ahead = {} /\ n \notin F ->
             Bisect(F, Min({n, limit + maxVicinity}), n)
        [] n = 0 \/ (limit \in F /\ ahead = {} /\ n \in F) ->
             IF n + 1 \notin Positions(t) THEN n ELSE hashSearchBorder(t, n)

-----------------------------------------------------------------------------
(* next(): the answer to a key is a table (cursor, window and slot index are *)
(* written) and the next key.                                                *)

keysShape(t) == Len(t.keys) + t.deadKeys
setIterBound(t, n) == [t EXCEPT !.iterBound = n, !.iterShape = keysShape(t)]
finishTraversal(t) ==
  IF t.iterBound = Len(t.keys) /\ t.iterShape = keysShape(t) THEN setIterBound(t, 0) ELSE t

iterWindow(t) == IF t.iterBound > 0 /\ t.iterBound < Len(t.keys) THEN t.iterBound ELSE Len(t.keys)

nextArrayEntry(t, start) == Least({i \in Filled(t.array) : i > start})

\* The first live slot after slot i, below the bound.
LiveSlotAfter(t, i, bound) == Least({j \in DOMAIN t.keys : i < j /\ j <= bound /\ alive(t, t.keys[j])})

OverAt(t) == [t |-> finishTraversal(t), key |-> Over]
AtSlot(t, j) == [t |-> [t EXCEPT !.iterCur = j], key |-> t.keys[j]]

FirstLiveHashEntry(t) ==
  LET j == LiveSlotAfter(t, 0, iterWindow(t)) IN IF j = 0 THEN OverAt(t) ELSE AtSlot(t, j)

\* nextHashAfter of a key that has a slot.  Whether or not a live entry
\* follows, the caller returns what this answers.
BugHashEntryAfter(t, slot) ==
  LET bound == IF slot >= iterWindow(t) THEN Len(t.keys) ELSE iterWindow(t)
      j == LiveSlotAfter(t, slot, bound)
  IN  IF j = 0 THEN OverAt(t) ELSE AtSlot(t, j)
hashEntryAfterIdx(t, slot) ==
  LET j == LiveSlotAfter(t, slot, iterWindow(t)) IN IF j = 0 THEN OverAt(t) ELSE AtSlot(t, j)

BugFirstEntry(t) ==
  LET i == nextArrayEntry(t, 0)
      j == LiveSlotAfter(t, 0, Len(t.keys))
      opened == IF t.iterBound = 0 THEN setIterBound(t, Len(t.keys)) ELSE t
  IN  CASE i /= 0 -> [t |-> opened, key |-> i]
        [] i = 0 /\ j /= 0 -> AtSlot(opened, j)
        [] OTHER -> OverAt(t)
FirstEntry(t) ==
  LET i == nextArrayEntry(t, 0)
      j == LiveSlotAfter(t, 0, Len(t.keys))
      opened == setIterBound(t, Len(t.keys))
  IN  CASE i /= 0 -> [t |-> opened, key |-> i]
        [] i = 0 /\ j /= 0 -> AtSlot(opened, j)
        [] OTHER -> OverAt(t)

FromArray(t, k) ==
  LET i == nextArrayEntry(t, k) IN IF i /= 0 THEN [t |-> t, key |-> i] ELSE FirstLiveHashEntry(t)

FromHash(t, k) ==
  LET u == Indexed(t, k)
      slot == SlotBy(u, k, u.kidx)
  IN  CASE slot /= 0 -> hashEntryAfterIdx(u, slot)
        [] slot = 0 /\ k \in 1 .. t.cap -> FirstLiveHashEntry(u)
        [] OTHER -> [t |-> u, key |-> Failed]

NextOf(t, k) == IF k \in DOMAIN t.array THEN FromArray(t, k) ELSE FromHash(t, k)

-----------------------------------------------------------------------------
(* The program. *)

Content(t) == [k \in Key |-> Get(t, k)]

\* The state of a traversal.  due: the keys it has still to visit; calm: no key
\* has been added under it; strayed: it has resumed from the tombstone of an
\* index the array has given up; fence: the slots there were when it started,
\* -1 once another traversal or an emptied slice has moved the window.
AtRest == [at |-> Over, due |-> {}, calm |-> FALSE, strayed |-> FALSE, fence |-> -1]
Walking(w) == walk[w].at /= Over

Init ==
  /\ \E c \in Hints : tbl = NewTableWithSize(c)
  /\ listed = 0
  /\ walk = [w \in Walks |-> AtRest]

\* What a change of the table does to the promises of the traversals.
Disturb(w, moved) ==
  LET old == Content(tbl)
      new == Content(tbl')
      calm == walk[w].calm /\ ~moved /\ \A k \in Key : new[k] /= Nil => old[k] /= Nil
      emptied == tbl'.iterBound = 0 /\ tbl.iterBound /= 0
  IN  [walk[w] EXCEPT !.calm = calm,
                      !.due = IF calm THEN {k \in @ : new[k] /= Nil} ELSE {},
                      !.fence = IF emptied THEN -1 ELSE @]

\* t[k] = v, of a program or of its host.
Assign(k, v) ==
  /\ listed = -1
  /\ tbl' = SetTable(tbl, k, v)
  /\ walk' = [w \in Walks |-> Disturb(w, FALSE)]
  /\ UNCHANGED listed

\* A host makes room in the array part.
EnsureArraySize(n) ==
  /\ listed = -1
  /\ n > Len(tbl.array)
  /\ LET K == DOMAIN tbl.hash \cap (1 .. n) IN
     \E order \in Bijection(1 .. Cardinality(K), K) :
       tbl' = absorbHashIndices(Grown(tbl, n), order)
  /\ walk' = [w \in Walks |-> Disturb(w, TRUE)]
  /\ UNCHANGED listed

\* { [k] = v, ... , v1, v2, ... }: keyed fields are stored one by one, the
\* positional ones in batches.
KeyedField(k, v) ==
  /\ listed >= 0
  /\ NilFields \/ v /= Nil
  /\ tbl' = SetTable(tbl, k, v)
  /\ UNCHANGED <<listed, walk>>

PositionalFields(vs) ==
  /\ listed >= 0
  /\ listed + Len(vs) <= MaxListed
  /\ tbl' = SetList(tbl, listed + 1, vs)
  /\ listed' = listed + Len(vs)
  /\ UNCHANGED walk

EndConstructor ==
  /\ listed >= 0
  /\ listed' = -1
  /\ UNCHANGED <<tbl, walk>>

\* Another traversal opens or gives up the window all share.
Others(w) == [x \in Walks |-> IF walk[x].at = Over THEN AtRest ELSE [walk[x] EXCEPT !.fence = -1]]

\* next(t): the start of a pairs loop.
Start(w) ==
  LET r == FirstEntry(tbl) IN
  /\ listed = -1
  /\ tbl' = r.t
  /\ walk' = [Others(w) EXCEPT ![w] =
                IF r.key = Over THEN AtRest
                ELSE [at |-> r.key, due |-> {k \in Key \ {r.key} : Get(tbl, k) /= Nil},
                      calm |-> TRUE, strayed |-> FALSE, fence |-> Len(tbl.keys)]]
  /\ UNCHANGED listed

\* The step is handed an index the array has shrunk below, whose tombstone the
\* ordered keys still hold.
Strays(t, k) == k \in (Len(t.array) + 1) .. t.cap /\ ~alive(t, k) /\ k \in Range(t.keys)

Step(w) ==
  LET r == NextOf(tbl, walk[w].at) IN
  /\ Walking(w)
  /\ tbl' = r.t
  /\ walk' = IF r.key \in {Over, Failed} THEN [Others(w) EXCEPT ![w] = AtRest]
             ELSE [walk EXCEPT ![w].at = r.key,
                               ![w].due = @ \ {r.key},
                               ![w].strayed = @ \/ Strays(tbl, walk[w].at)]
  /\ UNCHANGED listed

Next ==
  \/ \E k \in Key, v \in Val \cup {Nil} : Assign(k, v) \/ KeyedField(k, v)
  \/ \E n \in Rooms : EnsureArraySize(n)
  \/ \E n \in 1 .. MaxListed : \E vs \in [1 .. n -> Val \cup {Nil}] : PositionalFields(vs)
  \/ EndConstructor
  \/ \E w \in Walks : Start(w) \/ Step(w)

Spec == Init /\ [][Next]_vars

-----------------------------------------------------------------------------
(* Properties. *)

\* The fields have their types; no slot is named that the slice cannot have.
TypeOK ==
  /\ tbl.array \in Seq(Val \cup {Nil}) /\ tbl.cap \in Nat /\ Len(tbl.array) <= tbl.cap
  /\ IsFiniteSet(DOMAIN tbl.hash) /\ DOMAIN tbl.hash \subseteq Key /\ Range(tbl.hash) \subseteq Val
  /\ tbl.keys \in Seq(Key)
  /\ {tbl.deadKeys, tbl.iterBound, tbl.iterShape, tbl.iterCur, tbl.noPromote} \subseteq Nat
  /\ listed \in -1 .. MaxListed
  /\ \A w \in Walks : walk[w].at \in Key \cup {Over} /\ walk[w].due \subseteq Key

Tombstones == Range(tbl.keys) \ DOMAIN tbl.hash

\* The three claims of the Table comment, and what hangs on them. No key has two
\* slots, or next() would return a key as its own successor, and every key of the
\* hash part has one; deadKeys, which guards the search for tombstones, counts the
\* keys exactly that have a slot and no value, and the tombstone index, once built,
\* lists them all, and their slots are above its scan bound; what the array covers,
\* the hash part does not hold as well.
StorageExact ==
  /\ TypeOK
  /\ IsInjective(tbl.keys)
  /\ DOMAIN tbl.hash \subseteq Range(tbl.keys)
  /\ tbl.deadKeys = Cardinality(Tombstones)
  /\ tbl.dead.on => /\ tbl.dead.keys = Tombstones
                    /\ \A i \in DOMAIN tbl.keys :
                         tbl.keys[i] \in Tombstones => i >= tbl.dead.scan
  /\ DOMAIN tbl.hash \cap DOMAIN tbl.array = {}

\* An assignment changes the value of its own key and of no other, or, when the
\* array is full and its next index is asked for, nothing, wherever the integers
\* live before it and after it.
ActsAsAMap ==
  \A k \in Key, v \in Val \cup {Nil} :
    Content(SetTable(tbl, k, v)) =
      IF OutOfMemory(tbl, k, v) THEN Content(tbl) ELSE [Content(tbl) EXCEPT ![k] = v]

\* #t is a border, whatever holes there are and wherever the integers live: 0 or an
\* index that holds a value, and the next one does not.  The next one may when the
\* length is beyond the array and is negative or above a third of maxInt: there the
\* sum of the two ends of the search wraps around, and the search stops where it is.
LengthIsABorder ==
  LET n == LenOf(tbl) IN
  /\ n /= 0 => Get(tbl, n) /= Nil
  /\ n \in 0 .. Max({Len(tbl.array), maxInt \div 3}) => Get(tbl, n + 1) = Nil

\* The same without the reservation, as the comment of Len has it.
LengthAlwaysABorder ==
  LET n == LenOf(tbl) IN
  /\ n >= 0
  /\ n /= 0 => Get(tbl, n) /= Nil
  /\ n < maxInt => Get(tbl, n + 1) = Nil

NextKey(w) == NextOf(tbl, walk[w].at).key
Calm(w) == Walking(w) /\ walk[w].calm

\* A loop that only assigns to fields there are, nil included, visits each key
\* at most once, and no step of it raises; when it ends it has visited every key
\* that was there throughout, whatever the other traversals of the table did
\* (unless it has strayed).
TraversalExact ==
  \A w \in Walks : Calm(w) =>
    /\ NextKey(w) \in walk[w].due \cup {Over}
    /\ NextKey(w) = Over /\ walk[w].due /= {} => walk[w].strayed \/ Strays(tbl, walk[w].at)

\* The same without the reservation, as the manual and the code have it.
TraversalSkipsNone == \A w \in Walks : Calm(w) /\ NextKey(w) = Over => walk[w].due = {}

\* A key the table holds is never refused by next(), whoever asks; and the slot
\* index, once built, names the slot of every key and of no other: the mutations
\* keep it in step, so a traversal never falls back to the scan.
KeysAreFound ==
  /\ \A k \in Key : Get(tbl, k) /= Nil => NextOf(tbl, k).key /= Failed
  /\ tbl.kidx.on => /\ DOMAIN tbl.kidx.slot = Range(tbl.keys)
                    /\ \A i \in DOMAIN tbl.keys : tbl.kidx.slot[tbl.keys[i]] = i

SlotReached(w) == IF NextKey(w) \in Range(tbl.keys) \ DOMAIN tbl.array
                  THEN scanForSlot(tbl, NextKey(w)) ELSE 0

\* A traversal alone on the table never goes beyond the slots there were when it
\* started, whatever its body adds, deletes and adds again.
FencedIn == \A w \in Walks : Walking(w) /\ walk[w].fence > 0 => SlotReached(w) <= walk[w].fence

\* The same of every traversal, one that started in an empty slice included.
ConfinedToItsStart ==
  \A w \in Walks : Walking(w) /\ walk[w].fence >= 0 => SlotReached(w) <= walk[w].fence
=============================================================================
