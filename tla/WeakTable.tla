------------------------------ MODULE WeakTable ------------------------------
(***************************************************************************)
(* One Lua table whose metatable may carry __mode (vm/weak_store.go,       *)
(* vm/weak_ref.go, the weak half of vm/table.go).  While a mode is set the *)
(* table lives in a weakStore: an ordered list of entries, an index from   *)
(* lookup keys to entries, and weak pointers in the weak dimension.  Every *)
(* operation of the store holds ws.mu from its first to its last access    *)
(* and is therefore one action; the collector and the sweep of another VM  *)
(* (sweepAllWeakTables) fall between any two of them.                      *)
(*                                                                         *)
(* A Lua value is a collectable object <<address, life>>, a value type     *)
(* <<"int", i>>, or Nil.  The life tells apart the objects that occupied   *)
(* one address one after the other: the store's index forgets it, since a  *)
(* weak key is looked up by its address alone.                             *)
(*                                                                         *)
(* The definitions named Bug... are seeded faults: wrong variants of the   *)
(* definition that follows each, which one of the properties must catch.   *)
(***************************************************************************)
EXTENDS Naturals, Sequences, SequencesExt, FiniteSets

CONSTANTS Addr,      \* addresses of collectable objects
          Foreign,   \* addresses of LuaTable values that are not a *Table
          Ints,      \* the value-type keys and values
          Modes,     \* the values of __mode the program sets
          Walks,     \* traversals that may be in flight at once
          MaxLives,  \* bound: objects that occupy one address, in turn
          MaxObjs,   \* bound: objects allocated in all
          Fields     \* whether objects may have a field that holds an object

Nil == <<>>
Obj == Addr \X (1 .. MaxLives)
Prim == {"int"} \X Ints
Val == Obj \cup Prim
StrongMode == "none"

ASSUME ModesAssumption == Modes \subseteq {"k", "v", "kv"}
ASSUME AddrAssumption == "int" \notin Addr /\ Foreign \subseteq Addr
ASSUME LivesAssumption == MaxLives \in Nat \ {0} /\ MaxObjs \in Nat /\ Fields \in BOOLEAN

VARIABLES
  mode,     \* weakMode of the table, "none" for ordinary storage
  ws,       \* the weakStore: entries, index, dead, iterBound
  strong,   \* contents of the ordinary storage (used in StrongMode only)
  heap,     \* the objects not yet collected
  lives,    \* per address, how many objects have occupied it
  held,     \* objects in the registers of the VM
  field,    \* per object, the object its one field holds
  last,     \* history: what the program last assigned to a key
  walk      \* the traversals: the key reached, and what is still to come

vars == <<mode, ws, strong, heap, lives, held, field, last, walk>>

-----------------------------------------------------------------------------
(* The store as data. *)

WeakKeys(m) == m \in {"k", "kv"}
WeakValues(m) == m \in {"v", "kv"}
IsObj(v) == v \in Obj
IsForeign(v) == IsObj(v) /\ v[1] \in Foreign

\* The key of ws.index: the bare address of a weak key, the value otherwise.
LookupKey(m, k) == IF WeakKeys(m) /\ IsObj(k) THEN <<k[1], 0>> ELSE k

\* A weakRef reaches an object while the object is there.  Of a value that is
\* not one of the four concrete types makeWeakRef has no reference at all, so
\* neither alive() nor value() ever answers for it.
Reaches(o) == o \in heap /\ ~IsForeign(o)

KeyIsWeak(m, e) == WeakKeys(m) /\ IsObj(e.key)
ValueIsWeak(m, e) == WeakValues(m) /\ IsObj(e.value)

entryKey(m, e) == IF KeyIsWeak(m, e) /\ ~Reaches(e.key) THEN Nil ELSE e.key
entryValue(m, e) == IF ValueIsWeak(m, e) /\ ~Reaches(e.value) THEN Nil ELSE e.value

\* !keyRef.isZero() && !keyRef.alive(), and the same of valueRef.
KeyCollected(m, e) == KeyIsWeak(m, e) /\ ~IsForeign(e.key) /\ e.key \notin heap
ValueCollected(m, e) == ValueIsWeak(m, e) /\ ~IsForeign(e.value) /\ e.value \notin heap

Entry == [key : Val \cup {Nil}, value : Val \cup {Nil},
          indexKey : Val \cup (Addr \X {0}), alive : BOOLEAN]
NewEntry(m, k, v) == [key |-> k, value |-> v, indexKey |-> LookupKey(m, k), alive |-> TRUE]
EmptyStore == [entries |-> <<>>, index |-> <<>>, dead |-> 0, iterBound |-> 0]

AliveAt(s) == {i \in DOMAIN s.entries : s.entries[i].alive}

\* killEntry on every entry of I: a tombstone keeps only its indexKey.  (On an
\* entry that is dead already killEntry does nothing; by IndexExact no caller
\* has such a one.)
Tombstone(e) == [key |-> Nil, value |-> Nil, indexKey |-> e.indexKey, alive |-> FALSE]
BugKillKeepsIndex(s, I) ==
  [entries |-> [i \in DOMAIN s.entries |->
                  IF i \in I THEN Tombstone(s.entries[i]) ELSE s.entries[i]],
   index |-> s.index,
   dead |-> s.dead + Cardinality(I),
   iterBound |-> s.iterBound]
BugKillUncounted(s, I) ==
  [entries |-> [i \in DOMAIN s.entries |->
                  IF i \in I THEN Tombstone(s.entries[i]) ELSE s.entries[i]],
   index |-> [x \in DOMAIN s.index \ {s.entries[i].indexKey : i \in I} |-> s.index[x]],
   dead |-> s.dead,
   iterBound |-> s.iterBound]
killEntries(s, I) ==
  [entries |-> [i \in DOMAIN s.entries |->
                  IF i \in I THEN Tombstone(s.entries[i]) ELSE s.entries[i]],
   index |-> [x \in DOMAIN s.index \ {s.entries[i].indexKey : i \in I} |-> s.index[x]],
   dead |-> s.dead + Cardinality(I),
   iterBound |-> s.iterBound]

\* The value get answers for a key.
BugRead(m, s, k) ==
  LET x == LookupKey(m, k)
  IN  IF x \in DOMAIN s.index THEN entryValue(m, s.entries[s.index[x]]) ELSE Nil
Read(m, s, k) ==
  LET x == LookupKey(m, k)
  IN  IF x \notin DOMAIN s.index \/ KeyCollected(m, s.entries[s.index[x]])
      THEN Nil
      ELSE entryValue(m, s.entries[s.index[x]])

\* get leaves the entry of a collected key dead.
AfterGet(m, s, k) ==
  LET x == LookupKey(m, k)
  IN  IF x \in DOMAIN s.index /\ KeyCollected(m, s.entries[s.index[x]])
      THEN killEntries(s, {s.index[x]})
      ELSE s

\* set with a value other than nil.  An entry found by its lookup key keeps
\* the key and the keyRef it has, and would be revived if it were dead; a new
\* entry takes the first tombstone, or the end of the list.
Update(s, i, v) ==
  [entries |-> [s.entries EXCEPT
                  ![i] = [key |-> s.entries[i].key, value |-> v,
                          indexKey |-> s.entries[i].indexKey, alive |-> TRUE]],
   index |-> s.index,
   dead |-> IF s.entries[i].alive THEN s.dead ELSE s.dead - 1,
   iterBound |-> s.iterBound]

Tombstones(s) == DOMAIN s.entries \ AliveAt(s)
FreeSlot(s) ==
  IF s.dead > 0 /\ Tombstones(s) # {}
  THEN CHOOSE i \in Tombstones(s) : \A j \in Tombstones(s) : i <= j
  ELSE Len(s.entries) + 1

Insert(m, s, i, k, v) ==
  [entries |-> [j \in DOMAIN s.entries \cup {i} |->
                  IF j = i THEN NewEntry(m, k, v) ELSE s.entries[j]],
   index |-> [x \in DOMAIN s.index \cup {LookupKey(m, k)} |->
                IF x = LookupKey(m, k) THEN i ELSE s.index[x]],
   dead |-> IF i \in DOMAIN s.entries THEN s.dead - 1 ELSE s.dead,
   iterBound |-> s.iterBound]

Store(m, s, k, v) ==
  IF LookupKey(m, k) \in DOMAIN s.index
  THEN Update(s, s.index[LookupKey(m, k)], v)
  ELSE Insert(m, s, FreeSlot(s), k, v)

Delete(m, s, k) ==
  LET x == LookupKey(m, k)
  IN  IF x \in DOMAIN s.index THEN killEntries(s, {s.index[x]}) ELSE s

\* An entry whose key and value both still answer.
Readable(m, e) == e.alive /\ entryKey(m, e) # Nil /\ entryValue(m, e) # Nil

\* nextAliveFrom: the first readable entry from start to the window's end, or
\* 0; the alive but unreadable entries passed on the way are killed.
window(s) == IF s.iterBound = 0 \/ s.iterBound > Len(s.entries)
             THEN Len(s.entries) ELSE s.iterBound
Hits(m, s, start) == {i \in start .. window(s) : Readable(m, s.entries[i])}
NextSlot(m, s, start) ==
  LET hits == Hits(m, s, start)
  IN  IF hits = {} THEN 0 ELSE CHOOSE i \in hits : \A j \in hits : i <= j
AfterNext(m, s, start) ==
  LET stop == IF NextSlot(m, s, start) = 0 THEN window(s) + 1 ELSE NextSlot(m, s, start)
      swept == killEntries(s, {i \in start .. stop - 1 : s.entries[i].alive})
  IN  [entries |-> swept.entries, index |-> swept.index, dead |-> swept.dead,
       iterBound |-> IF NextSlot(m, s, start) = 0 THEN 0 ELSE s.iterBound]

\* A traversal that begins opens the window on the whole list.
Opened(s) == [entries |-> s.entries, index |-> s.index, dead |-> s.dead,
              iterBound |-> Len(s.entries)]

\* sweep kills what was collected; a zero weakRef is never swept.
AfterSweep(m, s) ==
  killEntries(s, {i \in AliveAt(s) : \/ KeyCollected(m, s.entries[i])
                                     \/ ValueCollected(m, s.entries[i])})

\* forEach snapshots the readable entries and kills the others.
AfterForEach(m, s) == killEntries(s, {i \in AliveAt(s) : ~Readable(m, s.entries[i])})

\* length kills the entry of the first absent integer, if there is one whose
\* value was collected.
Border(m, s) ==
  CHOOSE n \in 0 .. Cardinality(Ints) :
    /\ \A i \in 1 .. n : /\ <<"int", i>> \in DOMAIN s.index
                         /\ entryValue(m, s.entries[s.index[<<"int", i>>]]) # Nil
    /\ \/ <<"int", n + 1>> \notin DOMAIN s.index
       \/ entryValue(m, s.entries[s.index[<<"int", n + 1>>]]) = Nil
AfterLength(m, s) == Delete(m, s, <<"int", Border(m, s) + 1>>)

\* The pairs migrate hands to the ordinary storage.
Migrated(m, s) ==
  LET live == {i \in AliveAt(s) : Readable(m, s.entries[i])}
      keys == {s.entries[i].key : i \in live}
  IN  [k \in keys |-> s.entries[CHOOSE i \in live : s.entries[i].key = k].value]

\* enableWeakMode: one fresh entry per pair, in the order of the old storage.
Enabled(m, pairs, order) ==
  [entries |-> [i \in DOMAIN order |-> NewEntry(m, order[i], pairs[order[i]])],
   index |-> [x \in {LookupKey(m, order[i]) : i \in DOMAIN order} |->
                CHOOSE i \in DOMAIN order : LookupKey(m, order[i]) = x],
   dead |-> 0,
   iterBound |-> 0]

-----------------------------------------------------------------------------
(* What keeps an object alive. *)

\* Strong references of the store: keys and values outside the weak
\* dimension, and the indexKey of a tombstone, which is the key itself
\* whenever keys are strong.
BugStoreHolds ==
  LET es == Range(ws.entries)
  IN  {e.value : e \in {d \in es : d.alive /\ ~ValueIsWeak(mode, d)}}
        \cup {e.key : e \in {d \in es : d.alive}}
        \cup {e.indexKey : e \in es}
        \cup DOMAIN strong \cup Range(strong)
StoreHolds ==
  LET es == Range(ws.entries)
  IN  {e.value : e \in {d \in es : d.alive /\ ~ValueIsWeak(mode, d)}}
        \cup {e.key : e \in {d \in es : d.alive /\ ~KeyIsWeak(mode, d)}}
        \cup {e.indexKey : e \in es}
        \cup DOMAIN strong \cup Range(strong)

Registers == held \cup {walk[w].at : w \in Walks}

\* What Go's collector marks: everything in each closed set that contains the
\* roots.
Marked ==
  LET closed == {S \in SUBSET heap :
                   /\ (Registers \cup StoreHolds) \cap heap \subseteq S
                   /\ \A o \in S : field[o] \in heap => field[o] \in S}
  IN  {o \in heap : \A S \in closed : o \in S}

-----------------------------------------------------------------------------
NoWalk == [on |-> FALSE, at |-> Nil, todo |-> {}, done |-> {},
           twice |-> FALSE, failed |-> FALSE]

Init ==
  /\ mode = StrongMode
  /\ ws = EmptyStore
  /\ strong = <<>>
  /\ heap = {}
  /\ lives = [a \in Addr |-> 0]
  /\ held = {}
  /\ field = [o \in Obj |-> Nil]
  /\ last = [k \in Val |-> Nil]
  /\ walk = [w \in Walks |-> NoWalk]

\* The values an instruction can name.
Nameable == held \cup Prim

\* What store s owes a traversal that has reached key at: the keys whose entry
\* is still the one it had, and nothing once the entry it stands on is lost.
Kept(s, at, keys) ==
  IF at # Nil /\ LookupKey(mode, at) \notin DOMAIN s.index
  THEN {}
  ELSE {k \in keys : LookupKey(mode, k) \in DOMAIN s.index}
Lose(s) == [w \in Walks |-> [walk[w] EXCEPT !.todo = Kept(s, walk[w].at, @),
                                           !.done = Kept(s, walk[w].at, @)]]

\* The program allocates an object, perhaps where another one was.
New(a) ==
  /\ lives[a] < MaxLives
  /\ Cardinality({o \in Obj : o[2] <= lives[o[1]]}) < MaxObjs
  /\ \A o \in heap : o[1] # a
  /\ lives' = [lives EXCEPT ![a] = @ + 1]
  /\ heap' = heap \cup {<<a, lives'[a]>>}
  /\ held' = held \cup {<<a, lives'[a]>>}
  /\ UNCHANGED <<mode, ws, strong, field, last, walk>>

\* A register is overwritten.
Drop(o) ==
  /\ o \in held
  /\ held' = held \ {o}
  /\ UNCHANGED <<mode, ws, strong, heap, lives, field, last, walk>>

SetField(o, p) ==
  /\ Fields
  /\ o \in held /\ p \in held \cup {Nil}
  /\ field' = [field EXCEPT ![o] = p]
  /\ UNCHANGED <<mode, ws, strong, heap, lives, held, last, walk>>

\* Table.Get: the answer goes to a register.
Get(k) ==
  /\ k \in Nameable
  /\ LET v == IF mode = StrongMode
              THEN IF k \in DOMAIN strong THEN strong[k] ELSE Nil
              ELSE Read(mode, ws, k)
     IN  held' = held \cup ({v} \cap Obj)
  /\ ws' = IF mode = StrongMode THEN ws ELSE AfterGet(mode, ws, k)
  /\ walk' = Lose(ws')
  /\ UNCHANGED <<mode, strong, heap, lives, field, last>>

\* Table.Set with a value, in either storage.
Set(k, v) ==
  /\ k \in Nameable /\ v \in Nameable
  /\ IF mode = StrongMode
     THEN /\ strong' = [x \in DOMAIN strong \cup {k} |-> IF x = k THEN v ELSE strong[x]]
          /\ UNCHANGED ws
     ELSE /\ ws' = Store(mode, ws, k, v)
          /\ UNCHANGED strong
  /\ last' = [last EXCEPT ![k] = v]
  /\ UNCHANGED <<mode, heap, lives, held, field, walk>>

\* Table.Set with nil.
Clear(k) ==
  /\ k \in Nameable
  /\ IF mode = StrongMode
     THEN /\ strong' = [x \in DOMAIN strong \ {k} |-> strong[x]]
          /\ UNCHANGED <<ws, walk>>
     ELSE /\ ws' = Delete(mode, ws, k)
          /\ walk' = Lose(ws')
          /\ UNCHANGED strong
  /\ last' = [last EXCEPT ![k] = Nil]
  /\ UNCHANGED <<mode, heap, lives, held, field>>

\* SetMetatable with another __mode: the readable entries move, through the
\* ordinary storage, to the storage of the new mode.
SetMode(m) ==
  /\ m # mode
  /\ LET pairs == IF mode = StrongMode THEN strong ELSE Migrated(mode, ws)
     IN  IF m = StrongMode
         THEN strong' = pairs /\ ws' = EmptyStore
         ELSE /\ strong' = <<>>
              /\ \E order \in SetToSeqs(DOMAIN pairs) : ws' = Enabled(m, pairs, order)
  /\ mode' = m
  /\ walk' = [w \in Walks |-> NoWalk]
  /\ UNCHANGED <<heap, lives, held, field, last>>

\* Len.
Length ==
  /\ mode # StrongMode
  /\ ws' = AfterLength(mode, ws)
  /\ walk' = Lose(ws')
  /\ UNCHANGED <<mode, strong, heap, lives, held, field, last>>

ForEach ==
  /\ mode # StrongMode
  /\ ws' = AfterForEach(mode, ws)
  /\ walk' = Lose(ws')
  /\ held' = held \cup
               (Obj \cap UNION {{e.key, e.value} : e \in {d \in Range(ws'.entries) : d.alive}})
  /\ UNCHANGED <<mode, strong, heap, lives, field, last>>

\* One step of a traversal from slot start: the pair goes to registers, and
\* with no pair left the traversal is over.
Advance(w, s, start, todo, done) ==
  LET i == NextSlot(mode, s, start)
      k == s.entries[i].key
      s2 == AfterNext(mode, s, start)
  IN  /\ ws' = s2
      /\ IF i = 0
         THEN /\ walk' = [Lose(s2) EXCEPT ![w] = [NoWalk EXCEPT !.todo = Kept(s2, Nil, todo)]]
              /\ UNCHANGED held
         ELSE /\ walk' = [Lose(s2) EXCEPT ![w] =
                            [on |-> TRUE, at |-> k, todo |-> Kept(s2, Nil, todo) \ {k},
                             done |-> Kept(s2, Nil, done) \cup {k}, twice |-> k \in done,
                             failed |-> FALSE]]
              /\ held' = held \cup ({k, s.entries[i].value} \cap Obj)
      /\ UNCHANGED <<mode, strong, heap, lives, field, last>>

\* next(t, nil).
Start(w) ==
  /\ mode # StrongMode /\ ~walk[w].on
  /\ Advance(w, Opened(ws), 1,
             {ws.entries[i].key : i \in {j \in AliveAt(ws) : Readable(mode, ws.entries[j])}}, {})

\* next(t, k): resumes behind the entry of k.
BugStep(w) ==
  /\ walk[w].on
  /\ LookupKey(mode, walk[w].at) \in DOMAIN ws.index
  /\ Advance(w, ws, ws.index[LookupKey(mode, walk[w].at)], walk[w].todo, walk[w].done)
Step(w) ==
  /\ walk[w].on
  /\ LookupKey(mode, walk[w].at) \in DOMAIN ws.index
  /\ Advance(w, ws, ws.index[LookupKey(mode, walk[w].at)] + 1, walk[w].todo, walk[w].done)

\* next(t, k) of a key the index no longer has: "invalid key to 'next'".
StepFails(w) ==
  /\ walk[w].on
  /\ LookupKey(mode, walk[w].at) \notin DOMAIN ws.index
  /\ walk' = [walk EXCEPT ![w] = [NoWalk EXCEPT !.failed = TRUE]]
  /\ UNCHANGED <<mode, ws, strong, heap, lives, held, field, last>>

\* The loop is left early.
Abandon(w) ==
  /\ walk[w].on
  /\ walk' = [walk EXCEPT ![w] = NoWalk]
  /\ UNCHANGED <<mode, ws, strong, heap, lives, held, field, last>>

\* A cycle of Go's collector: every unmarked object dies at once, and with it
\* every weak pointer to it.  An assignment that named it is history.
Collect ==
  /\ heap # Marked
  /\ heap' = Marked
  /\ field' = [o \in Obj |-> IF o \in heap' THEN field[o] ELSE Nil]
  /\ last' = [k \in Val |-> IF (IsObj(k) /\ k \notin heap')
                               \/ (IsObj(last[k]) /\ last[k] \notin heap')
                            THEN Nil ELSE last[k]]
  /\ UNCHANGED <<mode, ws, strong, lives, held, walk>>

\* sweepAllWeakTables, called by collectgarbage() of any VM of the process.
Sweep ==
  /\ mode # StrongMode
  /\ ws' = AfterSweep(mode, ws)
  /\ walk' = Lose(ws')
  /\ UNCHANGED <<mode, strong, heap, lives, held, field, last>>

Next ==
  \/ \E a \in Addr : New(a)
  \/ \E o \in Obj : Drop(o)
  \/ \E o \in Obj : \E p \in Obj \cup {Nil} : SetField(o, p)
  \/ \E k \in Val : Get(k)
  \/ \E k \in Val : \E v \in Val : Set(k, v)
  \/ \E k \in Val : Clear(k)
  \/ \E m \in Modes \cup {StrongMode} : SetMode(m)
  \/ Length
  \/ ForEach
  \/ \E w \in Walks : Start(w)
  \/ \E w \in Walks : Step(w)
  \/ \E w \in Walks : StepFails(w)
  \/ \E w \in Walks : Abandon(w)
  \/ Collect
  \/ Sweep

Spec == Init /\ [][Next]_vars

\* Go runs its collector again and again (at least every two minutes), and a
\* program that calls collectgarbage() now and then sweeps.
FairSpec == Spec /\ WF_vars(Collect) /\ WF_vars(Sweep)
-----------------------------------------------------------------------------
(* Safety. *)

\* Types of the state.
TypeOK ==
  /\ mode \in Modes \cup {StrongMode}
  /\ ws.dead \in Nat /\ ws.iterBound \in Nat
  /\ ws.entries \in Seq(Entry)
  /\ DOMAIN strong \subseteq Val /\ Range(strong) \subseteq Val
  /\ held \subseteq heap /\ heap \subseteq Obj
  /\ \A a \in Addr : lives[a] \in 0 .. MaxLives
  /\ \A k \in Val : last[k] \in Val \cup {Nil}

\* The index leads from each lookup key to the one entry that is alive under
\* it, through deletions, reuse of tombstones, sweeps of other VMs and changes
\* of mode: no lookup ends at a tombstone or at another key's entry, and no
\* alive entry is out of reach of set (weak_store.go:101, :145, :166).
IndexExact ==
  /\ \A x \in DOMAIN ws.index :
       ws.index[x] \in AliveAt(ws) /\ ws.entries[ws.index[x]].indexKey = x
  /\ \A i \in AliveAt(ws) : ws.entries[i].indexKey \in DOMAIN ws.index
                            /\ ws.index[ws.entries[i].indexKey] = i

\* ws.dead counts the tombstones, which is what set relies on to find a slot
\* and sweep and forEach to know how many entries are live (weak_store.go:162,
\* :333, :367).
DeadExact ==
  /\ TypeOK
  /\ ws.dead = Cardinality(DOMAIN ws.entries \ AliveAt(ws))

\* A read under a key answers what the program last assigned to that very key,
\* or nil: an object allocated where a collected key was never gets the dead
\* key's value (weak_store.go:93-119, the lookup by bare address).
ReadsOwnAssignment ==
  mode # StrongMode => \A k \in Nameable : Read(mode, ws, k) \in {last[k], Nil}

\* What was assigned and not collected is still there (the claim of
\* wontfix/weak-tables-and-gc/README.md that "the value semantics still hold").
ReadsLastAssignment ==
  mode # StrongMode => \A k \in Nameable : Read(mode, ws, k) = last[k]

\* A traversal that comes to its end has returned every pair that was readable
\* when it began and whose entry was not lost meanwhile, and no entry twice,
\* whatever other traversals, insertions into tombstones and sweeps did
\* (weak_store.go:242-297).
TraversalExact == \A w \in Walks : ~walk[w].twice /\ (~walk[w].on => walk[w].todo = {})

\* next accepts the key it returned in the step before (table.go:2010-2016:
\* traversals go on "without taking a key from each other or failing to
\* finish").
TraversalNeverFails == \A w \in Walks : ~walk[w].failed

-----------------------------------------------------------------------------
(* Liveness. *)

\* What Lua would keep: a weak reference keeps nothing, and the value of an
\* entry with a weak key is kept only if something else keeps the key.
LuaMarked ==
  LET entries == {e \in Range(ws.entries) : Readable(mode, e)}
      closed == {S \in SUBSET heap :
                   /\ (Registers \cup DOMAIN strong \cup Range(strong)) \cap heap \subseteq S
                   /\ \A o \in S : field[o] \in heap => field[o] \in S
                   /\ \A e \in entries :
                        /\ (IsObj(e.key) /\ ~WeakKeys(mode)) => e.key \in S
                        /\ (/\ IsObj(e.value) /\ ~WeakValues(mode)
                            /\ ~IsObj(e.key) \/ e.key \in S) => e.value \in S}
  IN  {o \in heap : \A S \in closed : o \in S}

\* An object nothing keeps in Lua's sense is reclaimed in the end, or a read
\* of the table brings it back first ("a weak entry will eventually clear once
\* unreachable", wontfix/weak-tables-and-gc/README.md; design.md:21 on
\* "eventual finalization").
EventuallyReclaimed ==
  \A o \in Obj : (o \in heap /\ o \notin LuaMarked) ~> (o \notin heap \/ o \in LuaMarked)
=============================================================================
