--------------------------- MODULE LuaTableProofs ---------------------------
(***************************************************************************)
(* That every table a program can reach is exact, traversals included.     *)
(* First what the operations of one table do, for tables of every size and *)
(* every value of the thresholds: each lemma is about one function of      *)
(* vm/table.go and is used by those that call it, up to Set, OP_SETLIST,   *)
(* EnsureArraySize, next() and the length.  Then the invariant IInv, which *)
(* every action keeps, and the properties it gives.                        *)
(***************************************************************************)
EXTENDS LuaTable, FiniteSetTheorems, SequenceTheorems, LoopProofs, TLAPS

-----------------------------------------------------------------------------
(* What a table is.                                                         *)

Value == Val \cup {Nil}
Partial(V) == UNION {[D -> V] : D \in SUBSET Key}

Table ==
  [array : Seq(Value), cap : Nat, hash : Partial(Val), keys : Seq(Key), deadKeys : Nat,
   dead : [on : BOOLEAN, keys : SUBSET Key, scan : Nat],
   kidx : [on : BOOLEAN, slot : Partial(Nat)],
   noPromote : Nat, iterBound : Nat, iterShape : Nat, iterCur : Nat]

\* The ordered keys and the indexes over them are exact when the keys of D are alive.
DeadTidy(keys, d, D) ==
  d.on => /\ d.keys = Range(keys) \ D
          /\ \A i \in DOMAIN keys : keys[i] \notin D => i >= d.scan
IndexTidy(keys, x) ==
  x.on => /\ DOMAIN x.slot = Range(keys)
          /\ \A i \in DOMAIN keys : x.slot[keys[i]] = i
Tidy(t, D) ==
  /\ IsInjective(t.keys)
  /\ D \subseteq Range(t.keys)
  /\ t.deadKeys = Cardinality(Range(t.keys) \ D)
  /\ DeadTidy(t.keys, t.dead, D)
  /\ IndexTidy(t.keys, t.kidx)

\* Only the ordered keys and the indexes over them may differ.
SameStore(t, r) ==
  /\ r \in Table
  /\ r.array = t.array /\ r.cap = t.cap /\ r.hash = t.hash
  /\ r.noPromote = t.noPromote /\ r.iterBound = t.iterBound /\ r.iterCur = t.iterCur

\* A function from keys is a partial function.
LEMMA PartialIs ==
  ASSUME NEW V, NEW f, NEW D, D \subseteq Key, f \in [D -> V]
  PROVE  f \in Partial(V)
BY DEF Partial

\* The keys a partial function has, and the values it has there.
LEMMA PartialDomain ==
  ASSUME NEW V, NEW f \in Partial(V)
  PROVE  DOMAIN f \subseteq Key /\ f \in [DOMAIN f -> V]
BY DEF Partial

\* The empty function is partial, whatever its values.
LEMMA EmptyPartial == \A V : <<>> \in Partial(V) /\ DOMAIN <<>> = {}
<1> TAKE V
<1>1. <<>> \in [{} -> V] /\ DOMAIN <<>> = {}
  OBVIOUS
<1> QED BY <1>1, PartialIs

\* The fields of a table, and the slots and positions it has.
LEMMA TableFields ==
  ASSUME NEW t \in Table
  PROVE  /\ t.array \in Seq(Value) /\ t.cap \in Nat /\ t.hash \in Partial(Val)
         /\ t.keys \in Seq(Key) /\ t.deadKeys \in Nat
         /\ t.dead \in [on : BOOLEAN, keys : SUBSET Key, scan : Nat]
         /\ t.dead.on \in BOOLEAN /\ t.dead.keys \subseteq Key /\ t.dead.scan \in Nat
         /\ t.kidx \in [on : BOOLEAN, slot : Partial(Nat)]
         /\ t.kidx.on \in BOOLEAN /\ t.kidx.slot \in Partial(Nat)
         /\ t.noPromote \in Nat /\ t.iterBound \in Nat /\ t.iterShape \in Nat /\ t.iterCur \in Nat
         /\ DOMAIN t.hash \subseteq Key /\ t.hash \in [DOMAIN t.hash -> Val]
         /\ DOMAIN t.kidx.slot \subseteq Key
         /\ Len(t.keys) \in Nat /\ DOMAIN t.keys = 1 .. Len(t.keys)
         /\ \A i \in DOMAIN t.keys : t.keys[i] \in Key
         /\ Range(t.keys) \subseteq Key
         /\ Len(t.array) \in Nat /\ DOMAIN t.array = 1 .. Len(t.array)
         /\ \A i \in DOMAIN t.array : t.array[i] \in Value
<1>1. /\ t.array \in Seq(Value) /\ t.cap \in Nat /\ t.hash \in Partial(Val)
      /\ t.keys \in Seq(Key) /\ t.deadKeys \in Nat
      /\ t.dead \in [on : BOOLEAN, keys : SUBSET Key, scan : Nat]
      /\ t.kidx \in [on : BOOLEAN, slot : Partial(Nat)]
      /\ t.noPromote \in Nat /\ t.iterBound \in Nat /\ t.iterShape \in Nat /\ t.iterCur \in Nat
  BY DEF Table
<1>2. /\ t.dead.on \in BOOLEAN /\ t.dead.keys \subseteq Key /\ t.dead.scan \in Nat
      /\ t.kidx.on \in BOOLEAN /\ t.kidx.slot \in Partial(Nat)
  BY <1>1
<1>3. /\ DOMAIN t.hash \subseteq Key /\ t.hash \in [DOMAIN t.hash -> Val]
      /\ DOMAIN t.kidx.slot \subseteq Key
  BY <1>1, <1>2, PartialDomain
<1>4. /\ Len(t.keys) \in Nat /\ DOMAIN t.keys = 1 .. Len(t.keys)
      /\ \A i \in DOMAIN t.keys : t.keys[i] \in Key
  BY <1>1
<1>5. /\ Len(t.array) \in Nat /\ DOMAIN t.array = 1 .. Len(t.array)
      /\ \A i \in DOMAIN t.array : t.array[i] \in Value
  BY <1>1
<1>6. Range(t.keys) \subseteq Key
  BY <1>4 DEF Range
<1> QED BY <1>1, <1>2, <1>3, <1>4, <1>5, <1>6

\* The range of a sequence is what its slots hold.
LEMMA InRange ==
  ASSUME NEW s
  PROVE  /\ \A i \in DOMAIN s : s[i] \in Range(s)
         /\ \A x \in Range(s) : \E i \in DOMAIN s : s[i] = x
BY DEF Range

\* A sequence holds finitely many keys.
LEMMA RangeFinite ==
  ASSUME NEW S, NEW s \in Seq(S)
  PROVE  IsFiniteSet(Range(s))
<1>1. DOMAIN s = 1 .. Len(s) /\ Len(s) \in Nat
  OBVIOUS
<1>2. IsFiniteSet(DOMAIN s)
  BY <1>1, FS_Interval
<1>3. s \in [DOMAIN s -> Range(s)]
  <2>1. s = [i \in DOMAIN s |-> s[i]]
    BY <1>1
  <2> QED BY <2>1, InRange
<1>4. s \in Surjection(DOMAIN s, Range(s))
  BY <1>3, InRange DEF Surjection
<1> QED BY <1>2, <1>4, FS_Surjection

\* The positions of some keys of a sequence without repetitions are as many as they.
LEMMA AsManySlots ==
  ASSUME NEW S, NEW s \in Seq(S), IsInjective(s), NEW K \in SUBSET Range(s)
  PROVE  LET I == {i \in DOMAIN s : s[i] \in K}
         IN  IsFiniteSet(I) /\ IsFiniteSet(K) /\ Cardinality(I) = Cardinality(K)
<1> DEFINE I == {i \in DOMAIN s : s[i] \in K}
           f == [i \in I |-> s[i]]
<1>1. IsFiniteSet(K)
  BY RangeFinite, FS_Subset
<1>2. DOMAIN s = 1 .. Len(s) /\ Len(s) \in Nat
  OBVIOUS
<1>3. IsFiniteSet(I)
  <2>1. IsFiniteSet(DOMAIN s)
    BY <1>2, FS_Interval
  <2> QED BY <2>1, FS_Subset
<1>4. f \in [I -> K]
  OBVIOUS
<1>5. \A a, b \in I : f[a] = f[b] => a = b
  BY DEF IsInjective
<1>6. \A k \in K : \E i \in I : f[i] = k
  BY InRange
<1>7. f \in Bijection(I, K)
  BY <1>4, <1>5, <1>6 DEF Bijection, Injection, Surjection, IsInjective
<1>8. ExistsBijection(I, K)
  BY <1>7 DEF ExistsBijection
<1> HIDE DEF I
<1>9. Cardinality(I) = Cardinality(K)
  BY <1>3, <1>8, FS_Bijection
<1> QED BY <1>1, <1>3, <1>9 DEF I

\* A sequence to which something is appended.
LEMMA Appended ==
  ASSUME NEW S, NEW s \in Seq(S), NEW k \in S
  PROVE  /\ Append(s, k) \in Seq(S)
         /\ DOMAIN Append(s, k) = DOMAIN s \cup {Len(s) + 1} /\ Len(s) + 1 \notin DOMAIN s
         /\ DOMAIN s = 1 .. Len(s) /\ Len(s) \in Nat /\ Len(Append(s, k)) = Len(s) + 1
         /\ \A i \in DOMAIN s : Append(s, k)[i] = s[i]
         /\ Append(s, k)[Len(s) + 1] = k
         /\ Range(Append(s, k)) = Range(s) \cup {k}
<1> DEFINE r == Append(s, k)
<1>1. /\ r \in Seq(S) /\ Len(r) = Len(s) + 1 /\ DOMAIN r = 1 .. (Len(s) + 1)
      /\ DOMAIN s = 1 .. Len(s) /\ Len(s) \in Nat
      /\ \A i \in 1 .. Len(s) : r[i] = s[i]
      /\ r[Len(s) + 1] = k
  BY AppendProperties
<1> HIDE DEF r
<1>2. DOMAIN r = DOMAIN s \cup {Len(s) + 1} /\ Len(s) + 1 \notin DOMAIN s
  BY <1>1
<1>3. Range(r) = Range(s) \cup {k}
  <2>1. \A x \in Range(r) : x \in Range(s) \cup {k}
    BY <1>1, <1>2, InRange
  <2>2. \A x \in Range(s) \cup {k} : x \in Range(r)
    BY <1>1, <1>2, InRange
  <2> QED BY <2>1, <2>2
<1> QED BY <1>1, <1>2, <1>3 DEF r

\* A sequence without repetition of which one slot is written.
LEMMA Overwritten ==
  ASSUME NEW S, NEW s \in Seq(S), IsInjective(s), NEW i \in DOMAIN s, NEW k \in S
  PROVE  LET r == [s EXCEPT ![i] = k] IN
         /\ r \in Seq(S) /\ DOMAIN r = DOMAIN s /\ Len(r) = Len(s)
         /\ r[i] = k /\ \A j \in DOMAIN s : j # i => r[j] = s[j]
         /\ Range(r) = (Range(s) \ {s[i]}) \cup {k}
<1> DEFINE r == [s EXCEPT ![i] = k]
<1>1. /\ r \in Seq(S) /\ DOMAIN r = DOMAIN s /\ Len(r) = Len(s)
      /\ r[i] = k /\ \A j \in DOMAIN s : j # i => r[j] = s[j]
  OBVIOUS
<1> HIDE DEF r
<1>2. ASSUME NEW x \in Range(r) PROVE x \in (Range(s) \ {s[i]}) \cup {k}
  <2>1. PICK j \in DOMAIN r : r[j] = x
    BY InRange
  <2>2. CASE j = i
    BY <1>1, <2>1, <2>2
  <2>3. CASE j # i
    <3>1. r[j] = s[j] /\ s[j] \in Range(s) /\ s[j] # s[i]
      BY <1>1, <2>1, <2>3, InRange DEF IsInjective
    <3> QED BY <2>1, <3>1
  <2> QED BY <2>2, <2>3
<1>3. ASSUME NEW x \in (Range(s) \ {s[i]}) \cup {k} PROVE x \in Range(r)
  <2>1. CASE x = k
    <3>1. i \in DOMAIN r /\ r[i] = x
      BY <1>1, <2>1
    <3> QED BY <3>1, InRange
  <2>2. CASE x # k
    <3>1. PICK j \in DOMAIN s : s[j] = x
      BY <2>2, InRange
    <3>2. j \in DOMAIN r /\ r[j] = x
      BY <1>1, <2>2, <3>1
    <3> QED BY <3>2, InRange
  <2> QED BY <2>1, <2>2
<1>4. Range(r) = (Range(s) \ {s[i]}) \cup {k}
  BY <1>2, <1>3
<1> QED BY <1>1, <1>4 DEF r

\* Least answers the smallest slot of a set of slots, and 0 if there is none.
LEMMA Least0 ==
  ASSUME NEW I \in SUBSET (Nat \ {0})
  PROVE  /\ Least(I) = 0 => I = {}
         /\ Least(I) # 0 => Least(I) \in I /\ \A i \in I : Least(I) <= i
         /\ I = {} => Least(I) = 0
         /\ Least(I) \in Nat
<1>1. CASE I = {}
  BY <1>1 DEF Least
<1>2. CASE I # {}
  <2>1. \E x \in I : \A y \in I : x <= y
    BY <1>2, LeastExists
  <2>2. Least(I) = CHOOSE x \in I : \A y \in I : x <= y
    BY <1>2 DEF Least, Min
  <2>3. Least(I) \in I /\ \A y \in I : Least(I) <= y
    BY <2>1, <2>2
  <2> QED BY <1>2, <2>3
<1> QED BY <1>1, <1>2

-----------------------------------------------------------------------------
(* A slot is appended, taken over, given up.                                *)

\* The tombstones are finitely many, and there are none when deadKeys is 0.
LEMMA TidyCount ==
  ASSUME NEW t \in Table, NEW D, Tidy(t, D)
  PROVE  /\ IsFiniteSet(Range(t.keys)) /\ IsFiniteSet(Range(t.keys) \ D)
         /\ Cardinality(Range(t.keys) \ D) \in Nat
         /\ t.deadKeys = 0 <=> Range(t.keys) \ D = {}
<1>1. IsFiniteSet(Range(t.keys))
  BY TableFields, RangeFinite
<1>2. IsFiniteSet(Range(t.keys) \ D)
  BY <1>1, FS_Difference
<1>3. t.deadKeys = Cardinality(Range(t.keys) \ D)
  BY DEF Tidy
<1> QED BY <1>1, <1>2, <1>3, FS_CardinalityType, FS_EmptySet

\* A finite set from which a member is taken.
LEMMA OneLess ==
  ASSUME NEW S, IsFiniteSet(S), NEW x \in S
  PROVE  /\ Cardinality(S) \in Nat /\ Cardinality(S) >= 1
         /\ Cardinality(S \ {x}) = Cardinality(S) - 1
<1>1. Cardinality(S) \in Nat
  BY FS_CardinalityType
<1>2. Cardinality(S \ {x}) = Cardinality(S) - 1
  BY FS_RemoveElement
<1>3. IsFiniteSet(S \ {x}) /\ Cardinality(S \ {x}) \in Nat
  BY FS_RemoveElement, FS_CardinalityType
<1> QED BY <1>1, <1>2, <1>3

\* NoteSlot of a slot index: key k is in slot i, the keys of gone in none.
LEMMA NotedSlot ==
  ASSUME NEW x \in [on : BOOLEAN, slot : Partial(Nat)], NEW gone, NEW k \in Key, NEW i \in Nat
  PROVE  LET y == NoteSlot(x, gone, k, i) IN
         /\ y \in [on : BOOLEAN, slot : Partial(Nat)]
         /\ y.on = x.on
         /\ x.on => /\ DOMAIN y.slot = (DOMAIN x.slot \ gone) \cup {k}
                    /\ y.slot[k] = i
                    /\ \A z \in DOMAIN x.slot \ gone : z # k => y.slot[z] = x.slot[z]
<1> DEFINE f == [y \in (DOMAIN x.slot \ gone) \cup {k} |-> IF y = k THEN i ELSE x.slot[y]]
           E == (DOMAIN x.slot \ gone) \cup {k}
<1>1. CASE ~x.on
  <2>1. NoteSlot(x, gone, k, i) = x
    BY <1>1 DEF NoteSlot
  <2> QED BY <1>1, <2>1
<1>2. CASE x.on
  <2>1. x.slot \in Partial(Nat)
    OBVIOUS
  <2>2. E \subseteq Key /\ x.slot \in [DOMAIN x.slot -> Nat]
    BY <2>1, PartialDomain
  <2>3. f \in [E -> Nat]
    BY <2>2
  <2>4. f \in Partial(Nat)
    BY <2>2, <2>3, PartialIs
  <2>5. NoteSlot(x, gone, k, i) = [on |-> TRUE, slot |-> f]
    BY <1>2 DEF NoteSlot
  <2>6. DOMAIN f = E /\ f[k] = i /\ \A z \in DOMAIN x.slot \ gone : z # k => f[z] = x.slot[z]
    OBVIOUS
  <2> HIDE DEF f
  <2> QED BY <1>2, <2>4, <2>5, <2>6
<1> QED BY <1>1, <1>2

\* NoteDead of a tombstone index: k is one of them.
LEMMA NotedDead ==
  ASSUME NEW d \in [on : BOOLEAN, keys : SUBSET Key, scan : Nat], NEW k \in Key, NEW n \in Nat
  PROVE  LET e == NoteDead(d, k, n) IN
         /\ e \in [on : BOOLEAN, keys : SUBSET Key, scan : Nat]
         /\ e.on = d.on
         /\ d.on => e.keys = d.keys \cup {k} /\ e.scan = n
BY DEF NoteDead

\* appendKey: the new key has a slot, and all is in order with it alive.
LEMMA AppendTidy ==
  ASSUME NEW t \in Table, NEW D, Tidy(t, D), NEW k \in Key, k \notin Range(t.keys)
  PROVE  Tidy(appendKey(t, k), D \cup {k}) /\ SameStore(t, appendKey(t, k))
<1> DEFINE n == Len(t.keys) + 1
           keys == Append(t.keys, k)
           x == NoteSlot(t.kidx, {}, k, n)
           r == [t EXCEPT !.keys = keys, !.kidx = x]
<1>1. appendKey(t, k) = r
  BY DEF appendKey
<1>2. t.keys \in Seq(Key) /\ t.kidx \in [on : BOOLEAN, slot : Partial(Nat)] /\ n \in Nat
  BY TableFields
<1>3. /\ keys \in Seq(Key) /\ DOMAIN keys = DOMAIN t.keys \cup {n} /\ n \notin DOMAIN t.keys
      /\ \A i \in DOMAIN t.keys : keys[i] = t.keys[i]
      /\ keys[n] = k
      /\ Range(keys) = Range(t.keys) \cup {k}
      /\ \A i \in DOMAIN t.keys : i \in Nat
  BY <1>2, Appended
<1>4. /\ x \in [on : BOOLEAN, slot : Partial(Nat)]
      /\ x.on = t.kidx.on
      /\ t.kidx.on => /\ DOMAIN x.slot = DOMAIN t.kidx.slot \cup {k}
                      /\ x.slot[k] = n
                      /\ \A z \in DOMAIN t.kidx.slot : z # k => x.slot[z] = t.kidx.slot[z]
  <2>1. DOMAIN t.kidx.slot \ {} = DOMAIN t.kidx.slot
    OBVIOUS
  <2> HIDE DEF n
  <2> QED BY <1>2, <2>1, NotedSlot
<1> HIDE DEF n, keys, x
<1>5. /\ r \in Table /\ r.keys = keys /\ r.kidx = x /\ r.dead = t.dead /\ r.deadKeys = t.deadKeys
      /\ r.array = t.array /\ r.cap = t.cap /\ r.hash = t.hash
      /\ r.noPromote = t.noPromote /\ r.iterBound = t.iterBound /\ r.iterCur = t.iterCur
  BY <1>3, <1>4 DEF Table
<1> HIDE DEF r
<1>6. IsInjective(keys)
  <2> SUFFICES ASSUME NEW a \in DOMAIN keys, NEW b \in DOMAIN keys, keys[a] = keys[b]
               PROVE  a = b
    BY DEF IsInjective
  <2>1. IsInjective(t.keys)
    BY DEF Tidy
  <2>2. \A i \in DOMAIN t.keys : keys[i] # k
    BY <1>3, InRange
  <2> QED BY <2>1, <2>2, <1>3 DEF IsInjective
<1>7. D \cup {k} \subseteq Range(keys) /\ Range(keys) \ (D \cup {k}) = Range(t.keys) \ D
  BY <1>3 DEF Tidy
<1>8. DeadTidy(keys, t.dead, D \cup {k})
  BY <1>3, <1>7 DEF Tidy, DeadTidy
<1>9. IndexTidy(keys, x)
  <2> SUFFICES ASSUME x.on
               PROVE  /\ DOMAIN x.slot = Range(keys)
                      /\ \A i \in DOMAIN keys : x.slot[keys[i]] = i
    BY DEF IndexTidy
  <2>1. DOMAIN t.kidx.slot = Range(t.keys) /\ \A i \in DOMAIN t.keys : t.kidx.slot[t.keys[i]] = i
    BY <1>4 DEF Tidy, IndexTidy
  <2>2. DOMAIN x.slot = Range(keys)
    BY <2>1, <1>3, <1>4
  <2>3. ASSUME NEW i \in DOMAIN t.keys PROVE x.slot[keys[i]] = i
    <3>1. keys[i] = t.keys[i] /\ t.keys[i] # k /\ t.keys[i] \in Range(t.keys)
      BY <1>3, InRange
    <3> QED BY <3>1, <2>1, <1>4
  <2> QED BY <2>2, <2>3, <1>3, <1>4
<1>10. Tidy(r, D \cup {k})
  <2>1. t.deadKeys = Cardinality(Range(t.keys) \ D)
    BY DEF Tidy
  <2> QED BY <1>5, <1>6, <1>7, <1>8, <1>9, <2>1 DEF Tidy
<1> QED BY <1>1, <1>5, <1>10 DEF SameStore

\* A tombstone's slot is taken over.  (The count and the index of tombstones follow
\* in the two lemmas after this one.)
LEMMA TakenSlot ==
  ASSUME NEW t \in Table, NEW D, Tidy(t, D), NEW k \in Key, k \notin Range(t.keys),
         NEW i \in DOMAIN t.keys, t.keys[i] \notin D
  PROVE  LET r == takeKeySlot(t, i, k) IN
         /\ r \in Table /\ SameStore(t, r)
         /\ r.deadKeys = t.deadKeys /\ r.dead = t.dead
         /\ t.deadKeys >= 1
         /\ IsInjective(r.keys) /\ D \cup {k} \subseteq Range(r.keys)
         /\ Range(r.keys) \ (D \cup {k}) = (Range(t.keys) \ D) \ {t.keys[i]}
         /\ Cardinality(Range(r.keys) \ (D \cup {k})) = t.deadKeys - 1
         /\ IndexTidy(r.keys, r.kidx)
         /\ DOMAIN r.keys = DOMAIN t.keys /\ r.keys[i] = k
         /\ \A j \in DOMAIN t.keys : j # i => r.keys[j] = t.keys[j]
<1> DEFINE keys == [t.keys EXCEPT ![i] = k]
           x == NoteSlot(t.kidx, {t.keys[i]}, k, i)
           r == [t EXCEPT !.keys = keys, !.kidx = x]
<1>1. takeKeySlot(t, i, k) = r
  BY DEF takeKeySlot
<1>2. /\ t.keys \in Seq(Key) /\ t.kidx \in [on : BOOLEAN, slot : Partial(Nat)] /\ i \in Nat
      /\ IsInjective(t.keys) /\ t.keys[i] \in Range(t.keys)
  BY TableFields, InRange DEF Tidy
<1>3. /\ keys \in Seq(Key) /\ DOMAIN keys = DOMAIN t.keys
      /\ keys[i] = k /\ \A j \in DOMAIN t.keys : j # i => keys[j] = t.keys[j]
      /\ Range(keys) = (Range(t.keys) \ {t.keys[i]}) \cup {k}
  BY <1>2, Overwritten
<1>4. /\ x \in [on : BOOLEAN, slot : Partial(Nat)]
      /\ x.on = t.kidx.on
      /\ t.kidx.on => /\ DOMAIN x.slot = (DOMAIN t.kidx.slot \ {t.keys[i]}) \cup {k}
                      /\ x.slot[k] = i
                      /\ \A z \in DOMAIN t.kidx.slot \ {t.keys[i]} :
                            z # k => x.slot[z] = t.kidx.slot[z]
  BY ZenonT(40), <1>2, NotedSlot
<1> HIDE DEF keys, x
<1>5. /\ r \in Table /\ r.keys = keys /\ r.kidx = x /\ r.dead = t.dead /\ r.deadKeys = t.deadKeys
      /\ r.array = t.array /\ r.cap = t.cap /\ r.hash = t.hash
      /\ r.noPromote = t.noPromote /\ r.iterBound = t.iterBound /\ r.iterCur = t.iterCur
  BY <1>3, <1>4 DEF Table
<1> HIDE DEF r
<1>6. IsInjective(keys)
  <2> SUFFICES ASSUME NEW a \in DOMAIN keys, NEW b \in DOMAIN keys, keys[a] = keys[b]
               PROVE  a = b
    BY DEF IsInjective
  <2>1. \A j \in DOMAIN t.keys : t.keys[j] # k
    BY InRange
  <2> QED BY <2>1, <1>2, <1>3 DEF IsInjective
<1>7. D \subseteq Range(t.keys)
  BY DEF Tidy
<1>8. /\ D \cup {k} \subseteq Range(keys)
      /\ Range(keys) \ (D \cup {k}) = (Range(t.keys) \ D) \ {t.keys[i]}
  BY <1>2, <1>3, <1>7
<1>9. t.deadKeys >= 1 /\ Cardinality(Range(keys) \ (D \cup {k})) = t.deadKeys - 1
  <2>1. IsFiniteSet(Range(t.keys) \ D) /\ t.deadKeys = Cardinality(Range(t.keys) \ D)
    BY TidyCount DEF Tidy
  <2>2. t.keys[i] \in Range(t.keys) \ D
    BY <1>2
  <2>3. PICK S : S = Range(t.keys) \ D
    OBVIOUS
  <2>4. PICK z : z = t.keys[i]
    OBVIOUS
  <2>5. Cardinality(S) \in Nat /\ Cardinality(S) >= 1 /\ Cardinality(S \ {z}) = Cardinality(S) - 1
    BY <2>1, <2>2, <2>3, <2>4, OneLess
  <2>6. t.deadKeys = Cardinality(S) /\ Range(keys) \ (D \cup {k}) = S \ {z}
    BY <2>1, <2>3, <2>4, <1>8
  <2> QED BY <2>5, <2>6
<1>10. IndexTidy(keys, x)
  <2> SUFFICES ASSUME x.on
               PROVE  /\ DOMAIN x.slot = Range(keys)
                      /\ \A j \in DOMAIN keys : x.slot[keys[j]] = j
    BY DEF IndexTidy
  <2>1. DOMAIN t.kidx.slot = Range(t.keys) /\ \A j \in DOMAIN t.keys : t.kidx.slot[t.keys[j]] = j
    BY <1>4 DEF Tidy, IndexTidy
  <2>2. DOMAIN x.slot = Range(keys)
    BY <2>1, <1>3, <1>4
  <2>3. ASSUME NEW j \in DOMAIN t.keys, j # i PROVE x.slot[keys[j]] = j
    <3>1. keys[j] = t.keys[j] /\ t.keys[j] # t.keys[i] /\ t.keys[j] # k /\ t.keys[j] \in Range(t.keys)
      BY <1>2, <1>3, <2>3, InRange DEF IsInjective
    <3> QED BY <3>1, <2>1, <1>4
  <2> QED BY <2>2, <2>3, <1>3, <1>4
<1> QED BY <1>1, <1>3, <1>5, <1>6, <1>8, <1>9, <1>10 DEF SameStore

-----------------------------------------------------------------------------
(* A key becomes live.  It is k, and D are the keys alive apart from it: a  *)
(* string is in the hash part already when its slot is looked for.          *)

Pending(t, D, k) ==
  /\ t \in Table /\ Tidy(t, D) /\ k \in Key \ D
  /\ D \subseteq DOMAIN t.hash /\ DOMAIN t.hash \subseteq D \cup {k}

\* SameStore is transitive.
LEMMA SameStoreTwice ==
  ASSUME NEW t, NEW u, NEW r, SameStore(t, u), SameStore(u, r)
  PROVE  SameStore(t, r)
BY DEF SameStore

\* A key stays pending while only the ordered keys and their indexes change.
LEMMA PendingOn ==
  ASSUME NEW t, NEW D, NEW k, Pending(t, D, k), NEW r, SameStore(t, r), Tidy(r, D)
  PROVE  Pending(r, D, k)
BY DEF SameStore, Pending

\* buildDeadIndex finds the tombstones exactly, all of them.
LEMMA BuiltIndex ==
  ASSUME NEW t, NEW D, NEW k, Pending(t, D, k), NEW pending, pending \subseteq {k},
         k \in DOMAIN t.hash /\ k \in Range(t.keys) => pending = {k}
  PROVE  LET d == buildDeadIndex(t, pending)
         IN  SameStore(t, d) /\ d.keys = t.keys /\ d.deadKeys = t.deadKeys /\ d.dead.on /\ Tidy(d, D)
<1> DEFINE found == {i \in DOMAIN t.keys : t.keys[i] \in pending \/ ~alive(t, t.keys[i])}
           first == {i \in found : Cardinality({j \in found : j <= i}) <= t.deadKeys}
           T == Range(t.keys) \ D
           e == [on |-> TRUE, keys |-> {t.keys[i] : i \in first}, scan |-> 1]
           d == [t EXCEPT !.dead = e]
<1>1. buildDeadIndex(t, pending) = d
  BY DEF buildDeadIndex
<1>2. /\ t \in Table /\ Tidy(t, D) /\ k \in Key /\ k \notin D
      /\ D \subseteq DOMAIN t.hash /\ DOMAIN t.hash \subseteq D \cup {k}
      /\ t.keys \in Seq(Key) /\ IsInjective(t.keys) /\ Range(t.keys) \subseteq Key
      /\ t.deadKeys = Cardinality(T)
      /\ \A i \in DOMAIN t.keys : i \in Nat /\ i >= 1
  BY TableFields DEF Pending, Tidy
<1>3. found = {i \in DOMAIN t.keys : t.keys[i] \in T}
  BY <1>2, InRange DEF alive
<1>4. IsFiniteSet(found) /\ Cardinality(found) = t.deadKeys
  <2>1. T \in SUBSET Range(t.keys)
    OBVIOUS
  <2> HIDE DEF T, found
  <2>2. LET I == {i \in DOMAIN t.keys : t.keys[i] \in T}
        IN  IsFiniteSet(I) /\ IsFiniteSet(T) /\ Cardinality(I) = Cardinality(T)
    BY <1>2, <2>1, AsManySlots
  <2> QED BY <1>2, <1>3, <2>2
<1> HIDE DEF found
<1>5. first = found
  BY <1>4, FS_Subset
<1> HIDE DEF first
<1>6. {t.keys[i] : i \in first} = T
  BY <1>3, <1>5, InRange
<1>7. e \in [on : BOOLEAN, keys : SUBSET Key, scan : Nat]
  BY <1>2, <1>6
<1>8. e.on /\ e.keys = T /\ e.scan = 1
  BY <1>6
<1> HIDE DEF e, T
<1>9. /\ d \in Table /\ d.keys = t.keys /\ d.deadKeys = t.deadKeys /\ d.dead = e /\ d.kidx = t.kidx
      /\ SameStore(t, d)
  BY <1>2, <1>7 DEF Table, SameStore
<1>10. DeadTidy(d.keys, d.dead, D)
  BY <1>2, <1>8, <1>9 DEF DeadTidy, T
<1> HIDE DEF d
<1> QED BY <1>1, <1>2, <1>8, <1>9, <1>10 DEF Tidy

\* takeProbedSlot: the key takes the first tombstone's slot, on a short slice.
LEMMA ProbedTidy ==
  ASSUME NEW t, NEW D, NEW k, Pending(t, D, k), k \notin Range(t.keys), ~t.dead.on
  PROVE  Tidy(takeProbedSlot(t, k), D \cup {k}) /\ SameStore(t, takeProbedSlot(t, k))
<1> DEFINE I == {j \in DOMAIN t.keys : ~alive(t, t.keys[j])}
<1>1. /\ t \in Table /\ Tidy(t, D) /\ k \in Key /\ k \notin D
      /\ D \subseteq DOMAIN t.hash
      /\ DOMAIN t.keys \subseteq Nat \ {0}
  BY TableFields DEF Pending
<1>2. I \in SUBSET (Nat \ {0})
  BY <1>1
<1>3. PICK i : i = Least(I)
  OBVIOUS
<1>4. takeProbedSlot(t, k) = IF i = 0 THEN appendKey(t, k)
                             ELSE [takeKeySlot(t, i, k) EXCEPT !.deadKeys = @ - 1]
  BY <1>3 DEF takeProbedSlot
<1>5. CASE i = 0
  BY <1>1, <1>4, <1>5, AppendTidy
<1>6. CASE i # 0
  <2>1. i \in DOMAIN t.keys /\ t.keys[i] \notin D
    BY <1>1, <1>2, <1>3, <1>6, Least0 DEF alive
  <2> DEFINE u == takeKeySlot(t, i, k)
             r == [u EXCEPT !.deadKeys = @ - 1]
  <2>2. /\ u \in Table /\ SameStore(t, u)
        /\ u.deadKeys = t.deadKeys /\ u.dead = t.dead
        /\ t.deadKeys >= 1
        /\ IsInjective(u.keys) /\ D \cup {k} \subseteq Range(u.keys)
        /\ Cardinality(Range(u.keys) \ (D \cup {k})) = t.deadKeys - 1
        /\ IndexTidy(u.keys, u.kidx)
    BY <1>1, <2>1, TakenSlot
  <2>3. t.deadKeys - 1 \in Nat
    BY <1>1, <2>2, TableFields
  <2> HIDE DEF u
  <2>4. /\ r \in Table /\ SameStore(u, r) /\ r.keys = u.keys /\ r.kidx = u.kidx /\ r.dead = u.dead
        /\ r.deadKeys = t.deadKeys - 1
    BY <2>2, <2>3 DEF Table, SameStore
  <2> HIDE DEF r
  <2>5. Tidy(r, D \cup {k})
    BY <2>2, <2>4 DEF Tidy, DeadTidy
  <2>6. takeProbedSlot(t, k) = r
    BY <1>4, <1>6 DEF r, u
  <2> QED BY <2>2, <2>4, <2>5, <2>6, SameStoreTwice
<1> QED BY <1>5, <1>6

\* takeKnownSlot: the key takes the slot of a tombstone the index knows.
LEMMA KnownTidy ==
  ASSUME NEW t, NEW D, NEW k, Pending(t, D, k), k \notin Range(t.keys), t.dead.on
  PROVE  Tidy(takeKnownSlot(t, k), D \cup {k}) /\ SameStore(t, takeKnownSlot(t, k))
<1> DEFINE I == {j \in DOMAIN t.keys : j >= t.dead.scan /\ t.keys[j] \in t.dead.keys}
<1>1. /\ t \in Table /\ Tidy(t, D) /\ k \in Key /\ k \notin D
      /\ t.dead.keys = Range(t.keys) \ D /\ t.dead.scan \in Nat
      /\ \A j \in DOMAIN t.keys : t.keys[j] \notin D => j >= t.dead.scan
      /\ DOMAIN t.keys \subseteq Nat \ {0}
  BY TableFields DEF Pending, Tidy, DeadTidy
<1>2. I \in SUBSET (Nat \ {0})
  BY <1>1
<1>3. PICK i : i = Least(I)
  OBVIOUS
<1>7. t \in Table /\ Tidy(t, D) /\ k \in Key
  BY <1>1
<1> DEFINE u == takeKeySlot(t, i, k)
           e == [on |-> TRUE, keys |-> t.dead.keys \ {t.keys[i]}, scan |-> i + 1]
           s == [u EXCEPT !.dead = [on |-> TRUE, keys |-> @.keys \ {t.keys[i]}, scan |-> i + 1]]
           r == dropDeadKey(s)
<1>4. takeKnownSlot(t, k) = IF i = 0 THEN appendKey(t, k) ELSE r
  BY <1>3 DEF takeKnownSlot
<1>5. CASE i = 0
  BY <1>1, <1>4, <1>5, AppendTidy
<1>6. CASE i # 0
  <2>1. /\ i \in DOMAIN t.keys /\ t.keys[i] \notin D /\ i \in Nat
        /\ \A j \in I : i <= j
    BY <1>1, <1>2, <1>3, <1>6, Least0
  <2>a. i \in DOMAIN t.keys /\ t.keys[i] \notin D
    BY <2>1
  <2>2. /\ u \in Table /\ SameStore(t, u)
        /\ u.deadKeys = t.deadKeys /\ u.dead = t.dead
        /\ t.deadKeys >= 1
        /\ IsInjective(u.keys) /\ D \cup {k} \subseteq Range(u.keys)
        /\ Range(u.keys) \ (D \cup {k}) = (Range(t.keys) \ D) \ {t.keys[i]}
        /\ Cardinality(Range(u.keys) \ (D \cup {k})) = t.deadKeys - 1
        /\ IndexTidy(u.keys, u.kidx)
        /\ DOMAIN u.keys = DOMAIN t.keys /\ u.keys[i] = k
        /\ \A j \in DOMAIN t.keys : j # i => u.keys[j] = t.keys[j]
    BY <1>7, <2>a, TakenSlot
  <2>3. t.deadKeys - 1 \in Nat /\ t.dead.keys \subseteq Key
    BY <1>1, <2>2, TableFields
  <2> HIDE DEF u
  <2>4. s = [u EXCEPT !.dead = e] /\ e \in [on : BOOLEAN, keys : SUBSET Key, scan : Nat]
    BY <2>1, <2>2, <2>3
  <2>5. e.on /\ e.keys = Range(u.keys) \ (D \cup {k}) /\ e.scan = i + 1
    BY <1>1, <2>2
  <2>6. ASSUME NEW j \in DOMAIN u.keys, u.keys[j] \notin D \cup {k} PROVE j >= i + 1
    <3>1. j # i /\ j \in DOMAIN t.keys /\ u.keys[j] = t.keys[j]
      BY <2>2, <2>6
    <3>2. j \in I
      BY <1>1, <2>6, <3>1, InRange
    <3>3. i <= j /\ j \in Nat
      BY <1>2, <2>1, <3>2
    <3> QED BY <2>1, <3>1, <3>3
  <2> HIDE DEF e
  <2>7. DeadTidy(u.keys, e, D \cup {k})
    BY <2>5, <2>6 DEF DeadTidy
  <2>8. DeadTidy(u.keys, NoDeadIndex, D \cup {k}) /\ NoDeadIndex \in [on : BOOLEAN, keys : SUBSET Key, scan : Nat]
    BY DEF DeadTidy, NoDeadIndex
  <2>9. /\ s \in Table /\ s.deadKeys = t.deadKeys /\ s.keys = u.keys /\ s.kidx = u.kidx /\ s.dead = e
        /\ SameStore(u, s)
    BY <2>2, <2>4 DEF Table, SameStore
  <2> HIDE DEF s
  <2>10. /\ r \in Table /\ r.deadKeys = t.deadKeys - 1 /\ r.keys = u.keys /\ r.kidx = u.kidx
         /\ r.dead \in {e, NoDeadIndex} /\ SameStore(s, r)
    BY ZenonT(40), <2>3, <2>4, <2>8, <2>9 DEF Table, SameStore, dropDeadKey
  <2> HIDE DEF r
  <2>11. Tidy(r, D \cup {k})
    BY <2>2, <2>7, <2>8, <2>10 DEF Tidy
  <2> QED BY <1>4, <1>6, <2>2, <2>9, <2>10, <2>11, SameStoreTwice
<1> QED BY <1>5, <1>6

\* reuseOrAppendKey: a key without a slot gets one, a tombstone's if there is any.
LEMMA ReusedTidy ==
  ASSUME NEW t, NEW D, NEW k, Pending(t, D, k), k \notin Range(t.keys)
  PROVE  Tidy(reuseOrAppendKey(t, k), D \cup {k}) /\ SameStore(t, reuseOrAppendKey(t, k))
<1>1. t \in Table /\ Tidy(t, D) /\ k \in Key /\ t.deadKeys \in Nat
  BY TableFields DEF Pending
<1>2. CASE t.deadKeys <= 0
  <2>1. reuseOrAppendKey(t, k) = appendKey(t, k)
    BY <1>1, <1>2 DEF reuseOrAppendKey
  <2> QED BY <1>1, <2>1, AppendTidy
<1>3. CASE t.deadKeys > 0 /\ ~t.dead.on /\ Len(t.keys) <= deadIndexThreshold
  <2>1. reuseOrAppendKey(t, k) = takeProbedSlot(t, k)
    BY <1>1, <1>3 DEF reuseOrAppendKey
  <2> QED BY <1>3, <2>1, ProbedTidy
<1>4. CASE t.deadKeys > 0 /\ ~(~t.dead.on /\ Len(t.keys) <= deadIndexThreshold)
  <2> DEFINE d == IF t.dead.on THEN t ELSE buildDeadIndex(t, {})
  <2>1. reuseOrAppendKey(t, k) = takeKnownSlot(d, k)
    BY <1>1, <1>4 DEF reuseOrAppendKey
  <2>2. SameStore(t, d) /\ d.keys = t.keys /\ d.dead.on /\ Tidy(d, D)
    <3>1. CASE t.dead.on
      BY <1>1, <3>1 DEF SameStore
    <3>2. CASE ~t.dead.on
      BY <3>2, BuiltIndex
    <3> QED BY <3>1, <3>2
  <2> HIDE DEF d
  <2>3. Pending(d, D, k)
    BY <2>2, PendingOn
  <2> QED BY <2>1, <2>2, <2>3, KnownTidy, SameStoreTwice
<1> QED BY <1>1, <1>2, <1>3, <1>4

\* ReviveDead finds the key exactly if it has a slot, and then it is no tombstone.
LEMMA RevivedTidy ==
  ASSUME NEW t, NEW D, NEW k, Pending(t, D, k), NEW pending, pending \subseteq {k},
         k \in DOMAIN t.hash => pending = {k}, t.deadKeys > 0
  PROVE  LET r == ReviveDead(t, k, pending) IN
         /\ r.found <=> k \in Range(t.keys)
         /\ SameStore(t, r.t)
         /\ r.found => Tidy(r.t, D \cup {k})
         /\ ~r.found => Tidy(r.t, D) /\ r.t.keys = t.keys
<1> DEFINE near == \E i \in DOMAIN t.keys : i <= deadIndexThreshold /\ t.keys[i] = k
           d == IF t.dead.on THEN t ELSE buildDeadIndex(t, pending)
           R == ReviveDead(t, k, pending)
<1> SUFFICES /\ R.found <=> k \in Range(t.keys)
             /\ SameStore(t, R.t)
             /\ R.found => Tidy(R.t, D \cup {k})
             /\ ~R.found => Tidy(R.t, D) /\ R.t.keys = t.keys
  OBVIOUS
<1>1. /\ t \in Table /\ Tidy(t, D) /\ k \in Key /\ k \notin D /\ t.deadKeys \in Nat
      /\ DOMAIN t.keys = 1 .. Len(t.keys) /\ Len(t.keys) \in Nat
  BY TableFields DEF Pending
<1>2. deadIndexThreshold \in Nat
  BY ThresholdAssumption
<1>3. near => k \in Range(t.keys)
  BY InRange
<1>4. ~near /\ Len(t.keys) <= deadIndexThreshold => k \notin Range(t.keys)
  BY <1>1, <1>2, InRange
<1>5. SameStore(t, d) /\ d.keys = t.keys /\ d.deadKeys = t.deadKeys /\ d.dead.on /\ Tidy(d, D)
  <2>1. CASE t.dead.on
    BY <1>1, <2>1 DEF SameStore
  <2>2. CASE ~t.dead.on
    <3>1. SameStore(t, d) /\ d.keys = t.keys /\ d.deadKeys = t.deadKeys /\ d.dead.on /\ Tidy(d, D)
      BY <2>2, BuiltIndex
    <3> QED BY <2>2, <3>1
  <2> QED BY <2>1, <2>2
<1>6. t.deadKeys - 1 \in Nat
  BY <1>1
\* What a key that has a slot leaves behind.
<1>7. ASSUME k \in Range(t.keys)
      PROVE  /\ D \cup {k} \subseteq Range(t.keys)
             /\ Range(t.keys) \ (D \cup {k}) = (Range(t.keys) \ D) \ {k}
             /\ Cardinality(Range(t.keys) \ (D \cup {k})) = t.deadKeys - 1
  <2>1. IsFiniteSet(Range(t.keys) \ D) /\ t.deadKeys = Cardinality(Range(t.keys) \ D)
    BY <1>1, TidyCount DEF Tidy
  <2>2. D \subseteq Range(t.keys)
    BY <1>1 DEF Tidy
  <2>3. Range(t.keys) \ (D \cup {k}) = (Range(t.keys) \ D) \ {k} /\ k \in Range(t.keys) \ D
    BY <1>1, <1>7
  <2> QED BY <1>7, <2>1, <2>2, <2>3, OneLess
<1>8. CASE ~t.dead.on /\ near
  <2> DEFINE r == [t EXCEPT !.deadKeys = @ - 1]
  <2>1. R = [found |-> TRUE, t |-> r]
    BY <1>8 DEF ReviveDead
  <2>2. /\ r \in Table /\ SameStore(t, r) /\ r.keys = t.keys /\ r.kidx = t.kidx /\ r.dead = t.dead
        /\ r.deadKeys = t.deadKeys - 1
    BY <1>1, <1>6 DEF Table, SameStore
  <2> HIDE DEF r
  <2>3. Tidy(r, D \cup {k})
    BY <1>1, <1>3, <1>7, <1>8, <2>2 DEF Tidy, DeadTidy
  <2>4. R.found = TRUE /\ R.t = r
    BY <2>1
  <2> QED BY <1>3, <1>8, <2>2, <2>3, <2>4
<1>9. CASE ~t.dead.on /\ ~near /\ Len(t.keys) <= deadIndexThreshold
  <2>1. R = [found |-> FALSE, t |-> t]
    BY <1>9 DEF ReviveDead
  <2>2. R.found = FALSE /\ R.t = t /\ SameStore(t, t)
    BY <1>1, <2>1 DEF SameStore
  <2> QED BY <1>1, <1>4, <1>9, <2>2
<1>10. CASE t.dead.on \/ (~near /\ ~(Len(t.keys) <= deadIndexThreshold))
  <2>1. SameStore(t, d) /\ d.keys = t.keys /\ d.deadKeys = t.deadKeys /\ d.dead.on /\ Tidy(d, D)
        /\ d \in Table
    BY <1>5, <1>10 DEF SameStore
  <2> DEFINE e == [on |-> TRUE, keys |-> d.dead.keys \ {k}, scan |-> d.dead.scan]
             s == [d EXCEPT !.dead = [on |-> TRUE, keys |-> @.keys \ {k}, scan |-> @.scan]]
             r == IF k \in d.dead.keys THEN dropDeadKey(s) ELSE d
  <2>2. R = [found |-> k \in d.dead.keys, t |-> r]
    <3>1. R = CASE ~t.dead.on /\ near -> [found |-> TRUE, t |-> [t EXCEPT !.deadKeys = @ - 1]]
        [] ~t.dead.on /\ ~near /\ Len(t.keys) <= deadIndexThreshold ->
             [found |-> FALSE, t |-> t]
        [] OTHER -> [found |-> k \in d.dead.keys, t |-> r]
      BY DEF ReviveDead
    <3> HIDE DEF R, r, d, near
    <3> QED BY <1>10, <3>1
  <2> HIDE DEF d
  <2>3. d.dead.keys = Range(t.keys) \ D
    BY <2>1 DEF Tidy, DeadTidy
  <2>4. R.found <=> k \in Range(t.keys)
    <3>1. R.found = (k \in d.dead.keys)
      <4> HIDE DEF R, r
      <4> QED BY <2>2
    <3> QED BY <1>1, <2>3, <3>1
  <2>5. CASE k \in Range(t.keys)
    <3>1. e \in [on : BOOLEAN, keys : SUBSET Key, scan : Nat] /\ e.on = TRUE /\ e.scan = d.dead.scan
          /\ e.keys = Range(t.keys) \ (D \cup {k})
      BY <1>7, <2>1, <2>3, <2>5, TableFields
    <3>2. DeadTidy(t.keys, e, D \cup {k})
      BY <2>1, <3>1 DEF DeadTidy, Tidy
    <3>3. DeadTidy(t.keys, NoDeadIndex, D \cup {k}) /\ NoDeadIndex \in [on : BOOLEAN, keys : SUBSET Key, scan : Nat]
      BY DEF DeadTidy, NoDeadIndex
    <3>4. s = [d EXCEPT !.dead = e]
      OBVIOUS
    <3> HIDE DEF e
    <3>5. /\ s \in Table /\ s.deadKeys = t.deadKeys /\ s.keys = t.keys /\ s.kidx = d.kidx /\ s.dead = e
          /\ SameStore(d, s)
      BY <2>1, <3>1, <3>4 DEF Table, SameStore
    <3> HIDE DEF s
    <3>6. r = dropDeadKey(s)
      BY <1>1, <2>3, <2>5
    <3> HIDE DEF r
    <3>7. /\ r \in Table /\ r.deadKeys = t.deadKeys - 1 /\ r.keys = t.keys /\ r.kidx = d.kidx
          /\ r.dead \in {e, NoDeadIndex} /\ SameStore(s, r)
      BY <1>6, <3>1, <3>3, <3>5, <3>6 DEF Table, SameStore, dropDeadKey
    <3>8. Tidy(r, D \cup {k})
      BY <1>7, <2>1, <2>5, <3>2, <3>3, <3>7 DEF Tidy
    <3>9. R.t = r
      <4> HIDE DEF R
      <4> QED BY <2>2
    <3> QED BY <2>1, <2>4, <2>5, <3>5, <3>7, <3>8, <3>9, SameStoreTwice
  <2>6. CASE k \notin Range(t.keys)
    <3>1. R.t = d
      <4>1. r = d
        BY <2>3, <2>6
      <4> HIDE DEF R, r
      <4> QED BY <2>2, <4>1
    <3> QED BY <2>1, <2>4, <2>6, <3>1
  <2> QED BY <2>5, <2>6
<1> QED BY <1>8, <1>9, <1>10

\* AddKey: a key that becomes alive has one slot, its own if it had one.
LEMMA AddedTidy ==
  ASSUME NEW t, NEW D, NEW k, Pending(t, D, k), NEW pending, pending \subseteq {k},
         k \in DOMAIN t.hash => pending = {k}
  PROVE  Tidy(AddKey(t, k, pending), D \cup {k}) /\ SameStore(t, AddKey(t, k, pending))
<1>1. t \in Table /\ Tidy(t, D) /\ k \in Key \ D /\ t.deadKeys \in Nat
  BY TableFields DEF Pending
<1>2. CASE t.deadKeys <= 0
  <2>1. AddKey(t, k, pending) = reuseOrAppendKey(t, k)
    BY <1>2 DEF AddKey
  <2>2. Range(t.keys) \ D = {}
    <3>1. t.deadKeys = 0
      BY <1>1, <1>2
    <3> QED BY <1>1, <3>1, TidyCount
  <2>3. k \notin Range(t.keys)
    BY <1>1, <2>2
  <2> QED BY <2>1, <2>3, ReusedTidy
<1>3. CASE t.deadKeys > 0
  <2> DEFINE r == ReviveDead(t, k, pending)
  <2>1. /\ r.found <=> k \in Range(t.keys)
        /\ SameStore(t, r.t)
        /\ r.found => Tidy(r.t, D \cup {k})
        /\ ~r.found => Tidy(r.t, D) /\ r.t.keys = t.keys
    BY <1>3, RevivedTidy
  <2>2. AddKey(t, k, pending) = IF r.found THEN r.t ELSE reuseOrAppendKey(r.t, k)
    BY <1>1, <1>3 DEF AddKey
  <2> HIDE DEF r
  <2>3. CASE r.found
    BY <2>1, <2>2, <2>3
  <2>4. CASE ~r.found
    <3>1. Pending(r.t, D, k) /\ k \notin Range(r.t.keys)
      BY <2>1, <2>4, PendingOn
    <3> QED BY <2>1, <2>2, <2>4, <3>1, ReusedTidy, SameStoreTwice
  <2> QED BY <2>3, <2>4
<1> QED BY <1>1, <1>2, <1>3

-----------------------------------------------------------------------------
(* A key stops being alive: k, one of the keys D.                           *)

\* MarkDead: a key that dies keeps its slot as a tombstone.
LEMMA MarkedTidy ==
  ASSUME NEW t \in Table, NEW D, Tidy(t, D), NEW k \in D
  PROVE  /\ Tidy(MarkDead(t, k), D \ {k}) /\ SameStore(t, MarkDead(t, k))
         /\ MarkDead(t, k).keys = t.keys
<1> DEFINE e == NoteDead(t.dead, k, 1)
           r == [t EXCEPT !.deadKeys = @ + 1, !.dead = e]
<1>1. /\ k \in Range(t.keys) /\ k \in Key /\ t.deadKeys \in Nat
      /\ \A i \in DOMAIN t.keys : i >= 1
  BY TableFields DEF Tidy
<1>2. t.dead \in [on : BOOLEAN, keys : SUBSET Key, scan : Nat]
  BY TableFields
<1>3. /\ e \in [on : BOOLEAN, keys : SUBSET Key, scan : Nat]
      /\ e.on = t.dead.on
      /\ t.dead.on => e.keys = t.dead.keys \cup {k} /\ e.scan = 1
  BY <1>1, <1>2, NotedDead
<1>4. Range(t.keys) \ (D \ {k}) = (Range(t.keys) \ D) \cup {k} /\ k \notin Range(t.keys) \ D
  BY <1>1
<1>5. Cardinality(Range(t.keys) \ (D \ {k})) = t.deadKeys + 1
  <2>1. IsFiniteSet(Range(t.keys) \ D) /\ t.deadKeys = Cardinality(Range(t.keys) \ D)
    BY TidyCount DEF Tidy
  <2> QED BY <1>4, <2>1, FS_AddElement
<1> HIDE DEF e
<1>6. /\ r \in Table /\ r.keys = t.keys /\ r.kidx = t.kidx /\ r.dead = e
      /\ r.deadKeys = t.deadKeys + 1 /\ SameStore(t, r)
  <2>1. e \in [on : BOOLEAN, keys : SUBSET Key, scan : Nat] /\ t.deadKeys + 1 \in Nat
    BY <1>1, <1>3
  <2> QED BY <2>1 DEF Table, SameStore
<1> HIDE DEF r
<1>7. DeadTidy(t.keys, e, D \ {k})
  BY <1>1, <1>3, <1>4 DEF Tidy, DeadTidy
<1>8. Tidy(r, D \ {k})
  BY <1>5, <1>6, <1>7 DEF Tidy
<1>9. MarkDead(t, k) = r
  BY DEF MarkDead, r, e
<1> QED BY <1>6, <1>8, <1>9

\* Wherever the cursor points and whatever the index says, a key's slot is found.
LEMMA SlotFound ==
  ASSUME NEW t \in Table, NEW k, NEW x
  PROVE  /\ k \in Range(t.keys) => SlotBy(t, k, x) \in DOMAIN t.keys /\ t.keys[SlotBy(t, k, x)] = k
         /\ k \notin Range(t.keys) => SlotBy(t, k, x) = 0
<1>1. DOMAIN t.keys \subseteq Nat \ {0} /\ t.iterCur \in Nat
  BY TableFields
<1>2. CASE AtCursor(t, k)
  <2>1. t.iterCur \in DOMAIN t.keys /\ t.keys[t.iterCur] = k /\ SlotBy(t, k, x) = t.iterCur
    BY <1>2 DEF AtCursor, SlotBy
  <2> QED BY <2>1, InRange
<1>3. CASE ~AtCursor(t, k) /\ indexedSlot(t, k, x) # 0
  <2>1. /\ indexedSlot(t, k, x) \in DOMAIN t.keys /\ t.keys[indexedSlot(t, k, x)] = k
    BY <1>3 DEF indexedSlot
  <2>2. SlotBy(t, k, x) = indexedSlot(t, k, x)
    BY <1>3 DEF SlotBy
  <2> QED BY <2>1, <2>2, InRange
<1>4. CASE ~AtCursor(t, k) /\ indexedSlot(t, k, x) = 0
  <2> DEFINE I == {i \in DOMAIN t.keys : t.keys[i] = k}
  <2>1. SlotBy(t, k, x) = Least(I)
    BY <1>4 DEF SlotBy, scanForSlot
  <2>2. I \in SUBSET (Nat \ {0})
    BY <1>1
  <2>3. I = {} <=> k \notin Range(t.keys)
    BY InRange
  <2> QED BY <2>1, <2>2, <2>3, Least0
<1> QED BY <1>2, <1>3, <1>4

\* A sequence without repetition whose last slot is given up.
LEMMA Shortened ==
  ASSUME NEW S, NEW s \in Seq(S), s # <<>>, IsInjective(s)
  PROVE  /\ Front(s) \in Seq(S) /\ Len(Front(s)) = Len(s) - 1 /\ Len(s) \in Nat \ {0}
         /\ DOMAIN s = 1 .. Len(s)
         /\ DOMAIN Front(s) = DOMAIN s \ {Len(s)}
         /\ \A i \in DOMAIN Front(s) : Front(s)[i] = s[i]
         /\ Range(Front(s)) = Range(s) \ {s[Len(s)]}
         /\ IsInjective(Front(s))
<1> DEFINE f == SubSeq(s, 1, Len(s) - 1)
<1>1. Front(s) = f
  BY DEF Front
<1>2. Len(s) \in Nat \ {0} /\ DOMAIN s = 1 .. Len(s)
  BY EmptySeq
<1>3. /\ f \in Seq(S) /\ Len(f) = Len(s) - 1
      /\ \A i \in 1 .. Len(s) - 1 : f[i] = s[i]
  <2>1. 1 \in 1 .. Len(s) + 1 /\ Len(s) - 1 \in 0 .. Len(s)
    BY <1>2
  <2> QED BY <1>2
<1> HIDE DEF f
<1>a. DOMAIN f = 1 .. Len(s) - 1
  <2>1. DOMAIN f = 1 .. Len(f)
    BY <1>3
  <2> QED BY <2>1, <1>3
<1>4. DOMAIN f = DOMAIN s \ {Len(s)}
  BY <1>2, <1>a
<1>5. \A i \in DOMAIN f : f[i] = s[i] /\ i \in DOMAIN s /\ i # Len(s)
  <2>1. \A i \in DOMAIN f : f[i] = s[i]
    BY <1>3, <1>a
  <2> QED BY <1>4, <2>1
<1>6. IsInjective(f)
  BY <1>5 DEF IsInjective
<1>7. Range(f) = Range(s) \ {s[Len(s)]}
  <2>1. Len(s) \in DOMAIN s
    BY <1>2
  <2>2. ASSUME NEW y \in Range(f) PROVE y \in Range(s) \ {s[Len(s)]}
    <3>1. PICK i \in DOMAIN f : f[i] = y
      BY InRange
    <3>2. s[i] = y /\ i \in DOMAIN s /\ i # Len(s)
      BY <1>5, <3>1
    <3>3. s[i] # s[Len(s)]
      BY <2>1, <3>2 DEF IsInjective
    <3> QED BY <3>2, <3>3, InRange
  <2>3. ASSUME NEW y \in Range(s) \ {s[Len(s)]} PROVE y \in Range(f)
    <3>1. PICK i \in DOMAIN s : s[i] = y
      BY InRange
    <3>2. i \in DOMAIN f
      BY <1>4, <3>1
    <3> QED BY <1>5, <3>1, <3>2, InRange
  <2> QED BY <2>2, <2>3
<1> QED BY <1>1, <1>2, <1>3, <1>4, <1>5, <1>6, <1>7

\* removeLiveKey: the key is gone from its slot, or has become a tombstone.
LEMMA RemovedTidy ==
  ASSUME NEW t \in Table, NEW D, Tidy(t, D), NEW k \in D
  PROVE  Tidy(removeLiveKey(t, k), D \ {k}) /\ SameStore(t, removeLiveKey(t, k))
<1>1. /\ k \in Range(t.keys) /\ k \in Key /\ t.deadKeys \in Nat /\ t.keys \in Seq(Key)
      /\ IsInjective(t.keys) /\ D \subseteq Range(t.keys)
      /\ DOMAIN t.keys = 1 .. Len(t.keys) /\ Len(t.keys) \in Nat
      /\ t.dead \in [on : BOOLEAN, keys : SUBSET Key, scan : Nat]
      /\ t.kidx \in [on : BOOLEAN, slot : Partial(Nat)]
      /\ t.deadKeys = Cardinality(Range(t.keys) \ D)
      /\ IsFiniteSet(Range(t.keys) \ D)
  BY TableFields, TidyCount DEF Tidy
<1>2. PICK i : i = keySlot(t, k)
  OBVIOUS
<1>3. i \in DOMAIN t.keys /\ t.keys[i] = k /\ i \in Nat /\ i # 0
  BY <1>1, <1>2, SlotFound DEF keySlot
<1>4. \A j \in DOMAIN t.keys : t.keys[j] = k => j = i
  BY <1>1, <1>3 DEF IsInjective
<1>5. CASE i = Len(t.keys)
  <2> DEFINE keys == Front(t.keys)
             y == [on |-> TRUE, slot |-> Restrict(t.kidx.slot, DOMAIN t.kidx.slot \ {k})]
             x == IF t.kidx.on THEN y ELSE t.kidx
             r == [t EXCEPT !.keys = keys, !.kidx = x]
  <2>1. removeLiveKey(t, k) = r
    BY <1>2, <1>3, <1>5 DEF removeLiveKey
  <2>2. /\ keys \in Seq(Key) /\ DOMAIN keys = DOMAIN t.keys \ {i}
        /\ \A j \in DOMAIN keys : keys[j] = t.keys[j]
        /\ Range(keys) = Range(t.keys) \ {k}
        /\ IsInjective(keys)
    <3>1. t.keys # <<>>
      BY <1>1, <1>3
    <3> QED BY <1>1, <1>3, <1>5, <3>1, Shortened
  <2>3. /\ x \in [on : BOOLEAN, slot : Partial(Nat)] /\ x.on = t.kidx.on
        /\ t.kidx.on => /\ DOMAIN x.slot = DOMAIN t.kidx.slot \ {k}
                        /\ \A z \in DOMAIN x.slot : x.slot[z] = t.kidx.slot[z]
    <3>1. CASE t.kidx.on
      <4>1. t.kidx.slot \in [DOMAIN t.kidx.slot -> Nat] /\ DOMAIN t.kidx.slot \subseteq Key
        BY <1>1, PartialDomain
      <4> DEFINE f == Restrict(t.kidx.slot, DOMAIN t.kidx.slot \ {k})
      <4>2. /\ f \in [DOMAIN t.kidx.slot \ {k} -> Nat]
            /\ DOMAIN f = DOMAIN t.kidx.slot \ {k}
            /\ \A z \in DOMAIN f : f[z] = t.kidx.slot[z]
        BY <4>1 DEF Restrict
      <4>3. f \in Partial(Nat)
        BY <4>1, <4>2, PartialIs
      <4> HIDE DEF f
      <4>4. x = [on |-> TRUE, slot |-> f]
        BY <3>1 DEF f
      <4> QED BY <3>1, <4>2, <4>3, <4>4
    <3>2. CASE ~t.kidx.on
      BY <1>1, <3>2
    <3> QED BY <3>1, <3>2
  <2> HIDE DEF x, keys
  <2>4. /\ r \in Table /\ r.keys = keys /\ r.kidx = x /\ r.dead = t.dead
        /\ r.deadKeys = t.deadKeys /\ SameStore(t, r)
    BY <2>2, <2>3 DEF Table, SameStore
  <2> HIDE DEF r
  <2>5. Range(keys) \ (D \ {k}) = Range(t.keys) \ D /\ D \ {k} \subseteq Range(keys)
    BY <1>1, <2>2
  <2>6. DeadTidy(keys, t.dead, D \ {k})
    <3>1. DeadTidy(t.keys, t.dead, D)
      BY DEF Tidy
    <3>2. \A j \in DOMAIN keys : j \in DOMAIN t.keys /\ keys[j] = t.keys[j] /\ keys[j] # k
      BY <1>4, <2>2
    <3> QED BY <2>5, <3>1, <3>2 DEF DeadTidy
  <2>7. IndexTidy(keys, x)
    <3>1. IndexTidy(t.keys, t.kidx)
      BY DEF Tidy
    <3>2. \A j \in DOMAIN keys : j \in DOMAIN t.keys /\ keys[j] = t.keys[j] /\ keys[j] \in Range(keys)
      BY <2>2, InRange
    <3> QED BY <2>2, <2>3, <3>1, <3>2 DEF IndexTidy
  <2>8. Tidy(r, D \ {k})
    BY <1>1, <2>2, <2>4, <2>5, <2>6, <2>7 DEF Tidy
  <2> QED BY <2>1, <2>4, <2>8
<1>6. CASE i # Len(t.keys)
  <2> DEFINE n == IF i < t.dead.scan THEN i ELSE t.dead.scan
             e == NoteDead(t.dead, k, n)
             r == [t EXCEPT !.deadKeys = @ + 1, !.dead = e]
  <2>1. removeLiveKey(t, k) = r
    BY <1>2, <1>3, <1>6 DEF removeLiveKey
  <2>2. t.dead.scan \in Nat /\ n \in Nat /\ n <= i /\ n <= t.dead.scan
    BY <1>1, <1>3
  <2>3. /\ e \in [on : BOOLEAN, keys : SUBSET Key, scan : Nat]
        /\ e.on = t.dead.on
        /\ t.dead.on => e.keys = t.dead.keys \cup {k} /\ e.scan = n
    <3>1. k \in Key /\ n \in Nat /\ t.dead \in [on : BOOLEAN, keys : SUBSET Key, scan : Nat]
      BY <1>1, <2>2
    <3> HIDE DEF n
    <3> QED BY <3>1, NotedDead
  <2>4. Range(t.keys) \ (D \ {k}) = (Range(t.keys) \ D) \cup {k} /\ k \notin Range(t.keys) \ D
    BY <1>1
  <2>5. Cardinality(Range(t.keys) \ (D \ {k})) = t.deadKeys + 1
    <3>1. IsFiniteSet(Range(t.keys) \ D) /\ t.deadKeys = Cardinality(Range(t.keys) \ D)
      BY <1>1
    <3> QED BY <2>4, <3>1, FS_AddElement
  <2> HIDE DEF e, n
  <2>6. /\ r \in Table /\ r.keys = t.keys /\ r.kidx = t.kidx /\ r.dead = e
        /\ r.deadKeys = t.deadKeys + 1 /\ SameStore(t, r)
    <3>1. e \in [on : BOOLEAN, keys : SUBSET Key, scan : Nat] /\ t.deadKeys + 1 \in Nat
      BY <1>1, <2>3
    <3> QED BY <3>1 DEF Table, SameStore
  <2> HIDE DEF r
  <2>7. DeadTidy(t.keys, e, D \ {k})
    <3>1. DeadTidy(t.keys, t.dead, D)
      BY DEF Tidy
    <3>2. ASSUME t.dead.on, NEW j \in DOMAIN t.keys, t.keys[j] \notin D \ {k}
          PROVE  j >= n
      <4>1. CASE t.keys[j] = k
        BY <1>3, <1>4, <2>2, <4>1
      <4>2. CASE t.keys[j] # k
        <5>1. j >= t.dead.scan /\ j \in Nat
          BY <1>1, <3>1, <3>2, <4>2 DEF DeadTidy
        <5> QED BY <2>2, <5>1
      <4> QED BY <4>1, <4>2
    <3> QED BY <2>3, <2>4, <3>1, <3>2 DEF DeadTidy
  <2>8. Tidy(r, D \ {k})
    BY <1>1, <2>5, <2>6, <2>7 DEF Tidy
  <2> QED BY <2>1, <2>6, <2>8
<1> QED BY <1>5, <1>6

\* A table whose ordered keys may have been emptied, when none of them was alive.
KeptStore(t, r) ==
  /\ r \in Table
  /\ r.array = t.array /\ r.cap = t.cap /\ r.hash = t.hash
  /\ r.iterBound \in {t.iterBound, 0}

\* dropAllDeadKeys: when all slots hold tombstones, none is left.
LEMMA DroppedTidy ==
  ASSUME NEW t \in Table, NEW D, Tidy(t, D)
  PROVE  Tidy(dropAllDeadKeys(t), D) /\ KeptStore(t, dropAllDeadKeys(t))
<1>1. CASE t.deadKeys = 0 \/ t.deadKeys # Len(t.keys)
  <2>1. dropAllDeadKeys(t) = t
    BY <1>1 DEF dropAllDeadKeys
  <2> QED BY <2>1 DEF KeptStore
<1>2. CASE ~(t.deadKeys = 0 \/ t.deadKeys # Len(t.keys))
  <2> DEFINE r == [t EXCEPT !.keys = <<>>, !.deadKeys = 0, !.dead = NoDeadIndex, !.kidx = NoKeyIndex,
                            !.iterBound = 0, !.iterShape = 0, !.iterCur = 0]
  <2>1. dropAllDeadKeys(t) = r
    BY <1>2 DEF dropAllDeadKeys
  <2>2. /\ t.keys \in Seq(Key) /\ Len(t.keys) \in Nat /\ DOMAIN t.keys = 1 .. Len(t.keys)
        /\ IsInjective(t.keys) /\ D \subseteq Range(t.keys)
        /\ IsFiniteSet(Range(t.keys)) /\ Cardinality(Range(t.keys) \ D) = Len(t.keys)
    BY <1>2, TableFields, TidyCount DEF Tidy
  <2>3. Cardinality(Range(t.keys)) = Len(t.keys)
    <3> DEFINE I == {i \in DOMAIN t.keys : t.keys[i] \in Range(t.keys)}
    <3>1. Cardinality(I) = Cardinality(Range(t.keys))
      BY <2>2, AsManySlots
    <3>2. I = 1 .. Len(t.keys)
      BY <2>2, InRange
    <3>3. Cardinality(1 .. Len(t.keys)) = Len(t.keys)
      BY <2>2, FS_Interval
    <3> QED BY <3>1, <3>2, <3>3
  <2>4. Range(t.keys) \ D = Range(t.keys)
    BY <2>2, <2>3, FS_Subset
  <2>5. D = {}
    BY <2>2, <2>4
  <2>6. /\ <<>> \in Seq(Key) /\ Range(<<>>) = {} /\ IsInjective(<<>>)
        /\ NoDeadIndex \in [on : BOOLEAN, keys : SUBSET Key, scan : Nat]
        /\ NoKeyIndex \in [on : BOOLEAN, slot : Partial(Nat)]
        /\ NoDeadIndex.on = FALSE /\ NoKeyIndex.on = FALSE
    BY EmptyPartial DEF NoDeadIndex, NoKeyIndex, Range, IsInjective
  <2>7. /\ r \in Table /\ r.keys = <<>> /\ r.deadKeys = 0 /\ r.dead = NoDeadIndex
        /\ r.kidx = NoKeyIndex /\ KeptStore(t, r)
    BY <2>6 DEF Table, KeptStore
  <2> HIDE DEF r
  <2>8. Tidy(r, {})
    <3>1. Cardinality(Range(<<>>) \ {}) = 0
      BY <2>6, FS_EmptySet
    <3> QED BY <2>6, <2>7, <3>1 DEF Tidy, DeadTidy, IndexTidy
  <2> QED BY <2>1, <2>5, <2>7, <2>8
<1> QED BY <1>1, <1>2

-----------------------------------------------------------------------------
(* Whole: a table between two operations.  Good: the array and the hash     *)
(* part may still hold the same index.                                      *)

Good(t) ==
  /\ t \in Table
  /\ Tidy(t, DOMAIN t.hash)
  /\ Len(t.array) <= t.cap
  /\ Filled(t.array) \subseteq IntKeys
Whole(t) == Good(t) /\ DOMAIN t.hash \cap DOMAIN t.array = {}

Same(t, r) == \A k \in Key : Get(r, k) = Get(t, k)
Put(t, r, k, v) == \A x \in Key : Get(r, x) = IF x = k THEN v ELSE Get(t, x)
Bounded(t, r) == r.iterBound \in {t.iterBound, 0}

\* A partial function that loses all keys but those of D.
LEMMA Restricted ==
  ASSUME NEW V, NEW f \in Partial(V), NEW D \in SUBSET DOMAIN f
  PROVE  /\ Restrict(f, D) \in Partial(V) /\ DOMAIN Restrict(f, D) = D
         /\ \A x \in D : Restrict(f, D)[x] = f[x]
<1> DEFINE g == Restrict(f, D)
<1>1. DOMAIN f \subseteq Key /\ f \in [DOMAIN f -> V]
  BY PartialDomain
<1>2. g \in [D -> V] /\ DOMAIN g = D /\ \A x \in D : g[x] = f[x]
  BY <1>1 DEF Restrict
<1>3. D \subseteq Key
  BY <1>1
<1> HIDE DEF g
<1>4. g \in Partial(V)
  BY <1>2, <1>3, PartialIs
<1> QED BY <1>2, <1>4 DEF g

\* Unstore: the hash part loses the keys of K, and nothing else changes.
LEMMA Unstored ==
  ASSUME NEW t \in Table, NEW K
  PROVE  LET r == Unstore(t, K) IN
         /\ r \in Table /\ DOMAIN r.hash = DOMAIN t.hash \ K
         /\ \A x \in DOMAIN t.hash \ K : r.hash[x] = t.hash[x]
         /\ r = [t EXCEPT !.hash = r.hash]
         /\ r.array = t.array /\ r.cap = t.cap /\ r.keys = t.keys /\ r.deadKeys = t.deadKeys
         /\ r.dead = t.dead /\ r.kidx = t.kidx /\ r.noPromote = t.noPromote
         /\ r.iterBound = t.iterBound /\ r.iterCur = t.iterCur /\ r.iterShape = t.iterShape
         /\ \A D : Tidy(t, D) => Tidy(r, D)
<1> DEFINE h == Restrict(t.hash, DOMAIN t.hash \ K)
           r == [t EXCEPT !.hash = h]
<1>1. Unstore(t, K) = r
  BY DEF Unstore
<1>2. /\ h \in Partial(Val) /\ DOMAIN h = DOMAIN t.hash \ K
      /\ \A x \in DOMAIN t.hash \ K : h[x] = t.hash[x]
  <2>1. t.hash \in Partial(Val) /\ DOMAIN t.hash \ K \in SUBSET DOMAIN t.hash
    BY TableFields
  <2> QED BY <2>1, Restricted
<1>3. h \in Partial(Val)
  BY <1>2
<1> HIDE DEF h
<1>4. /\ r \in Table /\ r.hash = h
      /\ r.array = t.array /\ r.cap = t.cap /\ r.keys = t.keys /\ r.deadKeys = t.deadKeys
      /\ r.dead = t.dead /\ r.kidx = t.kidx /\ r.noPromote = t.noPromote
      /\ r.iterBound = t.iterBound /\ r.iterCur = t.iterCur /\ r.iterShape = t.iterShape
  BY <1>3 DEF Table
<1>5. r = [t EXCEPT !.hash = r.hash]
  BY <1>4
<1> HIDE DEF r
<1>6. \A D : Tidy(t, D) => Tidy(r, D)
  BY <1>4 DEF Tidy
<1> QED BY <1>1, <1>2, <1>4, <1>5, <1>6

\* Store: the hash part holds v at k, and nothing else changes.
LEMMA Stored ==
  ASSUME NEW t \in Table, NEW k \in Key, NEW v \in Val
  PROVE  LET r == Store(t, k, v) IN
         /\ r \in Table /\ DOMAIN r.hash = DOMAIN t.hash \cup {k}
         /\ r.hash[k] = v
         /\ \A x \in DOMAIN t.hash : x # k => r.hash[x] = t.hash[x]
         /\ r.array = t.array /\ r.cap = t.cap /\ r.keys = t.keys /\ r.deadKeys = t.deadKeys
         /\ r.dead = t.dead /\ r.kidx = t.kidx /\ r.noPromote = t.noPromote
         /\ r.iterBound = t.iterBound /\ r.iterCur = t.iterCur /\ r.iterShape = t.iterShape
         /\ \A D : Tidy(t, D) => Tidy(r, D)
<1> DEFINE E == DOMAIN t.hash \cup {k}
           h == [x \in E |-> IF x = k THEN v ELSE t.hash[x]]
           r == [t EXCEPT !.hash = h]
<1>1. Store(t, k, v) = r
  BY DEF Store
<1>2. DOMAIN t.hash \subseteq Key /\ t.hash \in [DOMAIN t.hash -> Val]
  BY TableFields
<1>3. h \in [E -> Val] /\ E \subseteq Key
  BY <1>2
<1>4. h \in Partial(Val)
  BY <1>3, PartialIs
<1>5. DOMAIN h = E /\ h[k] = v /\ \A x \in DOMAIN t.hash : x # k => h[x] = t.hash[x]
  OBVIOUS
<1> HIDE DEF h
<1>6. /\ r \in Table /\ r.hash = h
      /\ r.array = t.array /\ r.cap = t.cap /\ r.keys = t.keys /\ r.deadKeys = t.deadKeys
      /\ r.dead = t.dead /\ r.kidx = t.kidx /\ r.noPromote = t.noPromote
      /\ r.iterBound = t.iterBound /\ r.iterCur = t.iterCur /\ r.iterShape = t.iterShape
  BY <1>4 DEF Table
<1> HIDE DEF r
<1>7. \A D : Tidy(t, D) => Tidy(r, D)
  BY <1>6 DEF Tidy
<1> QED BY <1>1, <1>5, <1>6, <1>7

\* Get: the array part answers for the positions it has, the hash part for the rest.
LEMMA Values ==
  ASSUME NEW t \in Table, NEW k \in Key
  PROVE  /\ Get(t, k) \in Value
         /\ k \in DOMAIN t.array => Get(t, k) = t.array[k]
         /\ k \notin DOMAIN t.array /\ k \in DOMAIN t.hash =>
              Get(t, k) = t.hash[k] /\ Get(t, k) \in Val /\ Get(t, k) # Nil
         /\ k \notin DOMAIN t.array /\ k \notin DOMAIN t.hash => Get(t, k) = Nil
<1>1. t.hash \in [DOMAIN t.hash -> Val] /\ \A i \in DOMAIN t.array : t.array[i] \in Value
  BY TableFields
<1>2. Nil \notin Val
  BY ValAssumption
<1> QED BY <1>1, <1>2 DEF Get, alive, Value

-----------------------------------------------------------------------------
(* Integers move from the hash part to the array part.                      *)

\* A key that is an integer is an integer key.
LEMMA IntKey ==
  ASSUME NEW k \in Key, k \in Int
  PROVE  k \in IntKeys
BY KeysAssumption DEF Key

\* Same is transitive.
LEMMA SameTwice ==
  ASSUME NEW t, NEW u, NEW r, Same(t, u), Same(u, r)
  PROVE  Same(t, r)
BY DEF Same

\* The filled positions are those that do not hold nil.
LEMMA FilledIs ==
  ASSUME NEW a, NEW i
  PROVE  i \in Filled(a) <=> i \in DOMAIN a /\ a[i] # Nil
BY DEF Filled

\* AppendArray: the array is one longer, and its backing array holds it.
LEMMA ArrayAppended ==
  ASSUME NEW t, Good(t), NEW v \in Val, Len(t.array) + 1 \in IntKeys
  PROVE  LET r == AppendArray(t, v) IN
         /\ r \in Table /\ Good(r) /\ r.hash = t.hash /\ r.iterBound = t.iterBound
         /\ r.array = Append(t.array, v)
<1> DEFINE a == Append(t.array, v)
           c == GoAppendCap(t)
           r == [t EXCEPT !.array = a, !.cap = c]
<1>1. AppendArray(t, v) = r
  BY DEF AppendArray
<1>2. /\ t \in Table /\ Tidy(t, DOMAIN t.hash) /\ Len(t.array) <= t.cap
      /\ Filled(t.array) \subseteq IntKeys /\ t.array \in Seq(Value) /\ t.cap \in Nat
      /\ Len(t.array) \in Nat
  BY TableFields DEF Good
<1>3. v \in Value
  BY DEF Value
<1>4. /\ a \in Seq(Value) /\ Len(a) = Len(t.array) + 1
      /\ DOMAIN a = DOMAIN t.array \cup {Len(t.array) + 1}
      /\ \A i \in DOMAIN t.array : a[i] = t.array[i]
  BY <1>2, <1>3, Appended
<1>5. c \in Nat /\ Len(t.array) + 1 <= c
  BY <1>2 DEF GoAppendCap
<1>6. Filled(a) \subseteq IntKeys
  <2> HIDE DEF a
  <2> QED BY <1>2, <1>4, FilledIs
<1>7. a \in Seq(Value) /\ c \in Nat
  BY <1>4, <1>5
<1> HIDE DEF a, c
<1>8. /\ r \in Table /\ r.array = a /\ r.cap = c /\ r.hash = t.hash /\ r.keys = t.keys
      /\ r.deadKeys = t.deadKeys /\ r.dead = t.dead /\ r.kidx = t.kidx /\ r.iterBound = t.iterBound
  BY <1>2, <1>7 DEF Table
<1> HIDE DEF r
<1>9. Tidy(r, DOMAIN r.hash)
  BY <1>2, <1>8 DEF Tidy
<1>10. Len(a) <= c
  BY <1>4, <1>5
<1>11. Good(r)
  BY <1>6, <1>8, <1>9, <1>10 DEF Good
<1> QED BY <1>1, <1>8, <1>11 DEF a

\* A live key leaves the hash part, value and slot.
LEMMA TakenOut ==
  ASSUME NEW t, Good(t), NEW k \in DOMAIN t.hash
  PROVE  LET r == removeLiveKey(Unstore(t, {k}), k) IN
         /\ Good(r) /\ r.array = t.array /\ r.cap = t.cap /\ r.iterBound = t.iterBound
         /\ DOMAIN r.hash = DOMAIN t.hash \ {k}
         /\ \A x \in DOMAIN r.hash : r.hash[x] = t.hash[x]
<1> DEFINE u == Unstore(t, {k})
           D == DOMAIN t.hash
           r == removeLiveKey(u, k)
<1>1. /\ t \in Table /\ Tidy(t, DOMAIN t.hash) /\ Len(t.array) <= t.cap
      /\ Filled(t.array) \subseteq IntKeys
  BY DEF Good
<1>2. /\ u \in Table /\ DOMAIN u.hash = D \ {k}
      /\ \A x \in D \ {k} : u.hash[x] = t.hash[x]
      /\ u.array = t.array /\ u.cap = t.cap /\ u.iterBound = t.iterBound
      /\ Tidy(u, D)
  BY <1>1, Unstored
<1> HIDE DEF u
<1>3. Tidy(r, D \ {k}) /\ SameStore(u, r)
  BY <1>2, RemovedTidy
<1> HIDE DEF r
<1>4. /\ r \in Table /\ r.hash = u.hash /\ r.array = t.array /\ r.cap = t.cap
      /\ r.iterBound = t.iterBound
  BY <1>2, <1>3 DEF SameStore
<1>5. Good(r)
  BY <1>1, <1>2, <1>3, <1>4 DEF Good
<1> QED BY <1>2, <1>4, <1>5 DEF r, u

Kept(t, r) ==
  /\ Whole(r) /\ Same(t, r) /\ Bounded(t, r)
  /\ Len(r.array) >= Len(t.array)

\* A pass of rehashToArray moves one integer, and the table reads as before.
LEMMA NextMoved ==
  ASSUME NEW t, Whole(t)
  PROVE  Kept(t, MoveNext(t)) /\ MoveNext(t).iterBound = t.iterBound
<1> DEFINE k == Len(t.array) + 1
           r == MoveNext(t)
<1>1. /\ Good(t) /\ t \in Table /\ DOMAIN t.hash \cap DOMAIN t.array = {}
      /\ DOMAIN t.hash \subseteq Key /\ t.hash \in [DOMAIN t.hash -> Val]
      /\ Len(t.array) \in Nat /\ t.array \in Seq(Value)
      /\ t.iterBound \in Nat
  BY TableFields DEF Whole, Good
<1>2. CASE ~(k \in DOMAIN t.hash /\ k <= maxTableEntries)
  <2>1. r = t
    BY <1>2 DEF MoveNext
  <2> QED BY <1>1, <2>1 DEF Kept, Same, Bounded
<1>3. CASE k \in DOMAIN t.hash /\ k <= maxTableEntries
  <2> DEFINE a == AppendArray(t, t.hash[k])
  <2>1. t.hash[k] \in Val /\ k \in IntKeys /\ t.hash[k] \in Value
    BY <1>1, <1>3, IntKey DEF Value
  <2>2. Good(a) /\ a.hash = t.hash /\ a.iterBound = t.iterBound /\ a.array = Append(t.array, t.hash[k])
    BY <1>1, <2>1, ArrayAppended
  <2>3. /\ Len(a.array) = k /\ DOMAIN a.array = DOMAIN t.array \cup {k} /\ k \notin DOMAIN t.array
        /\ a.array[k] = t.hash[k]
        /\ \A i \in DOMAIN t.array : a.array[i] = t.array[i]
    <3> HIDE DEF a
    <3> QED BY <1>1, <2>1, <2>2, Appended
  <2>4. r = removeLiveKey(Unstore(a, {k}), k)
    BY <1>3 DEF MoveNext
  <2> HIDE DEF a, k, r
  <2>5. /\ Good(r) /\ r.array = a.array /\ r.iterBound = a.iterBound
        /\ DOMAIN r.hash = DOMAIN t.hash \ {k}
        /\ \A x \in DOMAIN r.hash : r.hash[x] = t.hash[x]
    BY <1>3, <2>2, <2>4, TakenOut
  <2>6. Whole(r)
    BY <1>1, <2>3, <2>5 DEF Whole
  <2>7. Same(t, r)
    <3> SUFFICES ASSUME NEW x \in Key PROVE Get(r, x) = Get(t, x)
      BY DEF Same
    <3>1. CASE x \in DOMAIN t.array
      <4>1. x \in DOMAIN r.array /\ r.array[x] = t.array[x]
        BY <2>3, <2>5, <3>1
      <4> QED BY <3>1, <4>1 DEF Get
    <3>2. CASE x = k
      <4>1. x \in DOMAIN r.array /\ r.array[x] = t.hash[x] /\ x \notin DOMAIN t.array /\ x \in DOMAIN t.hash
        BY <1>3, <2>3, <2>5, <3>2
      <4> QED BY <4>1 DEF Get, alive
    <3>3. CASE x \notin DOMAIN t.array /\ x # k
      <4>1. /\ x \notin DOMAIN r.array /\ (x \in DOMAIN r.hash <=> x \in DOMAIN t.hash)
            /\ x \in DOMAIN r.hash => r.hash[x] = t.hash[x]
        BY <2>3, <2>5, <3>3
      <4> QED BY <3>3, <4>1 DEF Get, alive
    <3> QED BY <3>1, <3>2, <3>3
  <2>8. Len(r.array) >= Len(t.array)
    <3>1. Len(r.array) = Len(t.array) + 1
      BY <2>3, <2>5 DEF k
    <3> QED BY <1>1, <3>1
  <2> QED BY <2>2, <2>5, <2>6, <2>7, <2>8 DEF Kept, Bounded, r
<1> QED BY <1>2, <1>3

\* Kept is transitive.
LEMMA KeptTwice ==
  ASSUME NEW t, NEW u, NEW r, t \in Table, Kept(t, u), Kept(u, r)
  PROVE  Kept(t, r)
<1>1. Len(t.array) \in Nat /\ Len(u.array) \in Nat /\ Len(r.array) \in Nat
  BY TableFields DEF Kept, Whole, Good
<1>2. Len(r.array) >= Len(t.array)
  BY <1>1 DEF Kept
<1> QED BY <1>2 DEF Kept, Same, Bounded

\* The passes of rehashToArray keep what the table reads as.
LEMMA AllMoved ==
  ASSUME NEW t, Whole(t)
  PROVE  \A n \in 0 .. Cardinality(DOMAIN t.hash) :
           Kept(t, Rehashing(t)[n]) /\ Rehashing(t)[n].iterBound = t.iterBound
<1> DEFINE N == Cardinality(DOMAIN t.hash)
           S == {u \in Table : Kept(t, u) /\ u.iterBound = t.iterBound}
           G == [n \in 0 .. N |-> S]
           F == [p \in Nat \X S |-> MoveNext(p[2])]
<1>1. t \in Table /\ Kept(t, t) /\ t \in S
  <2>1. t \in Table
    BY DEF Whole, Good
  <2>2. Len(t.array) \in Nat
    BY <2>1, TableFields
  <2>3. Kept(t, t)
    BY <2>1, <2>2 DEF Kept, Same, Bounded
  <2> QED BY <2>1, <2>3
<1>2. N \in Nat
  <2>1. DOMAIN t.hash \subseteq Range(t.keys) /\ IsFiniteSet(Range(t.keys))
    BY <1>1, TidyCount DEF Whole, Good, Tidy
  <2> QED BY <2>1, FS_Subset, FS_CardinalityType
<1>3. ASSUME NEW u \in S PROVE MoveNext(u) \in S
  <2>1. Kept(t, u) /\ Whole(u) /\ u.iterBound = t.iterBound
    BY <1>3 DEF Kept
  <2>2. Kept(u, MoveNext(u)) /\ MoveNext(u).iterBound = u.iterBound
    BY <2>1, NextMoved
  <2>3. Kept(t, MoveNext(u)) /\ MoveNext(u) \in Table
    <3>1. MoveNext(u) \in Table
      BY <2>2 DEF Kept, Whole, Good
    <3> QED BY <1>1, <2>1, <2>2, <3>1, KeptTwice
  <2> QED BY <2>1, <2>2, <2>3
<1> HIDE DEF S, N
<1>4. \A n \in 1 .. N : \A u \in G[n - 1] : F[<<n, u>>] \in G[n]
  BY <1>2, <1>3
<1>5. t \in G[0]
  BY <1>1, <1>2
<1>6. \A n \in Nat, u \in S : F[<<n, u>>] = MoveNext(u)
  OBVIOUS
<1>7. \A n \in 0 .. N : G[n] = S
  OBVIOUS
<1> HIDE DEF F, G
<1>8. PICK f : IsRun(f, N, t, F) /\ \A n \in 0 .. N : f[n] \in G[n]
  BY <1>2, <1>4, <1>5, PassesRun
<1>9. f = [n \in 0 .. N |-> IF n = 0 THEN t ELSE MoveNext(f[n - 1])]
  <2>1. \A n \in 0 .. N : n # 0 => F[<<n, f[n - 1]>>] = MoveNext(f[n - 1])
    <3> TAKE n \in 0 .. N
    <3> HAVE n # 0
    <3>1. n - 1 \in 0 .. N /\ n \in Nat
      BY <1>2
    <3>2. f[n - 1] \in S
      BY <1>7, <1>8, <3>1
    <3> QED BY <1>6, <3>1, <3>2
  <2> QED BY <1>8, <2>1 DEF IsRun
<1> DEFINE R == Rehashing(t)
<1>10. R = CHOOSE g : g = [n \in 0 .. N |-> IF n = 0 THEN t ELSE MoveNext(g[n - 1])]
  BY DEF Rehashing, N
<1>11. R = [n \in 0 .. N |-> IF n = 0 THEN t ELSE MoveNext(R[n - 1])]
  BY <1>9, <1>10
<1> HIDE DEF R
<1> DEFINE T == {n \in Nat : n <= N => R[n] \in S}
<1>12. R[0] = t /\ \A n \in 0 .. N : n # 0 => R[n] = MoveNext(R[n - 1])
  BY <1>2, <1>11
<1>13. \A n \in Nat : n \in T
  <2>1. 0 \in T
    BY <1>1, <1>12
  <2>2. ASSUME NEW n \in Nat, n \in T PROVE n + 1 \in T
    <3>1. ASSUME n + 1 <= N PROVE R[n + 1] \in S
      <4>1. n + 1 \in 0 .. N /\ n + 1 # 0 /\ (n + 1) - 1 = n /\ n <= N
        BY <1>2, <3>1
      <4>2. R[n + 1] = MoveNext(R[n])
        BY <1>12, <4>1
      <4> QED BY <1>3, <2>2, <4>1, <4>2
    <3> QED BY <3>1
  <2> HIDE DEF T
  <2> QED BY <2>1, <2>2, Counting
<1>14. \A n \in 0 .. N : R[n] \in S
  BY <1>2, <1>13
<1> QED BY <1>14 DEF R, S, N

\* What a good table is.
LEMMA GoodTable ==
  ASSUME NEW t, Good(t)
  PROVE  /\ t \in Table /\ Tidy(t, DOMAIN t.hash) /\ Len(t.array) <= t.cap
         /\ Filled(t.array) \subseteq IntKeys
BY DEF Good

\* dropAllDeadKeys leaves the array and the hash part alone.
LEMMA DroppedGood ==
  ASSUME NEW t, Good(t)
  PROVE  LET r == dropAllDeadKeys(t) IN
         /\ Good(r) /\ r.array = t.array /\ r.hash = t.hash /\ r.cap = t.cap /\ Bounded(t, r)
<1>1. t \in Table /\ Tidy(t, DOMAIN t.hash) /\ Len(t.array) <= t.cap /\ Filled(t.array) \subseteq IntKeys
  BY GoodTable
<1>2. Tidy(dropAllDeadKeys(t), DOMAIN t.hash) /\ KeptStore(t, dropAllDeadKeys(t))
  BY <1>1, DroppedTidy
<1> QED BY <1>1, <1>2 DEF Good, KeptStore, Bounded

\* rehashToArray moves integers to the array, and the table reads as before.
LEMMA Rehashed ==
  ASSUME NEW t, Whole(t)
  PROVE  Kept(t, rehashToArray(t))
<1> DEFINE N == Cardinality(DOMAIN t.hash)
           u == Rehashing(t)[N]
           d == dropAllDeadKeys(u)
<1>1. t \in Table /\ N \in Nat
  <2>1. t \in Table /\ Tidy(t, DOMAIN t.hash)
    BY GoodTable DEF Whole
  <2>2. DOMAIN t.hash \subseteq Range(t.keys) /\ IsFiniteSet(Range(t.keys))
    BY <2>1, TidyCount DEF Tidy
  <2> QED BY <2>1, <2>2, FS_Subset, FS_CardinalityType
<1>2. rehashToArray(t) \in {u, d}
  BY DEF rehashToArray
<1>3. Kept(t, u)
  <2>1. N \in 0 .. N
    BY <1>1
  <2> QED BY <2>1, AllMoved
<1> HIDE DEF u
<1>4. Kept(u, d)
  <2>1. Good(u) /\ u \in Table /\ DOMAIN u.hash \cap DOMAIN u.array = {} /\ Len(u.array) \in Nat
    BY <1>3, TableFields DEF Kept, Whole, Good
  <2>2. Good(d) /\ d.array = u.array /\ d.hash = u.hash /\ Bounded(u, d)
    BY <2>1, DroppedGood
  <2> HIDE DEF d
  <2>3. Same(u, d)
    BY <2>2 DEF Same, Get, alive
  <2> QED BY <2>1, <2>2, <2>3 DEF Kept, Whole
<1>5. Kept(t, d)
  BY <1>1, <1>3, <1>4, KeptTwice
<1> QED BY <1>2, <1>3, <1>5

-----------------------------------------------------------------------------
(* Without: the keys left when some are taken away, in their order.         *)

\* The members of a finite set of numbers are counted by how many come before.
LEMMA Ranked ==
  ASSUME NEW n \in Nat, NEW I \in SUBSET (1 .. n)
  PROVE  /\ IsFiniteSet(I) /\ Cardinality(I) \in Nat
         /\ [i \in I |-> Cardinality({j \in I : j <= i})] \in Bijection(I, 1 .. Cardinality(I))
<1> DEFINE rank == [i \in I |-> Cardinality({j \in I : j <= i})]
           N == Cardinality(I)
<1>1. IsFiniteSet(I) /\ N \in Nat
  <2>1. IsFiniteSet(1 .. n)
    BY FS_Interval
  <2> QED BY <2>1, FS_Subset, FS_CardinalityType
<1>2. ASSUME NEW i \in I
      PROVE  /\ IsFiniteSet({j \in I : j <= i})
             /\ rank[i] \in 1 .. N
  <2> DEFINE B == {j \in I : j <= i}
  <2>1. B \subseteq I /\ i \in B
    BY <1>2
  <2> HIDE DEF B
  <2>2. IsFiniteSet(B) /\ Cardinality(B) \in Nat /\ Cardinality(B) <= N
    BY <1>1, <2>1, FS_Subset, FS_CardinalityType
  <2>3. Cardinality(B) >= 1
    BY <2>1, <2>2, OneLess
  <2> QED BY <1>1, <2>2, <2>3 DEF B
<1>3. rank \in [I -> 1 .. N]
  BY <1>2
<1>4. ASSUME NEW a \in I, NEW b \in I, a < b PROVE rank[a] < rank[b]
  <2> DEFINE A == {j \in I : j <= a}
             B == {j \in I : j <= b}
  <2>1. A \subseteq B \ {b} /\ b \in B
    <3>1. a \in Int /\ b \in Int /\ a < b /\ \A i \in I : i \in Int
      BY <1>4
    <3>2. \A j \in I : j <= a => j <= b /\ j # b
      BY <3>1
    <3>3. b <= b
      BY <3>1
    <3> QED BY <3>2, <3>3
  <2>2. IsFiniteSet(B) /\ rank[a] = Cardinality(A) /\ rank[b] = Cardinality(B)
    BY <1>2
  <2> HIDE DEF A, B
  <2>3. IsFiniteSet(B \ {b}) /\ Cardinality(B \ {b}) = Cardinality(B) - 1 /\ Cardinality(B) \in Nat
    BY <2>1, <2>2, OneLess, FS_RemoveElement
  <2>4. Cardinality(A) <= Cardinality(B \ {b}) /\ Cardinality(A) \in Nat
    BY <2>1, <2>3, FS_Subset, FS_CardinalityType
  <2> QED BY <2>2, <2>3, <2>4
<1>5. ASSUME NEW a \in I, NEW b \in I, rank[a] = rank[b] PROVE a = b
  <2>1. rank[a] \in Nat /\ rank[b] \in Nat
    BY <1>2
  <2> HIDE DEF rank
  <2>2. ~(a < b) /\ ~(b < a)
    BY <1>4, <1>5, <2>1
  <2> QED BY <2>2
<1> HIDE DEF rank
<1>6. rank \in Injection(I, 1 .. N)
  BY <1>3, <1>5 DEF Injection, IsInjective
<1>7. IsFiniteSet(1 .. N) /\ Cardinality(1 .. N) = N
  BY <1>1, FS_Interval
<1>8. rank \in Bijection(I, 1 .. N)
  <2>1. rank \in Surjection(I, 1 .. N)
    BY <1>1, <1>6, <1>7, FS_Injection
  <2> QED BY <1>6, <2>1 DEF Bijection
<1> QED BY <1>1, <1>8 DEF rank, N

\* Without: the ordered keys that are left, none of them twice.
LEMMA WithoutIs ==
  ASSUME NEW S, NEW s \in Seq(S), IsInjective(s), NEW K
  PROVE  LET r == Without(s, K) IN
         /\ r \in Seq(S) /\ IsInjective(r) /\ Range(r) = Range(s) \ K
<1> DEFINE kept == {i \in DOMAIN s : s[i] \notin K}
           N == Cardinality(kept)
           nth(n) == CHOOSE i \in kept : Cardinality({j \in kept : j <= i}) = n
           r == [n \in 1 .. N |-> s[nth(n)]]
           rank == [i \in kept |-> Cardinality({j \in kept : j <= i})]
<1>1. Without(s, K) = r
  BY DEF Without
<1>2. Len(s) \in Nat /\ DOMAIN s = 1 .. Len(s) /\ \A i \in DOMAIN s : s[i] \in S
  OBVIOUS
<1>3. kept \in SUBSET (1 .. Len(s)) /\ \A i \in kept : i \in DOMAIN s /\ s[i] \notin K /\ s[i] \in S
  BY <1>2
<1>4. \A i \in DOMAIN s : s[i] \notin K => i \in kept
  OBVIOUS
<1> HIDE DEF kept
<1>5. IsFiniteSet(kept) /\ N \in Nat /\ rank \in Bijection(kept, 1 .. N)
  BY <1>2, <1>3, Ranked
<1>6. /\ rank \in [kept -> 1 .. N]
      /\ \A a, b \in kept : rank[a] = rank[b] => a = b
      /\ \A n \in 1 .. N : \E i \in kept : rank[i] = n
  BY <1>5 DEF Bijection, Injection, Surjection, IsInjective
<1>7. \A i \in kept : rank[i] = Cardinality({j \in kept : j <= i})
  OBVIOUS
<1> HIDE DEF rank
<1>8. ASSUME NEW n \in 1 .. N PROVE nth(n) \in kept /\ rank[nth(n)] = n
  <2>1. \E i \in kept : Cardinality({j \in kept : j <= i}) = n
    BY <1>6, <1>7
  <2>2. nth(n) \in kept /\ Cardinality({j \in kept : j <= nth(n)}) = n
    BY <2>1
  <2> HIDE DEF nth
  <2> QED BY <1>7, <2>2
<1>9. \A n \in 1 .. N : r[n] = s[nth(n)]
  OBVIOUS
<1>10. DOMAIN r = 1 .. N
  OBVIOUS
<1>11. r \in Seq(S)
  <2>1. \A n \in 1 .. N : s[nth(n)] \in S
    BY <1>3, <1>8
  <2> HIDE DEF nth
  <2> QED BY <1>5, <2>1
<1> HIDE DEF r, nth
<1>12. IsInjective(r)
  <2> SUFFICES ASSUME NEW a \in DOMAIN r, NEW b \in DOMAIN r, r[a] = r[b] PROVE a = b
    BY DEF IsInjective
  <2>1. s[nth(a)] = s[nth(b)] /\ nth(a) \in DOMAIN s /\ nth(b) \in DOMAIN s
    BY <1>3, <1>8, <1>9, <1>10
  <2>2. nth(a) = nth(b)
    BY <2>1 DEF IsInjective
  <2> QED BY <1>8, <1>10, <2>2
<1>13. ASSUME NEW x \in Range(r) PROVE x \in Range(s) \ K
  <2>1. PICK n \in 1 .. N : r[n] = x
    BY <1>10, InRange
  <2>2. s[nth(n)] = x /\ nth(n) \in DOMAIN s /\ s[nth(n)] \notin K
    BY <1>3, <1>8, <1>9, <2>1
  <2> QED BY <2>2, InRange
<1>14. ASSUME NEW x \in Range(s) \ K PROVE x \in Range(r)
  <2>1. PICK i \in DOMAIN s : s[i] = x
    BY InRange
  <2>2. i \in kept /\ rank[i] \in 1 .. N
    BY <1>4, <1>6, <2>1
  <2>3. nth(rank[i]) = i
    BY <1>6, <1>8, <2>2
  <2>4. r[rank[i]] = x
    BY <1>9, <2>1, <2>2, <2>3
  <2> QED BY <1>10, <2>2, <2>4, InRange
<1>15. Range(r) = Range(s) \ K
  BY <1>13, <1>14
<1> QED BY <1>1, <1>11, <1>12, <1>15

\* A set of numbers up to n that is not empty has a greatest member.
LEMMA GreatestExists ==
  ASSUME NEW n \in Nat, NEW T \in SUBSET (0 .. n), T # {}
  PROVE  Max(T) \in T /\ \A y \in T : y <= Max(T)
<1> DEFINE U == {n - i : i \in T}
<1>1. U \in SUBSET Nat /\ U # {}
  <2>1. \A i \in T : i \in 0 .. n /\ n - i \in Nat
    OBVIOUS
  <2> QED BY <2>1
<1>2. PICK u \in U : \A y \in U : u <= y
  BY <1>1, LeastExists
<1>3. PICK x \in T : u = n - x
  BY <1>2
<1>4. ASSUME NEW y \in T PROVE x >= y
  <2>1. n - y \in U /\ x \in Int /\ y \in Int
    OBVIOUS
  <2>2. u <= n - y
    BY <1>2, <2>1
  <2> QED BY <1>3, <2>1, <2>2
<1>5. Max(T) = CHOOSE z \in T : \A y \in T : z >= y
  BY DEF Max
<1>6. Max(T) \in T /\ \A y \in T : Max(T) >= y
  BY <1>4, <1>5
<1>7. \A y \in T : y \in Int
  OBVIOUS
<1> QED BY <1>6, <1>7

-----------------------------------------------------------------------------
(* The promotion of integer keys.                                           *)

\* promoteIntKeysTo: every integer of 1 .. size is in the array, and the table reads as before.
LEMMA PromotedTo ==
  ASSUME NEW t, Whole(t), NEW size \in Nat, size > Len(t.array)
  PROVE  Kept(t, promoteIntKeysTo(t, size))
<1> DEFINE D == DOMAIN t.hash
           R == Range(t.keys)
           P == 1 .. size
           covered == {i \in DOMAIN t.keys : t.keys[i] \in P}
           deadCovered == {i \in covered : ~alive(t, t.keys[i])}
           deadLeft == t.deadKeys - Cardinality(deadCovered)
           moved == {t.keys[i] : i \in covered} \cap D
           a == [i \in P |-> IF i \in moved THEN t.hash[i]
                             ELSE IF i <= Len(t.array) THEN t.array[i] ELSE Nil]
           u == Unstore(t, moved)
           keys == Without(t.keys, P)
           d == IF t.dead.on /\ deadLeft > 0
                THEN [on |-> TRUE, keys |-> t.dead.keys \ P, scan |-> 1] ELSE NoDeadIndex
           r == [u EXCEPT !.array = a, !.cap = size, !.keys = keys, !.deadKeys = deadLeft,
                          !.dead = d, !.kidx = NoKeyIndex, !.noPromote = 0]
<1>1. /\ t \in Table /\ Tidy(t, D) /\ Filled(t.array) \subseteq IntKeys
      /\ D \cap DOMAIN t.array = {}
      /\ D \subseteq Key /\ \A x \in D : t.hash[x] \in Val
      /\ t.keys \in Seq(Key) /\ Len(t.array) \in Nat /\ DOMAIN t.array = 1 .. Len(t.array)
      /\ \A i \in DOMAIN t.array : t.array[i] \in Value
      /\ t.dead.keys \subseteq Key
      /\ IsInjective(t.keys) /\ D \subseteq R /\ t.deadKeys = Cardinality(R \ D)
      /\ t.dead.on => t.dead.keys = R \ D
      /\ R \subseteq Key
  BY GoodTable, TableFields DEF Whole, Tidy, DeadTidy
<1>2. moved = D \cap P
  <2>1. \A i \in covered : t.keys[i] \in P
    OBVIOUS
  <2>2. \A x \in D \cap P : \E i \in covered : t.keys[i] = x
    BY <1>1, InRange
  <2> QED BY <2>1, <2>2
<1>3. deadCovered = {i \in DOMAIN t.keys : t.keys[i] \in (R \cap P) \ D}
  BY InRange DEF alive
<1>4. deadLeft = Cardinality((R \ P) \ D) /\ deadLeft \in Nat
  <2> DEFINE K == (R \cap P) \ D
  <2>1. K \in SUBSET Range(t.keys)
    OBVIOUS
  <2>2. Cardinality(deadCovered) = Cardinality(K)
    <3> DEFINE I == {i \in DOMAIN t.keys : t.keys[i] \in K}
    <3>1. Cardinality(I) = Cardinality(K)
      <4> HIDE DEF K, R
      <4> QED BY ZenonT(40), <1>1, <2>1, AsManySlots
    <3> QED BY <1>3, <3>1
  <2>3. IsFiniteSet(R \ D) /\ IsFiniteSet((R \ P) \ D)
    <3>1. IsFiniteSet(R) /\ (R \ P) \ D \subseteq R
      BY <1>1, RangeFinite
    <3> QED BY <3>1, FS_Subset
  <2>4. (R \ D) \ K = (R \ P) \ D /\ (R \ D) \cap K = K
    OBVIOUS
  <2>5. Cardinality((R \ D) \ K) = Cardinality(R \ D) - Cardinality((R \ D) \cap K)
    <3> HIDE DEF R, D, K
    <3> QED BY <2>3, FS_Difference
  <2>6. Cardinality((R \ P) \ D) \in Nat
    BY <2>3, FS_CardinalityType
  <2> QED BY <1>1, <2>2, <2>4, <2>5, <2>6
<1> HIDE DEF deadLeft, moved
<1>5. keys \in Seq(Key) /\ IsInjective(keys) /\ Range(keys) = R \ P
  <2> HIDE DEF P
  <2> QED BY <1>1, WithoutIs
<1>6. /\ a \in Seq(Value) /\ Len(a) = size /\ DOMAIN a = P
      /\ \A i \in P : i \in moved => a[i] = t.hash[i]
      /\ \A i \in P : i \notin moved /\ i <= Len(t.array) => a[i] = t.array[i]
      /\ \A i \in P : i \notin moved /\ ~(i <= Len(t.array)) => a[i] = Nil
  <2>1. \A i \in P : i \in moved => a[i] = t.hash[i] /\ t.hash[i] \in Val
    BY <1>1, <1>2
  <2>2. \A i \in P : i \notin moved /\ i <= Len(t.array) => a[i] = t.array[i] /\ t.array[i] \in Value
    BY <1>1
  <2>3. \A i \in P : i \notin moved /\ ~(i <= Len(t.array)) => a[i] = Nil
    OBVIOUS
  <2>4. \A i \in P : a[i] \in Value
    BY <2>1, <2>2, <2>3 DEF Value
  <2>5. a = [i \in P |-> a[i]] /\ DOMAIN a = P
    OBVIOUS
  <2> HIDE DEF a
  <2>6. a \in [1 .. size -> Value]
    BY <2>4, <2>5
  <2>7. a \in Seq(Value) /\ Len(a) = size
    BY <2>6
  <2> QED BY <2>1, <2>2, <2>3, <2>5, <2>7
<1>7. Filled(a) \subseteq IntKeys
  <2> SUFFICES ASSUME NEW i \in Filled(a) PROVE i \in IntKeys
    OBVIOUS
  <2> HIDE DEF a
  <2>1. i \in P /\ a[i] # Nil
    BY <1>6, FilledIs
  <2>2. CASE i \in moved
    <3>1. i \in Key /\ i \in Int
      BY <1>1, <1>2, <2>1, <2>2
    <3> QED BY <3>1, IntKey
  <2>3. CASE i \notin moved
    <3>1. i <= Len(t.array) /\ a[i] = t.array[i]
      BY <1>6, <2>1, <2>3
    <3>2. i \in Filled(t.array)
      BY <1>1, <2>1, <3>1, FilledIs
    <3> QED BY <1>1, <3>2
  <2> QED BY <2>2, <2>3
<1>8. /\ d \in [on : BOOLEAN, keys : SUBSET Key, scan : Nat]
      /\ d.on => d.keys = (R \ P) \ D /\ d.scan = 1
  <2>1. CASE t.dead.on /\ deadLeft > 0
    <3> DEFINE K == t.dead.keys \ P
    <3>1. K \subseteq Key /\ K = (R \ P) \ D
      BY <1>1, <2>1
    <3>2. d = [on |-> TRUE, keys |-> K, scan |-> 1]
      BY <2>1
    <3> HIDE DEF K, d, R, P, D
    <3> QED BY <3>1, <3>2
  <2>2. CASE ~(t.dead.on /\ deadLeft > 0)
    <3>1. d = NoDeadIndex
      BY <2>2
    <3> QED BY <3>1 DEF NoDeadIndex
  <2> QED BY <2>1, <2>2
<1>9. /\ u \in Table /\ DOMAIN u.hash = D \ moved
      /\ \A x \in D \ moved : u.hash[x] = t.hash[x]
      /\ u.array = t.array /\ u.cap = t.cap /\ u.keys = t.keys /\ u.deadKeys = t.deadKeys
      /\ u.dead = t.dead /\ u.kidx = t.kidx /\ u.iterBound = t.iterBound
  BY <1>1, Unstored
<1>10. NoKeyIndex \in [on : BOOLEAN, slot : Partial(Nat)] /\ NoKeyIndex.on = FALSE
  BY EmptyPartial DEF NoKeyIndex
<1>11. promoteIntKeysTo(t, size) = rehashToArray(r)
  BY <1>9 DEF promoteIntKeysTo, deadLeft, moved, u
<1> HIDE DEF u, a, keys, d
<1>12. /\ r \in Table /\ r.array = a /\ r.cap = size /\ r.keys = keys /\ r.deadKeys = deadLeft
       /\ r.dead = d /\ r.kidx = NoKeyIndex /\ r.hash = u.hash /\ r.iterBound = t.iterBound
  <2>1. a \in Seq(Value) /\ keys \in Seq(Key) /\ d \in [on : BOOLEAN, keys : SUBSET Key, scan : Nat]
    BY <1>5, <1>6, <1>8
  <2> QED BY <1>4, <1>9, <1>10, <2>1 DEF Table
<1> HIDE DEF r
<1>13. Tidy(r, D \ moved)
  <2>1. D \ moved \subseteq R \ P /\ (R \ P) \ (D \ moved) = (R \ P) \ D
    BY <1>1, <1>2
  <2>2. DeadTidy(keys, d, D \ moved)
    <3>1. \A i \in DOMAIN keys : i >= 1
      BY <1>5
    <3> QED BY <1>5, <1>8, <2>1, <3>1 DEF DeadTidy
  <2>3. IndexTidy(keys, NoKeyIndex)
    BY <1>10 DEF IndexTidy
  <2> QED BY <1>4, <1>5, <1>12, <2>1, <2>2, <2>3 DEF Tidy
<1>14. Good(r)
  <2>1. Len(r.array) <= r.cap
    BY <1>6, <1>12
  <2> QED BY <1>7, <1>9, <1>12, <1>13, <2>1 DEF Good
<1>15. Whole(r)
  BY <1>2, <1>6, <1>9, <1>12, <1>14 DEF Whole
<1>16. Same(t, r)
  <2> SUFFICES ASSUME NEW x \in Key PROVE Get(r, x) = Get(t, x)
    BY DEF Same
  <2>1. CASE x \in P /\ x \in moved
    <3>1. x \in DOMAIN r.array /\ r.array[x] = t.hash[x] /\ x \in D /\ x \notin DOMAIN t.array
      BY <1>1, <1>2, <1>6, <1>12, <2>1
    <3> QED BY <3>1 DEF Get, alive
  <2>2. CASE x \in P /\ x \notin moved /\ x <= Len(t.array)
    <3>1. x \in DOMAIN r.array /\ r.array[x] = t.array[x] /\ x \in DOMAIN t.array
      BY <1>1, <1>6, <1>12, <2>2
    <3> QED BY <3>1 DEF Get
  <2>3. CASE x \in P /\ x \notin moved /\ ~(x <= Len(t.array))
    <3>1. x \in DOMAIN r.array /\ r.array[x] = Nil /\ x \notin DOMAIN t.array /\ x \notin D
      BY <1>1, <1>2, <1>6, <1>12, <2>3
    <3> QED BY <3>1 DEF Get, alive
  <2>4. CASE x \notin P
    <3>1. x \notin DOMAIN t.array
      BY <1>1, <2>4
    <3>2. x \notin DOMAIN r.array /\ (x \in DOMAIN r.hash <=> x \in D)
          /\ (x \in D => r.hash[x] = t.hash[x])
      BY <1>2, <1>6, <1>9, <1>12, <2>4
    <3> QED BY <3>1, <3>2 DEF Get, alive
  <2> QED BY <2>1, <2>2, <2>3, <2>4
<1>17. Kept(t, r)
  <2>1. Len(r.array) >= Len(t.array)
    BY <1>1, <1>6, <1>12
  <2> QED BY <1>12, <1>15, <1>16, <2>1 DEF Kept, Bounded
<1> QED BY <1>1, <1>11, <1>15, <1>17, Rehashed, KeptTwice

\* maybePromoteIntKeys: wherever the integers live after it, the table reads as before.
LEMMA MaybePromoted ==
  ASSUME NEW t, Whole(t)
  PROVE  Kept(t, maybePromoteIntKeys(t))
<1> DEFINE n == Cardinality(DOMAIN t.hash \cap IntKeys)
           m == [t EXCEPT !.noPromote = n]
           p == PromotedSize(t)
<1>1. /\ t \in Table /\ Good(t) /\ DOMAIN t.hash \cap DOMAIN t.array = {} /\ Len(t.array) \in Nat
      /\ Tidy(t, DOMAIN t.hash)
  BY TableFields, GoodTable DEF Whole
<1>2. n \in Nat
  <2>1. DOMAIN t.hash \subseteq Range(t.keys) /\ IsFiniteSet(Range(t.keys))
    BY <1>1, TidyCount DEF Tidy
  <2> QED BY <2>1, FS_Subset, FS_CardinalityType
<1>3. p \in Nat
  <2> DEFINE used == (DOMAIN t.hash \cap (1 .. maxTableEntries)) \cup Filled(t.array)
             T == {0} \cup {s \in Powers2 : 2 * Cardinality(used \cap (1 .. s)) > s}
  <2>1. maxTableEntries \in Nat
    BY ThresholdAssumption
  <2>2. Powers2 \subseteq 1 .. maxTableEntries
    BY DEF Powers2
  <2>3. T \in SUBSET (0 .. maxTableEntries) /\ T # {}
    <3>1. 0 \in T /\ \A x \in T : x = 0 \/ x \in Powers2
      OBVIOUS
    <3> HIDE DEF T
    <3>2. 0 \in 0 .. maxTableEntries /\ 1 .. maxTableEntries \subseteq 0 .. maxTableEntries
      BY <2>1
    <3> QED BY <2>2, <3>1, <3>2
  <2>4. p = Max(T)
    BY DEF PromotedSize
  <2> HIDE DEF T, p
  <2>5. Max(T) \in 0 .. maxTableEntries
    BY <2>1, <2>3, GreatestExists
  <2>6. Max(T) \in Nat
    BY <2>1, <2>5
  <2> QED BY <2>4, <2>6
<1> HIDE DEF p, n
<1>4. Kept(t, t)
  BY <1>1 DEF Kept, Same, Bounded, Whole
<1>5. Kept(t, m)
  <2>1. /\ m \in Table /\ m.array = t.array /\ m.cap = t.cap /\ m.keys = t.keys /\ m.deadKeys = t.deadKeys
        /\ m.dead = t.dead /\ m.kidx = t.kidx /\ m.hash = t.hash /\ m.iterBound = t.iterBound
    BY <1>1, <1>2 DEF Table
  <2> HIDE DEF m
  <2>2. Good(m)
    BY <1>1, <2>1 DEF Good, Tidy
  <2> QED BY <1>1, <2>1, <2>2 DEF Kept, Whole, Same, Bounded, Get, alive
<1>6. ASSUME ~(p <= Len(t.array)) PROVE Kept(t, promoteIntKeysTo(t, p))
  BY <1>1, <1>3, <1>6, PromotedTo
<1>7. maybePromoteIntKeys(t) = t \/ maybePromoteIntKeys(t) = m
      \/ (~(p <= Len(t.array)) /\ maybePromoteIntKeys(t) = promoteIntKeysTo(t, p))
  BY DEF maybePromoteIntKeys, n, p, m
<1> QED BY <1>4, <1>5, <1>6, <1>7

-----------------------------------------------------------------------------
(* Assignments.                                                             *)

\* The hash part gets key k, or loses it; nothing else moves.
Gained(t, r, k, v) ==
  /\ Good(r) /\ r.array = t.array /\ r.cap = t.cap /\ r.iterBound = t.iterBound
  /\ DOMAIN r.hash = DOMAIN t.hash \cup {k}
  /\ r.hash[k] = v
  /\ \A x \in DOMAIN t.hash : x # k => r.hash[x] = t.hash[x]
Lost(t, r, k) ==
  /\ Good(r) /\ r.array = t.array /\ r.cap = t.cap /\ r.iterBound = t.iterBound
  /\ DOMAIN r.hash = DOMAIN t.hash \ {k}
  /\ \A x \in DOMAIN r.hash : r.hash[x] = t.hash[x]

\* A new string: stored, then given a slot.
LEMMA StoredThenAdded ==
  ASSUME NEW t, Good(t), NEW k \in Key \ DOMAIN t.hash, NEW v \in Val
  PROVE  Gained(t, AddKey(Store(t, k, v), k, {k}), k, v)
<1> DEFINE D == DOMAIN t.hash
           u == Store(t, k, v)
           r == AddKey(u, k, {k})
<1>1. /\ t \in Table /\ Tidy(t, D) /\ Len(t.array) <= t.cap /\ Filled(t.array) \subseteq IntKeys
      /\ D \subseteq Key
  BY GoodTable, TableFields
<1>2. /\ u \in Table /\ DOMAIN u.hash = D \cup {k} /\ u.hash[k] = v
      /\ \A x \in D : x # k => u.hash[x] = t.hash[x]
      /\ u.array = t.array /\ u.cap = t.cap /\ u.iterBound = t.iterBound
      /\ Tidy(u, D)
  BY <1>1, Stored
<1> HIDE DEF u
<1>3. Pending(u, D, k)
  BY <1>2 DEF Pending
<1>4. Tidy(r, D \cup {k}) /\ SameStore(u, r)
  BY <1>3, AddedTidy
<1> HIDE DEF r
<1>5. /\ r \in Table /\ r.hash = u.hash /\ r.array = t.array /\ r.cap = t.cap
      /\ r.iterBound = t.iterBound
  BY <1>2, <1>4 DEF SameStore
<1>6. Good(r)
  BY <1>1, <1>2, <1>4, <1>5 DEF Good
<1> QED BY <1>2, <1>5, <1>6 DEF Gained, r, u

\* Another new key: given a slot, then stored.
LEMMA AddedThenStored ==
  ASSUME NEW t, Good(t), NEW k \in Key \ DOMAIN t.hash, NEW v \in Val
  PROVE  Gained(t, Store(AddKey(t, k, {}), k, v), k, v)
<1> DEFINE D == DOMAIN t.hash
           u == AddKey(t, k, {})
           r == Store(u, k, v)
<1>1. /\ t \in Table /\ Tidy(t, D) /\ Len(t.array) <= t.cap /\ Filled(t.array) \subseteq IntKeys
      /\ D \subseteq Key
  BY GoodTable, TableFields
<1>2. Pending(t, D, k)
  BY <1>1 DEF Pending
<1>3. Tidy(u, D \cup {k}) /\ SameStore(t, u)
  <2>1. {} \subseteq {k} /\ k \notin DOMAIN t.hash
    OBVIOUS
  <2> QED BY <1>2, <2>1, AddedTidy
<1> HIDE DEF u
<1>4. /\ u \in Table /\ u.hash = t.hash /\ u.array = t.array /\ u.cap = t.cap
      /\ u.iterBound = t.iterBound
  BY <1>3 DEF SameStore
<1>5. /\ r \in Table /\ DOMAIN r.hash = D \cup {k} /\ r.hash[k] = v
      /\ \A x \in D : x # k => r.hash[x] = t.hash[x]
      /\ r.array = t.array /\ r.cap = t.cap /\ r.iterBound = t.iterBound
      /\ Tidy(r, D \cup {k})
  BY <1>3, <1>4, Stored
<1> HIDE DEF r
<1>6. Good(r)
  BY <1>1, <1>5 DEF Good
<1> QED BY <1>5, <1>6 DEF Gained, r, u

\* A key the hash part holds is assigned again.
LEMMA StoredAgain ==
  ASSUME NEW t, Good(t), NEW k \in DOMAIN t.hash, NEW v \in Val
  PROVE  Gained(t, Store(t, k, v), k, v)
<1> DEFINE r == Store(t, k, v)
<1>1. /\ t \in Table /\ Tidy(t, DOMAIN t.hash) /\ Len(t.array) <= t.cap
      /\ Filled(t.array) \subseteq IntKeys /\ k \in Key
  BY GoodTable, TableFields
<1>2. /\ r \in Table /\ DOMAIN r.hash = DOMAIN t.hash \cup {k} /\ r.hash[k] = v
      /\ \A x \in DOMAIN t.hash : x # k => r.hash[x] = t.hash[x]
      /\ r.array = t.array /\ r.cap = t.cap /\ r.iterBound = t.iterBound
      /\ Tidy(r, DOMAIN t.hash)
  BY <1>1, Stored
<1> HIDE DEF r
<1>3. DOMAIN r.hash = DOMAIN t.hash
  BY <1>2
<1>4. Good(r)
  BY <1>1, <1>2, <1>3 DEF Good
<1> QED BY <1>2, <1>4 DEF Gained, r

\* A key of the hash part is assigned nil.
LEMMA Cleared ==
  ASSUME NEW t, Good(t), NEW k \in Key
  PROVE  Lost(t, SetHash(t, k, Nil), k)
<1>1. /\ t \in Table /\ Tidy(t, DOMAIN t.hash) /\ Len(t.array) <= t.cap
      /\ Filled(t.array) \subseteq IntKeys
  BY GoodTable
<1>2. CASE k \notin DOMAIN t.hash
  <2>1. SetHash(t, k, Nil) = t
    BY <1>2 DEF SetHash, alive
  <2>2. DOMAIN t.hash = DOMAIN t.hash \ {k}
    BY <1>2
  <2> QED BY <2>1, <2>2 DEF Lost
<1>3. CASE k \in DOMAIN t.hash
  <2> DEFINE u == Unstore(t, {k})
             r == MarkDead(u, k)
  <2>1. SetHash(t, k, Nil) = r
    BY <1>3 DEF SetHash, alive
  <2>2. /\ u \in Table /\ DOMAIN u.hash = DOMAIN t.hash \ {k}
        /\ \A x \in DOMAIN t.hash \ {k} : u.hash[x] = t.hash[x]
        /\ u.array = t.array /\ u.cap = t.cap /\ u.iterBound = t.iterBound
        /\ Tidy(u, DOMAIN t.hash)
    BY <1>1, Unstored
  <2> HIDE DEF u
  <2>3. Tidy(r, DOMAIN t.hash \ {k}) /\ SameStore(u, r)
    BY <1>3, <2>2, MarkedTidy
  <2> HIDE DEF r
  <2>4. /\ r \in Table /\ r.hash = u.hash /\ r.array = t.array /\ r.cap = t.cap
        /\ r.iterBound = t.iterBound
    BY <2>2, <2>3 DEF SameStore
  <2>5. Good(r)
    BY <1>1, <2>2, <2>3, <2>4 DEF Good
  <2> QED BY <2>1, <2>2, <2>4, <2>5 DEF Lost
<1> QED BY <1>2, <1>3

\* What an assignment of v to k makes of table t.
Wrote(t, r, k, v) ==
  /\ Whole(r) /\ Put(t, r, k, v) /\ Bounded(t, r)
  /\ v # Nil => Len(r.array) >= Len(t.array)

\* A key that the array does not have, gained.
LEMMA GainedWrote ==
  ASSUME NEW t, Whole(t), NEW k \in Key, k \notin DOMAIN t.array, NEW v, NEW r, Gained(t, r, k, v)
  PROVE  Wrote(t, r, k, v)
<1>1. Whole(r)
  BY DEF Whole, Gained
<1>2. Put(t, r, k, v)
  <2> SUFFICES ASSUME NEW x \in Key PROVE Get(r, x) = IF x = k THEN v ELSE Get(t, x)
    BY DEF Put
  <2>1. r.array = t.array /\ DOMAIN r.hash = DOMAIN t.hash \cup {k} /\ r.hash[k] = v
        /\ \A y \in DOMAIN t.hash : y # k => r.hash[y] = t.hash[y]
    BY DEF Gained
  <2> QED BY <2>1 DEF Get, alive
<1>3. Len(r.array) >= Len(t.array)
  <2>1. r.array = t.array /\ Len(t.array) \in Nat
    BY TableFields DEF Gained, Whole, Good
  <2> QED BY <2>1
<1> QED BY <1>1, <1>2, <1>3 DEF Wrote, Bounded, Gained

\* A key that the array does not have, lost.
LEMMA LostWrote ==
  ASSUME NEW t, Whole(t), NEW k \in Key, k \notin DOMAIN t.array, NEW r, Lost(t, r, k)
  PROVE  Wrote(t, r, k, Nil)
<1>1. Whole(r)
  BY DEF Whole, Lost
<1>2. Put(t, r, k, Nil)
  <2> SUFFICES ASSUME NEW x \in Key PROVE Get(r, x) = IF x = k THEN Nil ELSE Get(t, x)
    BY DEF Put
  <2>1. r.array = t.array /\ DOMAIN r.hash = DOMAIN t.hash \ {k}
        /\ \A y \in DOMAIN r.hash : r.hash[y] = t.hash[y]
    BY DEF Lost
  <2> QED BY <2>1 DEF Get, alive
<1> QED BY <1>1, <1>2 DEF Wrote, Bounded, Lost

\* What happens after the assignment does not change what the table reads as.
LEMMA WroteThenKept ==
  ASSUME NEW t, Whole(t), NEW u, NEW r, NEW k, NEW v, Wrote(t, u, k, v), Kept(u, r)
  PROVE  Wrote(t, r, k, v)
<1>1. Len(t.array) \in Nat /\ Len(u.array) \in Nat /\ Len(r.array) \in Nat
  BY TableFields DEF Wrote, Kept, Whole, Good
<1>2. v # Nil => Len(r.array) >= Len(t.array)
  BY <1>1 DEF Wrote, Kept
<1> QED BY <1>2 DEF Wrote, Kept, Put, Same, Bounded

\* setStrHash, setIntHash and setHash assign one key.
LEMMA HashSet ==
  ASSUME NEW t, Whole(t), NEW k \in Key, k \notin DOMAIN t.array, NEW v \in Value
  PROVE  Wrote(t, SetHash(t, k, v), k, v)
<1>1. Good(t)
  BY DEF Whole
<1>2. CASE v = Nil
  BY <1>1, <1>2, Cleared, LostWrote
<1>3. CASE v # Nil /\ k \in DOMAIN t.hash
  <2>1. v \in Val /\ SetHash(t, k, v) = Store(t, k, v)
    BY <1>3 DEF SetHash, alive, Value
  <2> QED BY <1>1, <1>3, <2>1, StoredAgain, GainedWrote
<1>4. CASE v # Nil /\ k \notin DOMAIN t.hash
  <2> DEFINE a == AddKey(Store(t, k, v), k, {k})
             b == Store(AddKey(t, k, {}), k, v)
  <2>1. v \in Val
    BY <1>4 DEF Value
  <2>2. SetHash(t, k, v) \in {a, b, maybePromoteIntKeys(b)}
    <3>1. SetHash(t, k, v) = CASE k \in StrKeys -> a
           [] k \in IntKeys -> maybePromoteIntKeys(b)
           [] k \in OtherKeys -> b
      BY <1>4 DEF SetHash, alive
    <3>2. k \in StrKeys \/ k \in IntKeys \/ k \in OtherKeys
      BY DEF Key
    <3> HIDE DEF a, b
    <3> QED BY <3>1, <3>2
  <2>3. Wrote(t, a, k, v)
    <3>1. Gained(t, a, k, v)
      BY <1>1, <1>4, <2>1, StoredThenAdded
    <3> HIDE DEF a
    <3> QED BY <3>1, GainedWrote
  <2>4. Wrote(t, b, k, v)
    <3>1. Gained(t, b, k, v)
      BY <1>1, <1>4, <2>1, AddedThenStored
    <3> HIDE DEF b
    <3> QED BY <3>1, GainedWrote
  <2> HIDE DEF a, b
  <2>5. Wrote(t, maybePromoteIntKeys(b), k, v)
    <3>1. Kept(b, maybePromoteIntKeys(b))
      BY <2>4, MaybePromoted DEF Wrote
    <3> QED BY <2>4, <3>1, WroteThenKept
  <2> QED BY <2>2, <2>3, <2>4, <2>5
<1> QED BY <1>2, <1>3, <1>4

-----------------------------------------------------------------------------
(* The array part is written, cut and grown.                                *)

WithArray(t, a, c) == [t EXCEPT !.array = a, !.cap = c]

\* Only the array changes: a replaces it.
LEMMA ArrayReplaced ==
  ASSUME NEW t, Good(t), NEW a \in Seq(Value), Filled(a) \subseteq IntKeys, NEW c \in Nat, Len(a) <= c
  PROVE  LET r == WithArray(t, a, c) IN
         /\ Good(r) /\ r.array = a /\ r.cap = c /\ r.hash = t.hash /\ r.iterBound = t.iterBound
         /\ r.keys = t.keys /\ r.iterCur = t.iterCur
<1> DEFINE r == WithArray(t, a, c)
<1>1. t \in Table /\ Tidy(t, DOMAIN t.hash)
  BY GoodTable
<1>2. /\ r \in Table /\ r.array = a /\ r.cap = c /\ r.hash = t.hash /\ r.keys = t.keys
      /\ r.deadKeys = t.deadKeys /\ r.dead = t.dead /\ r.kidx = t.kidx /\ r.iterBound = t.iterBound
      /\ r.iterCur = t.iterCur
  BY <1>1 DEF Table, WithArray
<1> HIDE DEF r
<1>3. Good(r)
  BY <1>1, <1>2 DEF Good, Tidy
<1> QED BY <1>2, <1>3 DEF r

\* A position of the array is written.
LEMMA Written ==
  ASSUME NEW t, Good(t), NEW k \in DOMAIN t.array, k \in IntKeys, NEW v \in Value
  PROVE  LET r == [t EXCEPT !.array[k] = v] IN
         /\ Good(r) /\ r.cap = t.cap /\ r.hash = t.hash /\ r.iterBound = t.iterBound
         /\ r.keys = t.keys /\ r.iterCur = t.iterCur
         /\ DOMAIN r.array = DOMAIN t.array /\ Len(r.array) = Len(t.array)
         /\ r.array[k] = v /\ \A i \in DOMAIN t.array : i # k => r.array[i] = t.array[i]
<1> DEFINE a == [t.array EXCEPT ![k] = v]
           r == WithArray(t, a, t.cap)
<1>1. /\ t \in Table /\ Len(t.array) <= t.cap /\ Filled(t.array) \subseteq IntKeys
      /\ t.array \in Seq(Value) /\ t.cap \in Nat
  BY GoodTable, TableFields
<1>2. /\ a \in Seq(Value) /\ Len(a) = Len(t.array) /\ DOMAIN a = DOMAIN t.array
      /\ a[k] = v /\ \A i \in DOMAIN t.array : i # k => a[i] = t.array[i]
  BY <1>1
<1>3. [t EXCEPT !.array[k] = v] = r
  <2>1. [t EXCEPT !.array[k] = v] = [t EXCEPT !.array = a]
    OBVIOUS
  <2> HIDE DEF a
  <2>2. [t EXCEPT !.array = a] = r
    BY <1>1 DEF Table, WithArray
  <2> QED BY <2>1, <2>2
<1> HIDE DEF a, r
<1>4. Filled(a) \subseteq IntKeys
  BY <1>1, <1>2, FilledIs
<1>5. /\ Good(r) /\ r.array = a /\ r.cap = t.cap /\ r.hash = t.hash /\ r.iterBound = t.iterBound
      /\ r.keys = t.keys /\ r.iterCur = t.iterCur
  BY <1>1, <1>2, <1>4, ArrayReplaced DEF r
<1> QED BY <1>2, <1>3, <1>5

\* shrinkArray cuts nil positions off, and nothing else changes.
LEMMA Shrunk ==
  ASSUME NEW t, Good(t)
  PROVE  LET r == shrinkArray(t) IN
         /\ Good(r) /\ r.cap = t.cap /\ r.hash = t.hash /\ r.iterBound = t.iterBound
         /\ r.keys = t.keys /\ r.iterCur = t.iterCur
         /\ DOMAIN r.array \subseteq DOMAIN t.array
         /\ \A i \in DOMAIN r.array : r.array[i] = t.array[i]
         /\ \A i \in DOMAIN t.array \ DOMAIN r.array : t.array[i] = Nil
<1> DEFINE T == Filled(t.array) \cup {0}
           m == Max(T)
           a == SubSeq(t.array, 1, m)
           r == WithArray(t, a, t.cap)
<1>1. /\ t \in Table /\ Len(t.array) <= t.cap /\ Filled(t.array) \subseteq IntKeys
      /\ t.array \in Seq(Value) /\ t.cap \in Nat /\ Len(t.array) \in Nat
      /\ DOMAIN t.array = 1 .. Len(t.array)
  BY GoodTable, TableFields
<1>2. T \in SUBSET (0 .. Len(t.array)) /\ T # {}
  <2>1. \A i \in Filled(t.array) : i \in 1 .. Len(t.array)
    BY <1>1, FilledIs
  <2> QED BY <1>1, <2>1
<1>3. m \in T /\ \A y \in T : y <= m
  BY <1>1, <1>2, GreatestExists
<1>a. \A i \in Filled(t.array) : i <= m
  BY <1>3
<1>4. m \in 0 .. Len(t.array)
  BY <1>2, <1>3
<1> HIDE DEF m, T
<1>5. /\ a \in Seq(Value) /\ Len(a) = m /\ DOMAIN a = 1 .. m
      /\ \A i \in 1 .. m : a[i] = t.array[i]
  <2>1. a \in Seq(Value) /\ Len(a) = m /\ \A i \in 1 .. m : a[i] = t.array[i]
    BY <1>1, <1>4
  <2> HIDE DEF a
  <2>2. DOMAIN a = 1 .. Len(a)
    BY <2>1
  <2> QED BY <2>1, <2>2
<1>6. shrinkArray(t) = r
  <2>1. shrinkArray(t) = [t EXCEPT !.array = a]
    BY DEF shrinkArray, m, T
  <2> HIDE DEF a
  <2>2. [t EXCEPT !.array = a] = r
    BY <1>1 DEF Table, WithArray
  <2> QED BY <2>1, <2>2
<1> HIDE DEF a
<1>7. Filled(a) \subseteq IntKeys
  <2> SUFFICES ASSUME NEW i \in Filled(a) PROVE i \in IntKeys
    OBVIOUS
  <2>1. i \in 1 .. m /\ a[i] # Nil
    BY <1>5, FilledIs
  <2>2. i \in DOMAIN t.array /\ t.array[i] # Nil
    BY <1>1, <1>4, <1>5, <2>1
  <2> QED BY <1>1, <2>2, FilledIs
<1>8. Len(a) <= t.cap
  BY <1>1, <1>4, <1>5
<1>9. /\ Good(r) /\ r.array = a /\ r.cap = t.cap /\ r.hash = t.hash /\ r.iterBound = t.iterBound
      /\ r.keys = t.keys /\ r.iterCur = t.iterCur
  BY <1>1, <1>5, <1>7, <1>8, ArrayReplaced
<1> HIDE DEF r
<1>10. DOMAIN a \subseteq DOMAIN t.array
  BY <1>1, <1>4, <1>5
<1>11. ASSUME NEW i \in DOMAIN t.array \ DOMAIN a PROVE t.array[i] = Nil
  <2>1. ~(i <= m)
    BY <1>1, <1>4, <1>5
  <2> QED BY <1>a, <2>1, FilledIs
<1> QED BY <1>5, <1>6, <1>9, <1>10, <1>11

\* Set and SetInt assign one key, or, when the array is full, none.
LEMMA Assigned ==
  ASSUME NEW t, Whole(t), NEW k \in Key, NEW v \in Value
  PROVE  /\ OutOfMemory(t, k, v) => SetTable(t, k, v) = t
         /\ ~OutOfMemory(t, k, v) => Wrote(t, SetTable(t, k, v), k, v)
<1> DEFINE r == SetTable(t, k, v)
<1>1. /\ Good(t) /\ t \in Table /\ DOMAIN t.hash \cap DOMAIN t.array = {}
      /\ DOMAIN t.array = 1 .. Len(t.array) /\ Len(t.array) \in Nat
      /\ Len(t.array) <= t.cap /\ Filled(t.array) \subseteq IntKeys
      /\ t.array \in Seq(Value) /\ t.cap \in Nat
  BY GoodTable, TableFields DEF Whole
<1>2. CASE k \in DOMAIN t.array
  <2> DEFINE u == [t EXCEPT !.array[k] = v]
  <2>1. k \in IntKeys
    <3>1. k \in Int
      BY <1>1, <1>2
    <3> QED BY <3>1, IntKey
  <2>2. /\ Good(u) /\ u.cap = t.cap /\ u.hash = t.hash /\ u.iterBound = t.iterBound
        /\ DOMAIN u.array = DOMAIN t.array /\ Len(u.array) = Len(t.array)
        /\ u.array[k] = v /\ \A i \in DOMAIN t.array : i # k => u.array[i] = t.array[i]
    BY <1>1, <1>2, <2>1, Written
  <2>3. ~OutOfMemory(t, k, v) /\ ~Appends(t, k, v)
    <3>1. k # Len(t.array) + 1
      BY <1>1, <1>2
    <3> QED BY <3>1 DEF OutOfMemory, Appends
  <2>4. r = IF v = Nil THEN shrinkArray(u) ELSE u
    <3>1. r = IF v = Nil THEN shrinkArray([t EXCEPT !.array[k] = Nil]) ELSE [t EXCEPT !.array[k] = v]
      BY <1>2, <2>3 DEF SetTable
    <3>2. v = Nil => u = [t EXCEPT !.array[k] = Nil]
      OBVIOUS
    <3> HIDE DEF r
    <3> QED BY <3>1, <3>2
  <2> HIDE DEF u
  <2>5. /\ Good(r) /\ r.hash = t.hash /\ r.iterBound = t.iterBound
        /\ DOMAIN r.array \subseteq DOMAIN t.array
        /\ \A i \in DOMAIN r.array : r.array[i] = u.array[i]
        /\ \A i \in DOMAIN t.array \ DOMAIN r.array : u.array[i] = Nil
    <3> HIDE DEF r
    <3>1. CASE v = Nil
      <4>1. r = shrinkArray(u)
        BY <2>4, <3>1
      <4> QED BY <2>2, <4>1, Shrunk
    <3>2. CASE v # Nil
      BY <2>2, <2>4, <3>2
    <3> QED BY <3>1, <3>2
  <2> HIDE DEF r
  <2>6. Whole(r)
    BY <1>1, <2>5 DEF Whole
  <2>7. Put(t, r, k, v)
    <3> SUFFICES ASSUME NEW x \in Key PROVE Get(r, x) = IF x = k THEN v ELSE Get(t, x)
      BY DEF Put
    <3>1. CASE x \in DOMAIN t.array
      <4>1. Get(r, x) = u.array[x]
        <5>1. x \notin DOMAIN r.hash
          BY <1>1, <2>5, <3>1
        <5> QED BY <2>5, <3>1, <5>1 DEF Get, alive
      <4>2. Get(t, x) = t.array[x]
        BY <3>1 DEF Get
      <4> QED BY <2>2, <3>1, <4>1, <4>2
    <3>2. CASE x \notin DOMAIN t.array
      <4>1. x \notin DOMAIN r.array /\ x # k
        BY <1>2, <2>5, <3>2
      <4> QED BY <2>5, <3>2, <4>1 DEF Get, alive
    <3> QED BY <3>1, <3>2
  <2>8. v # Nil => Len(r.array) >= Len(t.array)
    BY <1>1, <2>2, <2>4
  <2> QED BY <2>3, <2>5, <2>6, <2>7, <2>8 DEF Wrote, Bounded, r
<1>3. CASE k \notin DOMAIN t.array /\ OutOfMemory(t, k, v)
  <2>1. r = t
    BY <1>3 DEF SetTable
  <2> QED BY <1>3, <2>1
<1>4. CASE k \notin DOMAIN t.array /\ ~OutOfMemory(t, k, v) /\ ~Appends(t, k, v)
  <2>1. r = SetHash(t, k, v)
    BY <1>4 DEF SetTable
  <2> QED BY <1>4, <2>1, HashSet
<1>5. CASE k \notin DOMAIN t.array /\ ~OutOfMemory(t, k, v) /\ Appends(t, k, v)
  <2> DEFINE c == IF t.cap = 0 THEN 4 ELSE 4 * t.cap
             g == growArrayForAppend(t)
             u == AppendArray(g, v)
  <2>1. r = rehashToArray(u)
    BY <1>5 DEF SetTable
  <2>2. k = Len(t.array) + 1 /\ v \in Val /\ k \notin DOMAIN t.hash /\ v \in Value
    BY <1>5 DEF Appends, alive, Value
  <2>3. k \in IntKeys
    <3>1. k \in Int
      BY <1>1, <2>2
    <3> QED BY <3>1, IntKey
  <2>4. Good(g) /\ g.array = t.array /\ g.hash = t.hash /\ g.iterBound = t.iterBound
    <3> DEFINE w == WithArray(t, t.array, c)
    <3>1. g = t \/ g = w
      <4>1. g = t \/ g = [t EXCEPT !.cap = c]
        BY DEF growArrayForAppend
      <4> HIDE DEF g, c
      <4>2. [t EXCEPT !.cap = c] = w
        BY <1>1 DEF Table, WithArray
      <4> QED BY <4>1, <4>2
    <3>2. c \in Nat /\ Len(t.array) <= c
      BY <1>1
    <3> HIDE DEF g, c
    <3>3. Good(w) /\ w.array = t.array /\ w.hash = t.hash /\ w.iterBound = t.iterBound
      BY <1>1, <3>2, ArrayReplaced
    <3> HIDE DEF w
    <3> QED BY <1>1, <3>1, <3>3
  <2> HIDE DEF g
  <2>5. Good(u) /\ u.hash = t.hash /\ u.iterBound = t.iterBound /\ u.array = Append(t.array, v)
    BY <2>2, <2>3, <2>4, ArrayAppended
  <2> HIDE DEF u, r
  <2>6. /\ DOMAIN u.array = DOMAIN t.array \cup {k} /\ u.array[k] = v
        /\ \A i \in DOMAIN t.array : u.array[i] = t.array[i]
    BY <1>1, <2>2, <2>5, Appended
  <2>7. Whole(u)
    BY <1>1, <2>2, <2>5, <2>6 DEF Whole
  <2>8. Put(t, u, k, v)
    <3> SUFFICES ASSUME NEW x \in Key PROVE Get(u, x) = IF x = k THEN v ELSE Get(t, x)
      BY DEF Put
    <3>1. CASE x = k
      BY <2>6, <3>1 DEF Get
    <3>2. CASE x # k
      <4>1. x \in DOMAIN u.array <=> x \in DOMAIN t.array
        BY <2>6, <3>2
      <4> QED BY <2>5, <2>6, <3>2, <4>1 DEF Get, alive
    <3> QED BY <3>1, <3>2
  <2>9. Wrote(t, u, k, v)
    <3>1. Len(u.array) = Len(t.array) + 1
      BY <1>1, <2>2, <2>5, Appended
    <3>2. Len(u.array) >= Len(t.array)
      BY <1>1, <3>1
    <3> QED BY <2>5, <2>7, <2>8, <3>2 DEF Wrote, Bounded
  <2>10. Kept(u, rehashToArray(u))
    BY <2>7, Rehashed
  <2>11. Wrote(t, r, k, v)
    BY <2>1, <2>9, <2>10, WroteThenKept
  <2> QED BY <1>5, <2>11 DEF r
<1> QED BY <1>2, <1>3, <1>4, <1>5

\* The array is grown by nil positions.
LEMMA GrownGood ==
  ASSUME NEW t, Good(t), NEW n \in Nat, n >= Len(t.array)
  PROVE  LET r == Grown(t, n) IN
         /\ Good(r) /\ r.hash = t.hash /\ r.iterBound = t.iterBound
         /\ DOMAIN r.array = 1 .. n /\ Len(r.array) = n
         /\ Good([r EXCEPT !.cap = n])
         /\ [r EXCEPT !.cap = n].array = r.array /\ [r EXCEPT !.cap = n].hash = t.hash
         /\ [r EXCEPT !.cap = n].iterBound = t.iterBound
<1> DEFINE a == [i \in 1 .. n |-> IF i <= Len(t.array) THEN t.array[i] ELSE Nil]
           c == IF n > t.cap THEN n ELSE t.cap
           r == Grown(t, n)
           s == [r EXCEPT !.cap = n]
<1>1. /\ t \in Table /\ Len(t.array) <= t.cap /\ Filled(t.array) \subseteq IntKeys
      /\ t.array \in Seq(Value) /\ t.cap \in Nat /\ Len(t.array) \in Nat
      /\ DOMAIN t.array = 1 .. Len(t.array)
      /\ \A i \in DOMAIN t.array : t.array[i] \in Value
  BY GoodTable, TableFields
<1>2. \A i \in 1 .. n : a[i] \in Value /\ (a[i] # Nil => i \in DOMAIN t.array /\ a[i] = t.array[i])
  BY <1>1 DEF Value
<1>3. r = [t EXCEPT !.array = a, !.cap = c]
  BY DEF Grown
<1>4. a = [i \in 1 .. n |-> a[i]] /\ DOMAIN a = 1 .. n
  OBVIOUS
<1> HIDE DEF a, r
<1>5. a \in Seq(Value) /\ Len(a) = n
  <2>1. a \in [1 .. n -> Value]
    BY <1>2, <1>4
  <2> QED BY <2>1
<1>6. Filled(a) \subseteq IntKeys
  BY <1>1, <1>2, <1>4, FilledIs
<1>7. c \in Nat /\ Len(a) <= c
  BY <1>1, <1>5
<1> HIDE DEF c
<1>8. r = WithArray(t, a, c)
  BY <1>3 DEF WithArray
<1>9. Good(r) /\ r.array = a /\ r.hash = t.hash /\ r.iterBound = t.iterBound
  BY <1>5, <1>6, <1>7, <1>8, ArrayReplaced
<1>10. s = WithArray(r, a, n)
  <2>1. r \in Table /\ r.array = a
    BY <1>9, GoodTable
  <2> QED BY <2>1 DEF WithArray, Table
<1> HIDE DEF s
<1>11. Good(s) /\ s.array = a /\ s.hash = t.hash /\ s.iterBound = t.iterBound
  <2>1. Len(a) <= n
    BY <1>5
  <2> QED BY <1>5, <1>6, <1>9, <1>10, <2>1, ArrayReplaced
<1> QED BY <1>4, <1>5, <1>9, <1>11 DEF r, s

-----------------------------------------------------------------------------
(* EnsureArraySize: the covered keys move, in any order.                    *)

\* A pass of absorbHashIndices moves an integer to the position the array has for it.
LEMMA CoveredMoved ==
  ASSUME NEW t, Good(t), NEW k \in DOMAIN t.hash, k \in DOMAIN t.array
  PROVE  LET r == MoveCovered(t, k) IN
         /\ Good(r) /\ DOMAIN r.array = DOMAIN t.array /\ r.iterBound = t.iterBound
         /\ DOMAIN r.hash = DOMAIN t.hash \ {k}
<1> DEFINE u == [t EXCEPT !.array[k] = t.hash[k]]
           r == removeLiveKey(Unstore(u, {k}), k)
<1>1. t.hash[k] \in Value /\ k \in Key /\ k \in Int
  <2>1. t \in Table
    BY GoodTable
  <2> QED BY <2>1, TableFields DEF Value
<1>2. k \in IntKeys
  BY <1>1, IntKey
<1>3. Good(u) /\ u.hash = t.hash /\ u.iterBound = t.iterBound /\ DOMAIN u.array = DOMAIN t.array
  <2>1. t.hash[k] \in Value
    BY <1>1
  <2> HIDE DEF u
  <2>2. \E v \in Value : v = t.hash[k] /\ u = [t EXCEPT !.array[k] = v]
    BY <2>1 DEF u
  <2> QED BY <1>2, <2>2, Written
<1>4. MoveCovered(t, k) = r
  BY DEF MoveCovered
<1> HIDE DEF u
<1>5. k \in DOMAIN u.hash
  BY <1>3
<1>6. /\ Good(r) /\ r.array = u.array /\ r.iterBound = u.iterBound
      /\ DOMAIN r.hash = DOMAIN u.hash \ {k}
  BY <1>3, <1>5, TakenOut
<1> QED BY <1>3, <1>4, <1>6

\* EnsureArraySize: the array has n positions, and the hash part holds none of them, in whatever
\* order its Go map is walked.
LEMMA Absorbed ==
  ASSUME NEW t, Whole(t), NEW n \in Nat, n > Len(t.array),
         NEW order \in Bijection(1 .. Cardinality(DOMAIN t.hash \cap (1 .. n)), DOMAIN t.hash \cap (1 .. n))
  PROVE  LET r == absorbHashIndices(Grown(t, n), order) IN
         Whole(r) /\ Bounded(t, r) /\ Len(r.array) = n
<1> DEFINE D == DOMAIN t.hash
           K == D \cap (1 .. n)
           N == Cardinality(K)
           g == Grown(t, n)
           S(m) == {u \in Table : /\ Good(u) /\ DOMAIN u.array = 1 .. n
                                  /\ u.iterBound = t.iterBound
                                  /\ DOMAIN u.hash = D \ {order[i] : i \in 1 .. m}}
           G == [m \in 0 .. N |-> S(m)]
           F == [p \in (1 .. N) \X Table |-> MoveCovered(p[2], order[p[1]])]
<1>1. /\ Good(t) /\ t \in Table /\ D \cap DOMAIN t.array = {}
      /\ DOMAIN t.array = 1 .. Len(t.array) /\ Len(t.array) \in Nat
      /\ D \subseteq Range(t.keys) /\ IsFiniteSet(Range(t.keys))
  BY GoodTable, TidyCount, TableFields DEF Whole, Tidy
<1>2. N \in Nat /\ K \subseteq Range(t.keys)
  <2>1. K \subseteq Range(t.keys)
    BY <1>1
  <2> QED BY <1>1, <2>1, FS_Subset, FS_CardinalityType
<1>3. /\ order \in [1 .. N -> K] /\ DOMAIN order = 1 .. N
      /\ \A a, b \in 1 .. N : order[a] = order[b] => a = b
      /\ \A k \in K : \E i \in 1 .. N : order[i] = k
  BY DEF Bijection, Injection, Surjection, IsInjective
<1>4. Good(g) /\ g.hash = t.hash /\ g.iterBound = t.iterBound /\ DOMAIN g.array = 1 .. n /\ g \in Table
  <2>1. n >= Len(t.array)
    BY <1>1
  <2>2. Good(g) /\ g.hash = t.hash /\ g.iterBound = t.iterBound /\ DOMAIN g.array = 1 .. n
    BY <1>1, <2>1, GrownGood
  <2> HIDE DEF g
  <2> QED BY <2>2, GoodTable
<1> HIDE DEF g, N
<1>5. Len(order) = N
  <2>1. order \in Seq(K)
    BY <1>2, <1>3
  <2> QED BY <1>2, <1>3, <2>1
<1>6. ASSUME NEW m \in 1 .. N, NEW u \in S(m - 1)
      PROVE  MoveCovered(u, order[m]) \in S(m)
  <2> DEFINE k == order[m]
             r == MoveCovered(u, k)
  <2>1. /\ Good(u) /\ DOMAIN u.array = 1 .. n /\ u.iterBound = t.iterBound
        /\ DOMAIN u.hash = D \ {order[i] : i \in 1 .. m - 1}
    BY <1>6
  <2>2. k \in K /\ k \in D /\ k \in 1 .. n
    BY <1>3
  <2>3. k \notin {order[i] : i \in 1 .. m - 1}
    <3> SUFFICES ASSUME NEW i \in 1 .. m - 1, order[i] = order[m] PROVE FALSE
      OBVIOUS
    <3>1. i \in 1 .. N /\ i # m
      BY <1>2
    <3> QED BY <1>3, <3>1
  <2>4. {order[i] : i \in 1 .. m} = {order[i] : i \in 1 .. m - 1} \cup {k}
    <3>1. 1 .. m = (1 .. m - 1) \cup {m}
      BY <1>2
    <3> QED BY <3>1
  <2> HIDE DEF k
  <2>5. Good(r) /\ DOMAIN r.array = DOMAIN u.array /\ r.iterBound = u.iterBound
        /\ DOMAIN r.hash = DOMAIN u.hash \ {k}
    BY <2>1, <2>2, <2>3, CoveredMoved
  <2> HIDE DEF r
  <2>6. DOMAIN r.hash = D \ {order[i] : i \in 1 .. m}
    BY <2>1, <2>4, <2>5
  <2>7. r \in Table
    BY <2>5, GoodTable
  <2>8. r \in S(m)
    BY <2>1, <2>5, <2>6, <2>7
  <2> QED BY <2>8 DEF r, k
<1>7. g \in S(0)
  <2>1. D \ {order[i] : i \in 1 .. 0} = D
    OBVIOUS
  <2> QED BY <1>4, <2>1
<1>8. \A m \in 0 .. N : S(m) \subseteq Table
  OBVIOUS
<1> HIDE DEF S
<1>9. \A m \in 1 .. N : \A u \in Table : F[<<m, u>>] = MoveCovered(u, order[m])
  OBVIOUS
<1>10. \A m \in 0 .. N : G[m] = S(m)
  OBVIOUS
<1> HIDE DEF F, G
<1>11. \A m \in 1 .. N : m \in 0 .. N /\ m - 1 \in 0 .. N
  BY <1>2
<1>12. \A m \in 1 .. N : \A u \in G[m - 1] : F[<<m, u>>] \in G[m]
  <2> TAKE m \in 1 .. N
  <2> TAKE u \in G[m - 1]
  <2>1. u \in S(m - 1) /\ u \in Table
    BY <1>8, <1>10, <1>11
  <2>2. MoveCovered(u, order[m]) \in S(m)
    BY <1>6, <2>1
  <2>3. F[<<m, u>>] = MoveCovered(u, order[m])
    BY <1>9, <2>1
  <2> QED BY <1>10, <1>11, <2>2, <2>3
<1>13. 0 \in 0 .. N
  BY <1>2
<1>14. g \in G[0]
  BY <1>7, <1>10, <1>13
<1>15. PICK f : IsRun(f, N, g, F) /\ \A m \in 0 .. N : f[m] \in G[m]
  BY <1>2, <1>12, <1>14, PassesRun
<1>16. f = [m \in 0 .. N |-> IF m = 0 THEN g ELSE MoveCovered(f[m - 1], order[m])]
  <2>1. ASSUME NEW m \in 0 .. N, m # 0 PROVE F[<<m, f[m - 1]>>] = MoveCovered(f[m - 1], order[m])
    <3>1. m \in 1 .. N
      BY <1>2, <2>1
    <3>2. f[m - 1] \in Table
      BY <1>8, <1>10, <1>11, <1>15, <3>1
    <3> QED BY <1>9, <3>1, <3>2
  <2> QED BY <1>15, <2>1 DEF IsRun
<1> DEFINE R == Absorbing(g, order)
<1>17. R = CHOOSE h : h = [m \in 0 .. N |-> IF m = 0 THEN g ELSE MoveCovered(h[m - 1], order[m])]
  BY <1>5 DEF Absorbing
<1>18. R = [m \in 0 .. N |-> IF m = 0 THEN g ELSE MoveCovered(R[m - 1], order[m])]
  BY <1>16, <1>17
<1> HIDE DEF R
<1>19. R[0] = g /\ \A m \in 1 .. N : R[m] = MoveCovered(R[m - 1], order[m])
  BY <1>2, <1>18
<1>20. \A m \in 1 .. N : R[m - 1] \in G[m - 1] => R[m] \in G[m]
  BY <1>6, <1>10, <1>11, <1>19
<1>21. \A m \in 0 .. N : R[m] \in G[m]
  BY <1>2, <1>14, <1>19, <1>20, RunStays
<1> DEFINE u == R[N]
           r == absorbHashIndices(g, order)
<1>22. Good(u) /\ DOMAIN u.array = 1 .. n /\ u.iterBound = t.iterBound
       /\ DOMAIN u.hash = D \ {order[i] : i \in 1 .. N}
  <2>1. N \in 0 .. N
    BY <1>2
  <2>2. u \in S(N)
    BY <1>10, <1>21, <2>1
  <2> QED BY <2>2 DEF S
<1>23. {order[i] : i \in 1 .. N} = K
  BY <1>3
<1>24. r = IF order = <<>> THEN g ELSE dropAllDeadKeys(u)
  BY <1>5 DEF absorbHashIndices, R
<1> HIDE DEF u, r
<1>25. Good(r) /\ DOMAIN r.array = 1 .. n /\ Bounded(t, r) /\ DOMAIN r.hash = D \ K
  <2>1. CASE order = <<>>
    <3>1. DOMAIN order = {}
      BY <2>1
    <3>2. K = {}
      BY <1>3, <3>1
    <3>3. r = g
      BY <1>24, <2>1
    <3> QED BY <1>4, <3>2, <3>3 DEF Bounded
  <2>2. CASE order # <<>>
    <3>1. r = dropAllDeadKeys(u)
      BY <1>24, <2>2
    <3>2. Good(r) /\ r.array = u.array /\ r.hash = u.hash /\ Bounded(u, r)
      BY <1>22, <3>1, DroppedGood
    <3> QED BY <1>22, <1>23, <3>2 DEF Bounded
  <2> QED BY <2>1, <2>2
<1>26. Whole(r)
  BY <1>25 DEF Whole
<1>27. Len(r.array) = n
  <2>1. r \in Table
    BY <1>25, GoodTable
  <2>2. DOMAIN r.array = 1 .. Len(r.array) /\ Len(r.array) \in Nat
    BY <2>1, TableFields
  <2> QED BY <1>25, <2>2
<1> QED BY <1>25, <1>26, <1>27 DEF r, g

-----------------------------------------------------------------------------
(* The positional fields of a constructor.                                  *)

\* A positional field of a constructor is written, and the hash part does not hold it as well.
LEMMA FieldWritten ==
  ASSUME NEW t, Good(t), NEW i \in DOMAIN t.array, i \in IntKeys, NEW v \in Value
  PROVE  LET r == WriteField(t, i, v) IN
         /\ Good(r) /\ DOMAIN r.array = DOMAIN t.array /\ r.iterBound = t.iterBound
         /\ DOMAIN r.hash = DOMAIN t.hash \ {i}
<1> DEFINE u == [t EXCEPT !.array[i] = v]
           r == SetHash(u, i, Nil)
<1>1. Good(u) /\ u.hash = t.hash /\ u.iterBound = t.iterBound /\ DOMAIN u.array = DOMAIN t.array
  BY Written
<1>2. WriteField(t, i, v) = r
  BY DEF WriteField
<1> HIDE DEF u
<1>3. Lost(u, r, i)
  <2>1. i \in Key
    BY DEF Key
  <2> QED BY <1>1, <2>1, Cleared
<1> HIDE DEF r
<1> QED BY <1>1, <1>2, <1>3 DEF Lost

\* OP_SETLIST: the array has all positions of the batch, and the hash part none of them.
LEMMA Listed ==
  ASSUME NEW t, Whole(t), NEW offset \in Nat, NEW n \in Nat \ {0}, NEW vs \in [1 .. n -> Value],
         offset >= 1, offset - 1 <= Len(t.array), offset + n - 1 <= MaxListed
  PROVE  LET r == SetList(t, offset, vs) IN
         Whole(r) /\ Bounded(t, r) /\ Len(r.array) >= offset + n - 1
<1> DEFINE needed == offset + n - 1
           D == DOMAIN t.hash
           g == [Grown(t, needed) EXCEPT !.cap = needed]
           s == IF needed > Len(t.array) THEN g ELSE t
           L == IF needed > Len(t.array) THEN needed ELSE Len(t.array)
           S(m) == {u \in Table : /\ Good(u) /\ DOMAIN u.array = 1 .. L
                                  /\ u.iterBound = t.iterBound
                                  /\ DOMAIN u.hash = D \ (offset .. offset + m - 1)}
           G == [m \in 0 .. n |-> S(m)]
           F == [p \in (1 .. n) \X Table |-> WriteField(p[2], offset + p[1] - 1, vs[p[1]])]
<1>1. /\ Good(t) /\ t \in Table /\ D \cap DOMAIN t.array = {}
      /\ DOMAIN t.array = 1 .. Len(t.array) /\ Len(t.array) \in Nat
  BY GoodTable, TableFields DEF Whole
<1>2. needed \in Nat /\ L \in Nat /\ needed <= L /\ needed <= MaxListed
  BY <1>1
<1>3. n \in Nat /\ Len(vs) = n
  <2>1. vs \in Seq(Value)
    OBVIOUS
  <2>2. DOMAIN vs = 1 .. n
    OBVIOUS
  <2> QED BY <2>1, <2>2
<1>4. Good(s) /\ DOMAIN s.array = 1 .. L /\ s.hash = t.hash /\ s.iterBound = t.iterBound /\ s \in Table
  <2>1. CASE needed > Len(t.array)
    <3>1. needed >= Len(t.array)
      BY <1>1, <1>2, <2>1
    <3>2. Good(g) /\ g.array = Grown(t, needed).array /\ g.hash = t.hash /\ g.iterBound = t.iterBound
          /\ DOMAIN Grown(t, needed).array = 1 .. needed
      <4> HIDE DEF needed
      <4> QED BY <1>1, <1>2, <3>1, GrownGood
    <3>3. s = g /\ L = needed
      BY <2>1
    <3> HIDE DEF g, s
    <3> QED BY <3>2, <3>3, GoodTable
  <2>2. CASE ~(needed > Len(t.array))
    <3>1. s = t /\ L = Len(t.array)
      BY <2>2
    <3> HIDE DEF s, L
    <3> QED BY <1>1, <3>1
  <2> QED BY <2>1, <2>2
<1>5. SetList(t, offset, vs) = Listing(s, offset, vs)[n]
  BY <1>3 DEF SetList
<1> HIDE DEF s, L
<1>6. ASSUME NEW m \in 1 .. n, NEW u \in S(m - 1)
      PROVE  WriteField(u, offset + m - 1, vs[m]) \in S(m)
  <2> DEFINE i == offset + m - 1
             r == WriteField(u, i, vs[m])
  <2>1. /\ Good(u) /\ DOMAIN u.array = 1 .. L /\ u.iterBound = t.iterBound
        /\ DOMAIN u.hash = D \ (offset .. offset + (m - 1) - 1)
    BY <1>6
  <2>2. i \in 1 .. L /\ i \in 1 .. MaxListed /\ vs[m] \in Value
    <3>1. MaxListed \in Nat
      BY BoundsAssumption
    <3> QED BY <1>2, <3>1
  <2>3. i \in IntKeys
    BY <2>2, KeysAssumption
  <2>4. offset .. offset + m - 1 = (offset .. offset + (m - 1) - 1) \cup {i}
    <3>1. m \in Int /\ m >= 1
      OBVIOUS
    <3> QED BY <3>1
  <2> HIDE DEF i
  <2>5. /\ Good(r) /\ DOMAIN r.array = DOMAIN u.array /\ r.iterBound = u.iterBound
        /\ DOMAIN r.hash = DOMAIN u.hash \ {i}
    BY <2>1, <2>2, <2>3, FieldWritten
  <2> HIDE DEF r
  <2>6. DOMAIN r.hash = D \ (offset .. offset + m - 1) /\ r \in Table
    BY <2>1, <2>4, <2>5, GoodTable
  <2>7. r \in S(m)
    BY <2>1, <2>5, <2>6
  <2> QED BY <2>7 DEF r, i
<1>7. s \in S(0)
  <2>1. D \ (offset .. offset + 0 - 1) = D
    OBVIOUS
  <2> QED BY <1>4, <2>1
<1>8. \A m \in 0 .. n : S(m) \subseteq Table
  OBVIOUS
<1> HIDE DEF S
<1>9. \A m \in 1 .. n : \A u \in Table : F[<<m, u>>] = WriteField(u, offset + m - 1, vs[m])
  OBVIOUS
<1>10. \A m \in 0 .. n : G[m] = S(m)
  OBVIOUS
<1> HIDE DEF F, G
<1>11. \A m \in 1 .. n : m \in 0 .. n /\ m - 1 \in 0 .. n
  OBVIOUS
<1>12. \A m \in 1 .. n : \A u \in G[m - 1] : F[<<m, u>>] \in G[m]
  <2> TAKE m \in 1 .. n
  <2> TAKE u \in G[m - 1]
  <2>1. u \in S(m - 1) /\ u \in Table
    BY <1>8, <1>10, <1>11
  <2>2. WriteField(u, offset + m - 1, vs[m]) \in S(m)
    BY <1>6, <2>1
  <2>3. F[<<m, u>>] = WriteField(u, offset + m - 1, vs[m])
    BY <1>9, <2>1
  <2> QED BY <1>10, <1>11, <2>2, <2>3
<1>13. 0 \in 0 .. n /\ n \in 0 .. n
  BY <1>3
<1>14. s \in G[0]
  BY <1>7, <1>10, <1>13
<1>15. PICK f : IsRun(f, n, s, F) /\ \A m \in 0 .. n : f[m] \in G[m]
  BY <1>3, <1>12, <1>14, PassesRun
<1>16. f = [m \in 0 .. n |-> IF m = 0 THEN s ELSE WriteField(f[m - 1], offset + m - 1, vs[m])]
  <2>1. ASSUME NEW m \in 0 .. n, m # 0
        PROVE  F[<<m, f[m - 1]>>] = WriteField(f[m - 1], offset + m - 1, vs[m])
    <3>1. m \in 1 .. n
      BY <1>3, <2>1
    <3>2. f[m - 1] \in Table
      BY <1>8, <1>10, <1>11, <1>15, <3>1
    <3> QED BY <1>9, <3>1, <3>2
  <2> QED BY <1>15, <2>1 DEF IsRun
<1> DEFINE R == Listing(s, offset, vs)
<1>17. R = CHOOSE h : h = [m \in 0 .. n |-> IF m = 0 THEN s
                                            ELSE WriteField(h[m - 1], offset + m - 1, vs[m])]
  BY <1>3 DEF Listing
<1>18. R = [m \in 0 .. n |-> IF m = 0 THEN s ELSE WriteField(R[m - 1], offset + m - 1, vs[m])]
  BY <1>16, <1>17
<1> HIDE DEF R
<1>19. R[0] = s /\ \A m \in 1 .. n : R[m] = WriteField(R[m - 1], offset + m - 1, vs[m])
  BY <1>3, <1>13, <1>18
<1>20. \A m \in 1 .. n : R[m - 1] \in G[m - 1] => R[m] \in G[m]
  BY <1>6, <1>10, <1>11, <1>19
<1>21. \A m \in 0 .. n : R[m] \in G[m]
  BY <1>3, <1>14, <1>19, <1>20, RunStays
<1> DEFINE r == R[n]
<1>22. Good(r) /\ DOMAIN r.array = 1 .. L /\ r.iterBound = t.iterBound
       /\ DOMAIN r.hash = D \ (offset .. offset + n - 1) /\ r \in Table
  <2>1. r \in S(n)
    BY <1>10, <1>13, <1>21
  <2> QED BY <2>1 DEF S
<1> HIDE DEF r
<1>23. ASSUME NEW x, x \in D, x \in 1 .. L, x \notin offset .. offset + n - 1 PROVE FALSE
  <2>1. ~(x <= Len(t.array))
    BY <1>1, <1>2, <1>23
  <2>2. CASE needed > Len(t.array)
    <3>1. L = needed
      BY <2>2 DEF L
    <3> QED BY <1>1, <1>23, <2>1, <3>1
  <2>3. CASE ~(needed > Len(t.array))
    <3>1. L = Len(t.array)
      BY <2>3 DEF L
    <3> QED BY <1>1, <1>23, <2>1, <3>1
  <2> QED BY <2>2, <2>3
<1>24. Whole(r)
  BY <1>22, <1>23 DEF Whole
<1>25. Len(r.array) >= needed
  <2>1. DOMAIN r.array = 1 .. Len(r.array) /\ Len(r.array) \in Nat
    BY <1>22, TableFields
  <2>2. Len(r.array) = L
    BY <1>2, <1>22, <2>1
  <2> QED BY <1>2, <2>2
<1> QED BY <1>5, <1>22, <1>24, <1>25 DEF Bounded, r, R

-----------------------------------------------------------------------------
(* next() writes the cursor, the window and the slot index only.            *)

Read(t, r) ==
  /\ Whole(r)
  /\ r.array = t.array /\ r.cap = t.cap /\ r.hash = t.hash /\ r.keys = t.keys

\* Read is transitive.
LEMMA ReadTwice ==
  ASSUME NEW t, NEW u, NEW r, Read(t, u), Read(u, r)
  PROVE  Read(t, r)
BY DEF Read

\* setIterBound writes the window only.
LEMMA BoundsSet ==
  ASSUME NEW t, Whole(t), NEW n \in Nat
  PROVE  Read(t, setIterBound(t, n)) /\ setIterBound(t, n).iterBound = n
<1> DEFINE c == keysShape(t)
           r == [t EXCEPT !.iterBound = n, !.iterShape = c]
<1>1. /\ t \in Table /\ Good(t) /\ Tidy(t, DOMAIN t.hash) /\ DOMAIN t.hash \cap DOMAIN t.array = {}
      /\ Len(t.keys) \in Nat /\ t.deadKeys \in Nat
  BY GoodTable, TableFields DEF Whole
<1>2. c \in Nat
  BY <1>1 DEF keysShape
<1>3. setIterBound(t, n) = r
  BY DEF setIterBound
<1> HIDE DEF c
<1>4. /\ r \in Table /\ r.array = t.array /\ r.cap = t.cap /\ r.hash = t.hash /\ r.keys = t.keys
      /\ r.deadKeys = t.deadKeys /\ r.dead = t.dead /\ r.kidx = t.kidx /\ r.iterBound = n
  BY <1>1, <1>2 DEF Table
<1> HIDE DEF r
<1>5. Whole(r)
  BY <1>1, <1>4 DEF Whole, Good, Tidy
<1> QED BY <1>3, <1>4, <1>5 DEF Read

\* The cursor is a hint.
LEMMA CursorSet ==
  ASSUME NEW t, Whole(t), NEW n \in Nat
  PROVE  Read(t, [t EXCEPT !.iterCur = n]) /\ [t EXCEPT !.iterCur = n].iterBound = t.iterBound
<1> DEFINE r == [t EXCEPT !.iterCur = n]
<1>1. /\ t \in Table /\ Good(t) /\ Tidy(t, DOMAIN t.hash) /\ DOMAIN t.hash \cap DOMAIN t.array = {}
  BY GoodTable DEF Whole
<1>2. /\ r \in Table /\ r.array = t.array /\ r.cap = t.cap /\ r.hash = t.hash /\ r.keys = t.keys
      /\ r.deadKeys = t.deadKeys /\ r.dead = t.dead /\ r.kidx = t.kidx /\ r.iterBound = t.iterBound
  BY <1>1 DEF Table
<1> HIDE DEF r
<1>3. Whole(r)
  BY <1>1, <1>2 DEF Whole, Good, Tidy
<1> QED BY <1>2, <1>3 DEF Read, r

\* finishTraversal leaves the window or gives it up.
LEMMA Finished ==
  ASSUME NEW t, Whole(t)
  PROVE  Read(t, finishTraversal(t)) /\ Bounded(t, finishTraversal(t))
<1>1. finishTraversal(t) \in {t, setIterBound(t, 0)}
  BY DEF finishTraversal
<1>2. Read(t, t) /\ Bounded(t, t)
  BY DEF Read, Bounded
<1>3. Read(t, setIterBound(t, 0)) /\ Bounded(t, setIterBound(t, 0))
  BY BoundsSet DEF Bounded
<1> QED BY <1>1, <1>2, <1>3

\* The slot index is built.
LEMMA IndexBuilt ==
  ASSUME NEW t, Whole(t), NEW k
  PROVE  /\ Read(t, Indexed(t, k)) /\ Indexed(t, k).iterBound = t.iterBound
<1> DEFINE x == keyIndexOf(t)
           f == x.slot
           r == [t EXCEPT !.kidx = x]
           at(y) == CHOOSE i \in DOMAIN t.keys :
                      t.keys[i] = y /\ \A j \in DOMAIN t.keys : t.keys[j] = y => j <= i
<1>1. /\ t \in Table /\ Good(t) /\ Tidy(t, DOMAIN t.hash) /\ DOMAIN t.hash \cap DOMAIN t.array = {}
      /\ IsInjective(t.keys) /\ Range(t.keys) \subseteq Key
      /\ \A i \in DOMAIN t.keys : i \in Nat
  <2>1. t \in Table /\ Good(t) /\ Tidy(t, DOMAIN t.hash) /\ DOMAIN t.hash \cap DOMAIN t.array = {}
    BY GoodTable DEF Whole
  <2>2. IsInjective(t.keys)
    BY <2>1 DEF Tidy
  <2>3. Range(t.keys) \subseteq Key /\ DOMAIN t.keys = 1 .. Len(t.keys)
    BY <2>1, TableFields
  <2> QED BY <2>1, <2>2, <2>3
<1>2. x.on = TRUE /\ f = [y \in Range(t.keys) |-> at(y)] /\ x = [on |-> TRUE, slot |-> f]
  BY DEF keyIndexOf
<1>3. ASSUME NEW i \in DOMAIN t.keys PROVE at(t.keys[i]) = i
  <2>1. \A j \in DOMAIN t.keys : t.keys[j] = t.keys[i] => j = i
    BY <1>1 DEF IsInjective
  <2>2. i <= i
    BY <1>1
  <2> QED BY <2>1, <2>2
<1> HIDE DEF at, x
<1>4. \A i \in DOMAIN t.keys : f[t.keys[i]] = i
  BY <1>2, <1>3, InRange
<1>5. f \in Partial(Nat) /\ DOMAIN f = Range(t.keys)
  <2>1. \A y \in Range(t.keys) : f[y] \in Nat
    BY <1>1, <1>4, InRange
  <2>2. f = [y \in Range(t.keys) |-> f[y]] /\ DOMAIN f = Range(t.keys)
    BY <1>2
  <2> HIDE DEF f
  <2>3. f \in [Range(t.keys) -> Nat]
    BY <2>1, <2>2
  <2> QED BY <1>1, <2>2, <2>3, PartialIs
<1>6. x \in [on : BOOLEAN, slot : Partial(Nat)]
  <2>1. f \in Partial(Nat) /\ x = [on |-> TRUE, slot |-> f]
    BY <1>2, <1>5
  <2> HIDE DEF f
  <2> QED BY <2>1
<1>7. IndexTidy(t.keys, x)
  BY <1>4, <1>5 DEF IndexTidy
<1>8. /\ r \in Table /\ r.array = t.array /\ r.cap = t.cap /\ r.hash = t.hash /\ r.keys = t.keys
      /\ r.deadKeys = t.deadKeys /\ r.dead = t.dead /\ r.kidx = x /\ r.iterBound = t.iterBound
  BY <1>1, <1>6 DEF Table
<1>9. Indexed(t, k) \in {t, r}
  BY DEF Indexed, x
<1> HIDE DEF r
<1>10. Whole(r)
  BY <1>1, <1>7, <1>8 DEF Whole, Good, Tidy
<1>11. Read(t, r) /\ Read(t, t)
  BY <1>8, <1>10 DEF Read
<1> QED BY <1>8, <1>9, <1>11

Live(t, j) == j \in DOMAIN t.keys /\ t.keys[j] \in DOMAIN t.hash

\* LiveSlotAfter answers the first live slot after s up to b, and 0 if there is none.
LEMMA LiveSlot ==
  ASSUME NEW t \in Table, NEW s \in Nat, NEW b \in Nat
  PROVE  LET j == LiveSlotAfter(t, s, b) IN
         /\ j = 0 => \A i \in DOMAIN t.keys : Live(t, i) /\ s < i => ~(i <= b)
         /\ j # 0 => /\ Live(t, j) /\ s < j /\ j <= b
                     /\ \A i \in DOMAIN t.keys : Live(t, i) /\ s < i /\ i <= b => j <= i
<1> DEFINE I == {j \in DOMAIN t.keys : s < j /\ j <= b /\ alive(t, t.keys[j])}
<1>1. DOMAIN t.keys \subseteq Nat \ {0}
  BY TableFields
<1>2. I \in SUBSET (Nat \ {0})
  BY <1>1
<1>3. LiveSlotAfter(t, s, b) = Least(I)
  BY DEF LiveSlotAfter
<1>4. \A i \in DOMAIN t.keys : i \in I <=> Live(t, i) /\ s < i /\ i <= b
  BY DEF Live, alive
<1>5. I \subseteq DOMAIN t.keys
  OBVIOUS
<1> HIDE DEF I
<1>6. /\ Least(I) = 0 => I = {}
      /\ Least(I) # 0 => Least(I) \in I /\ \A i \in I : Least(I) <= i
  BY <1>2, Least0
<1>7. PICK j : j = LiveSlotAfter(t, s, b)
  OBVIOUS
<1>8. j = 0 => \A i \in DOMAIN t.keys : Live(t, i) /\ s < i => ~(i <= b)
  BY <1>3, <1>4, <1>6, <1>7
<1>9. j # 0 => /\ Live(t, j) /\ s < j /\ j <= b
               /\ \A i \in DOMAIN t.keys : Live(t, i) /\ s < i /\ i <= b => j <= i
  BY <1>3, <1>4, <1>5, <1>6, <1>7
<1> QED BY <1>7, <1>8, <1>9

\* What next() answers after slot s: the first live key of the window.
LEMMA AfterSlot ==
  ASSUME NEW t, Whole(t), NEW s \in Nat
  PROVE  LET r == hashEntryAfterIdx(t, s) IN
         /\ Read(t, r.t) /\ Bounded(t, r.t)
         /\ \/ /\ r.key = Over
               /\ \A i \in DOMAIN t.keys : Live(t, i) /\ s < i => ~(i <= iterWindow(t))
            \/ /\ r.key \in Key /\ r.t.iterBound = t.iterBound
               /\ \E j \in DOMAIN t.keys :
                    /\ r.key = t.keys[j] /\ Live(t, j) /\ s < j /\ j <= iterWindow(t)
                    /\ \A i \in DOMAIN t.keys : Live(t, i) /\ s < i /\ i <= iterWindow(t) => j <= i
<1> DEFINE r == hashEntryAfterIdx(t, s)
           b == iterWindow(t)
           w == [t EXCEPT !.iterCur = LiveSlotAfter(t, s, b)]
<1>1. /\ t \in Table /\ t.iterBound \in Nat /\ Len(t.keys) \in Nat
      /\ DOMAIN t.keys \subseteq Nat /\ \A i \in DOMAIN t.keys : t.keys[i] \in Key
  BY GoodTable, TableFields DEF Whole
<1>2. b \in Nat
  BY <1>1 DEF iterWindow
<1>3. PICK j : j = LiveSlotAfter(t, s, b)
  OBVIOUS
<1>4. r = IF j = 0 THEN OverAt(t) ELSE AtSlot(t, j)
  BY <1>3 DEF hashEntryAfterIdx
<1>5. /\ j = 0 => \A i \in DOMAIN t.keys : Live(t, i) /\ s < i => ~(i <= b)
      /\ j # 0 => /\ Live(t, j) /\ s < j /\ j <= b
                  /\ \A i \in DOMAIN t.keys : Live(t, i) /\ s < i /\ i <= b => j <= i
  BY <1>1, <1>2, <1>3, LiveSlot
<1> HIDE DEF r, b
<1>6. CASE j = 0
  <2>1. r.t = finishTraversal(t) /\ r.key = Over
    BY <1>4, <1>6 DEF OverAt
  <2> QED BY <1>5, <1>6, <2>1, Finished DEF r, b
<1>7. CASE j # 0
  <2> DEFINE u == [t EXCEPT !.iterCur = j]
  <2>1. r = [t |-> u, key |-> t.keys[j]]
    BY <1>4, <1>7 DEF AtSlot
  <2>2. j \in DOMAIN t.keys
    BY <1>5, <1>7 DEF Live
  <2>3. Read(t, u) /\ u.iterBound = t.iterBound
    BY <1>1, <2>2, CursorSet
  <2> HIDE DEF u
  <2>4. r.t = u /\ r.key = t.keys[j] /\ r.key \in Key
    BY <1>1, <2>1, <2>2
  <2> QED BY <1>5, <1>7, <2>2, <2>3, <2>4 DEF r, b, Bounded
<1> QED BY <1>6, <1>7

\* The first live entry is the one after slot 0.
LEMMA FirstLiveIs == \A t : FirstLiveHashEntry(t) = hashEntryAfterIdx(t, 0)
BY DEF FirstLiveHashEntry, hashEntryAfterIdx

-----------------------------------------------------------------------------
(* What a traversal has ahead of it when it was handed key k last.          *)

Later(t, k) ==
  {x \in DOMAIN t.hash : \A i, j \in DOMAIN t.keys : t.keys[i] = k /\ t.keys[j] = x => i < j}
Ahead(t, k) ==
  IF k \in DOMAIN t.array THEN {i \in Filled(t.array) : i > k} \cup DOMAIN t.hash ELSE Later(t, k)
Beyond(t, s) == {x \in DOMAIN t.hash : \E j \in DOMAIN t.keys : t.keys[j] = x /\ s < j}
Unfenced(t) == t.iterBound \in {0, Len(t.keys)}
Reachable(t, k) == k \in DOMAIN t.array \/ k \in Range(t.keys) \/ k \in 1 .. t.cap

\* What a table between two operations is.
LEMMA Slots ==
  ASSUME NEW t, Whole(t)
  PROVE  /\ t \in Table /\ Good(t) /\ IsInjective(t.keys) /\ DOMAIN t.hash \subseteq Range(t.keys)
         /\ DOMAIN t.hash \cap DOMAIN t.array = {}
         /\ DOMAIN t.keys = 1 .. Len(t.keys) /\ Len(t.keys) \in Nat
         /\ DOMAIN t.hash \subseteq Key
         /\ DOMAIN t.array = 1 .. Len(t.array) /\ Len(t.array) \in Nat /\ t.iterBound \in Nat
         /\ Range(t.keys) \subseteq Key /\ t.cap \in Nat /\ Len(t.array) <= t.cap
         /\ Filled(t.array) \subseteq IntKeys
<1>1. t \in Table /\ Good(t) /\ Tidy(t, DOMAIN t.hash) /\ DOMAIN t.hash \cap DOMAIN t.array = {}
      /\ Len(t.array) <= t.cap /\ Filled(t.array) \subseteq IntKeys
  BY GoodTable DEF Whole
<1>2. IsInjective(t.keys) /\ DOMAIN t.hash \subseteq Range(t.keys)
  BY <1>1 DEF Tidy
<1> QED BY <1>1, <1>2, TableFields

\* After slot s and without a fence, next() answers the first of the keys beyond it.
LEMMA LaterAfter ==
  ASSUME NEW t, Whole(t), Unfenced(t), NEW s \in Nat
  PROVE  LET r == hashEntryAfterIdx(t, s) IN
         /\ r.key = Over => Beyond(t, s) = {}
         /\ r.key # Over => /\ r.key \in Beyond(t, s)
                            /\ Later(t, r.key) = Beyond(t, s) \ {r.key}
                            /\ r.key \notin DOMAIN t.array /\ r.key \in Range(t.keys)
<1> DEFINE r == hashEntryAfterIdx(t, s)
<1>1. /\ t \in Table /\ IsInjective(t.keys) /\ DOMAIN t.hash \subseteq Range(t.keys)
      /\ DOMAIN t.hash \cap DOMAIN t.array = {}
      /\ DOMAIN t.keys = 1 .. Len(t.keys) /\ Len(t.keys) \in Nat
      /\ \A i \in DOMAIN t.keys : i \in Nat /\ i <= Len(t.keys)
  BY Slots
<1>2. iterWindow(t) = Len(t.keys)
  BY <1>1 DEF iterWindow, Unfenced
<1>3. \/ /\ r.key = Over
         /\ \A i \in DOMAIN t.keys : Live(t, i) /\ s < i => ~(i <= iterWindow(t))
      \/ /\ r.key \in Key
         /\ \E j \in DOMAIN t.keys :
              /\ r.key = t.keys[j] /\ Live(t, j) /\ s < j
              /\ \A i \in DOMAIN t.keys : Live(t, i) /\ s < i /\ i <= iterWindow(t) => j <= i
  BY AfterSlot
<1> HIDE DEF r
<1>4. Over \notin Key
  BY ValAssumption
<1>5. ASSUME r.key = Over PROVE Beyond(t, s) = {}
  <2>1. \A i \in DOMAIN t.keys : ~(Live(t, i) /\ s < i)
    BY <1>1, <1>2, <1>3, <1>4, <1>5
  <2> QED BY <2>1 DEF Beyond, Live
<1>6. ASSUME r.key # Over
      PROVE  /\ r.key \in Beyond(t, s)
             /\ Later(t, r.key) = Beyond(t, s) \ {r.key}
             /\ r.key \notin DOMAIN t.array /\ r.key \in Range(t.keys)
  <2>1. PICK j \in DOMAIN t.keys :
              /\ r.key = t.keys[j] /\ Live(t, j) /\ s < j
              /\ \A i \in DOMAIN t.keys : Live(t, i) /\ s < i => j <= i
    BY <1>1, <1>2, <1>3, <1>6
  <2>2. r.key \in DOMAIN t.hash /\ r.key \in Beyond(t, s)
    BY <2>1 DEF Live, Beyond
  <2>3. r.key \notin DOMAIN t.array /\ r.key \in Range(t.keys)
    BY <1>1, <2>2
  <2>4. ASSUME NEW x \in Later(t, r.key) PROVE x \in Beyond(t, s) \ {r.key}
    <3>1. x \in DOMAIN t.hash
      BY <2>4 DEF Later
    <3>2. PICK i \in DOMAIN t.keys : t.keys[i] = x
      BY <1>1, <3>1, InRange
    <3>3. j < i
      BY <2>1, <2>4, <3>2 DEF Later
    <3>4. s < i /\ x # r.key
      <4>1. i \in Nat /\ j \in Nat
        BY <1>1
      <4>2. i # j
        BY <3>3, <4>1
      <4> QED BY <1>1, <2>1, <3>2, <3>3, <4>1, <4>2 DEF IsInjective
    <3> QED BY <3>1, <3>2, <3>4 DEF Beyond
  <2>5. ASSUME NEW x \in Beyond(t, s) \ {r.key} PROVE x \in Later(t, r.key)
    <3>1. PICK i \in DOMAIN t.keys : t.keys[i] = x /\ s < i /\ x \in DOMAIN t.hash
      BY <2>5 DEF Beyond
    <3>2. j <= i /\ i # j
      BY <2>1, <2>5, <3>1 DEF Live
    <3>3. i \in Nat /\ j \in Nat
      BY <1>1
    <3>4. j < i
      BY <3>2, <3>3
    <3>5. \A a, b \in DOMAIN t.keys : t.keys[a] = r.key /\ t.keys[b] = x => a = j /\ b = i
      BY <1>1, <2>1, <3>1 DEF IsInjective
    <3> QED BY <3>1, <3>4, <3>5 DEF Later
  <2> QED BY <2>2, <2>3, <2>4, <2>5
<1> QED BY <1>5, <1>6 DEF r

\* Behind key k there is what lies beyond its slot, or everything if it has none.
LEMMA LaterIs ==
  ASSUME NEW t, Whole(t), NEW k
  PROVE  /\ k \notin Range(t.keys) => Later(t, k) = Beyond(t, 0)
         /\ \A s \in DOMAIN t.keys : t.keys[s] = k => Later(t, k) = Beyond(t, s)
         /\ Beyond(t, 0) = DOMAIN t.hash
<1>1. /\ IsInjective(t.keys) /\ DOMAIN t.hash \subseteq Range(t.keys)
      /\ DOMAIN t.keys = 1 .. Len(t.keys) /\ Len(t.keys) \in Nat
      /\ \A i \in DOMAIN t.keys : i \in Nat /\ 0 < i
  BY Slots
<1>2. Beyond(t, 0) = DOMAIN t.hash
  BY <1>1, InRange DEF Beyond
<1>3. k \notin Range(t.keys) => Later(t, k) = DOMAIN t.hash
  BY InRange DEF Later
<1>4. ASSUME NEW s \in DOMAIN t.keys, t.keys[s] = k PROVE Later(t, k) = Beyond(t, s)
  <2>1. ASSUME NEW x \in Later(t, k) PROVE x \in Beyond(t, s)
    <3>1. x \in DOMAIN t.hash
      BY <2>1 DEF Later
    <3>2. PICK i \in DOMAIN t.keys : t.keys[i] = x
      BY <1>1, <3>1, InRange
    <3> QED BY <1>4, <2>1, <3>1, <3>2 DEF Later, Beyond
  <2>2. ASSUME NEW x \in Beyond(t, s) PROVE x \in Later(t, k)
    <3>1. PICK i \in DOMAIN t.keys : t.keys[i] = x /\ s < i /\ x \in DOMAIN t.hash
      BY <2>2 DEF Beyond
    <3>2. \A a, b \in DOMAIN t.keys : t.keys[a] = k /\ t.keys[b] = x => a = s /\ b = i
      BY <1>1, <1>4, <3>1 DEF IsInjective
    <3> QED BY <3>1, <3>2 DEF Later
  <2> QED BY <2>1, <2>2
<1> QED BY <1>2, <1>3, <1>4

\* nextArrayEntry answers the first filled position after n, and 0 if there is none.
LEMMA NextFilled ==
  ASSUME NEW t, Whole(t), NEW n \in Nat
  PROVE  LET i == nextArrayEntry(t, n) IN
         /\ i = 0 => \A x \in Filled(t.array) : ~(x > n)
         /\ i # 0 => /\ i \in Filled(t.array) /\ i > n /\ i \in DOMAIN t.array /\ i \in Key
                     /\ i \notin DOMAIN t.hash
                     /\ \A x \in Filled(t.array) : x > n => i <= x
<1> DEFINE I == {x \in Filled(t.array) : x > n}
<1>1. /\ DOMAIN t.array = 1 .. Len(t.array) /\ DOMAIN t.hash \cap DOMAIN t.array = {}
      /\ Filled(t.array) \subseteq IntKeys
  BY Slots
<1>2. Filled(t.array) \subseteq DOMAIN t.array
  BY FilledIs
<1>3. I \in SUBSET (Nat \ {0})
  BY <1>1, <1>2
<1>4. PICK i : i = nextArrayEntry(t, n)
  OBVIOUS
<1>5. i = Least(I)
  BY <1>4 DEF nextArrayEntry
<1>6. i = 0 => I = {}
  BY <1>3, <1>5, Least0
<1>7. i # 0 => i \in I /\ \A x \in I : i <= x
  BY <1>3, <1>5, Least0
<1>8. i # 0 => i \in DOMAIN t.array /\ i \in Key /\ i \notin DOMAIN t.hash
  BY <1>1, <1>2, <1>7 DEF Key
<1> QED BY <1>4, <1>6, <1>7, <1>8

\* The array positions that hold a value, and the keys of the hash part, are the keys
\* with a value.
LEMMA Keyed ==
  ASSUME NEW t, Whole(t)
  PROVE  \A k \in Key : Get(t, k) # Nil <=> k \in Filled(t.array) \/ k \in DOMAIN t.hash
<1> TAKE k \in Key
<1>1. t \in Table /\ DOMAIN t.hash \cap DOMAIN t.array = {}
  BY Slots
<1>2. k \in Filled(t.array) <=> k \in DOMAIN t.array /\ t.array[k] # Nil
  BY FilledIs
<1> QED BY <1>1, <1>2, Values

-----------------------------------------------------------------------------
(* What next() answers.                                                     *)

\* The start of a traversal.
LEMMA FirstAnswer ==
  ASSUME NEW t, Whole(t)
  PROVE  LET r == FirstEntry(t) IN
         /\ Read(t, r.t)
         /\ r.key = Over => Bounded(t, r.t)
         /\ r.key # Over => /\ r.key \in Key /\ r.t.iterBound = Len(t.keys)
                            /\ r.key \in DOMAIN t.array \/ r.key \in Range(t.keys)
                            /\ Ahead(t, r.key) = {k \in Key \ {r.key} : Get(t, k) # Nil}
<1> DEFINE r == FirstEntry(t)
           o == setIterBound(t, Len(t.keys))
<1>1. /\ t \in Table /\ IsInjective(t.keys) /\ DOMAIN t.hash \subseteq Range(t.keys)
      /\ DOMAIN t.hash \cap DOMAIN t.array = {}
      /\ DOMAIN t.keys = 1 .. Len(t.keys) /\ Len(t.keys) \in Nat
      /\ DOMAIN t.hash \subseteq Key /\ Range(t.keys) \subseteq Key
      /\ Filled(t.array) \subseteq IntKeys
      /\ \A x \in DOMAIN t.keys : x \in Nat /\ 0 < x /\ x <= Len(t.keys)
  BY Slots
<1>2. PICK i : i = nextArrayEntry(t, 0)
  OBVIOUS
<1>3. PICK j : j = LiveSlotAfter(t, 0, Len(t.keys))
  OBVIOUS
<1>4. /\ i = 0 => \A x \in Filled(t.array) : ~(x > 0)
      /\ i # 0 => /\ i \in Filled(t.array) /\ i > 0 /\ i \in DOMAIN t.array /\ i \in Key
                  /\ i \notin DOMAIN t.hash
                  /\ \A x \in Filled(t.array) : x > 0 => i <= x
  BY <1>2, NextFilled
<1>5. /\ j = 0 => \A x \in DOMAIN t.keys : ~Live(t, x)
      /\ j # 0 => /\ Live(t, j) /\ \A x \in DOMAIN t.keys : Live(t, x) => j <= x
  BY <1>1, <1>3, LiveSlot
<1>6. r = CASE i # 0 -> [t |-> o, key |-> i]
            [] i = 0 /\ j # 0 -> AtSlot(o, j)
            [] OTHER -> OverAt(t)
  BY <1>2, <1>3 DEF FirstEntry
<1>7. Read(t, o) /\ o.iterBound = Len(t.keys)
  BY <1>1, BoundsSet
<1>8. Over \notin Key
  BY ValAssumption
<1>9. \A x \in Filled(t.array) : x > 0 /\ x \in DOMAIN t.array /\ x \in Int /\ x \in Key
  <2>1. DOMAIN t.array = 1 .. Len(t.array) /\ Len(t.array) \in Nat
    BY Slots
  <2> QED BY <1>1, <2>1, FilledIs DEF Key
<1>10. \A k \in Key : Get(t, k) # Nil <=> k \in Filled(t.array) \/ k \in DOMAIN t.hash
  BY Keyed
<1> HIDE DEF r, o
<1>11. CASE i # 0
  <2>1. r = [t |-> o, key |-> i]
    BY <1>6, <1>11
  <2>2. r.t = o /\ r.key = i /\ i # Over
    BY <1>4, <1>8, <1>11, <2>1
  <2>3. Ahead(t, i) = {k \in Key \ {i} : Get(t, k) # Nil}
    <3>1. Ahead(t, i) = {x \in Filled(t.array) : x > i} \cup DOMAIN t.hash
      BY <1>4, <1>11 DEF Ahead
    <3>2. \A x \in Filled(t.array) : x > i <=> x # i
      BY <1>4, <1>9, <1>11
    <3>3. i \notin DOMAIN t.hash
      BY <1>4, <1>11
    <3> QED BY <1>1, <1>9, <1>10, <3>1, <3>2, <3>3
  <2> QED BY <1>4, <1>7, <1>11, <2>2, <2>3 DEF r
<1>12. CASE i = 0 /\ j # 0
  <2> DEFINE u == [o EXCEPT !.iterCur = j]
  <2>1. r = [t |-> u, key |-> o.keys[j]]
    BY <1>6, <1>12 DEF AtSlot
  <2>2. o.keys = t.keys /\ Whole(o) /\ j \in DOMAIN t.keys /\ t.keys[j] \in DOMAIN t.hash /\ j \in Nat
    BY <1>1, <1>5, <1>7, <1>12 DEF Read, Live
  <2>3. Read(o, u) /\ u.iterBound = o.iterBound
    BY <2>2, CursorSet
  <2> HIDE DEF u
  <2>4. r.t = u /\ r.key = t.keys[j]
    BY <2>1, <2>2
  <2>5. t.keys[j] \in Key /\ t.keys[j] \in Range(t.keys) /\ t.keys[j] \notin DOMAIN t.array
    BY <1>1, <2>2
  <2>6. Filled(t.array) = {}
    BY <1>4, <1>9, <1>12
  <2>7. Ahead(t, t.keys[j]) = DOMAIN t.hash \ {t.keys[j]}
    <3>1. Ahead(t, t.keys[j]) = Beyond(t, j)
      BY <2>2, <2>5, LaterIs DEF Ahead
    <3>2. ASSUME NEW x \in Beyond(t, j) PROVE x \in DOMAIN t.hash \ {t.keys[j]}
      <4>1. PICK a \in DOMAIN t.keys : t.keys[a] = x /\ j < a /\ x \in DOMAIN t.hash
        BY <3>2 DEF Beyond
      <4>2. a # j
        BY <1>1, <2>2, <4>1
      <4> QED BY <1>1, <2>2, <4>1, <4>2 DEF IsInjective
    <3>3. ASSUME NEW x \in DOMAIN t.hash \ {t.keys[j]} PROVE x \in Beyond(t, j)
      <4>1. PICK a \in DOMAIN t.keys : t.keys[a] = x
        BY <1>1, InRange
      <4>2. j <= a /\ a # j
        BY <1>5, <1>12, <3>3, <4>1 DEF Live
      <4>3. j < a
        BY <1>1, <2>2, <4>2
      <4> QED BY <4>1, <4>3 DEF Beyond
    <3> QED BY <3>1, <3>2, <3>3
  <2>8. Ahead(t, t.keys[j]) = {k \in Key \ {t.keys[j]} : Get(t, k) # Nil}
    BY <1>1, <1>10, <2>6, <2>7
  <2>9. Read(t, u) /\ u.iterBound = Len(t.keys)
    BY <1>7, <2>3, ReadTwice
  <2>10. t.keys[j] # Over
    BY <1>8, <2>5
  <2> QED BY <2>4, <2>5, <2>8, <2>9, <2>10 DEF r
<1>13. CASE i = 0 /\ j = 0
  <2>1. r = OverAt(t)
    BY <1>6, <1>13
  <2>2. r.t = finishTraversal(t) /\ r.key = Over
    BY <2>1 DEF OverAt
  <2> QED BY <2>2, Finished DEF r
<1> QED BY <1>11, <1>12, <1>13

\* The order of the ordered keys is what next() goes by, so its answers do not depend
\* on what it writes.
LEMMA ReadAhead ==
  ASSUME NEW t, NEW r, Read(t, r)
  PROVE  /\ \A k : Ahead(r, k) = Ahead(t, k) /\ Later(r, k) = Later(t, k)
                   /\ (Reachable(r, k) <=> Reachable(t, k)) /\ (Strays(r, k) <=> Strays(t, k))
                   /\ Get(r, k) = Get(t, k)
         /\ \A s : Beyond(r, s) = Beyond(t, s)
         /\ r.iterBound = t.iterBound => (Unfenced(r) <=> Unfenced(t))
         /\ r.iterBound = t.iterBound => iterWindow(r) = iterWindow(t)
BY DEF Read, Ahead, Later, Reachable, Strays, alive, Get, Beyond, Unfenced, iterWindow

\* What a step of a traversal does with a table, and what it answers to a key that a
\* traversal without a fence may ask about.
Answers(t, k, r) ==
  /\ Read(t, r.t) /\ Bounded(t, r.t)
  /\ r.key \in Key \cup {Over, Failed}
  /\ r.key \in Key => r.t.iterBound = t.iterBound
  /\ Get(t, k) # Nil => r.key # Failed
  /\ r.key \in Key \ DOMAIN t.array =>
       \E j \in DOMAIN t.keys : t.keys[j] = r.key /\ j <= iterWindow(t)
Advances(t, k, r) ==
  Unfenced(t) /\ Reachable(t, k) =>
    /\ r.key # Failed
    /\ r.key = Over => Ahead(t, k) = {}
    /\ r.key # Over => /\ r.key \in Ahead(t, k) /\ Ahead(t, r.key) = Ahead(t, k) \ {r.key}
                       /\ Reachable(t, r.key)

\* The answer after slot s of the ordered keys to a key that has Beyond(t, s) ahead.
LEMMA SlotAnswer ==
  ASSUME NEW t, Whole(t), NEW s \in Nat, NEW k
  PROVE  LET r == hashEntryAfterIdx(t, s) IN
         /\ Answers(t, k, r) /\ r.key # Failed
         /\ Ahead(t, k) = Beyond(t, s) => Advances(t, k, r)
<1> DEFINE r == hashEntryAfterIdx(t, s)
<1>1. /\ Read(t, r.t) /\ Bounded(t, r.t)
      /\ \/ r.key = Over
         \/ /\ r.key \in Key /\ r.t.iterBound = t.iterBound
            /\ \E j \in DOMAIN t.keys : r.key = t.keys[j] /\ j <= iterWindow(t)
  BY AfterSlot
<1> HIDE DEF r
<1>2. Over \notin Key /\ Failed \notin Key /\ Over # Failed
  BY ValAssumption
<1>3. Answers(t, k, r) /\ r.key # Failed
  BY <1>1, <1>2 DEF Answers
<1>4. ASSUME Ahead(t, k) = Beyond(t, s), Unfenced(t)
      PROVE  /\ r.key # Failed
             /\ r.key = Over => Ahead(t, k) = {}
             /\ r.key # Over => /\ r.key \in Ahead(t, k) /\ Ahead(t, r.key) = Ahead(t, k) \ {r.key}
                                /\ Reachable(t, r.key)
  <2>1. /\ r.key = Over => Beyond(t, s) = {}
        /\ r.key # Over => /\ r.key \in Beyond(t, s)
                           /\ Later(t, r.key) = Beyond(t, s) \ {r.key}
                           /\ r.key \notin DOMAIN t.array /\ r.key \in Range(t.keys)
    BY <1>4, LaterAfter DEF r
  <2> QED BY <1>3, <1>4, <2>1 DEF Ahead, Reachable
<1> QED BY <1>3, <1>4 DEF Advances, r

\* An answer about a table that was only read is one about the table before.
LEMMA AnswersOn ==
  ASSUME NEW t, NEW u, NEW k, NEW r, Read(t, u), u.iterBound = t.iterBound
  PROVE  /\ Answers(u, k, r) => Answers(t, k, r)
         /\ Advances(u, k, r) => Advances(t, k, r)
<1>1. u.array = t.array /\ u.keys = t.keys
  BY DEF Read
<1>2. iterWindow(u) = iterWindow(t) /\ Get(u, k) = Get(t, k)
  BY ReadAhead
<1>3. Answers(u, k, r) => Answers(t, k, r)
  BY <1>1, <1>2, ReadTwice DEF Answers, Bounded
<1>4. /\ Unfenced(u) <=> Unfenced(t)
      /\ \A x : Ahead(u, x) = Ahead(t, x) /\ (Reachable(u, x) <=> Reachable(t, x))
  BY ReadAhead
<1>5. Advances(u, k, r) => Advances(t, k, r)
  BY <1>4 DEF Advances
<1> QED BY <1>3, <1>5

\* next(t, k): the answer, and that it leads through all that is ahead of k.
LEMMA NextAnswer ==
  ASSUME NEW t, Whole(t), NEW k \in Key
  PROVE  Answers(t, k, NextOf(t, k)) /\ Advances(t, k, NextOf(t, k))
<1> DEFINE r == NextOf(t, k)
<1>1. /\ t \in Table /\ IsInjective(t.keys) /\ DOMAIN t.hash \subseteq Range(t.keys)
      /\ DOMAIN t.hash \cap DOMAIN t.array = {}
      /\ DOMAIN t.array = 1 .. Len(t.array) /\ Len(t.array) \in Nat
      /\ DOMAIN t.keys = 1 .. Len(t.keys) /\ Len(t.keys) \in Nat
  BY Slots
<1>2. Over \notin Key /\ Failed \notin Key /\ Over # Failed
  BY ValAssumption
<1>3. CASE k \in DOMAIN t.array
  <2>1. PICK i : i = nextArrayEntry(t, k)
    OBVIOUS
  <2>2. k \in Nat
    BY <1>1, <1>3
  <2>3. /\ i = 0 => \A x \in Filled(t.array) : ~(x > k)
        /\ i # 0 => /\ i \in Filled(t.array) /\ i > k /\ i \in DOMAIN t.array /\ i \in Key
                    /\ i \notin DOMAIN t.hash
                    /\ \A x \in Filled(t.array) : x > k => i <= x
    BY <2>1, <2>2, NextFilled
  <2>4. r = IF i # 0 THEN [t |-> t, key |-> i] ELSE hashEntryAfterIdx(t, 0)
    BY <1>3, <2>1, FirstLiveIs DEF NextOf, FromArray
  <2>5. Ahead(t, k) = {x \in Filled(t.array) : x > k} \cup DOMAIN t.hash
    BY <1>3 DEF Ahead
  <2> HIDE DEF r
  <2>6. CASE i # 0
    <3>1. r.t = t /\ r.key = i /\ i \in Key
      BY <2>3, <2>4, <2>6
    <3>2. i \in DOMAIN t.array /\ i \in Ahead(t, k) /\ i \notin DOMAIN t.hash
      BY <2>3, <2>5, <2>6
    <3>3. Answers(t, k, r)
      BY <1>2, <3>1, <3>2 DEF Answers, Read, Bounded
    <3>4. Ahead(t, i) = Ahead(t, k) \ {i}
      <4>1. Ahead(t, i) = {x \in Filled(t.array) : x > i} \cup DOMAIN t.hash
        BY <3>2 DEF Ahead
      <4>2. \A x \in Filled(t.array) : x \in Int
        BY <1>1, FilledIs
      <4>3. \A x \in Filled(t.array) : x > i <=> x > k /\ x # i
        BY <2>2, <2>3, <2>6, <4>2
      <4> QED BY <2>5, <3>2, <4>1, <4>3
    <3>5. Advances(t, k, r)
      BY <1>2, <3>1, <3>2, <3>4 DEF Advances, Reachable
    <3> QED BY <3>3, <3>5 DEF r
  <2>7. CASE i = 0
    <3>1. r = hashEntryAfterIdx(t, 0)
      BY <2>4, <2>7
    <3>2. Ahead(t, k) = Beyond(t, 0)
      BY <2>3, <2>5, <2>7, LaterIs
    <3> QED BY <3>1, <3>2, SlotAnswer DEF r
  <2> QED BY <2>6, <2>7
<1>4. CASE k \notin DOMAIN t.array
  <2> DEFINE u == Indexed(t, k)
  <2>1. Read(t, u) /\ u.iterBound = t.iterBound
    BY IndexBuilt
  <2>2. PICK s : s = SlotBy(u, k, u.kidx)
    OBVIOUS
  <2>3. r = CASE s # 0 -> hashEntryAfterIdx(u, s)
              [] s = 0 /\ k \in 1 .. t.cap -> hashEntryAfterIdx(u, 0)
              [] OTHER -> [t |-> u, key |-> Failed]
    BY <1>4, <2>2, FirstLiveIs DEF NextOf, FromHash
  <2> HIDE DEF u, r
  <2>4. Whole(u) /\ u.keys = t.keys /\ u \in Table /\ u.array = t.array /\ u.hash = t.hash
    BY <2>1, Slots DEF Read
  <2>5. /\ k \in Range(t.keys) => s \in DOMAIN t.keys /\ t.keys[s] = k
        /\ k \notin Range(t.keys) => s = 0
    BY <2>2, <2>4, SlotFound
  <2>6. Ahead(u, k) = Later(u, k)
    BY <1>4, <2>4 DEF Ahead
  <2>7. CASE s # 0
    <3>1. r = hashEntryAfterIdx(u, s)
      BY <2>3, <2>7
    <3>2. s \in DOMAIN u.keys /\ u.keys[s] = k /\ s \in Nat
      BY <1>1, <2>4, <2>5, <2>7
    <3>3. Ahead(u, k) = Beyond(u, s)
      BY <2>4, <2>6, <3>2, LaterIs
    <3>4. Answers(u, k, r) /\ Advances(u, k, r)
      BY <2>4, <3>1, <3>2, <3>3, SlotAnswer
    <3> QED BY <2>1, <3>4, AnswersOn DEF r
  <2>8. CASE s = 0 /\ k \in 1 .. t.cap
    <3>1. r = hashEntryAfterIdx(u, 0)
      BY <2>3, <2>8
    <3>2. k \notin Range(u.keys)
      BY <1>1, <2>4, <2>5, <2>8
    <3>3. Ahead(u, k) = Beyond(u, 0)
      BY <2>4, <2>6, <3>2, LaterIs
    <3>4. Answers(u, k, r) /\ Advances(u, k, r)
      BY <2>4, <3>1, <3>3, SlotAnswer
    <3> QED BY <2>1, <3>4, AnswersOn DEF r
  <2>9. CASE s = 0 /\ k \notin 1 .. t.cap
    <3>1. r = [t |-> u, key |-> Failed]
      BY <2>3, <2>9
    <3>2. r.t = u /\ r.key = Failed
      BY <3>1
    <3>3. k \notin Range(t.keys)
      BY <1>1, <2>5, <2>9
    <3>4. Get(t, k) = Nil
      BY <1>1, <1>4, <3>3 DEF Get, alive
    <3>5. Answers(t, k, r)
      BY <1>2, <2>1, <3>2, <3>4 DEF Answers, Bounded
    <3>6. ~Reachable(t, k)
      BY <1>4, <2>9, <3>3 DEF Reachable
    <3> QED BY <3>5, <3>6 DEF Advances, r
  <2> QED BY <2>7, <2>8, <2>9
<1> QED BY <1>3, <1>4

-----------------------------------------------------------------------------
(* An assignment that adds no key thins what a traversal has ahead of it.   *)

Calmed(t, r) == \A x \in Key : Get(r, x) # Nil => Get(t, x) # Nil
Thinned(t, r) ==
  /\ Whole(r)
  /\ r.keys = t.keys /\ r.cap = t.cap /\ r.iterBound = t.iterBound
  /\ DOMAIN r.hash \subseteq DOMAIN t.hash /\ DOMAIN r.array \subseteq DOMAIN t.array

\* What is assigned is in place, and the slots are where they were.
LEMMA Thins ==
  ASSUME NEW t, Whole(t), NEW k \in Key, NEW v \in Value, Calmed(t, SetTable(t, k, v))
  PROVE  Thinned(t, SetTable(t, k, v))
<1> DEFINE r == SetTable(t, k, v)
<1>1. /\ Good(t) /\ t \in Table /\ DOMAIN t.hash \cap DOMAIN t.array = {}
      /\ DOMAIN t.array = 1 .. Len(t.array) /\ Len(t.array) \in Nat
  BY GoodTable, TableFields DEF Whole
<1>2. OutOfMemory(t, k, v) => r = t
  BY Assigned
<1>3. ~OutOfMemory(t, k, v) => Whole(r) /\ Get(r, k) = v
  BY Assigned DEF Wrote, Put
<1>4. Get(r, k) # Nil => Get(t, k) # Nil
  BY DEF Calmed
<1>5. Whole(r)
  <2> HIDE DEF r
  <2> QED BY <1>2, <1>3
<1>6. CASE OutOfMemory(t, k, v)
  <2> HIDE DEF r
  <2>1. r = t
    BY <1>2, <1>6
  <2> QED BY <2>1 DEF Thinned, r
<1>7. CASE k \in DOMAIN t.array /\ ~OutOfMemory(t, k, v)
  <2> DEFINE u == [t EXCEPT !.array[k] = v]
  <2>1. k \in IntKeys
    <3>1. k \in Int
      BY <1>1, <1>7
    <3> QED BY <3>1, IntKey
  <2>2. /\ Good(u) /\ u.cap = t.cap /\ u.hash = t.hash /\ u.iterBound = t.iterBound
        /\ u.keys = t.keys /\ DOMAIN u.array = DOMAIN t.array
    BY <1>1, <1>7, <2>1, Written
  <2>3. ~Appends(t, k, v)
    <3>1. k # Len(t.array) + 1
      BY <1>1, <1>7
    <3> QED BY <3>1 DEF Appends
  <2>4. r = IF v = Nil THEN shrinkArray(u) ELSE u
    <3>1. r = IF v = Nil THEN shrinkArray([t EXCEPT !.array[k] = Nil]) ELSE [t EXCEPT !.array[k] = v]
      BY <1>7, <2>3 DEF SetTable
    <3>2. v = Nil => u = [t EXCEPT !.array[k] = Nil]
      OBVIOUS
    <3> HIDE DEF r
    <3> QED BY <3>1, <3>2
  <2> HIDE DEF u, r
  <2>5. /\ r.keys = t.keys /\ r.cap = t.cap /\ r.hash = t.hash /\ r.iterBound = t.iterBound
        /\ DOMAIN r.array \subseteq DOMAIN t.array
    <3>1. CASE v = Nil
      <4>1. r = shrinkArray(u)
        BY <2>4, <3>1
      <4> QED BY <2>2, <4>1, Shrunk
    <3>2. CASE v # Nil
      BY <2>2, <2>4, <3>2
    <3> QED BY <3>1, <3>2
  <2> QED BY <1>5, <2>5 DEF Thinned, r
<1>8. CASE k \notin DOMAIN t.array /\ ~OutOfMemory(t, k, v)
  <2>1. v # Nil => k \in DOMAIN t.hash
    BY <1>1, <1>3, <1>4, <1>8, Values
  <2>2. ~Appends(t, k, v)
    BY <2>1 DEF Appends, alive
  <2>3. r = SetHash(t, k, v)
    BY <1>8, <2>2 DEF SetTable
  <2>4. CASE v = Nil /\ k \notin DOMAIN t.hash
    <3>1. r = t
      BY <2>3, <2>4 DEF SetHash, alive
    <3> QED BY <1>5, <3>1 DEF Thinned
  <2>5. CASE v # Nil
    <3>1. r = Store(t, k, v) /\ v \in Val /\ k \in DOMAIN t.hash
      BY <2>1, <2>3, <2>5 DEF SetHash, alive, Value
    <3>2. /\ DOMAIN r.hash = DOMAIN t.hash \cup {k} /\ r.array = t.array /\ r.cap = t.cap
          /\ r.keys = t.keys /\ r.iterBound = t.iterBound
      <4> HIDE DEF r
      <4> QED BY <1>1, <3>1, Stored
    <3> QED BY <1>5, <3>1, <3>2 DEF Thinned
  <2>6. CASE v = Nil /\ k \in DOMAIN t.hash
    <3> DEFINE u == Unstore(t, {k})
    <3>1. r = MarkDead(u, k)
      BY <2>3, <2>6 DEF SetHash, alive
    <3>2. /\ u \in Table /\ DOMAIN u.hash = DOMAIN t.hash \ {k}
          /\ u.array = t.array /\ u.cap = t.cap /\ u.keys = t.keys /\ u.iterBound = t.iterBound
          /\ Tidy(u, DOMAIN t.hash)
      BY <1>1, GoodTable, Unstored
    <3> HIDE DEF u, r
    <3>3. SameStore(u, r) /\ r.keys = u.keys
      BY <2>6, <3>1, <3>2, MarkedTidy
    <3>4. r.hash = u.hash /\ r.array = u.array /\ r.cap = u.cap /\ r.iterBound = u.iterBound
      BY <3>3 DEF SameStore
    <3> QED BY <1>5, <3>2, <3>3, <3>4 DEF Thinned, r
  <2> QED BY <2>4, <2>5, <2>6
<1> QED BY <1>6, <1>7, <1>8

\* The keys that are left are those that hold a value still.
LEMMA ThinnedKeys ==
  ASSUME NEW t, Whole(t), NEW r, Thinned(t, r), Calmed(t, r)
  PROVE  /\ DOMAIN r.hash = {x \in DOMAIN t.hash : Get(r, x) # Nil}
         /\ Filled(r.array) = {i \in Filled(t.array) : Get(r, i) # Nil}
<1>1. /\ DOMAIN r.hash \subseteq DOMAIN t.hash /\ DOMAIN r.array \subseteq DOMAIN t.array /\ Whole(r)
  BY DEF Thinned
<1>2. /\ DOMAIN t.hash \cap DOMAIN t.array = {} /\ DOMAIN t.hash \subseteq Key
      /\ Filled(t.array) \subseteq Key /\ Filled(t.array) \subseteq DOMAIN t.array
  BY Slots, FilledIs DEF Key
<1>3. Filled(r.array) \subseteq Key /\ Filled(r.array) \subseteq DOMAIN r.array
  BY <1>1, Slots, FilledIs DEF Key
<1>4. \A x \in Key : Get(t, x) # Nil <=> x \in Filled(t.array) \/ x \in DOMAIN t.hash
  BY Keyed
<1>5. \A x \in Key : Get(r, x) # Nil <=> x \in Filled(r.array) \/ x \in DOMAIN r.hash
  BY <1>1, Keyed
<1>6. \A x \in Key : Get(r, x) # Nil => Get(t, x) # Nil
  BY DEF Calmed
<1>7. \A x : x \in DOMAIN r.hash <=> x \in DOMAIN t.hash /\ Get(r, x) # Nil
  BY <1>1, <1>2, <1>3, <1>5
<1>8. \A x : x \in Filled(r.array) <=> x \in Filled(t.array) /\ Get(r, x) # Nil
  BY <1>1, <1>2, <1>3, <1>4, <1>5, <1>6
<1> QED BY <1>7, <1>8

\* A traversal that is on its track: it has to visit what is ahead of it, and that is
\* all it has to visit unless it has strayed.
Tracks(t, at, due, strayed) ==
  /\ Unfenced(t) /\ Reachable(t, at)
  /\ Ahead(t, at) \subseteq due
  /\ due \subseteq Ahead(t, at) \/ strayed \/ Strays(t, at)

\* An assignment that adds no key leaves a traversal on its track, shrunken array or not.
LEMMA TracksOn ==
  ASSUME NEW t, Whole(t), NEW r, Thinned(t, r), Calmed(t, r),
         NEW at, NEW due, NEW strayed, Tracks(t, at, due, strayed)
  PROVE  Tracks(r, at, {x \in due : Get(r, x) # Nil}, strayed)
<1> DEFINE left == {x \in Ahead(t, at) : Get(r, x) # Nil}
<1>1. /\ r.keys = t.keys /\ r.cap = t.cap /\ r.iterBound = t.iterBound
      /\ DOMAIN r.hash \subseteq DOMAIN t.hash /\ DOMAIN r.array \subseteq DOMAIN t.array /\ Whole(r)
  BY DEF Thinned
<1>2. /\ DOMAIN t.array = 1 .. Len(t.array) /\ Len(t.array) \in Nat /\ Len(t.array) <= t.cap
      /\ t.cap \in Nat /\ DOMAIN t.hash \cap DOMAIN t.array = {}
  BY Slots
<1>3. DOMAIN r.array = 1 .. Len(r.array) /\ Len(r.array) \in Nat
  BY <1>1, Slots
<1>4. /\ \A x : x \in DOMAIN r.hash <=> x \in DOMAIN t.hash /\ Get(r, x) # Nil
      /\ \A x : x \in Filled(r.array) <=> x \in Filled(t.array) /\ Get(r, x) # Nil
  BY ThinnedKeys
<1>5. Unfenced(r)
  BY <1>1 DEF Tracks, Unfenced
<1>6. Reachable(r, at)
  <2>1. at \in DOMAIN t.array => at \in 1 .. t.cap
    BY <1>2
  <2> QED BY <1>1, <2>1 DEF Tracks, Reachable
<1>7. Len(r.array) <= Len(t.array)
  <2>1. Len(r.array) > 0 => Len(r.array) \in DOMAIN r.array
    BY <1>3
  <2>2. Len(r.array) > 0 => Len(r.array) \in 1 .. Len(t.array)
    BY <1>1, <1>2, <2>1
  <2> QED BY <1>2, <1>3, <2>2
<1>8. \A x : x \in Later(r, at) <=> x \in Later(t, at) /\ Get(r, x) # Nil
  BY <1>1, <1>4 DEF Later
<1>9. /\ Ahead(r, at) \subseteq left
      /\ left \subseteq Ahead(r, at) \/ Strays(r, at)
      /\ Strays(t, at) => Strays(r, at)
  <2>1. CASE at \in DOMAIN r.array
    <3>1. at \in DOMAIN t.array
      BY <1>1, <2>1
    <3>2. \A x : x \in Ahead(r, at) <=> x \in Ahead(t, at) /\ Get(r, x) # Nil
      BY <1>4, <2>1, <3>1 DEF Ahead
    <3>3. ~Strays(t, at)
      BY <1>2, <3>1 DEF Strays
    <3> QED BY <3>2, <3>3
  <2>2. CASE at \notin DOMAIN t.array
    <3>1. at \notin DOMAIN r.array
      BY <1>1, <2>2
    <3>2. \A x : x \in Ahead(r, at) <=> x \in Ahead(t, at) /\ Get(r, x) # Nil
      BY <1>8, <2>2, <3>1 DEF Ahead
    <3>3. Strays(t, at) => Strays(r, at)
      <4>1. ASSUME at \in (Len(t.array) + 1) .. t.cap PROVE at \in (Len(r.array) + 1) .. r.cap
        BY <1>1, <1>2, <1>3, <1>7, <4>1
      <4> QED BY <1>1, <4>1 DEF Strays, alive
    <3> QED BY <3>2, <3>3
  <2>3. CASE at \in DOMAIN t.array /\ at \notin DOMAIN r.array
    <3>1. Ahead(r, at) = Later(r, at)
      BY <2>3 DEF Ahead
    <3>2. Ahead(t, at) = {i \in Filled(t.array) : i > at} \cup DOMAIN t.hash
      BY <2>3 DEF Ahead
    <3>3. Ahead(r, at) \subseteq left
      BY <1>4, <3>1, <3>2 DEF Later
    <3>4. at \in (Len(r.array) + 1) .. r.cap
      BY <1>1, <1>2, <1>3, <1>7, <2>3
    <3>5. CASE at \in Range(t.keys)
      <4>1. Strays(r, at)
        BY <1>1, <1>2, <2>3, <3>4, <3>5 DEF Strays, alive
      <4> QED BY <3>3, <4>1
    <3>6. CASE at \notin Range(t.keys)
      <4>1. Later(r, at) = DOMAIN r.hash
        BY <1>1, <3>6, LaterIs
      <4>2. \A i \in Filled(r.array) : ~(i > at)
        <5>1. \A i \in Filled(r.array) : i \in 1 .. Len(r.array)
          BY <1>3, FilledIs
        <5> QED BY <1>3, <3>4, <5>1
      <4>3. left \subseteq DOMAIN r.hash
        BY <1>4, <3>2, <4>2
      <4>4. ~Strays(t, at)
        BY <1>2, <2>3 DEF Strays
      <4> QED BY <3>1, <3>3, <4>1, <4>3, <4>4
    <3>7. ~Strays(t, at)
      BY <1>2, <2>3 DEF Strays
    <3> QED BY <3>5, <3>6, <3>7
  <2> QED BY <2>1, <2>2, <2>3
<1> HIDE DEF left
<1>10. \A x : x \in left <=> x \in Ahead(t, at) /\ Get(r, x) # Nil
  BY DEF left
<1>11. /\ Ahead(t, at) \subseteq due
       /\ due \subseteq Ahead(t, at) \/ strayed \/ Strays(t, at)
  BY DEF Tracks
<1> DEFINE D == {x \in due : Get(r, x) # Nil}
<1>12. Ahead(r, at) \subseteq D
  BY <1>9, <1>10, <1>11
<1>13. D \subseteq Ahead(r, at) \/ strayed \/ Strays(r, at)
  BY <1>9, <1>10, <1>11
<1> HIDE DEF D
<1> QED BY <1>5, <1>6, <1>12, <1>13 DEF Tracks, D

-----------------------------------------------------------------------------
(* The length.                                                              *)

\* Where a search between lo and hi stands after n passes: what is below holds a
\* value or is 0, what is above does not, and the gap has become smaller n times.
Between(P, hi, n) ==
  {b \in [lo : Nat, hi : Nat] :
     /\ b.lo < b.hi /\ b.hi <= hi
     /\ b.lo = 0 \/ b.lo \in P
     /\ b.hi \notin P
     /\ b.hi - b.lo <= 1 \/ b.hi - b.lo <= hi - n}

\* A pass of a binary search halves the gap.
LEMMA Halved ==
  ASSUME NEW P, NEW hi \in Nat, NEW n \in Nat, NEW b \in Between(P, hi, n)
  PROVE  Halve(P, b) \in Between(P, hi, n + 1)
<1> DEFINE mid == (b.lo + b.hi) \div 2
<1>1. /\ b \in [lo : Nat, hi : Nat] /\ b.lo < b.hi /\ b.hi <= hi
      /\ b.lo = 0 \/ b.lo \in P
      /\ b.hi \notin P
      /\ b.hi - b.lo <= 1 \/ b.hi - b.lo <= hi - n
      /\ b.lo \in Nat /\ b.hi \in Nat
  BY DEF Between
<1>2. b.hi - b.lo > 1 => mid \in Nat /\ b.lo < mid /\ mid < b.hi
  BY <1>1
<1>3. Halve(P, b) = CASE b.hi - b.lo <= 1 -> b
                      [] b.hi - b.lo > 1 /\ mid \in P -> [lo |-> mid, hi |-> b.hi]
                      [] b.hi - b.lo > 1 /\ mid \notin P -> [lo |-> b.lo, hi |-> mid]
  BY DEF Halve
<1> HIDE DEF mid
<1>4. CASE b.hi - b.lo <= 1
  <2>1. Halve(P, b) = b
    BY <1>1, <1>3, <1>4
  <2> QED BY <1>1, <1>4, <2>1 DEF Between
<1>5. CASE b.hi - b.lo > 1 /\ mid \in P
  <2> DEFINE c == [lo |-> mid, hi |-> b.hi]
  <2>1. Halve(P, b) = c
    BY <1>1, <1>3, <1>5
  <2>2. c \in [lo : Nat, hi : Nat] /\ c.lo = mid /\ c.hi = b.hi
    BY <1>1, <1>2, <1>5
  <2>3. c.hi - c.lo <= hi - (n + 1)
    BY <1>1, <1>2, <1>5, <2>2
  <2> HIDE DEF c
  <2> QED BY <1>1, <1>2, <1>5, <2>1, <2>2, <2>3 DEF Between
<1>6. CASE b.hi - b.lo > 1 /\ mid \notin P
  <2> DEFINE c == [lo |-> b.lo, hi |-> mid]
  <2>1. Halve(P, b) = c
    BY <1>1, <1>3, <1>6
  <2>2. c \in [lo : Nat, hi : Nat] /\ c.lo = b.lo /\ c.hi = mid
    BY <1>1, <1>2, <1>6
  <2>3. c.hi - c.lo <= hi - (n + 1) /\ mid <= hi
    BY <1>1, <1>2, <1>6, <2>2
  <2> HIDE DEF c
  <2> QED BY <1>1, <1>2, <1>6, <2>1, <2>2, <2>3 DEF Between
<1> QED BY <1>1, <1>4, <1>5, <1>6

\* A binary search ends at a border between its two ends.
LEMMA Bisected ==
  ASSUME NEW P, NEW lo \in Nat, NEW hi \in Nat, lo < hi, lo = 0 \/ lo \in P, hi \notin P
  PROVE  LET m == Bisect(P, lo, hi) IN
         /\ m \in Nat /\ m < hi
         /\ m = 0 \/ m \in P
         /\ m + 1 \notin P
<1> DEFINE S == [lo : Nat, hi : Nat]
           x == [lo |-> lo, hi |-> hi]
           G == [n \in 0 .. hi |-> Between(P, hi, n)]
           F == [p \in (1 .. hi) \X S |-> Halve(P, p[2])]
           R == Halving(P, lo, hi)
<1>1. x \in Between(P, hi, 0)
  <2>1. x \in S /\ x.lo = lo /\ x.hi = hi /\ hi - lo <= hi - 0
    OBVIOUS
  <2> HIDE DEF x
  <2> QED BY <2>1 DEF Between
<1>2. \A n : Between(P, hi, n) \subseteq S
  BY DEF Between
<1>3. \A n \in 1 .. hi : \A u \in S : F[<<n, u>>] = Halve(P, u)
  OBVIOUS
<1>4. \A n \in 0 .. hi : G[n] = Between(P, hi, n)
  OBVIOUS
<1>5. \A n \in 1 .. hi : n \in 0 .. hi /\ n - 1 \in 0 .. hi /\ n - 1 \in Nat /\ (n - 1) + 1 = n
  OBVIOUS
<1> HIDE DEF F, G, x, S
<1>6. \A n \in 1 .. hi : \A u \in G[n - 1] : u \in S /\ Halve(P, u) \in G[n]
  <2> TAKE n \in 1 .. hi
  <2> TAKE u \in G[n - 1]
  <2>1. u \in Between(P, hi, n - 1)
    BY <1>4, <1>5
  <2>2. Halve(P, u) \in Between(P, hi, (n - 1) + 1)
    BY <1>5, <2>1, Halved
  <2> QED BY <1>2, <1>4, <1>5, <2>1, <2>2
<1>7. \A n \in 1 .. hi : \A u \in G[n - 1] : F[<<n, u>>] \in G[n]
  BY <1>3, <1>6
<1>8. x \in G[0]
  BY <1>1, <1>4
<1>9. PICK f : IsRun(f, hi, x, F) /\ \A n \in 0 .. hi : f[n] \in G[n]
  BY <1>7, <1>8, PassesRun
<1>10. f = [n \in 0 .. hi |-> IF n = 0 THEN x ELSE Halve(P, f[n - 1])]
  <2>1. ASSUME NEW n \in 0 .. hi, n # 0 PROVE F[<<n, f[n - 1]>>] = Halve(P, f[n - 1])
    <3>1. n \in 1 .. hi
      BY <2>1
    <3>2. f[n - 1] \in G[n - 1]
      BY <1>5, <1>9, <3>1
    <3> QED BY <1>3, <1>6, <3>1, <3>2
  <2> QED BY <1>9, <2>1 DEF IsRun
<1>11. R = CHOOSE h : h = [n \in 0 .. hi |-> IF n = 0 THEN x ELSE Halve(P, h[n - 1])]
  BY DEF Halving, x
<1>12. R = [n \in 0 .. hi |-> IF n = 0 THEN x ELSE Halve(P, R[n - 1])]
  BY <1>10, <1>11
<1>13. Bisect(P, lo, hi) = R[hi].lo
  BY DEF Bisect
<1> HIDE DEF R
<1>14. R[0] = x /\ \A n \in 1 .. hi : R[n] = Halve(P, R[n - 1])
  BY <1>12
<1>15. \A n \in 1 .. hi : R[n - 1] \in G[n - 1] => R[n] \in G[n]
  BY <1>6, <1>14
<1>16. \A n \in 0 .. hi : R[n] \in G[n]
  BY <1>8, <1>14, <1>15, RunStays
<1>17. R[hi] \in Between(P, hi, hi)
  <2>1. hi \in 0 .. hi
    OBVIOUS
  <2> QED BY <1>4, <1>16, <2>1
<1>18. PICK b : b = R[hi]
  OBVIOUS
<1>19. /\ b.lo \in Nat /\ b.hi \in Nat /\ b.lo < b.hi /\ b.hi <= hi
       /\ b.lo = 0 \/ b.lo \in P
       /\ b.hi \notin P
       /\ b.hi - b.lo <= 1 \/ b.hi - b.lo <= hi - hi
  BY <1>17, <1>18 DEF Between
<1>20. b.hi = b.lo + 1
  BY <1>19
<1> QED BY <1>13, <1>18, <1>19, <1>20

\* What the probe of the hash part ends with if its upper end holds no value: no
\* further apart than a doubling, or than the last integer is from its half.
Apart(b) ==
  /\ b.lo < b.hi
  /\ b.hi <= maxInt \/ b.hi = b.lo + 1
  /\ b.hi <= 2 * b.lo \/ 3 * b.lo > maxInt

\* Where the probe of the hash part stands after n passes: what is below holds a
\* value, and what is above does as well, and then is at least s + n or the last
\* integer there is, or does not.
Probing(P, s, n) ==
  {b \in [lo : Nat, hi : Nat] :
     /\ b.lo \in P /\ b.lo # 0 /\ b.lo + 1 >= s
     /\ b.hi \notin P => Apart(b)
     /\ b.hi \in P => b.hi # 0 /\ (b.hi = maxInt \/ b.hi >= s + n)}

\* A pass of the probe doubles what is above.
LEMMA Doubled ==
  ASSUME NEW P, \A i \in P : i \in Int /\ i <= maxInt,
         NEW s \in Nat, NEW n \in Nat, NEW b \in Probing(P, s, n)
  PROVE  Double(P, b) \in Probing(P, s, n + 1)
<1> DEFINE half == maxInt \div 2
<1>1. /\ b \in [lo : Nat, hi : Nat]
      /\ b.lo \in P /\ b.lo # 0 /\ b.lo + 1 >= s /\ b.lo <= maxInt
      /\ b.hi \notin P => Apart(b)
      /\ b.hi \in P => b.hi # 0 /\ (b.hi = maxInt \/ b.hi >= s + n)
      /\ b.lo \in Nat /\ b.hi \in Nat
  BY DEF Probing
<1>2. /\ maxInt \in Nat /\ half \in Nat /\ (maxInt # 0 => half < maxInt)
      /\ 2 * half <= maxInt /\ maxInt <= 2 * half + 1
  BY ThresholdAssumption
<1>3. Double(P, b) = CASE b.hi \notin P -> b
                       [] b.hi \in P /\ b.hi > half -> [lo |-> b.hi, hi |-> maxInt]
                       [] b.hi \in P /\ b.hi <= half -> [lo |-> b.hi, hi |-> 2 * b.hi]
  BY DEF Double
<1> HIDE DEF half
<1>4. CASE b.hi \notin P
  <2>1. Double(P, b) = b
    BY <1>3, <1>4
  <2> QED BY <1>1, <1>4, <2>1 DEF Probing
<1>5. CASE b.hi \in P /\ b.hi > half
  <2> DEFINE c == [lo |-> b.hi, hi |-> maxInt]
  <2>1. Double(P, b) = c
    BY <1>1, <1>2, <1>3, <1>5
  <2>2. c \in [lo : Nat, hi : Nat] /\ c.lo = b.hi /\ c.hi = maxInt
    BY <1>1, <1>2
  <2>3. b.hi # 0 /\ maxInt # 0 /\ (maxInt \notin P => b.hi < maxInt) /\ b.hi + 1 >= s
    <3>1. b.hi <= maxInt /\ b.hi # 0
      BY <1>1, <1>5
    <3>2. maxInt \notin P => b.hi # maxInt
      BY <1>5
    <3> QED BY <1>1, <1>2, <1>5, <3>1, <3>2
  <2> HIDE DEF c
  <2>4. c.hi \notin P => Apart(c)
    <3>1. 3 * b.hi > maxInt
      BY <1>1, <1>2, <1>5
    <3> QED BY <1>2, <2>2, <2>3, <3>1 DEF Apart
  <2> QED BY <1>2, <1>5, <2>1, <2>2, <2>3, <2>4 DEF Probing
<1>6. CASE b.hi \in P /\ b.hi <= half
  <2> DEFINE c == [lo |-> b.hi, hi |-> 2 * b.hi]
  <2>1. Double(P, b) = c
    BY <1>1, <1>2, <1>3, <1>6
  <2>2. c \in [lo : Nat, hi : Nat] /\ c.lo = b.hi /\ c.hi = 2 * b.hi
    BY <1>1
  <2>3. b.hi # 0 /\ b.hi <= maxInt /\ (b.hi = maxInt \/ b.hi >= s + n)
    BY <1>1, <1>6
  <2>4. /\ 2 * b.hi >= s + (n + 1) /\ b.hi < 2 * b.hi /\ 2 * b.hi # 0
        /\ 2 * b.hi <= maxInt /\ b.hi + 1 >= s
    BY <1>1, <1>2, <1>6, <2>3
  <2> HIDE DEF c
  <2>5. Apart(c)
    BY <1>1, <2>2, <2>4 DEF Apart
  <2> QED BY <1>6, <2>1, <2>2, <2>3, <2>4, <2>5 DEF Probing
<1> QED BY <1>1, <1>2, <1>4, <1>5, <1>6

\* The probe ends above a position that holds a value: at one that does not, or at
\* the last integer.
LEMMA Probed ==
  ASSUME NEW P, \A i \in P : i \in Int /\ i <= maxInt,
         NEW lo \in Nat, NEW hi \in Nat, hi = lo + 1, lo \in P, lo # 0
  PROVE  LET b == Doubling(P, lo, hi)[maxInt] IN
         /\ b.lo \in Nat /\ b.hi \in Nat /\ b.lo \in P /\ b.lo >= lo
         /\ b.hi \notin P => Apart(b)
         /\ b.hi \in P => b.hi = maxInt /\ maxInt # 0
<1> DEFINE N == maxInt
           S == [lo : Nat, hi : Nat]
           x == [lo |-> lo, hi |-> hi]
           G == [n \in 0 .. N |-> Probing(P, hi, n)]
           F == [p \in (1 .. N) \X S |-> Double(P, p[2])]
           R == Doubling(P, lo, hi)
<1>1. N \in Nat
  BY ThresholdAssumption
<1>2. x \in Probing(P, hi, 0)
  <2>1. x \in S /\ x.lo = lo /\ x.hi = hi /\ hi >= hi + 0 /\ hi # 0 /\ lo + 1 >= hi /\ hi <= 2 * lo
    OBVIOUS
  <2> HIDE DEF x
  <2> QED BY <2>1 DEF Probing, Apart
<1>3. \A n : Probing(P, hi, n) \subseteq S
  BY DEF Probing
<1>4. R = CHOOSE h : h = [n \in 0 .. N |-> IF n = 0 THEN x ELSE Double(P, h[n - 1])]
  BY DEF Doubling
<1> HIDE DEF N
<1>5. \A n \in 1 .. N : \A u \in S : F[<<n, u>>] = Double(P, u)
  OBVIOUS
<1>6. \A n \in 0 .. N : G[n] = Probing(P, hi, n)
  OBVIOUS
<1>7. \A n \in 1 .. N : n \in 0 .. N /\ n - 1 \in 0 .. N /\ n - 1 \in Nat /\ (n - 1) + 1 = n
  BY <1>1
<1> HIDE DEF F, G, x, S
<1>8. \A n \in 1 .. N : \A u \in G[n - 1] : u \in S /\ Double(P, u) \in G[n]
  <2> TAKE n \in 1 .. N
  <2> TAKE u \in G[n - 1]
  <2>1. u \in Probing(P, hi, n - 1)
    BY <1>6, <1>7
  <2>2. Double(P, u) \in Probing(P, hi, (n - 1) + 1)
    BY <1>7, <2>1, Doubled
  <2> QED BY <1>3, <1>6, <1>7, <2>1, <2>2
<1>9. \A n \in 1 .. N : \A u \in G[n - 1] : F[<<n, u>>] \in G[n]
  BY <1>5, <1>8
<1>10. x \in G[0]
  <2>1. 0 \in 0 .. N
    BY <1>1
  <2> QED BY <1>2, <1>6, <2>1
<1>11. PICK f : IsRun(f, N, x, F) /\ \A n \in 0 .. N : f[n] \in G[n]
  BY <1>1, <1>9, <1>10, PassesRun
<1>12. f = [n \in 0 .. N |-> IF n = 0 THEN x ELSE Double(P, f[n - 1])]
  <2>1. ASSUME NEW n \in 0 .. N, n # 0 PROVE F[<<n, f[n - 1]>>] = Double(P, f[n - 1])
    <3>1. n \in 1 .. N
      BY <1>1, <2>1
    <3>2. f[n - 1] \in G[n - 1]
      BY <1>7, <1>11, <3>1
    <3> QED BY <1>5, <1>8, <3>1, <3>2
  <2> QED BY <1>11, <2>1 DEF IsRun
<1>13. R = [n \in 0 .. N |-> IF n = 0 THEN x ELSE Double(P, R[n - 1])]
  BY <1>4, <1>12
<1> HIDE DEF R
<1>14. R[0] = x /\ \A n \in 1 .. N : R[n] = Double(P, R[n - 1])
  BY <1>1, <1>13
<1>15. \A n \in 1 .. N : R[n - 1] \in G[n - 1] => R[n] \in G[n]
  BY <1>8, <1>14
<1>16. \A n \in 0 .. N : R[n] \in G[n]
  BY <1>1, <1>10, <1>14, <1>15, RunStays
<1>17. R[N] \in Probing(P, hi, N)
  <2>1. N \in 0 .. N
    BY <1>1
  <2> QED BY <1>6, <1>16, <2>1
<1>18. PICK b : b = R[N]
  OBVIOUS
<1>19. /\ b.lo \in Nat /\ b.hi \in Nat /\ b.lo \in P /\ b.lo + 1 >= hi
       /\ b.hi \notin P => Apart(b)
       /\ b.hi \in P => b.hi # 0 /\ (b.hi = N \/ b.hi >= hi + N)
  BY <1>17, <1>18 DEF Probing, N
<1>20. b.hi \in P => b.hi = N /\ N # 0
  <2>1. b.hi \in P => b.hi <= N
    BY DEF N
  <2>2. hi # 0
    OBVIOUS
  <2> QED BY <1>1, <1>19, <2>1, <2>2
<1>21. b.lo >= lo
  BY <1>19
<1> QED BY <1>18, <1>19, <1>20, <1>21 DEF N, R

\* Two ends that are apart and whose sum wraps around: the search stops.
LEMMA SumWraps ==
  ASSUME NEW lo \in Int, NEW hi \in Int, 0 < lo, hi - lo > 1, hi <= maxInt, lo + hi > maxInt,
         NEW mid, mid = Half(Wrapped(lo + hi))
  PROVE  mid \in Int /\ mid < 0 /\ Wrapped(mid - lo) <= 1 /\ Wrapped(hi - mid) <= 1
<1>1. maxInt \in Nat
  BY ThresholdAssumption
<1>2. PICK s \in Nat : s = 2 * (maxInt + 1) - (lo + hi)
  BY <1>1
<1>3. Wrapped(lo + hi) = -s /\ s >= 2 /\ s <= maxInt + 1
  BY <1>1, <1>2 DEF Wrapped
<1>4. PICK q \in Nat : q = s \div 2
  OBVIOUS
<1>5. 2 * q <= s /\ s <= 2 * q + 1
  BY <1>4
<1>6. mid = -q
  BY <1>3, <1>4 DEF Half
<1>7. q >= 1 /\ mid \in Int /\ mid < 0
  BY <1>3, <1>5, <1>6
<1>8. mid - lo <= 0 /\ mid - lo >= -(maxInt + 1) /\ mid - lo \in Int
  BY <1>1, <1>2, <1>5, <1>6, <1>7
<1>9. hi - mid > maxInt /\ hi - mid <= 2 * (maxInt + 1) /\ hi - mid \in Int
  BY <1>1, <1>2, <1>3, <1>5, <1>6
<1>10. Wrapped(mid - lo) = mid - lo
  BY <1>1, <1>8 DEF Wrapped
<1>11. Wrapped(hi - mid) = (hi - mid) - 2 * (maxInt + 1)
  BY <1>1, <1>9 DEF Wrapped
<1> QED BY <1>1, <1>7, <1>8, <1>9, <1>10, <1>11

\* Where the search of the hash part stands after n passes: as a binary search
\* does, not below s; or stopped because a sum has wrapped around, at a position that
\* holds a value and is negative or above a third of maxInt.
Closing(P, s, b) == b.lo \in P /\ b.hi \notin P /\ s <= b.lo /\ Apart(b)
Stopped(P, s, b) ==
  /\ b.lo \in P /\ Wrapped(b.hi - b.lo) <= 1
  /\ b.lo < 0 \/ (s <= b.lo /\ 3 * b.lo > maxInt)
Searching(P, s, hi, n) ==
  {b \in [lo : Int, hi : Int] :
     \/ /\ Closing(P, s, b) /\ b.hi <= hi
        /\ b.hi - b.lo <= 1 \/ b.hi - b.lo <= hi - n
     \/ Stopped(P, s, b)}

\* A pass of it halves the gap, or stops the search.
LEMMA HalvedInt ==
  ASSUME NEW P, \A i \in P : i \in Int /\ i <= maxInt, NEW s \in Nat, 0 < s,
         NEW hi \in Nat, NEW n \in Nat, NEW b \in Searching(P, s, hi, n)
  PROVE  HalveInt(P, b) \in Searching(P, s, hi, n + 1)
<1> DEFINE gap == Wrapped(b.hi - b.lo)
           mid == Half(Wrapped(b.lo + b.hi))
<1>1. /\ b \in [lo : Int, hi : Int] /\ b.lo \in Int /\ b.hi \in Int
      /\ \/ /\ Closing(P, s, b) /\ b.hi <= hi
            /\ b.hi - b.lo <= 1 \/ b.hi - b.lo <= hi - n
         \/ Stopped(P, s, b)
  BY DEF Searching
<1>2. maxInt \in Nat
  BY ThresholdAssumption
<1>3. HalveInt(P, b) = CASE gap <= 1 -> b
                         [] gap > 1 /\ mid \in P -> [lo |-> mid, hi |-> b.hi]
                         [] gap > 1 /\ mid \notin P -> [lo |-> b.lo, hi |-> mid]
  BY DEF HalveInt
<1>3a. gap \in Int
  <2>1. b.hi - b.lo \in Int
    BY <1>1
  <2> QED BY <1>2, <2>1 DEF Wrapped
<1>3b. gap <= 1 => HalveInt(P, b) = b
  <2> HIDE DEF gap, mid
  <2>1. SUFFICES ASSUME gap <= 1 PROVE HalveInt(P, b) = b
    OBVIOUS
  <2>2. ~(gap > 1)
    BY <1>3a, <2>1
  <2> QED BY <1>3, <2>1, <2>2
<1>4. CASE Stopped(P, s, b)
  <2>1. gap <= 1
    BY <1>4 DEF Stopped
  <2>2. HalveInt(P, b) = b
    BY <1>3b, <2>1
  <2> QED BY <1>1, <1>4, <2>2 DEF Searching
<1>5. CASE Closing(P, s, b) /\ b.hi <= hi /\ (b.hi - b.lo <= 1 \/ b.hi - b.lo <= hi - n)
  <2>1. /\ b.lo \in P /\ b.hi \notin P /\ s <= b.lo /\ 0 < b.lo /\ b.lo < b.hi /\ b.lo <= maxInt
        /\ b.hi <= maxInt \/ b.hi = b.lo + 1
        /\ b.hi <= 2 * b.lo \/ 3 * b.lo > maxInt
    BY <1>1, <1>5 DEF Closing, Apart
  <2>2. gap = b.hi - b.lo
    BY <1>1, <1>2, <2>1 DEF Wrapped
  <2> HIDE DEF gap
  <2>3. CASE b.hi - b.lo <= 1
    <3>1. HalveInt(P, b) = b
      BY <1>3b, <2>2, <2>3
    <3> QED BY <1>1, <1>5, <2>3, <3>1 DEF Searching
  <2>4. CASE b.hi - b.lo > 1 /\ b.lo + b.hi > maxInt
    <3>1. b.hi <= maxInt /\ 3 * b.lo > maxInt
      BY <1>1, <1>2, <2>1, <2>4
    <3>2. mid \in Int /\ mid < 0 /\ Wrapped(mid - b.lo) <= 1 /\ Wrapped(b.hi - mid) <= 1
      BY <1>1, <2>1, <2>4, <3>1, SumWraps
    <3> HIDE DEF mid
    <3>3. CASE mid \in P
      <4> DEFINE c == [lo |-> mid, hi |-> b.hi]
      <4>1. HalveInt(P, b) = c
        BY <1>1, <1>3, <2>2, <2>4, <3>3
      <4>2. c \in [lo : Int, hi : Int] /\ c.lo = mid /\ c.hi = b.hi
        BY <1>1, <3>2
      <4> HIDE DEF c
      <4>3. Stopped(P, s, c)
        BY <3>2, <3>3, <4>2 DEF Stopped
      <4> QED BY <4>1, <4>2, <4>3 DEF Searching
    <3>4. CASE mid \notin P
      <4> DEFINE c == [lo |-> b.lo, hi |-> mid]
      <4>1. HalveInt(P, b) = c
        BY <1>1, <1>3, <2>2, <2>4, <3>4
      <4>2. c \in [lo : Int, hi : Int] /\ c.lo = b.lo /\ c.hi = mid
        BY <1>1, <3>2
      <4> HIDE DEF c
      <4>3. Stopped(P, s, c)
        BY <2>1, <3>1, <3>2, <4>2 DEF Stopped
      <4> QED BY <4>1, <4>2, <4>3 DEF Searching
    <3> QED BY <3>3, <3>4
  <2>5. CASE b.hi - b.lo > 1 /\ b.lo + b.hi <= maxInt
    <3>1. mid = (b.lo + b.hi) \div 2
      BY <1>1, <1>2, <2>1, <2>5 DEF Wrapped, Half
    <3>2. mid \in Int /\ b.lo < mid /\ mid < b.hi /\ b.hi <= maxInt
      BY <1>1, <1>2, <2>1, <2>5, <3>1
    <3> HIDE DEF mid
    <3>3. CASE mid \in P
      <4> DEFINE c == [lo |-> mid, hi |-> b.hi]
      <4>1. HalveInt(P, b) = c
        BY <1>1, <1>3, <2>2, <2>5, <3>3
      <4>2. c \in [lo : Int, hi : Int] /\ c.lo = mid /\ c.hi = b.hi
        BY <1>1, <3>2
      <4> HIDE DEF c
      <4>3. c.lo < c.hi /\ s <= c.lo /\ (c.hi <= 2 * c.lo \/ 3 * c.lo > maxInt)
        BY <1>1, <1>2, <2>1, <3>2, <4>2
      <4>4. Closing(P, s, c)
        BY <2>1, <3>2, <3>3, <4>2, <4>3 DEF Closing, Apart
      <4>5. c.hi <= hi /\ c.hi - c.lo <= hi - (n + 1)
        BY <1>1, <1>5, <2>5, <3>2, <4>2
      <4> QED BY <4>1, <4>2, <4>4, <4>5 DEF Searching
    <3>4. CASE mid \notin P
      <4> DEFINE c == [lo |-> b.lo, hi |-> mid]
      <4>1. HalveInt(P, b) = c
        BY <1>1, <1>3, <2>2, <2>5, <3>4
      <4>2. c \in [lo : Int, hi : Int] /\ c.lo = b.lo /\ c.hi = mid
        BY <1>1, <3>2
      <4> HIDE DEF c
      <4>3. c.lo < c.hi /\ c.hi <= maxInt /\ (c.hi <= 2 * c.lo \/ 3 * c.lo > maxInt)
        BY <1>1, <1>2, <2>1, <3>2, <4>2
      <4>4. Closing(P, s, c)
        BY <2>1, <3>4, <4>2, <4>3 DEF Closing, Apart
      <4>5. c.hi <= hi /\ c.hi - c.lo <= hi - (n + 1)
        BY <1>1, <1>5, <2>5, <3>2, <4>2
      <4> QED BY <4>1, <4>2, <4>4, <4>5 DEF Searching
    <3> QED BY <3>3, <3>4
  <2> QED BY <1>1, <1>2, <2>3, <2>4, <2>5
<1> QED BY <1>1, <1>4, <1>5

\* The search of the hash part ends at a border, or where it has stopped.
LEMMA SearchedInt ==
  ASSUME NEW P, \A i \in P : i \in Int /\ i <= maxInt, NEW s \in Nat, 0 < s,
         NEW lo \in Nat, NEW hi \in Nat, Closing(P, s, [lo |-> lo, hi |-> hi])
  PROVE  LET m == HalvingInt(P, lo, hi)[hi].lo IN
         /\ m \in P
         /\ m + 1 \notin P \/ m < 0 \/ (s <= m /\ 3 * m > maxInt)
<1> DEFINE S == [lo : Int, hi : Int]
           x == [lo |-> lo, hi |-> hi]
           G == [n \in 0 .. hi |-> Searching(P, s, hi, n)]
           F == [p \in (1 .. hi) \X S |-> HalveInt(P, p[2])]
           R == HalvingInt(P, lo, hi)
<1>1. x \in Searching(P, s, hi, 0)
  <2>1. x \in S /\ x.lo = lo /\ x.hi = hi /\ hi - lo <= hi - 0
    OBVIOUS
  <2>2. Closing(P, s, x)
    OBVIOUS
  <2> HIDE DEF x
  <2> QED BY <2>1, <2>2 DEF Searching
<1>2. \A n : Searching(P, s, hi, n) \subseteq S
  BY DEF Searching
<1>3. \A n \in 1 .. hi : \A u \in S : F[<<n, u>>] = HalveInt(P, u)
  OBVIOUS
<1>4. \A n \in 0 .. hi : G[n] = Searching(P, s, hi, n)
  OBVIOUS
<1>5. \A n \in 1 .. hi : n \in 0 .. hi /\ n - 1 \in 0 .. hi /\ n - 1 \in Nat /\ (n - 1) + 1 = n
  OBVIOUS
<1> HIDE DEF F, G, x, S
<1>6. \A n \in 1 .. hi : \A u \in G[n - 1] : u \in S /\ HalveInt(P, u) \in G[n]
  <2> TAKE n \in 1 .. hi
  <2> TAKE u \in G[n - 1]
  <2>1. u \in Searching(P, s, hi, n - 1)
    BY <1>4, <1>5
  <2>2. HalveInt(P, u) \in Searching(P, s, hi, (n - 1) + 1)
    BY <1>5, <2>1, HalvedInt
  <2> QED BY <1>2, <1>4, <1>5, <2>1, <2>2
<1>7. \A n \in 1 .. hi : \A u \in G[n - 1] : F[<<n, u>>] \in G[n]
  BY <1>3, <1>6
<1>8. x \in G[0]
  BY <1>1, <1>4
<1>9. PICK f : IsRun(f, hi, x, F) /\ \A n \in 0 .. hi : f[n] \in G[n]
  BY <1>7, <1>8, PassesRun
<1>10. f = [n \in 0 .. hi |-> IF n = 0 THEN x ELSE HalveInt(P, f[n - 1])]
  <2>1. ASSUME NEW n \in 0 .. hi, n # 0 PROVE F[<<n, f[n - 1]>>] = HalveInt(P, f[n - 1])
    <3>1. n \in 1 .. hi
      BY <2>1
    <3>2. f[n - 1] \in G[n - 1]
      BY <1>5, <1>9, <3>1
    <3> QED BY <1>3, <1>6, <3>1, <3>2
  <2> QED BY <1>9, <2>1 DEF IsRun
<1>11. R = CHOOSE h : h = [n \in 0 .. hi |-> IF n = 0 THEN x ELSE HalveInt(P, h[n - 1])]
  BY DEF HalvingInt, x
<1>12. R = [n \in 0 .. hi |-> IF n = 0 THEN x ELSE HalveInt(P, R[n - 1])]
  BY <1>10, <1>11
<1> HIDE DEF R
<1>13. R[0] = x /\ \A n \in 1 .. hi : R[n] = HalveInt(P, R[n - 1])
  BY <1>12
<1>14. \A n \in 1 .. hi : R[n - 1] \in G[n - 1] => R[n] \in G[n]
  BY <1>6, <1>13
<1>15. \A n \in 0 .. hi : R[n] \in G[n]
  BY <1>8, <1>13, <1>14, RunStays
<1>16. R[hi] \in Searching(P, s, hi, hi)
  <2>1. hi \in 0 .. hi
    OBVIOUS
  <2> QED BY <1>4, <1>15, <2>1
<1>17. PICK b : b = R[hi]
  OBVIOUS
<1>18. /\ b.lo \in Int /\ b.hi \in Int
       /\ Stopped(P, s, b) \/ (Closing(P, s, b) /\ (b.hi - b.lo <= 1 \/ b.hi - b.lo <= hi - hi))
  BY <1>16, <1>17 DEF Searching
<1>19. CASE Stopped(P, s, b)
  BY <1>17, <1>19 DEF Stopped, R
<1>20. CASE Closing(P, s, b) /\ (b.hi - b.lo <= 1 \/ b.hi - b.lo <= hi - hi)
  <2>1. b.lo \in P /\ b.hi \notin P /\ b.lo < b.hi
    BY <1>20 DEF Closing, Apart
  <2>2. b.hi = b.lo + 1
    BY <1>18, <1>20, <2>1
  <2> QED BY <1>17, <2>1, <2>2 DEF R
<1> QED BY <1>18, <1>19, <1>20

\* The positions that hold a value are the integers that do.
LEMMA PositionsAre ==
  ASSUME NEW t, Whole(t)
  PROVE  /\ \A i \in Int : i \in Positions(t) <=> Get(t, i) # Nil
         /\ \A i \in Positions(t) : i \in Int /\ i <= maxInt
         /\ \A i \in DOMAIN t.array : i \in Filled(t.array) <=> Get(t, i) # Nil
         /\ \A i \in Filled(t.array) : i \in DOMAIN t.array /\ Get(t, i) # Nil
<1>1. /\ DOMAIN t.hash \cap DOMAIN t.array = {} /\ DOMAIN t.hash \subseteq Key
      /\ Filled(t.array) \subseteq IntKeys /\ DOMAIN t.array = 1 .. Len(t.array)
      /\ Len(t.array) \in Nat
  BY Slots
<1>2. /\ IntKeys \subseteq Int /\ \A k \in IntKeys : k <= maxInt
      /\ (StrKeys \cup OtherKeys) \cap Int = {}
  BY KeysAssumption
<1>3. \A i \in DOMAIN t.array : Get(t, i) = t.array[i]
  BY DEF Get
<1>4. \A i \in DOMAIN t.array : i \in Filled(t.array) <=> Get(t, i) # Nil
  BY <1>3, FilledIs
<1>5. \A i \in Filled(t.array) : i \in DOMAIN t.array /\ Get(t, i) # Nil
  BY <1>3, FilledIs
<1>6. \A i \in Positions(t) : i \in Int /\ i <= maxInt
  BY <1>1, <1>2, <1>4 DEF Positions
<1>7. ASSUME NEW i \in Int PROVE i \in Positions(t) <=> Get(t, i) # Nil
  <2>1. i \in DOMAIN t.hash => i \in IntKeys
    BY <1>1, <1>2 DEF Key
  <2>2. i \notin DOMAIN t.array /\ i \notin DOMAIN t.hash => Get(t, i) = Nil
    BY DEF Get, alive
  <2> QED BY <2>1, <2>2 DEF Positions
<1> QED BY <1>4, <1>5, <1>6, <1>7

Border(t, n) ==
  /\ n # 0 => Get(t, n) # Nil
  /\ Get(t, n + 1) = Nil

\* A position no search stops at unless a sum of its ends has wrapped around.
InHash(t, n) ==
  /\ Get(t, n) # Nil
  /\ n < 0 \/ (Len(t.array) < n /\ 3 * n > maxInt)

\* Beyond an array that is full the length is looked for in the hash part.
LEMMA Searched ==
  ASSUME NEW t, Whole(t), NEW n \in Nat, n = Len(t.array), n + 1 \in Positions(t),
         NEW m, m = hashSearchBorder(t, n)
  PROVE  m \in Int /\ (Border(t, m) \/ InHash(t, m))
<1> DEFINE P == Positions(t)
           r == Doubling(P, n + 1, n + 2)[maxInt]
<1>1. \A i \in P : i \in Int /\ i <= maxInt
  BY PositionsAre
<1>2. \A i \in Int : i \in P <=> Get(t, i) # Nil
  BY PositionsAre
<1>3. maxInt \in Nat
  BY ThresholdAssumption
<1>4. m = IF r.hi \in P THEN maxInt ELSE HalvingInt(P, r.lo, r.hi)[r.hi].lo
  BY DEF hashSearchBorder
<1> HIDE DEF P
<1>5. PICK b : b = r
  OBVIOUS
<1>6. /\ b.lo \in Nat /\ b.hi \in Nat /\ b.lo \in P /\ b.lo >= n + 1
      /\ b.hi \notin P => Apart(b)
      /\ b.hi \in P => b.hi = maxInt /\ maxInt # 0
  <2>1. n + 1 \in Nat /\ n + 2 \in Nat /\ n + 2 = (n + 1) + 1 /\ n + 1 # 0 /\ n + 1 \in P
    BY DEF P
  <2> QED BY <1>1, <1>5, <2>1, Probed
<1>7. m = IF b.hi \in P THEN maxInt ELSE HalvingInt(P, b.lo, b.hi)[b.hi].lo
  BY <1>4, <1>5
<1> HIDE DEF r
<1>8. CASE b.hi \in P
  <2>1. m = maxInt /\ Get(t, maxInt) # Nil
    BY <1>2, <1>3, <1>6, <1>7, <1>8
  <2>2. maxInt + 1 \notin P
    BY <1>1, <1>3
  <2>3. Get(t, maxInt + 1) = Nil
    BY <1>2, <1>3, <2>2
  <2> QED BY <1>3, <2>1, <2>3 DEF Border
<1>9. CASE b.hi \notin P
  <2>1. PICK lo \in Nat : lo = b.lo
    BY <1>6
  <2>2. PICK hi \in Nat : hi = b.hi
    BY <1>6
  <2>3. PICK s \in Nat : s = n + 1
    OBVIOUS
  <2>4. PICK c : c = [lo |-> lo, hi |-> hi]
    OBVIOUS
  <2>5. Closing(P, s, c)
    <3>1. c.lo = b.lo /\ c.hi = b.hi
      BY <2>1, <2>2, <2>4
    <3>2. Apart(c)
      BY <1>6, <1>9, <3>1 DEF Apart
    <3> QED BY <1>6, <1>9, <2>3, <3>1, <3>2 DEF Closing
  <2>6. m = HalvingInt(P, lo, hi)[hi].lo
    BY <1>7, <1>9, <2>1, <2>2
  <2>7. 0 < s
    BY <2>3
  <2>8. m \in P /\ (m + 1 \notin P \/ m < 0 \/ (s <= m /\ 3 * m > maxInt))
    BY <1>1, <2>4, <2>5, <2>6, <2>7, SearchedInt
  <2>9. m \in Int /\ Get(t, m) # Nil
    BY <1>1, <1>2, <2>8
  <2>10. CASE m + 1 \notin P
    <3>1. Get(t, m + 1) = Nil
      BY <1>2, <2>9, <2>10
    <3> QED BY <2>9, <3>1 DEF Border
  <2>11. CASE m < 0 \/ (s <= m /\ 3 * m > maxInt)
    <3>1. m < 0 \/ (Len(t.array) < m /\ 3 * m > maxInt)
      BY <2>3, <2>9, <2>11
    <3> QED BY <2>9, <3>1 DEF InHash
  <2> QED BY <2>8, <2>10, <2>11
<1> QED BY <1>8, <1>9

\* The least of a set of numbers.
LEMMA LeastIs ==
  ASSUME NEW T \in SUBSET Nat, T # {}
  PROVE  Min(T) \in T /\ \A y \in T : Min(T) <= y
<1>1. \E x \in T : \A y \in T : x <= y
  BY LeastExists
<1> QED BY <1>1 DEF Min

\* LenOf answers a border, whatever holes the array has and wherever the integers live,
\* unless a sum has wrapped around.
LEMMA LengthFound ==
  ASSUME NEW t, Whole(t)
  PROVE  LenOf(t) \in Int /\ (Border(t, LenOf(t)) \/ InHash(t, LenOf(t)))
<1> DEFINE n == Len(t.array)
           F == Filled(t.array)
           limit == IF n \div 2 < 1 THEN 1 ELSE n \div 2
           back == {i \in F : i < limit /\ i >= limit - maxVicinity}
           ahead == {i \in limit + 1 .. n : i <= limit + maxVicinity /\ i \notin F}
           r == LenOf(t)
<1>1. n \in Nat /\ DOMAIN t.array = 1 .. n
  BY Slots
<1>2. limit \in Nat /\ 1 <= limit /\ (n > 0 => limit <= n)
  <2> DEFINE half == n \div 2
  <2> HIDE DEF n
  <2>1. half \in Nat /\ half <= n
    BY <1>1
  <2> HIDE DEF half
  <2>2. limit = IF half < 1 THEN 1 ELSE half
    BY DEF half
  <2> HIDE DEF limit
  <2> QED BY <1>1, <2>1, <2>2
<1>3. maxVicinity \in Nat
  BY ThresholdAssumption
<1>4. r = CASE n > 0 /\ limit \notin F /\ back # {} -> Max(back)
            [] n > 0 /\ limit \notin F /\ back = {} -> Bisect(F, 0, Max({1, limit - maxVicinity}))
            [] n > 0 /\ limit \in F /\ ahead # {} -> Min(ahead) - 1
            [] n > 0 /\ limit \in F /\ ahead = {} /\ n \notin F ->
                 Bisect(F, Min({n, limit + maxVicinity}), n)
            [] n = 0 \/ (limit \in F /\ ahead = {} /\ n \in F) ->
                 IF n + 1 \notin Positions(t) THEN n ELSE hashSearchBorder(t, n)
  BY DEF LenOf
<1>5. /\ \A i \in 1 .. n : i \in F <=> Get(t, i) # Nil
      /\ \A i \in F : i \in 1 .. n
  BY <1>1, PositionsAre
<1>6. \A i \in Int : i \in Positions(t) <=> Get(t, i) # Nil
  BY PositionsAre
<1>7. \A i : i \in back <=> i \in F /\ i < limit /\ i >= limit - maxVicinity
  OBVIOUS
<1>8. \A i : i \in ahead <=> i \in limit + 1 .. n /\ i <= limit + maxVicinity /\ i \notin F
  OBVIOUS
<1> HIDE DEF n, limit, F, back, ahead, r
<1>9. ASSUME NEW m \in Nat, m < n, m = 0 \/ m \in F, m + 1 \notin F
      PROVE  m \in Int /\ Border(t, m)
  <2>1. m # 0 => Get(t, m) # Nil
    BY <1>5, <1>9
  <2>2. Get(t, m + 1) = Nil
    BY <1>1, <1>5, <1>9
  <2> QED BY <2>1, <2>2 DEF Border
<1>10. CASE n > 0 /\ limit \notin F /\ back # {}
  <2>1. r = Max(back)
    BY <1>1, <1>4, <1>10
  <2>2. back \in SUBSET (0 .. limit)
    BY <1>2, <1>5, <1>7
  <2>3. PICK m : m = Max(back)
    OBVIOUS
  <2>4. m \in back /\ \A y \in back : y <= m
    BY <1>2, <1>10, <2>2, <2>3, GreatestExists
  <2>5. m \in F /\ m < limit /\ m >= limit - maxVicinity /\ m \in Nat
    BY <1>5, <1>7, <2>4
  <2>6. m + 1 \notin F
    <3>1. CASE m + 1 = limit
      BY <1>10, <3>1
    <3>2. CASE m + 1 # limit
      <4>1. m + 1 < limit /\ m + 1 >= limit - maxVicinity /\ ~(m + 1 <= m)
        BY <1>2, <1>3, <2>5, <3>2
      <4> QED BY <1>7, <2>4, <4>1
    <3> QED BY <3>1, <3>2
  <2>7. m < n
    BY <1>1, <1>2, <1>10, <2>5
  <2> QED BY <1>9, <2>1, <2>3, <2>5, <2>6, <2>7 DEF r
<1>11. CASE n > 0 /\ limit \notin F /\ back = {}
  <2>1. PICK h : h = Max({1, limit - maxVicinity})
    OBVIOUS
  <2>2. h \in {1, limit - maxVicinity} /\ 1 <= h /\ limit - maxVicinity <= h
    <3> DEFINE T == {1, limit - maxVicinity}
    <3>1. \E x \in T : \A y \in T : x >= y
      BY <1>2, <1>3
    <3>2. h \in T /\ \A y \in T : h >= y
      BY <2>1, <3>1 DEF Max
    <3> QED BY <3>2
  <2>3. h \in Nat /\ h <= limit /\ 0 < h
    BY <1>2, <1>3, <2>2
  <2>4. h \notin F
    <3>1. CASE h = limit
      BY <1>11, <3>1
    <3>2. CASE h # limit
      <4>1. h < limit /\ h >= limit - maxVicinity
        BY <1>2, <2>2, <2>3, <3>2
      <4> QED BY <1>7, <1>11, <4>1
    <3> QED BY <3>1, <3>2
  <2>5. r = Bisect(F, 0, h)
    BY <1>1, <1>4, <1>11, <2>1
  <2>6. PICK m : m = Bisect(F, 0, h)
    OBVIOUS
  <2>7. m \in Nat /\ m < h /\ (m = 0 \/ m \in F) /\ m + 1 \notin F
    BY <2>3, <2>4, <2>6, Bisected
  <2>8. m < n
    BY <1>1, <1>2, <1>11, <2>3, <2>7
  <2> QED BY <1>9, <2>5, <2>6, <2>7, <2>8 DEF r
<1>12. CASE n > 0 /\ limit \in F /\ ahead # {}
  <2>1. r = Min(ahead) - 1
    BY <1>1, <1>4, <1>12
  <2>2. ahead \in SUBSET Nat
    BY <1>2, <1>8
  <2>3. PICK a : a = Min(ahead)
    OBVIOUS
  <2>4. a \in ahead /\ \A y \in ahead : a <= y
    BY <1>12, <2>2, <2>3, LeastIs
  <2>5. a \in limit + 1 .. n /\ a <= limit + maxVicinity /\ a \notin F
    BY <1>8, <2>4
  <2>6. a - 1 \in F
    <3>1. CASE a - 1 = limit
      BY <1>12, <3>1
    <3>2. CASE a - 1 # limit
      <4>1. a - 1 \in limit + 1 .. n /\ a - 1 <= limit + maxVicinity /\ ~(a <= a - 1)
        BY <1>1, <1>2, <1>3, <2>5, <3>2
      <4> QED BY <1>8, <2>4, <4>1
    <3> QED BY <3>1, <3>2
  <2>7. a - 1 \in Nat /\ a - 1 < n /\ (a - 1) + 1 = a
    BY <1>1, <1>2, <2>5
  <2>8. a - 1 \in Int /\ Border(t, a - 1)
    BY <1>9, <2>5, <2>6, <2>7
  <2> QED BY <2>1, <2>3, <2>8 DEF r
<1>13. CASE n > 0 /\ limit \in F /\ ahead = {} /\ n \notin F
  <2>1. PICK l : l = Min({n, limit + maxVicinity})
    OBVIOUS
  <2>2. l \in {n, limit + maxVicinity} /\ l <= n /\ l <= limit + maxVicinity
    <3> DEFINE T == {n, limit + maxVicinity}
    <3>1. T \in SUBSET Nat /\ T # {}
      BY <1>1, <1>2, <1>3
    <3> HIDE DEF T
    <3>2. Min(T) \in T /\ \A y \in T : Min(T) <= y
      BY <3>1, LeastIs
    <3>3. l \in T /\ \A y \in T : l <= y
      BY <2>1, <3>2 DEF T
    <3> QED BY <3>3 DEF T
  <2>3. l = limit + maxVicinity /\ l < n /\ l \in Nat
    <3>1. limit < n
      <4>1. limit # n
        BY <1>13
      <4> QED BY <1>1, <1>2, <1>13, <4>1
    <3>2. n \in limit + 1 .. n
      BY <1>1, <1>2, <3>1
    <3>3. ~(n <= limit + maxVicinity)
      BY <1>8, <1>13, <3>2
    <3> QED BY <1>1, <1>2, <1>3, <2>2, <3>3
  <2>4. l \in F
    <3>1. CASE maxVicinity = 0
      <4>1. l = limit
        BY <1>2, <2>3, <3>1
      <4> QED BY <1>13, <4>1
    <3>2. CASE maxVicinity # 0
      <4>1. l \in limit + 1 .. n /\ l <= limit + maxVicinity
        BY <1>1, <1>2, <1>3, <2>3, <3>2
      <4> QED BY <1>8, <1>13, <4>1
    <3> QED BY <3>1, <3>2
  <2>5. r = Bisect(F, l, n)
    BY <1>1, <1>4, <1>13, <2>1
  <2>6. PICK m : m = Bisect(F, l, n)
    OBVIOUS
  <2>7. m \in Nat /\ m < n /\ (m = 0 \/ m \in F) /\ m + 1 \notin F
    BY <1>1, <1>13, <2>3, <2>4, <2>6, Bisected
  <2> QED BY <1>9, <2>5, <2>6, <2>7 DEF r
<1>14. CASE n = 0 \/ (limit \in F /\ ahead = {} /\ n \in F)
  <2>1. r = IF n + 1 \notin Positions(t) THEN n ELSE hashSearchBorder(t, n)
    BY <1>1, <1>4, <1>14
  <2>2. CASE n + 1 \in Positions(t)
    <3>1. PICK m : m = hashSearchBorder(t, n)
      OBVIOUS
    <3>2. m \in Int /\ (Border(t, m) \/ InHash(t, m))
      BY <1>1, <2>2, <3>1, Searched DEF n
    <3> QED BY <2>1, <2>2, <3>1, <3>2 DEF r
  <2>3. CASE n + 1 \notin Positions(t)
    <3>1. n # 0 => Get(t, n) # Nil
      BY <1>1, <1>5, <1>14
    <3>2. Get(t, n + 1) = Nil
      BY <1>1, <1>6, <2>3
    <3>3. r = n /\ n \in Int
      BY <1>1, <2>1, <2>3
    <3>4. Border(t, n)
      BY <3>1, <3>2 DEF Border
    <3> QED BY <3>3, <3>4 DEF r
  <2> QED BY <2>2, <2>3
<1>15. n = 0 \/ n > 0
  BY <1>1
<1> QED BY <1>10, <1>11, <1>12, <1>13, <1>14, <1>15

-----------------------------------------------------------------------------
(* The inductive invariant.                                                  *)

Walker == [at : Key \cup {Over}, due : SUBSET Key, calm : BOOLEAN, strayed : BOOLEAN, fence : Int]

\* The walkers have their types.
Typed == listed \in -1 .. MaxListed /\ walk \in [Walks -> Walker]

\* While the constructor runs, no traversal does, and its positional fields are in
\* the array.
Constructing ==
  listed >= 0 => listed <= Len(tbl.array) /\ \A w \in Walks : walk[w] = AtRest

\* The window is that of the one traversal that has a fence.
Window == \A w \in Walks : walk[w].fence > 0 => walk[w].fence = tbl.iterBound

OnTrack(w) == Calm(w) => Tracks(tbl, walk[w].at, walk[w].due, walk[w].strayed)

IInv == Whole(tbl) /\ Typed /\ Constructing /\ Window /\ \A w \in Walks : OnTrack(w)

\* A new table.
LEMMA NewTable ==
  ASSUME NEW c \in Nat
  PROVE  Whole(NewTableWithSize(c))
<1> DEFINE t == NewTableWithSize(c)
<1>1. /\ t.array = <<>> /\ t.cap = c /\ t.hash = <<>> /\ t.keys = <<>> /\ t.deadKeys = 0
      /\ t.dead = NoDeadIndex /\ t.kidx = NoKeyIndex
  BY DEF NewTableWithSize
<1>2. <<>> \in Partial(Val) /\ DOMAIN <<>> = {} /\ <<>> \in Partial(Nat)
  BY EmptyPartial
<1>3. /\ NoDeadIndex \in [on : BOOLEAN, keys : SUBSET Key, scan : Nat] /\ NoDeadIndex.on = FALSE
      /\ NoKeyIndex \in [on : BOOLEAN, slot : Partial(Nat)] /\ NoKeyIndex.on = FALSE
  BY <1>2 DEF NoDeadIndex, NoKeyIndex
<1>4. <<>> \in Seq(Value) /\ <<>> \in Seq(Key) /\ Len(<<>>) = 0
  OBVIOUS
<1>5. t \in Table
  BY <1>2, <1>3, <1>4 DEF Table, NewTableWithSize
<1> HIDE DEF t
<1>6. Range(t.keys) = {} /\ DOMAIN t.keys = {}
  BY <1>1, <1>2 DEF Range
<1>7. Cardinality({}) = 0
  BY FS_EmptySet
<1>8. Tidy(t, DOMAIN t.hash)
  <2>1. DOMAIN t.hash = {} /\ Range(t.keys) \ DOMAIN t.hash = {}
    BY <1>1, <1>2, <1>6
  <2>2. IsInjective(t.keys)
    BY <1>6 DEF IsInjective
  <2>3. DeadTidy(t.keys, t.dead, DOMAIN t.hash) /\ IndexTidy(t.keys, t.kidx)
    BY <1>1, <1>3 DEF DeadTidy, IndexTidy
  <2> QED BY <1>1, <1>7, <2>1, <2>2, <2>3 DEF Tidy
<1>9. Filled(t.array) \subseteq IntKeys /\ DOMAIN t.array = {}
  BY <1>1, <1>2 DEF Filled
<1>10. Len(t.array) <= t.cap
  BY <1>1, <1>4
<1> QED BY <1>5, <1>8, <1>9, <1>10 DEF Whole, Good, t

\* The program starts with the invariant.
LEMMA Initially == Init => IInv
<1> SUFFICES ASSUME Init PROVE IInv
  OBVIOUS
<1>1. Hints \subseteq Nat /\ MaxListed \in Nat
  BY BoundsAssumption
<1>2. PICK c \in Hints : tbl = NewTableWithSize(c)
  BY DEF Init
<1>3. Whole(tbl)
  BY <1>1, <1>2, NewTable
<1>4. listed = 0 /\ walk = [w \in Walks |-> AtRest]
  BY DEF Init
<1>5. AtRest \in Walker /\ AtRest.at = Over /\ AtRest.fence = -1
  BY DEF AtRest, Walker
<1>6. Typed
  BY <1>1, <1>4, <1>5 DEF Typed
<1>7. Len(tbl.array) \in Nat
  BY <1>3, Slots
<1>8. Constructing
  BY <1>4, <1>7 DEF Constructing
<1>9. \A w \in Walks : walk[w].at = Over /\ walk[w].fence = -1
  BY <1>4, <1>5
<1>10. Window
  BY <1>9 DEF Window
<1>11. \A w \in Walks : OnTrack(w)
  BY <1>9 DEF OnTrack, Calm, Walking
<1> QED BY <1>3, <1>6, <1>8, <1>10, <1>11 DEF IInv

\* What an action leaves a traversal with that it only disturbs.
LEMMA Disturbed ==
  ASSUME IInv, Whole(tbl'), Bounded(tbl, tbl'), NEW moved \in BOOLEAN,
         ~moved /\ Calmed(tbl, tbl') => Thinned(tbl, tbl'),
         walk' = [w \in Walks |-> Disturb(w, moved)], listed = -1, listed' = listed
  PROVE  IInv'
<1>1. walk \in [Walks -> Walker] /\ listed \in -1 .. MaxListed
  BY DEF IInv, Typed
<1> DEFINE calm(w) == walk[w].calm /\ ~moved
                        /\ \A k \in Key : Content(tbl')[k] /= Nil => Content(tbl)[k] /= Nil
           due(w) == IF calm(w) THEN {k \in walk[w].due : Content(tbl')[k] /= Nil} ELSE {}
           emptied == tbl'.iterBound = 0 /\ tbl.iterBound /= 0
           fence(w) == IF emptied THEN -1 ELSE walk[w].fence
<1>2. \A k \in Key : Content(tbl)[k] = Get(tbl, k) /\ Content(tbl')[k] = Get(tbl', k)
  BY DEF Content
<1>3. \A w \in Walks : walk'[w] = [walk[w] EXCEPT !.calm = calm(w), !.due = due(w), !.fence = fence(w)]
  BY DEF Disturb
<1>4. \A w \in Walks : /\ walk[w] \in Walker
                       /\ walk[w].at \in Key \cup {Over} /\ walk[w].due \subseteq Key
                       /\ walk[w].calm \in BOOLEAN /\ walk[w].strayed \in BOOLEAN
                       /\ walk[w].fence \in Int
  BY <1>1 DEF Walker
<1>5. \A w \in Walks : calm(w) \in BOOLEAN
  OBVIOUS
<1>6. \A w \in Walks : calm(w) => Calmed(tbl, tbl') /\ ~moved
  BY <1>2 DEF Calmed
<1>7. \A w \in Walks : calm(w) => due(w) = {k \in walk[w].due : Get(tbl', k) # Nil}
  BY <1>2, <1>4
<1>8. \A w \in Walks : due(w) \subseteq Key
  BY <1>4
<1>9. \A w \in Walks : fence(w) \in Int
  BY <1>4
<1>10. \A w \in Walks : calm(w) => walk[w].calm
  OBVIOUS
<1> HIDE DEF calm, due, fence
<1>11. ASSUME NEW w \in Walks
       PROVE  /\ walk'[w] \in Walker
              /\ walk'[w].at = walk[w].at /\ walk'[w].strayed = walk[w].strayed
              /\ walk'[w].due = due(w) /\ walk'[w].fence = fence(w)
              /\ walk'[w].calm <=> calm(w)
  BY ZenonT(40), <1>3, <1>4, <1>5, <1>8, <1>9 DEF Walker
<1>12. Typed'
  BY <1>1, <1>11 DEF Typed
<1>13. Constructing'
  BY DEF Constructing
<1>14. Window'
  <2> SUFFICES ASSUME NEW w \in Walks, walk'[w].fence > 0 PROVE walk'[w].fence = tbl'.iterBound
    BY DEF Window
  <2>1. fence(w) > 0
    BY <1>11
  <2>2. ~emptied /\ fence(w) = walk[w].fence /\ walk[w].fence > 0
    BY <2>1 DEF fence
  <2>3. walk[w].fence = tbl.iterBound
    BY <2>2 DEF IInv, Window
  <2>4. tbl'.iterBound = tbl.iterBound
    BY <1>4, <2>2, <2>3 DEF Bounded
  <2> QED BY <1>11, <2>2, <2>3, <2>4
<1>15. ASSUME NEW w \in Walks PROVE OnTrack(w)'
  <2> SUFFICES ASSUME Calm(w)'
               PROVE  Tracks(tbl', walk'[w].at, walk'[w].due, walk'[w].strayed)
    BY DEF OnTrack
  <2>1. walk'[w].at # Over /\ walk'[w].calm
    BY DEF Calm, Walking
  <2>2. calm(w) /\ walk[w].at # Over /\ walk[w].calm
    BY <1>10, <1>11, <2>1
  <2>3. Calmed(tbl, tbl') /\ Thinned(tbl, tbl')
    BY <1>6, <2>2
  <2>4. Tracks(tbl, walk[w].at, walk[w].due, walk[w].strayed)
    BY <2>2 DEF IInv, OnTrack, Calm, Walking
  <2>5. Whole(tbl)
    BY DEF IInv
  <2>6. Tracks(tbl', walk[w].at, {k \in walk[w].due : Get(tbl', k) # Nil}, walk[w].strayed)
    BY <2>3, <2>4, <2>5, TracksOn
  <2> QED BY <1>7, <1>11, <2>2, <2>6
<1> QED BY <1>12, <1>13, <1>14, <1>15 DEF IInv

\* An assignment keeps the invariant.
LEMMA AssignStep ==
  ASSUME IInv, NEW k \in Key, NEW v \in Value, Assign(k, v)
  PROVE  IInv'
<1>1. Whole(tbl)
  BY DEF IInv
<1>2. /\ listed = -1 /\ listed' = listed /\ tbl' = SetTable(tbl, k, v)
      /\ walk' = [w \in Walks |-> Disturb(w, FALSE)]
  BY DEF Assign
<1>3. OutOfMemory(tbl, k, v) => tbl' = tbl
  BY <1>1, <1>2, Assigned
<1>4. ~OutOfMemory(tbl, k, v) => Whole(tbl') /\ Bounded(tbl, tbl')
  BY <1>1, <1>2, Assigned DEF Wrote
<1>5. Whole(tbl') /\ Bounded(tbl, tbl')
  BY <1>1, <1>3, <1>4 DEF Bounded
<1>6. Calmed(tbl, tbl') => Thinned(tbl, tbl')
  BY <1>1, <1>2, Thins
<1> QED BY <1>2, <1>5, <1>6, Disturbed

\* Room made in the array keeps the invariant.
LEMMA EnsureStep ==
  ASSUME IInv, NEW n \in Rooms, EnsureArraySize(n)
  PROVE  IInv'
<1>1. Whole(tbl)
  BY DEF IInv
<1> DEFINE K == DOMAIN tbl.hash \cap (1 .. n)
<1>2. /\ listed = -1 /\ listed' = listed /\ n > Len(tbl.array)
      /\ walk' = [w \in Walks |-> Disturb(w, TRUE)]
  BY DEF EnsureArraySize
<1>3. PICK order \in Bijection(1 .. Cardinality(K), K) :
        tbl' = absorbHashIndices(Grown(tbl, n), order)
  BY DEF EnsureArraySize
<1>4. n \in Nat
  BY BoundsAssumption
<1>5. Whole(tbl') /\ Bounded(tbl, tbl')
  BY <1>1, <1>2, <1>3, <1>4, Absorbed
<1> QED BY <1>2, <1>5, Disturbed

\* A field of a constructor: no traversal is on.
LEMMA Constructed ==
  ASSUME IInv, listed >= 0, Whole(tbl'), walk' = walk,
         listed' \in -1 .. MaxListed, listed' >= 0 => listed' <= Len(tbl'.array)
  PROVE  IInv'
<1>1. \A w \in Walks : walk'[w] = AtRest
  BY DEF IInv, Constructing
<1>2. AtRest.at = Over /\ AtRest.fence = -1
  BY DEF AtRest
<1>3. Typed'
  BY DEF IInv, Typed
<1>4. Constructing'
  BY <1>1 DEF Constructing
<1>5. Window'
  BY <1>1, <1>2 DEF Window
<1>6. \A w \in Walks : OnTrack(w)'
  BY <1>1, <1>2 DEF OnTrack, Calm, Walking
<1> QED BY <1>3, <1>4, <1>5, <1>6 DEF IInv

\* A keyed field keeps the invariant, unless it is nil.
LEMMA KeyedStep ==
  ASSUME ~NilFields, IInv, NEW k \in Key, NEW v \in Value, KeyedField(k, v)
  PROVE  IInv'
<1>1. /\ listed >= 0 /\ v # Nil /\ tbl' = SetTable(tbl, k, v) /\ listed' = listed /\ walk' = walk
  BY DEF KeyedField
<1>2. Whole(tbl) /\ listed \in -1 .. MaxListed /\ listed <= Len(tbl.array)
  BY <1>1 DEF IInv, Typed, Constructing
<1>3. OutOfMemory(tbl, k, v) => tbl' = tbl
  BY <1>1, <1>2, Assigned
<1>4. ~OutOfMemory(tbl, k, v) => Whole(tbl') /\ Len(tbl'.array) >= Len(tbl.array)
  BY <1>1, <1>2, Assigned DEF Wrote
<1>5. Whole(tbl')
  BY <1>2, <1>3, <1>4
<1>6. Len(tbl.array) \in Nat /\ Len(tbl'.array) \in Nat
  BY <1>2, <1>5, Slots
<1>7. MaxListed \in Nat
  BY BoundsAssumption
<1>8. listed' <= Len(tbl'.array)
  BY <1>1, <1>2, <1>3, <1>4, <1>6, <1>7
<1> QED BY <1>1, <1>2, <1>5, <1>8, Constructed

\* A batch of positional fields keeps the invariant.
LEMMA PositionalStep ==
  ASSUME IInv, NEW n \in 1 .. MaxListed, NEW vs \in [1 .. n -> Value], PositionalFields(vs)
  PROVE  IInv'
<1>1. MaxListed \in Nat /\ n \in Nat \ {0}
  BY BoundsAssumption
<1>2. Len(vs) = n
  <2>1. vs \in Seq(Value) /\ DOMAIN vs = 1 .. n
    BY <1>1
  <2> QED BY <1>1, <2>1
<1>3. /\ listed >= 0 /\ listed + n <= MaxListed /\ tbl' = SetList(tbl, listed + 1, vs)
      /\ listed' = listed + n /\ walk' = walk
  BY <1>2 DEF PositionalFields
<1>4. Whole(tbl) /\ listed \in -1 .. MaxListed /\ listed <= Len(tbl.array)
  BY <1>3 DEF IInv, Typed, Constructing
<1>5. /\ listed + 1 \in Nat /\ listed + 1 >= 1 /\ (listed + 1) - 1 <= Len(tbl.array)
      /\ (listed + 1) + n - 1 <= MaxListed /\ (listed + 1) + n - 1 = listed + n
      /\ listed + n \in -1 .. MaxListed
  BY <1>1, <1>3, <1>4
<1>6. Whole(tbl') /\ Len(tbl'.array) >= (listed + 1) + n - 1
  BY <1>1, <1>3, <1>4, <1>5, Listed
<1>7. listed' <= Len(tbl'.array)
  <2>1. Len(tbl'.array) \in Nat
    BY <1>6, Slots
  <2> QED BY <1>1, <1>3, <1>4, <1>5, <1>6, <2>1
<1> QED BY <1>3, <1>5, <1>6, <1>7, Constructed

\* The end of the constructor keeps the invariant.
LEMMA EndStep ==
  ASSUME IInv, EndConstructor
  PROVE  IInv'
<1>1. listed >= 0 /\ listed' = -1 /\ tbl' = tbl /\ walk' = walk
  BY DEF EndConstructor
<1>2. MaxListed \in Nat
  BY BoundsAssumption
<1>3. Whole(tbl') /\ listed' \in -1 .. MaxListed /\ ~(listed' >= 0)
  BY <1>1, <1>2 DEF IInv
<1> QED BY <1>1, <1>3, Constructed

\* Another traversal takes the window over, or gives it up: those that go on are
\* where they were.
LEMMA OthersGoOn ==
  ASSUME IInv, NEW w \in Walks, NEW r, Read(tbl, r), Unfenced(tbl) => Unfenced(r)
  PROVE  /\ Others(w) \in [Walks -> Walker]
         /\ \A x \in Walks :
              /\ Others(w)[x].fence = -1
              /\ Others(w)[x].at # Over /\ Others(w)[x].calm =>
                   Tracks(r, Others(w)[x].at, Others(w)[x].due, Others(w)[x].strayed)
<1>1. walk \in [Walks -> Walker]
  BY DEF IInv, Typed
<1>2. AtRest \in Walker /\ AtRest.at = Over /\ AtRest.fence = -1
  BY DEF AtRest, Walker
<1>3. ASSUME NEW x \in Walks
      PROVE  /\ Others(w)[x] \in Walker /\ Others(w)[x].fence = -1
             /\ walk[x].at = Over => Others(w)[x].at = Over
             /\ walk[x].at # Over => /\ Others(w)[x].at = walk[x].at
                                     /\ Others(w)[x].due = walk[x].due
                                     /\ Others(w)[x].strayed = walk[x].strayed
                                     /\ Others(w)[x].calm = walk[x].calm
  <2>1. Others(w)[x] = IF walk[x].at = Over THEN AtRest ELSE [walk[x] EXCEPT !.fence = -1]
    BY DEF Others
  <2>2. walk[x] \in Walker
    BY <1>1
  <2>3. CASE walk[x].at = Over
    BY <1>2, <2>1, <2>3
  <2>4. CASE walk[x].at # Over
    BY <2>1, <2>2, <2>4 DEF Walker
  <2> QED BY <2>3, <2>4
<1>4. Others(w) \in [Walks -> Walker]
  <2>1. Others(w) = [x \in Walks |-> Others(w)[x]]
    BY DEF Others
  <2> QED BY <1>3, <2>1
<1>5. \A k : /\ Ahead(r, k) = Ahead(tbl, k) /\ (Reachable(r, k) <=> Reachable(tbl, k))
             /\ (Strays(r, k) <=> Strays(tbl, k))
  BY ReadAhead
<1>6. ASSUME NEW x \in Walks, Others(w)[x].at # Over, Others(w)[x].calm
      PROVE  Tracks(r, Others(w)[x].at, Others(w)[x].due, Others(w)[x].strayed)
  <2>1. walk[x].at # Over /\ walk[x].calm
    BY <1>3, <1>6
  <2>2. Tracks(tbl, walk[x].at, walk[x].due, walk[x].strayed)
    BY <2>1 DEF IInv, OnTrack, Calm, Walking
  <2>3. Tracks(r, walk[x].at, walk[x].due, walk[x].strayed)
    BY <1>5, <2>2 DEF Tracks
  <2> QED BY <1>3, <2>1, <2>3
<1> QED BY <1>3, <1>4, <1>6

\* The start of a traversal keeps the invariant.
LEMMA StartStep ==
  ASSUME IInv, NEW w \in Walks, Start(w)
  PROVE  IInv'
<1>1. Whole(tbl) /\ Typed /\ listed = -1 /\ Len(tbl.keys) \in Nat
  BY Slots DEF IInv, Start
<1>2. PICK r : r = FirstEntry(tbl)
  OBVIOUS
<1> DEFINE due == {k \in Key \ {r.key} : Get(tbl, k) /= Nil}
           mine == IF r.key = Over THEN AtRest
                   ELSE [at |-> r.key, due |-> due, calm |-> TRUE, strayed |-> FALSE,
                         fence |-> Len(tbl.keys)]
<1>3. tbl' = r.t /\ walk' = [Others(w) EXCEPT ![w] = mine] /\ listed' = listed
  BY <1>2 DEF Start
<1>4. /\ Read(tbl, r.t)
      /\ r.key = Over => Bounded(tbl, r.t)
      /\ r.key # Over => /\ r.key \in Key /\ r.t.iterBound = Len(tbl.keys)
                         /\ r.key \in DOMAIN tbl.array \/ r.key \in Range(tbl.keys)
                         /\ Ahead(tbl, r.key) = {k \in Key \ {r.key} : Get(tbl, k) # Nil}
  BY <1>1, <1>2, FirstAnswer
<1>5. Whole(r.t) /\ r.t.keys = tbl.keys
  BY <1>4 DEF Read
<1>6. /\ Unfenced(tbl) => Unfenced(r.t)
      /\ r.key # Over => Unfenced(r.t)
  BY <1>4, <1>5 DEF Unfenced, Bounded
<1>7. /\ Others(w) \in [Walks -> Walker]
      /\ \A x \in Walks :
           /\ Others(w)[x].fence = -1
           /\ Others(w)[x].at # Over /\ Others(w)[x].calm =>
                Tracks(r.t, Others(w)[x].at, Others(w)[x].due, Others(w)[x].strayed)
  BY <1>4, <1>6, OthersGoOn
<1>8. mine \in Walker
  <2>1. AtRest \in Walker
    BY DEF AtRest, Walker
  <2>2. due \subseteq Key /\ Len(tbl.keys) \in Int
    BY <1>1
  <2> QED BY <1>4, <2>1, <2>2 DEF Walker
<1>9. mine.fence > 0 => mine.fence = r.t.iterBound
  <2>1. AtRest.fence = -1
    BY DEF AtRest
  <2> QED BY <1>4, <2>1
<1>10. mine.at # Over => Tracks(r.t, mine.at, mine.due, mine.strayed)
  <2>1. AtRest.at = Over
    BY DEF AtRest
  <2> SUFFICES ASSUME r.key # Over PROVE Tracks(r.t, r.key, due, FALSE)
    BY <2>1
  <2>2. Ahead(r.t, r.key) = due
    BY <1>4, ReadAhead
  <2>3. Reachable(r.t, r.key)
    BY <1>4, ReadAhead DEF Reachable
  <2> HIDE DEF due
  <2> QED BY <1>6, <2>2, <2>3 DEF Tracks
<1> HIDE DEF mine
<1>11. \A x \in Walks : walk'[x] = IF x = w THEN mine ELSE Others(w)[x]
  BY <1>3, <1>7
<1>12. walk' \in [Walks -> Walker]
  BY <1>3, <1>7, <1>8
<1>13. Typed'
  BY <1>1, <1>3, <1>12 DEF Typed
<1>14. Constructing'
  BY <1>1, <1>3 DEF Constructing
<1>15. Window'
  <2> SUFFICES ASSUME NEW x \in Walks, walk'[x].fence > 0 PROVE walk'[x].fence = tbl'.iterBound
    BY DEF Window
  <2> QED BY <1>3, <1>7, <1>9, <1>11
<1>16. ASSUME NEW x \in Walks PROVE OnTrack(x)'
  <2> SUFFICES ASSUME Calm(x)'
               PROVE  Tracks(tbl', walk'[x].at, walk'[x].due, walk'[x].strayed)
    BY DEF OnTrack
  <2>1. walk'[x].at # Over /\ walk'[x].calm
    BY DEF Calm, Walking
  <2>2. CASE x = w
    BY <1>3, <1>10, <1>11, <2>1, <2>2
  <2>3. CASE x # w
    BY <1>3, <1>7, <1>11, <2>1, <2>3
  <2> QED BY <2>2, <2>3
<1> QED BY <1>3, <1>5, <1>13, <1>14, <1>15, <1>16 DEF IInv

\* A step of a traversal keeps the invariant.
LEMMA StepStep ==
  ASSUME IInv, NEW w \in Walks, Step(w)
  PROVE  IInv'
<1>1. Whole(tbl) /\ Typed /\ walk \in [Walks -> Walker]
  BY DEF IInv, Typed
<1>2. walk[w].at # Over /\ walk[w].at \in Key /\ walk[w] \in Walker /\ listed = -1
  <2>1. walk[w].at # Over
    BY DEF Step, Walking
  <2>2. walk[w] \in Walker
    BY <1>1
  <2>3. AtRest.at = Over
    BY DEF AtRest
  <2>4. ~(listed >= 0)
    BY <2>1, <2>3 DEF IInv, Constructing
  <2>5. listed = -1
    BY <1>1, <2>4, BoundsAssumption DEF Typed
  <2> QED BY <2>1, <2>2, <2>5 DEF Walker
<1>3. PICK k : k = walk[w].at
  OBVIOUS
<1>4. PICK r : r = NextOf(tbl, k)
  OBVIOUS
<1>5. Answers(tbl, k, r) /\ Advances(tbl, k, r)
  BY <1>1, <1>2, <1>3, <1>4, NextAnswer
<1>6. /\ Read(tbl, r.t) /\ Bounded(tbl, r.t)
      /\ r.key \in Key \cup {Over, Failed}
      /\ r.key \in Key => r.t.iterBound = tbl.iterBound
  BY <1>5 DEF Answers
<1>7. Whole(r.t) /\ r.t.keys = tbl.keys
  BY <1>6 DEF Read
<1>8. Unfenced(tbl) => Unfenced(r.t)
  BY <1>6, <1>7 DEF Unfenced, Bounded
<1>9. /\ tbl' = r.t /\ listed' = listed
      /\ r.key \in {Over, Failed} => walk' = [Others(w) EXCEPT ![w] = AtRest]
      /\ r.key \notin {Over, Failed} =>
           walk' = [walk EXCEPT ![w].at = r.key, ![w].due = @ \ {r.key},
                                ![w].strayed = @ \/ Strays(tbl, walk[w].at)]
  BY <1>3, <1>4 DEF Step
<1>10. Constructing'
  BY <1>2, <1>9 DEF Constructing
<1>11. CASE r.key \in {Over, Failed}
  <2>1. /\ Others(w) \in [Walks -> Walker]
        /\ \A x \in Walks :
             /\ Others(w)[x].fence = -1
             /\ Others(w)[x].at # Over /\ Others(w)[x].calm =>
                  Tracks(r.t, Others(w)[x].at, Others(w)[x].due, Others(w)[x].strayed)
    BY <1>6, <1>8, OthersGoOn
  <2>2. AtRest \in Walker /\ AtRest.at = Over /\ AtRest.fence = -1
    BY DEF AtRest, Walker
  <2>3. \A x \in Walks : walk'[x] = IF x = w THEN AtRest ELSE Others(w)[x]
    BY <1>9, <1>11, <2>1
  <2>4. Typed'
    BY <1>1, <1>9, <1>11, <2>1, <2>2 DEF Typed
  <2>5. Window'
    BY <2>1, <2>2, <2>3 DEF Window
  <2>6. ASSUME NEW x \in Walks PROVE OnTrack(x)'
    <3> SUFFICES ASSUME walk'[x].at # Over, walk'[x].calm
                 PROVE  Tracks(tbl', walk'[x].at, walk'[x].due, walk'[x].strayed)
      BY DEF OnTrack, Calm, Walking
    <3>1. x # w
      BY <2>2, <2>3
    <3> QED BY <1>9, <2>1, <2>3, <3>1
  <2> QED BY <1>7, <1>9, <1>10, <2>4, <2>5, <2>6 DEF IInv
<1>12. CASE r.key \notin {Over, Failed}
  <2>1. r.key \in Key /\ r.t.iterBound = tbl.iterBound
    BY <1>6, <1>12
  <2> DEFINE mine == [walk[w] EXCEPT !.at = r.key, !.due = @ \ {r.key},
                                     !.strayed = @ \/ Strays(tbl, k)]
  <2>2. walk' = [walk EXCEPT ![w] = mine]
    BY <1>1, <1>3, <1>9, <1>12 DEF Walker
  <2>3. /\ mine \in Walker
        /\ mine.at = r.key /\ mine.due = walk[w].due \ {r.key} /\ mine.fence = walk[w].fence
        /\ mine.calm = walk[w].calm
        /\ mine.strayed <=> walk[w].strayed \/ Strays(tbl, k)
    <3> DEFINE s == walk[w].strayed \/ Strays(tbl, k)
    <3>1. walk[w].strayed \in BOOLEAN /\ s \in BOOLEAN
      BY <1>2 DEF Walker, Strays
    <3>2. mine = [walk[w] EXCEPT !.at = r.key, !.due = @ \ {r.key}, !.strayed = s]
      OBVIOUS
    <3> HIDE DEF mine
    <3>3. mine.strayed = s
      <4> HIDE DEF s
      <4> QED BY <1>2, <3>2 DEF Walker
    <3>4. /\ mine \in Walker
          /\ mine.at = r.key /\ mine.due = walk[w].due \ {r.key} /\ mine.fence = walk[w].fence
          /\ mine.calm = walk[w].calm
      <4> HIDE DEF s
      <4> QED BY <1>2, <2>1, <3>1, <3>2 DEF Walker
    <3> QED BY <3>3, <3>4
  <2> HIDE DEF mine
  <2>4. \A x \in Walks : walk'[x] = IF x = w THEN mine ELSE walk[x]
    BY <1>1, <2>2
  <2>5. Typed'
    BY <1>1, <1>9, <2>2, <2>3 DEF Typed
  <2>6. Window'
    BY <1>9, <2>1, <2>3, <2>4 DEF IInv, Window
  <2>7. \A x : /\ Ahead(r.t, x) = Ahead(tbl, x) /\ (Reachable(r.t, x) <=> Reachable(tbl, x))
               /\ (Strays(r.t, x) <=> Strays(tbl, x))
    BY <1>6, ReadAhead
  <2>8. ASSUME NEW x \in Walks PROVE OnTrack(x)'
    <3> SUFFICES ASSUME walk'[x].at # Over, walk'[x].calm
                 PROVE  Tracks(tbl', walk'[x].at, walk'[x].due, walk'[x].strayed)
      BY DEF OnTrack, Calm, Walking
    <3>1. walk[x].at # Over /\ walk[x].calm
      BY <1>2, <2>3, <2>4
    <3>2. Tracks(tbl, walk[x].at, walk[x].due, walk[x].strayed)
      BY <3>1 DEF IInv, OnTrack, Calm, Walking
    <3>3. CASE x # w
      BY <1>8, <1>9, <2>4, <2>7, <3>2, <3>3 DEF Tracks
    <3>4. CASE x = w
      <4>1. /\ Unfenced(tbl) /\ Reachable(tbl, k) /\ Ahead(tbl, k) \subseteq walk[w].due
            /\ walk[w].due \subseteq Ahead(tbl, k) \/ walk[w].strayed \/ Strays(tbl, k)
        BY <1>3, <3>2, <3>4 DEF Tracks
      <4>2. /\ r.key \in Ahead(tbl, k) /\ Ahead(tbl, r.key) = Ahead(tbl, k) \ {r.key}
            /\ Reachable(tbl, r.key)
        BY <1>5, <1>12, <4>1 DEF Advances
      <4>3. /\ Unfenced(r.t) /\ Reachable(r.t, r.key)
            /\ Ahead(r.t, r.key) \subseteq walk[w].due \ {r.key}
            /\ \/ walk[w].due \ {r.key} \subseteq Ahead(r.t, r.key)
               \/ walk[w].strayed \/ Strays(tbl, k)
        BY <1>8, <2>7, <4>1, <4>2
      <4> QED BY <1>9, <2>3, <2>4, <3>4, <4>3 DEF Tracks
    <3> QED BY <3>3, <3>4
  <2> QED BY <1>7, <1>9, <1>10, <2>5, <2>6, <2>8 DEF IInv
<1> QED BY <1>11, <1>12

\* Every step keeps the invariant.
LEMMA Inductive ==
  ASSUME ~NilFields, IInv, [Next]_vars
  PROVE  IInv'
<1>1. ASSUME NEW k \in Key, NEW v \in Val \cup {Nil}, Assign(k, v) PROVE IInv'
  BY <1>1, AssignStep DEF Value
<1>2. ASSUME NEW k \in Key, NEW v \in Val \cup {Nil}, KeyedField(k, v) PROVE IInv'
  BY <1>2, KeyedStep DEF Value
<1>3. ASSUME NEW n \in Rooms, EnsureArraySize(n) PROVE IInv'
  BY <1>3, EnsureStep
<1>4. ASSUME NEW n \in 1 .. MaxListed, NEW vs \in [1 .. n -> Val \cup {Nil}], PositionalFields(vs)
      PROVE  IInv'
  BY <1>4, PositionalStep DEF Value
<1>5. CASE EndConstructor
  BY <1>5, EndStep
<1>6. ASSUME NEW w \in Walks, Start(w) PROVE IInv'
  BY <1>6, StartStep
<1>7. ASSUME NEW w \in Walks, Step(w) PROVE IInv'
  BY <1>7, StepStep
<1>8. CASE UNCHANGED vars
  <2>1. tbl' = tbl /\ listed' = listed /\ walk' = walk
    BY <1>8 DEF vars
  <2> QED BY <2>1 DEF IInv, Typed, Constructing, Window, OnTrack, Calm, Walking
<1> QED BY <1>1, <1>2, <1>3, <1>4, <1>5, <1>6, <1>7, <1>8 DEF Next

\* The invariant holds of every table, with any number of keys and traversals.
LEMMA Invariant ==
  ASSUME ~NilFields
  PROVE  Spec => []IInv
<1>1. IInv /\ [Next]_vars => IInv'
  BY Inductive
<1> QED BY <1>1, Initially, PTL DEF Spec

-----------------------------------------------------------------------------
(* What the runs check.                                                      *)

\* The invariant gives StorageExact.
LEMMA StorageHolds == IInv => StorageExact
<1> SUFFICES ASSUME IInv PROVE StorageExact
  OBVIOUS
<1>1. /\ tbl \in Table /\ Tidy(tbl, DOMAIN tbl.hash) /\ Len(tbl.array) <= tbl.cap
      /\ DOMAIN tbl.hash \cap DOMAIN tbl.array = {}
  BY GoodTable DEF IInv, Whole
<1>2. /\ listed \in -1 .. MaxListed
      /\ \A w \in Walks : walk[w].at \in Key \cup {Over} /\ walk[w].due \subseteq Key
  BY DEF IInv, Typed, Walker
<1>3. IsFiniteSet(DOMAIN tbl.hash)
  <2>1. DOMAIN tbl.hash \subseteq Range(tbl.keys) /\ IsFiniteSet(Range(tbl.keys))
    BY <1>1, TidyCount DEF Tidy
  <2> QED BY <2>1, FS_Subset
<1>4. /\ tbl.array \in Seq(Val \cup {Nil}) /\ tbl.cap \in Nat /\ DOMAIN tbl.hash \subseteq Key
      /\ tbl.keys \in Seq(Key)
      /\ tbl.deadKeys \in Nat /\ tbl.iterBound \in Nat /\ tbl.iterShape \in Nat
      /\ tbl.iterCur \in Nat /\ tbl.noPromote \in Nat
      /\ tbl.hash \in [DOMAIN tbl.hash -> Val]
  BY <1>1, TableFields DEF Value
<1>5. Range(tbl.hash) \subseteq Val
  BY <1>4 DEF Range
<1>6. TypeOK
  BY <1>1, <1>2, <1>3, <1>4, <1>5 DEF TypeOK
<1>7. tbl.dead.on => /\ tbl.dead.keys = Tombstones
                     /\ \A i \in DOMAIN tbl.keys : tbl.keys[i] \in Tombstones => i >= tbl.dead.scan
  BY <1>1 DEF Tidy, DeadTidy, Tombstones
<1> QED BY <1>1, <1>6, <1>7 DEF StorageExact, Tidy, Tombstones

\* The invariant gives ActsAsAMap.
LEMMA MapHolds == IInv => ActsAsAMap
<1> SUFFICES ASSUME IInv, NEW k \in Key, NEW v \in Val \cup {Nil}
             PROVE  Content(SetTable(tbl, k, v)) =
                      IF OutOfMemory(tbl, k, v) THEN Content(tbl) ELSE [Content(tbl) EXCEPT ![k] = v]
  BY DEF ActsAsAMap
<1> DEFINE r == SetTable(tbl, k, v)
<1>1. /\ OutOfMemory(tbl, k, v) => r = tbl
      /\ ~OutOfMemory(tbl, k, v) => \A x \in Key : Get(r, x) = IF x = k THEN v ELSE Get(tbl, x)
  BY Assigned DEF IInv, Value, Wrote, Put
<1> HIDE DEF r
<1>2. CASE OutOfMemory(tbl, k, v)
  BY <1>1, <1>2 DEF r
<1>3. CASE ~OutOfMemory(tbl, k, v)
  <2>1. Content(r) = [Content(tbl) EXCEPT ![k] = v]
    BY <1>1, <1>3 DEF Content
  <2> QED BY <1>3, <2>1 DEF r
<1> QED BY <1>2, <1>3

\* The invariant gives LengthIsABorder.
LEMMA BorderHolds == IInv => LengthIsABorder
<1> SUFFICES ASSUME IInv PROVE LengthIsABorder
  OBVIOUS
<1>1. PICK n : n = LenOf(tbl)
  OBVIOUS
<1>2. n \in Int /\ (Border(tbl, n) \/ InHash(tbl, n))
  BY <1>1, LengthFound DEF IInv
<1>3. Len(tbl.array) \in Nat
  BY Slots DEF IInv
<1> DEFINE h == Max({Len(tbl.array), maxInt \div 3})
<1>4. h \in {Len(tbl.array), maxInt \div 3}
  <2>1. maxInt \div 3 \in Nat
    BY ThresholdAssumption
  <2> DEFINE T == {Len(tbl.array), maxInt \div 3}
  <2>2. \E x \in T : \A y \in T : x >= y
    BY <1>3, <2>1
  <2>3. h \in T
    BY <2>2 DEF Max
  <2> QED BY <2>3
<1> HIDE DEF h
<1>5. CASE Border(tbl, n)
  BY <1>1, <1>5 DEF Border, LengthIsABorder
<1>6. CASE InHash(tbl, n)
  <2>1. Get(tbl, n) # Nil /\ n \notin 0 .. h
    <3>1. maxInt \in Nat
      BY ThresholdAssumption
    <3> QED BY <1>2, <1>3, <1>4, <1>6, <3>1 DEF InHash
  <2> QED BY <1>1, <2>1 DEF h, LengthIsABorder
<1> QED BY <1>2, <1>5, <1>6

\* The invariant gives KeysAreFound.
LEMMA FoundHolds == IInv => KeysAreFound
<1> SUFFICES ASSUME IInv PROVE KeysAreFound
  OBVIOUS
<1>1. Whole(tbl) /\ Tidy(tbl, DOMAIN tbl.hash)
  BY GoodTable DEF IInv, Whole
<1>2. \A k \in Key : Get(tbl, k) # Nil => NextOf(tbl, k).key # Failed
  BY <1>1, NextAnswer DEF Answers
<1>3. tbl.kidx.on => /\ DOMAIN tbl.kidx.slot = Range(tbl.keys)
                     /\ \A i \in DOMAIN tbl.keys : tbl.kidx.slot[tbl.keys[i]] = i
  BY <1>1 DEF Tidy, IndexTidy
<1> QED BY <1>2, <1>3 DEF KeysAreFound

\* The invariant gives TraversalExact.
LEMMA TraversalHolds == IInv => TraversalExact
<1> SUFFICES ASSUME IInv, NEW w \in Walks, Calm(w)
             PROVE  /\ NextKey(w) \in walk[w].due \cup {Over}
                    /\ NextKey(w) = Over /\ walk[w].due /= {} =>
                         walk[w].strayed \/ Strays(tbl, walk[w].at)
  BY DEF TraversalExact
<1>1. Whole(tbl) /\ walk[w].at \in Key
  BY DEF IInv, Typed, Walker, Calm, Walking
<1>2. Tracks(tbl, walk[w].at, walk[w].due, walk[w].strayed)
  BY DEF IInv, OnTrack
<1>3. Advances(tbl, walk[w].at, NextOf(tbl, walk[w].at))
  BY <1>1, NextAnswer
<1> QED BY <1>2, <1>3 DEF Tracks, Advances, NextKey

\* The invariant gives FencedIn.
LEMMA FenceHolds == IInv => FencedIn
<1> SUFFICES ASSUME IInv, NEW w \in Walks, Walking(w), walk[w].fence > 0
             PROVE  SlotReached(w) <= walk[w].fence
  BY DEF FencedIn
<1>1. Whole(tbl) /\ walk[w].at \in Key /\ walk[w].fence \in Int
  BY DEF IInv, Typed, Walker, Walking
<1>2. walk[w].fence = tbl.iterBound
  BY DEF IInv, Window
<1>3. PICK x : x = NextKey(w)
  OBVIOUS
<1>4. x \in Key \ DOMAIN tbl.array => \E j \in DOMAIN tbl.keys : tbl.keys[j] = x /\ j <= iterWindow(tbl)
  BY <1>1, <1>3, NextAnswer DEF Answers, NextKey
<1>5. /\ IsInjective(tbl.keys) /\ DOMAIN tbl.keys = 1 .. Len(tbl.keys) /\ Len(tbl.keys) \in Nat
      /\ Range(tbl.keys) \subseteq Key
  BY <1>1, Slots
<1>6. iterWindow(tbl) <= walk[w].fence /\ iterWindow(tbl) \in Int
  BY <1>1, <1>2, <1>5 DEF iterWindow
<1>7. CASE x \in Range(tbl.keys) \ DOMAIN tbl.array
  <2>1. PICK j \in DOMAIN tbl.keys : tbl.keys[j] = x /\ j <= iterWindow(tbl)
    BY <1>4, <1>5, <1>7
  <2> DEFINE I == {i \in DOMAIN tbl.keys : tbl.keys[i] = x}
  <2>2. SlotReached(w) = Least(I)
    BY <1>3, <1>7 DEF SlotReached, scanForSlot
  <2>3. I = {j}
    BY <1>5, <2>1 DEF IsInjective
  <2>4. j \in Nat \ {0}
    BY <1>5, <2>1
  <2> HIDE DEF I
  <2>5. Least(I) = j
    BY <2>3, <2>4, Least0
  <2> QED BY <1>1, <1>6, <2>1, <2>2, <2>4, <2>5
<1>8. CASE x \notin Range(tbl.keys) \ DOMAIN tbl.array
  <2>1. SlotReached(w) = 0
    BY <1>3, <1>8 DEF SlotReached
  <2> QED BY <1>1, <2>1
<1> QED BY <1>7, <1>8

\* The comment of Table in vm/table.go, for every table: no key has two slots, every key of the
\* hash part has one, deadKeys counts the tombstones, their index lists them all, and no integer
\* lives in both parts.
THEOREM StorageTheorem ==
  ASSUME ~NilFields
  PROVE  Spec => []StorageExact
BY Invariant, StorageHolds, PTL

\* An assignment changes the value of its key and of no other, whether it appends, shrinks,
\* rehashes or promotes.
THEOREM MapTheorem ==
  ASSUME ~NilFields
  PROVE  Spec => []ActsAsAMap
BY Invariant, MapHolds, PTL

\* The length operator answers a border of every table, by the vicinity of its limit, by either
\* binary search, or by the probe of the hash part; or else the probe has gone so far that a sum
\* of two Go ints wraps around, and the answer, which holds a value, is beyond the array and
\* negative or above a third of the largest int.
THEOREM BorderTheorem ==
  ASSUME ~NilFields
  PROVE  Spec => []LengthIsABorder
BY Invariant, BorderHolds, PTL

\* next() never refuses a key the table holds, and the slot index knows the slot of every key.
THEOREM FoundTheorem ==
  ASSUME ~NilFields
  PROVE  Spec => []KeysAreFound
BY Invariant, FoundHolds, PTL

\* A traversal of a table that gains no key visits each key once, and all those that stay,
\* whatever is assigned and however many traversals there are, unless it has strayed.
THEOREM TraversalTheorem ==
  ASSUME ~NilFields
  PROVE  Spec => []TraversalExact
BY Invariant, TraversalHolds, PTL

\* A traversal alone on the table never answers a key beyond the slots there were at its start.
THEOREM FenceTheorem ==
  ASSUME ~NilFields
  PROVE  Spec => []FencedIn
BY Invariant, FenceHolds, PTL
=============================================================================
