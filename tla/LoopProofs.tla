------------------------------ MODULE LoopProofs ------------------------------
(***************************************************************************)
(* The loops of the code are functions of the number of passes made.  Such *)
(* a function has a value when every pass takes what the one before it     *)
(* answers (PassesRun), and what every pass keeps holds after all of them  *)
(* (RunStays).                                                             *)
(***************************************************************************)
EXTENDS Integers, FiniteSetTheorems, TLAPS

\* A set of numbers that is not empty has a least element.
LEMMA LeastExists ==
  ASSUME NEW T \in SUBSET Nat, T # {}
  PROVE  \E x \in T : \A y \in T : x <= y
<1> DEFINE R == StrictSubsetOrdering(Nat)
           F == {1 .. n : n \in T}
<1>1. IsWellFoundedOn(R, FiniteSubsetsOf(Nat))
  BY FS_StrictSubsetOrderingWellFounded
<1>2. \A n \in Nat : IsFiniteSet(1 .. n) /\ 1 .. n \in SUBSET Nat
  BY FS_Interval
<1>3. F \subseteq FiniteSubsetsOf(Nat) /\ F # {}
  BY <1>2 DEF FiniteSubsetsOf
<1>4. ASSUME NEW x \in Nat, NEW y \in Nat, y < x
      PROVE  <<1 .. y, 1 .. x>> \in R
  <2>1. x \in 1 .. x /\ x \notin 1 .. y /\ 1 .. y \subseteq 1 .. x
    BY <1>4
  <2> QED BY <1>2, <2>1 DEF StrictSubsetOrdering
<1> HIDE DEF R
<1>5. \E S \in F : \A U \in F : <<U, S>> \notin R
  BY <1>1, <1>3, WFMin
<1>6. PICK x \in T : \A y \in T : <<1 .. y, 1 .. x>> \notin R
  BY <1>5
<1>7. \A y \in T : ~(y < x)
  BY <1>4, <1>6
<1> QED BY <1>7

\* Every number is in a set that holds 0 and, with a number, the next one.
LEMMA Counting ==
  ASSUME NEW T, 0 \in T, \A n \in Nat : n \in T => n + 1 \in T
  PROVE  \A n \in Nat : n \in T
<1> SUFFICES ASSUME NEW n \in Nat, n \notin T PROVE FALSE
  OBVIOUS
<1>1. PICK x \in Nat \ T : \A y \in Nat \ T : x <= y
  BY LeastExists
<1>2. x - 1 \in Nat /\ (x - 1) + 1 = x
  BY <1>1
<1>3. x - 1 \notin T
  BY <1>1, <1>2
<1> QED BY <1>1, <1>2, <1>3

IsLoop(f, x, F) == f = [n \in Nat |-> IF n = 0 THEN x ELSE F[<<n, f[n - 1]>>]]

\* A loop whose pass number n takes x to F[<<n, x>>], and what it starts with and
\* every pass answers is in S, has a state after each number of passes.
LEMMA LoopExists ==
  ASSUME NEW S, NEW x \in S, NEW F,
         \A n \in Nat, u \in S : F[<<n, u>>] \in S
  PROVE  \E f : IsLoop(f, x, F)
<1> DEFINE Runs(n) == {g \in [0 .. n -> S] : /\ g[0] = x
                                             /\ \A i \in 1 .. n : g[i] = F[<<i, g[i - 1]>>]}
           T == {n \in Nat : Runs(n) # {}}
           Agree == {n \in Nat : \A m \in Nat, k \in Nat : n <= m /\ n <= k =>
                                   \A g \in Runs(m), h \in Runs(k) : g[n] = h[n]}
<1>1. 0 \in T
  <2>1. [i \in 0 .. 0 |-> x] \in Runs(0)
    OBVIOUS
  <2> QED BY <2>1
<1>2. ASSUME NEW n \in Nat, n \in T PROVE n + 1 \in T
  <2>1. PICK g : g \in Runs(n)
    BY <1>2
  <2> DEFINE h == [i \in 0 .. n + 1 |-> IF i = n + 1 THEN F[<<n + 1, g[n]>>] ELSE g[i]]
  <2>2. h \in [0 .. n + 1 -> S]
    BY <2>1
  <2>3. h[0] = x
    BY <2>1
  <2>4. ASSUME NEW i \in 1 .. n + 1 PROVE h[i] = F[<<i, h[i - 1]>>]
    <3>1. CASE i = n + 1
      <4>1. h[i] = F[<<i, g[n]>>] /\ h[n] = g[n] /\ i - 1 = n
        BY <3>1
      <4> QED BY <4>1
    <3>2. CASE i # n + 1
      <4>1. i \in 1 .. n /\ h[i] = g[i] /\ h[i - 1] = g[i - 1]
        BY <3>2
      <4> QED BY <2>1, <4>1
    <3> QED BY <3>1, <3>2
  <2>5. h \in Runs(n + 1)
    BY <2>2, <2>3, <2>4
  <2> QED BY <2>5
<1>3. \A n \in Nat : Runs(n) # {}
  <2> HIDE DEF T
  <2>1. \A n \in Nat : n \in T
    BY <1>1, <1>2, Counting
  <2> QED BY <2>1 DEF T
<1>4. 0 \in Agree
  OBVIOUS
<1>5. ASSUME NEW n \in Nat, n \in Agree PROVE n + 1 \in Agree
  <2> SUFFICES ASSUME NEW m \in Nat, NEW k \in Nat, n + 1 <= m, n + 1 <= k,
                      NEW g \in Runs(m), NEW h \in Runs(k)
               PROVE  g[n + 1] = h[n + 1]
    OBVIOUS
  <2>1. n + 1 \in 1 .. m /\ n + 1 \in 1 .. k /\ (n + 1) - 1 = n /\ n <= m /\ n <= k
    OBVIOUS
  <2>2. g[n + 1] = F[<<n + 1, g[n]>>] /\ h[n + 1] = F[<<n + 1, h[n]>>]
    BY <2>1
  <2> HIDE DEF Runs
  <2>3. g[n] = h[n]
    BY <1>5, <2>1
  <2> QED BY <2>2, <2>3
<1>6. \A n \in Nat : n \in Agree
  <2> HIDE DEF Agree
  <2> QED BY <1>4, <1>5, Counting
<1> DEFINE run(n) == CHOOSE g : g \in Runs(n)
           f == [n \in Nat |-> run(n)[n]]
<1>7. \A n \in Nat : run(n) \in Runs(n)
  BY <1>3
<1>8. f[0] = x
  BY <1>7
<1>9. ASSUME NEW n \in Nat, n # 0 PROVE f[n] = F[<<n, f[n - 1]>>]
  <2>1. n - 1 \in Nat /\ n \in 1 .. n /\ n - 1 <= n /\ n - 1 <= n - 1
    BY <1>9
  <2>2. run(n) \in Runs(n) /\ run(n - 1) \in Runs(n - 1)
    BY <1>7, <2>1
  <2> HIDE DEF run
  <2>3. run(n)[n] = F[<<n, run(n)[n - 1]>>]
    BY <2>1, <2>2
  <2> HIDE DEF Runs
  <2>4. run(n)[n - 1] = run(n - 1)[n - 1]
    BY <1>6, <2>1, <2>2
  <2>5. f[n] = run(n)[n] /\ f[n - 1] = run(n - 1)[n - 1]
    BY <2>1
  <2> QED BY <2>3, <2>4, <2>5
<1> HIDE DEF f
<1>10. f = [n \in Nat |-> IF n = 0 THEN x ELSE F[<<n, f[n - 1]>>]]
  <2>1. f = [n \in Nat |-> f[n]]
    BY DEF f
  <2>2. \A n \in Nat : f[n] = IF n = 0 THEN x ELSE F[<<n, f[n - 1]>>]
    BY <1>8, <1>9
  <2> QED BY <2>1, <2>2
<1> QED BY <1>10 DEF IsLoop

IsRun(f, N, x, F) == f = [n \in 0 .. N |-> IF n = 0 THEN x ELSE F[<<n, f[n - 1]>>]]

\* A loop of N passes of which pass n takes what is in G[n - 1] to G[n].
LEMMA PassesRun ==
  ASSUME NEW N \in Nat, NEW G, NEW x \in G[0], NEW F,
         \A n \in 1 .. N : \A u \in G[n - 1] : F[<<n, u>>] \in G[n]
  PROVE  \E f : /\ IsRun(f, N, x, F)
                /\ \A n \in 0 .. N : f[n] \in G[n]
<1> DEFINE S == UNION {G[n] : n \in 0 .. N}
           Go(p) == IF p[1] \in 1 .. N /\ p[2] \in G[p[1] - 1] THEN F[p] ELSE p[2]
           H == [p \in Nat \X S |-> Go(p)]
<1>1. x \in S
  OBVIOUS
<1>2. ASSUME NEW n \in Nat, NEW u \in S
      PROVE  H[<<n, u>>] = IF n \in 1 .. N /\ u \in G[n - 1] THEN F[<<n, u>>] ELSE u
  OBVIOUS
<1>3. \A n \in Nat, u \in S : H[<<n, u>>] \in S
  <2> TAKE n \in Nat, u \in S
  <2>1. CASE n \in 1 .. N /\ u \in G[n - 1]
    <3>1. H[<<n, u>>] \in G[n] /\ n \in 0 .. N
      BY <1>2, <2>1
    <3> QED BY <3>1
  <2>2. CASE ~(n \in 1 .. N /\ u \in G[n - 1])
    BY <1>2, <2>2
  <2> QED BY <2>1, <2>2
<1> HIDE DEF H, S
<1>4. PICK h : IsLoop(h, x, H)
  BY <1>1, <1>3, LoopExists
<1>5. h[0] = x /\ \A n \in Nat : n # 0 => h[n] = H[<<n, h[n - 1]>>]
  BY <1>4 DEF IsLoop
<1> DEFINE T == {n \in Nat : n <= N => h[n] \in G[n]}
<1>6. 0 \in T
  BY <1>5
<1>7. ASSUME NEW n \in Nat, n \in T, n + 1 <= N
      PROVE  h[n + 1] = F[<<n + 1, h[n]>>] /\ h[n + 1] \in G[n + 1]
  <2>1. n + 1 \in 1 .. N /\ (n + 1) - 1 = n /\ n + 1 # 0 /\ n <= N /\ n \in 0 .. N /\ n + 1 \in Nat
    BY <1>7
  <2>2. h[n] \in G[n] /\ h[n] \in S
    BY <1>7, <2>1 DEF S
  <2>3. h[n + 1] = H[<<n + 1, h[n]>>]
    BY <1>5, <2>1
  <2>4. H[<<n + 1, h[n]>>] = F[<<n + 1, h[n]>>]
    BY <1>2, <2>1, <2>2
  <2>5. F[<<n + 1, h[n]>>] \in G[n + 1]
    BY <2>1, <2>2
  <2> QED BY <2>3, <2>4, <2>5
<1>8. \A n \in Nat : n \in T
  <2>1. ASSUME NEW n \in Nat, n \in T PROVE n + 1 \in T
    <3>1. n + 1 <= N => h[n + 1] \in G[n + 1]
      BY <1>7, <2>1
    <3> QED BY <3>1
  <2> HIDE DEF T
  <2> QED BY <1>6, <2>1, Counting
<1> DEFINE f == [n \in 0 .. N |-> h[n]]
<1>9. \A n \in 0 .. N : f[n] \in G[n]
  BY <1>8
<1>10. ASSUME NEW n \in 0 .. N PROVE f[n] = IF n = 0 THEN x ELSE F[<<n, f[n - 1]>>]
  <2>1. CASE n = 0
    BY <1>5, <2>1
  <2>2. CASE n # 0
    <3>1. n - 1 \in Nat /\ n - 1 \in T /\ (n - 1) + 1 = n /\ (n - 1) + 1 <= N /\ n - 1 \in 0 .. N
      BY <1>8, <2>2
    <3> HIDE DEF T
    <3>2. h[(n - 1) + 1] = F[<<(n - 1) + 1, h[n - 1]>>]
      BY <1>7, <3>1
    <3> QED BY <2>2, <3>1, <3>2
  <2> QED BY <2>1, <2>2
<1>11. f = [n \in 0 .. N |-> IF n = 0 THEN x ELSE F[<<n, f[n - 1]>>]]
  <2>1. f = [n \in 0 .. N |-> f[n]]
    OBVIOUS
  <2> HIDE DEF f
  <2> QED BY <1>10, <2>1
<1> HIDE DEF f
<1> QED BY <1>9, <1>11 DEF IsRun

\* What every pass of a loop of N passes keeps, holds after each of them.
LEMMA RunStays ==
  ASSUME NEW N \in Nat, NEW G, NEW R, R[0] \in G[0],
         \A n \in 1 .. N : R[n - 1] \in G[n - 1] => R[n] \in G[n]
  PROVE  \A n \in 0 .. N : R[n] \in G[n]
<1> DEFINE T == {n \in Nat : n <= N => R[n] \in G[n]}
<1>1. 0 \in T
  OBVIOUS
<1>2. ASSUME NEW n \in Nat, n \in T PROVE n + 1 \in T
  <2>1. ASSUME n + 1 <= N PROVE R[n + 1] \in G[n + 1]
    <3>1. n + 1 \in 1 .. N /\ (n + 1) - 1 = n /\ n <= N
      BY <2>1
    <3>2. R[n] \in G[n]
      BY <1>2, <3>1
    <3> QED BY <3>1, <3>2
  <2> QED BY <2>1
<1>3. \A n \in Nat : n \in T
  <2> HIDE DEF T
  <2> QED BY <1>1, <1>2, Counting
<1>4. ASSUME NEW n \in 0 .. N PROVE R[n] \in G[n]
  <2>1. n \in T /\ n <= N
    BY <1>3
  <2> QED BY <2>1
<1> QED BY <1>4
=============================================================================
