---------------------------- MODULE NatRecursion ----------------------------
(* Induction on the natural numbers over a set, and the functions that are  *)
(* defined by it: the facts the proofs about recursive functions rest on.   *)
EXTENDS Integers, WellFoundedInduction, TLAPS

\* The order of the natural numbers is well-founded.
LEMMA LessWF == IsWellFoundedOn({p \in Nat \X Nat : p[1] < p[2]}, Nat)
<1>1. OpToRel(<,Nat) = {p \in Nat \X Nat : p[1] < p[2]}
  BY DEF OpToRel
<1> QED BY <1>1, NatLessThanWellFounded, Zenon

\* A set with 0 and with the successor of each natural number in it has them all.
LEMMA SetInduction ==
  ASSUME NEW S, 0 \in S, \A n \in Nat : n \in S => n + 1 \in S
  PROVE  Nat \subseteq S
<1> DEFINE T == Nat \ S
           R == {p \in Nat \X Nat : p[1] < p[2]}
<1>1. SUFFICES ASSUME T # {} PROVE FALSE
  OBVIOUS
<1>2. IsWellFoundedOn(R, Nat)
  BY LessWF
<1>3. T \subseteq Nat
  OBVIOUS
<1> HIDE DEF T, R
<1>4. PICK x \in T : \A y \in T : <<y,x>> \notin R
  BY <1>1, <1>2, <1>3, WFMin, Zenon
<1>5. x \in Nat /\ x # 0
  BY DEF T
<1>6. x - 1 \in Nat /\ x - 1 + 1 = x
  BY <1>5
<1>7. x - 1 \notin T
  <2>1. <<x - 1, x>> \in Nat \X Nat /\ <<x - 1, x>>[1] < <<x - 1, x>>[2]
    BY <1>5, <1>6
  <2>2. <<x - 1, x>> \in R
    BY <2>1 DEF R
  <2> QED BY <1>4, <2>2
<1> QED BY <1>4, <1>6, <1>7 DEF T

\* The first k+1 values of the function that starts at a and goes on by F.
Starts(f, a, F, k) == f[0] = a /\ \A m \in 0..(k - 1) : f[m + 1] = F[f[m]]

\* Two functions that start alike agree as far as they both go.
LEMMA StartsUnique ==
  ASSUME NEW a, NEW F, NEW f, NEW g, NEW k \in Nat, NEW l \in Nat, Starts(f, a, F, k), Starts(g, a, F, l)
  PROVE  \A m \in Nat : m <= k /\ m <= l => f[m] = g[m]
<1> DEFINE S == {m \in Nat : m <= k /\ m <= l => f[m] = g[m]}
<1>1. 0 \in S
  BY DEF Starts
<1>2. ASSUME NEW m \in Nat, m \in S PROVE m + 1 \in S
  <2>1. SUFFICES ASSUME m + 1 <= k, m + 1 <= l PROVE f[m + 1] = g[m + 1]
    OBVIOUS
  <2>2. m \in 0..(k - 1) /\ m \in 0..(l - 1) /\ f[m] = g[m]
    BY <1>2, <2>1
  <2> QED BY <2>2 DEF Starts
<1>3. Nat \subseteq S
  <2> HIDE DEF S
  <2> QED BY <1>1, <1>2, SetInduction
<1> QED BY <1>3

\* g starts at a and goes on by F.
Iterates(g, a, F) == g[0] = a /\ \A n \in Nat : g[n + 1] = F[g[n]]

\* Iterating F from a defines a function on the naturals.
LEMMA IterateExists ==
  ASSUME NEW T, NEW a \in T, NEW F \in [T -> T]
  PROVE  \E g \in [Nat -> T] : Iterates(g, a, F)
<1> DEFINE S == {k \in Nat : \E f \in [Nat -> T] : Starts(f, a, F, k)}
<1>1. 0 \in S
  <2>1. [n \in Nat |-> a] \in [Nat -> T] /\ Starts([n \in Nat |-> a], a, F, 0)
    BY DEF Starts
  <2> QED BY <2>1
<1>2. ASSUME NEW k \in Nat, k \in S PROVE k + 1 \in S
  <2>1. PICK f \in [Nat -> T] : Starts(f, a, F, k)
    BY <1>2
  <2> DEFINE g == [f EXCEPT ![k + 1] = F[f[k]]]
  <2>2. g \in [Nat -> T] /\ g[k + 1] = F[f[k]] /\ \A m \in 0..k : g[m] = f[m]
    OBVIOUS
  <2>3. ASSUME NEW m \in 0..k PROVE g[m + 1] = F[g[m]]
    <3>1. CASE m = k
      BY <2>2, <3>1
    <3>2. CASE m # k
      <4>1. m \in 0..(k - 1) /\ m + 1 \in 0..k
        BY <3>2
      <4>2. f[m + 1] = F[f[m]]
        BY <2>1, <4>1 DEF Starts
      <4> QED BY <2>2, <4>1, <4>2
    <3> QED BY <3>1, <3>2
  <2>4. g[0] = a
    BY <2>1, <2>2 DEF Starts
  <2>5. (k + 1) - 1 = k
    OBVIOUS
  <2>6. Starts(g, a, F, k + 1)
    <3> HIDE DEF g
    <3> QED BY <2>3, <2>4, <2>5 DEF Starts
  <2>7. \E h \in [Nat -> T] : Starts(h, a, F, k + 1)
    <3> HIDE DEF g
    <3> QED BY <2>2, <2>6
  <2> QED BY <2>7
<1>3. \A k \in Nat : \E f \in [Nat -> T] : Starts(f, a, F, k)
  <2>1. Nat \subseteq S
    <3> HIDE DEF S
    <3> QED BY <1>1, <1>2, SetInduction
  <2> QED BY <2>1
<1> DEFINE G(k) == CHOOSE f \in [Nat -> T] : Starts(f, a, F, k)
           g == [k \in Nat |-> G(k)[k]]
<1>4. \A k \in Nat : G(k) \in [Nat -> T] /\ Starts(G(k), a, F, k)
  BY <1>3
<1> HIDE DEF G
<1>5. g \in [Nat -> T]
  BY <1>4
<1>6. g[0] = a
  BY <1>4 DEF Starts
<1>7. ASSUME NEW n \in Nat PROVE g[n + 1] = F[g[n]]
  <2>1. n + 1 \in Nat /\ n <= n /\ n <= n + 1 /\ n \in 0..((n + 1) - 1)
    OBVIOUS
  <2>2. G(n)[n] = G(n + 1)[n]
    BY <1>4, <2>1, StartsUnique
  <2>3. G(n + 1)[n + 1] = F[G(n + 1)[n]]
    BY <1>4, <2>1 DEF Starts
  <2> QED BY <2>1, <2>2, <2>3
<1>8. Iterates(g, a, F)
  <2> HIDE DEF g
  <2> QED BY <1>6, <1>7 DEF Iterates
<1> QED BY <1>5, <1>8

-----------------------------------------------------------------------------
\* f starts at a and goes on by another function at each of its N steps.
Steps(f, a, G, N) == f[0] = a /\ \A n \in 1..N : f[n] = G[n][f[n - 1]]

\* There is such a function for any N steps.
LEMMA StepsExist ==
  ASSUME NEW T, NEW a \in T, NEW N \in Nat, NEW G \in [1..N -> [T -> T]]
  PROVE  \E f \in [0..N -> T] : Steps(f, a, G, N)
<1> DEFINE S == {k \in Nat : k <= N => \E f \in [0..k -> T] : Steps(f, a, G, k)}
<1>1. 0 \in S
  <2>1. [n \in 0..0 |-> a] \in [0..0 -> T] /\ Steps([n \in 0..0 |-> a], a, G, 0)
    BY DEF Steps
  <2> QED BY <2>1
<1>2. ASSUME NEW k \in Nat, k \in S PROVE k + 1 \in S
  <2>1. SUFFICES ASSUME k + 1 <= N PROVE \E f \in [0..(k + 1) -> T] : Steps(f, a, G, k + 1)
    OBVIOUS
  <2>2. PICK f \in [0..k -> T] : Steps(f, a, G, k)
    BY <1>2, <2>1
  <2> DEFINE g == [n \in 0..(k + 1) |-> IF n <= k THEN f[n] ELSE G[k + 1][f[k]]]
  <2>3. k \in 0..k /\ k + 1 \in 1..N /\ f[k] \in T /\ G[k + 1] \in [T -> T]
    BY <2>1, <2>2
  <2>4. G[k + 1][f[k]] \in T
    BY <2>3
  <2>5. g \in [0..(k + 1) -> T]
    <3>1. ASSUME NEW n \in 0..(k + 1) PROVE g[n] \in T
      BY <2>2, <2>4
    <3> QED BY <3>1
  <2>6. g[k + 1] = G[k + 1][f[k]] /\ \A n \in 0..k : g[n] = f[n]
    OBVIOUS
  <2> HIDE DEF g
  <2>7. g[0] = a
    <3>1. 0 \in 0..k
      OBVIOUS
    <3> QED BY <2>2, <2>6, <3>1 DEF Steps
  <2>8. ASSUME NEW n \in 1..(k + 1) PROVE g[n] = G[n][g[n - 1]]
    <3>1. n - 1 \in 0..k
      OBVIOUS
    <3>2. CASE n = k + 1
      BY <2>6, <3>1, <3>2
    <3>3. CASE n # k + 1
      <4>1. n \in 1..k /\ n \in 0..k
        BY <3>3
      <4>2. f[n] = G[n][f[n - 1]]
        BY <2>2, <4>1 DEF Steps
      <4> QED BY <2>6, <3>1, <4>1, <4>2
    <3> QED BY <3>2, <3>3
  <2>9. Steps(g, a, G, k + 1)
    BY <2>7, <2>8 DEF Steps
  <2> QED BY <2>5, <2>9
<1>3. Nat \subseteq S
  <2> HIDE DEF S
  <2> QED BY <1>1, <1>2, SetInduction
<1> QED BY <1>3

\* Two such functions agree as far as they both go.
LEMMA StepsUnique ==
  ASSUME NEW a, NEW G, NEW f, NEW g, NEW k \in Nat, Steps(f, a, G, k), Steps(g, a, G, k)
  PROVE  \A n \in 0..k : f[n] = g[n]
<1> DEFINE S == {n \in Nat : n <= k => f[n] = g[n]}
<1>1. 0 \in S
  BY DEF Steps
<1>2. ASSUME NEW n \in Nat, n \in S PROVE n + 1 \in S
  <2>1. SUFFICES ASSUME n + 1 <= k PROVE f[n + 1] = g[n + 1]
    OBVIOUS
  <2>2. n + 1 \in 1..k /\ (n + 1) - 1 = n /\ f[n] = g[n]
    BY <1>2, <2>1
  <2> QED BY <2>2 DEF Steps
<1>3. Nat \subseteq S
  <2> HIDE DEF S
  <2> QED BY <1>1, <1>2, SetInduction
<1> QED BY <1>3
=============================================================================
