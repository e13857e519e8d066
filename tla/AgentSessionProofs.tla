------------------------- MODULE AgentSessionProofs -------------------------
(* Proofs about AgentSession and FrameCodec, for any header size, base,     *)
(* limit, payloads and scenarios, and any way to cut the bytes into chunks: *)
(* what the decoder finds is what was encoded, the transcript over the      *)
(* pipes is the one in memory, and the exit code tells what happened.       *)
EXTENDS AgentSession, NatRecursion, SequenceTheorems

-----------------------------------------------------------------------------
(* Sequences of sequences, joined *)

LEMMA Associative ==
  ASSUME NEW T, NEW s \in Seq(T), NEW t \in Seq(T), NEW u \in Seq(T)
  PROVE  (s \o t) \o u = s \o (t \o u)
OBVIOUS

\* f joins the sequences of ss one by one.
Joins(f, ss) == f[0] = <<>> /\ \A n \in 1..Len(ss) : f[n] = f[n - 1] \o ss[n]

LEMMA JoinsExist ==
  ASSUME NEW T, NEW ss \in Seq(Seq(T))
  PROVE  \E f \in [0..Len(ss) -> Seq(T)] : Joins(f, ss)
<1> DEFINE G == [n \in 1..Len(ss) |-> [s \in Seq(T) |-> s \o ss[n]]]
<1>1. Len(ss) \in Nat /\ <<>> \in Seq(T)
  OBVIOUS
<1>2. ASSUME NEW n \in 1..Len(ss) PROVE [s \in Seq(T) |-> s \o ss[n]] \in [Seq(T) -> Seq(T)]
  <2>1. ss[n] \in Seq(T)
    OBVIOUS
  <2>2. \A s \in Seq(T) : s \o ss[n] \in Seq(T)
    BY <2>1, ConcatProperties
  <2> QED BY <2>2
<1>3. G \in [1..Len(ss) -> [Seq(T) -> Seq(T)]]
  BY <1>2
<1>4. PICK f \in [0..Len(ss) -> Seq(T)] : Steps(f, <<>>, G, Len(ss))
  <2> HIDE DEF G
  <2> QED BY <1>1, <1>3, StepsExist, Zenon
<1>5. ASSUME NEW n \in 1..Len(ss) PROVE f[n] = f[n - 1] \o ss[n]
  <2>1. n - 1 \in 0..Len(ss)
    OBVIOUS
  <2>2. f[n - 1] \in Seq(T)
    BY <2>1
  <2>3. f[n] = G[n][f[n - 1]]
    <3> HIDE DEF G
    <3> QED BY <1>4 DEF Steps
  <2> QED BY <2>2, <2>3
<1> QED BY <1>4, <1>5 DEF Steps, Joins

LEMMA JoinsUnique ==
  ASSUME NEW ss, NEW f, NEW g, NEW k \in Nat, k <= Len(ss), Len(ss) \in Nat,
         f[0] = <<>> /\ \A n \in 1..k : f[n] = f[n - 1] \o ss[n],
         g[0] = <<>> /\ \A n \in 1..k : g[n] = g[n - 1] \o ss[n]
  PROVE  f[k] = g[k]
<1> DEFINE S == {n \in Nat : n <= k => f[n] = g[n]}
<1>1. 0 \in S
  OBVIOUS
<1>2. ASSUME NEW n \in Nat, n \in S PROVE n + 1 \in S
  <2>1. SUFFICES ASSUME n + 1 <= k PROVE f[n + 1] = g[n + 1]
    OBVIOUS
  <2>2. n + 1 \in 1..k /\ (n + 1) - 1 = n /\ f[n] = g[n]
    BY <1>2, <2>1
  <2> QED BY <2>2
<1>3. Nat \subseteq S
  <2> HIDE DEF S
  <2> QED BY <1>1, <1>2, SetInduction
<1> QED BY <1>3

\* What a function that joins ss ends with is what FlattenSeq returns.
LEMMA FlattenJoins ==
  ASSUME NEW T, NEW ss \in Seq(Seq(T)), NEW f \in [0..Len(ss) -> Seq(T)], Joins(f, ss)
  PROVE  FlattenSeq(ss) = f[Len(ss)]
<1> DEFINE N == Len(ss)
           D(h) == [i \in 1..N |-> IF i = 1 THEN ss[i] ELSE h[i - 1] \o ss[i]]
           H == CHOOSE h : h = D(h)
           g == [i \in 1..N |-> f[i]]
<1>1. N \in Nat
  OBVIOUS
<1>2. CASE N = 0
  <2>1. ss = <<>>
    BY <1>2
  <2> QED BY <1>2, <2>1 DEF FlattenSeq, Joins
<1>3. CASE N # 0
  <2>1. ASSUME NEW i \in 1..N PROVE g[i] = D(g)[i]
    <3>1. f[i] = f[i - 1] \o ss[i] /\ ss[i] \in Seq(T)
      BY DEF Joins
    <3>2. CASE i = 1
      <4>1. f[0] = <<>>
        BY DEF Joins
      <4>2. f[i] = ss[i]
        <5>1. <<>> \o ss[i] = ss[i]
          BY <3>1, ConcatEmptySeq, Zenon
        <5>2. i - 1 = 0
          BY <3>2
        <5> QED BY <3>1, <4>1, <5>1, <5>2, Zenon
      <4> QED BY <3>2, <4>2
    <3>3. CASE i # 1
      <4>1. i - 1 \in 1..N
        BY <3>3
      <4>2. g[i - 1] = f[i - 1] /\ g[i] = f[i]
        BY <4>1
      <4>3. D(g)[i] = g[i - 1] \o ss[i]
        <5> HIDE DEF g
        <5> QED BY <3>3
      <4> QED BY <3>1, <4>2, <4>3
    <3> QED BY <3>2, <3>3
  <2>2. g = D(g)
    BY <2>1
  <2>3. H = D(H)
    <3> HIDE DEF D, g
    <3> QED BY <2>2, Zenon
  <2>4. FlattenSeq(ss) = H[N]
    BY <1>3 DEF FlattenSeq
  <2> HIDE DEF H
  <2> DEFINE h == [n \in 0..N |-> IF n = 0 THEN <<>> ELSE H[n]]
  <2>5. ASSUME NEW n \in 1..N PROVE h[n] = h[n - 1] \o ss[n]
    <3>1. n - 1 \in 0..N /\ h[n] = H[n] /\ ss[n] \in Seq(T)
      OBVIOUS
    <3>2. D(H)[n] = IF n = 1 THEN ss[n] ELSE H[n - 1] \o ss[n]
      OBVIOUS
    <3>3. H[n] = IF n = 1 THEN ss[n] ELSE H[n - 1] \o ss[n]
      <4> HIDE DEF D
      <4> QED BY <2>3, <3>2
    <3>4. CASE n = 1
      <4>1. h[n - 1] = <<>>
        BY <3>4
      <4> QED BY <3>1, <3>3, <3>4, <4>1, ConcatEmptySeq
    <3>5. CASE n # 1
      <4>1. h[n - 1] = H[n - 1]
        BY <3>1, <3>5
      <4> QED BY <3>1, <3>3, <3>5, <4>1
    <3> QED BY <3>4, <3>5
  <2>6. h[0] = <<>> /\ h[N] = H[N]
    BY <1>1, <1>3
  <2>7. f[0] = <<>> /\ \A n \in 1..N : f[n] = f[n - 1] \o ss[n]
    BY DEF Joins
  <2>8. f[N] = h[N]
    <3> HIDE DEF h, H, N
    <3>1. N <= Len(ss) /\ Len(ss) \in Nat
      BY <1>1 DEF N
    <3>2. h[0] = <<>> /\ \A n \in 1..N : h[n] = h[n - 1] \o ss[n]
      BY <2>5, <2>6
    <3>3. f[0] = <<>> /\ \A n \in 1..N : f[n] = f[n - 1] \o ss[n]
      BY <2>7
    <3>4. N \in Nat /\ N <= Len(ss)
      BY <1>1, <3>1
    <3> QED BY <3>1, <3>2, <3>3, <3>4, JoinsUnique, ZenonT(30)
  <2> QED BY <2>4, <2>6, <2>8
<1> QED BY <1>2, <1>3

\* Joining one sequence of sequences after another joins what each of them gives.
LEMMA FlattenConcat ==
  ASSUME NEW T, NEW ss \in Seq(Seq(T)), NEW tt \in Seq(Seq(T))
  PROVE  /\ FlattenSeq(ss) \in Seq(T)
         /\ FlattenSeq(ss \o tt) = FlattenSeq(ss) \o FlattenSeq(tt)
<1> DEFINE M == Len(ss)
           N == Len(tt)
<1>1. PICK f \in [0..M -> Seq(T)] : Joins(f, ss)
  BY JoinsExist, Zenon
<1>2. PICK g \in [0..N -> Seq(T)] : Joins(g, tt)
  BY JoinsExist, Zenon
<1>3. FlattenSeq(ss) = f[M] /\ FlattenSeq(tt) = g[N]
  BY <1>1, <1>2, FlattenJoins, Zenon
<1>4. M \in Nat /\ N \in Nat /\ M \in 0..M /\ N \in 0..N /\ 0 \in 0..M /\ 0 \in 0..N
  OBVIOUS
<1>5. f[M] \in Seq(T)
  BY <1>4
<1>6. ss \o tt \in Seq(Seq(T)) /\ Len(ss \o tt) = M + N
  BY ConcatProperties
<1> DEFINE h == [n \in 0..(M + N) |-> IF n <= M THEN f[n] ELSE f[M] \o g[n - M]]
<1>7. ASSUME NEW n \in 0..(M + N) PROVE h[n] \in Seq(T)
  <2>1. CASE n <= M
    <3>1. n \in 0..M
      BY <1>4, <2>1
    <3> QED BY <2>1, <3>1
  <2>2. CASE ~(n <= M)
    <3>1. n - M \in 0..N
      BY <1>4, <2>2
    <3>2. g[n - M] \in Seq(T)
      BY <3>1
    <3> QED BY <1>5, <2>2, <3>2, ConcatProperties
  <2> QED BY <2>1, <2>2
<1>8. h \in [0..Len(ss \o tt) -> Seq(T)]
  BY <1>6, <1>7
<1>9. /\ \A n \in 0..(M + N) : n <= M => h[n] = f[n]
      /\ \A n \in 0..(M + N) : ~(n <= M) => h[n] = f[M] \o g[n - M]
  OBVIOUS
<1>10. /\ \A n \in 1..(M + N) : (ss \o tt)[n] = IF n <= M THEN ss[n] ELSE tt[n - M]
       /\ \A n \in 1..N : tt[n] \in Seq(T)
  BY ConcatProperties
<1>11. /\ f[0] = <<>> /\ \A n \in 1..M : f[n] = f[n - 1] \o ss[n]
       /\ g[0] = <<>> /\ \A n \in 1..N : g[n] = g[n - 1] \o tt[n]
  BY <1>1, <1>2 DEF Joins
<1>12. \A n \in 0..N : g[n] \in Seq(T)
  OBVIOUS
<1> DEFINE st == ss \o tt
<1>13. /\ \A n \in 1..(M + N) : n <= M => st[n] = ss[n]
       /\ \A n \in 1..(M + N) : ~(n <= M) => st[n] = tt[n - M]
  BY <1>10
<1> HIDE DEF h, M, N, st
<1>14. h[0] = <<>>
  <2>1. 0 \in 0..(M + N) /\ 0 <= M
    BY <1>4
  <2> QED BY <1>9, <1>11, <2>1
<1>15. ASSUME NEW n \in 1..(M + N) PROVE h[n] = h[n - 1] \o st[n]
  <2>1. n \in 0..(M + N) /\ n - 1 \in 0..(M + N)
    BY <1>4
  <2>2. CASE n <= M
    <3>1. n \in 1..M /\ n - 1 <= M
      BY <1>4, <2>2
    <3>2. f[n] = f[n - 1] \o ss[n]
      BY <1>11, <3>1, Zenon
    <3>3. h[n] = f[n] /\ h[n - 1] = f[n - 1] /\ st[n] = ss[n]
      BY <1>9, <1>13, <2>1, <2>2, <3>1, Zenon
    <3> QED BY <3>2, <3>3, Zenon
  <2>3. CASE ~(n <= M)
    <3>1. n - M \in 1..N /\ (n - M) - 1 \in 0..N
      BY <1>4, <2>3
    <3>2. g[n - M] = g[(n - M) - 1] \o tt[n - M]
      BY <1>11, <3>1, Zenon
    <3>3. g[(n - M) - 1] \in Seq(T) /\ tt[n - M] \in Seq(T)
      BY <1>10, <1>12, <3>1, Zenon
    <3>4. h[n] = f[M] \o g[n - M] /\ st[n] = tt[n - M]
      <4>1. h[n] = f[M] \o g[n - M]
        BY <1>9, <2>1, <2>3, Zenon
      <4>2. st[n] = tt[n - M]
        BY <1>13, <2>3, Zenon
      <4> QED BY <4>1, <4>2
    <3>5. (f[M] \o g[(n - M) - 1]) \o tt[n - M] = f[M] \o (g[(n - M) - 1] \o tt[n - M])
      <4> DEFINE x == f[M]
                 y == g[(n - M) - 1]
                 z == tt[n - M]
      <4>1. x \in Seq(T) /\ y \in Seq(T) /\ z \in Seq(T)
        BY <1>5, <3>3
      <4> HIDE DEF x, y, z
      <4>2. (x \o y) \o z = x \o (y \o z)
        BY <4>1, Associative, SMTT(30)
      <4> QED BY <4>2 DEF x, y, z
    <3>6. h[n - 1] = f[M] \o g[(n - M) - 1]
      <4>1. CASE n - 1 <= M
        <5>1. n - 1 = M /\ (n - M) - 1 = 0
          BY <1>4, <2>3, <4>1
        <5>2. f[M] \o <<>> = f[M]
          BY <1>5, ConcatEmptySeq, Zenon
        <5>3. h[n - 1] = f[n - 1]
          BY <1>9, <2>1, <4>1, Zenon
        <5> QED BY <1>11, <5>1, <5>2, <5>3, Zenon
      <4>2. CASE ~(n - 1 <= M)
        <5>1. (n - 1) - M = (n - M) - 1
          BY <1>4
        <5>2. h[n - 1] = f[M] \o g[(n - 1) - M]
          BY <1>9, <2>1, <4>2, Zenon
        <5> QED BY <5>1, <5>2, Zenon
      <4> QED BY <4>1, <4>2, Zenon
    <3> QED BY <3>2, <3>4, <3>5, <3>6, Zenon
  <2> QED BY <2>2, <2>3, Zenon
<1>16. Joins(h, st)
  <2>1. Len(st) = M + N
    BY <1>6 DEF st
  <2> QED BY <1>14, <1>15, <2>1 DEF Joins
<1>17. FlattenSeq(st) = h[M + N]
  <2>1. st \in Seq(Seq(T)) /\ Len(st) = M + N /\ h \in [0..Len(st) -> Seq(T)]
    BY <1>6, <1>8 DEF st
  <2>2. FlattenSeq(st) = h[Len(st)]
    BY <1>16, <2>1, FlattenJoins, Zenon
  <2> QED BY <2>1, <2>2, Zenon
<1>18. h[M + N] = f[M] \o g[N]
  <2>1. CASE N = 0
    <3>1. g[N] = <<>> /\ M + N = M /\ M \in 0..(M + N) /\ M <= M
      BY <1>4, <1>11, <2>1
    <3>2. f[M] \o <<>> = f[M]
      BY <1>5, ConcatEmptySeq, Zenon
    <3>3. h[M] = f[M]
      BY <1>9, <3>1, Zenon
    <3> QED BY <3>1, <3>2, <3>3, Zenon
  <2>2. CASE N # 0
    <3>1. ~(M + N <= M) /\ (M + N) - M = N /\ M + N \in 0..(M + N)
      BY <1>4, <2>2
    <3>2. h[M + N] = f[M] \o g[(M + N) - M]
      BY <1>9, <3>1, Zenon
    <3> QED BY <3>1, <3>2, Zenon
  <2> QED BY <2>1, <2>2, Zenon
<1> QED BY <1>3, <1>5, <1>17, <1>18 DEF st

LEMMA FlattenSmall ==
  ASSUME NEW T, NEW s \in Seq(T)
  PROVE  FlattenSeq(<<>>) = <<>> /\ FlattenSeq(<<s>>) = s
<1>1. FlattenSeq(<<>>) = <<>>
  BY DEF FlattenSeq
<1>2. FlattenSeq(<<s>>) = s
  <2>1. <<s>> \in Seq(Seq(T)) /\ Len(<<s>>) = 1
    OBVIOUS
  <2>2. PICK f \in [0..Len(<<s>>) -> Seq(T)] : Joins(f, <<s>>)
    BY <2>1, JoinsExist, Zenon
  <2>3. FlattenSeq(<<s>>) = f[Len(<<s>>)]
    BY <2>1, <2>2, FlattenJoins, Zenon
  <2>4. f[0] = <<>> /\ f[1] = f[1 - 1] \o <<s>>[1] /\ 1 - 1 = 0
    <3>1. 1 \in 1..Len(<<s>>) /\ 1 - 1 = 0
      BY <2>1
    <3>2. f[0] = <<>> /\ \A n \in 1..Len(<<s>>) : f[n] = f[n - 1] \o <<s>>[n]
      BY <2>2, Zenon DEF Joins
    <3> QED BY <3>1, <3>2, Zenon
  <2>5. <<s>>[1] = s
    OBVIOUS
  <2>6. f[1] = s
    BY <2>4, <2>5, ConcatEmptySeq
  <2> QED BY <2>1, <2>3, <2>6
<1> QED BY <1>1, <1>2

LEMMA IsConcat ==
  ASSUME NEW T, NEW a \in Seq(T), NEW b \in Seq(T), NEW c \in Seq(T), Len(c) = Len(a) + Len(b),
         \A n \in 1..Len(a) : c[n] = a[n],
         \A n \in 1..Len(b) : c[Len(a) + n] = b[n]
  PROVE  c = a \o b
<1>1. /\ a \o b \in Seq(T) /\ Len(a \o b) = Len(a) + Len(b)
      /\ \A n \in 1..(Len(a) + Len(b)) : (a \o b)[n] = IF n <= Len(a) THEN a[n] ELSE b[n - Len(a)]
  BY ConcatProperties
<1>2. Len(a) \in Nat /\ Len(b) \in Nat
  OBVIOUS
<1>3. ASSUME NEW n \in 1..Len(c) PROVE c[n] = (a \o b)[n]
  <2>1. CASE n <= Len(a)
    BY <1>1, <1>2, <2>1
  <2>2. CASE ~(n <= Len(a))
    <3>1. n - Len(a) \in 1..Len(b) /\ Len(a) + (n - Len(a)) = n
      BY <1>2, <2>2
    <3>2. c[n] = b[n - Len(a)]
      BY <3>1
    <3> QED BY <1>1, <2>2, <3>2
  <2> QED BY <2>1, <2>2
<1> QED BY <1>1, <1>3, SeqEqual

\* What F makes of each element of ss, in their order; and that joined.
Mapped(F, ss) == [n \in DOMAIN ss |-> F[ss[n]]]
JoinedOf(F, ss) == FlattenSeq(Mapped(F, ss))
Maps(F, S, T) == F \in [S -> T]

LEMMA MapTyped ==
  ASSUME NEW S, NEW T, NEW F, Maps(F, S, T)
  PROVE  \A ss \in Seq(S) : Mapped(F, ss) \in Seq(T) /\ Len(Mapped(F, ss)) = Len(ss)
<1> TAKE ss \in Seq(S)
<1>1. \A n \in DOMAIN ss : F[ss[n]] \in T
  BY DEF Maps
<1>2. DOMAIN ss = 1..Len(ss) /\ Len(ss) \in Nat
  OBVIOUS
<1> QED BY <1>1, <1>2 DEF Mapped

LEMMA MapConcat ==
  ASSUME NEW S, NEW T, NEW F, Maps(F, S, T), NEW ss \in Seq(S), NEW tt \in Seq(S)
  PROVE  Mapped(F, ss \o tt) = Mapped(F, ss) \o Mapped(F, tt)
<1> DEFINE a == Mapped(F, ss)
           b == Mapped(F, tt)
           st == ss \o tt
           c == Mapped(F, st)
<1>1. a \in Seq(T) /\ b \in Seq(T) /\ Len(a) = Len(ss) /\ Len(b) = Len(tt)
  BY MapTyped
<1>2. /\ st \in Seq(S) /\ Len(st) = Len(ss) + Len(tt)
      /\ \A n \in 1..Len(ss) : st[n] = ss[n]
      /\ \A n \in 1..Len(tt) : st[Len(ss) + n] = tt[n]
  <2>1. Len(ss) \in Nat /\ Len(tt) \in Nat
    OBVIOUS
  <2>2. /\ st \in Seq(S) /\ Len(st) = Len(ss) + Len(tt)
        /\ \A n \in 1..(Len(ss) + Len(tt)) :
             st[n] = IF n <= Len(ss) THEN ss[n] ELSE tt[n - Len(ss)]
    BY ConcatProperties
  <2> HIDE DEF st
  <2>3. ASSUME NEW n \in 1..Len(tt) PROVE st[Len(ss) + n] = tt[n]
    <3>1. Len(ss) + n \in 1..(Len(ss) + Len(tt)) /\ ~(Len(ss) + n <= Len(ss))
          /\ (Len(ss) + n) - Len(ss) = n
      BY <2>1
    <3> QED BY <2>2, <3>1
  <2>4. ASSUME NEW n \in 1..Len(ss) PROVE st[n] = ss[n]
    <3>1. n \in 1..(Len(ss) + Len(tt)) /\ n <= Len(ss)
      BY <2>1
    <3> QED BY <2>2, <3>1
  <2> QED BY <2>2, <2>3, <2>4
<1>3. c \in Seq(T) /\ Len(c) = Len(a) + Len(b)
  <2> HIDE DEF st, a, b
  <2>1. st \in Seq(S)
    BY <1>2
  <2>2. c \in Seq(T) /\ Len(c) = Len(st)
    BY <2>1, MapTyped
  <2> QED BY <1>1, <1>2, <2>2
<1>4. ASSUME NEW n \in 1..Len(ss) PROVE c[n] = a[n]
  <2>1. n \in DOMAIN st /\ n \in DOMAIN ss /\ st[n] = ss[n]
    BY <1>2
  <2> HIDE DEF st
  <2> QED BY <2>1 DEF Mapped
<1>5. ASSUME NEW n \in 1..Len(tt) PROVE c[Len(ss) + n] = b[n]
  <2>1. Len(ss) + n \in DOMAIN st /\ n \in DOMAIN tt /\ st[Len(ss) + n] = tt[n]
    BY <1>2
  <2> HIDE DEF st
  <2> QED BY <2>1 DEF Mapped
<1>6. c = a \o b
  <2> HIDE DEF a, b, c
  <2>1. /\ \A n \in 1..Len(a) : c[n] = a[n]
        /\ \A n \in 1..Len(b) : c[Len(a) + n] = b[n]
    BY <1>1, <1>4, <1>5
  <2>2. Len(c) = Len(a) + Len(b) /\ a \in Seq(T) /\ b \in Seq(T) /\ c \in Seq(T)
    BY <1>1, <1>3
  <2> QED BY <2>1, <2>2, IsConcat
<1> QED BY <1>6

\* Joining is a homomorphism from concatenation to concatenation.
LEMMA JoinedFacts ==
  ASSUME NEW S, NEW T, NEW F, Maps(F, S, Seq(T))
  PROVE  /\ JoinedOf(F, <<>>) = <<>>
         /\ \A s \in S : JoinedOf(F, <<s>>) = F[s]
         /\ \A ss \in Seq(S) : JoinedOf(F, ss) \in Seq(T)
         /\ \A ss, tt \in Seq(S) :
              JoinedOf(F, ss \o tt) = JoinedOf(F, ss) \o JoinedOf(F, tt)
<1>1. JoinedOf(F, <<>>) = <<>>
  <2>1. Mapped(F, <<>>) = <<>>
    BY DEF Mapped
  <2> QED BY <2>1 DEF JoinedOf, FlattenSeq
<1>2. ASSUME NEW s \in S PROVE JoinedOf(F, <<s>>) = F[s]
  <2>1. Mapped(F, <<s>>) = <<F[s]>>
    BY DEF Mapped
  <2>2. F[s] \in Seq(T)
    BY DEF Maps
  <2>3. FlattenSeq(<<F[s]>>) = F[s]
    BY <2>2, FlattenSmall
  <2> QED BY <2>1, <2>3 DEF JoinedOf
<1>3. ASSUME NEW ss \in Seq(S), NEW tt \in Seq(S)
      PROVE  /\ JoinedOf(F, ss) \in Seq(T)
             /\ JoinedOf(F, ss \o tt) = JoinedOf(F, ss) \o JoinedOf(F, tt)
  <2>1. Mapped(F, ss) \in Seq(Seq(T)) /\ Mapped(F, tt) \in Seq(Seq(T))
    BY MapTyped
  <2>2. Mapped(F, ss \o tt) = Mapped(F, ss) \o Mapped(F, tt)
    BY MapConcat
  <2>3. /\ FlattenSeq(Mapped(F, ss)) \in Seq(T)
        /\ FlattenSeq(Mapped(F, ss) \o Mapped(F, tt))
             = FlattenSeq(Mapped(F, ss)) \o FlattenSeq(Mapped(F, tt))
    BY <2>1, FlattenConcat
  <2> QED BY <2>2, <2>3 DEF JoinedOf
<1> QED BY <1>1, <1>2, <1>3

-----------------------------------------------------------------------------
(* Headers *)

\* A number is its last digit and the number before it.
LEMMA DigitFacts ==
  ASSUME NEW x \in Nat
  PROVE  x \div Base \in Nat /\ x % Base \in Byte /\ Base * (x \div Base) + (x % Base) = x
<1>1. Base \in Nat /\ Base > 0
  BY CodecAssumption
<1>2. x % Base \in 0..(Base - 1)
  BY <1>1
<1>3. x \div Base \in Int /\ x \div Base >= 0
  BY <1>1
<1> DEFINE p == Base * (x \div Base)
<1>4. x % Base = x - p
  BY <1>1
<1>5. p \in Int
  BY <1>1, <1>3
<1> HIDE DEF p
<1>6. p + (x % Base) = x
  BY <1>4, <1>5
<1>7. x \div Base \in Nat
  BY <1>3
<1> QED BY <1>2, <1>6, <1>7 DEF Byte, p

LEMMA BytesJoined ==
  /\ \A s, t \in Seq(Byte) : s \o t \in Seq(Byte)
  /\ <<>> \in Seq(Byte) /\ \A s \in Seq(Byte) : s \o <<>> = s /\ <<>> \o s = s
<1>1. \A s, t \in Seq(Byte) : s \o t \in Seq(Byte)
  BY ConcatProperties
<1>2. <<>> \in Seq(Byte) /\ \A s \in Seq(Byte) : s \o <<>> = s /\ <<>> \o s = s
  BY ConcatEmptySeq
<1> QED BY <1>1, <1>2

LEMMA BytesAssociative ==
  \A s, t, u \in Seq(Byte) : (s \o t) \o u = s \o (t \o u)
<1> TAKE s, t, u \in Seq(Byte)
<1> QED BY Associative

\* The same as a named fact, for terms in which the provers would lose their way.
Joined3(s, t, u) == (s \o t) \o u = s \o (t \o u)

LEMMA ThreeJoined == \A s, t, u \in Seq(Byte) : Joined3(s, t, u)
BY BytesAssociative DEF Joined3

LEMMA BytesCancel ==
  /\ \A s, t, u \in Seq(Byte) : s \o u = t \o u => s = t
  /\ \A s, t \in Seq(Byte) : s \o t = <<>> => s = <<>> /\ t = <<>>
BY ConcatSimplifications

LEMMA ShiftedFacts ==
  ASSUME NEW length \in Nat
  PROVE  /\ Shifted(length) \in [0..HeaderSize -> Nat] /\ Shifted(length)[0] = length
         /\ \A k \in 1..HeaderSize : Shifted(length)[k] = Shifted(length)[k - 1] \div Base
<1> DEFINE G == [n \in 1..HeaderSize |-> [x \in Nat |-> x \div Base]]
           D(h) == [k \in 0..HeaderSize |-> IF k = 0 THEN length ELSE h[k - 1] \div Base]
           H == Shifted(length)
<1>1. HeaderSize \in Nat /\ length \in Nat
  BY CodecAssumption
<1>2. G \in [1..HeaderSize -> [Nat -> Nat]]
  BY DigitFacts
<1>3. PICK f \in [0..HeaderSize -> Nat] : Steps(f, length, G, HeaderSize)
  <2> HIDE DEF G
  <2> QED BY <1>1, <1>2, StepsExist, Zenon
<1>4. ASSUME NEW k \in 0..HeaderSize PROVE f[k] = D(f)[k]
  <2>1. CASE k = 0
    BY <1>3, <2>1 DEF Steps
  <2>2. CASE k # 0
    <3>1. k \in 1..HeaderSize /\ k - 1 \in 0..HeaderSize
      BY <1>1, <2>2
    <3>2. f[k] = G[k][f[k - 1]]
      <4> HIDE DEF G
      <4> QED BY <1>3, <3>1 DEF Steps
    <3>3. f[k - 1] \in Nat
      BY <3>1
    <3>4. f[k] = f[k - 1] \div Base
      BY <3>1, <3>2, <3>3
    <3> QED BY <2>2, <3>4
  <2> QED BY <2>1, <2>2
<1>5. f = D(f)
  BY <1>3, <1>4
<1>6. H = D(H)
  BY <1>5 DEF Shifted
<1> HIDE DEF H
<1>7. H[0] = length /\ \A k \in 1..HeaderSize : H[k] = H[k - 1] \div Base
  <2>1. D(H)[0] = length
    BY <1>1
  <2>2. ASSUME NEW k \in 1..HeaderSize PROVE D(H)[k] = H[k - 1] \div Base
    <3>1. k \in 0..HeaderSize /\ k # 0
      BY <1>1
    <3> QED BY <3>1
  <2> HIDE DEF D
  <2> QED BY <1>6, <2>1, <2>2
<1> DEFINE S == {k \in Nat : k <= HeaderSize => H[k] \in Nat}
<1>8. 0 \in S
  BY <1>7
<1>9. ASSUME NEW k \in Nat, k \in S PROVE k + 1 \in S
  <2>1. SUFFICES ASSUME k + 1 <= HeaderSize PROVE H[k + 1] \in Nat
    OBVIOUS
  <2>2. k + 1 \in 1..HeaderSize /\ (k + 1) - 1 = k /\ H[k] \in Nat
    BY <1>1, <1>9, <2>1
  <2>3. H[k + 1] = H[k] \div Base
    BY <1>7, <2>2
  <2> QED BY <2>2, <2>3, DigitFacts
<1>10. Nat \subseteq S
  <2> HIDE DEF S
  <2> QED BY <1>8, <1>9, SetInduction
<1>11. H \in [0..HeaderSize -> Nat]
  <2>1. \A k \in 0..HeaderSize : H[k] \in Nat
    BY <1>1, <1>10
  <2>2. DOMAIN H = 0..HeaderSize /\ H = [k \in DOMAIN H |-> H[k]]
    BY <1>6
  <2> QED BY <2>1, <2>2
<1> QED BY <1>7, <1>11 DEF H

\* frame_length reads a header digit by digit.
LEMMA LengthSteps ==
  ASSUME NEW header \in Seq(Byte), NEW f \in [0..Len(header) -> Nat], f[0] = 0,
         \A n \in 1..Len(header) : f[n] = Base * f[n - 1] + header[n]
  PROVE  frame_length(header) = f[Len(header)]
<1> DEFINE N == Len(header)
           D(h) == [n \in 0..N |-> IF n = 0 THEN 0 ELSE Base * h[n - 1] + header[n]]
           H == CHOOSE h : h = D(h)
<1>1. N \in Nat
  OBVIOUS
<1>2. ASSUME NEW n \in 0..N PROVE f[n] = D(f)[n]
  <2>1. CASE n = 0
    BY <2>1
  <2>2. CASE n # 0
    <3>1. n \in 1..N
      BY <1>1, <2>2
    <3> QED BY <2>2, <3>1
  <2> QED BY <2>1, <2>2
<1>3. f = D(f)
  BY <1>2
<1>4. H = D(H)
  <2> HIDE DEF D
  <2> QED BY <1>3, Zenon
<1>5. frame_length(header) = H[N]
  BY DEF frame_length
<1> HIDE DEF H
<1>6. H[0] = 0 /\ \A n \in 1..N : H[n] = Base * H[n - 1] + header[n]
  <2>1. D(H)[0] = 0
    BY <1>1
  <2>2. ASSUME NEW n \in 1..N PROVE D(H)[n] = Base * H[n - 1] + header[n]
    <3>1. n \in 0..N /\ n # 0
      BY <1>1
    <3> QED BY <3>1
  <2> HIDE DEF D
  <2> QED BY <1>4, <2>1, <2>2
<1> DEFINE S == {n \in Nat : n <= N => H[n] = f[n]}
<1>7. 0 \in S
  BY <1>6
<1>8. ASSUME NEW n \in Nat, n \in S PROVE n + 1 \in S
  <2>1. SUFFICES ASSUME n + 1 <= N PROVE H[n + 1] = f[n + 1]
    OBVIOUS
  <2>2. n + 1 \in 1..N /\ (n + 1) - 1 = n /\ H[n] = f[n]
    BY <1>1, <1>8, <2>1
  <2> QED BY <1>6, <2>2
<1>9. Nat \subseteq S
  <2> HIDE DEF S
  <2> QED BY <1>7, <1>8, SetInduction
<1> QED BY <1>1, <1>5, <1>9

\* A header tells the length it was made of.
LEMMA HeaderFacts ==
  ASSUME NEW m \in Messages
  PROVE  \E header \in Seq(Byte) :
           /\ Len(header) = HeaderSize /\ frame_length(header) = Len(Payload[m])
           /\ Encoded(m) = header \o Payload[m] /\ Payload[m] \in Seq(Byte)
<1> DEFINE l == Len(Payload[m])
           Q == Shifted(l)
           header == [n \in 1..HeaderSize |-> Q[HeaderSize - n] % Base]
           f == [n \in 0..HeaderSize |-> Q[HeaderSize - n]]
<1>1. Payload[m] \in Seq(Byte) /\ Q[HeaderSize] = 0
  BY SessionAssumption DEF Packable
<1>2. l \in Nat /\ HeaderSize \in Nat
  BY <1>1, CodecAssumption
<1>3. /\ Q \in [0..HeaderSize -> Nat] /\ Q[0] = l
      /\ \A k \in 1..HeaderSize : Q[k] = Q[k - 1] \div Base
  <2> HIDE DEF l
  <2> QED BY <1>2, ShiftedFacts
<1>4. Encoded(m) = header \o Payload[m]
  BY DEF Encoded, encode_frame
<1> HIDE DEF l, Q
<1>5. ASSUME NEW n \in 1..HeaderSize PROVE header[n] = Q[HeaderSize - n] % Base /\ header[n] \in Byte
  <2>1. HeaderSize - n \in 0..HeaderSize
    BY <1>2
  <2>2. Q[HeaderSize - n] \in Nat
    BY <1>3, <2>1
  <2>3. header[n] = Q[HeaderSize - n] % Base
    OBVIOUS
  <2> QED BY <2>2, <2>3, DigitFacts
<1>6. header \in Seq(Byte) /\ Len(header) = HeaderSize
  <2>1. header \in [1..HeaderSize -> Byte]
    BY <1>5
  <2> HIDE DEF header
  <2> QED BY <1>2, <2>1
<1>7. f \in [0..HeaderSize -> Nat] /\ f[0] = 0 /\ f[HeaderSize] = l
  <2>1. ASSUME NEW n \in 0..HeaderSize PROVE Q[HeaderSize - n] \in Nat
    <3>1. HeaderSize - n \in 0..HeaderSize
      BY <1>2
    <3> QED BY <1>3, <3>1
  <2>2. f[0] = Q[HeaderSize] /\ f[HeaderSize] = Q[0]
    BY <1>2
  <2> QED BY <1>1, <1>3, <2>1, <2>2
<1>8. ASSUME NEW n \in 1..HeaderSize PROVE f[n] = Base * f[n - 1] + header[n]
  <2>1. /\ n - 1 \in 0..HeaderSize /\ n \in 0..HeaderSize
        /\ HeaderSize - (n - 1) \in 1..HeaderSize
        /\ (HeaderSize - (n - 1)) - 1 = HeaderSize - n
        /\ HeaderSize - n \in 0..HeaderSize
    BY <1>2
  <2>2. f[n] = Q[HeaderSize - n] /\ f[n - 1] = Q[HeaderSize - (n - 1)]
    BY <2>1
  <2>3. Q[HeaderSize - (n - 1)] = Q[HeaderSize - n] \div Base
    BY <1>3, <2>1
  <2>4. Q[HeaderSize - n] \in Nat
    BY <1>3, <2>1
  <2>5. Base * (Q[HeaderSize - n] \div Base) + (Q[HeaderSize - n] % Base) = Q[HeaderSize - n]
    BY <2>4, DigitFacts
  <2> HIDE DEF header, f
  <2> QED BY <1>5, <2>2, <2>3, <2>5
<1>9. frame_length(header) = l
  <2> HIDE DEF header, f
  <2>1. frame_length(header) = f[Len(header)]
    BY <1>6, <1>7, <1>8, LengthSteps
  <2> QED BY <1>6, <1>7, <2>1
<1>10. /\ Len(header) = HeaderSize /\ frame_length(header) = Len(Payload[m])
       /\ Encoded(m) = header \o Payload[m] /\ Payload[m] \in Seq(Byte)
  <2> HIDE DEF header
  <2> QED BY <1>1, <1>4, <1>6, <1>9 DEF l
<1> HIDE DEF header
<1> QED BY <1>6, <1>10

\* Whatever the bytes before the next frame are cut to: when the header is there, it tells
\* the length of the message, and when the frame is, it is the message and the rest is what
\* follows it.
LEMMA StreamHead ==
  ASSUME NEW m \in Messages, NEW b \in Seq(Byte), NEW r \in Seq(Byte), NEW w \in Seq(Byte),
         b \o r = Encoded(m) \o w
  PROVE  /\ TooLarge(b) => Len(Payload[m]) > MaxFrameSize
         /\ HasFrame(b) => /\ Frame(b) = Payload[m]
                           /\ Rest(b) \in Seq(Byte) /\ Rest(b) \o r = w
                           /\ b = Encoded(m) \o Rest(b)
         /\ r = <<>> => HasFrame(b) \/ TooLarge(b)
<1>1. PICK header \in Seq(Byte) :
           /\ Len(header) = HeaderSize /\ frame_length(header) = Len(Payload[m])
           /\ Encoded(m) = header \o Payload[m] /\ Payload[m] \in Seq(Byte)
  BY HeaderFacts
<1> DEFINE p == Payload[m]
           l == Len(p)
           H == HeaderSize
           hp == header \o p
           s == hp \o w
           q == SubSeq(b, H + l + 1, Len(b))
<1>2. H \in Nat /\ l \in Nat /\ p \in Seq(Byte) /\ Len(b) \in Nat /\ Len(r) \in Nat /\ Len(w) \in Nat
  BY <1>1, CodecAssumption
<1>3. /\ hp \in Seq(Byte) /\ Len(hp) = H + l
      /\ \A i \in 1..(H + l) : hp[i] = IF i <= H THEN header[i] ELSE p[i - H]
  <2> HIDE DEF p
  <2> QED BY <1>1, <1>2, ConcatProperties, ZenonT(30)
<1>4. /\ s \in Seq(Byte) /\ Len(s) = H + l + Len(w)
      /\ \A i \in 1..(H + l + Len(w)) : s[i] = IF i <= H + l THEN hp[i] ELSE w[i - (H + l)]
  <2> HIDE DEF hp, p, l
  <2>1. /\ s \in Seq(Byte) /\ Len(s) = Len(hp) + Len(w)
        /\ \A i \in 1..(Len(hp) + Len(w)) : s[i] = IF i <= Len(hp) THEN hp[i] ELSE w[i - Len(hp)]
    BY <1>2, <1>3, ConcatProperties
  <2> QED BY <1>3, <2>1
<1>5. s = b \o r
  BY <1>1
<1> HIDE DEF hp, s, p, l
<1>6. /\ Len(s) = Len(b) + Len(r)
      /\ \A i \in 1..(Len(b) + Len(r)) : s[i] = IF i <= Len(b) THEN b[i] ELSE r[i - Len(b)]
  BY <1>5, ConcatProperties
<1>7. ASSUME HasHeader(b) PROVE Length(b) = l
  <2>1. H <= Len(b)
    BY <1>7 DEF HasHeader
  <2>2. SubSeq(b, 1, H) \in Seq(Byte) /\ Len(SubSeq(b, 1, H)) = H
        /\ \A i \in 1..H : SubSeq(b, 1, H)[i] = b[i]
    BY <1>2, <2>1
  <2>3. \A i \in 1..H : b[i] = header[i]
    <3>1. TAKE i \in 1..H
    <3>2. i \in 1..(H + l) /\ i \in 1..(H + l + Len(w)) /\ i \in 1..(Len(b) + Len(r))
          /\ i <= Len(b) /\ i <= H /\ i <= H + l
      BY <1>2, <2>1
    <3>3. s[i] = b[i]
      BY <1>6, <3>2
    <3>4. s[i] = hp[i] /\ hp[i] = header[i]
      BY <1>3, <1>4, <3>2
    <3> QED BY <3>3, <3>4
  <2>4. SubSeq(b, 1, H) = header
    <3>1. \A i \in 1..H : SubSeq(b, 1, H)[i] = header[i]
      BY <2>2, <2>3
    <3> QED BY <1>1, <2>2, <3>1, SeqEqual
  <2> QED BY <1>1, <2>4 DEF Length, l, p
<1>8. ASSUME HasFrame(b)
      PROVE  Frame(b) = p /\ Rest(b) \in Seq(Byte) /\ Rest(b) \o r = w
  <2>1. Length(b) = l /\ H + l <= Len(b)
    BY <1>7, <1>8 DEF HasFrame
  <2>2. Frame(b) = SubSeq(b, H + 1, H + l) /\ Rest(b) = q
    BY <2>1 DEF Frame, Rest
  <2>3. SubSeq(b, H + 1, H + l) = p
    <3> DEFINE t == SubSeq(b, H + 1, H + l)
    <3>1. t \in Seq(Byte) /\ Len(t) = l /\ \A i \in 1..l : t[i] = b[H + i]
      BY <1>2, <2>1
    <3> HIDE DEF t
    <3>2. \A i \in 1..l : t[i] = p[i]
      <4>1. TAKE i \in 1..l
      <4>2. /\ H + i \in 1..(H + l) /\ H + i \in 1..(H + l + Len(w))
            /\ H + i \in 1..(Len(b) + Len(r)) /\ H + i <= Len(b) /\ H + i <= H + l
            /\ ~(H + i <= H) /\ (H + i) - H = i
        BY <1>2, <2>1
      <4>3. s[H + i] = b[H + i]
        BY <1>6, <4>2
      <4>4. s[H + i] = hp[H + i] /\ hp[H + i] = p[i]
        BY <1>3, <1>4, <4>2
      <4> QED BY <3>1, <4>3, <4>4
    <3>3. t = p
      BY <1>2, <3>1, <3>2, SeqEqual DEF l
    <3> QED BY <3>3 DEF t
  <2>4. /\ q \in Seq(Byte) /\ Len(q) = Len(b) - (H + l)
        /\ \A i \in 1..(Len(b) - (H + l)) : q[i] = b[H + l + i]
    BY <1>2, <2>1
  <2> HIDE DEF q
  <2>5. w = q \o r
    <3>1. Len(w) = Len(q) + Len(r)
      <4>1. H + l + Len(w) = Len(b) + Len(r) /\ Len(q) = Len(b) - (H + l)
        BY <1>4, <1>6, <2>4
      <4> QED BY <1>2, <4>1
    <3>2. ASSUME NEW i \in 1..Len(q) PROVE w[i] = q[i]
      <4>1. /\ H + l + i \in 1..(H + l + Len(w)) /\ H + l + i \in 1..(Len(b) + Len(r))
            /\ H + l + i <= Len(b) /\ ~(H + l + i <= H + l) /\ (H + l + i) - (H + l) = i
            /\ i \in 1..(Len(b) - (H + l))
        BY <1>2, <2>1, <2>4, <3>1
      <4>2. s[H + l + i] = w[i]
        BY <1>4, <4>1
      <4>3. s[H + l + i] = b[H + l + i]
        BY <1>6, <4>1
      <4> QED BY <2>4, <4>1, <4>2, <4>3
    <3>3. ASSUME NEW i \in 1..Len(r) PROVE w[Len(q) + i] = r[i]
      <4>1. /\ Len(b) + i \in 1..(H + l + Len(w)) /\ Len(b) + i \in 1..(Len(b) + Len(r))
            /\ ~(Len(b) + i <= Len(b)) /\ ~(Len(b) + i <= H + l)
            /\ (Len(b) + i) - (H + l) = Len(q) + i /\ (Len(b) + i) - Len(b) = i
        BY <1>2, <1>4, <1>6, <2>1, <2>4
      <4>2. s[Len(b) + i] = w[Len(q) + i]
        BY <1>4, <4>1
      <4>3. s[Len(b) + i] = r[i]
        BY <1>6, <4>1
      <4> QED BY <4>2, <4>3
    <3> QED BY <2>4, <3>1, <3>2, <3>3, IsConcat
  <2> QED BY <2>2, <2>3, <2>4, <2>5
<1>9. ASSUME TooLarge(b) PROVE l > MaxFrameSize
  BY <1>7, <1>9 DEF TooLarge
<1>10. ASSUME r = <<>>, ~TooLarge(b) PROVE HasFrame(b)
  <2>1. Len(b) >= H + l
    BY <1>2, <1>4, <1>6, <1>10
  <2>2. HasHeader(b)
    BY <1>2, <2>1 DEF HasHeader
  <2> QED BY <1>7, <1>10, <2>1, <2>2 DEF HasFrame
<1>11. ASSUME HasFrame(b) PROVE b = Encoded(m) \o Rest(b)
  <2> DEFINE e == Encoded(m)
             t == Rest(b)
             et == e \o t
  <2>1. e \in Seq(Byte)
    BY <1>1, <1>3 DEF hp, p
  <2>2. t \in Seq(Byte) /\ t \o r = w /\ b \o r = e \o w
    BY <1>8, <1>11
  <2> HIDE DEF e, t
  <2>3. et \in Seq(Byte)
    BY <2>1, <2>2, ConcatProperties
  <2>4. et \o r = b \o r
    <3>1. t \in Seq(Byte) /\ r \in Seq(Byte)
      BY <2>2
    <3>2. (e \o t) \o r = e \o (t \o r)
      BY <2>1, <3>1, BytesAssociative, Zenon
    <3>3. e \o (t \o r) = e \o w
      BY <2>2, Zenon
    <3> QED BY <2>2, <3>2, <3>3, Zenon DEF et
  <2> HIDE DEF et
  <2>5. et = b
    BY <2>3, <2>4, ConcatSimplifications
  <2> QED BY <2>5 DEF e, t, et
<1> QED BY <1>8, <1>9, <1>10, <1>11 DEF l, p

-----------------------------------------------------------------------------
(* Messages on the wire *)

LEMMA WireFacts ==
  /\ Wire(<<>>) = <<>>
  /\ \A m \in Messages : Wire(<<m>>) = Encoded(m) /\ Encoded(m) \in Seq(Byte)
  /\ \A ms \in Seq(Messages) : Wire(ms) \in Seq(Byte)
  /\ \A ms, ns \in Seq(Messages) : Wire(ms \o ns) = Wire(ms) \o Wire(ns)
<1> DEFINE E == [m \in Messages |-> Encoded(m)]
<1>1. ASSUME NEW m \in Messages PROVE Encoded(m) \in Seq(Byte)
  <2>1. PICK header \in Seq(Byte) : Encoded(m) = header \o Payload[m] /\ Payload[m] \in Seq(Byte)
    BY HeaderFacts
  <2> QED BY <2>1, ConcatProperties
<1>2. Maps(E, Messages, Seq(Byte))
  BY <1>1 DEF Maps
<1>3. ASSUME NEW ms \in Seq(Messages) PROVE Wire(ms) = JoinedOf(E, ms)
  <2>1. \A n \in DOMAIN ms : ms[n] \in Messages
    OBVIOUS
  <2>2. [n \in DOMAIN ms |-> Encoded(ms[n])] = [n \in DOMAIN ms |-> E[ms[n]]]
    BY <2>1
  <2> QED BY <2>2 DEF Wire, JoinedOf, Mapped
<1>4. \A m \in Messages : E[m] = Encoded(m) /\ <<m>> \in Seq(Messages)
  OBVIOUS
<1> HIDE DEF E
<1>5. <<>> \in Seq(Messages) /\ \A ms, ns \in Seq(Messages) : ms \o ns \in Seq(Messages)
  BY ConcatProperties
<1>6. /\ JoinedOf(E, <<>>) = <<>>
      /\ \A m \in Messages : JoinedOf(E, <<m>>) = E[m]
      /\ \A ms \in Seq(Messages) : JoinedOf(E, ms) \in Seq(Byte)
      /\ \A ms, ns \in Seq(Messages) : JoinedOf(E, ms \o ns) = JoinedOf(E, ms) \o JoinedOf(E, ns)
  BY <1>2, JoinedFacts
<1> QED BY <1>1, <1>3, <1>4, <1>5, <1>6, ZenonT(30)

\* What the scenario sends after its first h messages, up to the k-th.
Between(h, k) == [n \in 1..(k - h) |-> scenario[h + n][1]]

LEMMA BetweenFacts ==
  ASSUME scenario \in Seq(Messages \X Nat), NEW h \in Nat, NEW k \in Nat, h <= k, k <= Len(scenario)
  PROVE  /\ Between(h, k) \in Seq(Messages) /\ Len(Between(h, k)) = k - h
         /\ \A n \in 1..Len(scenario) : scenario[n][1] \in Messages
         /\ h = k => Between(h, k) = <<>>
         /\ h < k => Between(h, k) = <<scenario[h + 1][1]>> \o Between(h + 1, k)
         /\ k < Len(scenario) => Between(h, k + 1) = Between(h, k) \o <<scenario[k + 1][1]>>
<1>1. ASSUME NEW n \in 1..Len(scenario) PROVE scenario[n][1] \in Messages
  <2>1. scenario[n] \in Messages \X Nat
    OBVIOUS
  <2> QED BY <2>1
<1>2. ASSUME NEW i \in Nat, NEW j \in Nat, i <= j, j <= Len(scenario)
      PROVE  /\ Between(i, j) \in Seq(Messages) /\ Len(Between(i, j)) = j - i
             /\ \A n \in 1..(j - i) : Between(i, j)[n] = scenario[i + n][1]
  <2>1. \A n \in 1..(j - i) : i + n \in 1..Len(scenario)
    BY <1>2
  <2>2. j - i \in Nat
    BY <1>2
  <2>3. Between(i, j) \in [1..(j - i) -> Messages]
    <3>1. \A n \in 1..(j - i) : scenario[i + n][1] \in Messages
      BY <1>1, <2>1
    <3> QED BY <3>1 DEF Between
  <2>4. \A n \in 1..(j - i) : Between(i, j)[n] = scenario[i + n][1]
    BY DEF Between
  <2>5. Between(i, j) \in Seq(Messages) /\ Len(Between(i, j)) = j - i
    <3> DEFINE N == j - i
               B == Between(i, j)
    <3>1. N \in Nat /\ B \in [1..N -> Messages]
      BY <2>2, <2>3
    <3> HIDE DEF N, B
    <3>2. B \in Seq(Messages) /\ Len(B) = N
      BY <3>1
    <3> QED BY <3>2 DEF N, B
  <2> QED BY <2>4, <2>5
<1>3. ASSUME h < k PROVE Between(h, k) = <<scenario[h + 1][1]>> \o Between(h + 1, k)
  <2> DEFINE m == scenario[h + 1][1]
             a == <<m>>
             b == Between(h + 1, k)
             c == Between(h, k)
  <2>1. h + 1 \in Nat /\ h + 1 <= k /\ h + 1 \in 1..Len(scenario)
    BY <1>3
  <2>2. m \in Messages
    BY <1>1, <2>1
  <2>3. a \in Seq(Messages) /\ Len(a) = 1 /\ a[1] = m
    BY <2>2
  <2>4. /\ b \in Seq(Messages) /\ Len(b) = k - (h + 1)
        /\ \A n \in 1..(k - (h + 1)) : b[n] = scenario[(h + 1) + n][1]
    BY <1>2, <2>1
  <2>5. /\ c \in Seq(Messages) /\ Len(c) = k - h
        /\ \A n \in 1..(k - h) : c[n] = scenario[h + n][1]
    BY <1>2
  <2>6. c[1] = a[1]
    <3>1. 1 \in 1..(k - h)
      BY <1>3
    <3> QED BY <2>3, <2>5, <3>1
  <2>7. ASSUME NEW n \in 1..Len(b) PROVE c[1 + n] = b[n]
    <3>1. 1 + n \in 1..(k - h) /\ h + (1 + n) = (h + 1) + n /\ n \in 1..(k - (h + 1))
      BY <2>4
    <3> QED BY <2>4, <2>5, <3>1
  <2> HIDE DEF a, b, c, m
  <2>8. Len(c) = Len(a) + Len(b) /\ \A n \in 1..Len(a) : c[n] = a[n]
    BY <2>3, <2>4, <2>5, <2>6
  <2>9. \A n \in 1..Len(b) : c[Len(a) + n] = b[n]
    BY <2>3, <2>7
  <2>10. c = a \o b
    BY <2>3, <2>4, <2>5, <2>8, <2>9, IsConcat
  <2> QED BY <2>10 DEF a, b, c, m
<1>4. ASSUME k < Len(scenario) PROVE Between(h, k + 1) = Between(h, k) \o <<scenario[k + 1][1]>>
  <2> DEFINE m == scenario[k + 1][1]
             a == Between(h, k)
             b == <<m>>
             c == Between(h, k + 1)
  <2>1. k + 1 \in Nat /\ h <= k + 1 /\ k + 1 <= Len(scenario) /\ k + 1 \in 1..Len(scenario)
    BY <1>4
  <2>2. m \in Messages
    BY <1>1, <2>1
  <2>3. b \in Seq(Messages) /\ Len(b) = 1 /\ b[1] = m
    BY <2>2
  <2>4. /\ a \in Seq(Messages) /\ Len(a) = k - h
        /\ \A n \in 1..(k - h) : a[n] = scenario[h + n][1]
    BY <1>2
  <2>5. /\ c \in Seq(Messages) /\ Len(c) = (k + 1) - h
        /\ \A n \in 1..((k + 1) - h) : c[n] = scenario[h + n][1]
    BY <1>2, <2>1
  <2>6. c[(k - h) + 1] = m
    <3>1. (k - h) + 1 \in 1..((k + 1) - h) /\ h + ((k - h) + 1) = k + 1
      OBVIOUS
    <3> QED BY <2>5, <3>1
  <2>7. ASSUME NEW n \in 1..(k - h) PROVE c[n] = a[n]
    <3>1. n \in 1..((k + 1) - h)
      OBVIOUS
    <3> QED BY <2>4, <2>5, <3>1
  <2> HIDE DEF a, b, c, m
  <2>8. Len(c) = Len(a) + Len(b) /\ \A n \in 1..Len(a) : c[n] = a[n]
    BY <2>3, <2>4, <2>5, <2>7
  <2>9. \A n \in 1..Len(b) : c[Len(a) + n] = b[n]
    BY <2>3, <2>4, <2>6
  <2>10. c = a \o b
    BY <2>3, <2>4, <2>5, <2>8, <2>9, IsConcat
  <2> QED BY <2>10 DEF a, b, c, m
<1>5. Between(h, k) \in Seq(Messages) /\ Len(Between(h, k)) = k - h
  BY <1>2
<1>6. ASSUME h = k PROVE Between(h, k) = <<>>
  BY <1>5, <1>6
<1> QED BY <1>1, <1>3, <1>4, <1>5, <1>6

-----------------------------------------------------------------------------
(* The invariant *)

\* The replies of this step that the parent has not received.
Pending ==
  IF owed = 0 THEN <<>> ELSE IF step = 0 THEN <<"hello">> ELSE Handle(scenario[step][1])

\* The child handles what the scenario sends, in order: the bytes before it are those of
\* the messages it has not handled.
Feeding ==
  /\ Len(handled) <= step /\ handled = Between(0, Len(handled))
  /\ fed = Wire(handled) \o (child_buffer \o stdin)
  /\ (child_buffer \o stdin) \o unwritten = Wire(Between(Len(handled), step))
  /\ main \in {"recv", "done"} => unwritten = <<>>

\* On the way to recv() is what it waits for, or nothing yet; and nothing while the child
\* has messages to handle, of which the last one only can have a reply.
Answering ==
  /\ owed <= 1
  /\ \/ frames = <<>> /\ buffer \o stdout \in {<<>>, Wire(Pending)}
     \/ frames = Pending /\ buffer = <<>> /\ stdout = <<>>
  /\ serving = "start" => step = 0 /\ owed = 1 /\ frames = <<>> /\ buffer = <<>> /\ stdout = <<>>
  /\ Len(handled) < step =>
       /\ frames = <<>> /\ buffer = <<>> /\ stdout = <<>>
       /\ owed = Len(Handle(scenario[step][1]))
       /\ \A k \in (Len(handled) + 1)..(step - 1) : Handle(scenario[k][1]) = <<>>

\* The transcript lacks only the replies that are pending.
Recording ==
  /\ transcript \o Outs(Pending) = InMemory(Between(0, step))
  /\ main = "done" => step = Len(scenario) /\ owed = 0

SessionInv == TypeOK /\ Feeding /\ Answering /\ Recording /\ ExitCodes

-----------------------------------------------------------------------------
(* Messages and records *)

LEMMA HandleFacts ==
  ASSUME NEW m \in Messages
  PROVE  /\ Handle(m) \in Seq(Messages)
         /\ Handle(m) = <<>> \/ \E r \in Messages : Handle(m) = <<r>>
         /\ Len(Handle(m)) \in {0, 1} /\ (Len(Handle(m)) = 0 <=> Handle(m) = <<>>)
<1>1. {"ready", "decision", "error_fail", "error_unexpected"} \subseteq Messages
  BY SessionAssumption
<1>2. Handle(m) = <<>> \/ \E r \in {"ready", "decision", "error_fail", "error_unexpected"} :
                            Handle(m) = <<r>>
  BY DEF Handle
<1>3. Handle(m) = <<>> \/ \E r \in Messages : Handle(m) = <<r>>
  BY <1>1, <1>2
<1>4. CASE Handle(m) = <<>>
  BY <1>4
<1>5. CASE \E r \in Messages : Handle(m) = <<r>>
  <2>1. PICK r \in Messages : Handle(m) = <<r>>
    BY <1>5
  <2>2. Handle(m) \in Seq(Messages) /\ Len(Handle(m)) = 1 /\ Handle(m) # <<>>
    BY <2>1
  <2> QED BY <1>3, <2>2
<1> QED BY <1>3, <1>4, <1>5

LEMMA ScenarioFacts ==
  ASSUME scenario \in Scenarios
  PROVE  /\ scenario \in Seq(Messages \X Nat) /\ Len(scenario) \in Nat
         /\ \A k \in 1..Len(scenario) :
              /\ scenario[k] \in Messages \X Nat /\ scenario[k][1] \in Messages
              /\ scenario[k][2] = Len(Handle(scenario[k][1]))
<1>1. scenario \in Seq(Messages \X Nat) /\ Len(scenario) \in Nat
  BY SessionAssumption
<1>2. ASSUME NEW k \in 1..Len(scenario)
      PROVE  /\ scenario[k] \in Messages \X Nat /\ scenario[k][1] \in Messages
             /\ scenario[k][2] = Len(Handle(scenario[k][1]))
  <2>1. scenario[k] \in Messages \X Nat
    BY <1>1
  <2>2. k \in DOMAIN scenario
    BY <1>1
  <2>3. scenario[k][2] = Len(Handle(scenario[k][1]))
    BY <2>2, SessionAssumption
  <2> QED BY <2>1, <2>3
<1> QED BY <1>1, <1>2

LEMMA PendingFacts ==
  ASSUME TypeOK
  PROVE  /\ Pending \in Seq(Messages)
         /\ Pending = <<>> \/ \E r \in Messages : Pending = <<r>>
         /\ owed = 0 => Pending = <<>>
<1>1. step \in 0..Len(scenario) /\ scenario \in Scenarios
  BY DEF TypeOK
<1>2. "hello" \in Messages
  BY SessionAssumption
<1>3. CASE owed = 0 \/ step = 0
  BY <1>2, <1>3 DEF Pending
<1>4. CASE owed # 0 /\ step # 0
  <2>1. step \in 1..Len(scenario)
    BY <1>1, <1>4, ScenarioFacts
  <2>2. scenario[step][1] \in Messages
    BY <1>1, <2>1, ScenarioFacts
  <2>3. Pending = Handle(scenario[step][1])
    BY <1>4 DEF Pending
  <2> QED BY <1>4, <2>2, <2>3, HandleFacts
<1> QED BY <1>3, <1>4

Records == [direction: {"in", "out"}, message: Messages]

LEMMA RecordsJoined ==
  /\ \A s, t \in Seq(Records) : s \o t \in Seq(Records)
  /\ <<>> \in Seq(Records) /\ \A s \in Seq(Records) : s \o <<>> = s /\ <<>> \o s = s
<1>1. \A s, t \in Seq(Records) : s \o t \in Seq(Records)
  BY ConcatProperties
<1>2. <<>> \in Seq(Records) /\ \A s \in Seq(Records) : s \o <<>> = s /\ <<>> \o s = s
  BY ConcatEmptySeq
<1> QED BY <1>1, <1>2

LEMMA RecordsAssociative ==
  \A s, t, u \in Seq(Records) : (s \o t) \o u = s \o (t \o u)
<1> TAKE s, t, u \in Seq(Records)
<1> QED BY Associative

Regrouped(s, t, u, v) == ((s \o t) \o u) \o v = s \o (t \o (u \o v))

LEMMA FourRecords == \A s, t, u, v \in Seq(Records) : Regrouped(s, t, u, v)
<1>1. \A s, t, u \in Seq(Records) : Joined3(s, t, u)
  BY RecordsAssociative DEF Joined3
<1> TAKE a, b, c, d \in Seq(Records)
<1> DEFINE ab == a \o b
           cd == c \o d
<1>2. ab \in Seq(Records) /\ cd \in Seq(Records)
  BY RecordsJoined
<1> HIDE DEF ab, cd
<1>3. Joined3(ab, c, d) /\ Joined3(a, b, cd)
  BY <1>1, <1>2, Zenon
<1> QED BY <1>3 DEF ab, cd, Regrouped, Joined3

LEMMA OutsFacts ==
  /\ Outs(<<>>) = <<>>
  /\ \A m \in Messages : /\ Outs(<<m>>) = <<Record("out", m)>> /\ Outs(<<m>>) \in Seq(Records)
                          /\ Record("in", m) \in Records /\ Record("out", m) \in Records
  /\ \A m \in Messages : Outs(Handle(m)) \in Seq(Records)
  /\ \A m \in Messages :
       /\ Exchange(Record("in", m)) = <<Record("in", m)>> \o Outs(Handle(m))
       /\ Exchange(Record("in", m)) \in Seq(Records)
<1> DEFINE R == Records
<1>1. /\ Outs(<<>>) = <<>>
      /\ <<>> \in Seq(R) /\ \A r \in R : <<r>> \in Seq(R)
  BY DEF Outs
<1>2. ASSUME NEW m \in Messages
      PROVE  /\ Outs(<<m>>) = <<Record("out", m)>> /\ Outs(<<m>>) \in Seq(Records)
             /\ Record("in", m) \in Records /\ Record("out", m) \in Records
  <2>1. Record("in", m) \in Records /\ Record("out", m) \in Records
    BY DEF Record, Records
  <2>2. Outs(<<m>>) = <<Record("out", m)>>
    BY DEF Outs
  <2>3. <<Record("out", m)>> \in Seq(R)
    BY <1>1, <2>1, Zenon
  <2> QED BY <2>1, <2>2, <2>3, Zenon
<1>3. ASSUME NEW m \in Messages PROVE Outs(Handle(m)) \in Seq(Records)
  <2>1. CASE Handle(m) = <<>>
    BY <1>1, <2>1, Zenon
  <2>2. CASE \E r \in Messages : Handle(m) = <<r>>
    BY <1>2, <2>2, Zenon
  <2> QED BY <2>1, <2>2, HandleFacts
<1>4. ASSUME NEW m \in Messages
      PROVE  /\ Exchange(Record("in", m)) = <<Record("in", m)>> \o Outs(Handle(m))
             /\ Exchange(Record("in", m)) \in Seq(Records)
  <2>1. Exchange(Record("in", m)) = <<Record("in", m)>> \o Outs(Handle(m))
    BY DEF Exchange, Record
  <2>2. <<Record("in", m)>> \in Seq(Records)
    BY <1>1, <1>2, Zenon
  <2> QED BY <1>3, <2>1, <2>2, RecordsJoined
<1> QED BY <1>1, <1>2, <1>3, <1>4

\* What the messages ms and the replies to them add to a transcript.
Exchanges(ms) == FlattenSeq([n \in DOMAIN ms |-> Exchange(Record("in", ms[n]))])

LEMMA ExchangesFacts ==
  /\ Exchanges(<<>>) = <<>>
  /\ \A m \in Messages : Exchanges(<<m>>) = Exchange(Record("in", m))
  /\ \A ms \in Seq(Messages) : Exchanges(ms) \in Seq(Records)
  /\ \A ms, ns \in Seq(Messages) : Exchanges(ms \o ns) = Exchanges(ms) \o Exchanges(ns)
  /\ \A ms \in Seq(Messages) : InMemory(ms) = Outs(<<"hello">>) \o Exchanges(ms)
<1> DEFINE E == [m \in Messages |-> Exchange(Record("in", m))]
<1>1. Maps(E, Messages, Seq(Records))
  BY OutsFacts DEF Maps
<1>2. ASSUME NEW ms \in Seq(Messages) PROVE Exchanges(ms) = JoinedOf(E, ms)
  <2>1. \A n \in DOMAIN ms : ms[n] \in Messages
    OBVIOUS
  <2>2. [n \in DOMAIN ms |-> Exchange(Record("in", ms[n]))] = [n \in DOMAIN ms |-> E[ms[n]]]
    BY <2>1
  <2> QED BY <2>2 DEF Exchanges, JoinedOf, Mapped
<1>3. \A m \in Messages : E[m] = Exchange(Record("in", m)) /\ <<m>> \in Seq(Messages)
  OBVIOUS
<1> HIDE DEF E
<1>4. <<>> \in Seq(Messages) /\ \A ms, ns \in Seq(Messages) : ms \o ns \in Seq(Messages)
  BY ConcatProperties
<1>5. /\ JoinedOf(E, <<>>) = <<>>
      /\ \A m \in Messages : JoinedOf(E, <<m>>) = E[m]
      /\ \A ms \in Seq(Messages) : JoinedOf(E, ms) \in Seq(Records)
      /\ \A ms, ns \in Seq(Messages) : JoinedOf(E, ms \o ns) = JoinedOf(E, ms) \o JoinedOf(E, ns)
  BY <1>1, JoinedFacts
<1>6. \A ms \in Seq(Messages) : InMemory(ms) = Outs(<<"hello">>) \o Exchanges(ms)
  BY DEF InMemory, Exchanges
<1> QED BY <1>2, <1>3, <1>4, <1>5, <1>6, ZenonT(30)

-----------------------------------------------------------------------------
(* The initial state, and what a step leaves alone *)

LEMMA SessionInit == Init => SessionInv
<1> SUFFICES ASSUME Init PROVE SessionInv
  OBVIOUS
<1>1. scenario \in Seq(Messages \X Nat) /\ Len(scenario) \in Nat
  BY ScenarioFacts DEF Init
<1>2. TypeOK
  <2>1. <<>> \in Seq(Byte) /\ <<>> \in Seq(Messages)
        /\ <<>> \in Seq([direction: {"in", "out"}, message: Messages])
    OBVIOUS
  <2> QED BY <1>1, <2>1 DEF Init, TypeOK
<1>3. Between(0, 0) = <<>> /\ Len(<<>>) = 0
  BY DEF Between
<1>4. Feeding
  <2>1. (<<>> \o <<>>) \o <<>> = <<>> /\ <<>> \o (<<>> \o <<>>) = <<>>
    BY BytesJoined
  <2>2. Wire(<<>>) = <<>>
    BY WireFacts
  <2> QED BY <1>3, <2>1, <2>2 DEF Init, Feeding
<1>5. Answering
  <2>1. <<>> \o <<>> = <<>>
    BY BytesJoined
  <2> QED BY <1>3, <2>1 DEF Init, Answering
<1>6. Recording
  <2>1. Pending = <<"hello">> /\ "hello" \in Messages
    BY SessionAssumption DEF Init, Pending
  <2>2. Exchanges(<<>>) = <<>> /\ InMemory(<<>>) = Outs(<<"hello">>) \o Exchanges(<<>>)
    <3>1. <<>> \in Seq(Messages)
      OBVIOUS
    <3> QED BY <3>1, ExchangesFacts, Zenon
  <2>3. Outs(<<"hello">>) \in Seq(Records)
    BY <2>1, OutsFacts, Zenon
  <2>4. <<>> \o Outs(<<"hello">>) = Outs(<<"hello">>) \o <<>>
    BY <2>3, RecordsJoined, Zenon
  <2> QED BY <1>3, <2>1, <2>2, <2>4 DEF Init, Recording
<1>7. ExitCodes
  BY DEF Init, ExitCodes
<1> QED BY <1>2, <1>4, <1>5, <1>6, <1>7 DEF SessionInv

LEMMA FeedingKept ==
  ASSUME Feeding, main' = main \/ main' = "failed" \/ (main' = "done" /\ main = "recv"),
         UNCHANGED <<scenario, step, unwritten, stdin, child_buffer, handled, fed>>
  PROVE  Feeding'
BY DEF Feeding, Between

LEMMA PendingKept ==
  ASSUME UNCHANGED <<scenario, step, owed>>
  PROVE  Pending' = Pending
BY DEF Pending

LEMMA AnsweringKept ==
  ASSUME Answering, serving' = serving \/ serving' # "start",
         UNCHANGED <<scenario, step, owed, frames, buffer, stdout, handled>>
  PROVE  Answering'
<1>1. Pending' = Pending
  BY PendingKept
<1> QED BY <1>1 DEF Answering

LEMMA RecordingKept ==
  ASSUME Recording, main' # "done" \/ main' = main, UNCHANGED <<scenario, step, owed, transcript>>
  PROVE  Recording'
<1>1. Pending' = Pending /\ Between(0, step)' = Between(0, step)
  BY PendingKept DEF Between
<1> QED BY <1>1 DEF Recording

\* Once the child has ended or the parent died, nothing that the exit codes speak of
\* changes but by the child.
LEMMA ExitsKept ==
  ASSUME ExitCodes, ~alive => ~alive',
         UNCHANGED <<scenario, serving, handled>>,
         ~alive => UNCHANGED <<fed, unwritten>>
  PROVE  ExitCodes'
BY DEF ExitCodes

-----------------------------------------------------------------------------
(* The parent *)

LEMMA NextMessageSafe == SessionInv /\ NextMessage => SessionInv'
<1> SUFFICES ASSUME SessionInv, NextMessage PROVE SessionInv'
  OBVIOUS
<1> USE DEF SessionInv
<1>1. /\ alive /\ main = "recv" /\ owed = 0 /\ unwritten = <<>>
      /\ UNCHANGED <<scenario, frames, buffer, childVars, stdin, stdout, alive, fed>>
  BY DEF NextMessage, Answered, Feeding
<1>2. scenario \in Scenarios /\ step \in 0..Len(scenario) /\ Len(scenario) \in Nat /\ handled \in Seq(Messages)
  BY ScenarioFacts DEF TypeOK
<1>3. CASE step = Len(scenario)
  <2>1. main' = "done" /\ UNCHANGED <<step, owed, unwritten, transcript>>
    BY <1>3 DEF NextMessage
  <2>2. TypeOK'
    BY <1>1, <2>1 DEF TypeOK, childVars
  <2>3. Feeding'
    BY <1>1, <2>1, FeedingKept DEF childVars
  <2>4. Answering'
    BY <1>1, <2>1, AnsweringKept DEF childVars
  <2>5. Recording'
    <3>1. Pending' = Pending /\ Between(0, step)' = Between(0, step)
      BY <1>1, <2>1, PendingKept DEF Between
    <3> QED BY <1>1, <1>3, <2>1, <3>1 DEF Recording
  <2>6. ExitCodes'
    BY <1>1, <2>1, ExitsKept DEF childVars
  <2> QED BY <2>2, <2>3, <2>4, <2>5, <2>6
<1>4. CASE step # Len(scenario)
  <2> DEFINE m == scenario[step + 1][1]
             h == Len(handled)
  <2>1. /\ main' = "send" /\ step' = step + 1 /\ owed' = scenario[step + 1][2]
        /\ transcript' = Append(transcript, Record("in", m))
        /\ unwritten' = Encoded(m)
    BY <1>4 DEF NextMessage
  <2>2. /\ step + 1 \in 1..Len(scenario) /\ step \in Nat /\ step < Len(scenario) /\ step <= Len(scenario)
        /\ 0 <= step /\ step + 1 > 0 /\ step + 1 # 0
    BY <1>2, <1>4
  <2>3. m \in Messages /\ owed' = Len(Handle(m)) /\ owed' \in Nat
    <3>1. m \in Messages /\ scenario[step + 1][2] = Len(Handle(m))
      BY <1>2, <2>2, ScenarioFacts
    <3> QED BY <2>1, <3>1, HandleFacts
  <2>4. scenario \in Seq(Messages \X Nat) /\ h \in Nat /\ h <= step
    BY <1>2, ScenarioFacts DEF Feeding
  <2>5. TypeOK'
    <3>1. unwritten' \in Seq(Byte)
      BY <2>1, <2>3, WireFacts
    <3>2. transcript' \in Seq(Records)
      <4>1. transcript \in Seq(Records) /\ Record("in", m) \in Records
        BY <2>3, OutsFacts DEF TypeOK, Records
      <4> QED BY <2>1, <4>1
    <3>3. step' \in 0..Len(scenario')
      BY <1>1, <2>1, <2>2
    <3> QED BY <1>1, <2>1, <2>3, <3>1, <3>2, <3>3 DEF TypeOK, childVars, Records
  <2>6. Feeding'
    <3>1. /\ Between(h, step + 1) = Between(h, step) \o <<m>>
          /\ Between(h, step) \in Seq(Messages) /\ <<m>> \in Seq(Messages)
      <4> HIDE DEF h
      <4>1. Between(h, step + 1) = Between(h, step) \o <<m>> /\ Between(h, step) \in Seq(Messages)
        BY <2>2, <2>4, BetweenFacts
      <4>2. <<m>> \in Seq(Messages)
        BY <2>3
      <4> QED BY <4>1, <4>2, Zenon
    <3>2. Wire(Between(h, step + 1)) = Wire(Between(h, step)) \o Encoded(m)
      BY <2>3, <3>1, WireFacts, Zenon
    <3>3. (child_buffer \o stdin) \o Encoded(m) = Wire(Between(h, step)) \o Encoded(m)
      <4>1. child_buffer \o stdin \in Seq(Byte)
        BY BytesJoined DEF TypeOK
      <4>2. (child_buffer \o stdin) \o <<>> = Wire(Between(h, step))
        BY <1>1 DEF Feeding
      <4>3. child_buffer \o stdin = Wire(Between(h, step))
        BY <4>1, <4>2, BytesJoined, Zenon
      <4> QED BY <4>3, Zenon
    <3>4. Between(h, step)' = Between(h, step + 1) /\ Between(0, h)' = Between(0, h) /\ h' = h
      BY <1>1, <2>1 DEF Between, childVars
    <3>5. (child_buffer' \o stdin') \o unwritten' = Wire(Between(h, step)')
      BY <1>1, <2>1, <3>2, <3>3, <3>4, Zenon DEF childVars
    <3>6. h' <= step' /\ handled' = Between(0, h)' /\ fed' = Wire(handled') \o (child_buffer' \o stdin')
      BY <1>1, <2>1, <2>2, <2>4, <3>4 DEF Feeding, childVars
    <3>7. main' \notin {"recv", "done"}
      BY <2>1
    <3> QED BY <3>4, <3>5, <3>6, <3>7 DEF Feeding
  <2>7. serving # "start" /\ Pending = <<>>
    BY <1>1 DEF Answering, Pending
  <2>8. Pending' = Handle(m)
    <3>1. CASE owed' = 0
      BY <2>3, <3>1, HandleFacts DEF Pending
    <3>2. CASE owed' # 0
      BY <1>1, <2>1, <2>2, <3>2 DEF Pending
    <3> QED BY <3>1, <3>2
  <2>9. frames = <<>> /\ buffer = <<>> /\ stdout = <<>>
    <3>1. CASE frames = Pending /\ buffer = <<>> /\ stdout = <<>>
      BY <2>7, <3>1
    <3>2. CASE frames = <<>> /\ buffer \o stdout \in {<<>>, Wire(Pending)}
      <4>1. buffer \o stdout = <<>>
        BY <2>7, <3>2, WireFacts
      <4>2. buffer \in Seq(Byte) /\ stdout \in Seq(Byte)
        BY DEF TypeOK
      <4> QED BY <3>2, <4>1, <4>2, BytesCancel, Zenon
    <3> QED BY <3>1, <3>2 DEF Answering
  <2>10. Answering'
    <3>1. owed' <= 1
      <4>1. \A r \in Messages : Len(Handle(r)) \in {0, 1}
        BY HandleFacts
      <4>2. Len(Handle(m)) \in {0, 1}
        BY <2>3, <4>1, Zenon
      <4>3. owed' \in {0, 1}
        BY <2>3, <4>2, Zenon
      <4> QED BY <4>3
    <3>2. frames' = <<>> /\ buffer' = <<>> /\ stdout' = <<>> /\ buffer' \o stdout' = <<>>
      BY <1>1, <2>9, BytesJoined
    <3>3. serving' # "start"
      BY <1>1, <2>7 DEF childVars
    <3>4. owed' = Len(Handle(scenario'[step'][1]))
      BY <1>1, <2>1, <2>3
    <3>5. ASSUME NEW k \in (Len(handled') + 1)..(step' - 1)
          PROVE  Handle(scenario'[k][1]) = <<>>
      <4>1. k \in (h + 1)..step /\ h < step /\ k \in 1..Len(scenario)
        <5>1. Len(handled') = h /\ step' = step + 1
          BY <1>1, <2>1 DEF childVars
        <5>2. k \in (h + 1)..((step + 1) - 1)
          BY <3>5, <5>1
        <5> HIDE DEF h
        <5> QED BY <2>2, <2>4, <5>2
      <4>2. CASE k = step
        <5>1. Len(Handle(scenario[step][1])) = 0
          BY <1>1, <4>1 DEF Answering
        <5>2. scenario[step][1] \in Messages
          BY <1>2, <4>1, <4>2, ScenarioFacts
        <5>3. Handle(scenario[step][1]) = <<>>
          BY <5>1, <5>2, HandleFacts
        <5> QED BY <1>1, <4>2, <5>3
      <4>3. CASE k # step
        <5>1. k \in (h + 1)..(step - 1)
          BY <2>2, <2>4, <4>1, <4>3
        <5> QED BY <1>1, <4>1, <5>1 DEF Answering
      <4> QED BY <4>2, <4>3
    <3> QED BY <3>1, <3>2, <3>3, <3>4, <3>5 DEF Answering
  <2>11. Recording'
    <3>1. Between(0, step + 1) = Between(0, step) \o <<m>> /\ Between(0, step) \in Seq(Messages)
          /\ <<m>> \in Seq(Messages) /\ Between(0, step)' = Between(0, step + 1)
      <4>1. Between(0, step + 1) = Between(0, step) \o <<m>> /\ Between(0, step) \in Seq(Messages)
        BY <2>2, <2>4, BetweenFacts
      <4>2. Between(0, step)' = Between(0, step + 1)
        BY <1>1, <2>1 DEF Between
      <4>3. <<m>> \in Seq(Messages)
        BY <2>3
      <4> QED BY <4>1, <4>2, <4>3, Zenon
    <3> DEFINE X == Exchanges(Between(0, step))
               g == Outs(<<"hello">>)
               r == <<Record("in", m)>>
               q == Outs(Handle(m))
    <3>2. /\ InMemory(Between(0, step)) = g \o X
          /\ InMemory(Between(0, step + 1)) = g \o Exchanges(Between(0, step + 1))
          /\ Exchanges(Between(0, step + 1)) = X \o (r \o q)
      <4>1. Between(0, step + 1) \in Seq(Messages)
        BY <3>1, ConcatProperties
      <4>2. Exchanges(Between(0, step + 1)) = X \o Exchanges(<<m>>)
        BY <3>1, ExchangesFacts, Zenon
      <4>3. Exchanges(<<m>>) = r \o q
        BY <2>3, ExchangesFacts, OutsFacts, Zenon
      <4> QED BY <3>1, <4>1, <4>2, <4>3, ExchangesFacts, Zenon
    <3>3. X \in Seq(Records) /\ g \in Seq(Records) /\ r \in Seq(Records) /\ q \in Seq(Records)
      <4>1. "hello" \in Messages
        BY SessionAssumption
      <4>2. X \in Seq(Records)
        BY <3>1, ExchangesFacts, Zenon
      <4>3. g \in Seq(Records) /\ q \in Seq(Records) /\ Record("in", m) \in Records
        BY <2>3, <4>1, OutsFacts, Zenon
      <4> QED BY <4>2, <4>3
    <3>4. transcript = g \o X
      <4>1. transcript \in Seq(Records) /\ Outs(Pending) = <<>>
        BY <2>7, OutsFacts DEF TypeOK, Records
      <4>2. transcript \o <<>> = g \o X
        BY <3>2, <4>1 DEF Recording
      <4> QED BY <4>1, <4>2, RecordsJoined, Zenon
    <3>5. transcript' = (g \o X) \o r
      <4>1. transcript \in Seq(Records) /\ Record("in", m) \in Records
        BY <2>3, OutsFacts DEF TypeOK, Records
      <4>2. transcript' = transcript \o r
        BY <2>1, <4>1, AppendIsConcat
      <4> QED BY <3>4, <4>2, Zenon
    <3> HIDE DEF X, g, r, q
    <3>6. ((g \o X) \o r) \o q = g \o (X \o (r \o q))
      <4>1. Regrouped(g, X, r, q)
        BY <3>3, FourRecords, Zenon
      <4> QED BY <4>1 DEF Regrouped
    <3>7. Outs(Pending)' = q
      BY <2>8 DEF Outs, q
    <3>8. transcript' \o Outs(Pending)' = InMemory(Between(0, step)')
      BY <3>1, <3>2, <3>5, <3>6, <3>7, Zenon
    <3>9. main' # "done"
      BY <2>1
    <3> QED BY <3>8, <3>9 DEF Recording
  <2>12. ExitCodes'
    <3>1. alive /\ UNCHANGED <<scenario, serving, handled>>
      BY <1>1, Zenon DEF childVars
    <3> QED BY <3>1, ExitsKept
  <2> QED BY <2>5, <2>6, <2>10, <2>11, <2>12
<1> QED BY <1>3, <1>4

\* A chunk of s goes to the end of a: nothing between them is lost or overtaken.
LEMMA ChunkMoved ==
  ASSUME NEW a \in Seq(Byte), NEW s \in Seq(Byte), NEW n \in 1..Len(s)
  PROVE  /\ SubSeq(s, 1, n) \in Seq(Byte) /\ SubSeq(s, n + 1, Len(s)) \in Seq(Byte)
         /\ SubSeq(s, 1, n) \o SubSeq(s, n + 1, Len(s)) = s
         /\ a \o SubSeq(s, 1, n) \in Seq(Byte)
         /\ (a \o SubSeq(s, 1, n)) \o SubSeq(s, n + 1, Len(s)) = a \o s
         /\ n = Len(s) => SubSeq(s, n + 1, Len(s)) = <<>>
<1> DEFINE u == SubSeq(s, 1, n)
           v == SubSeq(s, n + 1, Len(s))
<1>1. Len(s) \in Nat /\ n \in Nat /\ n >= 1 /\ n <= Len(s)
  OBVIOUS
<1>2. u \in Seq(Byte)
  <2>1. \A i \in 1..n : s[i] \in Byte
    BY <1>1
  <2> QED BY <1>1, <2>1, SubSeqProperties
<1>3. v \in Seq(Byte)
  <2>1. \A i \in (n + 1)..Len(s) : s[i] \in Byte
    BY <1>1
  <2>2. n + 1 \in Int /\ Len(s) \in Int
    BY <1>1
  <2> QED BY <2>1, <2>2, SubSeqProperties
<1>4. u \o v = s
  <2>1. u \o v = SubSeq(s, 1, Len(s))
    <3>1. 1 \in 1..(Len(s) + 1) /\ n \in (1 - 1)..Len(s) /\ Len(s) \in n..Len(s)
      BY <1>1
    <3> QED BY <3>1, ConcatAdjacentSubSeq
  <2> QED BY <2>1, SubSeqFull
<1>5. ASSUME n = Len(s) PROVE v = <<>>
  <2>1. n + 1 \in Int /\ Len(s) \in Int /\ Len(s) < n + 1
    BY <1>1, <1>5
  <2> QED BY <2>1, SubSeqEmpty
<1> HIDE DEF u, v
<1>6. a \o u \in Seq(Byte) /\ (a \o u) \o v = a \o (u \o v)
  <2>1. a \o u \in Seq(Byte)
    BY <1>2, BytesJoined, Zenon
  <2>2. (a \o u) \o v = a \o (u \o v)
    BY <1>2, <1>3, BytesAssociative, Zenon
  <2> QED BY <2>1, <2>2
<1>7. (a \o u) \o v = a \o s
  BY <1>4, <1>6, Zenon
<1> QED BY <1>2, <1>3, <1>4, <1>5, <1>6, <1>7 DEF u, v

LEMMA WriteSafe == ASSUME NEW n \in Chunks, SessionInv, Write(n) PROVE SessionInv'
<1> USE DEF SessionInv
<1> DEFINE now == SubSeq(unwritten, 1, n)
           later == SubSeq(unwritten, n + 1, Len(unwritten))
           c == child_buffer \o stdin
           h == Wire(handled)
<1>1. /\ alive /\ main = "send" /\ n \in 1..Len(unwritten) /\ serving \in {"start", "serving"}
      /\ stdin' = stdin \o now /\ fed' = fed \o now /\ unwritten' = later
      /\ main' = IF n = Len(unwritten) THEN "recv" ELSE "send"
      /\ UNCHANGED <<scenario, step, owed, frames, buffer, transcript, childVars, stdout, alive>>
  BY DEF Write
<1>2. /\ unwritten \in Seq(Byte) /\ stdin \in Seq(Byte) /\ child_buffer \in Seq(Byte)
      /\ fed \in Seq(Byte) /\ handled \in Seq(Messages)
  BY DEF TypeOK
<1>3. /\ now \in Seq(Byte) /\ later \in Seq(Byte)
      /\ n = Len(unwritten) => later = <<>>
      /\ stdin \o now \in Seq(Byte) /\ fed \o now \in Seq(Byte)
  BY <1>1, <1>2, ChunkMoved
<1>4. c \in Seq(Byte) /\ h \in Seq(Byte) /\ fed = h \o c /\ c \o unwritten = Wire(Between(Len(handled), step))
  BY <1>2, BytesJoined, WireFacts DEF Feeding
<1>5. (c \o now) \o later = c \o unwritten
  <2> HIDE DEF c
  <2> QED BY <1>1, <1>2, <1>4, ChunkMoved, ZenonT(30)
<1>6. child_buffer \o (stdin \o now) = c \o now
  <2> HIDE DEF now
  <2>1. Joined3(child_buffer, stdin, now)
    BY <1>2, <1>3, ThreeJoined, Zenon
  <2> QED BY <2>1 DEF Joined3
<1>7. TypeOK'
  BY <1>1, <1>3 DEF TypeOK, childVars
<1>8. Feeding'
  <2> HIDE DEF now, later
  <2>1. (child_buffer' \o stdin') \o unwritten' = Wire(Between(Len(handled), step))
    <3> HIDE DEF c
    <3> QED BY <1>1, <1>4, <1>5, <1>6, Zenon DEF childVars
  <2>2. fed' = h \o (child_buffer' \o stdin')
    <3> HIDE DEF c, h
    <3>1. (h \o c) \o now = h \o (c \o now)
      <4>1. Joined3(h, c, now)
        BY <1>3, <1>4, ThreeJoined, Zenon
      <4> QED BY <4>1 DEF Joined3
    <3>2. fed' = (h \o c) \o now
      BY <1>1, <1>4, Zenon
    <3>3. child_buffer' \o stdin' = c \o now
      BY <1>1, <1>6, Zenon DEF childVars
    <3> QED BY <3>1, <3>2, <3>3, Zenon
  <2>3. main' \in {"recv", "done"} => unwritten' = <<>>
    <3>1. main' = "recv" => n = Len(unwritten)
      BY <1>1
    <3>2. main' # "done"
      BY <1>1
    <3>3. ASSUME n = Len(unwritten) PROVE unwritten' = <<>>
      <4>1. later = <<>>
        BY <1>3, <3>3
      <4>2. unwritten' = later
        BY <1>1
      <4> QED BY <4>1, <4>2
    <3> QED BY <3>1, <3>2, <3>3
  <2>4. /\ Len(handled) <= step /\ handled = Between(0, Len(handled))
        /\ UNCHANGED <<handled, step, scenario>>
    BY <1>1 DEF Feeding, childVars
  <2>5. Between(Len(handled), step)' = Between(Len(handled), step)
        /\ Between(0, Len(handled))' = Between(0, Len(handled))
    BY <2>4 DEF Between
  <2> HIDE DEF c
  <2> QED BY <2>1, <2>2, <2>3, <2>4, <2>5, Zenon DEF Feeding
<1>9. Answering'
  BY <1>1, AnsweringKept DEF childVars
<1>10. Recording'
  <2>1. main' # "done"
    BY <1>1
  <2> QED BY <1>1, <2>1, RecordingKept
<1>11. ExitCodes'
  BY <1>1 DEF ExitCodes, childVars
<1> QED BY <1>7, <1>8, <1>9, <1>10, <1>11

LEMMA RecvSafe == SessionInv /\ Recv => SessionInv'
<1> SUFFICES ASSUME SessionInv, Recv PROVE SessionInv'
  OBVIOUS
<1> USE DEF SessionInv
<1>1. /\ alive /\ main = "recv" /\ owed # 0 /\ frames # <<>>
      /\ frames' = Tail(frames) /\ owed' = owed - 1
      /\ transcript' = Append(transcript, Record("out", Head(frames)))
      /\ UNCHANGED <<scenario, step, main, unwritten, buffer, childVars, stdin, stdout, alive, fed>>
  BY DEF Recv, Answered
<1>2. owed = 1 /\ owed' = 0
  <2>1. owed \in Nat /\ owed <= 1
    BY DEF TypeOK, Answering
  <2> QED BY <1>1, <2>1
<1>3. frames = Pending /\ buffer = <<>> /\ stdout = <<>>
  BY <1>1 DEF Answering
<1>4. PICK p \in Messages : Pending = <<p>>
  BY <1>1, <1>3, PendingFacts
<1>5. frames' = <<>> /\ Head(frames) = p /\ Pending' = <<>>
  <2>1. frames = <<p>>
    BY <1>3, <1>4
  <2>2. Tail(frames) = <<>> /\ Head(frames) = p
    BY <2>1
  <2>3. Pending' = <<>>
    BY <1>2 DEF Pending
  <2> QED BY <1>1, <2>2, <2>3
<1>6. /\ transcript \in Seq(Records) /\ Record("out", p) \in Records
      /\ Outs(Pending) = <<Record("out", p)>> /\ Outs(Pending) \in Seq(Records)
      /\ Outs(Pending)' = <<>>
  <2>1. transcript \in Seq(Records)
    BY DEF TypeOK, Records
  <2>2. Record("out", p) \in Records /\ Outs(<<p>>) = <<Record("out", p)>> /\ Outs(<<p>>) \in Seq(Records)
    BY OutsFacts
  <2>3. Outs(Pending)' = <<>>
    BY <1>5 DEF Outs
  <2> QED BY <1>4, <2>1, <2>2, <2>3
<1>7. transcript' = transcript \o Outs(Pending) /\ transcript' \in Seq(Records)
  <2>1. transcript' = Append(transcript, Record("out", p))
    BY <1>1, <1>5
  <2>2. transcript' = transcript \o <<Record("out", p)>>
    BY <1>6, <2>1, AppendIsConcat
  <2>3. transcript' \in Seq(Records)
    BY <1>6, <2>1, AppendProperties
  <2> QED BY <1>6, <2>2, <2>3
<1>8. TypeOK'
  <2>1. frames' \in Seq(Messages) /\ owed' \in Nat
    BY <1>2, <1>5
  <2> QED BY <1>1, <1>7, <2>1 DEF TypeOK, childVars, Records
<1>9. Feeding'
  BY <1>1, FeedingKept DEF childVars
<1>10. Answering'
  <2>1. buffer' \o stdout' = <<>>
    BY <1>1, <1>3, BytesJoined
  <2>2. serving' # "start"
    BY <1>1 DEF Answering, childVars
  <2>3. ~(Len(handled') < step')
    BY <1>1 DEF Answering, childVars
  <2> QED BY <1>2, <1>5, <2>1, <2>2, <2>3 DEF Answering
<1>11. Recording'
  <2>1. transcript' \o Outs(Pending)' = transcript'
    BY <1>6, <1>7, RecordsJoined, Zenon
  <2>2. transcript' = InMemory(Between(0, step))
    BY <1>7 DEF Recording
  <2>3. Between(0, step)' = Between(0, step)
    BY <1>1 DEF Between
  <2>4. main' # "done"
    BY <1>1
  <2> QED BY <2>1, <2>2, <2>3, <2>4, Zenon DEF Recording
<1>12. ExitCodes'
  BY <1>1, ExitsKept DEF childVars
<1> QED BY <1>8, <1>9, <1>10, <1>11, <1>12

LEMMA FailSafe == SessionInv /\ Fail => SessionInv'
<1> SUFFICES ASSUME SessionInv, Fail PROVE SessionInv'
  OBVIOUS
<1> USE DEF SessionInv
<1>1. /\ alive /\ main' = "failed"
      /\ UNCHANGED <<scenario, step, owed, unwritten, frames, buffer, transcript, childVars, stdin,
                     stdout, alive, fed>>
  BY DEF Fail
<1>2. TypeOK'
  BY <1>1 DEF TypeOK, childVars
<1>3. Feeding'
  BY <1>1, FeedingKept DEF childVars
<1>4. Answering'
  BY <1>1, AnsweringKept DEF childVars
<1>5. Recording'
  <2>1. main' # "done"
    BY <1>1
  <2> QED BY <1>1, <2>1, RecordingKept
<1>6. ExitCodes'
  BY <1>1, ExitsKept DEF childVars
<1> QED BY <1>2, <1>3, <1>4, <1>5, <1>6

LEMMA DieSafe == SessionInv /\ Die => SessionInv'
<1> SUFFICES ASSUME SessionInv, Die PROVE SessionInv'
  OBVIOUS
<1> USE DEF SessionInv
<1>1. alive /\ alive' = FALSE /\ UNCHANGED <<parentVars, childVars, stdin, stdout, fed>>
  BY DEF Die
<1>2. TypeOK'
  BY <1>1 DEF TypeOK, childVars, parentVars
<1>3. Feeding'
  BY <1>1, FeedingKept DEF childVars, parentVars
<1>4. Answering'
  BY <1>1, AnsweringKept DEF childVars, parentVars
<1>5. Recording'
  <2>1. main' = main /\ UNCHANGED <<scenario, step, owed, transcript>>
    BY <1>1 DEF parentVars
  <2> QED BY <2>1, RecordingKept
<1>6. ExitCodes'
  BY <1>1, ExitsKept DEF childVars, parentVars
<1> QED BY <1>2, <1>3, <1>4, <1>5, <1>6

LEMMA ReadChunkSafe == ASSUME NEW n \in Chunks, SessionInv, ReadChunk(n) PROVE SessionInv'
<1> USE DEF SessionInv
<1> DEFINE now == SubSeq(stdout, 1, n)
           later == SubSeq(stdout, n + 1, Len(stdout))
<1>1. /\ alive /\ n \in 1..Len(stdout) /\ buffer' = buffer \o now /\ stdout' = later
      /\ UNCHANGED <<scenario, step, owed, main, unwritten, frames, transcript, childVars, stdin,
                     alive, fed>>
  BY DEF ReadChunk
<1>2. buffer \in Seq(Byte) /\ stdout \in Seq(Byte)
  BY DEF TypeOK
<1>3. /\ later \in Seq(Byte) /\ buffer \o now \in Seq(Byte)
      /\ (buffer \o now) \o later = buffer \o stdout
  BY <1>1, <1>2, ChunkMoved
<1> HIDE DEF now, later
<1>4. stdout # <<>>
  BY <1>1, <1>2
<1>5. TypeOK'
  BY <1>1, <1>3 DEF TypeOK, childVars
<1>6. Feeding'
  BY <1>1, FeedingKept DEF childVars
<1>7. Answering'
  <2>1. buffer' \o stdout' = buffer \o stdout
    BY <1>1, <1>3, Zenon
  <2>2. frames = <<>> /\ buffer \o stdout \in {<<>>, Wire(Pending)} /\ owed <= 1
    BY <1>4 DEF Answering
  <2>3. frames' = <<>> /\ buffer' \o stdout' \in {<<>>, Wire(Pending)'} /\ owed' <= 1
    <3>1. Pending' = Pending
      BY <1>1, PendingKept
    <3>2. Wire(Pending)' = Wire(Pending)
      BY <3>1 DEF Wire, Encoded
    <3> QED BY <1>1, <2>1, <2>2, <3>2
  <2>4. serving' # "start" /\ ~(Len(handled') < step')
    BY <1>1, <1>4 DEF Answering, childVars
  <2> QED BY <2>3, <2>4 DEF Answering
<1>8. Recording'
  BY <1>1, RecordingKept
<1>9. ExitCodes'
  BY <1>1, ExitsKept DEF childVars
<1> QED BY <1>5, <1>6, <1>7, <1>8, <1>9

\* A payload parses to the one message with that encoding.
LEMMA ParseFacts == \A m \in Messages : Parse(Payload[m]) = m
BY SessionAssumption DEF Parse

\* A frame that is all there is leaves nothing behind.
LEMMA FrameAlone ==
  ASSUME NEW m \in Messages, NEW b \in Seq(Byte), NEW r \in Seq(Byte),
         b \o r = Encoded(m), HasFrame(b)
  PROVE  Frame(b) = Payload[m] /\ Rest(b) = <<>> /\ r = <<>>
<1> DEFINE w == <<>>
<1>1. w \in Seq(Byte) /\ b \o r = Encoded(m) \o w
  <2>1. Encoded(m) \in Seq(Byte)
    BY WireFacts
  <2>2. Encoded(m) \o <<>> = Encoded(m) /\ <<>> \in Seq(Byte)
    BY <2>1, BytesJoined, Zenon
  <2> QED BY <2>2
<1> HIDE DEF w
<1>2. HasFrame(b) => /\ Frame(b) = Payload[m]
                     /\ Rest(b) \in Seq(Byte) /\ Rest(b) \o r = w
                     /\ b = Encoded(m) \o Rest(b)
  BY ONLY <1>1, m \in Messages, b \in Seq(Byte), r \in Seq(Byte), StreamHead
<1>3. Rest(b) \o r = <<>>
  BY <1>2 DEF w
<1> QED BY <1>2, <1>3, BytesCancel, Zenon

LEMMA ReadFrameSafe == SessionInv /\ ReadFrame => SessionInv'
<1> SUFFICES ASSUME SessionInv, ReadFrame PROVE SessionInv'
  OBVIOUS
<1> USE DEF SessionInv
<1>1. /\ alive /\ HasFrame(buffer)
      /\ frames' = Append(frames, Parse(Frame(buffer))) /\ buffer' = Rest(buffer)
      /\ UNCHANGED <<scenario, step, owed, main, unwritten, transcript, childVars, stdin, stdout,
                     alive, fed>>
  BY DEF ReadFrame
<1>2. buffer \in Seq(Byte) /\ stdout \in Seq(Byte) /\ buffer # <<>>
  <2>1. Len(buffer) >= HeaderSize /\ HeaderSize \in Nat /\ HeaderSize # 0
    BY <1>1, CodecAssumption DEF HasFrame, HasHeader
  <2>2. buffer # <<>>
    BY <2>1
  <2> QED BY <2>2 DEF TypeOK
<1>3. frames = <<>> /\ buffer \o stdout \in {<<>>, Wire(Pending)} /\ owed <= 1
  BY <1>2 DEF Answering
<1>4. buffer \o stdout = Wire(Pending) /\ Wire(Pending) # <<>>
  <2>1. buffer \o stdout # <<>>
    BY <1>2, BytesCancel
  <2> QED BY <1>3, <2>1
<1>5. PICK p \in Messages : Pending = <<p>>
  <2>1. Pending # <<>>
    BY <1>4, WireFacts
  <2> QED BY <2>1, PendingFacts
<1>6. buffer \o stdout = Encoded(p)
  BY <1>4, <1>5, WireFacts
<1>7. Frame(buffer) = Payload[p] /\ Rest(buffer) = <<>> /\ stdout = <<>>
  BY <1>1, <1>2, <1>6, FrameAlone
<1>8. buffer' = <<>> /\ stdout' = <<>> /\ frames' = <<p>>
  <2>1. Parse(Frame(buffer)) = p
    BY <1>7, ParseFacts
  <2> QED BY <1>1, <1>3, <1>7, <2>1
<1>9. TypeOK'
  <2>1. <<>> \in Seq(Byte) /\ <<p>> \in Seq(Messages)
    OBVIOUS
  <2> QED BY <1>1, <1>8, <2>1 DEF TypeOK, childVars
<1>10. Feeding'
  BY <1>1, FeedingKept DEF childVars
<1>11. Answering'
  <2>1. Pending' = <<p>>
    BY <1>1, <1>5, PendingKept
  <2>2. serving' # "start" /\ ~(Len(handled') < step')
    BY <1>1, <1>2 DEF Answering, childVars
  <2>3. owed' <= 1
    BY <1>1, <1>3
  <2> QED BY <1>8, <2>1, <2>2, <2>3 DEF Answering
<1>12. Recording'
  BY <1>1, RecordingKept
<1>13. ExitCodes'
  BY <1>1, ExitsKept DEF childVars
<1> QED BY <1>9, <1>10, <1>11, <1>12, <1>13

-----------------------------------------------------------------------------
(* The child *)

LEMMA HelloSafe == SessionInv /\ Hello => SessionInv'
<1> SUFFICES ASSUME SessionInv, Hello PROVE SessionInv'
  OBVIOUS
<1> USE DEF SessionInv
<1>1. /\ serving = "start" /\ Reply(<<"hello">>)
      /\ UNCHANGED <<parentVars, stdin, alive, child_buffer, handled, fed>>
  BY DEF Hello
<1>2. step = 0 /\ owed = 1 /\ frames = <<>> /\ buffer = <<>> /\ stdout = <<>>
  BY <1>1 DEF Answering
<1>3. "hello" \in Messages
  BY SessionAssumption
<1>4. /\ Pending = <<"hello">> /\ Pending' = <<"hello">>
      /\ Wire(Pending)' = Wire(<<"hello">>) /\ Wire(<<"hello">>) \in Seq(Byte)
  <2>1. Pending = <<"hello">> /\ Pending' = <<"hello">>
    BY <1>1, <1>2 DEF Pending, parentVars
  <2>2. Wire(<<"hello">>) \in Seq(Byte)
    <3>1. <<"hello">> \in Seq(Messages)
      BY <1>3
    <3> QED BY <3>1, WireFacts, Zenon
  <2>3. Wire(Pending)' = Wire(<<"hello">>)
    BY <2>1 DEF Wire, Encoded
  <2> QED BY <2>1, <2>2, <2>3
<1>5. \/ serving' = "serving" /\ stdout' = Wire(<<"hello">>)
      \/ serving' = "3" /\ ~alive /\ stdout' = <<>>
  <2>1. CASE alive
    <3>1. serving' = "serving" /\ stdout' = stdout \o Wire(<<"hello">>)
      BY <1>1, <2>1 DEF Reply
    <3>2. <<>> \o Wire(<<"hello">>) = Wire(<<"hello">>)
      BY <1>4, BytesJoined, Zenon
    <3> QED BY <1>2, <3>1, <3>2
  <2>2. CASE ~alive
    <3>1. <<"hello">> # <<>>
      OBVIOUS
    <3> QED BY <1>1, <1>2, <2>2, <3>1 DEF Reply, Exit
  <2> QED BY <2>1, <2>2
<1>6. TypeOK'
  <2>1. stdout' \in Seq(Byte) /\ serving' \in {"serving", "3"}
    BY <1>4, <1>5, BytesJoined
  <2> QED BY <1>1, <2>1 DEF TypeOK, parentVars
<1>7. Feeding'
  BY <1>1, FeedingKept DEF parentVars
<1>8. Answering'
  <2>1. buffer' \o stdout' \in {<<>>, Wire(Pending)'} /\ frames' = <<>>
    <3>1. buffer' = <<>> /\ frames' = <<>>
      BY <1>1, <1>2 DEF parentVars
    <3>2. <<>> \o Wire(<<"hello">>) = Wire(<<"hello">>) /\ <<>> \o <<>> = <<>>
      BY <1>4, BytesJoined, Zenon
    <3> QED BY <1>4, <1>5, <3>1, <3>2
  <2>2. serving' # "start" /\ owed' <= 1
    BY <1>1, <1>2, <1>5 DEF parentVars
  <2>3. ~(Len(handled') < step')
    BY <1>1, <1>2 DEF TypeOK, parentVars
  <2> QED BY <2>1, <2>2, <2>3 DEF Answering
<1>9. Recording'
  <2>1. main' = main /\ UNCHANGED <<scenario, step, owed, transcript>>
    BY <1>1 DEF parentVars
  <2> QED BY <2>1, RecordingKept
<1>10. ExitCodes'
  BY <1>1, <1>5 DEF ExitCodes
<1> QED BY <1>6, <1>7, <1>8, <1>9, <1>10

LEMMA ChildReadsSafe == ASSUME NEW n \in Chunks, SessionInv, ChildReads(n) PROVE SessionInv'
<1> USE DEF SessionInv
<1> DEFINE now == SubSeq(stdin, 1, n)
           later == SubSeq(stdin, n + 1, Len(stdin))
<1>1. /\ serving = "serving" /\ n \in 1..Len(stdin)
      /\ child_buffer' = child_buffer \o now /\ stdin' = later
      /\ UNCHANGED <<parentVars, serving, handled, stdout, alive, fed>>
  BY DEF ChildReads
<1>2. child_buffer \in Seq(Byte) /\ stdin \in Seq(Byte)
  BY DEF TypeOK
<1>3. /\ later \in Seq(Byte) /\ child_buffer \o now \in Seq(Byte)
      /\ (child_buffer \o now) \o later = child_buffer \o stdin
  BY <1>1, <1>2, ChunkMoved
<1> HIDE DEF now, later
<1>4. TypeOK'
  BY <1>1, <1>3 DEF TypeOK, parentVars
<1>5. Feeding'
  <2>1. child_buffer' \o stdin' = child_buffer \o stdin
    BY <1>1, <1>3, Zenon
  <2>2. UNCHANGED <<scenario, step, unwritten, main, handled, fed>>
    BY <1>1 DEF parentVars
  <2>3. Between(Len(handled), step)' = Between(Len(handled), step)
        /\ Between(0, Len(handled))' = Between(0, Len(handled))
    BY <2>2 DEF Between
  <2>4. Wire(Between(Len(handled), step))' = Wire(Between(Len(handled), step))
        /\ Wire(handled)' = Wire(handled)
    BY <2>2, <2>3 DEF Wire, Encoded
  <2>5. (child_buffer' \o stdin') \o unwritten' = Wire(Between(Len(handled), step))'
    BY <2>1, <2>2, <2>4, Zenon DEF Feeding
  <2>6. fed' = Wire(handled)' \o (child_buffer' \o stdin')
    BY <2>1, <2>2, <2>4, Zenon DEF Feeding
  <2>7. /\ Len(handled') <= step' /\ handled' = Between(0, Len(handled))'
        /\ main' \in {"recv", "done"} => unwritten' = <<>>
    BY <2>2, <2>3 DEF Feeding
  <2> QED BY <2>5, <2>6, <2>7 DEF Feeding
<1>6. Answering'
  BY <1>1, AnsweringKept DEF parentVars
<1>7. Recording'
  <2>1. main' = main /\ UNCHANGED <<scenario, step, owed, transcript>>
    BY <1>1 DEF parentVars
  <2> QED BY <2>1, RecordingKept
<1>8. ExitCodes'
  BY <1>1 DEF ExitCodes
<1> QED BY <1>4, <1>5, <1>6, <1>7, <1>8

\* What the child has not taken out of its decoder begins with the next message.
LEMMA NextForChild ==
  ASSUME SessionInv, child_buffer # <<>>, NEW m, m = scenario[Len(handled) + 1][1]
  PROVE  /\ Len(handled) < step /\ Len(handled) + 1 \in 1..Len(scenario) /\ m \in Messages
         /\ stdin \o unwritten \in Seq(Byte)
         /\ Wire(Between(Len(handled) + 1, step)) \in Seq(Byte)
         /\ child_buffer \o (stdin \o unwritten) =
              Encoded(m) \o Wire(Between(Len(handled) + 1, step))
<1> USE DEF SessionInv
<1> DEFINE h == Len(handled)
           w == Wire(Between(h + 1, step))
           b == Between(h + 1, step)
<1>1. /\ child_buffer \in Seq(Byte) /\ stdin \in Seq(Byte) /\ unwritten \in Seq(Byte)
      /\ scenario \in Scenarios /\ scenario \in Seq(Messages \X Nat) /\ Len(scenario) \in Nat
      /\ step \in Nat /\ step <= Len(scenario) /\ h \in Nat /\ h <= step
  BY ScenarioFacts DEF TypeOK, Feeding
<1>2. /\ child_buffer \o stdin \in Seq(Byte) /\ stdin \o unwritten \in Seq(Byte)
      /\ (child_buffer \o stdin) \o unwritten = child_buffer \o (stdin \o unwritten)
  <2>1. Joined3(child_buffer, stdin, unwritten)
    BY <1>1, ThreeJoined, Zenon
  <2> QED BY <1>1, <2>1, BytesJoined DEF Joined3
<1>3. child_buffer \o (stdin \o unwritten) = Wire(Between(h, step))
  BY <1>2 DEF Feeding
<1>4. h < step
  <2>1. SUFFICES ASSUME h = step PROVE FALSE
    BY <1>1
  <2>2. Between(h, step) = <<>>
    <3> HIDE DEF h
    <3> QED BY <1>1, <2>1, BetweenFacts
  <2>3. child_buffer \o (stdin \o unwritten) = <<>>
    BY <1>3, <2>2, WireFacts
  <2>4. child_buffer = <<>>
    BY <1>1, <1>2, <2>3, BytesCancel, Zenon
  <2> QED BY <2>4
<1>5. h + 1 \in 1..Len(scenario) /\ h + 1 \in Nat /\ h + 1 <= step
  BY <1>1, <1>4
<1>6. m \in Messages
  BY <1>1, <1>5, ScenarioFacts
<1>7. Between(h, step) = <<m>> \o b /\ b \in Seq(Messages) /\ <<m>> \in Seq(Messages)
  <2>1. <<m>> \in Seq(Messages)
    BY <1>6
  <2>2. b \in Seq(Messages)
    BY <1>1, <1>5, BetweenFacts
  <2>3. Between(h, step) = <<m>> \o b
    <3>1. m = scenario[h + 1][1]
      OBVIOUS
    <3> HIDE DEF h, b
    <3>2. Between(h, step) = <<scenario[h + 1][1]>> \o Between(h + 1, step)
      BY <1>1, <1>4, BetweenFacts
    <3> QED BY <3>1, <3>2 DEF b
  <2> QED BY <2>1, <2>2, <2>3
<1>8. Wire(Between(h, step)) = Encoded(m) \o w /\ w \in Seq(Byte)
  <2> HIDE DEF h
  <2>1. Wire(<<m>> \o b) = Wire(<<m>>) \o Wire(b)
    <3> DEFINE a == <<m>>
    <3>1. a \in Seq(Messages) /\ b \in Seq(Messages)
      BY <1>7
    <3> HIDE DEF a, b
    <3>2. Wire(a \o b) = Wire(a) \o Wire(b)
      BY <3>1, WireFacts, Zenon
    <3> QED BY <3>2 DEF a
  <2>2. Wire(<<m>>) = Encoded(m) /\ Wire(b) \in Seq(Byte)
    <3> HIDE DEF b
    <3> QED BY <1>6, <1>7, WireFacts, Zenon
  <2> QED BY <1>7, <2>1, <2>2
<1> QED BY <1>2, <1>3, <1>4, <1>5, <1>6, <1>8

LEMMA FrameTooLargeSafe == SessionInv /\ FrameTooLarge => SessionInv'
<1> SUFFICES ASSUME SessionInv, FrameTooLarge PROVE SessionInv'
  OBVIOUS
<1> USE DEF SessionInv
<1>1. /\ serving = "serving" /\ TooLarge(child_buffer) /\ serving' = "2"
      /\ UNCHANGED <<parentVars, child_buffer, handled, stdin, stdout, alive, fed>>
  BY DEF FrameTooLarge, Exit
<1>2. child_buffer \in Seq(Byte) /\ child_buffer # <<>>
  <2>1. Len(child_buffer) >= HeaderSize /\ HeaderSize \in Nat /\ HeaderSize # 0
    BY <1>1, CodecAssumption DEF TooLarge, HasHeader
  <2>2. child_buffer # <<>>
    BY <2>1
  <2> QED BY <2>2 DEF TypeOK
<1>3. PICK k \in DOMAIN scenario : Faulty(scenario[k][1])
  <2> DEFINE m == scenario[Len(handled) + 1][1]
             w == Wire(Between(Len(handled) + 1, step))
             r == stdin \o unwritten
  <2>1. /\ Len(handled) + 1 \in 1..Len(scenario) /\ m \in Messages
        /\ r \in Seq(Byte) /\ w \in Seq(Byte) /\ child_buffer \o r = Encoded(m) \o w
    BY <1>2, NextForChild
  <2>2. Len(Payload[m]) > MaxFrameSize
    <3> HIDE DEF m, w, r
    <3> QED BY <1>1, <1>2, <2>1, StreamHead
  <2>3. Len(handled) + 1 \in DOMAIN scenario
    <3>1. scenario \in Seq(Messages \X Nat)
      BY ScenarioFacts DEF TypeOK
    <3> QED BY <2>1, <3>1
  <2> QED BY <2>2, <2>3 DEF Faulty
<1>4. TypeOK'
  BY <1>1 DEF TypeOK, parentVars
<1>5. Feeding'
  BY <1>1, FeedingKept DEF parentVars
<1>6. Answering'
  BY <1>1, AnsweringKept DEF parentVars
<1>7. Recording'
  <2>1. main' = main /\ UNCHANGED <<scenario, step, owed, transcript>>
    BY <1>1 DEF parentVars
  <2> QED BY <2>1, RecordingKept
<1>8. ExitCodes'
  <2>1. scenario' = scenario
    BY <1>1 DEF parentVars
  <2>2. \E k2 \in DOMAIN scenario' : Faulty(scenario'[k2][1])
    BY <1>3, <2>1
  <2> QED BY <1>1, <2>2 DEF ExitCodes, Faulty
<1> QED BY <1>4, <1>5, <1>6, <1>7, <1>8

LEMMA EndOfInputSafe == SessionInv /\ EndOfInput => SessionInv'
<1> SUFFICES ASSUME SessionInv, EndOfInput PROVE SessionInv'
  OBVIOUS
<1> USE DEF SessionInv
<1>1. /\ serving = "serving" /\ ~HasFrame(child_buffer) /\ ~TooLarge(child_buffer)
      /\ stdin = <<>> /\ ~alive /\ serving' = IF child_buffer # <<>> THEN "2" ELSE "0"
      /\ UNCHANGED <<parentVars, child_buffer, handled, stdin, stdout, alive, fed>>
  BY DEF EndOfInput, Exit, Truncated
<1>2. TypeOK'
  BY <1>1 DEF TypeOK, parentVars
<1>3. Feeding'
  BY <1>1, FeedingKept DEF parentVars
<1>4. Answering'
  <2>1. serving' # "start"
    BY <1>1
  <2> QED BY <1>1, <2>1, AnsweringKept DEF parentVars
<1>5. Recording'
  <2>1. main' = main /\ UNCHANGED <<scenario, step, owed, transcript>>
    BY <1>1 DEF parentVars
  <2> QED BY <2>1, RecordingKept
<1>6. CASE child_buffer = <<>>
  <2>1. fed = Wire(handled)
    <3>1. fed = Wire(handled) \o (<<>> \o <<>>)
      BY <1>1, <1>6 DEF Feeding
    <3>2. Wire(handled) \in Seq(Byte)
      BY WireFacts DEF TypeOK
    <3>3. <<>> \o <<>> = <<>> /\ Wire(handled) \o <<>> = Wire(handled)
      BY <3>2, BytesJoined, Zenon
    <3> QED BY <3>1, <3>3
  <2>2. fed' = fed /\ Wire(handled)' = Wire(handled)
    BY <1>1 DEF Wire, Encoded
  <2>3. ExitCodes'
    BY <1>1, <1>6, <2>1, <2>2 DEF ExitCodes
  <2> QED BY <1>2, <1>3, <1>4, <1>5, <2>3
<1>7. CASE child_buffer # <<>>
  <2>1. unwritten # <<>>
    <3>1. SUFFICES ASSUME unwritten = <<>> PROVE FALSE
      OBVIOUS
    <3> DEFINE m == scenario[Len(handled) + 1][1]
               w == Wire(Between(Len(handled) + 1, step))
               r == stdin \o unwritten
    <3>2. /\ m \in Messages /\ r \in Seq(Byte) /\ w \in Seq(Byte)
          /\ child_buffer \o r = Encoded(m) \o w
      BY <1>7, NextForChild
    <3>3. r = <<>>
      BY <1>1, <3>1, BytesJoined
    <3>4. child_buffer \in Seq(Byte)
      BY DEF TypeOK
    <3> HIDE DEF m, w, r
    <3>5. HasFrame(child_buffer) \/ TooLarge(child_buffer)
      BY <3>2, <3>3, <3>4, StreamHead
    <3> QED BY <1>1, <3>5
  <2>2. ExitCodes'
    BY <1>1, <1>7, <2>1 DEF ExitCodes, parentVars
  <2> QED BY <1>2, <1>3, <1>4, <1>5, <2>2
<1> QED BY <1>6, <1>7

LEMMA HandleFrameSafe == SessionInv /\ HandleFrame => SessionInv'
<1> SUFFICES ASSUME SessionInv, HandleFrame PROVE SessionInv'
  OBVIOUS
<1> USE DEF SessionInv
<1> DEFINE h == Len(handled)
           m == scenario[h + 1][1]
           w == Wire(Between(h + 1, step))
           r == stdin \o unwritten
           rest == Rest(child_buffer)
<1>1. /\ serving = "serving" /\ HasFrame(child_buffer) /\ child_buffer' = rest
      /\ handled' = Append(handled, Parse(Frame(child_buffer)))
      /\ UNCHANGED <<parentVars, stdin, alive, fed>>
      /\ IF Parse(Frame(child_buffer)) = Garbage THEN Exit("2") /\ UNCHANGED stdout
                                                  ELSE Reply(Handle(Parse(Frame(child_buffer))))
  BY DEF HandleFrame
<1>2. /\ child_buffer \in Seq(Byte) /\ child_buffer # <<>>
      /\ stdin \in Seq(Byte) /\ unwritten \in Seq(Byte) /\ handled \in Seq(Messages)
      /\ h \in Nat /\ step \in Nat /\ step <= Len(scenario) /\ Len(scenario) \in Nat
      /\ scenario \in Seq(Messages \X Nat) /\ scenario \in Scenarios
  <2>1. Len(child_buffer) >= HeaderSize /\ HeaderSize \in Nat /\ HeaderSize # 0
    BY <1>1, CodecAssumption DEF HasFrame, HasHeader
  <2>2. child_buffer # <<>>
    BY <2>1
  <2> QED BY <2>2, ScenarioFacts DEF TypeOK
<1>3. /\ h < step /\ h + 1 \in 1..Len(scenario) /\ m \in Messages
      /\ r \in Seq(Byte) /\ w \in Seq(Byte) /\ child_buffer \o r = Encoded(m) \o w
  BY <1>2, NextForChild
<1>4. /\ Frame(child_buffer) = Payload[m] /\ rest \in Seq(Byte) /\ rest \o r = w
      /\ child_buffer = Encoded(m) \o rest
  <2> HIDE DEF m, w, r
  <2>1. child_buffer \in Seq(Byte)
    BY <1>2
  <2>2. HasFrame(child_buffer) =>
          /\ Frame(child_buffer) = Payload[m]
          /\ Rest(child_buffer) \in Seq(Byte) /\ Rest(child_buffer) \o r = w
          /\ child_buffer = Encoded(m) \o Rest(child_buffer)
    BY ONLY <1>3, <2>1, StreamHead
  <2> QED BY <1>1, <2>2
<1>5. /\ handled' = Append(handled, m)
      /\ IF m = Garbage THEN serving' = "2" /\ stdout' = stdout ELSE Reply(Handle(m))
  <2>1. Parse(Frame(child_buffer)) = m
    BY <1>3, <1>4, ParseFacts
  <2> QED BY <1>1, <2>1 DEF Exit
<1>6. frames = <<>> /\ buffer = <<>> /\ stdout = <<>> /\ owed = Len(Handle(scenario[step][1]))
  BY <1>3 DEF Answering
<1>7. /\ h + 1 < step => Handle(m) = <<>>
      /\ h + 1 = step => scenario[step] = scenario[h + 1]
  <2>1. ASSUME h + 1 < step PROVE Handle(m) = <<>>
    <3>1. h + 1 \in (h + 1)..(step - 1)
      BY <1>2, <2>1
    <3> QED BY <1>3, <3>1 DEF Answering
  <2> QED BY <2>1
<1>8. Handle(m) \in Seq(Messages) /\ Wire(Handle(m)) \in Seq(Byte)
  <2>1. Handle(m) \in Seq(Messages)
    BY <1>3, HandleFacts
  <2> QED BY <2>1, WireFacts
<1>9. \/ serving' = "2" /\ m = Garbage /\ stdout' = <<>>
      \/ serving' = "3" /\ ~alive /\ stdout' = <<>>
      \/ serving' = "serving" /\ stdout' = Wire(Handle(m))
  <2>1. CASE m = Garbage
    BY <1>5, <1>6, <2>1
  <2>2. CASE m # Garbage /\ (alive \/ Handle(m) = <<>>)
    <3>1. serving' = "serving" /\ stdout' = stdout \o Wire(Handle(m))
      BY <1>5, <2>2 DEF Reply
    <3>2. <<>> \o Wire(Handle(m)) = Wire(Handle(m))
      BY <1>8, BytesJoined, Zenon
    <3> QED BY <1>6, <3>1, <3>2
  <2>3. CASE m # Garbage /\ ~(alive \/ Handle(m) = <<>>)
    BY <1>5, <1>6, <2>3 DEF Reply, Exit
  <2> QED BY <2>1, <2>2, <2>3
<1>10. handled' \in Seq(Messages) /\ Len(handled') = h + 1 /\ handled' = handled \o <<m>>
  <2> HIDE DEF m
  <2> QED BY <1>2, <1>3, <1>5, AppendProperties, AppendIsConcat
<1>11. TypeOK'
  <2>1. stdout' \in Seq(Byte) /\ serving' \in {"serving", "2", "3"}
    BY <1>8, <1>9, BytesJoined
  <2> QED BY <1>1, <1>4, <1>10, <2>1 DEF TypeOK, parentVars
<1>12. Feeding'
  <2>1. handled' = Between(0, h + 1)
    <3>1. handled = Between(0, h)
      BY DEF Feeding
    <3> HIDE DEF h
    <3>2. 0 \in Nat /\ 0 <= h /\ h <= Len(scenario) /\ h < Len(scenario)
      BY <1>2, <1>3
    <3>3. Between(0, h + 1) = Between(0, h) \o <<scenario[h + 1][1]>>
      BY <1>2, <3>2, BetweenFacts
    <3> QED BY <1>10, <3>1, <3>3
  <2>2. Wire(handled') = Wire(handled) \o Encoded(m)
    <3> DEFINE one == <<m>>
    <3>1. one \in Seq(Messages) /\ Wire(one) = Encoded(m) /\ handled' = handled \o one
      BY <1>3, <1>10, WireFacts
    <3> HIDE DEF one, m
    <3>2. Wire(handled \o one) = Wire(handled) \o Wire(one)
      BY <1>2, <3>1, WireFacts, Zenon
    <3> QED BY <3>1, <3>2
  <2>3. fed' = Wire(handled') \o (rest \o stdin)
    <3> DEFINE W == Wire(handled)
               e == Encoded(m)
               rs == rest \o stdin
    <3>1. W \in Seq(Byte) /\ e \in Seq(Byte) /\ rs \in Seq(Byte)
      BY <1>2, <1>3, <1>4, WireFacts, BytesJoined
    <3>2. fed = W \o ((e \o rest) \o stdin)
      BY <1>4 DEF Feeding
    <3>3. Joined3(e, rest, stdin)
      <4> HIDE DEF e, rest
      <4> QED BY <1>2, <1>4, <3>1, ThreeJoined, Zenon
    <3>4. Joined3(W, e, rs)
      <4> HIDE DEF W, e, rs
      <4> QED BY <3>1, ThreeJoined, Zenon
    <3>5. Wire(handled') = W \o e
      BY <2>2
    <3>6. fed' = fed
      BY <1>1
    <3> HIDE DEF W, e
    <3> QED BY <3>2, <3>3, <3>4, <3>5, <3>6, Zenon DEF Joined3
  <2>4. (rest \o stdin) \o unwritten = w
    <3>1. Joined3(rest, stdin, unwritten)
      BY <1>2, <1>4, ThreeJoined, Zenon
    <3> QED BY <1>4, <3>1 DEF Joined3
  <2>5. /\ child_buffer' = rest /\ UNCHANGED <<scenario, step, unwritten, main, stdin>>
        /\ Len(handled') = h + 1 /\ h + 1 <= step
    BY <1>1, <1>2, <1>3, <1>10 DEF parentVars
  <2>6. Between(0, Len(handled))' = Between(0, h + 1)
        /\ Between(Len(handled), step)' = Between(h + 1, step)
    BY <2>5 DEF Between
  <2>7. Wire(Between(Len(handled), step))' = w /\ Wire(handled)' = Wire(handled')
    BY <2>6 DEF Wire, Encoded
  <2>8. main' \in {"recv", "done"} => unwritten' = <<>>
    BY <2>5 DEF Feeding
  <2>9. fed' = Wire(handled)' \o (child_buffer' \o stdin')
    BY <2>3, <2>5, <2>7, Zenon
  <2>10. (child_buffer' \o stdin') \o unwritten' = Wire(Between(Len(handled), step))'
    BY <2>4, <2>5, <2>7, Zenon
  <2>11. Len(handled') <= step' /\ handled' = Between(0, Len(handled))'
    BY <2>1, <2>5, <2>6
  <2> QED BY <2>8, <2>9, <2>10, <2>11 DEF Feeding
<1>13. Answering'
  <2>1. /\ UNCHANGED <<scenario, step, owed, frames, buffer>> /\ Len(handled') = h + 1
        /\ serving' # "start" /\ owed' <= 1
    BY <1>1, <1>9, <1>10 DEF parentVars, Answering
  <2>2. Pending' = Pending /\ Wire(Pending)' = Wire(Pending)
    <3>1. Pending' = Pending
      BY <2>1, PendingKept
    <3> QED BY <3>1 DEF Wire, Encoded
  <2>3. CASE h + 1 < step
    <3>1. Handle(m) = <<>> /\ Wire(Handle(m)) = <<>>
      BY <1>7, <2>3, WireFacts
    <3>2. stdout' = <<>> /\ buffer' = <<>> /\ frames' = <<>> /\ buffer' \o stdout' = <<>>
      <4>1. stdout' = <<>> /\ buffer' = <<>> /\ frames' = <<>>
        BY <1>6, <1>9, <2>1, <3>1
      <4>2. <<>> \o <<>> = <<>>
        BY BytesJoined
      <4> QED BY <4>1, <4>2
    <3>3. owed' = Len(Handle(scenario'[step'][1]))
      BY <1>6, <2>1
    <3>4. ASSUME NEW k \in (Len(handled') + 1)..(step' - 1) PROVE Handle(scenario'[k][1]) = <<>>
      <4>1. k \in (h + 1)..(step - 1)
        BY <1>2, <2>1
      <4> QED BY <1>3, <2>1, <4>1 DEF Answering
    <3> QED BY <2>1, <3>2, <3>3, <3>4 DEF Answering
  <2>4. CASE h + 1 = step
    <3>1. Pending = Handle(m)
      <4>1. owed = Len(Handle(m)) /\ step # 0
        BY <1>2, <1>6, <1>7, <2>4
      <4>2. CASE owed = 0
        <5>1. Handle(m) = <<>>
          BY <1>3, <4>1, <4>2, HandleFacts
        <5> QED BY <4>2, <5>1 DEF Pending
      <4>3. CASE owed # 0
        BY <2>4, <4>1, <4>3 DEF Pending
      <4> QED BY <4>2, <4>3
    <3>2. stdout' \in {<<>>, Wire(Pending)'} /\ stdout' \in Seq(Byte)
      BY <1>9, <1>11, <2>2, <3>1 DEF TypeOK
    <3>3. buffer' \o stdout' = stdout'
      <4>1. buffer' = <<>>
        BY <1>6, <2>1
      <4> QED BY <3>2, <4>1, BytesJoined, Zenon
    <3>4. frames' = <<>> /\ buffer' \o stdout' \in {<<>>, Wire(Pending)'}
      BY <1>6, <2>1, <3>2, <3>3
    <3>5. ~(Len(handled') < step')
      BY <1>2, <2>1, <2>4
    <3> QED BY <2>1, <3>4, <3>5 DEF Answering
  <2> QED BY <1>2, <1>3, <2>3, <2>4
<1>14. Recording'
  <2>1. main' = main /\ UNCHANGED <<scenario, step, owed, transcript>>
    BY <1>1 DEF parentVars
  <2> QED BY <2>1, RecordingKept
<1>15. ExitCodes'
  <2>1. scenario' = scenario /\ alive' = alive
    BY <1>1 DEF parentVars
  <2>2. CASE serving' = "2" /\ m = Garbage
    <3>1. h + 1 \in DOMAIN scenario' /\ Faulty(scenario'[h + 1][1])
      BY <1>2, <1>3, <2>1, <2>2 DEF Faulty
    <3>2. \E k \in DOMAIN scenario' : Faulty(scenario'[k][1])
      BY <3>1
    <3> QED BY <2>2, <3>2 DEF ExitCodes, Faulty
  <2>3. CASE serving' = "3" /\ ~alive
    BY <2>1, <2>3 DEF ExitCodes
  <2>4. CASE serving' = "serving"
    BY <2>4 DEF ExitCodes
  <2> QED BY <1>9, <2>2, <2>3, <2>4
<1> QED BY <1>11, <1>12, <1>13, <1>14, <1>15

-----------------------------------------------------------------------------
(* The whole session *)

LEMMA StutterSafe == SessionInv /\ UNCHANGED vars => SessionInv'
<1> SUFFICES ASSUME SessionInv, UNCHANGED vars PROVE SessionInv'
  OBVIOUS
<1> USE DEF SessionInv
<1>1. UNCHANGED <<parentVars, childVars, stdin, stdout, alive, fed>>
  BY DEF vars
<1>2. TypeOK'
  BY <1>1 DEF TypeOK, parentVars, childVars
<1>3. Feeding'
  BY <1>1, FeedingKept DEF parentVars, childVars
<1>4. Answering'
  BY <1>1, AnsweringKept DEF parentVars, childVars
<1>5. Recording'
  <2>1. main' = main /\ UNCHANGED <<scenario, step, owed, transcript>>
    BY <1>1 DEF parentVars
  <2> QED BY <2>1, RecordingKept
<1>6. ExitCodes'
  BY <1>1, ExitsKept DEF parentVars, childVars
<1> QED BY <1>2, <1>3, <1>4, <1>5, <1>6

\* Every step of the parent, of the child and of the pipes keeps the invariant: the bytes
\* between the two are those of the messages not handled yet and of the reply not received
\* yet, whatever chunks they come in.
THEOREM SessionInductive == Spec => []SessionInv
<1>1. Init => SessionInv
  BY SessionInit
<1>2. SessionInv /\ [Next]_vars => SessionInv'
  <2> SUFFICES ASSUME SessionInv, [Next]_vars PROVE SessionInv'
    OBVIOUS
  <2>1. CASE ParentStep
    <3>1. CASE NextMessage BY <3>1, NextMessageSafe
    <3>2. CASE Recv BY <3>2, RecvSafe
    <3>3. CASE Fail BY <3>3, FailSafe
    <3>4. CASE ReadFrame BY <3>4, ReadFrameSafe
    <3>5. ASSUME NEW n \in Chunks, Write(n) \/ ReadChunk(n) PROVE SessionInv'
      BY <3>5, WriteSafe, ReadChunkSafe
    <3> QED BY <2>1, <3>1, <3>2, <3>3, <3>4, <3>5 DEF ParentStep
  <2>2. CASE ChildStep
    <3>1. CASE Hello BY <3>1, HelloSafe
    <3>2. CASE HandleFrame BY <3>2, HandleFrameSafe
    <3>3. CASE FrameTooLarge BY <3>3, FrameTooLargeSafe
    <3>4. CASE EndOfInput BY <3>4, EndOfInputSafe
    <3>5. ASSUME NEW n \in Chunks, ChildReads(n) PROVE SessionInv'
      BY <3>5, ChildReadsSafe
    <3> QED BY <2>2, <3>1, <3>2, <3>3, <3>4, <3>5 DEF ChildStep
  <2>3. CASE Die BY <2>3, DieSafe
  <2>4. CASE UNCHANGED vars BY <2>4, StutterSafe
  <2> QED BY <2>1, <2>2, <2>3, <2>4 DEF Next
<1> QED BY <1>1, <1>2, PTL DEF Spec

\* serve_stdio's exit code is true of the session: 0 means that everything written was
\* handled, 2 that a message was faulty or the parent died within one, 3 that it died.
THEOREM ExitCodesTell == Spec => []ExitCodes
<1>1. SessionInv => ExitCodes
  BY DEF SessionInv
<1> QED BY <1>1, SessionInductive, PTL

-----------------------------------------------------------------------------
(* The transcript *)

LEMMA BetweenJoined ==
  ASSUME scenario \in Seq(Messages \X Nat), NEW k \in Nat, NEW l \in Nat, k <= l, l <= Len(scenario)
  PROVE  /\ Between(0, k) \in Seq(Messages) /\ Between(k, l) \in Seq(Messages)
         /\ Between(0, l) \in Seq(Messages) /\ Between(0, l) = Between(0, k) \o Between(k, l)
<1> DEFINE a == Between(0, k)
           b == Between(k, l)
           c == Between(0, l)
<1>1. 0 \in Nat /\ 0 <= k /\ 0 <= l /\ k <= Len(scenario) /\ Len(scenario) \in Nat
  OBVIOUS
<1>2. a \in Seq(Messages) /\ Len(a) = k - 0
  BY <1>1, BetweenFacts
<1>3. b \in Seq(Messages) /\ Len(b) = l - k
  BY <1>1, BetweenFacts
<1>4. c \in Seq(Messages) /\ Len(c) = l - 0
  BY <1>1, BetweenFacts
<1>5. ASSUME NEW n \in 1..k PROVE c[n] = a[n]
  <2>1. n \in 1..(k - 0) /\ n \in 1..(l - 0)
    BY <1>1
  <2> QED BY <2>1 DEF Between
<1>6. ASSUME NEW n \in 1..(l - k) PROVE c[k + n] = b[n]
  <2>1. k + n \in 1..(l - 0) /\ 0 + (k + n) = k + n
    BY <1>1
  <2>2. c[k + n] = scenario[0 + (k + n)][1]
    BY <2>1 DEF Between
  <2>3. b[n] = scenario[k + n][1]
    BY DEF Between
  <2> QED BY <2>1, <2>2, <2>3
<1> HIDE DEF a, b, c
<1>7. Len(c) = Len(a) + Len(b) /\ Len(a) = k /\ Len(b) = l - k
  BY <1>1, <1>2, <1>3, <1>4
<1>8. c = a \o b
  <2>1. \A n \in 1..Len(a) : c[n] = a[n]
    BY <1>5, <1>7
  <2>2. \A n \in 1..Len(b) : c[Len(a) + n] = b[n]
    BY <1>6, <1>7
  <2> QED BY <1>2, <1>3, <1>4, <1>7, <2>1, <2>2, IsConcat
<1> QED BY <1>2, <1>3, <1>4, <1>8 DEF a, b, c

LEMMA PrefixOfConcat ==
  ASSUME NEW s \in Seq(Records), NEW t \in Seq(Records)
  PROVE  IsPrefix(s, s \o t)
<1> DEFINE c == s \o t
<1>1. /\ c \in Seq(Records) /\ Len(c) = Len(s) + Len(t) /\ Len(s) \in Nat /\ Len(t) \in Nat
      /\ \A n \in 1..Len(s) : c[n] = s[n]
  BY ConcatProperties
<1> HIDE DEF c
<1>2. SubSeq(s, 1, Len(s)) = SubSeq(c, 1, Len(s))
  BY <1>1
<1>3. Len(s) <= Len(c)
  BY <1>1
<1> QED BY <1>2, <1>3 DEF IsPrefix, c

\* What the inputs among the records rs give when they are played again.
Played(rs) ==
  FlattenSeq([n \in DOMAIN rs |-> IF rs[n].direction = "in" THEN Exchange(rs[n]) ELSE <<>>])

LEMMA PlayedFacts ==
  /\ Played(<<>>) = <<>>
  /\ \A m \in Messages : /\ Played(<<Record("in", m)>>) = Exchange(Record("in", m))
                          /\ Played(<<Record("out", m)>>) = <<>>
  /\ \A rs \in Seq(Records) : Played(rs) \in Seq(Records)
  /\ \A rs, ss \in Seq(Records) : Played(rs \o ss) = Played(rs) \o Played(ss)
<1> DEFINE E == [r \in Records |-> IF r.direction = "in" THEN Exchange(r) ELSE <<>>]
<1>1. ASSUME NEW r \in Records PROVE E[r] \in Seq(Records)
  <2>1. r.direction \in {"in", "out"} /\ r.message \in Messages
    BY DEF Records
  <2>2. CASE r.direction = "in"
    <3>1. r = Record("in", r.message)
      BY <2>2 DEF Records, Record
    <3>2. Exchange(Record("in", r.message)) \in Seq(Records)
      BY <2>1, OutsFacts
    <3> QED BY <2>2, <3>1, <3>2
  <2>3. CASE r.direction # "in"
    BY <2>3, RecordsJoined
  <2> QED BY <2>2, <2>3
<1>2. Maps(E, Records, Seq(Records))
  BY <1>1 DEF Maps
<1>3. ASSUME NEW rs \in Seq(Records) PROVE Played(rs) = JoinedOf(E, rs)
  <2>1. \A n \in DOMAIN rs : rs[n] \in Records
    OBVIOUS
  <2>2. [n \in DOMAIN rs |-> IF rs[n].direction = "in" THEN Exchange(rs[n]) ELSE <<>>]
          = [n \in DOMAIN rs |-> E[rs[n]]]
    BY <2>1
  <2> QED BY <2>2 DEF Played, JoinedOf, Mapped
<1>4. ASSUME NEW m \in Messages
      PROVE  /\ Record("in", m) \in Records /\ Record("out", m) \in Records
             /\ E[Record("in", m)] = Exchange(Record("in", m)) /\ E[Record("out", m)] = <<>>
             /\ <<Record("in", m)>> \in Seq(Records) /\ <<Record("out", m)>> \in Seq(Records)
  <2>1. Record("in", m) \in Records /\ Record("out", m) \in Records
    BY OutsFacts
  <2>2. Record("in", m).direction = "in" /\ Record("out", m).direction = "out"
    BY DEF Record
  <2>3. E[Record("in", m)] = Exchange(Record("in", m)) /\ E[Record("out", m)] = <<>>
    BY <2>1, <2>2
  <2>4. \A r \in Records : <<r>> \in Seq(Records)
    OBVIOUS
  <2> QED BY <2>1, <2>3, <2>4
<1> HIDE DEF E
<1>5. /\ JoinedOf(E, <<>>) = <<>>
      /\ \A r \in Records : JoinedOf(E, <<r>>) = E[r]
      /\ \A rs \in Seq(Records) : JoinedOf(E, rs) \in Seq(Records)
      /\ \A rs, ss \in Seq(Records) : JoinedOf(E, rs \o ss) = JoinedOf(E, rs) \o JoinedOf(E, ss)
  <2> DEFINE R == Records
             T == Records
  <2>1. Maps(E, R, Seq(T))
    BY <1>2
  <2> HIDE DEF R, T
  <2>2. /\ JoinedOf(E, <<>>) = <<>>
        /\ \A s \in R : JoinedOf(E, <<s>>) = E[s]
        /\ \A ss \in Seq(R) : JoinedOf(E, ss) \in Seq(T)
        /\ \A ss, tt \in Seq(R) : JoinedOf(E, ss \o tt) = JoinedOf(E, ss) \o JoinedOf(E, tt)
    BY <2>1, JoinedFacts
  <2> QED BY <2>2, Zenon DEF R, T
<1>6. Played(<<>>) = <<>>
  BY <1>3, <1>5, RecordsJoined
<1>7. ASSUME NEW m \in Messages
      PROVE  /\ Played(<<Record("in", m)>>) = Exchange(Record("in", m))
             /\ Played(<<Record("out", m)>>) = <<>>
  <2>1. Played(<<Record("in", m)>>) = JoinedOf(E, <<Record("in", m)>>)
    BY <1>3, <1>4
  <2>2. Played(<<Record("out", m)>>) = JoinedOf(E, <<Record("out", m)>>)
    BY <1>3, <1>4
  <2>3. JoinedOf(E, <<Record("in", m)>>) = E[Record("in", m)]
    BY <1>4, <1>5
  <2>4. JoinedOf(E, <<Record("out", m)>>) = E[Record("out", m)]
    BY <1>4, <1>5
  <2> QED BY <1>4, <2>1, <2>2, <2>3, <2>4
<1>8. ASSUME NEW rs \in Seq(Records) PROVE Played(rs) \in Seq(Records)
  BY <1>3, <1>5
<1>9. ASSUME NEW rs \in Seq(Records), NEW ss \in Seq(Records)
      PROVE  Played(rs \o ss) = Played(rs) \o Played(ss)
  <2>1. rs \o ss \in Seq(Records)
    BY RecordsJoined
  <2> QED BY <1>3, <1>5, <2>1, Zenon
<1> QED BY <1>6, <1>7, <1>8, <1>9

\* What the agent answered when played from memory it answers again.
LEMMA PlayedExchanges == \A ms \in Seq(Messages) : Played(Exchanges(ms)) = Exchanges(ms)
<1>1. ASSUME NEW m \in Messages
      PROVE  Played(Exchanges(<<m>>)) = Exchanges(<<m>>)
  <2> DEFINE i == <<Record("in", m)>>
             q == Outs(Handle(m))
             e == Exchange(Record("in", m))
  <2>1. Exchanges(<<m>>) = e /\ e = i \o q /\ i \in Seq(Records) /\ q \in Seq(Records) /\ e \in Seq(Records)
    <3>1. Record("in", m) \in Records
      BY OutsFacts
    <3>2. i \in Seq(Records)
      BY <3>1
    <3> QED BY <3>2, OutsFacts, ExchangesFacts
  <2>2. Played(q) = <<>>
    <3>1. CASE Handle(m) = <<>>
      BY <3>1, OutsFacts, PlayedFacts
    <3>2. CASE \E r \in Messages : Handle(m) = <<r>>
      <4>1. PICK r \in Messages : Handle(m) = <<r>>
        BY <3>2
      <4>2. q = <<Record("out", r)>>
        BY <4>1, OutsFacts
      <4>3. Played(<<Record("out", r)>>) = <<>>
        BY PlayedFacts
      <4> QED BY <4>2, <4>3
    <3> QED BY <3>1, <3>2, HandleFacts
  <2>3. Played(i) = e
    BY PlayedFacts
  <2> HIDE DEF i, q, e
  <2>4. Played(i \o q) = Played(i) \o Played(q)
    BY <2>1, PlayedFacts, Zenon
  <2>5. e \o <<>> = e
    BY <2>1, RecordsJoined, Zenon
  <2>6. Played(e) = e
    BY <2>1, <2>2, <2>3, <2>4, <2>5, Zenon
  <2> QED BY <2>1, <2>6, Zenon
<1> DEFINE S == {n \in Nat : \A ms \in Seq(Messages) :
                                Len(ms) = n => Played(Exchanges(ms)) = Exchanges(ms)}
<1>2. 0 \in S
  <2>1. \A ms \in Seq(Messages) : Len(ms) = 0 => ms = <<>>
    OBVIOUS
  <2> QED BY <2>1, ExchangesFacts, PlayedFacts
<1>3. ASSUME NEW n \in Nat, n \in S PROVE n + 1 \in S
  <2> SUFFICES ASSUME NEW ms \in Seq(Messages), Len(ms) = n + 1
               PROVE  Played(Exchanges(ms)) = Exchanges(ms)
    OBVIOUS
  <2>1. PICK init \in Seq(Messages), m \in Messages : ms = Append(init, m)
    <3>1. ms # <<>>
      OBVIOUS
    <3> QED BY <3>1, SequenceEmptyOrAppend
  <2> DEFINE one == <<m>>
             a == Exchanges(init)
             b == Exchanges(one)
  <2>2. ms = init \o one /\ Len(init) = n /\ one \in Seq(Messages)
    BY <2>1, AppendIsConcat, AppendProperties
  <2>3. Played(a) = a
    BY <1>3, <2>2
  <2>4. Played(b) = b
    BY <1>1
  <2>5. Exchanges(ms) = a \o b /\ a \in Seq(Records) /\ b \in Seq(Records)
    <3> HIDE DEF one
    <3> QED BY <2>2, ExchangesFacts, Zenon
  <2> HIDE DEF a, b
  <2>6. Played(a \o b) = Played(a) \o Played(b)
    BY <2>5, PlayedFacts, Zenon
  <2> QED BY <2>3, <2>4, <2>5, <2>6, Zenon
<1> HIDE DEF S
<1>4. Nat \subseteq S
  BY <1>2, <1>3, SetInduction
<1> TAKE ms \in Seq(Messages)
<1>5. Len(ms) \in Nat
  OBVIOUS
<1> QED BY <1>4, <1>5 DEF S

LEMMA ReplayFacts == \A ms \in Seq(Messages) : Replay(InMemory(ms)) = InMemory(ms)
<1> TAKE ms \in Seq(Messages)
<1> DEFINE g == Outs(<<"hello">>)
           X == Exchanges(ms)
           rs == InMemory(ms)
<1>1. "hello" \in Messages
  BY SessionAssumption
<1>2. g = <<Record("out", "hello")>> /\ g \in Seq(Records) /\ X \in Seq(Records) /\ rs = g \o X
  BY <1>1, OutsFacts, ExchangesFacts
<1>3. rs # <<>> /\ rs[1].direction = "out"
  <2> HIDE DEF X, rs
  <2>1. Len(g) = 1 /\ g[1] = Record("out", "hello")
    BY <1>2
  <2>2. Len(rs) = Len(g) + Len(X) /\ rs[1] = g[1] /\ Len(X) \in Nat
    <3> HIDE DEF g
    <3>1. 1 \in 1..Len(g)
      BY <2>1
    <3> QED BY <1>2, <3>1, ConcatProperties
  <2> QED BY <2>1, <2>2 DEF Record
<1>4. Replay(rs) = g \o Played(rs)
  BY <1>3 DEF Replay, Played
<1>5. Played(rs) = X
  <2>1. Played(g) = <<>>
    BY <1>1, <1>2, PlayedFacts
  <2>2. Played(X) = X
    BY PlayedExchanges
  <2> HIDE DEF g, X, rs
  <2>3. Played(g \o X) = Played(g) \o Played(X)
    BY <1>2, PlayedFacts, Zenon
  <2>4. <<>> \o X = X
    BY <1>2, RecordsJoined, Zenon
  <2> QED BY <1>2, <2>1, <2>2, <2>3, <2>4, Zenon
<1> HIDE DEF g, X, rs
<1>6. Replay(rs) = rs
  BY <1>2, <1>4, <1>5, Zenon
<1> QED BY <1>6 DEF rs

\* The pipes, the chunks and the two decoders add nothing to the conversation: what the
\* parent records is, at every moment, a prefix of what the same scenario gives in memory,
\* and the whole of it at the end; and the record of a whole session replays to itself.
THEOREM TranscriptIsInMemory == Spec => []SameAsInMemory
<1>1. SessionInv => SameAsInMemory
  <2> SUFFICES ASSUME SessionInv PROVE SameAsInMemory
    OBVIOUS
  <2> USE DEF SessionInv
  <2> DEFINE ms == [n \in DOMAIN scenario |-> scenario[n][1]]
             l == Len(scenario)
             a == Between(0, step)
             b == Between(step, l)
             g == Outs(<<"hello">>)
             q == Outs(Pending)
             X == Exchanges(a)
             Y == Exchanges(b)
  <2>1. /\ scenario \in Seq(Messages \X Nat) /\ l \in Nat /\ step \in Nat /\ step <= l
        /\ l <= Len(scenario) /\ transcript \in Seq(Records)
    BY ScenarioFacts DEF TypeOK, Records
  <2>2. ms = Between(0, l)
    <3>1. DOMAIN scenario = 1..(l - 0) /\ \A n \in 1..(l - 0) : 0 + n = n
      BY <2>1
    <3> QED BY <3>1 DEF Between
  <2>3. a \in Seq(Messages) /\ b \in Seq(Messages) /\ ms \in Seq(Messages) /\ ms = a \o b
    <3> HIDE DEF ms, l
    <3>1. /\ a \in Seq(Messages) /\ b \in Seq(Messages)
          /\ Between(0, l) \in Seq(Messages) /\ Between(0, l) = a \o b
      BY <2>1, BetweenJoined
    <3> QED BY <2>2, <3>1, Zenon
  <2>4. g \in Seq(Records) /\ q \in Seq(Records) /\ X \in Seq(Records) /\ Y \in Seq(Records)
    <3>1. "hello" \in Messages
      BY SessionAssumption
    <3>2. q \in Seq(Records)
      <4>1. CASE Pending = <<>>
        BY <4>1, OutsFacts, RecordsJoined
      <4>2. CASE \E r \in Messages : Pending = <<r>>
        BY <4>2, OutsFacts
      <4> QED BY <4>1, <4>2, PendingFacts
    <3>3. g \in Seq(Records)
      BY <3>1, OutsFacts
    <3> HIDE DEF g, q, a, b
    <3>4. X \in Seq(Records) /\ Y \in Seq(Records)
      BY <2>3, ExchangesFacts
    <3> QED BY <3>2, <3>3, <3>4
  <2>5. InMemory(ms) = g \o (X \o Y) /\ transcript \o q = g \o X
    <3>1. transcript \o q = InMemory(a)
      BY DEF Recording
    <3> HIDE DEF a, b, ms, q
    <3>2. InMemory(a) = g \o X /\ InMemory(ms) = g \o Exchanges(ms)
      BY <2>3, ExchangesFacts
    <3>3. Exchanges(a \o b) = X \o Y
      BY <2>3, ExchangesFacts, Zenon
    <3> QED BY <2>3, <3>1, <3>2, <3>3
  <2>6. InMemory(ms) = transcript \o (q \o Y) /\ q \o Y \in Seq(Records)
    <3> HIDE DEF ms, g, q, X, Y
    <3>1. q \o Y \in Seq(Records)
      BY <2>4, RecordsJoined, Zenon
    <3>2. (transcript \o q) \o Y = transcript \o (q \o Y)
      BY <2>1, <2>4, RecordsAssociative, SMTT(30)
    <3>3. (g \o X) \o Y = g \o (X \o Y)
      BY <2>4, RecordsAssociative, SMTT(30)
    <3> QED BY <2>5, <3>1, <3>2, <3>3, Zenon
  <2>7. IsPrefix(transcript, InMemory(ms))
    <3> DEFINE t == q \o Y
    <3>1. t \in Seq(Records) /\ InMemory(ms) = transcript \o t
      BY <2>6
    <3> HIDE DEF t, ms
    <3>2. IsPrefix(transcript, transcript \o t)
      BY <2>1, <3>1, PrefixOfConcat, Zenon
    <3> QED BY <3>1, <3>2, Zenon
  <2>8. ASSUME main = "done" PROVE transcript = InMemory(ms) /\ Replay(transcript) = transcript
    <3>1. step = l /\ Pending = <<>>
      BY <2>8, PendingFacts DEF Recording
    <3>2. transcript \o <<>> = InMemory(ms)
      <4>1. Outs(Pending) = <<>>
        BY <3>1, OutsFacts
      <4>2. a = ms
        BY <2>2, <3>1
      <4>3. transcript \o Outs(Pending) = InMemory(a)
        BY DEF Recording
      <4> HIDE DEF a, ms
      <4> QED BY <4>1, <4>2, <4>3
    <3> HIDE DEF ms
    <3>3. transcript \o <<>> = transcript
      BY <2>1, RecordsJoined, Zenon
    <3>4. Replay(InMemory(ms)) = InMemory(ms)
      BY <2>3, ReplayFacts
    <3> QED BY <3>2, <3>3, <3>4
  <2> QED BY <2>7, <2>8 DEF SameAsInMemory
<1> QED BY <1>1, SessionInductive, PTL

-----------------------------------------------------------------------------
(* Nobody waits for nothing *)

\* An encoded message has bytes, its header at least.
LEMMA EncodedThere == \A m \in Messages : Encoded(m) \in Seq(Byte) /\ Encoded(m) # <<>>
<1> TAKE m \in Messages
<1>1. PICK header \in Seq(Byte) :
           Len(header) = HeaderSize /\ Encoded(m) = header \o Payload[m] /\ Payload[m] \in Seq(Byte)
  BY HeaderFacts
<1>2. header # <<>>
  <2>1. Len(header) # 0
    BY <1>1, CodecAssumption
  <2> QED BY <2>1
<1>3. header \o Payload[m] # <<>>
  BY <1>1, <1>2, BytesCancel, Zenon
<1> QED BY <1>1, <1>3, WireFacts

\* A message under way has bytes left, and a reply that is owed for messages that have all
\* been handled is on its way.
Owing ==
  /\ main = "send" => unwritten # <<>>
  /\ alive /\ owed # 0 /\ serving = "serving" /\ Len(handled) = step =>
       frames # <<>> \/ buffer \o stdout # <<>>

\* Steps that leave what Owing speaks of alone.
LEMMA OwingKept ==
  ASSUME Owing, UNCHANGED <<main, unwritten, owed, step, frames, handled>>,
         alive' => alive, serving' = "serving" => serving = "serving",
         buffer' \o stdout' = buffer \o stdout
  PROVE  Owing'
BY DEF Owing

\* A message of the scenario begins: it has bytes to write, and it is not handled yet.
LEMMA NextMessageOwing ==
  ASSUME SessionInv, SessionInv', NextMessage
  PROVE  Owing'
<1>1. CASE step = Len(scenario)
  <2>1. main' = "done" /\ owed' = 0
    BY <1>1 DEF NextMessage, Answered
  <2> QED BY <2>1 DEF Owing
<1>2. CASE step # Len(scenario)
  <2>1. /\ step' = step + 1 /\ handled' = handled /\ unwritten' = Encoded(scenario[step + 1][1])
    BY <1>2 DEF NextMessage, childVars
  <2>2. /\ step \in 0..Len(scenario) /\ Len(scenario) \in Nat /\ Len(handled) <= step
        /\ Len(handled) \in Nat
    BY ScenarioFacts DEF SessionInv, TypeOK, Feeding
  <2>3. scenario[step + 1][1] \in Messages
    <3>1. step + 1 \in 1..Len(scenario)
      BY <1>2, <2>2
    <3> QED BY <3>1, ScenarioFacts DEF SessionInv, TypeOK
  <2>4. unwritten' # <<>>
    BY <2>1, <2>3, EncodedThere
  <2>5. Len(handled') # step'
    BY <2>1, <2>2
  <2> QED BY <2>4, <2>5 DEF Owing
<1> QED BY <1>1, <1>2

\* What is left after a write that did not write all.
LEMMA WriteOwing ==
  ASSUME SessionInv, Owing, NEW n \in Chunks, Write(n)
  PROVE  Owing'
<1>1. /\ n \in 1..Len(unwritten) /\ unwritten' = SubSeq(unwritten, n + 1, Len(unwritten))
      /\ main' = IF n = Len(unwritten) THEN "recv" ELSE "send"
      /\ UNCHANGED <<step, owed, frames, buffer, serving, handled, stdout, alive>>
  BY DEF Write, childVars
<1>2. main' = "send" => unwritten' # <<>>
  <2>1. SUFFICES ASSUME n # Len(unwritten) PROVE unwritten' # <<>>
    BY <1>1
  <2>2. unwritten \in Seq(Byte)
    BY DEF SessionInv, TypeOK
  <2> DEFINE l == Len(unwritten)
             u == SubSeq(unwritten, n + 1, l)
  <2>3. l \in Nat /\ n \in Nat /\ n < l
    BY <1>1, <2>1, <2>2
  <2>4. Len(u) = l - n
    BY <2>2, <2>3
  <2> HIDE DEF l, u
  <2>5. u # <<>>
    BY <2>3, <2>4
  <2> QED BY <1>1, <2>5 DEF l, u
<1> QED BY <1>1, <1>2 DEF Owing

\* Bytes move from the pipe to the decoder: on the way they stay.
LEMMA ReadChunkOwing ==
  ASSUME SessionInv, Owing, NEW n \in Chunks, ReadChunk(n)
  PROVE  Owing'
<1>1. /\ n \in 1..Len(stdout) /\ buffer' = buffer \o SubSeq(stdout, 1, n)
      /\ stdout' = SubSeq(stdout, n + 1, Len(stdout))
      /\ UNCHANGED <<main, unwritten, owed, step, frames, handled, alive, serving>>
  BY DEF ReadChunk, childVars
<1>2. buffer \in Seq(Byte) /\ stdout \in Seq(Byte)
  BY DEF SessionInv, TypeOK
<1>3. buffer' \o stdout' = buffer \o stdout
  BY <1>1, <1>2, ChunkMoved
<1> QED BY <1>1, <1>3, OwingKept

\* A frame leaves the decoder and waits for recv().
LEMMA ReadFrameOwing ==
  ASSUME SessionInv, Owing, ReadFrame
  PROVE  Owing'
<1>1. /\ frames' = Append(frames, Parse(Frame(buffer)))
      /\ UNCHANGED <<main, unwritten>> /\ frames \in Seq(Messages)
  BY DEF ReadFrame, SessionInv, TypeOK
<1>2. frames' # <<>>
  BY <1>1
<1> QED BY <1>1, <1>2 DEF Owing

\* The first reply, which is owed before anything was sent.
LEMMA HelloOwing ==
  ASSUME SessionInv, Owing, Hello
  PROVE  Owing'
<1>1. serving = "start" /\ Reply(<<"hello">>) /\ UNCHANGED <<main, unwritten, alive, buffer>>
  BY DEF Hello, parentVars
<1>2. buffer = <<>> /\ stdout = <<>>
  BY <1>1 DEF SessionInv, Answering
<1>3. "hello" \in Messages
  BY SessionAssumption
<1>4. ASSUME alive' PROVE buffer' \o stdout' # <<>>
  <2>1. stdout' = stdout \o Wire(<<"hello">>)
    BY <1>1, <1>4 DEF Reply
  <2>2. Wire(<<"hello">>) \in Seq(Byte) /\ Wire(<<"hello">>) # <<>>
    BY <1>3, WireFacts, EncodedThere
  <2> DEFINE x == Wire(<<"hello">>)
  <2> HIDE DEF x
  <2>3. x \in Seq(Byte) /\ x # <<>> /\ stdout' = <<>> \o x /\ buffer' = <<>>
    BY <1>1, <1>2, <2>1, <2>2 DEF x
  <2>4. <<>> \o x = x
    BY <2>3, BytesJoined, Zenon
  <2> QED BY <2>3, <2>4
<1> QED BY <1>1, <1>4 DEF Owing

\* The last message handled is the last one sent, and its reply is the one that is owed.
LEMMA HandleFrameOwing ==
  ASSUME SessionInv, SessionInv', Owing, HandleFrame
  PROVE  Owing'
<1> DEFINE x == Parse(Frame(child_buffer))
<1>1. /\ handled' = Append(handled, x)
      /\ IF x = Garbage THEN Exit("2") /\ UNCHANGED stdout ELSE Reply(Handle(x))
      /\ UNCHANGED <<scenario, step, owed, main, unwritten, frames, buffer, alive>>
  BY DEF HandleFrame, parentVars
<1> HIDE DEF x
<1>2. /\ handled \in Seq(Messages) /\ Len(handled) \in Nat /\ handled' \in Seq(Messages)
      /\ step \in 0..Len(scenario) /\ Len(scenario) \in Nat /\ scenario \in Scenarios
      /\ buffer \in Seq(Byte) /\ stdout \in Seq(Byte)
  BY ScenarioFacts DEF SessionInv, TypeOK
<1>3. /\ Len(handled') = Len(handled) + 1 /\ handled'[Len(handled) + 1] = x
      /\ Len(handled') <= step
  <2>1. Len(handled') = Len(handled) + 1 /\ handled'[Len(handled) + 1] = x
    BY <1>1, <1>2
  <2>2. Len(handled') <= step
    BY <1>1 DEF SessionInv, Feeding
  <2> QED BY <2>1, <2>2
<1>4. /\ Len(handled) < step /\ buffer = <<>> /\ stdout = <<>>
      /\ owed = Len(Handle(scenario[step][1]))
  BY <1>2, <1>3 DEF SessionInv, Answering
<1>5. ASSUME alive', owed' # 0, serving' = "serving", Len(handled') = step'
      PROVE  buffer' \o stdout' # <<>>
  <2>1. x = scenario[step][1]
    <3>1. handled' = Between(0, Len(handled))'
      BY DEF SessionInv, Feeding
    <3>2. handled' = [n \in 1..(step - 0) |-> scenario[0 + n][1]]
      BY <1>1, <1>5, <3>1 DEF Between
    <3>3. step \in 1..(step - 0) /\ 0 + step = step /\ Len(handled) + 1 = step
      BY <1>1, <1>2, <1>3, <1>5
    <3>4. handled'[step] = scenario[step][1]
      BY <3>2, <3>3
    <3> QED BY <1>3, <3>3, <3>4
  <2>2. x \in Messages
    <3>1. step \in 1..Len(scenario)
      BY <1>2, <1>4
    <3> QED BY <1>2, <2>1, <3>1, ScenarioFacts
  <2>3. PICK y \in Messages : Handle(x) = <<y>>
    BY <1>1, <1>4, <1>5, <2>1, <2>2, HandleFacts
  <2>4. stdout' = stdout \o Wire(Handle(x))
    BY <1>1, <1>5 DEF Reply, Exit
  <2>5. Wire(Handle(x)) \in Seq(Byte) /\ Wire(Handle(x)) # <<>>
    BY <2>3, WireFacts, EncodedThere
  <2> DEFINE z == Wire(Handle(x))
  <2> HIDE DEF z
  <2>6. z \in Seq(Byte) /\ z # <<>> /\ stdout' = <<>> \o z /\ buffer' = <<>>
    BY <1>1, <1>4, <2>4, <2>5 DEF z
  <2>7. <<>> \o z = z
    BY <2>6, BytesJoined, Zenon
  <2> QED BY <2>6, <2>7
<1> QED BY <1>1, <1>5 DEF Owing

\* Owing holds from the start: only a handled message makes a reply due, and its handler writes it.
LEMMA OwingInvariant == Spec => []Owing
<1>1. Init => Owing
  BY DEF Init, Owing
<1>2. SessionInv /\ SessionInv' /\ Owing /\ [Next]_vars => Owing'
  <2> SUFFICES ASSUME SessionInv, SessionInv', Owing, [Next]_vars PROVE Owing'
    OBVIOUS
  <2>1. CASE ParentStep
    <3>1. CASE NextMessage BY <3>1, NextMessageOwing
    <3>2. CASE Recv
      <4>1. owed' = 0 /\ main' = "recv"
        <5>1. owed' = owed - 1 /\ owed # 0 /\ main' = "recv"
          BY <3>2 DEF Recv, Answered
        <5>2. owed \in Nat /\ owed <= 1
          BY DEF SessionInv, TypeOK, Answering
        <5> QED BY <5>1, <5>2
      <4> QED BY <4>1 DEF Owing
    <3>3. CASE Fail
      BY <3>3 DEF Fail, Owing, childVars
    <3>4. CASE ReadFrame BY <3>4, ReadFrameOwing
    <3>5. ASSUME NEW n \in Chunks, Write(n) \/ ReadChunk(n) PROVE Owing'
      BY <3>5, WriteOwing, ReadChunkOwing
    <3> QED BY <2>1, <3>1, <3>2, <3>3, <3>4, <3>5 DEF ParentStep
  <2>2. CASE ChildStep
    <3>1. CASE Hello BY <3>1, HelloOwing
    <3>2. CASE HandleFrame BY <3>2, HandleFrameOwing
    <3>3. CASE FrameTooLarge \/ EndOfInput
      BY <3>3 DEF FrameTooLarge, EndOfInput, Exit, Owing, parentVars
    <3>4. ASSUME NEW n \in Chunks, ChildReads(n) PROVE Owing'
      BY <3>4 DEF ChildReads, Owing, parentVars
    <3> QED BY <2>2, <3>1, <3>2, <3>3, <3>4 DEF ChildStep
  <2>3. CASE Die
    BY <2>3 DEF Die, Owing, parentVars, childVars
  <2>4. CASE UNCHANGED vars
    BY <2>4 DEF vars, Owing, parentVars, childVars
  <2> QED BY <2>1, <2>2, <2>3, <2>4 DEF Next
<1> QED BY <1>1, <1>2, SessionInductive, PTL DEF Spec

\* The guards of the steps of either side.
Running == serving \in {"start", "serving"}
SomeoneCanMove ==
  \/ main = "send" /\ (Running => unwritten # <<>>)
  \/ main = "recv" /\ (Answered \/ frames # <<>> \/ HasFrame(buffer) \/ stdout # <<>> \/ ~Running)
  \/ serving = "start"
  \/ serving = "serving" /\ (HasFrame(child_buffer) \/ TooLarge(child_buffer) \/ stdin # <<>>)

\* What the agent replies fits a frame.
RepliesFit ==
  \A m \in {"hello", "ready", "decision", "error_fail", "error_unexpected"} :
    Len(Payload[m]) <= MaxFrameSize

\* When the child has nothing to do it has handled all that was sent.
LEMMA NothingToHandle ==
  ASSUME SessionInv, unwritten = <<>>, stdin = <<>>, ~HasFrame(child_buffer), ~TooLarge(child_buffer)
  PROVE  Len(handled) = step
<1> USE DEF SessionInv
<1>1. /\ child_buffer \in Seq(Byte) /\ scenario \in Scenarios /\ scenario \in Seq(Messages \X Nat)
      /\ Len(scenario) \in Nat /\ step \in Nat /\ step <= Len(scenario)
      /\ Len(handled) \in Nat /\ Len(handled) <= step
  BY ScenarioFacts DEF TypeOK, Feeding
<1>2. child_buffer = <<>>
  <2>1. SUFFICES ASSUME child_buffer # <<>> PROVE FALSE
    OBVIOUS
  <2> DEFINE m == scenario[Len(handled) + 1][1]
             w == Wire(Between(Len(handled) + 1, step))
             r == stdin \o unwritten
  <2>2. /\ m \in Messages /\ r \in Seq(Byte) /\ w \in Seq(Byte)
        /\ child_buffer \o r = Encoded(m) \o w
    BY <2>1, NextForChild
  <2>3. r = <<>>
    BY BytesJoined
  <2> HIDE DEF m, w, r
  <2>4. HasFrame(child_buffer) \/ TooLarge(child_buffer)
    BY <1>1, <2>2, <2>3, StreamHead
  <2> QED BY <2>4
<1>3. Wire(Between(Len(handled), step)) = <<>>
  <2>1. (<<>> \o <<>>) \o <<>> = <<>>
    BY BytesJoined
  <2> QED BY <1>2, <2>1 DEF Feeding
<1>4. SUFFICES ASSUME Len(handled) < step PROVE FALSE
  BY <1>1
<1> DEFINE h == Len(handled)
           m == scenario[h + 1][1]
           one == <<m>>
           b == Between(h + 1, step)
<1> HIDE DEF h
<1>5. /\ h \in Nat /\ h + 1 \in Nat /\ h + 1 <= step /\ h + 1 \in 1..Len(scenario)
      /\ h <= step /\ h < step
  BY <1>1, <1>4 DEF h
<1>6. m \in Messages /\ b \in Seq(Messages) /\ Between(h, step) = one \o b
  BY <1>1, <1>5, BetweenFacts
<1>7. one \in Seq(Messages) /\ Wire(one) = Encoded(m)
  BY <1>6, WireFacts
<1>8. Encoded(m) \in Seq(Byte) /\ Encoded(m) # <<>> /\ Wire(b) \in Seq(Byte)
  BY <1>6, EncodedThere, WireFacts
<1> HIDE DEF m, one, b
<1>9. Wire(one \o b) = Wire(one) \o Wire(b)
  BY <1>6, <1>7, WireFacts, Zenon
<1>10. Encoded(m) \o Wire(b) = <<>>
  BY <1>3, <1>6, <1>7, <1>9 DEF h
<1> QED BY <1>8, <1>10, BytesCancel, Zenon

\* A reply that is on its way and all here is a frame.
LEMMA ReplyComplete ==
  ASSUME SessionInv, RepliesFit, frames = <<>>, stdout = <<>>, buffer \o stdout # <<>>
  PROVE  HasFrame(buffer)
<1> USE DEF SessionInv
<1>1. buffer \in Seq(Byte)
  BY DEF TypeOK
<1>2. buffer # <<>> /\ buffer = Wire(Pending)
  <2>1. buffer \o <<>> = buffer
    BY <1>1, BytesJoined, Zenon
  <2>2. buffer # <<>>
    BY <2>1
  <2> QED BY <2>1, <2>2 DEF Answering
<1>3. PICK p \in Messages : Pending = <<p>>
  <2>1. Pending # <<>>
    BY <1>2, WireFacts
  <2> QED BY <2>1, PendingFacts
<1>4. Len(Payload[p]) <= MaxFrameSize /\ Len(Payload[p]) \in Nat
  <2>1. p \in {"hello", "ready", "decision", "error_fail", "error_unexpected"}
    BY <1>3 DEF Pending, Handle
  <2>2. Payload[p] \in Seq(Byte)
    BY SessionAssumption
  <2> QED BY <2>1, <2>2 DEF RepliesFit
<1>5. /\ Encoded(p) \in Seq(Byte) /\ buffer = Encoded(p)
      /\ buffer \o <<>> = Encoded(p) \o <<>> /\ <<>> \in Seq(Byte)
  BY <1>1, <1>2, <1>3, WireFacts, BytesJoined
<1>6. HasFrame(buffer) \/ TooLarge(buffer)
  BY <1>1, <1>5, StreamHead
<1>7. TooLarge(buffer) => Len(Payload[p]) > MaxFrameSize
  BY <1>1, <1>5, StreamHead
<1> QED BY <1>4, <1>6, <1>7, CodecAssumption

\* Parent and child never wait for each other: as long as the parent lives and has not got
\* through its scenario, one of the two has a step to take, however the bytes are cut
\* (recv() in run_subprocess_transcript, read() in serve_stdio).
THEOREM NoStandoff ==
  ASSUME RepliesFit
  PROVE  Spec => [](alive /\ main \notin {"done", "failed"} => SomeoneCanMove)
<1>1. SessionInv /\ Owing => (alive /\ main \notin {"done", "failed"} => SomeoneCanMove)
  <2> SUFFICES ASSUME SessionInv, Owing, alive, main \notin {"done", "failed"}, ~SomeoneCanMove
               PROVE  FALSE
    OBVIOUS
  <2>1. main = "recv"
    BY DEF SessionInv, TypeOK, SomeoneCanMove, Owing
  <2>2. /\ ~Answered /\ frames = <<>> /\ ~HasFrame(buffer) /\ stdout = <<>>
        /\ serving = "serving" /\ stdin = <<>> /\ ~HasFrame(child_buffer) /\ ~TooLarge(child_buffer)
    BY <2>1 DEF SomeoneCanMove, Running
  <2>3. unwritten = <<>>
    BY <2>1 DEF SessionInv, Feeding
  <2>4. Len(handled) = step
    BY <2>2, <2>3, NothingToHandle
  <2>5. buffer \o stdout # <<>>
    BY <2>2, <2>4 DEF Owing, Answered
  <2> QED BY <2>2, <2>5, ReplyComplete
<1> QED BY <1>1, SessionInductive, OwingInvariant, PTL
=============================================================================
