---------------------------- MODULE SequenceLemmas ----------------------------
(***************************************************************************)
(* What the proofs about sequences need of recursion. Induction is over a  *)
(* set of numbers, and the step of a recursion is a function: a theorem    *)
(* about every operator could be stated, but not used by the provers.      *)
(***************************************************************************)
EXTENDS Naturals, Sequences, SequencesExt, FiniteSets, FiniteSetsExt, Lists, Texts,
        FiniteSetTheorems, SequenceTheorems, WellFoundedInduction, TLAPS

-----------------------------------------------------------------------------
(* Induction *)

(* A set of numbers that holds 0 and with every number the next one holds    *)
(* all of them.                                                              *)
LEMMA SetInduction ==
    ASSUME NEW S, 0 \in S, \A n \in Nat : n \in S => n + 1 \in S
    PROVE  \A n \in Nat : n \in S
  <1> DEFINE T == {n \in Nat : n \notin S}
  <1>1. SUFFICES ASSUME T # {} PROVE FALSE
    OBVIOUS
  <1>2. PICK m \in T : \A y \in T : ~(<<y, m>> \in OpToRel(<, Nat))
    BY <1>1, NatLessThanWellFounded, WFMin, Zenon
  <1>3. \A y \in T : ~(y < m)
    BY <1>2 DEF OpToRel
  <1>4. m \in Nat /\ m \notin S /\ m # 0
    OBVIOUS
  <1>5. m - 1 \in Nat /\ m - 1 < m /\ (m - 1) + 1 = m
    BY <1>4
  <1>6. m - 1 \in T
    BY <1>4, <1>5
  <1> QED
    BY <1>3, <1>5, <1>6

(* The least of a set of numbers. *)
LEMMA MinOf ==
    ASSUME NEW S \in SUBSET Nat, S # {}
    PROVE  Min(S) \in S /\ \A i \in S : Min(S) <= i
  <1>1. PICK m \in S : \A y \in S : ~(<<y, m>> \in OpToRel(<, Nat))
    BY NatLessThanWellFounded, WFMin, Zenon
  <1>2. \A y \in S : ~(y < m)
    BY <1>1 DEF OpToRel
  <1>3. \A y \in S : m <= y
    BY <1>2
  <1> QED
    BY <1>3 DEF Min

(* The greatest of a bounded one. *)
LEMMA MaxOf ==
    ASSUME NEW n \in Nat, NEW S \in SUBSET (0..n), S # {}
    PROVE  Max(S) \in S /\ \A i \in S : i <= Max(S)
  <1> DEFINE Above == {m \in Nat : \A i \in S : m >= i}
  <1>1. n \in Above /\ Above \subseteq Nat
    OBVIOUS
  <1>2. Min(Above) \in Above /\ \A m \in Above : Min(Above) <= m
    BY <1>1, MinOf, Zenon
  <1> DEFINE m == Min(Above)
  <1>3. m \in Nat /\ \A i \in S : i \in Nat /\ m >= i
    BY <1>2
  <1>4. m \in S
    <2>1. SUFFICES ASSUME m \notin S PROVE FALSE
      OBVIOUS
    <2>2. PICK i \in S : TRUE
      OBVIOUS
    <2>3. m > i /\ i \in Nat
      BY <1>3, <2>1, <2>2
    <2>4. m - 1 \in Nat /\ ~(m <= m - 1)
      BY <1>3, <2>3
    <2>5. \A j \in S : m - 1 >= j
      BY <1>3, <2>1
    <2> QED
      BY <1>2, <2>4, <2>5
  <1> HIDE DEF m
  <1>5. \E x \in S : \A y \in S : x >= y
    BY <1>3, <1>4
  <1>6. Max(S) \in S /\ \A i \in S : Max(S) >= i
    BY <1>5, Zenon DEF Max
  <1> QED
    BY <1>3, <1>6

-----------------------------------------------------------------------------
(* Recursion *)

(* g says how to go on from a value of V at each of N places ... *)
IsStep(g, V, N) == g \in [V \X (1..N) -> V]

(* ... and f goes on like that, from b. *)
IsPath(f, g, b, V, N) ==
    /\ f \in [0..N -> V]
    /\ f[0] = b
    /\ \A k \in 1..N : f[k] = g[<<f[k - 1], k>>]

(* What is built step by step exists. *)
LEMMA PathExists ==
    ASSUME NEW N \in Nat, NEW V, NEW b \in V, NEW g, IsStep(g, V, N)
    PROVE  \E f : IsPath(f, g, b, V, N)
  <1> DEFINE Up(n) == \E f \in [0..n -> V] :
                         f[0] = b /\ \A k \in 1..n : f[k] = g[<<f[k - 1], k>>]
             S == {n \in Nat : n <= N => Up(n)}
  <1> USE DEF IsStep
  <1>1. 0 \in S
    <2> DEFINE f == [k \in 0..0 |-> b]
    <2>1. f \in [0..0 -> V] /\ f[0] = b
      OBVIOUS
    <2>2. 1..0 = {}
      OBVIOUS
    <2> HIDE DEF f
    <2>3. Up(0)
      BY <2>1, <2>2
    <2> QED
      BY <2>3
  <1>2. ASSUME NEW n \in Nat, n \in S PROVE n + 1 \in S
    <2>1. SUFFICES ASSUME n + 1 <= N PROVE Up(n + 1)
      OBVIOUS
    <2>2. PICK f \in [0..n -> V] : f[0] = b /\ \A k \in 1..n : f[k] = g[<<f[k - 1], k>>]
      BY <1>2, <2>1
    <2> DEFINE h == [k \in 0..(n + 1) |-> IF k = n + 1 THEN g[<<f[n], k>>] ELSE f[k]]
    <2>3. f[n] \in V /\ n + 1 \in 1..N
      BY <2>1
    <2>4. g[<<f[n], n + 1>>] \in V
      BY <2>3
    <2>5. h \in [0..(n + 1) -> V]
      BY <2>4
    <2>6. h[0] = b
      BY <2>2
    <2>7. ASSUME NEW k \in 1..(n + 1) PROVE h[k] = g[<<h[k - 1], k>>]
      <3>1. CASE k = n + 1
        BY <3>1
      <3>2. CASE k # n + 1
        <4>1. k \in 1..n /\ k - 1 \in 0..n /\ k - 1 # n + 1 /\ k \in 0..(n + 1)
              /\ k - 1 \in 0..(n + 1)
          BY <3>2
        <4> QED
          BY <2>2, <4>1
      <3> QED
        BY <3>1, <3>2
    <2> HIDE DEF h
    <2> QED
      BY <2>5, <2>6, <2>7
  <1> HIDE DEF S
  <1>3. N \in S
    BY <1>1, <1>2, SetInduction, Zenon
  <1> QED
    BY <1>3 DEF S, IsPath

(* What the numbers up to k are made of. *)
LEMMA UpTo ==
    ASSUME NEW k \in Nat, k # 0
    PROVE  /\ Max(1..k) = k
           /\ (1..k) \ {k} = 1..(k - 1)
           /\ 1..k # {}
  <1> DEFINE D == 1..k
  <1>1. D \in SUBSET (0..k) /\ k \in D /\ D # {}
    <2>1. k \in D
      OBVIOUS
    <2> QED
      BY <2>1
  <1>2. Max(D) \in D /\ \A i \in D : i <= Max(D)
    BY <1>1, MaxOf
  <1>3. Max(D) = k
    BY <1>1, <1>2
  <1>4. D \ {k} = 1..(k - 1)
    OBVIOUS
  <1> QED
    BY <1>1, <1>3, <1>4

(* The function on the sets of places by which FoldLeft is defined ... *)
IsFold(it, g, b, V, N) ==
    /\ it \in [SUBSET (1..N) -> V]
    /\ it = [s \in SUBSET (1..N) |->
               IF s = {} THEN b ELSE g[<<it[s \ {Max(s)}], Max(s)>>]]

(* ... exists. *)
LEMMA FoldExists ==
    ASSUME NEW N \in Nat, NEW V, NEW b \in V, NEW g, IsStep(g, V, N)
    PROVE  \E it : IsFold(it, g, b, V, N)
  <1> DEFINE P == SUBSET (1..N)
             W == [P -> V]
             From(w) == [s \in P |-> IF s = {} THEN b ELSE g[<<w[s \ {Max(s)}], Max(s)>>]]
             G == [p \in W \X (1..N) |-> From(p[1])]
  <1>0. g \in [V \X (1..N) -> V]
    BY DEF IsStep
  <1>1. ASSUME NEW k \in 0..N, NEW s \in SUBSET (1..k), s # {}
        PROVE  /\ Max(s) \in s
               /\ s \ {Max(s)} \in SUBSET (1..(k - 1))
               /\ s \in P /\ s \ {Max(s)} \in P /\ Max(s) \in 1..N
    <2>1. s \in SUBSET (0..k) /\ k \in Nat
      OBVIOUS
    <2>2. Max(s) \in s /\ \A i \in s : i <= Max(s)
      BY <1>1, <2>1, MaxOf
    <2>3. ASSUME NEW i \in s, i # Max(s) PROVE i \in 1..(k - 1)
      <3>1. i \in 1..k /\ Max(s) \in 1..k /\ i <= Max(s)
        BY <2>2
      <3> QED
        BY <2>3, <3>1
    <2>4. 1..k \subseteq 1..N
      OBVIOUS
    <2>5. s \in P /\ s \ {Max(s)} \in P /\ Max(s) \in 1..N
      BY <2>2, <2>4
    <2> QED
      BY <2>2, <2>3, <2>5
  <1>2. ASSUME NEW w \in W PROVE From(w) \in W
    <2>1. ASSUME NEW s \in P, s # {} PROVE g[<<w[s \ {Max(s)}], Max(s)>>] \in V
      <3>1. s \in SUBSET (1..N) /\ N \in 0..N
        OBVIOUS
      <3>2. s \ {Max(s)} \in P /\ Max(s) \in 1..N
        BY <1>1, <2>1, <3>1
      <3>3. w[s \ {Max(s)}] \in V
        BY <3>2
      <3> QED
        BY <1>0, <3>2, <3>3
    <2> QED
      BY <2>1
  <1> DEFINE w0 == [s \in P |-> b]
  <1>3. w0 \in W /\ G \in [W \X (1..N) -> W]
    BY <1>2
  <1> HIDE DEF w0
  <1>4. PICK st \in [0..N -> W] : st[0] = w0 /\ \A k \in 1..N : st[k] = G[<<st[k - 1], k>>]
    <2>1. w0 \in W /\ IsStep(G, W, N)
      BY <1>3 DEF IsStep
    <2> HIDE DEF W, G, P, From
    <2>2. \E f : IsPath(f, G, w0, W, N)
      BY <2>1, PathExists
    <2> QED
      BY <2>2 DEF IsPath
  <1>5. \A k \in 1..N : st[k] = From(st[k - 1])
    <2> TAKE k \in 1..N
    <2>1. st[k - 1] \in W /\ <<st[k - 1], k>> \in W \X (1..N)
      <3>1. k - 1 \in 0..N
        OBVIOUS
      <3> QED
        BY <3>1
    <2> QED
      BY <1>4, <2>1
  <1> HIDE DEF G
  <1>6. ASSUME NEW k \in 1..N, NEW s \in P
        PROVE  st[k][s] = IF s = {} THEN b ELSE g[<<st[k - 1][s \ {Max(s)}], Max(s)>>]
    <2> DEFINE w == st[k - 1]
    <2>1. st[k] = From(w)
      BY <1>5
    <2> HIDE DEF w, P
    <2>2. From(w)[s] = IF s = {} THEN b ELSE g[<<w[s \ {Max(s)}], Max(s)>>]
      OBVIOUS
    <2> QED
      BY <2>1, <2>2, Zenon DEF w
  <1>7. st[0][{}] = b
    BY <1>4 DEF w0
  <1> HIDE DEF From
  <1> DEFINE K == {k \in Nat : k < N => \A s \in SUBSET (1..k) : st[k + 1][s] = st[k][s]}
  <1>8. 0 \in K
    <2>1. SUFFICES ASSUME 0 < N PROVE \A s \in SUBSET (1..0) : st[0 + 1][s] = st[0][s]
      OBVIOUS
    <2>2. 1..0 = {} /\ 0 + 1 = 1 /\ 1 \in 1..N /\ {} \in P
      BY <2>1
    <2>3. st[1][{}] = b
      BY <1>6, <2>2
    <2> QED
      BY <1>7, <2>2, <2>3
  <1>9. ASSUME NEW k \in Nat, k \in K PROVE k + 1 \in K
    <2>1. SUFFICES ASSUME k + 1 < N, NEW s \in SUBSET (1..(k + 1))
                   PROVE  st[k + 1 + 1][s] = st[k + 1][s]
      OBVIOUS
    <2>2. /\ k + 1 \in 1..N /\ k + 1 + 1 \in 1..N /\ (k + 1) - 1 = k /\ (k + 1 + 1) - 1 = k + 1
          /\ k < N /\ k + 1 \in 0..N
      BY <2>1
    <2>3. s \in P
      BY <2>2
    <2>4. CASE s = {}
      BY <1>6, <2>2, <2>3, <2>4
    <2>5. CASE s # {}
      <3>1. s \ {Max(s)} \in SUBSET (1..k)
        BY <1>1, <2>2, <2>5
      <3>2. st[k + 1][s \ {Max(s)}] = st[k][s \ {Max(s)}]
        BY <1>9, <2>2, <3>1
      <3>3. st[k + 1 + 1][s] = g[<<st[k + 1][s \ {Max(s)}], Max(s)>>]
        BY <1>6, <2>2, <2>3, <2>5
      <3>4. st[k + 1][s] = g[<<st[k][s \ {Max(s)}], Max(s)>>]
        BY <1>6, <2>2, <2>3, <2>5
      <3> QED
        BY <3>2, <3>3, <3>4
    <2> QED
      BY <2>4, <2>5
  <1> HIDE DEF K
  <1>10. \A k \in Nat : k \in K
    BY <1>8, <1>9, SetInduction, Zenon
  <1>11. ASSUME NEW s \in P
         PROVE  st[N][s] = IF s = {} THEN b ELSE g[<<st[N][s \ {Max(s)}], Max(s)>>]
    <2>1. CASE N = 0
      <3>1. s = {} /\ {} \in P
        BY <2>1
      <3> QED
        BY <1>7, <2>1, <3>1
    <2>2. CASE N # 0
      <3>1. N \in 1..N /\ N - 1 \in Nat /\ N - 1 < N /\ (N - 1) + 1 = N /\ N \in 0..N
        BY <2>2
      <3>2. st[N][s] = IF s = {} THEN b ELSE g[<<st[N - 1][s \ {Max(s)}], Max(s)>>]
        BY <1>6, <3>1
      <3>3. CASE s # {}
        <4>1. s \ {Max(s)} \in SUBSET (1..(N - 1))
          BY <1>1, <3>1, <3>3
        <4>2. st[(N - 1) + 1][s \ {Max(s)}] = st[N - 1][s \ {Max(s)}]
          BY <1>10, <3>1, <4>1 DEF K
        <4> QED
          BY <3>1, <3>2, <4>2
      <3> QED
        BY <3>2, <3>3
    <2> QED
      BY <2>1, <2>2
  <1>12. st[N] \in W
    <2>1. N \in 0..N
      OBVIOUS
    <2> HIDE DEF W
    <2> QED
      BY <1>4, <2>1
  <1> DEFINE it == st[N]
  <1>13. it = [s \in P |-> IF s = {} THEN b ELSE g[<<it[s \ {Max(s)}], Max(s)>>]]
    <2> HIDE DEF it
    <2>1. it \in [P -> V]
      BY <1>12 DEF it
    <2>2. \A s \in P : it[s] = IF s = {} THEN b ELSE g[<<it[s \ {Max(s)}], Max(s)>>]
      BY <1>11 DEF it
    <2> HIDE DEF P
    <2> QED
      BY <2>1, <2>2
  <1> QED
    BY <1>12, <1>13 DEF IsFold

(* What it is applied to. *)
LEMMA FoldArguments ==
    ASSUME NEW N \in Nat, NEW V, NEW b, NEW g, NEW it, IsFold(it, g, b, V, N),
           NEW s \in SUBSET (1..N), s # {}
    PROVE  /\ Max(s) \in 1..N /\ s \ {Max(s)} \in SUBSET (1..N)
           /\ it[s \ {Max(s)}] \in V
  <1>1. s \in SUBSET (0..N)
    OBVIOUS
  <1>2. Max(s) \in s
    BY <1>1, MaxOf
  <1>3. s \ {Max(s)} \in SUBSET (1..N) /\ Max(s) \in 1..N
    BY <1>2
  <1> DEFINE P == SUBSET (1..N)
  <1>4. it \in [P -> V]
    BY DEF IsFold
  <1> HIDE DEF P
  <1>5. \A r \in P : it[r] \in V
    BY <1>4
  <1> QED
    BY <1>3, <1>5 DEF P

(* A fold over 1..N ends where the path of its steps ends. *)
LEMMA FoldPath ==
    ASSUME NEW N \in Nat, NEW V, NEW b \in V, NEW g, IsStep(g, V, N),
           NEW c, c[{}] = b,
           \A k \in 1..N : c[1..(k - 1)] \in V => c[1..k] = g[<<c[1..(k - 1)], k>>]
    PROVE  \E f : IsPath(f, g, b, V, N) /\ c[1..N] = f[N]
  <1>1. PICK f : IsPath(f, g, b, V, N)
    BY PathExists
  <1>2. f \in [0..N -> V] /\ f[0] = b /\ \A k \in 1..N : f[k] = g[<<f[k - 1], k>>]
    BY <1>1 DEF IsPath
  <1> DEFINE K == {k \in Nat : k <= N => c[1..k] = f[k]}
  <1>3. 0 \in K
    <2>1. 1..0 = {}
      OBVIOUS
    <2> QED
      BY <1>2, <2>1
  <1>4. ASSUME NEW k \in Nat, k \in K PROVE k + 1 \in K
    <2>1. SUFFICES ASSUME k + 1 <= N PROVE c[1..(k + 1)] = f[k + 1]
      OBVIOUS
    <2>2. k + 1 \in 1..N /\ (k + 1) - 1 = k /\ k <= N /\ k \in 0..N
      BY <2>1
    <2>3. c[1..k] = f[k] /\ f[k] \in V
      BY <1>2, <1>4, <2>2
    <2>4. c[1..(k + 1)] = g[<<c[1..k], k + 1>>]
      <3>1. c[1..((k + 1) - 1)] \in V => c[1..(k + 1)] = g[<<c[1..((k + 1) - 1)], k + 1>>]
        BY <2>2
      <3> QED
        BY <2>2, <2>3, <3>1
    <2>5. f[k + 1] = g[<<f[k], k + 1>>]
      <3>1. f[k + 1] = g[<<f[(k + 1) - 1], k + 1>>]
        BY <1>2, <2>2
      <3> QED
        BY <2>2, <3>1
    <2> QED
      BY <2>3, <2>4, <2>5
  <1> HIDE DEF K
  <1>5. \A k \in Nat : k \in K
    BY <1>3, <1>4, SetInduction, Zenon
  <1>6. c[1..N] = f[N]
    BY <1>5 DEF K
  <1> QED
    BY <1>1, <1>6

-----------------------------------------------------------------------------
(* Flattening *)

(* Where the sequences of seqs stand in flat: the k-th begins after offs[k - 1]. *)
IsLayout(offs, flat, seqs) ==
    /\ offs \in [0..Len(seqs) -> Nat]
    /\ offs[0] = 0
    /\ offs[Len(seqs)] = Len(flat)
    /\ \A k \in 1..Len(seqs) : offs[k] = offs[k - 1] + Len(seqs[k])
    /\ \A k \in 1..Len(seqs), j \in Nat :
         j \in 1..Len(seqs[k]) =>
           offs[k - 1] + j \in 1..Len(flat) /\ flat[offs[k - 1] + j] = seqs[k][j]
    /\ \A i \in 1..Len(flat) :
         \E k \in 1..Len(seqs), j \in Nat : j \in 1..Len(seqs[k]) /\ i = offs[k - 1] + j

(* How FlattenSeq goes from one sequence to the next. *)
AppendStep(S, seqs) == [p \in Seq(S) \X (1..Len(seqs)) |-> p[1] \o seqs[p[2]]]

(* FlattenSeq is the end of the path that appends one sequence after the other. *)
LEMMA FlattenPath ==
    ASSUME NEW S, NEW seqs \in Seq(Seq(S))
    PROVE  \E f : /\ IsPath(f, AppendStep(S, seqs), <<>>, Seq(S), Len(seqs))
                  /\ FlattenSeq(seqs) = f[Len(seqs)]
  <1> DEFINE N == Len(seqs)
             g == AppendStep(S, seqs)
  <1>1. N \in Nat /\ \A k \in 1..N : seqs[k] \in Seq(S)
    OBVIOUS
  <1>2. IsStep(g, Seq(S), N)
    <2>1. \A s \in Seq(S), k \in 1..N : s \o seqs[k] \in Seq(S)
      BY <1>1
    <2> QED
      BY <2>1 DEF IsStep, AppendStep
  <1>3. <<>> \in Seq(S)
    OBVIOUS
  <1> HIDE DEF g
  <1>4. PICK f : IsPath(f, g, <<>>, Seq(S), N)
    <2> HIDE DEF N
    <2> QED
      BY <1>1, <1>2, <1>3, PathExists
  <1>5. \A k \in 1..N : f[k - 1] \in Seq(S) /\ f[k] = f[k - 1] \o seqs[k]
    <2> TAKE k \in 1..N
    <2>1. f[k - 1] \in Seq(S)
      <3>1. k - 1 \in 0..N
        BY <1>1
      <3> QED
        BY <1>4, <3>1 DEF IsPath
    <2>2. f[k] = g[<<f[k - 1], k>>]
      BY <1>4 DEF IsPath
    <2> QED
      BY <2>1, <2>2 DEF g, AppendStep
  <1>6. f[0] = <<>>
    BY <1>4 DEF IsPath
  <1>7. CASE N = 0
    <2>1. seqs = <<>>
      BY <1>7
    <2>2. FlattenSeq(seqs) = seqs
      BY <1>7 DEF FlattenSeq
    <2> QED
      BY <1>4, <1>6, <1>7, <2>1, <2>2 DEF g
  <1>8. CASE N # 0
    <2> DEFINE IsIt(h) == h = [i \in 1..N |-> IF i = 1 THEN seqs[i] ELSE h[i - 1] \o seqs[i]]
               fl == [i \in 1..N |-> f[i]]
               c == CHOOSE h : IsIt(h)
    <2>0. f[1] = seqs[1]
      <3>1. 1 \in 1..N /\ 1 - 1 = 0
        BY <1>1, <1>8
      <3>2. f[1] = f[0] \o seqs[1] /\ seqs[1] \in Seq(S)
        BY <1>1, <1>5, <3>1
      <3> QED
        BY <1>6, <3>2
    <2>1. ASSUME NEW i \in 1..N
          PROVE  f[i] = IF i = 1 THEN seqs[i] ELSE fl[i - 1] \o seqs[i]
      <3>1. CASE i = 1
        BY <2>0, <3>1
      <3>2. CASE i # 1
        <4>1. i - 1 \in 1..N
          BY <1>1, <3>2
        <4> QED
          BY <1>5, <3>2, <4>1
      <3> QED
        BY <3>1, <3>2
    <2>2. IsIt(fl)
      BY <2>1
    <2>3. IsIt(c)
      <3> HIDE DEF IsIt, fl
      <3> QED
        BY <2>2, Zenon
    <2>4. FlattenSeq(seqs) = c[N]
      BY <1>8, Zenon DEF FlattenSeq
    <2> HIDE DEF c, fl
    <2>5. \A i \in 1..N : c[i] = IF i = 1 THEN seqs[i] ELSE c[i - 1] \o seqs[i]
      BY <2>3
    <2> DEFINE K == {k \in Nat : k \in 1..N => c[k] = f[k]}
    <2>6. 0 \in K
      OBVIOUS
    <2>7. ASSUME NEW k \in Nat, k \in K PROVE k + 1 \in K
      <3>1. SUFFICES ASSUME k + 1 \in 1..N PROVE c[k + 1] = f[k + 1]
        OBVIOUS
      <3>2. CASE k = 0
        <4>1. c[1] = seqs[1]
          BY <2>5, <3>1, <3>2
        <4> QED
          BY <2>0, <3>2, <4>1
      <3>3. CASE k # 0
        <4>1. k \in 1..N /\ k + 1 # 1 /\ (k + 1) - 1 = k
          BY <1>1, <3>1, <3>3
        <4>2. c[k] = f[k]
          BY <2>7, <4>1
        <4>3. c[k + 1] = c[k] \o seqs[k + 1]
          BY <2>5, <3>1, <4>1
        <4>4. f[k + 1] = f[k] \o seqs[k + 1]
          BY <1>5, <3>1, <4>1
        <4> QED
          BY <4>2, <4>3, <4>4
      <3> QED
        BY <3>2, <3>3
    <2> HIDE DEF K
    <2>8. \A k \in Nat : k \in K
      BY <2>6, <2>7, SetInduction, Zenon
    <2>9. N \in 1..N
      BY <1>1, <1>8
    <2> QED
      BY <1>1, <1>4, <2>4, <2>8, <2>9 DEF K, g
  <1> QED
    BY <1>7, <1>8

(* One sequence after another. *)
LEMMA Joined ==
    ASSUME NEW S, NEW s \in Seq(S), NEW t \in Seq(S)
    PROVE  /\ s \o t \in Seq(S)
           /\ Len(s \o t) = Len(s) + Len(t)
           /\ \A i \in 1..Len(s) : (s \o t)[i] = s[i]
           /\ \A j \in 1..Len(t) : (s \o t)[Len(s) + j] = t[j]
  <1>1. Len(s) \in Nat /\ Len(t) \in Nat
    OBVIOUS
  <1>2. ASSUME NEW j \in 1..Len(t) PROVE (s \o t)[Len(s) + j] = t[j]
    <2>1. Len(s) + j \in 1..(Len(s) + Len(t)) /\ Len(s) + j > Len(s)
          /\ (Len(s) + j) - Len(s) = j
      BY <1>1
    <2> QED
      BY <2>1
  <1> QED
    BY <1>1, <1>2

(* Nothing is lost, added or moved by flattening. *)
LEMMA Flattened ==
    ASSUME NEW S, NEW seqs \in Seq(Seq(S))
    PROVE  /\ FlattenSeq(seqs) \in Seq(S)
           /\ \E offs : IsLayout(offs, FlattenSeq(seqs), seqs)
  <1> DEFINE N == Len(seqs)
             flat == FlattenSeq(seqs)
  <1>1. N \in Nat /\ \A k \in 1..N : seqs[k] \in Seq(S)
    OBVIOUS
  <1>2. PICK f : /\ IsPath(f, AppendStep(S, seqs), <<>>, Seq(S), N)
                 /\ flat = f[N]
    BY FlattenPath
  <1>3. f[0] = <<>> /\ \A k \in 0..N : f[k] \in Seq(S)
    BY <1>2 DEF IsPath
  <1>4. \A k \in 1..N : k - 1 \in 0..N /\ f[k] = f[k - 1] \o seqs[k]
    <2> TAKE k \in 1..N
    <2>1. k - 1 \in 0..N
      BY <1>1
    <2>2. f[k - 1] \in Seq(S)
      BY <1>3, <2>1
    <2>3. f[k] = AppendStep(S, seqs)[<<f[k - 1], k>>]
      BY <1>2 DEF IsPath
    <2> QED
      BY <2>1, <2>2, <2>3 DEF AppendStep
  <1> HIDE DEF N, flat
  <1> DEFINE offs == [k \in 0..N |-> Len(f[k])]
  <1>5. ASSUME NEW k \in 1..N
        PROVE  /\ k - 1 \in 0..N /\ k \in 0..N
               /\ offs[k - 1] = Len(f[k - 1]) /\ offs[k - 1] \in Nat
               /\ Len(seqs[k]) \in Nat
               /\ offs[k] = offs[k - 1] + Len(seqs[k])
               /\ \A j \in 1..offs[k - 1] : f[k][j] = f[k - 1][j]
               /\ \A j \in 1..Len(seqs[k]) : f[k][offs[k - 1] + j] = seqs[k][j]
    <2>1. k - 1 \in 0..N /\ k \in 0..N
      BY <1>1
    <2>2. f[k - 1] \in Seq(S) /\ seqs[k] \in Seq(S) /\ f[k] = f[k - 1] \o seqs[k]
      BY <1>1, <1>3, <1>4
    <2>3. offs[k - 1] = Len(f[k - 1]) /\ offs[k] = Len(f[k])
      BY <2>1
    <2> HIDE DEF offs
    <2>4. Len(f[k - 1]) \in Nat /\ Len(seqs[k]) \in Nat
      BY <2>2
    <2>5. Len(f[k]) = Len(f[k - 1]) + Len(seqs[k])
      BY <2>2
    <2> DEFINE s == f[k - 1]
               t == seqs[k]
    <2>6. /\ \A i \in 1..Len(s) : (s \o t)[i] = s[i]
          /\ \A j \in 1..Len(t) : (s \o t)[Len(s) + j] = t[j]
      <3> HIDE DEF s, t
      <3>1. s \in Seq(S) /\ t \in Seq(S)
        BY <2>2 DEF s, t
      <3> QED
        BY <3>1, Joined
    <2>7. f[k] = s \o t
      BY <2>2
    <2>8. /\ \A j \in 1..Len(f[k - 1]) : f[k][j] = f[k - 1][j]
          /\ \A j \in 1..Len(seqs[k]) : f[k][Len(f[k - 1]) + j] = seqs[k][j]
      BY <2>6, <2>7, Zenon
    <2> QED
      BY <2>1, <2>3, <2>4, <2>5, <2>8
  <1>6. offs[0] = 0 /\ offs \in [0..N -> Nat] /\ offs[N] = Len(flat)
    <2>1. \A k \in 0..N : Len(f[k]) \in Nat
      BY <1>3
    <2>2. 0 \in 0..N /\ N \in 0..N /\ Len(<<>>) = 0
      BY <1>1
    <2> QED
      BY <1>2, <1>3, <2>1, <2>2
  <1> HIDE DEF offs
  <1> DEFINE Forth(k) == \A m \in 1..k, j \in Nat :
                 j \in 1..Len(seqs[m]) =>
                   offs[m - 1] + j \in 1..offs[k] /\ f[k][offs[m - 1] + j] = seqs[m][j]
             Back(k) == \A i \in 1..offs[k] :
                 \E m \in 1..k, j \in Nat : j \in 1..Len(seqs[m]) /\ i = offs[m - 1] + j
             K == {k \in Nat : k <= N => Forth(k) /\ Back(k)}
  <1>7. 0 \in K
    <2>1. 1..offs[0] = {} /\ 1..0 = {}
      BY <1>6
    <2>2. Forth(0) /\ Back(0)
      BY <2>1
    <2> QED
      BY <2>2
  <1>8. ASSUME NEW n \in Nat, n \in K PROVE n + 1 \in K
    <2>1. SUFFICES ASSUME n + 1 <= N PROVE Forth(n + 1) /\ Back(n + 1)
      OBVIOUS
    <2> DEFINE k == n + 1
    <2>2. k \in 1..N /\ k - 1 = n /\ n <= N /\ n \in 0..N
      BY <1>1, <2>1
    <2>3. Forth(n) /\ Back(n)
      BY <1>8, <2>2
    <2>4. /\ offs[n] \in Nat /\ Len(seqs[k]) \in Nat
          /\ offs[k] = offs[n] + Len(seqs[k])
          /\ \A j \in 1..offs[n] : f[k][j] = f[n][j]
          /\ \A j \in 1..Len(seqs[k]) : f[k][offs[n] + j] = seqs[k][j]
      BY <1>5, <2>2
    <2>5. Forth(k)
      <3> SUFFICES ASSUME NEW m \in 1..k, NEW j \in Nat, j \in 1..Len(seqs[m])
                   PROVE  /\ offs[m - 1] + j \in 1..offs[k]
                          /\ f[k][offs[m - 1] + j] = seqs[m][j]
        OBVIOUS
      <3>1. CASE m = k
        <4>1. m - 1 = n /\ offs[n] + j \in 1..offs[k]
          BY <2>2, <2>4, <3>1
        <4> QED
          BY <2>4, <3>1, <4>1
      <3>2. CASE m # k
        <4>1. m \in 1..n
          BY <3>2
        <4>2. offs[m - 1] + j \in 1..offs[n] /\ f[n][offs[m - 1] + j] = seqs[m][j]
          BY <2>3, <4>1
        <4>3. 1..offs[n] \subseteq 1..offs[k]
          BY <2>4
        <4> QED
          BY <2>4, <4>2, <4>3
      <3> QED
        BY <3>1, <3>2
    <2>6. Back(k)
      <3> SUFFICES ASSUME NEW i \in 1..offs[k]
                   PROVE  \E m \in 1..k, j \in Nat :
                             j \in 1..Len(seqs[m]) /\ i = offs[m - 1] + j
        OBVIOUS
      <3>1. CASE i <= offs[n]
        <4>1. i \in 1..offs[n]
          BY <2>4, <3>1
        <4>2. PICK m \in 1..n, j \in Nat : j \in 1..Len(seqs[m]) /\ i = offs[m - 1] + j
          BY <2>3, <4>1
        <4>3. m \in 1..k
          OBVIOUS
        <4> QED
          BY <4>2, <4>3
      <3>2. CASE i > offs[n]
        <4>1. i - offs[n] \in Nat /\ i - offs[n] \in 1..Len(seqs[k])
              /\ i = offs[n] + (i - offs[n]) /\ k \in 1..k
          BY <2>4, <3>2
        <4> QED
          BY <2>2, <4>1
      <3> QED
        BY <2>4, <3>1, <3>2
    <2> QED
      BY <2>5, <2>6
  <1> HIDE DEF K
  <1>9. N \in K
    BY <1>1, <1>7, <1>8, SetInduction, Zenon
  <1>10. Forth(N) /\ Back(N)
    <2>1. N <= N
      BY <1>1
    <2> HIDE DEF Forth, Back
    <2> QED
      BY <1>9, <2>1 DEF K
  <1>11. IsLayout(offs, flat, seqs)
    <2>1. \A k \in 1..N : offs[k] = offs[k - 1] + Len(seqs[k])
      BY <1>5
    <2>2. \A k \in 1..N, j \in Nat : j \in 1..Len(seqs[k]) =>
            offs[k - 1] + j \in 1..Len(flat) /\ flat[offs[k - 1] + j] = seqs[k][j]
      BY <1>2, <1>6, <1>10
    <2>3. \A i \in 1..Len(flat) :
            \E k \in 1..N, j \in Nat : j \in 1..Len(seqs[k]) /\ i = offs[k - 1] + j
      BY <1>6, <1>10
    <2> QED
      BY <1>6, <2>1, <2>2, <2>3 DEF IsLayout, N
  <1>12. flat \in Seq(S)
    <2>1. N \in 0..N
      BY <1>1
    <2> QED
      BY <1>2, <1>3, <2>1
  <1> QED
    BY <1>11, <1>12 DEF flat

(* A later sequence does not begin before an earlier one has ended. *)
LEMMA LayoutGrows ==
    ASSUME NEW offs, NEW flat, NEW S, NEW seqs \in Seq(Seq(S)), IsLayout(offs, flat, seqs),
           NEW m \in 0..Len(seqs), NEW n \in m..Len(seqs)
    PROVE  offs[m] \in Nat /\ offs[n] \in Nat /\ offs[m] <= offs[n]
  <1>1. /\ Len(seqs) \in Nat
        /\ \A k \in 1..Len(seqs) : Len(seqs[k]) \in Nat
    <2>1. \A k \in 1..Len(seqs) : seqs[k] \in Seq(S)
      OBVIOUS
    <2> QED
      BY <2>1
  <1>2. \A k \in 0..Len(seqs) : offs[k] \in Nat
    BY DEF IsLayout
  <1> DEFINE K == {d \in Nat : m + d <= Len(seqs) => offs[m] <= offs[m + d]}
  <1>3. 0 \in K
    <2>1. m + 0 = m /\ offs[m] \in Nat
      BY <1>2
    <2> QED
      BY <2>1
  <1>4. ASSUME NEW d \in Nat, d \in K PROVE d + 1 \in K
    <2>1. SUFFICES ASSUME m + (d + 1) <= Len(seqs) PROVE offs[m] <= offs[m + (d + 1)]
      OBVIOUS
    <2>2. /\ m + (d + 1) \in 1..Len(seqs) /\ (m + (d + 1)) - 1 = m + d
          /\ m + d \in 0..Len(seqs)
      BY <1>1, <2>1
    <2>3. offs[m] <= offs[m + d]
      BY <1>1, <1>4, <2>2
    <2>4. offs[m + (d + 1)] = offs[m + d] + Len(seqs[m + (d + 1)])
      BY <2>2 DEF IsLayout
    <2>5. /\ offs[m] \in Nat /\ offs[m + d] \in Nat
          /\ Len(seqs[m + (d + 1)]) \in Nat
      BY <1>1, <1>2, <2>2
    <2> QED
      BY <2>3, <2>4, <2>5
  <1> HIDE DEF K
  <1>5. n - m \in K
    <2>1. n - m \in Nat
      BY <1>1
    <2>2. \A d \in Nat : d \in K
      BY <1>3, <1>4, SetInduction, Zenon
    <2> QED
      BY <2>1, <2>2
  <1>6. m + (n - m) = n /\ n \in 0..Len(seqs)
    BY <1>1
  <1> QED
    BY <1>1, <1>2, <1>5, <1>6 DEF K

-----------------------------------------------------------------------------
(* Keeping *)

(* Where what is kept was in the list. *)
IsKept(at, kept, list, good) ==
    /\ at \in [1..Len(kept) -> 1..Len(list)]
    /\ \A k \in 1..Len(kept) : kept[k] = list[at[k]] /\ kept[k] \in good
    /\ \A j, k \in 1..Len(kept) : j < k => at[j] < at[k]
    /\ \A i \in 1..Len(list) : list[i] \in good => \E k \in 1..Len(kept) : at[k] = i

(* Kept leaves all that is good, once, and in order. *)
LEMMA KeptOf ==
    ASSUME NEW S, NEW list \in Seq(S), NEW good
    PROVE  /\ Kept(list, good) \in Seq(S)
           /\ \E at : IsKept(at, Kept(list, good), list, good)
  <1> DEFINE seqs == [i \in DOMAIN list |-> IF list[i] \in good THEN <<list[i]>> ELSE <<>>]
             kept == Kept(list, good)
             N == Len(list)
  <1>1. N \in Nat /\ DOMAIN list = 1..N /\ \A i \in 1..N : list[i] \in S
    OBVIOUS
  <1>2. seqs \in Seq(Seq(S)) /\ Len(seqs) = N
    <2>1. \A i \in 1..N : (IF list[i] \in good THEN <<list[i]>> ELSE <<>>) \in Seq(S)
      BY <1>1
    <2> QED
      BY <1>1, <2>1
  <1>3. \A i \in 1..N : /\ list[i] \in good => seqs[i] = <<list[i]>> /\ Len(seqs[i]) = 1
                        /\ list[i] \notin good => seqs[i] = <<>> /\ Len(seqs[i]) = 0
    BY <1>1
  <1>4. kept = FlattenSeq(seqs)
    BY DEF Kept
  <1> HIDE DEF seqs, kept, N
  <1>5. kept \in Seq(S) /\ \E offs : IsLayout(offs, kept, seqs)
    BY <1>2, <1>4, Flattened
  <1>6. PICK offs : IsLayout(offs, kept, seqs)
    BY <1>5
  <1>7. offs \in [0..N -> Nat] /\ Len(kept) \in Nat
    BY <1>2, <1>5, <1>6 DEF IsLayout
  <1>8. ASSUME NEW m \in 0..N, NEW n \in m..N PROVE offs[m] <= offs[n]
    BY <1>2, <1>6, LayoutGrows
  <1>9. ASSUME NEW i \in 1..N, list[i] \in good
        PROVE  /\ offs[i] = offs[i - 1] + 1 /\ offs[i] \in 1..Len(kept)
               /\ kept[offs[i]] = list[i]
    <2>1. offs[i] = offs[i - 1] + Len(seqs[i]) /\ Len(seqs[i]) = 1 /\ seqs[i][1] = list[i]
      BY <1>2, <1>3, <1>6, <1>9 DEF IsLayout
    <2>2. offs[i - 1] + 1 \in 1..Len(kept) /\ kept[offs[i - 1] + 1] = seqs[i][1]
      <3>1. 1 \in Nat /\ 1 \in 1..Len(seqs[i])
        BY <2>1
      <3> QED
        BY <1>2, <1>6, <3>1 DEF IsLayout
    <2> QED
      BY <2>1, <2>2
  <1>10. ASSUME NEW k \in 1..Len(kept)
         PROVE  \E i \in 1..N : list[i] \in good /\ offs[i] = k
    <2>1. PICK i \in 1..N, j \in Nat : j \in 1..Len(seqs[i]) /\ k = offs[i - 1] + j
      BY <1>2, <1>6 DEF IsLayout
    <2>2. list[i] \in good
      <3>1. SUFFICES ASSUME list[i] \notin good PROVE FALSE
        OBVIOUS
      <3>2. Len(seqs[i]) = 0
        BY <1>3, <3>1
      <3> QED
        BY <2>1, <3>2
    <2>3. j = 1
      <3>1. Len(seqs[i]) = 1
        BY <1>3, <2>2
      <3> QED
        BY <2>1, <3>1
    <2> QED
      BY <1>9, <2>1, <2>2, <2>3
  <1> DEFINE at == [k \in 1..Len(kept) |->
                      CHOOSE i \in 1..N : list[i] \in good /\ offs[i] = k]
  <1>11. \A k \in 1..Len(kept) : at[k] \in 1..N /\ list[at[k]] \in good /\ offs[at[k]] = k
    BY <1>10
  <1>12. at \in [1..Len(kept) -> 1..N]
    BY <1>11
  <1> HIDE DEF at
  <1>13. \A k \in 1..Len(kept) : kept[k] = list[at[k]] /\ kept[k] \in good
    BY <1>9, <1>11
  <1>14. ASSUME NEW j \in 1..Len(kept), NEW k \in 1..Len(kept), j < k
         PROVE  at[j] < at[k]
    <2>1. SUFFICES ASSUME at[k] <= at[j] PROVE FALSE
      BY <1>1, <1>11
    <2>2. at[k] \in 0..N /\ at[j] \in at[k]..N
      BY <1>1, <1>11, <2>1
    <2>3. offs[at[k]] <= offs[at[j]]
      BY <1>8, <2>2
    <2> QED
      BY <1>11, <1>14, <2>3
  <1>15. ASSUME NEW i \in 1..N, list[i] \in good
         PROVE  \E k \in 1..Len(kept) : at[k] = i
    <2>1. offs[i] \in 1..Len(kept) /\ offs[i] = offs[i - 1] + 1
      BY <1>9, <1>15
    <2> DEFINE m == at[offs[i]]
    <2>2. m \in 1..N /\ list[m] \in good /\ offs[m] = offs[i]
      BY <1>11, <2>1
    <2>3. ~(m < i)
      <3>1. SUFFICES ASSUME m < i PROVE FALSE
        OBVIOUS
      <3>2. m \in 0..N /\ i - 1 \in m..N /\ i - 1 \in 0..N
        BY <1>1, <2>2, <3>1
      <3>3. offs[m] <= offs[i - 1]
        BY <1>8, <3>2
      <3> QED
        BY <1>7, <2>1, <2>2, <3>2, <3>3
    <2>4. ~(i < m)
      <3>1. SUFFICES ASSUME i < m PROVE FALSE
        OBVIOUS
      <3>2. i \in 0..N /\ m - 1 \in i..N /\ m - 1 \in 0..N
        BY <1>1, <2>2, <3>1
      <3>3. offs[i] <= offs[m - 1] /\ offs[m] = offs[m - 1] + 1
        BY <1>8, <1>9, <2>2, <3>2
      <3>4. offs[m - 1] \in Nat /\ offs[i] \in Nat
        BY <1>7, <2>1, <3>2
      <3> QED
        BY <2>2, <3>3, <3>4
    <2>5. m = i
      BY <1>1, <2>2, <2>3, <2>4
    <2> QED
      BY <2>1, <2>5
  <1> QED
    BY <1>5, <1>12, <1>13, <1>14, <1>15 DEF IsKept, kept, N

-----------------------------------------------------------------------------
(* Sums *)

(* f has the sums of the beginnings of a list. *)
IsSums(f, list) ==
    /\ f \in [0..Len(list) -> Nat]
    /\ f[0] = 0
    /\ \A k \in 1..Len(list) : f[k] = f[k - 1] + list[k]

(* SumOf adds the numbers one after the other. *)
LEMMA SumPath ==
    ASSUME NEW list \in Seq(Nat)
    PROVE  \E f : IsSums(f, list) /\ SumOf(list) = f[Len(list)]
  <1> DEFINE N == Len(list)
             g == [p \in Nat \X (1..N) |-> p[1] + list[p[2]]]
  <1>1. N \in Nat /\ DOMAIN list = 1..N /\ \A k \in 1..N : list[k] \in Nat
    OBVIOUS
  <1>2. IsStep(g, Nat, N)
    BY <1>1 DEF IsStep
  <1> HIDE DEF N, g
  <1>3. PICK it : IsFold(it, g, 0, Nat, N)
    BY <1>1, <1>2, FoldExists
  <1> DEFINE P == SUBSET (1..N)
             Fits(w) == w = [s \in P |-> IF s = {} THEN 0
                                         ELSE w[s \ {Max(s)}] + list[Max(s)]]
             c == CHOOSE w : Fits(w)
  <1>4. Fits(it)
    <2>1. /\ it \in [P -> Nat]
          /\ it = [s \in P |-> IF s = {} THEN 0 ELSE g[<<it[s \ {Max(s)}], Max(s)>>]]
      BY <1>3 DEF IsFold
    <2>2. ASSUME NEW s \in P, s # {}
          PROVE  g[<<it[s \ {Max(s)}], Max(s)>>] = it[s \ {Max(s)}] + list[Max(s)]
      <3>1. s \in SUBSET (0..N)
        BY <1>1
      <3>2. Max(s) \in s
        BY <1>1, <2>2, <3>1, MaxOf
      <3>3. s \ {Max(s)} \in P /\ Max(s) \in 1..N
        BY <3>2
      <3>4. it[s \ {Max(s)}] \in Nat
        BY <2>1, <3>3
      <3> QED
        BY <3>3, <3>4 DEF g
    <2> HIDE DEF P
    <2> QED
      BY <2>1, <2>2
  <1>5. Fits(c)
    <2> HIDE DEF Fits
    <2> QED
      BY <1>4, Zenon
  <1>6. SumOf(list) = c[1..N]
    BY <1>1, Zenon DEF SumOf, FoldLeft, MapThenFoldSet
  <1> HIDE DEF c
  <1>7. c[{}] = 0
    BY <1>5
  <1>8. ASSUME NEW k \in 1..N PROVE c[1..k] = c[1..(k - 1)] + list[k]
    <2>1. k \in Nat /\ k # 0 /\ 1..k \in P
      BY <1>1
    <2>2. Max(1..k) = k /\ (1..k) \ {k} = 1..(k - 1) /\ 1..k # {}
      BY <2>1, UpTo
    <2>3. c[1..k] = c[(1..k) \ {Max(1..k)}] + list[Max(1..k)]
      BY <1>5, <2>1, <2>2
    <2> QED
      BY <2>2, <2>3
  <1> HIDE DEF Fits, P
  <1> DEFINE f == [k \in 0..N |-> c[1..k]]
             K == {k \in Nat : k <= N => c[1..k] \in Nat}
  <1>9. 0 \in K
    <2>1. 1..0 = {}
      OBVIOUS
    <2> QED
      BY <1>7, <2>1
  <1>10. ASSUME NEW k \in Nat, k \in K PROVE k + 1 \in K
    <2>1. SUFFICES ASSUME k + 1 <= N PROVE c[1..(k + 1)] \in Nat
      OBVIOUS
    <2>2. k + 1 \in 1..N /\ (k + 1) - 1 = k
      BY <1>1, <2>1
    <2>3. c[1..k] \in Nat /\ list[k + 1] \in Nat
      BY <1>1, <1>10, <2>2
    <2> QED
      BY <1>8, <2>2, <2>3
  <1> HIDE DEF K
  <1>11. \A k \in Nat : k \in K
    BY <1>9, <1>10, SetInduction, Zenon
  <1>12. f \in [0..N -> Nat]
    BY <1>1, <1>11 DEF K
  <1>13. f[0] = 0
    <2>1. 1..0 = {} /\ 0 \in 0..N
      BY <1>1
    <2> QED
      BY <1>7, <2>1
  <1>14. \A k \in 1..N : f[k] = f[k - 1] + list[k]
    <2> TAKE k \in 1..N
    <2>1. k \in 0..N /\ k - 1 \in 0..N
      BY <1>1
    <2> QED
      BY <1>8, <2>1
  <1>15. SumOf(list) = f[N]
    BY <1>1, <1>6
  <1> HIDE DEF f
  <1> QED
    BY <1>12, <1>13, <1>14, <1>15 DEF IsSums, N

(* Whatever adds them up like that has the sum at its end. *)
LEMMA SumIs ==
    ASSUME NEW list \in Seq(Nat), NEW h, IsSums(h, list)
    PROVE  SumOf(list) = h[Len(list)]
  <1>1. PICK f : IsSums(f, list) /\ SumOf(list) = f[Len(list)]
    BY SumPath
  <1> DEFINE K == {k \in Nat : k <= Len(list) => h[k] = f[k]}
  <1>2. Len(list) \in Nat /\ \A k \in 1..Len(list) : list[k] \in Nat
    OBVIOUS
  <1>3. 0 \in K
    BY <1>1 DEF IsSums
  <1>4. ASSUME NEW k \in Nat, k \in K PROVE k + 1 \in K
    <2>1. SUFFICES ASSUME k + 1 <= Len(list) PROVE h[k + 1] = f[k + 1]
      OBVIOUS
    <2>2. k + 1 \in 1..Len(list) /\ (k + 1) - 1 = k
      BY <1>2, <2>1
    <2>3. h[k] = f[k]
      BY <1>2, <1>4, <2>2
    <2>4. h[k + 1] = h[k] + list[k + 1] /\ f[k + 1] = f[k] + list[k + 1]
      BY <1>1, <2>2 DEF IsSums
    <2> QED
      BY <2>3, <2>4
  <1> HIDE DEF K
  <1>5. \A k \in Nat : k \in K
    BY <1>3, <1>4, SetInduction, Zenon
  <1> QED
    BY <1>1, <1>2, <1>5 DEF K

(* Finitely many numbers have a bound. *)
LEMMA Bounded ==
    ASSUME NEW n \in Nat, NEW f, \A i \in 1..n : f[i] \in Nat
    PROVE  \E b \in Nat : \A i \in 1..n : f[i] <= b
  <1> DEFINE K == {k \in Nat : k <= n => \E b \in Nat : \A i \in 1..k : f[i] <= b}
  <1>1. 0 \in K
    <2>1. 0 \in Nat /\ \A i \in 1..0 : f[i] <= 0
      OBVIOUS
    <2> QED
      BY <2>1
  <1>2. ASSUME NEW k \in Nat, k \in K PROVE k + 1 \in K
    <2>1. SUFFICES ASSUME k + 1 <= n PROVE \E b \in Nat : \A i \in 1..(k + 1) : f[i] <= b
      OBVIOUS
    <2>2. PICK b \in Nat : \A i \in 1..k : f[i] <= b
      BY <1>2, <2>1
    <2>3. f[k + 1] \in Nat
      BY <2>1
    <2> DEFINE c == b + f[k + 1]
    <2>4. ASSUME NEW i \in 1..(k + 1) PROVE f[i] <= c
      <3>1. CASE i = k + 1
        BY <2>3, <3>1
      <3>2. CASE i # k + 1
        <4>1. i \in 1..k /\ i \in 1..n
          BY <2>1, <3>2
        <4>2. f[i] <= b /\ f[i] \in Nat
          BY <2>2, <4>1
        <4> QED
          BY <2>3, <4>2
      <3> QED
        BY <3>1, <3>2
    <2>5. c \in Nat
      BY <2>3
    <2> HIDE DEF c
    <2> QED
      BY <2>4, <2>5
  <1> HIDE DEF K
  <1>3. \A k \in Nat : k \in K
    BY <1>1, <1>2, SetInduction, Zenon
  <1>4. n \in K /\ n <= n
    BY <1>3
  <1> QED
    BY <1>4 DEF K

(* ... and so has a finite set of them. *)
LEMMA FiniteBounded ==
    ASSUME NEW S \in SUBSET Nat, IsFiniteSet(S)
    PROVE  \E b \in Nat : \A x \in S : x <= b
  <1>1. PICK n \in Nat : ExistsSurjection(1..n, S)
    BY FS_NatSurjection
  <1>2. PICK f \in Surjection(1..n, S) : TRUE
    BY <1>1 DEF ExistsSurjection
  <1>3. f \in [1..n -> S] /\ \A x \in S : \E i \in 1..n : f[i] = x
    BY <1>2 DEF Surjection
  <1>4. PICK b \in Nat : \A i \in 1..n : f[i] <= b
    BY <1>3, Bounded
  <1> QED
    BY <1>3, <1>4

(* Division. *)
LEMMA Divided ==
    ASSUME NEW a \in Nat, NEW d \in Nat, d # 0
    PROVE  /\ a \div d \in Nat
           /\ d * (a \div d) <= a
           /\ a < d * (a \div d) + d
  OBVIOUS

(* The multiples of d are d apart. *)
LEMMA Multiples ==
    ASSUME NEW d \in Nat, NEW p \in Nat, NEW q \in Nat, p < q
    PROVE  d * p \in Nat /\ d * q \in Nat /\ d * p + d <= d * q
  OBVIOUS

(* A part of a sequence. *)
LEMMA PartOf ==
    ASSUME NEW S, NEW q \in Seq(S), NEW a \in Nat, NEW b \in Nat, a # 0, b <= Len(q)
    PROVE  /\ SubSeq(q, a, b) \in Seq(S)
           /\ Len(SubSeq(q, a, b)) = IF a <= b THEN b - a + 1 ELSE 0
           /\ \A i \in 1..Len(SubSeq(q, a, b)) :
                /\ a + i - 1 \in 1..Len(q)
                /\ SubSeq(q, a, b)[i] = q[a + i - 1]
  <1> DEFINE s == SubSeq(q, a, b)
  <1>1. Len(q) \in Nat /\ a \in Int /\ b \in Int
    OBVIOUS
  <1>2. \A i \in a..b : q[i] \in S
    BY <1>1
  <1>3. /\ s \in Seq(S)
        /\ Len(s) = IF a <= b THEN b - a + 1 ELSE 0
        /\ \A i \in 1..(b - a + 1) : s[i] = q[a + i - 1]
    BY <1>1, <1>2, SubSeqProperties
  <1> HIDE DEF s
  <1>4. ASSUME NEW i \in 1..Len(s)
        PROVE  a + i - 1 \in 1..Len(q) /\ s[i] = q[a + i - 1]
    <2>1. a <= b /\ i \in 1..(b - a + 1)
      BY <1>3
    <2> QED
      BY <1>1, <1>3, <2>1
  <1> QED
    BY <1>3, <1>4 DEF s

(* One more number in front of a list adds itself to the sum. *)
LEMMA SumFirst ==
    ASSUME NEW list \in Seq(Nat), NEW more \in Seq(Nat), Len(more) = Len(list) + 1,
           \A k \in 1..Len(list) : more[k + 1] = list[k]
    PROVE  SumOf(more) = more[1] + SumOf(list) /\ SumOf(list) \in Nat
  <1>1. PICK f : IsSums(f, list) /\ SumOf(list) = f[Len(list)]
    BY SumPath
  <1> DEFINE n == Len(list)
             x == more[1]
             h == [k \in 0..(n + 1) |-> IF k = 0 THEN 0 ELSE x + f[k - 1]]
  <1>2. n \in Nat /\ Len(more) = n + 1 /\ x \in Nat
    OBVIOUS
  <1>3. f \in [0..n -> Nat] /\ f[0] = 0 /\ \A k \in 1..n : f[k] = f[k - 1] + list[k]
    BY <1>1 DEF IsSums
  <1>4. \A k \in 1..n : list[k] \in Nat
    OBVIOUS
  <1> HIDE DEF n, x
  <1>5. h \in [0..(n + 1) -> Nat]
    <2>1. ASSUME NEW k \in 0..(n + 1), k # 0 PROVE x + f[k - 1] \in Nat
      <3>1. k - 1 \in 0..n
        BY <1>2, <2>1
      <3> QED
        BY <1>2, <1>3, <3>1
    <2> QED
      BY <2>1
  <1>6. h[0] = 0
    BY <1>2
  <1>7. ASSUME NEW k \in 1..(n + 1) PROVE h[k] = h[k - 1] + more[k]
    <2>1. k \in 0..(n + 1) /\ k - 1 \in 0..(n + 1) /\ k - 1 \in 0..n /\ k # 0
      BY <1>2
    <2>2. h[k] = x + f[k - 1] /\ f[k - 1] \in Nat
      BY <1>3, <2>1
    <2>3. CASE k = 1
      <3>1. h[k] = x + 0 /\ h[k - 1] = 0
        BY <1>3, <1>6, <2>2, <2>3
      <3> QED
        BY <1>2, <2>3, <3>1 DEF x
    <2>4. CASE k # 1
      <3>1. k - 1 \in 1..n /\ k - 1 # 0 /\ (k - 1) + 1 = k /\ k - 1 - 1 \in 0..n
        BY <1>2, <2>1, <2>4
      <3>2. f[k - 1] = f[k - 1 - 1] + list[k - 1] /\ more[k] = list[k - 1]
            /\ list[k - 1] \in Nat /\ f[k - 1 - 1] \in Nat
        BY <1>3, <1>4, <3>1 DEF n
      <3>3. h[k - 1] = x + f[k - 1 - 1]
        BY <2>1, <3>1
      <3> DEFINE a == f[k - 1]
                 c == f[k - 1 - 1]
                 y == list[k - 1]
      <3>4. /\ h[k] = x + a /\ h[k - 1] = x + c /\ a = c + y /\ more[k] = y
            /\ x \in Nat /\ a \in Nat /\ c \in Nat /\ y \in Nat
        BY <1>2, <2>2, <3>2, <3>3
      <3> HIDE DEF h, a, c, y, x
      <3> QED
        BY <3>4
    <2> QED
      BY <2>3, <2>4
  <1>8. IsSums(h, more)
    <2> HIDE DEF h
    <2> QED
      BY <1>2, <1>5, <1>6, <1>7 DEF IsSums
  <1>9. SumOf(more) = h[n + 1]
    <2> HIDE DEF h
    <2> QED
      BY <1>2, <1>8, SumIs
  <1>10. h[n + 1] = x + f[n] /\ f[n] \in Nat
    <2>1. n + 1 \in 0..(n + 1) /\ n + 1 # 0 /\ (n + 1) - 1 = n /\ n \in 0..n
      BY <1>2
    <2> QED
      BY <1>3, <2>1
  <1> QED
    BY <1>1, <1>9, <1>10 DEF n, x

-----------------------------------------------------------------------------
(* Sequences *)

(* Sequences with the same elements in the same places are the same. *)
LEMMA SameSequence ==
    ASSUME NEW S, NEW s \in Seq(S), NEW T, NEW t \in Seq(T), Len(s) = Len(t),
           \A i \in 1..Len(s) : s[i] = t[i]
    PROVE  s = t
  <1>1. s = [i \in 1..Len(s) |-> s[i]]
    OBVIOUS
  <1>2. t = [i \in 1..Len(t) |-> t[i]]
    OBVIOUS
  <1> QED
    BY <1>1, <1>2

(* Two parts that follow each other make one. *)
LEMMA PartsJoined ==
    ASSUME NEW S, NEW q \in Seq(S), NEW a \in Nat, NEW b \in Nat, a <= b, b <= Len(q)
    PROVE  SubSeq(q, 1, b) = SubSeq(q, 1, a) \o SubSeq(q, a + 1, b)
  <1> DEFINE s == SubSeq(q, 1, a)
             t == SubSeq(q, a + 1, b)
             u == SubSeq(q, 1, b)
  <1>1. a + 1 \in Nat /\ a + 1 # 0 /\ 1 \in Nat /\ 1 # 0 /\ Len(q) \in Nat /\ a <= Len(q)
    OBVIOUS
  <1>2. /\ s \in Seq(S) /\ Len(s) = IF 1 <= a THEN a - 1 + 1 ELSE 0
        /\ \A i \in 1..Len(s) : s[i] = q[1 + i - 1]
    BY <1>1, PartOf
  <1>3. /\ t \in Seq(S) /\ Len(t) = IF a + 1 <= b THEN b - (a + 1) + 1 ELSE 0
        /\ \A i \in 1..Len(t) : t[i] = q[a + 1 + i - 1]
    BY <1>1, PartOf
  <1>4. /\ u \in Seq(S) /\ Len(u) = IF 1 <= b THEN b - 1 + 1 ELSE 0
        /\ \A i \in 1..Len(u) : u[i] = q[1 + i - 1]
    BY <1>1, PartOf
  <1> HIDE DEF s, t, u
  <1>5. Len(s) = a /\ Len(t) = b - a /\ Len(u) = b
    BY <1>2, <1>3, <1>4
  <1>6. /\ \A i \in 1..a : s[i] = q[i] /\ 1 + i - 1 = i
        /\ \A i \in 1..(b - a) : t[i] = q[a + i]
        /\ \A i \in 1..b : u[i] = q[i]
    <2>1. \A i \in 1..b : 1 + i - 1 = i
      OBVIOUS
    <2>2. \A i \in 1..a : 1 + i - 1 = i
      OBVIOUS
    <2>3. \A i \in 1..(b - a) : a + 1 + i - 1 = a + i
      OBVIOUS
    <2> QED
      BY <1>2, <1>3, <1>4, <1>5, <2>1, <2>2, <2>3
  <1>7. /\ s \o t \in Seq(S) /\ Len(s \o t) = Len(s) + Len(t)
        /\ \A i \in 1..Len(s) : (s \o t)[i] = s[i]
        /\ \A j \in 1..Len(t) : (s \o t)[Len(s) + j] = t[j]
    <2>1. s \in Seq(S) /\ t \in Seq(S)
      BY <1>2, <1>3
    <2> QED
      BY <2>1, Joined
  <1>8. ASSUME NEW i \in 1..Len(u) PROVE u[i] = (s \o t)[i]
    <2>1. CASE i <= a
      <3>1. i \in 1..a /\ i \in 1..b
        BY <1>5, <2>1
      <3>2. (s \o t)[i] = s[i]
        BY <1>5, <1>7, <3>1
      <3> QED
        BY <1>6, <3>1, <3>2
    <2>2. CASE ~(i <= a)
      <3>1. i - a \in 1..(b - a) /\ a + (i - a) = i
        BY <1>5, <2>2
      <3>2. (s \o t)[a + (i - a)] = t[i - a] /\ t[i - a] = q[a + (i - a)]
        BY <1>5, <1>6, <1>7, <3>1
      <3> QED
        BY <1>5, <1>6, <3>1, <3>2
    <2> QED
      BY <2>1, <2>2
  <1>9. Len(u) = Len(s \o t)
    BY <1>5, <1>7
  <1>10. u = s \o t
    BY <1>4, <1>7, <1>8, <1>9, SameSequence
  <1> QED
    BY <1>10 DEF s, t, u

(* A sequence is the part of itself from first to last. *)
LEMMA WholePart ==
    ASSUME NEW S, NEW q \in Seq(S)
    PROVE  SubSeq(q, 1, Len(q)) = q
  <1> DEFINE s == SubSeq(q, 1, Len(q))
  <1>1. Len(q) \in Nat /\ 1 \in Nat /\ 1 # 0 /\ Len(q) <= Len(q)
    OBVIOUS
  <1>2. /\ s \in Seq(S) /\ Len(s) = IF 1 <= Len(q) THEN Len(q) - 1 + 1 ELSE 0
        /\ \A i \in 1..Len(s) : s[i] = q[1 + i - 1]
    BY <1>1, PartOf
  <1> HIDE DEF s
  <1>3. Len(s) = Len(q) /\ \A i \in 1..Len(s) : s[i] = q[i]
    <2>1. Len(s) = Len(q)
      BY <1>1, <1>2
    <2>2. \A i \in 1..Len(s) : 1 + i - 1 = i
      BY <1>1, <2>1
    <2> QED
      BY <1>2, <2>1, <2>2
  <1>4. s = q
    BY <1>2, <1>3, SameSequence
  <1> QED
    BY <1>4 DEF s

(* The two halves of a joined sequence. *)
LEMMA PartsOfJoined ==
    ASSUME NEW S, NEW s \in Seq(S), NEW t \in Seq(S)
    PROVE  /\ SubSeq(s \o t, 1, Len(s)) = s
           /\ SubSeq(s \o t, Len(s) + 1, Len(s) + Len(t)) = t
  <1> DEFINE u == s \o t
             n == Len(s)
             m == Len(t)
             x == SubSeq(u, 1, n)
             y == SubSeq(u, n + 1, n + m)
  <1>1. n \in Nat /\ m \in Nat /\ n + 1 \in Nat /\ n + m \in Nat /\ n + 1 # 0
        /\ 1 \in Nat /\ 1 # 0
    OBVIOUS
  <1>2. /\ u \in Seq(S) /\ Len(u) = n + m
        /\ \A i \in 1..n : u[i] = s[i]
        /\ \A j \in 1..m : u[n + j] = t[j]
    BY Joined
  <1> HIDE DEF u, n, m
  <1>3. n <= Len(u) /\ n + m <= Len(u)
    BY <1>1, <1>2
  <1>4. /\ x \in Seq(S) /\ Len(x) = IF 1 <= n THEN n - 1 + 1 ELSE 0
        /\ \A i \in 1..Len(x) : x[i] = u[1 + i - 1]
    BY <1>1, <1>2, <1>3, PartOf
  <1>5. /\ y \in Seq(S) /\ Len(y) = IF n + 1 <= n + m THEN n + m - (n + 1) + 1 ELSE 0
        /\ \A i \in 1..Len(y) : y[i] = u[n + 1 + i - 1]
    BY <1>1, <1>2, <1>3, PartOf
  <1> HIDE DEF x, y
  <1>6. Len(x) = n /\ Len(y) = m
    BY <1>1, <1>4, <1>5
  <1>7. (\A i \in 1..n : 1 + i - 1 = i) /\ \A i \in 1..m : n + 1 + i - 1 = n + i
    BY <1>1
  <1>8. (\A i \in 1..Len(x) : x[i] = s[i]) /\ \A i \in 1..Len(y) : y[i] = t[i]
    BY <1>2, <1>4, <1>5, <1>6, <1>7
  <1>9. x = s
    BY <1>4, <1>6, <1>8, SameSequence DEF n
  <1>10. y = t
    BY <1>5, <1>6, <1>8, SameSequence DEF m
  <1> QED
    BY <1>9, <1>10 DEF x, y, u, n, m

(* Lists of lists of the same lengths are laid out in the same way. *)
LEMMA SameLayout ==
    ASSUME NEW S, NEW seqs \in Seq(Seq(S)), NEW T, NEW others \in Seq(Seq(T)),
           NEW flat, NEW offs, IsLayout(offs, flat, seqs),
           NEW flat2, NEW offs2, IsLayout(offs2, flat2, others),
           Len(seqs) = Len(others), \A k \in 1..Len(seqs) : Len(seqs[k]) = Len(others[k])
    PROVE  \A k \in Nat : k <= Len(seqs) => offs[k] = offs2[k]
  <1> DEFINE N == Len(seqs)
             K == {k \in Nat : k <= N => offs[k] = offs2[k]}
  <1>1. N \in Nat
    OBVIOUS
  <1>2. /\ offs[0] = 0 /\ offs2[0] = 0
        /\ \A k \in 1..N : offs[k] = offs[k - 1] + Len(seqs[k])
        /\ \A k \in 1..N : offs2[k] = offs2[k - 1] + Len(seqs[k])
    BY DEF IsLayout
  <1> HIDE DEF N
  <1>3. 0 \in K
    BY <1>2
  <1>4. ASSUME NEW k \in Nat, k \in K PROVE k + 1 \in K
    <2>1. SUFFICES ASSUME k + 1 <= N PROVE offs[k + 1] = offs2[k + 1]
      OBVIOUS
    <2>2. k + 1 \in 1..N /\ (k + 1) - 1 = k /\ k <= N
      BY <1>1, <2>1
    <2>3. offs[k] = offs2[k]
      BY <1>4, <2>2
    <2> QED
      BY <1>2, <2>2, <2>3
  <1> HIDE DEF K
  <1>5. \A k \in Nat : k \in K
    BY <1>3, <1>4, SetInduction, Zenon
  <1> QED
    BY <1>5 DEF K, N

-----------------------------------------------------------------------------
(* Joining *)

(* Joining does not depend on what is joined first. *)
LEMMA Associative ==
    ASSUME NEW S, NEW s \in Seq(S), NEW t \in Seq(S), NEW u \in Seq(S)
    PROVE  (s \o t) \o u = s \o (t \o u)
  <1> DEFINE x == (s \o t) \o u
             y == s \o (t \o u)
             st == s \o t
             tu == t \o u
  <1>1. /\ st \in Seq(S) /\ Len(st) = Len(s) + Len(t)
        /\ \A i \in 1..Len(s) : st[i] = s[i]
        /\ \A i \in 1..Len(t) : st[Len(s) + i] = t[i]
    BY Joined
  <1>2. /\ tu \in Seq(S) /\ Len(tu) = Len(t) + Len(u)
        /\ \A i \in 1..Len(t) : tu[i] = t[i]
        /\ \A i \in 1..Len(u) : tu[Len(t) + i] = u[i]
    BY Joined
  <1> HIDE DEF st, tu
  <1>3. /\ x \in Seq(S) /\ Len(x) = Len(st) + Len(u)
        /\ \A i \in 1..Len(st) : x[i] = st[i]
        /\ \A i \in 1..Len(u) : x[Len(st) + i] = u[i]
    BY <1>1, Joined DEF st
  <1>4. /\ y \in Seq(S) /\ Len(y) = Len(s) + Len(tu)
        /\ \A i \in 1..Len(s) : y[i] = s[i]
        /\ \A i \in 1..Len(tu) : y[Len(s) + i] = tu[i]
    BY <1>2, Joined DEF tu
  <1> HIDE DEF x, y
  <1> DEFINE a == Len(s)
             b == Len(t)
             c == Len(u)
  <1>5. a \in Nat /\ b \in Nat /\ c \in Nat
    OBVIOUS
  <1>6. Len(st) = a + b /\ Len(tu) = b + c /\ Len(x) = a + b + c /\ Len(y) = a + b + c
    BY <1>1, <1>2, <1>3, <1>4, <1>5
  <1> HIDE DEF a, b, c
  <1>7. ASSUME NEW i \in 1..Len(x) PROVE x[i] = y[i]
    <2>1. CASE i <= a
      <3>1. i \in 1..a /\ i \in 1..(a + b)
        BY <1>5, <1>6, <2>1
      <3> QED
        BY <1>1, <1>3, <1>4, <1>6, <3>1 DEF a
    <2>2. CASE a < i /\ i <= a + b
      <3>1. i \in 1..(a + b) /\ i - a \in 1..b /\ a + (i - a) = i /\ i - a \in 1..(b + c)
        BY <1>5, <1>6, <2>2
      <3>2. x[i] = st[i] /\ st[a + (i - a)] = t[i - a]
        BY <1>1, <1>3, <1>6, <3>1 DEF a, b
      <3>3. y[a + (i - a)] = tu[i - a] /\ tu[i - a] = t[i - a]
        BY <1>2, <1>4, <1>6, <3>1 DEF a, b
      <3> QED
        BY <3>1, <3>2, <3>3
    <2>3. CASE a + b < i
      <3>1. /\ i - (a + b) \in 1..c /\ (a + b) + (i - (a + b)) = i
            /\ i - a \in 1..(b + c) /\ a + (i - a) = i /\ b + (i - (a + b)) = i - a
        BY <1>5, <1>6, <2>3
      <3>2. x[(a + b) + (i - (a + b))] = u[i - (a + b)]
        BY <1>3, <1>6, <3>1 DEF c
      <3>3. y[a + (i - a)] = tu[i - a] /\ tu[b + (i - (a + b))] = u[i - (a + b)]
        BY <1>2, <1>4, <1>6, <3>1 DEF a, b, c
      <3> QED
        BY <3>1, <3>2, <3>3
    <2> QED
      BY <1>5, <1>6, <2>1, <2>2, <2>3
  <1>8. x = y
    BY <1>3, <1>4, <1>6, <1>7, SameSequence
  <1> QED
    BY <1>8 DEF x, y, st, tu

(* Flattening two lists of sequences, one after the other. *)
LEMMA FlattenJoined ==
    ASSUME NEW S, NEW s \in Seq(Seq(S)), NEW t \in Seq(Seq(S))
    PROVE  FlattenSeq(s \o t) = FlattenSeq(s) \o FlattenSeq(t)
  <1> DEFINE n == Len(s)
             m == Len(t)
             st == s \o t
             Q == Seq(S)
  <1>1. n \in Nat /\ m \in Nat /\ st \in Seq(Seq(S)) /\ Len(st) = n + m
        /\ (\A i \in 1..n : st[i] = s[i]) /\ (\A i \in 1..m : st[n + i] = t[i])
    <2> HIDE DEF Q
    <2>1. s \in Seq(Q) /\ t \in Seq(Q)
      BY DEF Q
    <2>2. st \in Seq(Q) /\ Len(st) = n + m
          /\ (\A i \in 1..n : st[i] = s[i]) /\ (\A i \in 1..m : st[n + i] = t[i])
      BY <2>1, Joined
    <2>3. n \in Nat /\ m \in Nat
      BY <2>1
    <2> QED
      BY <2>2, <2>3 DEF Q
  <1>2. (\A i \in 1..n : s[i] \in Q) /\ (\A i \in 1..m : t[i] \in Q)
    OBVIOUS
  <1> HIDE DEF st
  <1>3. PICK f : /\ IsPath(f, AppendStep(S, s), <<>>, Seq(S), n)
                 /\ FlattenSeq(s) = f[n]
    BY FlattenPath
  <1>4. PICK g : /\ IsPath(g, AppendStep(S, t), <<>>, Seq(S), m)
                 /\ FlattenSeq(t) = g[m]
    BY FlattenPath
  <1>5. PICK h : /\ IsPath(h, AppendStep(S, st), <<>>, Seq(S), n + m)
                 /\ FlattenSeq(st) = h[n + m]
    BY <1>1, FlattenPath
  <1> HIDE DEF n, m, Q
  <1>6. /\ f \in [0..n -> Q] /\ f[0] = <<>>
        /\ \A k \in 1..n : f[k] = f[k - 1] \o s[k]
    <2>1. f \in [0..n -> Q] /\ f[0] = <<>>
          /\ \A k \in 1..n : f[k] = AppendStep(S, s)[<<f[k - 1], k>>]
      BY <1>3 DEF IsPath, Q
    <2>2. ASSUME NEW k \in 1..n PROVE f[k] = f[k - 1] \o s[k]
      <3>1. k - 1 \in 0..n
        BY <1>1
      <3>2. f[k - 1] \in Q
        BY <2>1, <3>1
      <3> QED
        BY <2>1, <3>2 DEF AppendStep, n, Q
    <2> QED
      BY <2>1, <2>2
  <1>7. /\ g \in [0..m -> Q] /\ g[0] = <<>>
        /\ \A k \in 1..m : g[k] = g[k - 1] \o t[k]
    <2>1. g \in [0..m -> Q] /\ g[0] = <<>>
          /\ \A k \in 1..m : g[k] = AppendStep(S, t)[<<g[k - 1], k>>]
      BY <1>4 DEF IsPath, Q
    <2>2. ASSUME NEW k \in 1..m PROVE g[k] = g[k - 1] \o t[k]
      <3>1. k - 1 \in 0..m
        BY <1>1
      <3>2. g[k - 1] \in Q
        BY <2>1, <3>1
      <3> QED
        BY <2>1, <3>2 DEF AppendStep, m, Q
    <2> QED
      BY <2>1, <2>2
  <1>8. /\ h \in [0..(n + m) -> Q] /\ h[0] = <<>>
        /\ \A k \in 1..(n + m) : h[k] = h[k - 1] \o st[k]
    <2>1. h \in [0..(n + m) -> Q] /\ h[0] = <<>>
          /\ \A k \in 1..(n + m) : h[k] = AppendStep(S, st)[<<h[k - 1], k>>]
      BY <1>5 DEF IsPath, Q
    <2>2. ASSUME NEW k \in 1..(n + m) PROVE h[k] = h[k - 1] \o st[k]
      <3>1. k - 1 \in 0..(n + m)
        BY <1>1
      <3>2. h[k - 1] \in Q
        BY <2>1, <3>1
      <3>3. AppendStep(S, st) = [p \in Q \X (1..(n + m)) |-> p[1] \o st[p[2]]]
        BY <1>1 DEF AppendStep, Q
      <3> QED
        BY <2>1, <3>2, <3>3
    <2> QED
      BY <2>1, <2>2
  <1> DEFINE K == {k \in Nat : k <= n => h[k] = f[k]}
             J == {k \in Nat : k <= m => h[n + k] = f[n] \o g[k]}
  <1>9. 0 \in K
    BY <1>6, <1>8
  <1>10. ASSUME NEW k \in Nat, k \in K PROVE k + 1 \in K
    <2>1. SUFFICES ASSUME k + 1 <= n PROVE h[k + 1] = f[k + 1]
      OBVIOUS
    <2>2. k + 1 \in 1..n /\ k + 1 \in 1..(n + m) /\ (k + 1) - 1 = k /\ k <= n
      BY <1>1, <2>1
    <2>3. h[k] = f[k] /\ st[k + 1] = s[k + 1]
      BY <1>1, <1>10, <2>2
    <2>4. h[k + 1] = h[k] \o st[k + 1] /\ f[k + 1] = f[k] \o s[k + 1]
      BY <1>6, <1>8, <2>2
    <2> QED
      BY <2>3, <2>4
  <1> HIDE DEF K
  <1>11. \A k \in Nat : k \in K
    BY <1>9, <1>10, SetInduction, Zenon
  <1>12. h[n] = f[n] /\ f[n] \in Q
    <2>1. n \in 0..n /\ n <= n
      BY <1>1
    <2> QED
      BY <1>1, <1>6, <1>11, <2>1 DEF K
  <1>13. 0 \in J
    <2>1. f[n] \o <<>> = f[n]
      BY <1>12 DEF Q
    <2>2. n + 0 = n
      BY <1>1
    <2> QED
      BY <1>7, <1>12, <2>1, <2>2
  <1>14. ASSUME NEW k \in Nat, k \in J PROVE k + 1 \in J
    <2>1. SUFFICES ASSUME k + 1 <= m PROVE h[n + (k + 1)] = f[n] \o g[k + 1]
      <3>1. k + 1 \in Nat
        OBVIOUS
      <3> QED
        BY <3>1, Zenon
    <2>2. /\ k + 1 \in 1..m /\ n + (k + 1) \in 1..(n + m) /\ (k + 1) - 1 = k
          /\ (n + (k + 1)) - 1 = n + k /\ k <= m /\ k \in 0..m
      <3>1. n \in Nat /\ m \in Nat /\ k + 1 <= m
        BY <1>1, <2>1
      <3> HIDE DEF J, n, m
      <3> QED
        BY <3>1
    <2>3. h[n + k] = f[n] \o g[k] /\ st[n + (k + 1)] = t[k + 1]
      BY <1>1, <1>14, <2>2
    <2>4. h[n + (k + 1)] = h[n + k] \o st[n + (k + 1)]
      BY <1>8, <2>2
    <2>5. g[k + 1] = g[k] \o t[k + 1]
      BY <1>7, <2>2
    <2>6. g[k] \in Seq(S) /\ t[k + 1] \in Seq(S) /\ f[n] \in Seq(S)
      BY <1>2, <1>7, <1>12, <2>2 DEF Q
    <2>7. (f[n] \o g[k]) \o t[k + 1] = f[n] \o (g[k] \o t[k + 1])
      <3> DEFINE a == f[n]
                 b == g[k]
                 c == t[k + 1]
      <3>1. a \in Seq(S) /\ b \in Seq(S) /\ c \in Seq(S)
        BY <2>6
      <3> HIDE DEF a, b, c
      <3>2. (a \o b) \o c = a \o (b \o c)
        BY <3>1, Associative, SMTT(30)
      <3> QED
        BY <3>2 DEF a, b, c
    <2> QED
      BY <2>3, <2>4, <2>5, <2>7
  <1> HIDE DEF J
  <1>15. \A k \in Nat : k \in J
    BY <1>13, <1>14, SetInduction, Zenon
  <1>16. h[n + m] = f[n] \o g[m]
    <2>1. m <= m
      BY <1>1
    <2> QED
      BY <1>1, <1>15, <2>1 DEF J
  <1> QED
    BY <1>3, <1>4, <1>5, <1>16 DEF st

-----------------------------------------------------------------------------
(* Stripping *)

(* The k-th from the end comes k-th. *)
LEMMA ReverseOf ==
    ASSUME NEW S, NEW s \in Seq(S)
    PROVE  /\ Reverse(s) \in Seq(S)
           /\ Len(Reverse(s)) = Len(s)
           /\ \A i \in 1..Len(s) : Len(s) - i + 1 \in 1..Len(s)
                                   /\ Reverse(s)[i] = s[Len(s) - i + 1]
  <1>1. Len(s) \in Nat /\ \A i \in 1..Len(s) : s[i] \in S
    OBVIOUS
  <1>2. \A i \in 1..Len(s) : Len(s) - i + 1 \in 1..Len(s)
    BY <1>1
  <1>3. Reverse(s) = [i \in 1..Len(s) |-> s[Len(s) - i + 1]]
    BY DEF Reverse
  <1>4. Reverse(s) \in [1..Len(s) -> S]
    BY <1>1, <1>2, <1>3
  <1>5. Reverse(s) \in Seq(S) /\ Len(Reverse(s)) = Len(s)
    BY <1>1, <1>4
  <1> QED
    BY <1>2, <1>3, <1>5

(* What lstrip leaves is the end of the text, from the first character that *)
(* is not white space.                                                      *)
LEMMA LeftStripOf ==
    ASSUME NEW S, NEW text \in Seq(S)
    PROVE  /\ LeftStrip(text) \in Seq(S)
           /\ Len(LeftStrip(text)) \in 0..Len(text)
           /\ \A i \in 1..Len(LeftStrip(text)) :
                LeftStrip(text)[i] = text[Len(text) - Len(LeftStrip(text)) + i]
           /\ ~Blank(text) => Len(LeftStrip(text)) # 0 /\ LeftStrip(text)[1] # "s"
  <1> DEFINE N == Len(text)
             dark == {i \in 1..N : text[i] # "s"}
             first == Min(dark)
             u == LeftStrip(text)
  <1>1. N \in Nat /\ DOMAIN text = 1..N
    OBVIOUS
  <1>2. SelectInSeq(text, LAMBDA c : c # "s") = IF dark # {} THEN first ELSE 0
    BY Zenon DEF SelectInSeq
  <1>3. CASE dark = {}
    <2>1. u = <<>>
      BY <1>2, <1>3 DEF LeftStrip
    <2>2. Blank(text)
      BY <1>1, <1>3 DEF Blank
    <2>3. u \in Seq(S) /\ Len(u) = 0
      BY <2>1
    <2> HIDE DEF u, N
    <2>4. 0 \in 0..N /\ 1..0 = {}
      BY <1>1
    <2> QED
      BY <2>2, <2>3, <2>4 DEF u, N
  <1>4. CASE dark # {}
    <2>1. dark \in SUBSET Nat /\ dark \in SUBSET (1..N)
      OBVIOUS
    <2>2. first \in dark
      BY <1>4, <2>1, MinOf
    <2>3. first \in 1..N /\ text[first] # "s"
      BY <2>2
    <2> HIDE DEF first, N, dark
    <2>4. first # 0 /\ first \in Nat /\ N \in Nat /\ N <= Len(text)
      BY <1>1, <2>3 DEF N
    <2>5. u = SubSeq(text, first, N)
      BY <1>2, <1>4, <2>4 DEF LeftStrip, N
    <2>6. /\ u \in Seq(S) /\ Len(u) = IF first <= N THEN N - first + 1 ELSE 0
          /\ \A i \in 1..Len(u) : u[i] = text[first + i - 1]
      BY <2>4, <2>5, PartOf
    <2> HIDE DEF u
    <2>7. Len(u) = N - first + 1 /\ Len(u) \in 0..N /\ Len(u) # 0
      BY <2>3, <2>4, <2>6
    <2>8. \A i \in 1..Len(u) : N - Len(u) + i = first + i - 1
      BY <2>3, <2>4, <2>7
    <2>9. u[1] = text[first]
      <3>1. 1 \in 1..Len(u) /\ first + 1 - 1 = first
        BY <2>3, <2>4, <2>7
      <3> QED
        BY <2>6, <3>1
    <2> QED
      BY <2>3, <2>6, <2>7, <2>8, <2>9 DEF u, N
  <1> QED
    BY <1>3, <1>4

(* What strip leaves begins what lstrip leaves. *)
LEMMA StripOf ==
    ASSUME NEW S, NEW text \in Seq(S)
    PROVE  /\ Strip(text) \in Seq(S)
           /\ Len(Strip(text)) \in 0..Len(LeftStrip(text))
           /\ \A i \in 1..Len(Strip(text)) : Strip(text)[i] = LeftStrip(text)[i]
           /\ ~Blank(text) => Len(Strip(text)) # 0
  <1> DEFINE u == LeftStrip(text)
             r == Reverse(u)
             w == LeftStrip(r)
             v == Reverse(w)
             n == Len(u)
             m == Len(w)
  <1>1. u \in Seq(S) /\ (~Blank(text) => n # 0 /\ u[1] # "s")
    BY LeftStripOf
  <1> HIDE DEF u
  <1>2. /\ r \in Seq(S) /\ Len(r) = n
        /\ \A i \in 1..n : n - i + 1 \in 1..n /\ r[i] = u[n - i + 1]
    BY <1>1, ReverseOf
  <1> HIDE DEF r
  <1>3. /\ w \in Seq(S) /\ m \in 0..Len(r)
        /\ \A i \in 1..m : w[i] = r[Len(r) - m + i]
        /\ ~Blank(r) => m # 0
    BY <1>2, LeftStripOf
  <1> HIDE DEF w
  <1>4. /\ v \in Seq(S) /\ Len(v) = m
        /\ \A i \in 1..m : m - i + 1 \in 1..m /\ v[i] = w[m - i + 1]
    BY <1>3, ReverseOf
  <1>5. n \in Nat /\ m \in 0..n
    BY <1>1, <1>2, <1>3
  <1> HIDE DEF v, m, n
  <1>6. ASSUME NEW i \in 1..m PROVE v[i] = u[i]
    <2>1. m - i + 1 \in 1..m /\ v[i] = w[m - i + 1]
      BY <1>4
    <2>2. w[m - i + 1] = r[n - m + (m - i + 1)]
      BY <1>2, <1>3, <2>1
    <2>3. n - m + (m - i + 1) = n - i + 1 /\ n - i + 1 \in 1..n /\ n - (n - i + 1) + 1 = i
      BY <1>5
    <2>4. r[n - i + 1] = u[n - (n - i + 1) + 1]
      BY <1>2, <2>3
    <2> QED
      BY <2>1, <2>2, <2>3, <2>4
  <1>7. ASSUME ~Blank(text) PROVE m # 0
    <2>1. n # 0 /\ u[1] # "s"
      BY <1>1, <1>7
    <2>2. n \in 1..n /\ n - n + 1 = 1
      BY <1>5, <2>1
    <2>3. r[n] # "s"
      BY <1>2, <2>1, <2>2
    <2>4. n \in DOMAIN r
      BY <1>2, <2>2
    <2>5. ~Blank(r)
      BY <2>3, <2>4 DEF Blank
    <2> QED
      BY <1>3, <2>5
  <1>8. Strip(text) = v
    BY DEF Strip, u, r, w, v
  <1> HIDE DEF v
  <1>9. m \in 0..n
    BY <1>5
  <1> QED
    BY <1>4, <1>6, <1>7, <1>8, <1>9 DEF u, n

(* What stands behind n white spaces. *)
LEMMA LeftStripIs ==
    ASSUME NEW S, NEW text \in Seq(S), NEW m \in Nat, m < Len(text),
           \A i \in 1..m : text[i] = "s", text[m + 1] # "s"
    PROVE  LeftStrip(text) = SubSeq(text, m + 1, Len(text))
  <1> DEFINE dark == {i \in 1..Len(text) : text[i] # "s"}
             first == Min(dark)
  <1>1. SelectInSeq(text, LAMBDA c : c # "s") = IF dark # {} THEN first ELSE 0
    BY Zenon DEF SelectInSeq
  <1>2. m + 1 \in dark /\ dark \in SUBSET Nat
    OBVIOUS
  <1>3. first \in dark /\ first <= m + 1
    <2> HIDE DEF dark
    <2> QED
      BY <1>2, MinOf
  <1>4. first \in Nat /\ first # 0 /\ ~(first <= m)
    BY <1>3
  <1> HIDE DEF dark, first
  <1>5. first = m + 1
    BY <1>3, <1>4
  <1>6. SelectInSeq(text, LAMBDA c : c # "s") = m + 1 /\ m + 1 # 0
    BY <1>1, <1>2, <1>5
  <1> QED
    BY <1>6, Zenon DEF LeftStrip

(* White space comes to nothing. *)
LEMMA LeftStripBlank ==
    ASSUME NEW S, NEW text \in Seq(S), Blank(text)
    PROVE  LeftStrip(text) = <<>>
  <1> DEFINE dark == {i \in 1..Len(text) : text[i] # "s"}
  <1>1. SelectInSeq(text, LAMBDA c : c # "s") = IF dark # {} THEN Min(dark) ELSE 0
    BY Zenon DEF SelectInSeq
  <1>2. dark = {}
    BY DEF Blank
  <1> HIDE DEF dark
  <1>3. SelectInSeq(text, LAMBDA c : c # "s") = 0
    BY <1>1, <1>2
  <1> QED
    BY <1>3, Zenon DEF LeftStrip

(* Where the first character is that is no white space. *)
LEMMA DarkFirst ==
    ASSUME NEW S, NEW text \in Seq(S), ~Blank(text)
    PROVE  \E m \in Nat : /\ m < Len(text) /\ text[m + 1] # "s"
                          /\ \A i \in 1..m : text[i] = "s"
  <1> DEFINE dark == {i \in 1..Len(text) : text[i] # "s"}
             first == Min(dark)
  <1>1. dark # {} /\ dark \in SUBSET Nat /\ dark \in SUBSET (1..Len(text))
    BY DEF Blank
  <1>2. first \in dark /\ \A i \in dark : first <= i
    <2> HIDE DEF dark
    <2> QED
      BY <1>1, MinOf
  <1>3. first \in 1..Len(text) /\ text[first] # "s"
    BY <1>2
  <1>4. \A i \in 1..(first - 1) : text[i] = "s"
    <2> SUFFICES ASSUME NEW i \in 1..(first - 1), text[i] # "s" PROVE FALSE
      OBVIOUS
    <2>1. i \in 1..Len(text) /\ ~(first <= i)
      <3> HIDE DEF first, dark
      <3> QED
        BY <1>3
    <2>2. i \in dark
      BY <2>1
    <2> HIDE DEF first, dark
    <2> QED
      BY <1>2, <2>1, <2>2
  <1> HIDE DEF first, dark
  <1>5. first - 1 \in Nat /\ first - 1 < Len(text) /\ (first - 1) + 1 = first
    BY <1>3
  <1> QED
    BY <1>3, <1>4, <1>5

(* White space before a text is stripped with what the text begins with. *)
LEMMA LeftStripBehind ==
    ASSUME NEW S, NEW b \in Seq(S), Blank(b), NEW t \in Seq(S)
    PROVE  LeftStrip(b \o t) = LeftStrip(t)
  <1> DEFINE k == Len(b)
             n == Len(t)
             bt == b \o t
  <1>1. /\ bt \in Seq(S) /\ Len(bt) = k + n
        /\ \A i \in 1..k : bt[i] = b[i]
        /\ \A j \in 1..n : bt[k + j] = t[j]
    BY Joined
  <1>2. k \in Nat /\ n \in Nat /\ \A i \in 1..k : b[i] = "s"
    BY DEF Blank
  <1>3. CASE Blank(t)
    <2>1. \A j \in 1..n : t[j] = "s"
      BY <1>3 DEF Blank
    <2> HIDE DEF bt, k, n
    <2>2. ASSUME NEW i \in 1..(k + n) PROVE bt[i] = "s"
      <3>1. CASE i <= k
        <4>1. i \in 1..k
          BY <1>2, <3>1
        <4> QED
          BY <1>1, <1>2, <4>1
      <3>2. CASE ~(i <= k)
        <4>1. i - k \in 1..n /\ k + (i - k) = i
          BY <1>2, <3>2
        <4> QED
          BY <1>1, <2>1, <4>1
      <3> QED
        BY <3>1, <3>2
    <2>3. Blank(bt)
      <3>1. DOMAIN bt = 1..(k + n)
        BY <1>1
      <3> QED
        BY <2>2, <3>1 DEF Blank
    <2>4. LeftStrip(bt) = <<>>
      BY <1>1, <2>3, LeftStripBlank
    <2>5. LeftStrip(t) = <<>>
      BY <1>3, LeftStripBlank
    <2> QED
      BY <2>4, <2>5 DEF bt
  <1>4. CASE ~Blank(t)
    <2>1. PICK m \in Nat : m < n /\ t[m + 1] # "s" /\ \A i \in 1..m : t[i] = "s"
      BY <1>4, DarkFirst
    <2>2. LeftStrip(t) = SubSeq(t, m + 1, n)
      BY <2>1, LeftStripIs
    <2> HIDE DEF bt, k, n
    <2>3. ASSUME NEW i \in 1..(k + m) PROVE bt[i] = "s"
      <3>1. CASE i <= k
        <4>1. i \in 1..k
          BY <1>2, <3>1
        <4> QED
          BY <1>1, <1>2, <4>1
      <3>2. CASE ~(i <= k)
        <4>1. i - k \in 1..m /\ i - k \in 1..n /\ k + (i - k) = i
          BY <1>2, <2>1, <3>2
        <4> QED
          BY <1>1, <2>1, <4>1
      <3> QED
        BY <3>1, <3>2
    <2>4. k + m \in Nat /\ k + m < k + n /\ m + 1 \in 1..n /\ (k + m) + 1 = k + (m + 1)
      BY <1>2, <2>1
    <2>5. bt[(k + m) + 1] # "s"
      BY <1>1, <2>1, <2>4
    <2>6. LeftStrip(bt) = SubSeq(bt, (k + m) + 1, k + n)
      BY <1>1, <2>3, <2>4, <2>5, LeftStripIs
    <2> DEFINE p == SubSeq(bt, (k + m) + 1, k + n)
               q == SubSeq(t, m + 1, n)
               a == (k + m) + 1
               e == k + n
               a2 == m + 1
    <2>7. a \in Nat /\ e \in Nat /\ a # 0 /\ e <= Len(bt) /\ a <= e /\ (e - a) + 1 = n - m
          /\ a2 \in Nat /\ a2 # 0 /\ n <= Len(t) /\ a2 <= n /\ (n - a2) + 1 = n - m
      BY <1>1, <1>2, <2>1 DEF n
    <2>8. p \in Seq(S) /\ Len(p) = n - m /\ \A i \in 1..Len(p) : p[i] = bt[a + i - 1]
      <3> HIDE DEF a, e
      <3>1. p = SubSeq(bt, a, e)
        BY DEF a, e
      <3> HIDE DEF p
      <3> QED
        BY <1>1, <2>7, <3>1, PartOf
    <2>9. q \in Seq(S) /\ Len(q) = n - m /\ \A i \in 1..Len(q) : q[i] = t[a2 + i - 1]
      <3> HIDE DEF a2
      <3>1. q = SubSeq(t, a2, n)
        BY DEF a2
      <3> HIDE DEF q
      <3> QED
        BY <1>2, <2>7, <3>1, PartOf
    <2>10. ASSUME NEW i \in 1..(n - m) PROVE p[i] = q[i]
      <3>1. a2 + i - 1 \in 1..n /\ a + i - 1 = k + (a2 + i - 1)
        BY <1>2, <2>1
      <3> HIDE DEF a, a2, p, q
      <3> QED
        BY <1>1, <2>8, <2>9, <3>1
    <2> HIDE DEF p, q
    <2>11. p = q
      BY <2>8, <2>9, <2>10, SameSequence
    <2> QED
      BY <2>2, <2>6, <2>11 DEF p, q, bt
  <1> QED
    BY <1>3, <1>4

(* What stands behind a text that is not white space stays. *)
LEMMA LeftStripBefore ==
    ASSUME NEW S, NEW s \in Seq(S), ~Blank(s), NEW t \in Seq(S)
    PROVE  LeftStrip(s \o t) = LeftStrip(s) \o t
  <1> DEFINE n == Len(s)
             k == Len(t)
             st == s \o t
  <1>1. /\ st \in Seq(S) /\ Len(st) = n + k
        /\ \A i \in 1..n : st[i] = s[i]
        /\ \A j \in 1..k : st[n + j] = t[j]
    BY Joined
  <1>2. k \in Nat /\ n \in Nat
    OBVIOUS
  <1>3. PICK m \in Nat : m < n /\ s[m + 1] # "s" /\ \A i \in 1..m : s[i] = "s"
    BY DarkFirst
  <1>4. LeftStrip(s) = SubSeq(s, m + 1, n)
    BY <1>3, LeftStripIs
  <1> HIDE DEF st
  <1>5. LeftStrip(st) = SubSeq(st, m + 1, n + k)
    <2>1. m < n + k /\ m + 1 \in 1..n /\ \A i \in 1..m : i \in 1..n
      BY <1>2, <1>3
    <2>2. st[m + 1] # "s" /\ \A i \in 1..m : st[i] = "s"
      BY <1>1, <1>3, <2>1
    <2> QED
      BY <1>1, <2>1, <2>2, LeftStripIs
  <1> DEFINE a == m + 1
             e == n + k
             p == SubSeq(st, a, e)
             q == SubSeq(s, a, n)
  <1>6. a \in Nat /\ a # 0 /\ e \in Nat /\ e <= Len(st) /\ a <= e /\ (e - a) + 1 = (n - m) + k
        /\ a <= n /\ n <= Len(s) /\ (n - a) + 1 = n - m
    BY <1>1, <1>2, <1>3
  <1>7. p \in Seq(S) /\ Len(p) = (n - m) + k /\ \A i \in 1..Len(p) : p[i] = st[a + i - 1]
    <2> HIDE DEF a, e
    <2> QED
      BY <1>1, <1>6, PartOf
  <1>8. q \in Seq(S) /\ Len(q) = n - m /\ \A i \in 1..Len(q) : q[i] = s[a + i - 1]
    <2> HIDE DEF a, n
    <2> QED
      BY <1>2, <1>6, PartOf
  <1> HIDE DEF p, q, n, k
  <1>9. /\ q \o t \in Seq(S) /\ Len(q \o t) = (n - m) + k
        /\ \A i \in 1..(n - m) : (q \o t)[i] = q[i]
        /\ \A j \in 1..k : (q \o t)[(n - m) + j] = t[j]
    <2> DEFINE qt == q \o t
    <2>0. q \in Seq(S)
      BY <1>8
    <2>1. /\ qt \in Seq(S) /\ Len(qt) = Len(q) + Len(t)
          /\ \A j \in 1..Len(q) : qt[j] = q[j]
          /\ \A j \in 1..Len(t) : qt[Len(q) + j] = t[j]
      BY <2>0, Joined DEF qt
    <2> HIDE DEF qt
    <2>2. /\ qt \in Seq(S) /\ Len(qt) = (n - m) + k
          /\ \A j \in 1..(n - m) : qt[j] = q[j]
          /\ \A j \in 1..k : qt[(n - m) + j] = t[j]
      BY <1>8, <2>1 DEF k
    <2> QED
      BY <2>2 DEF qt
  <1>10. ASSUME NEW i \in 1..((n - m) + k) PROVE p[i] = (q \o t)[i]
    <2>1. p[i] = st[a + i - 1]
      BY <1>7
    <2>2. CASE i <= n - m
      <3>1. i \in 1..(n - m) /\ a + i - 1 \in 1..n
        BY <1>2, <1>3, <2>2
      <3> QED
        BY <1>1, <1>8, <1>9, <2>1, <3>1
    <2>3. CASE ~(i <= n - m)
      <3>1. i - (n - m) \in 1..k /\ (n - m) + (i - (n - m)) = i
            /\ a + i - 1 = n + (i - (n - m))
        BY <1>2, <1>3, <2>3
      <3> HIDE DEF a
      <3> QED
        BY <1>1, <1>9, <2>1, <3>1
    <2> QED
      BY <2>2, <2>3
  <1>11. p = q \o t
    <2> DEFINE qt == q \o t
    <2> HIDE DEF qt
    <2>1. qt \in Seq(S) /\ Len(p) = Len(qt) /\ \A i \in 1..Len(p) : p[i] = qt[i]
      BY <1>7, <1>9, <1>10 DEF qt
    <2>2. p = qt
      BY <1>7, <2>1, SameSequence
    <2> QED
      BY <2>2 DEF qt
  <1> QED
    BY <1>4, <1>5, <1>11 DEF p, q, st, n, k

(* The reverse of a concatenation. *)
LEMMA ReverseJoined ==
    ASSUME NEW S, NEW s \in Seq(S), NEW t \in Seq(S)
    PROVE  Reverse(s \o t) = Reverse(t) \o Reverse(s)
  <1> DEFINE n == Len(s)
             k == Len(t)
             st == s \o t
             rs == Reverse(s)
             rt == Reverse(t)
             r == Reverse(st)
             j == rt \o rs
  <1>1. /\ st \in Seq(S) /\ Len(st) = n + k
        /\ \A i \in 1..n : st[i] = s[i]
        /\ \A i \in 1..k : st[n + i] = t[i]
    BY Joined
  <1>2. rs \in Seq(S) /\ Len(rs) = n /\ \A i \in 1..n : rs[i] = s[n - i + 1]
    BY ReverseOf
  <1>3. rt \in Seq(S) /\ Len(rt) = k /\ \A i \in 1..k : rt[i] = t[k - i + 1]
    BY ReverseOf
  <1>4. n \in Nat /\ k \in Nat
    OBVIOUS
  <1> HIDE DEF st, rs, rt, n, k
  <1>5. r \in Seq(S) /\ Len(r) = n + k /\ \A i \in 1..(n + k) : r[i] = st[(n + k) - i + 1]
    <2>1. /\ Reverse(st) \in Seq(S)
          /\ Len(Reverse(st)) = Len(st)
          /\ \A i \in 1..Len(st) : Reverse(st)[i] = st[Len(st) - i + 1]
      BY <1>1, ReverseOf
    <2> QED
      BY <1>1, <2>1
  <1>6. /\ j \in Seq(S) /\ Len(j) = k + n
        /\ \A i \in 1..k : j[i] = rt[i]
        /\ \A i \in 1..n : j[k + i] = rs[i]
    <2> HIDE DEF r
    <2>0. rt \in Seq(S) /\ rs \in Seq(S)
      BY <1>2, <1>3
    <2>1. /\ j \in Seq(S) /\ Len(j) = Len(rt) + Len(rs)
          /\ \A i \in 1..Len(rt) : j[i] = rt[i]
          /\ \A i \in 1..Len(rs) : j[Len(rt) + i] = rs[i]
      BY <2>0, Joined DEF j
    <2> HIDE DEF j
    <2> QED
      BY <1>2, <1>3, <2>1
  <1> HIDE DEF r, j
  <1>7. ASSUME NEW i \in 1..(n + k) PROVE r[i] = j[i]
    <2>1. r[i] = st[(n + k) - i + 1]
      BY <1>5
    <2>2. CASE i <= k
      <3> DEFINE p == k - i + 1
      <3>1. i \in 1..k /\ p \in 1..k /\ (n + k) - i + 1 = n + p
        BY <1>4, <2>2
      <3>2. rt[i] = t[p]
        BY <1>3, <3>1
      <3>3. j[i] = rt[i]
        BY <1>6, <3>1
      <3> HIDE DEF p
      <3>4. st[n + p] = t[p]
        BY <1>1, <3>1
      <3> QED
        BY <2>1, <3>1, <3>2, <3>3, <3>4
    <2>3. CASE ~(i <= k)
      <3> DEFINE h == i - k
                 p == n - h + 1
      <3>1. h \in 1..n /\ p \in 1..n /\ k + h = i /\ (n + k) - i + 1 = p
        BY <1>4, <2>3
      <3>2. rs[h] = s[p]
        BY <1>2, <3>1
      <3> HIDE DEF h, p
      <3>3. j[k + h] = rs[h]
        BY <1>6, <3>1
      <3>4. st[p] = s[p]
        BY <1>1, <3>1
      <3> QED
        BY <2>1, <3>1, <3>2, <3>3, <3>4
    <2> QED
      BY <2>2, <2>3
  <1>8. r = j
    <2>1. Len(r) = Len(j) /\ \A i \in 1..Len(r) : r[i] = j[i]
      BY <1>4, <1>5, <1>6, <1>7
    <2> QED
      BY <1>5, <1>6, <2>1, SameSequence
  <1> QED
    BY <1>8 DEF r, j, st, rs, rt

(* White space is white space in reverse. *)
LEMMA ReverseBlank ==
    ASSUME NEW S, NEW s \in Seq(S)
    PROVE  Blank(Reverse(s)) <=> Blank(s)
  <1> DEFINE n == Len(s)
             r == Reverse(s)
  <1>1. /\ r \in Seq(S) /\ Len(r) = n
        /\ \A i \in 1..n : n - i + 1 \in 1..n /\ r[i] = s[n - i + 1]
    BY ReverseOf
  <1>2. n \in Nat /\ DOMAIN s = 1..n
    OBVIOUS
  <1> HIDE DEF n, r
  <1>3. DOMAIN r = 1..n
    BY <1>1
  <1>4. ASSUME NEW i \in 1..n PROVE s[i] = r[n - i + 1] /\ n - i + 1 \in 1..n
    <2>1. n - i + 1 \in 1..n /\ n - (n - i + 1) + 1 = i
      BY <1>2
    <2> QED
      BY <1>1, <2>1
  <1> QED
    BY <1>1, <1>2, <1>3, <1>4 DEF Blank, r

(* White space behind a text is stripped. *)
LEMMA StripTail ==
    ASSUME NEW S, NEW s \in Seq(S), NEW b \in Seq(S), Blank(b)
    PROVE  Strip(s \o b) = Strip(s)
  <1> DEFINE u == LeftStrip(s)
  <1>1. u \in Seq(S)
    BY LeftStripOf
  <1>2. CASE Blank(s)
    <2>1. LeftStrip(s \o b) = LeftStrip(b)
      BY <1>2, LeftStripBehind
    <2>2. LeftStrip(b) = <<>> /\ LeftStrip(s) = <<>>
      BY <1>2, LeftStripBlank
    <2> QED
      BY <2>1, <2>2 DEF Strip
  <1>3. CASE ~Blank(s)
    <2>1. LeftStrip(s \o b) = u \o b
      BY <1>3, LeftStripBefore
    <2> HIDE DEF u
    <2>2. Reverse(u \o b) = Reverse(b) \o Reverse(u)
      BY <1>1, ReverseJoined
    <2>3. Reverse(b) \in Seq(S) /\ Reverse(u) \in Seq(S)
      BY <1>1, ReverseOf
    <2>4. Blank(Reverse(b))
      BY ReverseBlank
    <2> DEFINE rb == Reverse(b)
               ru == Reverse(u)
    <2> HIDE DEF rb, ru
    <2>5. LeftStrip(rb \o ru) = LeftStrip(ru)
      BY <2>3, <2>4, LeftStripBehind DEF rb, ru
    <2> QED
      BY <2>1, <2>2, <2>5 DEF Strip, u, rb, ru
  <1> QED
    BY <1>2, <1>3

(* Lists of one each, joined, are the list of these. *)
LEMMA SinglesJoined ==
    ASSUME NEW S, NEW list \in Seq(S), NEW seqs \in Seq(Seq(S)), Len(seqs) = Len(list),
           \A i \in 1..Len(list) : seqs[i] = <<list[i]>>
    PROVE  FlattenSeq(seqs) = list
  <1> DEFINE flat == FlattenSeq(seqs)
             N == Len(list)
  <1>1. N \in Nat
    OBVIOUS
  <1>2. flat \in Seq(S)
    BY Flattened
  <1>3. PICK offs : IsLayout(offs, flat, seqs)
    BY Flattened
  <1>4. ASSUME NEW i \in 1..N PROVE Len(seqs[i]) = 1 /\ seqs[i][1] = list[i]
    <2> DEFINE v == list[i]
    <2>1. seqs[i] = <<v>>
      OBVIOUS
    <2> HIDE DEF v
    <2>2. Len(seqs[i]) = 1 /\ seqs[i][1] = v
      BY <2>1
    <2> QED
      BY <2>2 DEF v
  <1>5. Len(seqs) = N
    OBVIOUS
  <1> DEFINE K == {k \in Nat : k <= N => offs[k] = k}
  <1> HIDE DEF flat, N
  <1>6. 0 \in K
    BY <1>3 DEF IsLayout
  <1>7. ASSUME NEW k \in Nat, k \in K PROVE k + 1 \in K
    <2>1. SUFFICES ASSUME k + 1 <= N PROVE offs[k + 1] = k + 1
      OBVIOUS
    <2>2. k + 1 \in 1..N /\ (k + 1) - 1 = k /\ k <= N
      BY <1>1, <2>1
    <2>3. offs[k + 1] = offs[k] + Len(seqs[k + 1])
      BY <1>3, <1>5, <2>2 DEF IsLayout
    <2> QED
      BY <1>4, <1>7, <2>2, <2>3
  <1> HIDE DEF K
  <1>8. \A k \in Nat : k \in K
    BY <1>6, <1>7, SetInduction, Zenon
  <1>9. Len(flat) = N
    BY <1>1, <1>3, <1>5, <1>8 DEF IsLayout, K
  <1>10. ASSUME NEW i \in 1..N PROVE flat[i] = list[i]
    <2>1. i - 1 \in Nat /\ i - 1 <= N
      BY <1>1
    <2>2. offs[i - 1] = i - 1
      BY <1>8, <2>1 DEF K
    <2>3. 1 \in Nat /\ 1 \in 1..Len(seqs[i])
      BY <1>4
    <2>4. flat[offs[i - 1] + 1] = seqs[i][1]
      BY <1>3, <1>5, <2>3 DEF IsLayout
    <2> QED
      BY <1>1, <1>4, <2>2, <2>4
  <1> QED
    BY <1>2, <1>9, <1>10, SameSequence DEF flat, N

(* And empty lists are nothing. *)
LEMMA NothingJoined ==
    ASSUME NEW S, NEW seqs \in Seq(Seq(S)), \A i \in 1..Len(seqs) : seqs[i] = <<>>
    PROVE  FlattenSeq(seqs) = <<>>
  <1> DEFINE flat == FlattenSeq(seqs)
  <1>1. flat \in Seq(S)
    BY Flattened
  <1>2. PICK offs : IsLayout(offs, flat, seqs)
    BY Flattened
  <1>3. \A i \in 1..Len(seqs) : Len(seqs[i]) = 0
    OBVIOUS
  <1> HIDE DEF flat
  <1>4. ASSUME NEW i \in 1..Len(flat) PROVE FALSE
    <2>1. PICK k \in 1..Len(seqs), j \in Nat : j \in 1..Len(seqs[k]) /\ i = offs[k - 1] + j
      BY <1>2 DEF IsLayout
    <2> QED
      BY <1>3, <2>1
  <1>5. Len(flat) = 0
    <2>1. Len(flat) \in Nat
      BY <1>1
    <2>2. Len(flat) # 0 => 1 \in 1..Len(flat)
      BY <2>1
    <2> QED
      BY <1>4, <2>2
  <1> QED
    BY <1>1, <1>5 DEF flat

-----------------------------------------------------------------------------
(* Order *)

(* sorted() lists every element once, when the order leaves none level. *)
LEMMA RankedOf ==
    ASSUME NEW S, IsFiniteSet(S), NEW ahead,
           \A v \in S : <<v, v>> \notin ahead,
           \A u, v, w \in S : <<u, v>> \in ahead /\ <<v, w>> \in ahead => <<u, w>> \in ahead,
           \A u, v \in S : u # v => <<u, v>> \in ahead \/ <<v, u>> \in ahead
    PROVE  /\ Ranked(S, ahead) \in Seq(S)
           /\ Len(Ranked(S, ahead)) = Cardinality(S)
           /\ \A i, j \in 1..Cardinality(S) :
                Ranked(S, ahead)[i] = Ranked(S, ahead)[j] => i = j
  <1> DEFINE n == Cardinality(S)
             Before(v) == {w \in S : <<w, v>> \in ahead}
             rank == [v \in S |-> Cardinality(Before(v)) + 1]
  <1>1. n \in Nat
    BY FS_CardinalityType
  <1>2. ASSUME NEW v \in S
        PROVE  /\ IsFiniteSet(Before(v)) /\ Cardinality(Before(v)) \in Nat
               /\ Cardinality(Before(v)) <= n - 1
    <2>1. IsFiniteSet(S \ {v}) /\ Cardinality(S \ {v}) = n - 1
      BY FS_RemoveElement
    <2>2. Before(v) \in SUBSET (S \ {v})
      OBVIOUS
    <2> HIDE DEF Before
    <2>3. IsFiniteSet(Before(v)) /\ Cardinality(Before(v)) <= Cardinality(S \ {v})
      BY <2>1, <2>2, FS_Subset
    <2> QED
      BY <2>1, <2>3, FS_CardinalityType
  <1>3. ASSUME NEW u \in S, NEW v \in S, <<u, v>> \in ahead
        PROVE  Cardinality(Before(u)) < Cardinality(Before(v))
    <2>1. Before(u) \in SUBSET Before(v) /\ u \in Before(v) /\ u \notin Before(u)
      BY <1>3
    <2> HIDE DEF Before
    <2>2. /\ Cardinality(Before(u)) <= Cardinality(Before(v))
          /\ Cardinality(Before(v)) = Cardinality(Before(u)) => Before(v) = Before(u)
      BY <1>2, <2>1, FS_Subset
    <2>3. Before(v) # Before(u)
      BY <2>1
    <2>4. Cardinality(Before(u)) \in Nat /\ Cardinality(Before(v)) \in Nat
      BY <1>2
    <2> QED
      BY <2>2, <2>3, <2>4
  <1>4. ASSUME NEW u \in S, NEW v \in S, rank[u] = rank[v] PROVE u = v
    <2>1. SUFFICES ASSUME u # v PROVE FALSE
      OBVIOUS
    <2>2. Cardinality(Before(u)) \in Nat /\ Cardinality(Before(v)) \in Nat
      BY <1>2
    <2>3. Cardinality(Before(u)) = Cardinality(Before(v))
      <3>1. Cardinality(Before(u)) + 1 = Cardinality(Before(v)) + 1
        BY <1>4
      <3> HIDE DEF Before
      <3> QED
        BY <2>2, <3>1
    <2>4. <<u, v>> \in ahead \/ <<v, u>> \in ahead
      BY <2>1
    <2> HIDE DEF Before
    <2> QED
      BY <1>3, <2>2, <2>3, <2>4
  <1>5. rank \in [S -> 1..n]
    <2>1. \A v \in S : Cardinality(Before(v)) + 1 \in 1..n
      <3> HIDE DEF Before
      <3> QED
        BY <1>1, <1>2
    <2> QED
      BY <2>1
  <1>6. \A k \in 1..n : \E v \in S : rank[v] = k
    <2> HIDE DEF rank
    <2>1. rank \in Injection(S, 1..n)
      BY <1>4, <1>5 DEF Injection, IsInjective
    <2>2. IsFiniteSet(1..n) /\ Cardinality(1..n) = n
      BY <1>1, FS_Interval
    <2>3. rank \in Surjection(S, 1..n)
      BY <2>1, <2>2, FS_Injection
    <2> QED
      BY <2>3 DEF Surjection
  <1> DEFINE At(k) == CHOOSE v \in S : Cardinality(Before(v)) = k - 1
             sorted == [k \in 1..n |-> At(k)]
  <1>7. sorted = Ranked(S, ahead)
    BY DEF Ranked
  <1>8. \A k \in 1..n : sorted[k] \in S /\ Cardinality(Before(sorted[k])) = k - 1
    <2> SUFFICES ASSUME NEW k \in 1..n
                 PROVE  sorted[k] \in S /\ Cardinality(Before(sorted[k])) = k - 1
      OBVIOUS
    <2>1. PICK v \in S : rank[v] = k
      BY <1>6
    <2>2. Cardinality(Before(v)) = k - 1
      <3>1. Cardinality(Before(v)) + 1 = k /\ Cardinality(Before(v)) \in Nat
        BY <1>2, <2>1
      <3> HIDE DEF Before
      <3> QED
        BY <3>1
    <2>3. sorted[k] = At(k)
      OBVIOUS
    <2> HIDE DEF Before, sorted
    <2> QED
      BY <2>2, <2>3 DEF At
  <1>9. sorted \in Seq(S) /\ Len(sorted) = n
    <2> HIDE DEF At, n, Before
    <2>1. \A k \in 1..n : At(k) \in S
      BY <1>8
    <2> QED
      BY <1>1, <2>1
  <1> HIDE DEF sorted, n, Before, At
  <1>10. ASSUME NEW i \in 1..n, NEW j \in 1..n, sorted[i] = sorted[j] PROVE i = j
    <2>1. i - 1 = j - 1
      BY <1>8, <1>10
    <2> QED
      BY <2>1
  <1> QED
    BY <1>7, <1>9, <1>10 DEF n

===============================================================================
