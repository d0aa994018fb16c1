----------------------------- MODULE Induction -----------------------------
(***************************************************************************)
(* What the proofs about sequences rest on: induction over the naturals,   *)
(* and what a function or a fold defined by recursion computes.  A         *)
(* property is handed over as the set of what has it, and a recursion as   *)
(* the function of its step, so that every lemma is of first order.        *)
(***************************************************************************)
EXTENDS Lists, FiniteSetTheorems, WellFoundedInduction, TLAPS

\* Every set of naturals has a least element.
LEMMA LeastOf ==
  ASSUME NEW T, T \subseteq Nat, T # {}
  PROVE  \E x \in T : \A y \in T : x <= y
<1>1. PICK R : IsWellFoundedOn(R, Nat) /\ \A x, y \in Nat : <<y, x>> \in R <=> y < x
  <2>1. IsWellFoundedOn(OpToRel(<, Nat), Nat)
    BY NatLessThanWellFounded
  <2>2. \A x, y \in Nat : <<y, x>> \in OpToRel(<, Nat) <=> y < x
    BY DEF OpToRel
  <2> QED BY <2>1, <2>2
<1>2. PICK x \in T : \A y \in T : ~ (<<y, x>> \in R)
  BY <1>1, WFMin
<1>3. ASSUME NEW y \in T PROVE x <= y
  <2>1. x \in Nat /\ y \in Nat /\ ~ (y < x)
    BY <1>1, <1>2
  <2> QED BY <2>1
<1> QED BY <1>3

LEMMA MinIsLeast ==
  ASSUME NEW T, T \subseteq Nat, T # {}
  PROVE  Min(T) \in T /\ \A y \in T : Min(T) <= y
BY LeastOf DEF Min

\* Induction: what holds of 0, and of n + 1 when of n, holds of every natural.
LEMMA ByInduction ==
  ASSUME NEW T, 0 \in T, \A n \in Nat : n \in T => n + 1 \in T
  PROVE  \A n \in Nat : n \in T
<1> SUFFICES ASSUME Nat \ T # {} PROVE FALSE
  OBVIOUS
<1>1. PICK x \in Nat \ T : \A y \in Nat \ T : x <= y
  BY LeastOf
<1>2. x # 0 /\ x - 1 \in Nat
  BY <1>1
<1>3. x - 1 \in T
  BY <1>1, <1>2
<1> QED BY <1>1, <1>2, <1>3

\* Every bounded set of naturals has a greatest element, and Max is it.
LEMMA GreatestOf ==
  ASSUME NEW k \in Nat, NEW T, T \subseteq 1..k, T # {}
  PROVE  Max(T) \in T /\ \A y \in T : y <= Max(T)
<1>1. \E x \in {k - y : y \in T} : \A z \in {k - y : y \in T} : x <= z
  <2>1. {k - y : y \in T} \subseteq Nat
    OBVIOUS
  <2>2. {k - y : y \in T} # {}
    <3>1. PICK y : y \in T
      OBVIOUS
    <3>2. k - y \in {k - z : z \in T}
      BY <3>1
    <3> QED BY <3>2
  <2> QED BY <2>1, <2>2, LeastOf
<1>2. PICK m \in T : \A y \in T : k - m <= k - y
  BY <1>1
<1>3. \A y \in T : m >= y
  BY <1>2
<1>4. \E x \in T : \A y \in T : x >= y
  BY <1>3
<1>5. Max(T) \in T /\ \A y \in T : Max(T) >= y
  BY <1>4 DEF Max
<1> QED BY <1>5

\* The greatest of a set that reaches up to k + 1, and what is left without it.
LEMMA UpTo ==
  ASSUME NEW k \in Nat
  PROVE  /\ k + 1 \in 1..(k + 1) /\ 1..k \subseteq 1..(k + 1)
         /\ (1..(k + 1)) \ {k + 1} = 1..k
         /\ \A T \in SUBSET (1..(k + 1)) : k + 1 \in T => Max(T) = k + 1
<1>1. k + 1 \in 1..(k + 1) /\ 1..k \subseteq 1..(k + 1)
  OBVIOUS
<1>2. (1..(k + 1)) \ {k + 1} = 1..k
  <2>1. \A x : x \in (1..(k + 1)) \ {k + 1} <=> x \in 1..k
    OBVIOUS
  <2> QED BY <2>1
<1>3. ASSUME NEW T \in SUBSET (1..(k + 1)), k + 1 \in T PROVE Max(T) = k + 1
  <2>1. k + 1 \in Nat /\ T # {}
    BY <1>3
  <2>2. Max(T) \in T /\ \A y \in T : y <= Max(T)
    BY <2>1, GreatestOf
  <2>3. Max(T) \in 1..(k + 1) /\ k + 1 <= Max(T)
    BY <1>3, <2>2
  <2> QED BY <2>3
<1> QED BY <1>1, <1>2, <1>3

----------------------------------------------------------------------------
\* A recursion over 1..n, from c on: its step, as a function of the index and the value
\* before, and its results.
IsStep(H, n, V) == H \in [(1..n) \X V -> V]

Follows(g, H, c, n, V) ==
  g \in [0..n -> V] /\ g[0] = c /\ \A i \in 1..n : g[i] = H[<<i, g[i - 1]>>]

\* There are such results.
LEMMA Recursion ==
  ASSUME NEW V, NEW c \in V, NEW n \in Nat, NEW H, IsStep(H, n, V)
  PROVE  \E g : Follows(g, H, c, n, V)
<1> USE DEF IsStep, Follows
<1> DEFINE Good(g, m) == g[0] = c /\ \A i \in 1..m : g[i] = H[<<i, g[i - 1]>>]
           T == {m \in Nat : m <= n => \E g \in [0..m -> V] : Good(g, m)}
<1>1. 0 \in T
  <2>1. Good([i \in 0..0 |-> c], 0)
    OBVIOUS
  <2> QED BY <2>1
<1>2. ASSUME NEW m \in Nat, m \in T PROVE m + 1 \in T
  <2> SUFFICES ASSUME m + 1 <= n PROVE \E g \in [0..(m + 1) -> V] : Good(g, m + 1)
    OBVIOUS
  <2>1. PICK g \in [0..m -> V] : Good(g, m)
    BY <1>2
  <2> DEFINE h == [i \in 0..(m + 1) |-> IF i = m + 1 THEN H[<<m + 1, g[m]>>] ELSE g[i]]
  <2>2. g[m] \in V /\ m + 1 \in 1..n
    BY <2>1
  <2>3. H[<<m + 1, g[m]>>] \in V
    BY <2>2
  <2>4. h \in [0..(m + 1) -> V]
    BY <2>1, <2>3
  <2>5. h[m + 1] = H[<<m + 1, g[m]>>] /\ \A i \in 0..m : h[i] = g[i]
    OBVIOUS
  <2>6. h[0] = c
    BY <2>1, <2>5
  <2> HIDE DEF h
  <2>7. ASSUME NEW i \in 1..(m + 1) PROVE h[i] = H[<<i, h[i - 1]>>]
    <3>1. CASE i = m + 1
      BY <2>5, <3>1
    <3>2. CASE i # m + 1
      <4>1. i \in 1..m /\ i \in 0..m /\ i - 1 \in 0..m
        BY <3>2
      <4> QED BY <4>1, <2>1, <2>5
    <3> QED BY <3>1, <3>2
  <2> QED BY <2>4, <2>6, <2>7
<1> HIDE DEF T
<1>3. n \in T
  BY <1>1, <1>2, ByInduction
<1> QED BY <1>3 DEF T

----------------------------------------------------------------------------
\* A sequence that has one element more than another.
LEMMA AppendIs ==
  ASSUME NEW S, NEW s \in Seq(S), NEW x \in S, NEW t \in Seq(S),
         DOMAIN t = 1..(Len(s) + 1), t[Len(s) + 1] = x, \A i \in 1..Len(s) : t[i] = s[i]
  PROVE  t = Append(s, x)
<1> DEFINE a == Append(s, x)
<1>1. a \in Seq(S) /\ Len(a) = Len(s) + 1 /\ Len(s) \in Nat
      /\ a[Len(s) + 1] = x /\ \A i \in 1..Len(s) : a[i] = s[i]
  OBVIOUS
<1> HIDE DEF a
<1>2. DOMAIN a = 1..(Len(s) + 1) /\ a = [i \in DOMAIN a |-> a[i]] /\ t = [i \in DOMAIN t |-> t[i]]
  BY <1>1
<1>3. \A i \in 1..(Len(s) + 1) : t[i] = a[i]
  BY <1>1
<1>4. t = a
  BY <1>2, <1>3
<1> QED BY <1>4 DEF a

----------------------------------------------------------------------------
\* The fold behind a sum removes the greatest index of the set it is at.
Removes(g, s, k) ==
  \A S \in SUBSET (1..k) : g[S] = IF S = {} THEN 0 ELSE g[S \ {Max(S)}] + s[Max(S)]

LEMMA FoldExists ==
  ASSUME NEW s \in Seq(Int)
  PROVE  \E g \in [SUBSET (1..Len(s)) -> Int] : Removes(g, s, Len(s))
<1> DEFINE Exists(k) == \E g \in [SUBSET (1..k) -> Int] : Removes(g, s, k)
           T == {k \in Nat : k <= Len(s) => Exists(k)}
<1>1. Exists(0)
  <2>1. Removes([S \in SUBSET (1..0) |-> 0], s, 0)
    BY DEF Removes
  <2>2. [S \in SUBSET (1..0) |-> 0] \in [SUBSET (1..0) -> Int]
    OBVIOUS
  <2> QED BY <2>1, <2>2
<1>2. ASSUME NEW k \in Nat, k + 1 <= Len(s), Exists(k) PROVE Exists(k + 1)
  <2>1. PICK g \in [SUBSET (1..k) -> Int] : Removes(g, s, k)
    BY <1>2
  <2>2. s[k + 1] \in Int
    BY <1>2
  <2> DEFINE h == [S \in SUBSET (1..(k + 1)) |->
                     IF k + 1 \in S THEN g[S \ {k + 1}] + s[k + 1] ELSE g[S]]
  <2>3. ASSUME NEW S \in SUBSET (1..(k + 1))
        PROVE  /\ k + 1 \in S => S \ {k + 1} \in SUBSET (1..k)
               /\ k + 1 \notin S => S \in SUBSET (1..k)
    OBVIOUS
  <2>4. h \in [SUBSET (1..(k + 1)) -> Int]
    <3>1. ASSUME NEW S \in SUBSET (1..(k + 1))
          PROVE  (IF k + 1 \in S THEN g[S \ {k + 1}] + s[k + 1] ELSE g[S]) \in Int
      BY <2>1, <2>2, <2>3
    <3> QED BY <3>1
  <2>5. \A S \in SUBSET (1..(k + 1)) :
          h[S] = IF k + 1 \in S THEN g[S \ {k + 1}] + s[k + 1] ELSE g[S]
    OBVIOUS
  <2> HIDE DEF h
  <2>6. ASSUME NEW S \in SUBSET (1..(k + 1))
        PROVE  h[S] = IF S = {} THEN 0 ELSE h[S \ {Max(S)}] + s[Max(S)]
    <3>1. CASE k + 1 \in S
      <4>1. Max(S) = k + 1
        BY <3>1, UpTo
      <4>2. S \ {k + 1} \in SUBSET (1..(k + 1)) /\ k + 1 \notin S \ {k + 1}
        OBVIOUS
      <4>3. h[S \ {k + 1}] = g[S \ {k + 1}]
        BY <4>2, <2>5
      <4> QED BY <3>1, <4>1, <4>3, <2>5
    <3>2. CASE k + 1 \notin S /\ S # {}
      <4>1. S \in SUBSET (1..k)
        BY <2>3, <3>2
      <4>2. S \ {Max(S)} \in SUBSET (1..(k + 1)) /\ k + 1 \notin S \ {Max(S)}
        BY <3>2
      <4>3. h[S] = g[S] /\ h[S \ {Max(S)}] = g[S \ {Max(S)}]
        BY <3>2, <4>2, <2>5
      <4>4. g[S] = g[S \ {Max(S)}] + s[Max(S)]
        BY <2>1, <3>2, <4>1 DEF Removes
      <4> QED BY <3>2, <4>3, <4>4
    <3>3. CASE S = {}
      <4>1. h[S] = g[S] /\ S \in SUBSET (1..k)
        BY <3>3, <2>5
      <4>2. g[S] = 0
        BY <4>1, <3>3, <2>1 DEF Removes
      <4> QED BY <3>3, <4>1, <4>2
    <3> QED BY <3>1, <3>2, <3>3
  <2> QED BY <2>4, <2>6 DEF Removes
<1> HIDE DEF Exists
<1>3. \A k \in Nat : k \in T
  <2>1. 0 \in T
    BY <1>1
  <2>2. ASSUME NEW k \in Nat, k \in T PROVE k + 1 \in T
    BY <1>2, <2>2
  <2> HIDE DEF T
  <2> QED BY <2>1, <2>2, ByInduction
<1>4. Len(s) \in T /\ Len(s) <= Len(s)
  BY <1>3
<1>5. Exists(Len(s))
  BY <1>4
<1> QED BY <1>5 DEF Exists

\* Prefix sums are what the fold is of the prefixes.
LEMMA TotalIs ==
  ASSUME NEW s \in Seq(Int), NEW p, p[0] = 0, \A i \in 1..Len(s) : p[i] = p[i - 1] + s[i]
  PROVE  Total(s) = p[Len(s)]
<1> DEFINE Step(g) == [S \in SUBSET (DOMAIN s) |->
                         IF S = {} THEN 0 ELSE g[S \ {Max(S)}] + s[Max(S)]]
           G == CHOOSE g : g = Step(g)
<1>1. Total(s) = G[DOMAIN s]
  BY DEF Total, FoldLeft, MapThenFoldSet
<1>2. DOMAIN s = 1..Len(s) /\ Len(s) \in Nat
  OBVIOUS
<1>3. G = Step(G)
  <2>1. PICK g \in [SUBSET (1..Len(s)) -> Int] : Removes(g, s, Len(s))
    BY FoldExists
  <2>2. g = Step(g)
    <3>1. \A S \in SUBSET (DOMAIN s) : g[S] = IF S = {} THEN 0 ELSE g[S \ {Max(S)}] + s[Max(S)]
      BY <2>1, <1>2 DEF Removes
    <3> QED BY <3>1, <2>1, <1>2
  <2> QED BY <2>2
<1>4. \A S \in SUBSET (1..Len(s)) : G[S] = IF S = {} THEN 0 ELSE G[S \ {Max(S)}] + s[Max(S)]
  BY <1>2, <1>3
<1> HIDE DEF G
<1> DEFINE T == {k \in Nat : k <= Len(s) => G[1..k] = p[k]}
<1>5. 0 \in T
  <2>1. 1..0 = {} /\ 1..0 \in SUBSET (1..Len(s))
    OBVIOUS
  <2>2. G[1..0] = 0
    BY <1>4, <2>1
  <2> QED BY <2>2
<1>6. ASSUME NEW k \in Nat, k \in T PROVE k + 1 \in T
  <2> SUFFICES ASSUME k + 1 <= Len(s) PROVE G[1..(k + 1)] = p[k + 1]
    OBVIOUS
  <2>1. Max(1..(k + 1)) = k + 1
    <3>1. 1..(k + 1) \in SUBSET (1..(k + 1)) /\ k + 1 \in 1..(k + 1)
      BY UpTo
    <3> QED BY <3>1, UpTo
  <2>2. (1..(k + 1)) \ {k + 1} = 1..k /\ 1..(k + 1) # {} /\ 1..(k + 1) \in SUBSET (1..Len(s))
    <3>1. 1..(k + 1) # {} /\ (1..(k + 1)) \ {k + 1} = 1..k
      BY UpTo
    <3>2. 1..(k + 1) \in SUBSET (1..Len(s))
      BY <1>2
    <3> QED BY <3>1, <3>2
  <2>3. G[1..(k + 1)] = G[1..k] + s[k + 1]
    BY <1>4, <2>1, <2>2
  <2>4. G[1..k] = p[k] /\ k + 1 \in 1..Len(s) /\ (k + 1) - 1 = k
    BY <1>6
  <2>5. p[k + 1] = p[k] + s[k + 1]
    BY <2>4
  <2> QED BY <2>3, <2>4, <2>5
<1> HIDE DEF T
<1>7. Len(s) \in T
  BY <1>2, <1>5, <1>6, ByInduction
<1> QED BY <1>1, <1>2, <1>7 DEF T

\* They exist, and are integers.
LEMMA PrefixSums ==
  ASSUME NEW s \in Seq(Int)
  PROVE  \E p \in [0..Len(s) -> Int] : p[0] = 0 /\ \A i \in 1..Len(s) : p[i] = p[i - 1] + s[i]
<1> DEFINE H == [x \in (1..Len(s)) \X Int |-> x[2] + s[x[1]]]
<1>1. H \in [(1..Len(s)) \X Int -> Int] /\ Len(s) \in Nat /\ 0 \in Int
  OBVIOUS
<1>2. \A i \in 1..Len(s), v \in Int : H[<<i, v>>] = v + s[i]
  OBVIOUS
<1> HIDE DEF H
<1>3. PICK p : Follows(p, H, 0, Len(s), Int)
  <2>1. IsStep(H, Len(s), Int)
    BY <1>1 DEF IsStep
  <2> QED BY <1>1, <2>1, Recursion
<1>4. ASSUME NEW i \in 1..Len(s) PROVE p[i] = p[i - 1] + s[i]
  <2>1. p[i - 1] \in Int
    BY <1>1, <1>3 DEF Follows
  <2> QED BY <2>1, <1>2, <1>3 DEF Follows
<1> QED BY <1>3, <1>4 DEF Follows

\* The sum of nothing, and of one more.
LEMMA TotalEmpty == Total(<<>>) = 0
<1>1. <<>> \in Seq(Int) /\ Len(<<>>) = 0 /\ [i \in {0} |-> 0][0] = 0
  OBVIOUS
<1>2. \A i \in 1..Len(<<>>) : [j \in {0} |-> 0][i] = [j \in {0} |-> 0][i - 1] + <<>>[i]
  BY <1>1
<1> QED BY <1>1, <1>2, TotalIs

LEMMA TotalAppend ==
  ASSUME NEW s \in Seq(Int), NEW x \in Int
  PROVE  /\ Total(s) \in Int
         /\ Total(Append(s, x)) = Total(s) + x
<1> DEFINE t == Append(s, x)
<1>1. t \in Seq(Int) /\ Len(t) = Len(s) + 1 /\ Len(s) \in Nat /\ t[Len(s) + 1] = x
      /\ \A i \in 1..Len(s) : t[i] = s[i]
  OBVIOUS
<1> HIDE DEF t
<1>2. PICK p \in [0..Len(t) -> Int] : p[0] = 0 /\ \A i \in 1..Len(t) : p[i] = p[i - 1] + t[i]
  BY <1>1, PrefixSums
<1>3. Total(t) = p[Len(s) + 1]
  BY <1>1, <1>2, TotalIs
<1>4. Total(s) = p[Len(s)]
  <2>1. \A i \in 1..Len(s) : i \in 1..Len(t)
    BY <1>1
  <2>2. \A i \in 1..Len(s) : p[i] = p[i - 1] + s[i]
    BY <2>1, <1>1, <1>2
  <2> QED BY <2>2, <1>2, TotalIs
<1>5. Len(s) \in 0..Len(t) /\ Len(s) + 1 \in 1..Len(t) /\ (Len(s) + 1) - 1 = Len(s)
  BY <1>1
<1>6. p[Len(s)] \in Int /\ p[Len(s) + 1] = p[Len(s)] + x
  BY <1>1, <1>2, <1>5
<1> QED BY <1>3, <1>4, <1>6 DEF t

----------------------------------------------------------------------------
\* What is picked of a list: p gives the place of each element.
Picks(p, t, s, D) ==
  /\ p \in [1..Len(t) -> D]
  /\ \A i, j \in 1..Len(t) : i < j => p[i] < p[j]
  /\ \A d \in D : \E i \in 1..Len(t) : p[i] = d
  /\ \A i \in 1..Len(t) : t[i] = s[p[i]]

\* One more element at a place after all the others.
LEMMA PicksOneMore ==
  ASSUME NEW S, NEW s \in Seq(S), NEW n \in Nat, n + 1 \in 1..Len(s),
         NEW D, D \subseteq 1..n, NEW t \in Seq(S), NEW p, Picks(p, t, s, D)
  PROVE  /\ Append(t, s[n + 1]) \in Seq(S)
         /\ \E q : Picks(q, Append(t, s[n + 1]), s, D \cup {n + 1})
<1> DEFINE m == Len(t)
           u == Append(t, s[n + 1])
           q == [i \in 1..(m + 1) |-> IF i = m + 1 THEN n + 1 ELSE p[i]]
<1>1. u \in Seq(S) /\ Len(u) = m + 1 /\ m \in Nat /\ u[m + 1] = s[n + 1]
      /\ \A i \in 1..m : u[i] = t[i]
  <2>1. s[n + 1] \in S
    OBVIOUS
  <2> QED BY <2>1
<1>2. q[m + 1] = n + 1 /\ \A i \in 1..m : q[i] = p[i] /\ q[i] \in D /\ i \in 1..(m + 1)
  <2>1. \A i \in 1..m : p[i] \in D
    BY DEF Picks
  <2> QED BY <1>1, <2>1
<1>3. q \in [1..(m + 1) -> D \cup {n + 1}]
  <2>1. ASSUME NEW i \in 1..(m + 1) PROVE (IF i = m + 1 THEN n + 1 ELSE p[i]) \in D \cup {n + 1}
    <3>1. CASE i = m + 1
      BY <3>1
    <3>2. CASE i # m + 1
      <4>1. i \in 1..m
        BY <1>1, <3>2
      <4> QED BY <4>1, <3>2 DEF Picks
    <3> QED BY <3>1, <3>2
  <2> QED BY <2>1
<1> HIDE DEF q, u
<1>4. ASSUME NEW i \in 1..(m + 1), NEW j \in 1..(m + 1), i < j PROVE q[i] < q[j]
  <2>1. i \in 1..m
    BY <1>1, <1>4
  <2>2. CASE j = m + 1
    <3>1. q[i] \in 1..n
      BY <2>1, <1>2
    <3> QED BY <3>1, <2>2, <1>2
  <2>3. CASE j # m + 1
    <3>1. j \in 1..m
      BY <1>1, <2>3
    <3> QED BY <2>1, <3>1, <1>2, <1>4 DEF Picks
  <2> QED BY <2>2, <2>3
<1>5. ASSUME NEW d \in D \cup {n + 1} PROVE \E i \in 1..(m + 1) : q[i] = d
  <2>1. CASE d = n + 1
    <3>1. m + 1 \in 1..(m + 1)
      BY <1>1
    <3> QED BY <2>1, <3>1, <1>2
  <2>2. CASE d \in D
    <3>1. PICK i \in 1..m : p[i] = d
      BY <2>2 DEF Picks
    <3> QED BY <3>1, <1>2
  <2> QED BY <2>1, <2>2
<1>6. ASSUME NEW i \in 1..(m + 1) PROVE u[i] = s[q[i]]
  <2>1. CASE i = m + 1
    BY <2>1, <1>1, <1>2
  <2>2. CASE i # m + 1
    <3>1. i \in 1..m
      BY <1>1, <2>2
    <3> QED BY <3>1, <1>1, <1>2 DEF Picks
  <2> QED BY <2>1, <2>2
<1>7. Picks(q, u, s, D \cup {n + 1})
  BY <1>1, <1>3, <1>4, <1>5, <1>6 DEF Picks
<1> QED BY <1>1, <1>7 DEF u

\* Only goes through the list: F[n] is what it has picked of the first n elements.
Collects(F, s, D, S) ==
  /\ F \in [0..Len(s) -> Seq(S)] /\ F[0] = <<>>
  /\ \A n \in 1..Len(s) : F[n] = IF n \in D THEN Append(F[n - 1], s[n]) ELSE F[n - 1]

LEMMA OnlySteps ==
  ASSUME NEW S, NEW s \in Seq(S), NEW D
  PROVE  \E F : Collects(F, s, D, S) /\ Only(s, D) = F[Len(s)]
<1> DEFINE N == Len(s)
           Step(f) == [n \in 0..N |->
                         IF n = 0 THEN <<>>
                         ELSE IF n \in D THEN Append(f[n - 1], s[n]) ELSE f[n - 1]]
           F == CHOOSE f : f = Step(f)
           H == [x \in (1..N) \X Seq(S) |-> IF x[1] \in D THEN Append(x[2], s[x[1]]) ELSE x[2]]
<1>1. Only(s, D) = F[N] /\ N \in Nat
  BY DEF Only
<1>2. PICK f : Follows(f, H, <<>>, N, Seq(S))
  <2>1. H \in [(1..N) \X Seq(S) -> Seq(S)]
    <3>1. ASSUME NEW x \in (1..N) \X Seq(S)
          PROVE  (IF x[1] \in D THEN Append(x[2], s[x[1]]) ELSE x[2]) \in Seq(S)
      <4>1. x[1] \in 1..N /\ x[2] \in Seq(S) /\ s[x[1]] \in S
        OBVIOUS
      <4> QED BY <4>1
    <3> QED BY <3>1
  <2>2. IsStep(H, N, Seq(S))
    BY <2>1 DEF IsStep
  <2>3. <<>> \in Seq(S)
    OBVIOUS
  <2> HIDE DEF H
  <2> QED BY <2>2, <2>3, <1>1, Recursion
<1>3. \A i \in 1..N, v \in Seq(S) : H[<<i, v>>] = IF i \in D THEN Append(v, s[i]) ELSE v
  OBVIOUS
<1> HIDE DEF H
<1>4. f \in [0..N -> Seq(S)] /\ f[0] = <<>>
      /\ \A n \in 1..N : f[n] = IF n \in D THEN Append(f[n - 1], s[n]) ELSE f[n - 1]
  <2>1. f \in [0..N -> Seq(S)] /\ f[0] = <<>>
    BY <1>2 DEF Follows
  <2>2. ASSUME NEW n \in 1..N PROVE f[n] = IF n \in D THEN Append(f[n - 1], s[n]) ELSE f[n - 1]
    <3>1. n - 1 \in 0..N
      BY <1>1
    <3>2. f[n - 1] \in Seq(S)
      BY <2>1, <3>1
    <3> QED BY <3>2, <1>2, <1>3 DEF Follows
  <2> QED BY <2>1, <2>2
<1>5. F = Step(F)
  <2>1. f = Step(f)
    <3>1. \A n \in 0..N : f[n] = IF n = 0 THEN <<>>
                                ELSE IF n \in D THEN Append(f[n - 1], s[n]) ELSE f[n - 1]
      <4>1. \A n \in 0..N : n = 0 \/ n \in 1..N
        BY <1>1
      <4> QED BY <4>1, <1>4
    <3> QED BY <3>1, <1>4
  <2> QED BY <2>1
<1>6. F[0] = <<>> /\ \A n \in 1..N : F[n] = IF n \in D THEN Append(F[n - 1], s[n]) ELSE F[n - 1]
  <2>1. 0 \in 0..N /\ \A n \in 1..N : n \in 0..N /\ n # 0
    BY <1>1
  <2> QED BY <2>1, <1>5
<1> HIDE DEF F
<1> DEFINE T == {n \in Nat : n <= N => F[n] = f[n]}
<1>7. \A n \in Nat : n \in T => n + 1 \in T
  <2> SUFFICES ASSUME NEW n \in Nat, n \in T, n + 1 <= N PROVE F[n + 1] = f[n + 1]
    OBVIOUS
  <2>1. n + 1 \in 1..N /\ (n + 1) - 1 = n /\ F[n] = f[n]
    BY <1>1
  <2>2. F[n + 1] = IF n + 1 \in D THEN Append(F[n], s[n + 1]) ELSE F[n]
    BY <2>1, <1>6
  <2>3. f[n + 1] = IF n + 1 \in D THEN Append(f[n], s[n + 1]) ELSE f[n]
    BY <2>1, <1>4
  <2> QED BY <2>1, <2>2, <2>3
<1>8. 0 \in T
  BY <1>4, <1>6
<1>9. N \in T
  <2> HIDE DEF T
  <2> QED BY <1>1, <1>7, <1>8, ByInduction
<1>10. Only(s, D) = f[N]
  BY <1>1, <1>9
<1>11. Collects(f, s, D, S)
  BY <1>4 DEF Collects
<1> QED BY <1>10, <1>11

\* Only picks the places it is given, and no other.
LEMMA OnlyPicks ==
  ASSUME NEW S, NEW s \in Seq(S), NEW D, D \subseteq 1..Len(s)
  PROVE  /\ Only(s, D) \in Seq(S)
         /\ \E p : Picks(p, Only(s, D), s, D)
<1> DEFINE N == Len(s)
<1>1. PICK F : Collects(F, s, D, S) /\ Only(s, D) = F[N]
  BY OnlySteps
<1>2. N \in Nat
  OBVIOUS
<1>6. F[0] = <<>> /\ \A n \in 1..N : F[n] = IF n \in D THEN Append(F[n - 1], s[n]) ELSE F[n - 1]
  BY <1>1 DEF Collects
<1> DEFINE Good(n) == F[n] \in Seq(S) /\ \E p : Picks(p, F[n], s, D \cap (1..n))
           T == {n \in Nat : n <= N => Good(n)}
<1>7. Good(0)
  <2>1. Len(<<>>) = 0 /\ <<>> \in Seq(S) /\ 1..0 = {}
    OBVIOUS
  <2>2. Picks(<<>>, <<>>, s, {})
    BY <2>1 DEF Picks
  <2> QED BY <1>6, <2>1, <2>2
<1>8. ASSUME NEW n \in Nat, n + 1 <= N, Good(n) PROVE Good(n + 1)
  <2>1. Good(n) /\ n + 1 \in 1..N /\ (n + 1) - 1 = n
    <3> HIDE DEF Good
    <3> QED BY <1>2, <1>8
  <2>2. F[n + 1] = IF n + 1 \in D THEN Append(F[n], s[n + 1]) ELSE F[n]
    BY <2>1, <1>6
  <2>3. CASE n + 1 \in D
    <3>1. D \cap (1..(n + 1)) = (D \cap (1..n)) \cup {n + 1}
      <4>1. \A d : d \in 1..(n + 1) <=> d \in 1..n \/ d = n + 1
        OBVIOUS
      <4> QED BY <4>1, <2>3
    <3>2. PICK p : Picks(p, F[n], s, D \cap (1..n))
      BY <2>1
    <3>3. D \cap (1..n) \subseteq 1..n
      OBVIOUS
    <3>4. F[n] \in Seq(S) /\ F[n + 1] = Append(F[n], s[n + 1])
      BY <2>1, <2>2, <2>3
    <3>5. /\ Append(F[n], s[n + 1]) \in Seq(S)
          /\ \E q : Picks(q, Append(F[n], s[n + 1]), s, (D \cap (1..n)) \cup {n + 1})
      BY <3>2, <3>3, <3>4, <2>1, <1>2, PicksOneMore
    <3> QED BY <3>1, <3>4, <3>5
  <2>4. CASE n + 1 \notin D
    <3>1. D \cap (1..(n + 1)) = D \cap (1..n)
      <4>1. \A d : d \in 1..(n + 1) <=> d \in 1..n \/ d = n + 1
        OBVIOUS
      <4> QED BY <4>1, <2>4
    <3> QED BY <3>1, <2>1, <2>2, <2>4
  <2> QED BY <2>3, <2>4
<1> HIDE DEF Good
<1>9. N \in T
  <2>1. 0 \in T /\ \A n \in Nat : n \in T => n + 1 \in T
    BY <1>7, <1>8
  <2> HIDE DEF T
  <2> QED BY <2>1, <1>2, ByInduction
<1>10. Good(N) /\ D \cap (1..N) = D
  <2>1. Good(N)
    BY <1>2, <1>9
  <2> QED BY <2>1
<1> QED BY <1>1, <1>10 DEF Good

\* The elements of a list, weighed.
Weighed(s, f) == [i \in 1..Len(s) |-> f[s[i]]]

\* What is not picked counts for nothing, or is missing in the sum.
LEMMA TotalOnly ==
  ASSUME NEW S, NEW s \in Seq(S), NEW D, NEW f \in [S -> Int],
         \A i \in 1..Len(s) : i \notin D => f[s[i]] >= 0
  PROVE  /\ Total(Weighed(Only(s, D), f)) <= Total(Weighed(s, f))
         /\ (\A i \in 1..Len(s) : i \notin D => f[s[i]] = 0) =>
              Total(Weighed(Only(s, D), f)) = Total(Weighed(s, f))
<1> DEFINE N == Len(s)
           Of(t) == [j \in 1..Len(t) |-> f[t[j]]]
           Nothing == \A i \in 1..N : i \notin D => f[s[i]] = 0
<1>1. N \in Nat /\ \A i \in 1..N : s[i] \in S /\ f[s[i]] \in Int
  OBVIOUS
<1>2. PICK F : Collects(F, s, D, S) /\ Only(s, D) = F[N]
  BY OnlySteps
<1>3. ASSUME NEW t \in Seq(S) PROVE Of(t) \in Seq(Int) /\ Total(Of(t)) \in Int
  <2>1. Of(t) \in Seq(Int)
    <3>1. \A j \in 1..Len(t) : f[t[j]] \in Int
      OBVIOUS
    <3> QED BY <3>1
  <2> HIDE DEF Of
  <2>2. 0 \in Int
    OBVIOUS
  <2> QED BY <2>1, <2>2, TotalAppend
<1>4. ASSUME NEW t \in Seq(S), NEW x \in S PROVE Total(Of(Append(t, x))) = Total(Of(t)) + f[x]
  <2> DEFINE u == Append(t, x)
  <2>1. u \in Seq(S) /\ Len(u) = Len(t) + 1 /\ u[Len(t) + 1] = x /\ Len(t) \in Nat
        /\ \A j \in 1..Len(t) : u[j] = t[j]
    OBVIOUS
  <2> HIDE DEF u
  <2>2. Of(t) \in Seq(Int) /\ Of(u) \in Seq(Int) /\ Len(Of(t)) = Len(t) /\ f[x] \in Int
    BY <1>3, <2>1
  <2>3. /\ DOMAIN Of(u) = 1..(Len(t) + 1) /\ Of(u)[Len(t) + 1] = f[x]
        /\ \A j \in 1..Len(t) : Of(u)[j] = Of(t)[j]
    BY <2>1
  <2> HIDE DEF Of
  <2>4. Of(u) = Append(Of(t), f[x])
    BY <2>2, <2>3, AppendIs
  <2>5. Total(Of(u)) = Total(Of(t)) + f[x]
    BY <2>2, <2>4, TotalAppend
  <2> QED BY <2>5 DEF u
<1>5. PICK p \in [0..Len(Of(s)) -> Int] : p[0] = 0 /\ \A i \in 1..Len(Of(s)) : p[i] = p[i - 1] + Of(s)[i]
  BY <1>3, PrefixSums
<1>6. Total(Of(s)) = p[Len(Of(s))]
  <2>1. Of(s) \in Seq(Int)
    BY <1>3
  <2> HIDE DEF Of
  <2> QED BY <1>5, <2>1, TotalIs
<1>7. Len(Of(s)) = N /\ p[0] = 0 /\ (\A i \in 1..N : p[i] = p[i - 1] + f[s[i]]) /\ p \in [0..N -> Int]
  BY <1>1, <1>5
<1> DEFINE Good(n) == Total(Of(F[n])) <= p[n] /\ (Nothing => Total(Of(F[n])) = p[n])
           T == {n \in Nat : n <= N => Good(n)}
<1>8. Good(0)
  <2>1. F[0] = <<>> /\ Of(<<>>) = <<>>
    BY <1>2 DEF Collects
  <2>2. Total(Of(F[0])) = 0
    BY <2>1, TotalEmpty
  <2> QED BY <2>2, <1>7
<1>9. ASSUME NEW n \in Nat, n + 1 <= N, Good(n) PROVE Good(n + 1)
  <2>1. n + 1 \in 1..N /\ (n + 1) - 1 = n /\ n \in 0..N
    BY <1>1, <1>9
  <2>2. F[n] \in Seq(S) /\ F[n + 1] = IF n + 1 \in D THEN Append(F[n], s[n + 1]) ELSE F[n]
    BY <2>1, <1>2 DEF Collects
  <2>3. p[n + 1] = p[n] + f[s[n + 1]] /\ p[n] \in Int
    BY <2>1, <1>7
  <2>4. s[n + 1] \in S /\ f[s[n + 1]] \in Int /\ Total(Of(F[n])) \in Int
    BY <1>1, <1>3, <2>1, <2>2
  <2>5. CASE n + 1 \in D
    <3>1. Total(Of(F[n + 1])) = Total(Of(F[n])) + f[s[n + 1]]
      BY <1>4, <2>2, <2>4, <2>5
    <3> HIDE DEF Of, Nothing
    <3> QED BY <3>1, <2>3, <2>4, <1>9
  <2>6. CASE n + 1 \notin D
    <3>1. F[n + 1] = F[n] /\ f[s[n + 1]] >= 0
      BY <2>1, <2>2, <2>6
    <3>2. Nothing => f[s[n + 1]] = 0
      BY <2>1, <2>6
    <3> HIDE DEF Of, Nothing
    <3> QED BY <3>1, <3>2, <2>3, <2>4, <1>9
  <2> HIDE DEF Good
  <2> QED BY <2>5, <2>6
<1> HIDE DEF Good
<1>10. Good(N)
  <2>1. 0 \in T /\ \A n \in Nat : n \in T => n + 1 \in T
    BY <1>8, <1>9
  <2>2. N \in T
    <3> HIDE DEF T
    <3> QED BY <2>1, <1>1, ByInduction
  <2> QED BY <2>2, <1>1
<1>11. Total(Of(Only(s, D))) <= Total(Of(s)) /\ (Nothing => Total(Of(Only(s, D))) = Total(Of(s)))
  <2> HIDE DEF Of, Nothing
  <2> QED BY <1>2, <1>6, <1>7, <1>10 DEF Good
<1> QED BY <1>11 DEF Weighed

\* Nothing is lost with elements that weigh nothing.
Weightless(s, S, D, f) ==
  s \in Seq(S) /\ f \in [S -> Int] /\ \A i \in 1..Len(s) : i \notin D => f[s[i]] = 0

LEMMA TotalOnlyAll ==
  ASSUME NEW S, NEW s, NEW D, NEW f, Weightless(s, S, D, f)
  PROVE  Total(Weighed(Only(s, D), f)) = Total(Weighed(s, f))
<1> USE DEF Weightless
<1>1. \A i \in 1..Len(s) : i \notin D => f[s[i]] >= 0
  OBVIOUS
<1>2. /\ Total(Weighed(Only(s, D), f)) <= Total(Weighed(s, f))
      /\ (\A i \in 1..Len(s) : i \notin D => f[s[i]] = 0) =>
           Total(Weighed(Only(s, D), f)) = Total(Weighed(s, f))
  BY <1>1, TotalOnly
<1> QED BY <1>2

\* So many elements as there are places.
LEMMA OnlyCounts ==
  ASSUME NEW S, NEW s \in Seq(S), NEW D, D \subseteq 1..Len(s)
  PROVE  /\ IsFiniteSet(D)
         /\ Len(Only(s, D)) = Cardinality(D)
<1>1. PICK p : Only(s, D) \in Seq(S) /\ Picks(p, Only(s, D), s, D)
  BY OnlyPicks
<1> DEFINE m == Len(Only(s, D))
<1>2. /\ m \in Nat
      /\ p \in [1..m -> D]
      /\ \A i, j \in 1..m : i < j => p[i] < p[j]
      /\ \A d \in D : \E i \in 1..m : p[i] = d
  BY <1>1 DEF Picks
<1> HIDE DEF m
<1>3. p \in Bijection(1..m, D)
  <2>1. p \in Injection(1..m, D)
    <3>1. \A i, j \in 1..m : i # j => i < j \/ j < i
      BY <1>2
    <3>2. \A i \in 1..m : p[i] \in Int
      <4>1. \A i \in 1..m : p[i] \in D
        BY <1>2
      <4>2. D \subseteq Int
        OBVIOUS
      <4> QED BY <4>1, <4>2
    <3>3. \A i, j \in 1..m : i # j => p[i] # p[j]
      <4> SUFFICES ASSUME NEW i \in 1..m, NEW j \in 1..m, i # j PROVE p[i] # p[j]
        OBVIOUS
      <4>1. p[i] < p[j] \/ p[j] < p[i]
        BY <1>2, <3>1
      <4> QED BY <4>1, <3>2
    <3>4. p \in [1..m -> D]
      BY <1>2
    <3>5. \A a, b \in 1..m : p[a] = p[b] => a = b
      BY <3>3
    <3> QED BY <3>4, <3>5 DEF Injection, IsInjective
  <2>2. p \in Surjection(1..m, D)
    BY <1>2 DEF Surjection
  <2> QED BY <2>1, <2>2 DEF Bijection
<1>4. IsFiniteSet(1..m) /\ Cardinality(1..m) = m
  <2>1. IsFiniteSet(1..m) /\ Cardinality(1..m) = IF 1 > m THEN 0 ELSE m - 1 + 1
    BY <1>2, FS_Interval
  <2> QED BY <1>2, <2>1
<1>5. IsFiniteSet(D) /\ Cardinality(D) = m
  BY <1>3, <1>4, FS_Bijection DEF ExistsBijection
<1> QED BY <1>5 DEF m

\* The places in front are picked first.
InFront(p, t, d) == \A i \in 1..d : i \in 1..Len(t) /\ p[i] = i

LEMMA PicksFirst ==
  ASSUME NEW S, NEW t \in Seq(S), NEW s, NEW D, D \subseteq Nat \ {0}, NEW p, Picks(p, t, s, D),
         NEW d \in Nat, 1..d \subseteq D
  PROVE  InFront(p, t, d)
<1> DEFINE Good(n) == InFront(p, t, n)
           T == {n \in Nat : n <= d => Good(n)}
<1>1. Good(0)
  BY DEF InFront
<1>2. ASSUME NEW n \in Nat, n + 1 <= d, Good(n) PROVE Good(n + 1)
  <2> USE DEF InFront
  <2>1. n + 1 \in D
    BY <1>2
  <2>2. PICK j \in 1..Len(t) : p[j] = n + 1
    BY <2>1 DEF Picks
  <2>3. n + 1 <= j
    <3>1. ASSUME j < n + 1 PROVE FALSE
      <4>1. j \in 1..n
        BY <3>1
      <4> QED BY <4>1, <1>2, <2>2
    <3> QED BY <3>1
  <2>4. n + 1 \in 1..Len(t) /\ p[n + 1] \in Nat \ {0}
    <3>1. n + 1 \in 1..Len(t)
      BY <2>3
    <3> QED BY <3>1 DEF Picks
  <2>5. p[n + 1] >= n + 1
    <3>1. CASE n = 0
      BY <2>4, <3>1
    <3>2. CASE n # 0
      <4>1. n \in 1..n /\ n < n + 1
        BY <3>2
      <4>2. n \in 1..Len(t) /\ p[n] = n
        BY <4>1, <1>2
      <4>3. p[n] < p[n + 1]
        BY <4>1, <4>2, <2>4 DEF Picks
      <4> QED BY <4>2, <4>3, <2>4
    <3> QED BY <3>1, <3>2
  <2>6. p[n + 1] <= n + 1
    <3>1. CASE j = n + 1
      BY <3>1, <2>2, <2>4
    <3>2. CASE j # n + 1
      <4>1. n + 1 < j
        BY <3>2, <2>3
      <4>2. p[n + 1] < p[j]
        BY <4>1, <2>4 DEF Picks
      <4> QED BY <4>2, <2>2, <2>4
    <3> QED BY <3>1, <3>2
  <2>7. p[n + 1] = n + 1
    BY <2>4, <2>5, <2>6
  <2>8. \A i \in 1..(n + 1) : i \in 1..n \/ i = n + 1
    OBVIOUS
  <2> QED BY <2>4, <2>7, <2>8, <1>2
<1> HIDE DEF Good
<1>3. d \in T
  <2>1. 0 \in T /\ \A n \in Nat : n \in T => n + 1 \in T
    BY <1>1, <1>2
  <2> HIDE DEF T
  <2> QED BY <2>1, ByInduction
<1>4. Good(d)
  BY <1>3
<1> QED BY <1>4 DEF Good

\* All of a list, and nothing of it.
LEMMA OnlyAll ==
  ASSUME NEW S, NEW s \in Seq(S)
  PROVE  Only(s, 1..Len(s)) = s
<1>1. DOMAIN s = 1..Len(s) /\ Len(s) \in Nat
  OBVIOUS
<1>2. PICK p : Only(s, 1..Len(s)) \in Seq(S) /\ Picks(p, Only(s, 1..Len(s)), s, 1..Len(s))
  BY <1>1, OnlyPicks
<1> DEFINE t == Only(s, 1..Len(s))
<1>3. Len(t) = Len(s)
  <2>1. Len(t) = Cardinality(1..Len(s))
    BY <1>1, OnlyCounts
  <2>2. Cardinality(1..Len(s)) = IF 1 > Len(s) THEN 0 ELSE Len(s) - 1 + 1
    BY <1>1, FS_Interval
  <2> QED BY <1>1, <2>1, <2>2
<1>4. \A i \in 1..Len(s) : p[i] = i
  <2>1. 1..Len(s) \subseteq Nat \ {0} /\ 1..Len(s) \subseteq 1..Len(s) /\ Len(s) \in Nat
    BY <1>1
  <2> HIDE DEF t
  <2>2. t \in Seq(S) /\ Picks(p, t, s, 1..Len(s))
    BY <1>2 DEF t
  <2>3. InFront(p, t, Len(s))
    BY <2>1, <2>2, PicksFirst
  <2> QED BY <2>3 DEF InFront
<1>5. \A i \in 1..Len(s) : t[i] = s[i]
  BY <1>2, <1>3, <1>4 DEF Picks
<1>6. t = [i \in 1..Len(t) |-> t[i]] /\ s = [i \in 1..Len(s) |-> s[i]]
  BY <1>2
<1> HIDE DEF t
<1>7. t = s
  BY <1>3, <1>5, <1>6
<1> QED BY <1>7 DEF t

LEMMA OnlyNone ==
  ASSUME NEW S, NEW s \in Seq(S)
  PROVE  Only(s, {}) = <<>>
<1>1. Len(Only(s, {})) = 0 /\ Only(s, {}) \in Seq(S)
  BY OnlyCounts, OnlyPicks, FS_EmptySet
<1> QED BY <1>1
----------------------------------------------------------------------------
\* A finite choice of the numbers of a list has a least and a greatest one.
LEMMA Extremes ==
  ASSUME NEW s \in Seq(Int), NEW D, D \subseteq 1..Len(s), D # {}
  PROVE  /\ \E i \in D : \A j \in D : s[i] <= s[j]
         /\ \E i \in D : \A j \in D : s[j] <= s[i]
<1> DEFINE Good(n) == D \cap (1..n) # {} =>
                        /\ \E i \in D \cap (1..n) : \A j \in D \cap (1..n) : s[i] <= s[j]
                        /\ \E i \in D \cap (1..n) : \A j \in D \cap (1..n) : s[j] <= s[i]
           T == {n \in Nat : n <= Len(s) => Good(n)}
<1>1. Len(s) \in Nat /\ \A i \in D : s[i] \in Int
  <2>1. \A i \in 1..Len(s) : s[i] \in Int
    OBVIOUS
  <2> QED BY <2>1
<1>2. Good(0)
  OBVIOUS
<1>3. ASSUME NEW n \in Nat, n + 1 <= Len(s), Good(n) PROVE Good(n + 1)
  <2>1. \A i : i \in D \cap (1..(n + 1)) <=> i \in D \cap (1..n) \/ (i = n + 1 /\ i \in D)
    OBVIOUS
  <2>2. CASE n + 1 \notin D
    <3>1. D \cap (1..(n + 1)) = D \cap (1..n)
      BY <2>1, <2>2
    <3> QED BY <3>1, <1>3
  <2>3. CASE n + 1 \in D /\ D \cap (1..n) = {}
    <3>1. D \cap (1..(n + 1)) = {n + 1}
      BY <2>1, <2>3
    <3>2. s[n + 1] <= s[n + 1]
      BY <1>1, <2>3
    <3> QED BY <3>1, <3>2
  <2>4. CASE n + 1 \in D /\ D \cap (1..n) # {}
    <3>1. PICK a \in D \cap (1..n) : \A j \in D \cap (1..n) : s[a] <= s[j]
      BY <1>3, <2>4
    <3>2. PICK b \in D \cap (1..n) : \A j \in D \cap (1..n) : s[j] <= s[b]
      BY <1>3, <2>4
    <3>3. s[n + 1] \in Int /\ s[a] \in Int /\ s[b] \in Int
      BY <1>1, <2>4
    <3>4. \E i \in D \cap (1..(n + 1)) : \A j \in D \cap (1..(n + 1)) : s[i] <= s[j]
      <4>1. CASE s[a] <= s[n + 1]
        BY <4>1, <3>1, <2>1
      <4>2. CASE ~(s[a] <= s[n + 1])
        <5>1. \A j \in D \cap (1..n) : s[j] \in Int /\ s[n + 1] <= s[j]
          BY <4>2, <3>1, <3>3, <1>1
        <5>2. s[n + 1] <= s[n + 1] /\ n + 1 \in D \cap (1..(n + 1))
          BY <3>3, <2>1, <2>4
        <5> QED BY <5>1, <5>2, <2>1
      <4> QED BY <4>1, <4>2
    <3>5. \E i \in D \cap (1..(n + 1)) : \A j \in D \cap (1..(n + 1)) : s[j] <= s[i]
      <4>1. CASE s[n + 1] <= s[b]
        BY <4>1, <3>2, <2>1
      <4>2. CASE ~(s[n + 1] <= s[b])
        <5>1. \A j \in D \cap (1..n) : s[j] \in Int /\ s[j] <= s[n + 1]
          BY <4>2, <3>2, <3>3, <1>1
        <5>2. s[n + 1] <= s[n + 1] /\ n + 1 \in D \cap (1..(n + 1))
          BY <3>3, <2>1, <2>4
        <5> QED BY <5>1, <5>2, <2>1
      <4> QED BY <4>1, <4>2
    <3> QED BY <3>4, <3>5
  <2> HIDE DEF Good
  <2> QED BY <2>2, <2>3, <2>4
<1> HIDE DEF Good
<1>4. Len(s) \in T
  <2>1. 0 \in T /\ \A n \in Nat : n \in T => n + 1 \in T
    BY <1>2, <1>3
  <2> HIDE DEF T
  <2> QED BY <2>1, <1>1, ByInduction
<1>5. Good(Len(s)) /\ D \cap (1..Len(s)) = D
  <2>1. Good(Len(s))
    BY <1>4, <1>1
  <2> QED BY <2>1
<1> QED BY <1>5 DEF Good

\* The number at any place of the sorted list is one of the list.
LEMMA SmallestIsOne ==
  ASSUME NEW s \in Seq(Int), NEW k \in 1..Len(s)
  PROVE  \E i \in 1..Len(s) : Smallest(s, k) = s[i]
<1> DEFINE Below(v) == {i \in DOMAIN s : s[i] <= v}
           D == {i \in 1..Len(s) : Cardinality(Below(s[i])) >= k}
           V == {v \in Range(s) : Cardinality(Below(v)) >= k}
<1>1. DOMAIN s = 1..Len(s) /\ Len(s) \in Nat /\ k \in Nat /\ k <= Len(s) /\ 1 <= k
  OBVIOUS
<1>2. D # {}
  <2>1. 1..Len(s) # {} /\ 1..Len(s) \subseteq 1..Len(s)
    BY <1>1
  <2>2. PICK i \in 1..Len(s) : \A j \in 1..Len(s) : s[j] <= s[i]
    BY <2>1, Extremes
  <2>3. Below(s[i]) = 1..Len(s)
    BY <2>2, <1>1
  <2>4. Cardinality(1..Len(s)) = IF 1 > Len(s) THEN 0 ELSE Len(s) - 1 + 1
    BY <1>1, FS_Interval
  <2>5. Cardinality(Below(s[i])) = Cardinality(1..Len(s))
    BY <2>3
  <2> HIDE DEF Below
  <2>6. Cardinality(Below(s[i])) >= k
    BY <2>4, <2>5, <1>1
  <2> QED BY <2>6
<1>3. D \subseteq 1..Len(s)
  OBVIOUS
<1>4. V = {s[i] : i \in D}
  BY <1>1 DEF Range
<1> HIDE DEF D
<1>5. PICK i \in D : \A j \in D : s[i] <= s[j]
  BY <1>2, <1>3, Extremes
<1>6. s[i] \in V /\ \A v \in V : s[i] <= v
  BY <1>4, <1>5
<1>7. Smallest(s, k) = Min(V)
  BY DEF Smallest
<1> HIDE DEF V
<1>8. Min(V) \in V
  BY <1>6 DEF Min
<1> QED BY <1>3, <1>4, <1>7, <1>8

\* Half of what Median2 says is between two numbers of the list.
LEMMA MedianIsOfTwo ==
  ASSUME NEW s \in Seq(Int), Len(s) > 0
  PROVE  \E i, j \in 1..Len(s) : Median2(s) = s[i] + s[j]
<1> DEFINE n == Len(s)
<1>1. n \in Nat /\ n > 0
  OBVIOUS
<1> HIDE DEF n
<1>2. CASE n % 2 = 1
  <2>1. (n + 1) \div 2 \in 1..n
    BY <1>1, <1>2
  <2>2. PICK i \in 1..n : Smallest(s, (n + 1) \div 2) = s[i]
    BY <2>1, SmallestIsOne DEF n
  <2>3. s[i] \in Int
    BY <2>2 DEF n
  <2>4. Median2(s) = 2 * s[i]
    BY <1>2, <2>2 DEF Median2, n
  <2>5. 2 * s[i] = s[i] + s[i]
    BY <2>3
  <2> QED BY <2>2, <2>4, <2>5 DEF n
<1>3. CASE n % 2 # 1
  <2>1. n \div 2 \in 1..n /\ n \div 2 + 1 \in 1..n
    <3>1. n % 2 = 0 /\ n >= 2
      BY <1>1, <1>3
    <3> QED BY <3>1, <1>1
  <2>2. PICK i \in 1..n : Smallest(s, n \div 2) = s[i]
    BY <2>1, SmallestIsOne DEF n
  <2>3. PICK j \in 1..n : Smallest(s, n \div 2 + 1) = s[j]
    BY <2>1, SmallestIsOne DEF n
  <2>4. Median2(s) = s[i] + s[j]
    BY <1>3, <2>2, <2>3 DEF Median2, n
  <2> QED BY <2>2, <2>3, <2>4 DEF n
<1> QED BY <1>2, <1>3
----------------------------------------------------------------------------
\* Quotients.
LEMMA DivIs ==
  ASSUME NEW a \in Nat, NEW B \in Nat \ {0}
  PROVE  /\ a \div B \in Nat /\ a = B * (a \div B) + (a % B) /\ a % B \in 0..(B - 1)
OBVIOUS

LEMMA DivMono ==
  ASSUME NEW a \in Nat, NEW b \in Nat, NEW B \in Nat \ {0}, a <= b
  PROVE  a \div B <= b \div B
<1> DEFINE x == a \div B
           y == b \div B
<1>1. x \in Nat /\ y \in Nat /\ a = B * x + (a % B) /\ b = B * y + (b % B) /\ a % B \in 0..(B - 1) /\ b % B \in 0..(B - 1)
  BY DivIs
<1> HIDE DEF x, y
<1>2. ASSUME y < x PROVE FALSE
  <2>1. y + 1 <= x
    BY <1>1, <1>2
  <2>2. B * (y + 1) <= B * x
    BY <2>1, <1>1
  <2>3. B * (y + 1) = B * y + B
    BY <1>1
  <2> QED BY <1>1, <2>2, <2>3
<1>3. x <= y
  BY <1>1, <1>2
<1> QED BY <1>3 DEF x, y

LEMMA DivExact ==
  ASSUME NEW n \in Nat, NEW B \in Nat \ {0}
  PROVE  (B * n) \div B = n /\ (0 * n) \div B = 0
<1>1. 0 * n = 0 /\ 0 \div B = 0
  OBVIOUS
<1>2. (B * n) \div B = n
  OBVIOUS
<1> QED BY <1>1, <1>2

LEMMA MulMono ==
  ASSUME NEW n \in Nat, NEW i \in Nat
  PROVE  i * n \in Nat /\ i * n <= (i + 1) * n
<1>1. (i + 1) * n = i * n + n
  OBVIOUS
<1>2. i * n \in Nat
  OBVIOUS
<1> QED BY <1>1, <1>2

----------------------------------------------------------------------------
\* A list that is cut into parts, at the edges e.
Cuts(e, N, n) == e \in [0..N -> 0..n] /\ e[0] = 0 /\ e[N] = n /\ \A i \in 1..N : e[i - 1] <= e[i]

\* The sum of one part.
LEMMA PartSum ==
  ASSUME NEW s \in Seq(Int), NEW p \in [0..Len(s) -> Int], p[0] = 0,
         \A i \in 1..Len(s) : p[i] = p[i - 1] + s[i],
         NEW a \in 0..Len(s), NEW b \in 0..Len(s), a <= b
  PROVE  Total(SubSeq(s, a + 1, b)) = p[b] - p[a]
<1> DEFINE t == SubSeq(s, a + 1, b)
           q == [i \in 0..(b - a) |-> p[a + i] - p[a]]
<1>0. (\A i \in 0..Len(s) : p[i] \in Int) /\ p[a] \in Int /\ p[b] \in Int
  OBVIOUS
<1>1. Len(s) \in Nat /\ a \in Nat /\ b \in Nat /\ b - a \in Nat /\ b <= Len(s)
  OBVIOUS
<1>2. t \in Seq(Int) /\ Len(t) = b - a /\ \A i \in 1..(b - a) : t[i] = s[a + i]
  <2>1. \A i \in (a + 1)..b : s[i] \in Int
    BY <1>1
  <2>2. t \in Seq(Int)
    BY <2>1, <1>1
  <2>3. Len(t) = b - a
    BY <1>1
  <2>4. \A i \in 1..(b - a) : t[i] = s[a + i]
    <3> SUFFICES ASSUME NEW i \in 1..(b - a) PROVE t[i] = s[a + i]
      OBVIOUS
    <3>1. t[i] = s[(a + 1) + i - 1]
      BY <2>3, <1>1
    <3>2. (a + 1) + i - 1 = a + i
      BY <1>1
    <3> QED BY <3>1, <3>2
  <2> QED BY <2>2, <2>3, <2>4
<1> HIDE DEF t
<1>3. q[0] = 0 /\ q[b - a] = p[b] - p[a]
  <2>1. a + 0 = a /\ a + (b - a) = b /\ 0 \in 0..(b - a) /\ b - a \in 0..(b - a)
    BY <1>1
  <2> QED BY <2>1, <1>0
<1>4. \A i \in 1..Len(t) : q[i] = q[i - 1] + t[i]
  <2> SUFFICES ASSUME NEW i \in 1..(b - a) PROVE q[i] = q[i - 1] + t[i]
    BY <1>2
  <2>1. i \in 0..(b - a) /\ i - 1 \in 0..(b - a) /\ a + i \in 1..Len(s) /\ a + (i - 1) = (a + i) - 1
        /\ a + (i - 1) \in 0..Len(s)
    BY <1>1
  <2>2. p[a + i] = p[a + (i - 1)] + s[a + i]
    BY <2>1
  <2>3. p[a] \in Int /\ p[a + (i - 1)] \in Int /\ s[a + i] \in Int
    <3>1. s[a + i] \in Int
      BY <2>1
    <3> QED BY <3>1, <2>1, <1>0
  <2>4. q[i] = p[a + i] - p[a] /\ q[i - 1] = p[a + (i - 1)] - p[a]
    BY <2>1
  <2>5. t[i] = s[a + i]
    BY <1>2
  <2>6. \A x, y, z \in Int : (y + z) - x = (y - x) + z
    OBVIOUS
  <2>7. (p[a + (i - 1)] + s[a + i]) - p[a] = (p[a + (i - 1)] - p[a]) + s[a + i]
    BY <2>3, <2>6, <1>0
  <2> HIDE DEF q
  <2> QED BY <2>2, <2>4, <2>5, <2>7, Zenon
<1> HIDE DEF q
<1>5. Total(t) = q[Len(t)]
  BY <1>2, <1>3, <1>4, TotalIs
<1> QED BY <1>2, <1>3, <1>5 DEF t

\* The parts add up to the whole.
LEMMA TotalParts ==
  ASSUME NEW s \in Seq(Int), NEW N \in Nat, NEW e, Cuts(e, N, Len(s))
  PROVE  Total([i \in 1..N |-> Total(SubSeq(s, e[i - 1] + 1, e[i]))]) = Total(s)
<1> DEFINE t == [i \in 1..N |-> Total(SubSeq(s, e[i - 1] + 1, e[i]))]
<1>1. PICK p \in [0..Len(s) -> Int] : p[0] = 0 /\ \A i \in 1..Len(s) : p[i] = p[i - 1] + s[i]
  BY PrefixSums
<1>2. Total(s) = p[Len(s)]
  BY <1>1, TotalIs
<1> DEFINE q == [i \in 0..N |-> p[e[i]]]
<1>3. \A i \in 0..N : q[i] \in Int /\ e[i] \in 0..Len(s)
  BY <1>1 DEF Cuts
<1>4. ASSUME NEW i \in 1..N PROVE t[i] = q[i] - q[i - 1]
  <2>1. i \in 0..N /\ i - 1 \in 0..N /\ e[i - 1] <= e[i]
    BY DEF Cuts
  <2>2. Total(SubSeq(s, e[i - 1] + 1, e[i])) = p[e[i]] - p[e[i - 1]]
    BY <2>1, <1>1, <1>3, PartSum
  <2> QED BY <2>1, <2>2
<1>5. q[0] = 0 /\ q[N] = p[Len(s)]
  BY <1>1 DEF Cuts
<1>6. t \in Seq(Int) /\ Len(t) = N
  <2>1. \A i \in 1..N : t[i] \in Int
    <3> SUFFICES ASSUME NEW i \in 1..N PROVE t[i] \in Int
      OBVIOUS
    <3>1. i \in 0..N /\ i - 1 \in 0..N
      OBVIOUS
    <3>2. q[i] \in Int /\ q[i - 1] \in Int
      BY <1>3, <3>1
    <3> HIDE DEF t, q
    <3> QED BY <3>2, <1>4
  <2>2. t = [i \in 1..N |-> t[i]]
    OBVIOUS
  <2> HIDE DEF t
  <2> QED BY <2>1, <2>2
<1>7. \A i \in 1..Len(t) : q[i] = q[i - 1] + t[i]
  <2> SUFFICES ASSUME NEW i \in 1..N PROVE q[i] = q[i - 1] + t[i]
    BY <1>6
  <2>1. i \in 0..N /\ i - 1 \in 0..N
    OBVIOUS
  <2>2. q[i] \in Int /\ q[i - 1] \in Int
    BY <1>3, <2>1
  <2> HIDE DEF t, q
  <2> QED BY <2>2, <1>4
<1> HIDE DEF t, q
<1>8. Total(t) = q[N]
  BY <1>5, <1>6, <1>7, TotalIs
<1> QED BY <1>2, <1>5, <1>8 DEF t

\* So do their lengths.
LEMMA LengthParts ==
  ASSUME NEW S, NEW s \in Seq(S), NEW N \in Nat, NEW e, Cuts(e, N, Len(s))
  PROVE  Total([i \in 1..N |-> Len(SubSeq(s, e[i - 1] + 1, e[i]))]) = Len(s)
<1> DEFINE t == [i \in 1..N |-> Len(SubSeq(s, e[i - 1] + 1, e[i]))]
<1>1. ASSUME NEW i \in 1..N
      PROVE  e[i] \in Nat /\ e[i - 1] \in Nat /\ t[i] = e[i] - e[i - 1] /\ t[i] \in Int
  <2>1. i \in 0..N /\ i - 1 \in 0..N /\ e[i] \in 0..Len(s) /\ e[i - 1] \in 0..Len(s) /\ e[i - 1] <= e[i]
    BY DEF Cuts
  <2>2. Len(SubSeq(s, e[i - 1] + 1, e[i])) = e[i] - e[i - 1]
    BY <2>1
  <2> QED BY <2>1, <2>2
<1>2. t = [i \in 1..N |-> t[i]]
  OBVIOUS
<1> HIDE DEF t
<1>3. t \in Seq(Int) /\ Len(t) = N
  BY <1>1, <1>2
<1>4. \A i \in 1..Len(t) : e[i] = e[i - 1] + t[i]
  BY <1>1, <1>3
<1>5. Total(t) = e[N]
  <2>1. e[0] = 0
    BY DEF Cuts
  <2> QED BY <2>1, <1>3, <1>4, TotalIs
<1> QED BY <1>5 DEF Cuts, t

\* Every place of the list is in a part.
LEMMA InAPart ==
  ASSUME NEW N \in Nat, NEW n \in Nat, NEW e, Cuts(e, N, n), NEW j \in 1..n
  PROVE  \E i \in 1..N : e[i - 1] < j /\ j <= e[i]
<1> DEFINE T == {i \in 0..N : j <= e[i]}
<1>1. N \in T /\ T \subseteq Nat
  BY DEF Cuts
<1> HIDE DEF T
<1>2. PICK i \in T : \A y \in T : i <= y
  BY <1>1, LeastOf
<1>3. i \in 0..N /\ j <= e[i] /\ i # 0
  BY <1>2 DEF Cuts, T
<1>4. i - 1 \in 0..N /\ i - 1 \notin T /\ e[i - 1] \in 0..n
  BY <1>2, <1>3 DEF Cuts
<1>5. e[i - 1] < j
  BY <1>4 DEF T
<1> QED BY <1>3, <1>5
----------------------------------------------------------------------------
\* The least and the greatest number of a set, once they are known.
LEMMA MaxIs ==
  ASSUME NEW T, T \subseteq Int, NEW m \in T, \A y \in T : y <= m
  PROVE  Max(T) = m
<1>1. m \in T /\ \A y \in T : m >= y
  OBVIOUS
<1>2. Max(T) \in T /\ \A y \in T : Max(T) >= y
  BY <1>1 DEF Max
<1>3. Max(T) \in Int /\ m \in Int /\ Max(T) <= m /\ Max(T) >= m
  BY <1>2
<1> QED BY <1>3

LEMMA MinIs ==
  ASSUME NEW T, T \subseteq Int, NEW m \in T, \A y \in T : m <= y
  PROVE  Min(T) = m
<1>1. m \in T /\ \A y \in T : m <= y
  OBVIOUS
<1>2. Min(T) \in T /\ \A y \in T : Min(T) <= y
  BY <1>1 DEF Min
<1>3. Min(T) \in Int /\ m \in Int /\ Min(T) <= m /\ Min(T) >= m
  BY <1>2
<1> QED BY <1>3

LEMMA OfTwo ==
  ASSUME NEW a \in Int, NEW b \in Int
  PROVE  /\ Max({a, b}) = (IF a >= b THEN a ELSE b)
         /\ Min({a, b}) = (IF a <= b THEN a ELSE b)
<1>1. CASE a <= b
  BY <1>1, MaxIs, MinIs
<1>2. CASE b <= a
  BY <1>2, MaxIs, MinIs
<1> QED BY <1>1, <1>2

\* The extent of a list of numbers.
LEMMA Extent ==
  ASSUME NEW s \in Seq(Int), s # <<>>
  PROVE  /\ Range(s) \subseteq Int
         /\ Max(Range(s)) \in Range(s) /\ Min(Range(s)) \in Range(s)
         /\ \A i \in 1..Len(s) : Min(Range(s)) <= s[i] /\ s[i] <= Max(Range(s))
<1>1. 1..Len(s) # {} /\ DOMAIN s = 1..Len(s) /\ \A i \in 1..Len(s) : s[i] \in Int /\ s[i] \in Range(s)
  <2>1. DOMAIN s = 1..Len(s) /\ Len(s) \in Nat /\ Len(s) # 0
    OBVIOUS
  <2>2. 1 \in 1..Len(s)
    BY <2>1
  <2> QED BY <2>1, <2>2 DEF Range
<1>2. Range(s) \subseteq Int /\ \A y \in Range(s) : \E i \in 1..Len(s) : y = s[i]
  BY <1>1 DEF Range
<1>3. PICK i \in 1..Len(s) : \A j \in 1..Len(s) : s[i] <= s[j]
  BY <1>1, Extremes
<1>4. PICK k \in 1..Len(s) : \A j \in 1..Len(s) : s[j] <= s[k]
  BY <1>1, Extremes
<1>5. Min(Range(s)) = s[i]
  <2>1. \A y \in Range(s) : s[i] <= y
    BY <1>2, <1>3
  <2> QED BY <2>1, <1>1, <1>2, MinIs
<1>6. Max(Range(s)) = s[k]
  <2>1. \A y \in Range(s) : y <= s[k]
    BY <1>2, <1>4
  <2> QED BY <2>1, <1>1, <1>2, MaxIs
<1> QED BY <1>1, <1>2, <1>3, <1>4, <1>5, <1>6
=============================================================================
