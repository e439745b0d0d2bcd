------------------------ MODULE ChargeTransactionProofs ------------------------
(***************************************************************************)
(* Proofs about ChargeTransaction, for every charge, every transaction and *)
(* every width of the amounts: which challenge the client answers, what a  *)
(* transaction the server cosigns pays, that push mode takes what pull     *)
(* mode takes, and that the server takes what the client builds.           *)
(***************************************************************************)
EXTENDS ChargeTransaction, FiniteSetTheorems, WellFoundedInduction, TLAPS

-----------------------------------------------------------------------------
(* Induction, with a set in the place of the predicate. *)

\* A set that holds 0 and the successor of each of its numbers holds them all.
LEMMA NatSets ==
  ASSUME NEW T, 0 \in T, \A n \in Nat : n \in T => n + 1 \in T
  PROVE  \A n \in Nat : n \in T
<1> SUFFICES ASSUME Nat \ T # {} PROVE FALSE
  OBVIOUS
<1>1. PICK x \in Nat \ T : \A y \in Nat \ T : ~(<<y, x>> \in OpToRel(<, Nat))
  BY WFMin, NatLessThanWellFounded
<1>2. x # 0 /\ x - 1 \in Nat /\ x - 1 < x
  OBVIOUS
<1>3. x - 1 \in T
  <2> SUFFICES ASSUME x - 1 \notin T PROVE FALSE
    OBVIOUS
  <2>1. <<x - 1, x>> \in OpToRel(<, Nat)
    BY <1>2 DEF OpToRel
  <2> QED BY <1>1, <1>2, <2>1
<1>4. x - 1 + 1 \in T
  BY <1>2, <1>3
<1> QED BY <1>4

\* The same below a bound.
LEMMA PrefixSets ==
  ASSUME NEW n \in Nat, NEW T, 0 \in T, \A k \in 1..n : k - 1 \in T => k \in T
  PROVE  \A k \in 0..n : k \in T
<1> DEFINE U == {k \in Nat : k <= n => k \in T}
<1>1. 0 \in U
  OBVIOUS
<1>2. ASSUME NEW k \in Nat, k \in U
      PROVE  k + 1 \in U
  <2> SUFFICES ASSUME k + 1 <= n PROVE k + 1 \in T
    OBVIOUS
  <2>1. k \in T /\ k + 1 \in 1..n /\ (k + 1) - 1 = k
    BY <1>2
  <2> QED BY <2>1
<1> HIDE DEF U
<1>3. \A k \in Nat : k \in U
  BY <1>1, <1>2, NatSets
<1> QED BY <1>3 DEF U

\* The least number of a set.
LEMMA MinIn ==
  ASSUME NEW s \in SUBSET Nat, s # {}
  PROVE  Min(s) \in s /\ \A y \in s : Min(s) <= y
<1>1. PICK x \in s : \A y \in s : ~(<<y, x>> \in OpToRel(<, Nat))
  BY WFMin, NatLessThanWellFounded
<1>2. ASSUME NEW y \in s
      PROVE  x <= y
  <2> SUFFICES ASSUME y < x PROVE FALSE
    OBVIOUS
  <2>1. <<y, x>> \in OpToRel(<, Nat)
    BY DEF OpToRel
  <2> QED BY <1>1, <2>1
<1> QED BY <1>2 DEF Min

\* The greatest number of a set with a bound.
LEMMA MaxIn ==
  ASSUME NEW n \in Nat, NEW s \in SUBSET (1..n), s # {}
  PROVE  Max(s) \in s /\ \A y \in s : Max(s) >= y
<1> DEFINE bounds == {b \in Nat : \A y \in s : b >= y}
<1>1. n \in bounds
  OBVIOUS
<1>2. PICK b \in bounds : b = Min(bounds) /\ \A a \in bounds : b <= a
  BY <1>1, MinIn
<1>3. b \in s
  <2> SUFFICES ASSUME b \notin s PROVE FALSE
    OBVIOUS
  <2>1. ASSUME NEW y \in s
        PROVE  b - 1 >= y /\ b - 1 \in Nat
    <3>1. y \in 1..n /\ b >= y /\ b # y /\ b \in Nat
      OBVIOUS
    <3> QED BY <3>1
  <2>2. b - 1 \in bounds
    BY <2>1
  <2> QED BY <1>2, <2>2
<1>4. \A y \in s : b >= y
  OBVIOUS
<1> HIDE DEF bounds
<1> QED BY <1>3, <1>4 DEF Max

LEMMA MaxPrefix ==
  ASSUME NEW n \in Nat, NEW k \in 1..n
  PROVE  /\ 1..k \in SUBSET (1..n) /\ 1..k # {}
         /\ Max(1..k) = k /\ (1..k) \ {Max(1..k)} = 1..(k - 1)
<1>1. 1..k \in SUBSET (1..n) /\ k \in 1..k
  OBVIOUS
<1>2. Max(1..k) = k
  BY <1>1, MaxIn
<1>3. (1..k) \ {k} = 1..(k - 1)
  OBVIOUS
<1> QED BY <1>1, <1>2, <1>3

-----------------------------------------------------------------------------
(* Folds.  A fold over a finite set S goes through its subsets, the element  *)
(* ch[s] of each last.                                                       *)

FoldStep(F, s, ch, base, h) ==
  F[s] = IF s = {} THEN base ELSE h[<<ch[s], F[s \ {ch[s]}]>>]

\* A fold exists whatever its step h is, and its values are those h returns.
LEMMA FoldExists ==
  ASSUME NEW S, IsFiniteSet(S), NEW V, NEW base \in V, NEW h \in [S \X V -> V],
         NEW ch, \A s \in SUBSET S : s # {} => ch[s] \in s
  PROVE  \E F \in [SUBSET S -> V] : \A s \in SUBSET S : FoldStep(F, s, ch, base, h)
<1> DEFINE UpTo(F, n) == \A s \in SUBSET S : Cardinality(s) <= n => FoldStep(F, s, ch, base, h)
           T == {n \in Nat : \E F \in [SUBSET S -> V] : UpTo(F, n)}
<1>1. ASSUME NEW s \in SUBSET S
      PROVE  IsFiniteSet(s) /\ Cardinality(s) \in Nat /\ (Cardinality(s) = 0 <=> s = {})
  BY FS_Subset, FS_CardinalityType, FS_EmptySet
<1>2. ASSUME NEW s \in SUBSET S, s # {}
      PROVE  /\ s \ {ch[s]} \in SUBSET S /\ ch[s] \in S
             /\ Cardinality(s \ {ch[s]}) = Cardinality(s) - 1
  BY <1>1, <1>2, FS_RemoveElement
<1>3. 0 \in T
  <2> DEFINE F == [s \in SUBSET S |-> base]
  <2>1. F \in [SUBSET S -> V]
    OBVIOUS
  <2>2. ASSUME NEW s \in SUBSET S, Cardinality(s) <= 0
        PROVE  s = {} /\ F[s] = base
    BY <1>1, <2>2
  <2>3. UpTo(F, 0)
    BY <2>2 DEF FoldStep
  <2> QED BY <2>1, <2>3
<1>4. ASSUME NEW n \in Nat, n \in T
      PROVE  n + 1 \in T
  <2>1. PICK F \in [SUBSET S -> V] : UpTo(F, n)
    BY <1>4
  <2> DEFINE G == [s \in SUBSET S |-> IF s = {} THEN base ELSE h[<<ch[s], F[s \ {ch[s]}]>>]]
  <2>2. G \in [SUBSET S -> V]
    <3> SUFFICES ASSUME NEW s \in SUBSET S, s # {}
                 PROVE  h[<<ch[s], F[s \ {ch[s]}]>>] \in V
      OBVIOUS
    <3>1. ch[s] \in S /\ F[s \ {ch[s]}] \in V
      BY <1>2
    <3> QED BY <3>1
  <2>3. ASSUME NEW s \in SUBSET S, Cardinality(s) <= n
        PROVE  G[s] = F[s]
    BY <2>1, <2>3 DEF FoldStep
  <2>4. ASSUME NEW s \in SUBSET S, Cardinality(s) <= n + 1
        PROVE  FoldStep(G, s, ch, base, h)
    <3>1. CASE s = {}
      BY <3>1 DEF FoldStep
    <3>2. CASE s # {}
      <4>1. s \ {ch[s]} \in SUBSET S /\ Cardinality(s \ {ch[s]}) <= n
        BY <1>1, <1>2, <2>4, <3>2
      <4>2. G[s \ {ch[s]}] = F[s \ {ch[s]}]
        BY <2>3, <4>1
      <4>3. G[s] = h[<<ch[s], F[s \ {ch[s]}]>>]
        BY <3>2
      <4> HIDE DEF G
      <4> QED BY <3>2, <4>2, <4>3 DEF FoldStep
    <3> QED BY <3>1, <3>2
  <2> HIDE DEF G
  <2>5. UpTo(G, n + 1)
    BY <2>4
  <2> QED BY <2>2, <2>5
<1> HIDE DEF T
<1>5. Cardinality(S) \in T
  BY <1>1, <1>3, <1>4, NatSets
<1>6. PICK F \in [SUBSET S -> V] : UpTo(F, Cardinality(S))
  BY <1>5 DEF T
<1>7. ASSUME NEW s \in SUBSET S
      PROVE  Cardinality(s) <= Cardinality(S)
  BY FS_Subset
<1> QED BY <1>6, <1>7

\* A fold along a sequence of length n: the greatest index is taken last.
PrefixStep(F, s, base, h) ==
  F[s] = IF s = {} THEN base ELSE h[<<Max(s), F[s \ {Max(s)}]>>]

LEMMA PrefixFold ==
  ASSUME NEW n \in Nat, NEW V, NEW base \in V, NEW h \in [(1..n) \X V -> V]
  PROVE  \E F \in [SUBSET (1..n) -> V] :
           \A s \in SUBSET (1..n) : PrefixStep(F, s, base, h)
<1> DEFINE ch == [s \in SUBSET (1..n) |-> Max(s)]
<1>1. \A s \in SUBSET (1..n) : s # {} => ch[s] \in s
  BY MaxIn
<1>2. IsFiniteSet(1..n)
  BY FS_Interval
<1>3. \A s \in SUBSET (1..n) : ch[s] = Max(s)
  OBVIOUS
<1> HIDE DEF ch
<1>4. PICK F \in [SUBSET (1..n) -> V] :
        \A s \in SUBSET (1..n) : FoldStep(F, s, ch, base, h)
  BY <1>1, <1>2, FoldExists
<1>5. ASSUME NEW s \in SUBSET (1..n)
      PROVE  PrefixStep(F, s, base, h)
  BY <1>3, <1>4 DEF FoldStep, PrefixStep
<1> QED BY <1>5

-----------------------------------------------------------------------------
(* Sums along a sequence of numbers. *)

Sums(P, f, n) == P[0] = 0 /\ \A k \in 1..n : P[k] = P[k - 1] + f[k]

\* The sum of f[1], ..., f[n].
SumTo(f, n) == (CHOOSE P : Sums(P, f, n))[n]

Numbers(f, n) == \A k \in 1..n : f[k] \in Nat

LEMMA SumsExist ==
  ASSUME NEW n \in Nat, NEW f, Numbers(f, n)
  PROVE  \E P : Sums(P, f, n)
<1> DEFINE h == [x \in (1..n) \X Nat |-> x[2] + f[x[1]]]
<1>1. h \in [(1..n) \X Nat -> Nat]
  <2> SUFFICES ASSUME NEW k \in 1..n, NEW v \in Nat PROVE v + f[k] \in Nat
    OBVIOUS
  <2> QED BY DEF Numbers
<1>h. \A k \in 1..n, v \in Nat : h[<<k, v>>] = v + f[k]
  OBVIOUS
<1> HIDE DEF h
<1>n. 0 \in Nat
  OBVIOUS
<1>2. PICK F \in [SUBSET (1..n) -> Nat] :
        \A s \in SUBSET (1..n) : PrefixStep(F, s, 0, h)
  BY <1>1, <1>n, PrefixFold
<1> DEFINE P == [k \in 0..n |-> F[1..k]]
<1>3. P[0] = 0
  <2>1. 1..0 = {} /\ 0 \in 0..n
    OBVIOUS
  <2> QED BY <1>2, <2>1 DEF PrefixStep
<1>4. ASSUME NEW k \in 1..n
      PROVE  P[k] = P[k - 1] + f[k]
  <2>1. k \in 0..n /\ k - 1 \in 0..n
    OBVIOUS
  <2>2. F[1..k] = h[<<k, F[1..(k - 1)]>>]
    BY <1>2, MaxPrefix DEF PrefixStep
  <2>3. F[1..(k - 1)] \in Nat
    OBVIOUS
  <2>4. h[<<k, F[1..(k - 1)]>>] = F[1..(k - 1)] + f[k]
    BY <1>h, <2>3
  <2> QED BY <2>1, <2>2, <2>4
<1> HIDE DEF P
<1> QED BY <1>3, <1>4 DEF Sums

LEMMA SumsAgree ==
  ASSUME NEW n \in Nat, NEW f, NEW m \in 0..n, NEW P, NEW Q, Sums(P, f, n), Sums(Q, f, m)
  PROVE  P[m] = Q[m]
<1> DEFINE T == {k \in Nat : P[k] = Q[k]}
<1>1. 0 \in T
  BY DEF Sums
<1>2. \A k \in 1..m : k - 1 \in T => k \in T
  BY DEF Sums
<1> HIDE DEF T
<1>3. m \in T
  BY <1>1, <1>2, PrefixSets
<1> QED BY <1>3 DEF T

\* Any running total of f computes SumTo.
LEMMA SumIs ==
  ASSUME NEW n \in Nat, NEW f, NEW P, Sums(P, f, n)
  PROVE  \A m \in 0..n : P[m] = SumTo(f, m)
<1> SUFFICES ASSUME NEW m \in 0..n PROVE P[m] = SumTo(f, m)
  OBVIOUS
<1>1. Sums(P, f, m)
  BY DEF Sums
<1>2. PICK Q : Sums(Q, f, m) /\ SumTo(f, m) = Q[m]
  BY <1>1 DEF SumTo
<1> QED BY <1>2, SumsAgree

LEMMA SumStep ==
  ASSUME NEW n \in Nat, NEW f, Numbers(f, n)
  PROVE  /\ SumTo(f, 0) = 0
         /\ \A k \in 1..n : SumTo(f, k) = SumTo(f, k - 1) + f[k]
         /\ \A k \in 0..n : SumTo(f, k) \in Nat
<1>1. PICK P : Sums(P, f, n)
  BY SumsExist
<1>2. \A m \in 0..n : P[m] = SumTo(f, m)
  BY <1>1, SumIs
<1>3. /\ SumTo(f, 0) = 0
      /\ \A k \in 1..n : SumTo(f, k) = SumTo(f, k - 1) + f[k]
  BY <1>1, <1>2 DEF Sums
<1> DEFINE T == {k \in Nat : SumTo(f, k) \in Nat}
<1>4. 0 \in T /\ \A k \in 1..n : k - 1 \in T => k \in T
  BY <1>3 DEF Numbers
<1> HIDE DEF T
<1>5. \A k \in 0..n : k \in T
  BY <1>4, PrefixSets
<1> QED BY <1>3, <1>5 DEF T

\* Equal terms, equal sums; terms added, sums added.
LEMMA SumSame ==
  ASSUME NEW n \in Nat, NEW f, Numbers(f, n), NEW g, \A k \in 1..n : g[k] = f[k]
  PROVE  SumTo(g, n) = SumTo(f, n)
<1> DEFINE T == {k \in Nat : SumTo(g, k) = SumTo(f, k)}
<1>1. Numbers(g, n)
  BY DEF Numbers
<1>2. 0 \in T /\ \A k \in 1..n : k - 1 \in T => k \in T
  BY <1>1, SumStep
<1> HIDE DEF T
<1>3. n \in T
  BY <1>2, PrefixSets
<1> QED BY <1>3 DEF T

LEMMA SumPlus ==
  ASSUME NEW n \in Nat, NEW f, Numbers(f, n), NEW g, Numbers(g, n),
         NEW e, \A k \in 1..n : e[k] = f[k] + g[k]
  PROVE  SumTo(e, n) = SumTo(f, n) + SumTo(g, n)
<1> DEFINE T == {k \in Nat : SumTo(e, k) = SumTo(f, k) + SumTo(g, k)}
<1>1. Numbers(e, n)
  BY DEF Numbers
<1>2. 0 \in T
  BY <1>1, SumStep
<1>3. ASSUME NEW k \in 1..n, k - 1 \in T
      PROVE  k \in T
  <2>1. /\ SumTo(e, k) = SumTo(e, k - 1) + e[k]
        /\ SumTo(f, k) = SumTo(f, k - 1) + f[k]
        /\ SumTo(g, k) = SumTo(g, k - 1) + g[k]
    BY <1>1, SumStep
  <2>2. SumTo(f, k - 1) \in Nat /\ SumTo(g, k - 1) \in Nat
    BY SumStep
  <2>3. f[k] \in Nat /\ g[k] \in Nat /\ e[k] = f[k] + g[k]
    BY DEF Numbers
  <2>4. SumTo(e, k - 1) = SumTo(f, k - 1) + SumTo(g, k - 1)
    BY <1>3
  <2>5. SumTo(e, k) = SumTo(f, k) + SumTo(g, k)
    BY <2>1, <2>2, <2>3, <2>4
  <2> QED BY <2>5
<1> HIDE DEF T
<1>4. n \in T
  BY <1>2, <1>3, PrefixSets
<1> QED BY <1>4 DEF T

\* The sum of a single term.
LEMMA SumSingle ==
  ASSUME NEW n \in Nat, NEW j \in 1..n, NEW x \in Nat, NEW f,
         \A k \in 1..n : f[k] = IF k = j THEN x ELSE 0
  PROVE  SumTo(f, n) = x
<1> DEFINE T == {k \in Nat : SumTo(f, k) = IF j <= k THEN x ELSE 0}
<1>1. Numbers(f, n)
  BY DEF Numbers
<1>2. 0 \in T
  BY <1>1, SumStep
<1>3. ASSUME NEW k \in 1..n, k - 1 \in T
      PROVE  k \in T
  <2>1. SumTo(f, k) = SumTo(f, k - 1) + f[k]
    BY <1>1, SumStep
  <2>2. SumTo(f, k) = IF j <= k THEN x ELSE 0
    BY <1>3, <2>1
  <2> QED BY <2>2
<1> HIDE DEF T
<1>4. n \in T
  BY <1>2, <1>3, PrefixSets
<1> QED BY <1>4 DEF T

\* A term put in front.
LEMMA SumFront ==
  ASSUME NEW n \in Nat, NEW f, Numbers(f, n), NEW x \in Nat,
         NEW g, g[1] = x, \A k \in 1..n : g[k + 1] = f[k]
  PROVE  SumTo(g, n + 1) = x + SumTo(f, n)
<1> DEFINE T == {k \in Nat : SumTo(g, k + 1) = x + SumTo(f, k)}
<1>1. Numbers(g, n + 1)
  <2> SUFFICES ASSUME NEW k \in 1..(n + 1), k # 1 PROVE g[k] \in Nat
    BY DEF Numbers
  <2>1. k - 1 \in 1..n /\ (k - 1) + 1 = k
    OBVIOUS
  <2> QED BY <2>1 DEF Numbers
<1>2. 0 \in T
  <2>1. SumTo(g, 1) = SumTo(g, 1 - 1) + g[1] /\ SumTo(g, 0) = 0
    BY <1>1, SumStep
  <2>2. SumTo(f, 0) = 0
    BY SumStep
  <2> QED BY <2>1, <2>2
<1>3. ASSUME NEW k \in 1..n, k - 1 \in T
      PROVE  k \in T
  <2>1. SumTo(g, k + 1) = SumTo(g, (k + 1) - 1) + g[k + 1]
    BY <1>1, SumStep
  <2>2. SumTo(f, k) = SumTo(f, k - 1) + f[k] /\ SumTo(f, k - 1) \in Nat
    BY SumStep
  <2>3. SumTo(g, k) = x + SumTo(f, k - 1) /\ (k + 1) - 1 = k /\ g[k + 1] = f[k]
    BY <1>3
  <2>4. SumTo(g, k + 1) = x + SumTo(f, k)
    BY <2>1, <2>2, <2>3 DEF Numbers
  <2> QED BY <2>4
<1> HIDE DEF T
<1>4. n \in T
  BY <1>2, <1>3, PrefixSets
<1> QED BY <1>4 DEF T


\* SumTo as a fold over the subsets of 1..n.
LEMMA SumFold ==
  ASSUME NEW n \in Nat, NEW f, Numbers(f, n)
  PROVE  \E G \in [SUBSET (1..n) -> Nat] :
           \A s \in SUBSET (1..n) : G[s] = IF s = {} THEN 0 ELSE G[s \ {Max(s)}] + f[Max(s)]
<1> DEFINE h == [x \in (1..n) \X Nat |-> x[2] + f[x[1]]]
<1>1. h \in [(1..n) \X Nat -> Nat]
  <2> SUFFICES ASSUME NEW k \in 1..n, NEW v \in Nat PROVE v + f[k] \in Nat
    OBVIOUS
  <2> QED BY DEF Numbers
<1>2. \A k \in 1..n, v \in Nat : h[<<k, v>>] = v + f[k]
  OBVIOUS
<1>3. 0 \in Nat
  OBVIOUS
<1> HIDE DEF h
<1>4. PICK G \in [SUBSET (1..n) -> Nat] :
        \A s \in SUBSET (1..n) : PrefixStep(G, s, 0, h)
  BY <1>1, <1>3, PrefixFold
<1>5. ASSUME NEW s \in SUBSET (1..n)
      PROVE  G[s] = IF s = {} THEN 0 ELSE G[s \ {Max(s)}] + f[Max(s)]
  <2>1. CASE s = {}
    BY <1>4, <2>1 DEF PrefixStep
  <2>2. CASE s # {}
    <3>1. Max(s) \in 1..n /\ s \ {Max(s)} \in SUBSET (1..n)
      BY <2>2, MaxIn
    <3>2. G[s \ {Max(s)}] \in Nat
      BY <3>1
    <3>3. G[s] = h[<<Max(s), G[s \ {Max(s)}]>>]
      BY <1>4, <2>2 DEF PrefixStep
    <3> QED BY <1>2, <2>2, <3>1, <3>2, <3>3
  <2> QED BY <2>1, <2>2
<1> QED BY <1>5

\* What any fold that steps like this one comes to.
LEMMA SumByFold ==
  ASSUME NEW n \in Nat, NEW f, Numbers(f, n), NEW F, F[{}] = 0,
         \A k \in 1..n : F[1..k] = F[1..(k - 1)] + f[k]
  PROVE  F[1..n] = SumTo(f, n)
<1> DEFINE P == [k \in 0..n |-> F[1..k]]
<1>1. 1..0 = {}
  OBVIOUS
<1>2. Sums(P, f, n)
  BY <1>1 DEF Sums
<1>3. P[n] = F[1..n]
  OBVIOUS
<1> HIDE DEF P
<1> QED BY <1>2, <1>3, SumIs

-----------------------------------------------------------------------------
(* The folds of ChargeTransaction as sums. *)

\* A transfer to this wallet, and what it brings.
Goes(ix, w) ==
  /\ ix.program \in TokenPrograms \cup {"system"}
  /\ w = (IF ix.program = "system" THEN ix.dest ELSE ix.dest.owner)

Gain(ix, w) == IF Goes(ix, w) THEN ix.amount ELSE 0

Gains(ixs, w) == [i \in DOMAIN ixs |-> Gain(ixs[i], w)]

FoldOfGains(F, ixs, w, n) ==
  F = [s \in SUBSET (1..n) |->
         IF s = {} THEN 0
         ELSE IF Goes(ixs[Max(s)], w) THEN F[s \ {Max(s)}] + ixs[Max(s)].amount
              ELSE F[s \ {Max(s)}]]

LEMMA ReceivedIsSum ==
  ASSUME NEW n \in Nat, NEW ixs, DOMAIN ixs = 1..n, NEW w, Numbers(Gains(ixs, w), n)
  PROVE  Received(ixs, w) = SumTo(Gains(ixs, w), n)
<1> DEFINE f == Gains(ixs, w)
<1>f. \A k \in 1..n : f[k] = Gain(ixs[k], w)
  BY DEF Gains
<1> HIDE DEF f
<1>n. Numbers(f, n)
  BY DEF f
<1>1. PICK G \in [SUBSET (1..n) -> Nat] :
        \A s \in SUBSET (1..n) : G[s] = IF s = {} THEN 0 ELSE G[s \ {Max(s)}] + f[Max(s)]
  BY <1>n, SumFold
<1>2. FoldOfGains(G, ixs, w, n)
  <2>1. ASSUME NEW s \in SUBSET (1..n)
        PROVE  G[s] = IF s = {} THEN 0
                      ELSE IF Goes(ixs[Max(s)], w)
                           THEN G[s \ {Max(s)}] + ixs[Max(s)].amount
                           ELSE G[s \ {Max(s)}]
    <3>1. CASE s = {}
      BY <1>1, <3>1
    <3>2. CASE s # {}
      <4>1. Max(s) \in 1..n /\ s \ {Max(s)} \in SUBSET (1..n)
        BY <3>2, MaxIn
      <4>2. f[Max(s)] = Gain(ixs[Max(s)], w) /\ G[s \ {Max(s)}] \in Nat
        BY <1>f, <4>1
      <4>3. G[s] = G[s \ {Max(s)}] + f[Max(s)]
        BY <1>1, <3>2
      <4>4. CASE Goes(ixs[Max(s)], w)
        <5>1. f[Max(s)] = ixs[Max(s)].amount
          BY <4>2, <4>4 DEF Gain
        <5> QED BY <3>2, <4>3, <4>4, <5>1
      <4>5. CASE ~Goes(ixs[Max(s)], w)
        <5>1. f[Max(s)] = 0
          BY <4>2, <4>5 DEF Gain
        <5>2. G[s] = G[s \ {Max(s)}]
          BY <4>2, <4>3, <5>1
        <5> QED BY <3>2, <4>5, <5>2
      <4> QED BY <4>4, <4>5
    <3> QED BY <3>1, <3>2
  <2>2. G = [s \in SUBSET (1..n) |-> G[s]]
    OBVIOUS
  <2> QED BY <2>1, <2>2, Zenon DEF FoldOfGains
<1>3. Received(ixs, w) = (CHOOSE F : FoldOfGains(F, ixs, w, n))[1..n]
  BY DEF Received, FoldLeft, MapThenFoldSet, Goes, FoldOfGains
<1>4. PICK F : FoldOfGains(F, ixs, w, n) /\ Received(ixs, w) = F[1..n]
  BY <1>2, <1>3
<1>5. F[{}] = 0
  BY <1>4 DEF FoldOfGains
<1>6. ASSUME NEW k \in 1..n
      PROVE  F[1..k] = IF Goes(ixs[k], w) THEN F[1..(k - 1)] + ixs[k].amount
                       ELSE F[1..(k - 1)]
  BY <1>4, MaxPrefix DEF FoldOfGains
<1> DEFINE T == {k \in Nat : F[1..k] = SumTo(f, k)}
<1>7. 0 \in T
  <2>1. 1..0 = {} /\ SumTo(f, 0) = 0
    BY <1>n, SumStep
  <2> QED BY <1>5, <2>1
<1>8. ASSUME NEW k \in 1..n, k - 1 \in T
      PROVE  k \in T
  <2>1. F[1..(k - 1)] = SumTo(f, k - 1) /\ SumTo(f, k) = SumTo(f, k - 1) + f[k]
    BY <1>n, <1>8, SumStep
  <2>2. SumTo(f, k - 1) \in Nat /\ f[k] = Gain(ixs[k], w)
    BY <1>f, <1>n, SumStep
  <2>3. F[1..k] = SumTo(f, k)
    <3>1. CASE Goes(ixs[k], w)
      <4>1. F[1..k] = SumTo(f, k - 1) + ixs[k].amount /\ f[k] = ixs[k].amount
        BY <1>6, <2>1, <2>2, <3>1 DEF Gain
      <4> QED BY <2>1, <4>1
    <3>2. CASE ~Goes(ixs[k], w)
      <4>1. F[1..k] = SumTo(f, k - 1) /\ f[k] = 0
        BY <1>6, <2>1, <2>2, <3>2 DEF Gain
      <4> QED BY <2>1, <2>2, <4>1
    <3> QED BY <3>1, <3>2
  <2> QED BY <2>3
<1> HIDE DEF T
<1>9. n \in T
  <2>1. \A k \in 1..n : k - 1 \in T => k \in T
    BY <1>8
  <2>2. \A k \in 0..n : k \in T
    BY <1>7, <2>1, PrefixSets, Zenon
  <2> QED BY <2>2
<1>10. F[1..n] = SumTo(f, n)
  BY <1>9 DEF T
<1> QED BY <1>4, <1>10 DEF f

-----------------------------------------------------------------------------
(* The choice of the challenge. *)

\* The least pair, by its first component and then by its second.
LEMMA LeastPair ==
  ASSUME NEW hits, hits # {},
         \A g \in hits : g[1] \in Nat /\ g[2] \in Nat /\ g = <<g[1], g[2]>>
  PROVE  \E h \in hits : \A g \in hits : h[1] < g[1] \/ (h[1] = g[1] /\ h[2] <= g[2])
<1> DEFINE firsts == {h[1] : h \in hits}
           i == Min(firsts)
           seconds == {k \in Nat : <<i, k>> \in hits}
           k == Min(seconds)
<1>1. i \in firsts /\ \A y \in firsts : i <= y
  <2>1. firsts \in SUBSET Nat /\ firsts # {}
    OBVIOUS
  <2> HIDE DEF firsts
  <2> QED BY <2>1, MinIn
<1> HIDE DEF i
<1>2. seconds # {}
  <2>1. PICK h \in hits : i = h[1]
    BY <1>1
  <2>2. h = <<h[1], h[2]>> /\ h[2] \in Nat
    OBVIOUS
  <2>3. h[2] \in seconds
    BY <2>1, <2>2
  <2> QED BY <2>3
<1>3. k \in seconds /\ \A y \in seconds : k <= y
  <2>1. seconds \in SUBSET Nat
    OBVIOUS
  <2> HIDE DEF seconds
  <2> QED BY <1>2, <2>1, MinIn
<1> HIDE DEF k
<1>4. ASSUME NEW g \in hits
      PROVE  i < g[1] \/ (i = g[1] /\ k <= g[2])
  <2>1. i <= g[1] /\ i \in Nat /\ g[1] \in Nat /\ g[2] \in Nat /\ g = <<g[1], g[2]>>
    <3>1. g[1] \in Nat /\ g[2] \in Nat /\ g = <<g[1], g[2]>> /\ g[1] \in firsts
      OBVIOUS
    <3>2. i \in Nat
      BY <1>1
    <3> QED BY <1>1, <3>1, <3>2
  <2>2. CASE i = g[1]
    BY <1>3, <2>1, <2>2
  <2>3. CASE i # g[1]
    BY <2>1, <2>3
  <2> QED BY <2>2, <2>3
<1>5. <<i, k>> \in hits
  BY <1>3
<1>6. <<i, k>>[1] = i /\ <<i, k>>[2] = k
  OBVIOUS
<1> QED BY <1>4, <1>5, <1>6

\* What the client answers is a charge challenge it can decode, on its network,
\* and in the first of its currencies that any such challenge is in.
LEMMA Chosen ==
  ASSUME NEW o \in Offers, NEW c, c # None,
         c = SelectChargeChallenge(o.challenges, o.options)
  PROVE  /\ \E k \in Candidates(o.challenges, o.options) :
              o.challenges[k].decodes /\ c = o.challenges[k].charge
         /\ o.options.currencies # <<>> =>
              LET offered(i) == \E k \in Candidates(o.challenges, o.options) :
                                  CurrenciesMatch(o.challenges[k].charge, o.options.currencies[i])
                  wanted == {i \in DOMAIN o.options.currencies : offered(i)}
              IN wanted # {} /\ CurrenciesMatch(c, o.options.currencies[Min(wanted)])
<1> DEFINE cands == Candidates(o.challenges, o.options)
           currencies == o.options.currencies
           hits == {h \in (DOMAIN currencies) \X cands :
                      CurrenciesMatch(o.challenges[h[2]].charge, currencies[h[1]])}
           best == {h \in hits : \A g \in hits :
                      h[1] < g[1] \/ (h[1] = g[1] /\ h[2] <= g[2])}
<1>1. o.challenges \in Seq(Range(o.challenges)) /\ currencies \in Seq(Range(currencies))
  BY OffersAssumption
<1>2. cands \in SUBSET Nat /\ DOMAIN currencies \in SUBSET Nat
  BY <1>1, SMTT(30) DEF Candidates
<1>3. \A k \in cands : k \in DOMAIN o.challenges /\ IsCharge(o.challenges[k])
  BY Zenon DEF Candidates
<1>4. \A k \in cands : o.challenges[k].decodes
  BY <1>3 DEF SelectChargeChallenge
<1>5. CASE currencies = <<>>
  <2>1. cands # {} /\ c = o.challenges[Min(cands)].charge
    BY <1>5 DEF SelectChargeChallenge
  <2> HIDE DEF cands
  <2>2. Min(cands) \in cands
    BY <1>2, <2>1, MinIn
  <2> QED BY <1>4, <1>5, <2>1, <2>2 DEF cands
<1>6. CASE currencies # <<>>
  <2>1. hits # {} /\ c = o.challenges[(CHOOSE h \in best : TRUE)[2]].charge
    BY <1>6 DEF SelectChargeChallenge
  <2>2. \A g \in hits : g[1] \in Nat /\ g[2] \in Nat /\ g = <<g[1], g[2]>>
    BY <1>2
  <2>3. best # {}
    <3> HIDE DEF hits, cands, currencies
    <3>0. hits # {}
      BY <2>1
    <3>1. \E h \in hits : \A g \in hits : h[1] < g[1] \/ (h[1] = g[1] /\ h[2] <= g[2])
      BY <3>0, <2>2, LeastPair, Zenon
    <3> QED BY <3>1
  <2>4. PICK h \in best : c = o.challenges[h[2]].charge
    BY <2>1, <2>3
  <2>5. /\ h[1] \in DOMAIN currencies /\ h[2] \in cands
        /\ CurrenciesMatch(c, currencies[h[1]])
        /\ \A g \in hits : h[1] <= g[1]
    BY <1>2, <2>4
  <2> DEFINE wanted == {i \in DOMAIN currencies :
                          \E k \in cands : CurrenciesMatch(o.challenges[k].charge, currencies[i])}
  <2>6. h[1] \in wanted
    BY <2>4, <2>5
  <2>7. ASSUME NEW i \in wanted
        PROVE  h[1] <= i
    <3>1. PICK k \in cands : CurrenciesMatch(o.challenges[k].charge, currencies[i])
      OBVIOUS
    <3>2. <<i, k>> \in hits
      BY <3>1
    <3> QED BY <2>5, <3>2
  <2>8. Min(wanted) = h[1]
    <3>1. wanted \in SUBSET Nat /\ h[1] \in Nat
      BY <1>2, <2>6
    <3> HIDE DEF wanted, hits, best
    <3>2. Min(wanted) \in wanted /\ Min(wanted) <= h[1]
      BY <2>6, <3>1, MinIn
    <3>3. h[1] <= Min(wanted) /\ Min(wanted) \in Nat
      BY <2>7, <3>1, <3>2
    <3> QED BY <3>1, <3>2, <3>3
  <2>9. \E k \in cands : o.challenges[k].decodes /\ c = o.challenges[k].charge
    BY <1>4, <2>4, <2>5
  <2>10. wanted # {} /\ CurrenciesMatch(c, currencies[Min(wanted)])
    <3> HIDE DEF wanted
    <3> QED BY <2>5, <2>6, <2>8
  <2> QED BY <2>9, <2>10, Zenon
<1> QED BY <1>5, <1>6

-----------------------------------------------------------------------------
(* The state: whose charge is paid, and that a transaction holds a sequence. *)

LEMMA SeqInto ==
  ASSUME NEW S, NEW s \in Seq(S), NEW R, \A i \in 1..Len(s) : s[i] \in R
  PROVE  s \in Seq(R)
<1>1. Len(s) \in Nat /\ s \in [1..Len(s) -> S]
  OBVIOUS
<1>2. s \in [1..Len(s) -> R]
  BY <1>1
<1> QED BY <1>1, <1>2

LEMMA SeqItsRange ==
  ASSUME NEW S, NEW s \in Seq(S)
  PROVE  s \in Seq(Range(s))
<1>1. \A i \in 1..Len(s) : s[i] \in Range(s)
  BY DEF Range
<1>2. QED BY <1>1, SeqInto

LEMMA SeqWider ==
  ASSUME NEW s, s \in Seq(Range(s)), NEW R, Range(s) \subseteq R
  PROVE  s \in Seq(R)
<1>1. \A i \in 1..Len(s) : s[i] \in Range(s)
  OBVIOUS
<1> QED BY <1>1, SeqInto

LEMMA SeqAppend ==
  ASSUME NEW s, s \in Seq(Range(s)), NEW x
  PROVE  Append(s, x) \in Seq(Range(Append(s, x)))
<1>1. s \in Seq(Range(s) \cup {x})
  OBVIOUS
<1>2. Append(s, x) \in Seq(Range(s) \cup {x})
  BY <1>1
<1> QED BY <1>2, SeqItsRange

LEMMA SeqRemoveAt ==
  ASSUME NEW s, s \in Seq(Range(s)), NEW i \in DOMAIN s
  PROVE  RemoveAt(s, i) \in Seq(Range(RemoveAt(s, i)))
<1>1. SubSeq(s, 1, i - 1) \in Seq(Range(s)) /\ SubSeq(s, i + 1, Len(s)) \in Seq(Range(s))
  OBVIOUS
<1>2. RemoveAt(s, i) \in Seq(Range(s))
  BY <1>1 DEF RemoveAt
<1> QED BY <1>2, SeqItsRange

LEMMA SeqConcat ==
  ASSUME NEW s, s \in Seq(Range(s)), NEW t, t \in Seq(Range(t))
  PROVE  s \o t \in Seq(Range(s \o t))
<1> DEFINE S == Range(s) \cup Range(t)
<1>1. s \in Seq(S) /\ t \in Seq(S)
  OBVIOUS
<1>2. s \o t \in Seq(S)
  BY <1>1
<1> QED BY <1>2, SeqItsRange

Joined(s, t) == s \o t

LEMMA MemoIsSeq ==
  ASSUME NEW memo
  PROVE  PushMemo(memo) \in Seq(Range(PushMemo(memo)))
<1>1. <<MemoIx(memo)>> \in Seq(Range(<<MemoIx(memo)>>)) /\ <<>> \in Seq(Range(<<>>))
  BY DEF Range
<1> QED BY <1>1 DEF PushMemo

LEMMA PiecesAreSeqs ==
  ASSUME NEW c, NEW split
  PROVE  SplitInstructions(c, split) \in Seq(Range(SplitInstructions(c, split)))
<1> DEFINE create == CreateAtaIdempotent(Payer(c), split.recipient, MintOf(c),
                                         ResolveTokenProgram(c))
           creation == IF CreatesAta(c, split) THEN <<create>> ELSE <<>>
           pay == <<PayInstruction(c, split.recipient, split.amount)>>
           memo == PushMemo(split.memo)
<1>1. creation \in Seq(Range(creation))
  <2> HIDE DEF create
  <2>1. <<create>> \in Seq(Range(<<create>>)) /\ <<>> \in Seq(Range(<<>>))
    BY DEF Range
  <2> QED BY <2>1
<1>2. pay \in Seq(Range(pay))
  BY DEF Range
<1>3. memo \in Seq(Range(memo))
  BY MemoIsSeq
<1>4. SplitInstructions(c, split) = creation \o pay \o memo
  BY DEF SplitInstructions
<1> HIDE DEF creation, pay, memo
<1> DEFINE both == creation \o pay
<1>5. both \in Seq(Range(both))
  BY <1>1, <1>2, SeqConcat
<1> HIDE DEF both
<1>6. both \o memo \in Seq(Range(both \o memo))
  BY <1>3, <1>5, SeqConcat
<1> QED BY <1>4, <1>6 DEF both

SplitsUpTo(F, s, c, base) ==
  IF s = {} THEN base ELSE F[s \ {Max(s)}] \o SplitInstructions(c, c.splits[Max(s)])

FoldOfSplits(F, c, base, n) == F = [s \in SUBSET (1..n) |-> SplitsUpTo(F, s, c, base)]

LEMMA PrimaryIsSeq ==
  ASSUME NEW c
  PROVE  PrimaryInstructions(c) \in Seq(Range(PrimaryInstructions(c)))
<1> DEFINE limits == <<Compute("price", 1), Compute("limit", 200000)>>
           first == <<PayInstruction(c, c.recipient, PrimaryAmount(c))>>
           memo == PushMemo(c.external_id)
           both == limits \o first
<1>1. limits \in Seq(Range(limits)) /\ first \in Seq(Range(first))
  BY DEF Range
<1>2. memo \in Seq(Range(memo))
  BY MemoIsSeq
<1>3. PrimaryInstructions(c) = both \o memo
  BY DEF PrimaryInstructions
<1> HIDE DEF limits, first, memo
<1>4. both \in Seq(Range(both))
  BY <1>1, SeqConcat
<1> HIDE DEF both
<1>5. both \o memo \in Seq(Range(both \o memo))
  BY <1>2, <1>4, SeqConcat
<1> QED BY <1>3, <1>5

\* The instructions of one split after the other are added to those of the primary
\* payment.
LEMMA BuiltSteps ==
  ASSUME NEW c, c.splits \in Seq(Range(c.splits))
  PROVE  \E P : /\ P[0] = PrimaryInstructions(c)
                /\ P[Len(c.splits)] = BuildInstructions(c)
                /\ \A k \in 1..Len(c.splits) :
                     P[k] = Joined(P[k - 1], SplitInstructions(c, c.splits[k]))
                /\ \A k \in 0..Len(c.splits) : P[k] \in Seq(Range(P[k]))
<1> DEFINE n == Len(c.splits)
           base == PrimaryInstructions(c)
           ixs == BuildInstructions(c)
           piece == [k \in 1..n |-> SplitInstructions(c, c.splits[k])]
           S == (UNION {Range(piece[k]) : k \in 1..n}) \cup Range(base)
           h == [x \in (1..n) \X Seq(S) |-> x[2] \o piece[x[1]]]
<1>1. n \in Nat /\ DOMAIN c.splits = 1..n
  OBVIOUS
<1>n. n \in Nat
  BY <1>1
<1>2. base \in Seq(Range(base))
  BY PrimaryIsSeq
<1>3. \A k \in 1..n : piece[k] \in Seq(Range(piece[k]))
  BY PiecesAreSeqs
<1>4. ixs = (CHOOSE F : FoldOfSplits(F, c, base, n))[1..n]
  <2>1. DOMAIN c.splits = 1..n
    BY <1>1
  <2> HIDE DEF n
  <2> QED BY <2>1, Zenon DEF BuildInstructions, FoldLeft, MapThenFoldSet, FoldOfSplits, SplitsUpTo
<1>5. \A k \in 1..n : piece[k] = SplitInstructions(c, c.splits[k])
  OBVIOUS
<1> HIDE DEF base, piece, n, ixs
<1>6. base \in Seq(S)
  BY <1>2, SeqWider
<1>7. \A k \in 1..n : piece[k] \in Seq(S)
  BY <1>3, SeqWider
<1> HIDE DEF S
<1>8. h \in [(1..n) \X Seq(S) -> Seq(S)]
  <2> SUFFICES ASSUME NEW k \in 1..n, NEW v \in Seq(S) PROVE v \o piece[k] \in Seq(S)
    OBVIOUS
  <2> QED BY <1>7
<1>9. \A k \in 1..n, v \in Seq(S) : h[<<k, v>>] = v \o piece[k]
  OBVIOUS
<1> HIDE DEF h
<1>10. PICK G \in [SUBSET (1..n) -> Seq(S)] :
         \A s \in SUBSET (1..n) : PrefixStep(G, s, base, h)
  BY <1>n, <1>6, <1>8, PrefixFold
<1>11. FoldOfSplits(G, c, base, n)
  <2>1. ASSUME NEW s \in SUBSET (1..n)
        PROVE  G[s] = SplitsUpTo(G, s, c, base)
    <3>1. CASE s = {}
      BY <1>10, <3>1 DEF PrefixStep, SplitsUpTo
    <3>2. CASE s # {}
      <4>1. Max(s) \in 1..n /\ s \ {Max(s)} \in SUBSET (1..n)
        BY <1>n, <3>2, MaxIn
      <4>2. G[s] = h[<<Max(s), G[s \ {Max(s)}]>>]
        BY <1>10, <3>2 DEF PrefixStep
      <4> QED BY <1>5, <1>9, <3>2, <4>1, <4>2 DEF SplitsUpTo
    <3> QED BY <3>1, <3>2
  <2> QED BY <2>1 DEF FoldOfSplits
<1>12. PICK F : FoldOfSplits(F, c, base, n) /\ ixs = F[1..n]
  BY <1>4, <1>11
<1>13. \A s \in SUBSET (1..n) : F[s] = SplitsUpTo(F, s, c, base)
  BY <1>12 DEF FoldOfSplits
<1> DEFINE P == [k \in 0..n |-> F[1..k]]
<1>14. P[0] = base /\ P[n] = ixs
  <2>1. 1..0 = {} /\ {} \in SUBSET (1..n) /\ 0 \in 0..n /\ n \in 0..n
    BY <1>n
  <2>2. F[{}] = base
    BY <1>13, <2>1 DEF SplitsUpTo
  <2> QED BY <1>12, <2>1, <2>2
<1>15. ASSUME NEW k \in 1..n
       PROVE  P[k] = Joined(P[k - 1], SplitInstructions(c, c.splits[k]))
  <2>1. F[1..k] = F[1..(k - 1)] \o SplitInstructions(c, c.splits[k])
    <3>1. 1..k \in SUBSET (1..n) /\ 1..k # {}
      BY <1>n, MaxPrefix
    <3>2. Max(1..k) = k /\ (1..k) \ {Max(1..k)} = 1..(k - 1)
      BY <1>n, MaxPrefix
    <3>3. F[1..k] = SplitsUpTo(F, 1..k, c, base)
      BY <1>13, <3>1
    <3> QED BY <3>1, <3>2, <3>3, Zenon DEF SplitsUpTo
  <2>2. k \in 0..n /\ k - 1 \in 0..n
    BY <1>n
  <2> QED BY <2>1, <2>2 DEF Joined
<1> HIDE DEF P
<1> DEFINE T == {k \in Nat : P[k] \in Seq(S)}
<1>16. 0 \in T
  BY <1>6, <1>14
<1>17. ASSUME NEW k \in 1..n, k - 1 \in T
       PROVE  k \in T
  <2>1. P[k - 1] \in Seq(S) /\ piece[k] \in Seq(S)
    BY <1>7, <1>17
  <2>2. P[k - 1] \o piece[k] \in Seq(S)
    BY <2>1
  <2>3. P[k] = P[k - 1] \o piece[k]
    BY <1>5, <1>15, Zenon DEF Joined
  <2>4. P[k] \in Seq(S) /\ k \in Nat
    BY <1>n, <2>2, <2>3
  <2> QED BY <2>4
<1> HIDE DEF T
<1>18. \A k \in 0..n : k \in T
  <2>1. \A k \in 1..n : k - 1 \in T => k \in T
    BY <1>17
  <2> QED BY <1>n, <1>16, <2>1, PrefixSets, Zenon
<1>19. \A k \in 0..n : P[k] \in Seq(Range(P[k]))
  BY <1>18, SeqItsRange DEF T
<1> QED BY <1>14, <1>15, <1>19 DEF base, ixs, n

\* The client builds a sequence of instructions.
LEMMA BuiltIsSeq ==
  ASSUME NEW c, c.splits \in Seq(Range(c.splits))
  PROVE  BuildInstructions(c) \in Seq(Range(BuildInstructions(c)))
<1> DEFINE n == Len(c.splits)
<1>1. PICK P : P[n] = BuildInstructions(c) /\ \A k \in 0..n : P[k] \in Seq(Range(P[k]))
  BY BuiltSteps, Zenon
<1>2. n \in 0..n
  OBVIOUS
<1> HIDE DEF n
<1> QED BY <1>1, <1>2

\* A charge as the decoder leaves it.
IsChargeRequest(c) ==
  /\ c.splits \in Seq(Range(c.splits))
  /\ c.amount # None => c.amount \in 0..(U64 - 1)
  /\ \A j \in DOMAIN c.splits :
       c.splits[j].amount # None => c.splits[j].amount \in 0..(U64 - 1)

IsTransaction(t) ==
  /\ t = [payer |-> t.payer, lookups |-> t.lookups, instructions |-> t.instructions]
  /\ t.instructions \in Seq(Range(t.instructions))

ChoiceInv ==
  /\ offer \in Offers
  /\ charge # None => charge = SelectChargeChallenge(offer.challenges, offer.options)

TransactionInv == tx # None => charge # None /\ IsTransaction(tx)

LEMMA ChosenIsRequest ==
  ASSUME ChoiceInv, charge # None
  PROVE  IsChargeRequest(charge)
<1>1. PICK k \in Candidates(offer.challenges, offer.options) :
        offer.challenges[k].decodes /\ charge = offer.challenges[k].charge
  BY Chosen DEF ChoiceInv
<1>2. k \in DOMAIN offer.challenges /\ IsCharge(offer.challenges[k])
  BY DEF Candidates
<1> DEFINE amounts == {charge.amount} \cup
                        {charge.splits[j].amount : j \in DOMAIN charge.splits}
<1>3. charge.splits \in Seq(Range(charge.splits)) /\ amounts \ {None} \subseteq 0..(U64 - 1)
  BY <1>1, <1>2, OffersAssumption DEF ChoiceInv
<1>4. charge.amount \in amounts
  OBVIOUS
<1>5. \A j \in DOMAIN charge.splits : charge.splits[j].amount \in amounts
  OBVIOUS
<1> HIDE DEF amounts
<1> QED BY <1>3, <1>4, <1>5 DEF IsChargeRequest

LEMMA EditedIsTransaction ==
  ASSUME NEW t, IsTransaction(t), NEW u,
         \/ \E i \in DOMAIN t.instructions : u = [t EXCEPT !.instructions = RemoveAt(@, i)]
         \/ \E ix : u = [t EXCEPT !.instructions = Append(@, ix)]
         \/ \E p : u = [t EXCEPT !.payer = p]
         \/ \E b : u = [t EXCEPT !.lookups = b]
  PROVE  IsTransaction(u)
<1>1. CASE \E i \in DOMAIN t.instructions : u = [t EXCEPT !.instructions = RemoveAt(@, i)]
  <2>1. PICK i \in DOMAIN t.instructions : u = [t EXCEPT !.instructions = RemoveAt(@, i)]
    BY <1>1
  <2> DEFINE ixs == RemoveAt(t.instructions, i)
  <2>2. ixs \in Seq(Range(ixs))
    BY SeqRemoveAt DEF IsTransaction
  <2> HIDE DEF ixs
  <2>3. u = [payer |-> t.payer, lookups |-> t.lookups, instructions |-> ixs]
    BY <2>1 DEF IsTransaction, ixs
  <2> QED BY <2>2, <2>3 DEF IsTransaction
<1>2. CASE \E ix : u = [t EXCEPT !.instructions = Append(@, ix)]
  <2>1. PICK ix : u = [t EXCEPT !.instructions = Append(@, ix)]
    BY <1>2
  <2> DEFINE ixs == Append(t.instructions, ix)
  <2>2. ixs \in Seq(Range(ixs))
    BY SeqAppend DEF IsTransaction
  <2> HIDE DEF ixs
  <2>3. u = [payer |-> t.payer, lookups |-> t.lookups, instructions |-> ixs]
    BY <2>1 DEF IsTransaction, ixs
  <2> QED BY <2>2, <2>3 DEF IsTransaction
<1>3. CASE \E p : u = [t EXCEPT !.payer = p]
  BY <1>3 DEF IsTransaction
<1>4. CASE \E b : u = [t EXCEPT !.lookups = b]
  BY <1>4 DEF IsTransaction
<1> QED BY <1>1, <1>2, <1>3, <1>4

\* From the initial states on, every step keeps both.
LEMMA ChoiceStep ==
  ASSUME ChoiceInv, [Next]_vars
  PROVE  ChoiceInv'
<1>1. CASE Select
  BY <1>1 DEF Select, ChoiceInv
<1>2. CASE Build
  BY <1>2 DEF Build, ChoiceInv
<1>3. CASE Edit
  BY <1>3 DEF Edit, ChoiceInv
<1>4. CASE Land
  BY <1>4 DEF Land, ChoiceInv
<1>5. CASE UNCHANGED vars
  BY <1>5 DEF vars, ChoiceInv
<1> QED BY <1>1, <1>2, <1>3, <1>4, <1>5 DEF Next

LEMMA TransactionStep ==
  ASSUME ChoiceInv, TransactionInv, [Next]_vars
  PROVE  TransactionInv'
<1>1. CASE Select
  BY <1>1 DEF Select, TransactionInv
<1>2. CASE Build
  <2>1. charge # None /\ charge' = charge /\ tx' = BuildChargeTransaction(charge)
    BY <1>2 DEF Build
  <2>2. IsChargeRequest(charge)
    BY <2>1, ChosenIsRequest
  <2>3. BuildInstructions(charge) \in Seq(Range(BuildInstructions(charge)))
    BY <2>2, BuiltIsSeq DEF IsChargeRequest
  <2>4. IsTransaction(BuildChargeTransaction(charge))
    BY <2>3 DEF IsTransaction, BuildChargeTransaction
  <2> QED BY <2>1, <2>4 DEF TransactionInv, IsTransaction
<1>3. CASE Edit
  <2>1. tx # None /\ charge' = charge
    BY <1>3 DEF Edit
  <2>2. IsTransaction(tx) /\ charge # None
    BY <2>1 DEF TransactionInv
  <2>3. \/ \E i \in DOMAIN tx.instructions : tx' = [tx EXCEPT !.instructions = RemoveAt(@, i)]
        \/ \E ix : tx' = [tx EXCEPT !.instructions = Append(@, ix)]
        \/ \E p : tx' = [tx EXCEPT !.payer = p]
        \/ \E b : tx' = [tx EXCEPT !.lookups = b]
    BY <1>3 DEF Edit
  <2>4. IsTransaction(tx')
    BY <2>2, <2>3, EditedIsTransaction
  <2> QED BY <2>1, <2>2, <2>4 DEF TransactionInv, IsTransaction
<1>4. CASE Land
  BY <1>4 DEF Land, TransactionInv, IsTransaction
<1>5. CASE UNCHANGED vars
  BY <1>5 DEF vars, TransactionInv, IsTransaction
<1> QED BY <1>1, <1>2, <1>3, <1>4, <1>5 DEF Next

\* The client pays in the first of its currencies the server offers on its
\* network, whatever the server's order (select_charge_challenge).
THEOREM PreferenceHonouredHolds == Spec => []PreferenceHonoured
<1>1. Init => ChoiceInv
  BY DEF Init, ChoiceInv
<1>2. ChoiceInv /\ [Next]_vars => ChoiceInv'
  BY ChoiceStep
<1>3. ChoiceInv => PreferenceHonoured
  <2> SUFFICES ASSUME ChoiceInv, charge # None, offer.options.currencies # <<>>
               PROVE  PreferenceHonoured
    BY DEF PreferenceHonoured
  <2>1. offer \in Offers /\ charge = SelectChargeChallenge(offer.challenges, offer.options)
    BY DEF ChoiceInv
  <2>2. PICK k \in Candidates(offer.challenges, offer.options) :
          offer.challenges[k].decodes /\ charge = offer.challenges[k].charge
    BY Chosen DEF ChoiceInv
  <2>3. MatchesNetwork(charge, offer.options.network)
    BY <2>2 DEF Candidates
  <2> QED BY <2>1, <2>3, Chosen DEF PreferenceHonoured
<1> QED BY <1>1, <1>2, <1>3, PTL DEF Spec

-----------------------------------------------------------------------------
(* What a charge asks for. *)

LEMMA ConcatLaws ==
  ASSUME NEW s, s \in Seq(Range(s)), NEW t, t \in Seq(Range(t))
  PROVE  /\ DOMAIN Joined(s, t) = 1..(Len(s) + Len(t))
         /\ \A i \in 1..Len(s) : Joined(s, t)[i] = s[i]
         /\ \A i \in 1..Len(t) : Joined(s, t)[Len(s) + i] = t[i]
<1> DEFINE S == Range(s) \cup Range(t)
<1>1. s \in Seq(S) /\ t \in Seq(S)
  BY SeqWider
<1> HIDE DEF S
<1>2. s \o t \in Seq(S) /\ Len(s \o t) = Len(s) + Len(t)
  BY <1>1
<1>3. DOMAIN (s \o t) = 1..(Len(s) + Len(t))
  BY <1>2
<1>4. \A i \in 1..Len(s) : (s \o t)[i] = s[i]
  BY <1>1
<1>5. \A i \in 1..Len(t) : (s \o t)[Len(s) + i] = t[i]
  BY <1>1
<1> QED BY <1>3, <1>4, <1>5 DEF Joined

LEMMA ExpectedShape ==
  ASSUME NEW c, c.splits \in Seq(Range(c.splits)), NEW n, n = Len(c.splits)
  PROVE  /\ n \in Nat /\ DOMAIN Expected(c) = 1..(n + 1)
         /\ Expected(c)[1] = [owner |-> c.recipient, amount |-> PrimaryAmount(c)]
         /\ \A k \in 1..n : Expected(c)[k + 1] = [owner |-> c.splits[k].recipient,
                                                  amount |-> c.splits[k].amount]
<1> DEFINE first == <<[owner |-> c.recipient, amount |-> PrimaryAmount(c)]>>
           rest == [i \in DOMAIN c.splits |->
                      [owner |-> c.splits[i].recipient, amount |-> c.splits[i].amount]]
<1>1. n \in Nat /\ DOMAIN c.splits = 1..n
  OBVIOUS
<1>2. /\ first \in Seq(Range(first)) /\ Len(first) = 1
      /\ first[1] = [owner |-> c.recipient, amount |-> PrimaryAmount(c)]
  BY DEF Range
<1>3. rest \in Seq(Range(rest)) /\ Len(rest) = n
  <2>1. \A k \in 1..n : rest[k] \in Range(rest)
    BY <1>1 DEF Range
  <2>2. DOMAIN rest = 1..n
    BY <1>1
  <2>3. rest = [k \in 1..n |-> rest[k]]
    BY <1>1
  <2> HIDE DEF rest
  <2> QED BY <1>1, <2>1, <2>2, <2>3
<1>4. \A k \in 1..n : rest[k] = [owner |-> c.splits[k].recipient, amount |-> c.splits[k].amount]
  BY <1>1
<1>5. Expected(c) = Joined(first, rest)
  BY DEF Expected, Joined
<1> HIDE DEF first, rest
<1> DEFINE cat == Joined(first, rest)
<1>6. /\ DOMAIN cat = 1..(Len(first) + Len(rest))
      /\ \A i \in 1..Len(first) : cat[i] = first[i]
      /\ \A i \in 1..Len(rest) : cat[Len(first) + i] = rest[i]
  <2>1. first \in Seq(Range(first))
    BY <1>2
  <2>2. rest \in Seq(Range(rest))
    BY <1>3
  <2> QED BY <2>1, <2>2, ConcatLaws
<1> HIDE DEF cat
<1>7. DOMAIN cat = 1..(1 + n) /\ cat[1] = first[1] /\ \A k \in 1..n : cat[1 + k] = rest[k]
  BY <1>2, <1>3, <1>6
<1>8. 1 + n = n + 1 /\ \A k \in 1..n : 1 + k = k + 1
  BY <1>1
<1>9. DOMAIN cat = 1..(n + 1) /\ cat[1] = first[1] /\ \A k \in 1..n : cat[k + 1] = rest[k]
  BY <1>7, <1>8
<1> QED BY <1>1, <1>2, <1>4, <1>5, <1>9 DEF cat

\* What a demand brings an owner.
Share(d, w) == IF d.owner = w THEN d.amount ELSE 0

Shares(c, w) == [k \in DOMAIN Expected(c) |-> Share(Expected(c)[k], w)]

OwedUpTo(F, s, demands, w) ==
  IF s = {} THEN 0
  ELSE IF demands[Max(s)].owner = w THEN F[s \ {Max(s)}] + demands[Max(s)].amount
       ELSE F[s \ {Max(s)}]

FoldOfOwed(F, demands, w, n) == F = [s \in SUBSET (1..n) |-> OwedUpTo(F, s, demands, w)]

LEMMA OwedIsSum ==
  ASSUME NEW n \in Nat, NEW c, DOMAIN Expected(c) = 1..n, NEW w, Numbers(Shares(c, w), n)
  PROVE  Owed(c, w) = SumTo(Shares(c, w), n)
<1> DEFINE f == Shares(c, w)
           demands == Expected(c)
<1>f. \A k \in 1..n : f[k] = Share(demands[k], w)
  BY DEF Shares
<1>1. Owed(c, w) = (CHOOSE F : FoldOfOwed(F, demands, w, n))[1..n]
  BY Zenon DEF Owed, FoldLeft, MapThenFoldSet, FoldOfOwed, OwedUpTo
<1> HIDE DEF f, demands
<1>n. Numbers(f, n)
  BY DEF f
<1>2. PICK G \in [SUBSET (1..n) -> Nat] :
        \A s \in SUBSET (1..n) : G[s] = IF s = {} THEN 0 ELSE G[s \ {Max(s)}] + f[Max(s)]
  BY <1>n, SumFold
<1>3. FoldOfOwed(G, demands, w, n)
  <2>1. ASSUME NEW s \in SUBSET (1..n)
        PROVE  G[s] = OwedUpTo(G, s, demands, w)
    <3>1. CASE s = {}
      BY <1>2, <3>1 DEF OwedUpTo
    <3>2. CASE s # {}
      <4>1. Max(s) \in 1..n /\ s \ {Max(s)} \in SUBSET (1..n)
        BY <3>2, MaxIn
      <4>2. f[Max(s)] = Share(demands[Max(s)], w) /\ G[s \ {Max(s)}] \in Nat
        BY <1>f, <4>1
      <4>3. G[s] = G[s \ {Max(s)}] + f[Max(s)]
        BY <1>2, <3>2
      <4>4. G[s] = IF demands[Max(s)].owner = w THEN G[s \ {Max(s)}] + demands[Max(s)].amount
                   ELSE G[s \ {Max(s)}]
        BY <4>2, <4>3 DEF Share
      <4> QED BY <3>2, <4>4 DEF OwedUpTo
    <3> QED BY <3>1, <3>2
  <2> QED BY <2>1 DEF FoldOfOwed
<1>4. PICK F : FoldOfOwed(F, demands, w, n) /\ Owed(c, w) = F[1..n]
  BY <1>1, <1>3
<1>5. \A s \in SUBSET (1..n) : F[s] = OwedUpTo(F, s, demands, w)
  BY <1>4 DEF FoldOfOwed
<1> DEFINE T == {k \in Nat : F[1..k] = SumTo(f, k)}
<1>6. 0 \in T
  <2>1. 1..0 = {} /\ {} \in SUBSET (1..n) /\ SumTo(f, 0) = 0
    BY <1>n, SumStep
  <2> QED BY <1>5, <2>1 DEF OwedUpTo
<1>7. ASSUME NEW k \in 1..n, k - 1 \in T
      PROVE  k \in T
  <2>1. F[1..(k - 1)] = SumTo(f, k - 1) /\ SumTo(f, k) = SumTo(f, k - 1) + f[k]
    BY <1>n, <1>7, SumStep
  <2>2. SumTo(f, k - 1) \in Nat /\ f[k] = Share(demands[k], w)
    BY <1>f, <1>n, SumStep
  <2>3. F[1..k] = OwedUpTo(F, 1..k, demands, w)
    BY <1>5, MaxPrefix
  <2>4. F[1..k] = IF demands[k].owner = w THEN F[1..(k - 1)] + demands[k].amount
                  ELSE F[1..(k - 1)]
    BY <2>3, MaxPrefix DEF OwedUpTo
  <2>5. F[1..k] = SumTo(f, k)
    BY <2>1, <2>2, <2>4 DEF Share
  <2> QED BY <2>5
<1> HIDE DEF T
<1>8. n \in T
  <2>1. \A k \in 1..n : k - 1 \in T => k \in T
    BY <1>7
  <2>2. \A k \in 0..n : k \in T
    BY <1>6, <2>1, PrefixSets, Zenon
  <2> QED BY <2>2
<1> QED BY <1>4, <1>8 DEF T, f

-----------------------------------------------------------------------------
(* Matching, one demand after the other. *)

Matching == [ok : BOOLEAN, taken : SUBSET Nat]

\* hits and fatal name instructions for every demand.
Indexed(demands, hits, fatal, n) ==
  \A k \in 1..n : hits[demands[k]] \in SUBSET Nat /\ fatal[demands[k]] \in SUBSET Nat

MatchUpTo(F, s, demands, hits, fatal, start) ==
  IF s = {} THEN start ELSE Match(F[s \ {Max(s)}], demands[Max(s)], hits, fatal)

FoldOfMatches(F, demands, hits, fatal, start, n) ==
  F = [s \in SUBSET (1..n) |-> MatchUpTo(F, s, demands, hits, fatal, start)]

LEMMA MatchType ==
  ASSUME NEW m \in Matching, NEW d, NEW hits, NEW fatal,
         hits[d] \in SUBSET Nat, fatal[d] \in SUBSET Nat
  PROVE  Match(m, d, hits, fatal) \in Matching
<1> DEFINE seen == (hits[d] \cup fatal[d]) \ m.taken
<1>1. seen \in SUBSET Nat /\ m.taken \in SUBSET Nat
  BY DEF Matching
<1>2. Match(m, d, hits, fatal) =
        IF m.ok /\ seen # {} /\ Min(seen) \notin fatal[d]
        THEN [ok |-> TRUE, taken |-> m.taken \cup {Min(seen)}]
        ELSE [ok |-> FALSE, taken |-> m.taken]
  BY DEF Match
<1> HIDE DEF seen
<1>3. seen # {} => Min(seen) \in Nat
  BY <1>1, MinIn
<1> QED BY <1>1, <1>2, <1>3 DEF Matching

LEMMA MatchSteps ==
  ASSUME NEW n \in Nat, NEW demands, DOMAIN demands = 1..n, NEW hits, NEW fatal,
         Indexed(demands, hits, fatal, n), NEW start \in Matching
  PROVE  \E P : /\ P[0] = start /\ P[n] = MatchInOrder(demands, hits, fatal, start)
                /\ \A k \in 1..n : P[k] = Match(P[k - 1], demands[k], hits, fatal)
                /\ \A k \in 0..n : P[k] \in Matching
<1> DEFINE h == [x \in (1..n) \X Matching |-> Match(x[2], demands[x[1]], hits, fatal)]
           result == MatchInOrder(demands, hits, fatal, start)
<1>1. result = (CHOOSE F : FoldOfMatches(F, demands, hits, fatal, start, n))[1..n]
  BY Zenon DEF MatchInOrder, FoldLeft, MapThenFoldSet, FoldOfMatches, MatchUpTo
<1> HIDE DEF result
<1>2. h \in [(1..n) \X Matching -> Matching]
  <2> SUFFICES ASSUME NEW k \in 1..n, NEW m \in Matching
               PROVE  Match(m, demands[k], hits, fatal) \in Matching
    OBVIOUS
  <2>1. hits[demands[k]] \in SUBSET Nat /\ fatal[demands[k]] \in SUBSET Nat
    BY DEF Indexed
  <2> QED BY <2>1, MatchType
<1>3. \A k \in 1..n, m \in Matching : h[<<k, m>>] = Match(m, demands[k], hits, fatal)
  OBVIOUS
<1> HIDE DEF h
<1>4. PICK G \in [SUBSET (1..n) -> Matching] :
        \A s \in SUBSET (1..n) : PrefixStep(G, s, start, h)
  BY <1>2, PrefixFold
<1>5. FoldOfMatches(G, demands, hits, fatal, start, n)
  <2>1. ASSUME NEW s \in SUBSET (1..n)
        PROVE  G[s] = MatchUpTo(G, s, demands, hits, fatal, start)
    <3>1. CASE s = {}
      BY <1>4, <3>1 DEF PrefixStep, MatchUpTo
    <3>2. CASE s # {}
      <4>1. Max(s) \in 1..n /\ s \ {Max(s)} \in SUBSET (1..n)
        BY <3>2, MaxIn
      <4>2. G[s] = h[<<Max(s), G[s \ {Max(s)}]>>]
        BY <1>4, <3>2 DEF PrefixStep
      <4>3. G[s \ {Max(s)}] \in Matching
        BY <4>1
      <4> QED BY <1>3, <3>2, <4>1, <4>2, <4>3 DEF MatchUpTo
    <3> QED BY <3>1, <3>2
  <2> QED BY <2>1 DEF FoldOfMatches
<1>6. PICK F : FoldOfMatches(F, demands, hits, fatal, start, n) /\ result = F[1..n]
  BY <1>1, <1>5
<1>7. \A s \in SUBSET (1..n) : F[s] = MatchUpTo(F, s, demands, hits, fatal, start)
  BY <1>6 DEF FoldOfMatches
<1> DEFINE P == [k \in 0..n |-> F[1..k]]
<1>8. P[0] = start
  <2>1. 1..0 = {} /\ {} \in SUBSET (1..n) /\ 0 \in 0..n
    OBVIOUS
  <2> QED BY <1>7, <2>1 DEF MatchUpTo
<1>9. P[n] = result
  BY <1>6
<1>10. ASSUME NEW k \in 1..n
       PROVE  P[k] = Match(P[k - 1], demands[k], hits, fatal)
  <2>1. F[1..k] = MatchUpTo(F, 1..k, demands, hits, fatal, start)
    BY <1>7, MaxPrefix
  <2>2. F[1..k] = Match(F[1..(k - 1)], demands[k], hits, fatal)
    BY <2>1, MaxPrefix DEF MatchUpTo
  <2>3. k \in 0..n /\ k - 1 \in 0..n
    OBVIOUS
  <2> QED BY <2>2, <2>3
<1> HIDE DEF P
<1> DEFINE T == {k \in Nat : P[k] \in Matching}
<1>11. 0 \in T
  BY <1>8
<1>12. ASSUME NEW k \in 1..n, k - 1 \in T
       PROVE  k \in T
  <2>1. hits[demands[k]] \in SUBSET Nat /\ fatal[demands[k]] \in SUBSET Nat
    BY DEF Indexed
  <2>2. P[k - 1] \in Matching
    BY <1>12
  <2>3. P[k] \in Matching
    BY <1>10, <2>1, <2>2, MatchType
  <2> QED BY <2>3
<1> HIDE DEF T
<1>13. \A k \in 0..n : k \in T
  <2>1. \A k \in 1..n : k - 1 \in T => k \in T
    BY <1>12
  <2> QED BY <1>11, <2>1, PrefixSets, Zenon
<1>14. \A k \in 0..n : P[k] \in Matching
  BY <1>13 DEF T
<1> QED BY <1>8, <1>9, <1>10, <1>14 DEF result

\* Demand k took one instruction more, a hit that is not fatal.
Took(T, k, demands, hits, fatal) ==
  \E j \in hits[demands[k]] \ fatal[demands[k]] : j \notin T[k - 1] /\ T[k] = T[k - 1] \cup {j}

LEMMA MatchedTakesOne ==
  ASSUME NEW m \in Matching, NEW d, NEW hits, NEW fatal,
         hits[d] \in SUBSET Nat, fatal[d] \in SUBSET Nat,
         Match(m, d, hits, fatal).ok
  PROVE  /\ m.ok
         /\ \E j \in hits[d] \ fatal[d] :
              j \notin m.taken /\ Match(m, d, hits, fatal).taken = m.taken \cup {j}
<1> DEFINE seen == (hits[d] \cup fatal[d]) \ m.taken
<1>1. seen \in SUBSET Nat
  OBVIOUS
<1>2. Match(m, d, hits, fatal) =
        IF m.ok /\ seen # {} /\ Min(seen) \notin fatal[d]
        THEN [ok |-> TRUE, taken |-> m.taken \cup {Min(seen)}]
        ELSE [ok |-> FALSE, taken |-> m.taken]
  BY DEF Match
<1>3. \A j \in seen : j \notin m.taken /\ (j \in hits[d] \/ j \in fatal[d])
  OBVIOUS
<1> HIDE DEF seen
<1>4. /\ m.ok /\ seen # {} /\ Min(seen) \notin fatal[d]
      /\ Match(m, d, hits, fatal).taken = m.taken \cup {Min(seen)}
  BY <1>2
<1>5. Min(seen) \in seen
  BY <1>1, <1>4, MinIn
<1> QED BY <1>3, <1>4, <1>5

\* When the last demand was met, so was every demand before it.
LEMMA OkThroughout ==
  ASSUME NEW n \in Nat, NEW P, P[n].ok, \A k \in 1..n : P[k].ok => P[k - 1].ok
  PROVE  \A k \in 0..n : P[k].ok
<1> DEFINE U == {i \in Nat : i <= n => P[n - i].ok}
<1>1. 0 \in U
  OBVIOUS
<1>2. ASSUME NEW i \in Nat, i \in U
      PROVE  i + 1 \in U
  <2> SUFFICES ASSUME i + 1 <= n PROVE P[n - (i + 1)].ok
    OBVIOUS
  <2>1. P[n - i].ok /\ n - i \in 1..n /\ (n - i) - 1 = n - (i + 1)
    BY <1>2
  <2>2. P[(n - i) - 1].ok
    BY <2>1
  <2> QED BY <2>1, <2>2
<1> HIDE DEF U
<1>3. \A i \in Nat : i \in U
  BY <1>1, <1>2, NatSets
<1>4. ASSUME NEW k \in 0..n
      PROVE  P[k].ok
  <2>1. n - k \in Nat /\ n - k <= n /\ n - (n - k) = k
    OBVIOUS
  <2>2. P[n - (n - k)].ok
    BY <1>3, <2>1 DEF U
  <2> QED BY <2>1, <2>2
<1> QED BY <1>4

LEMMA MatchSucceeds ==
  ASSUME NEW n \in Nat, NEW demands, DOMAIN demands = 1..n, NEW hits, NEW fatal,
         Indexed(demands, hits, fatal, n), NEW start \in Matching,
         MatchInOrder(demands, hits, fatal, start).ok
  PROVE  /\ start.ok
         /\ MatchInOrder(demands, hits, fatal, start) \in Matching
         /\ \E T : /\ T[0] = start.taken
                   /\ T[n] = MatchInOrder(demands, hits, fatal, start).taken
                   /\ \A k \in 1..n : Took(T, k, demands, hits, fatal)
<1> DEFINE result == MatchInOrder(demands, hits, fatal, start)
<1>0. result.ok
  OBVIOUS
<1>1. PICK P : /\ P[0] = start /\ P[n] = result
               /\ \A k \in 1..n : P[k] = Match(P[k - 1], demands[k], hits, fatal)
               /\ \A k \in 0..n : P[k] \in Matching
  BY MatchSteps
<1> HIDE DEF result
<1>2. ASSUME NEW k \in 1..n, P[k].ok
      PROVE  /\ P[k - 1].ok
             /\ \E j \in hits[demands[k]] \ fatal[demands[k]] :
                  j \notin P[k - 1].taken /\ P[k].taken = P[k - 1].taken \cup {j}
  <2>1. P[k] = Match(P[k - 1], demands[k], hits, fatal) /\ P[k - 1] \in Matching
    BY <1>1
  <2>2. hits[demands[k]] \in SUBSET Nat /\ fatal[demands[k]] \in SUBSET Nat
    BY DEF Indexed
  <2>3. Match(P[k - 1], demands[k], hits, fatal).ok
    BY <1>2, <2>1
  <2> DEFINE m == P[k - 1]
  <2>4. m \in Matching /\ Match(m, demands[k], hits, fatal).ok
        /\ P[k] = Match(m, demands[k], hits, fatal)
    BY <2>1, <2>3
  <2> HIDE DEF m
  <2>5. /\ m.ok
        /\ \E j \in hits[demands[k]] \ fatal[demands[k]] :
             j \notin m.taken /\ P[k].taken = m.taken \cup {j}
    BY <2>2, <2>4, MatchedTakesOne
  <2> QED BY <2>5 DEF m
<1>6. \A k \in 0..n : P[k].ok
  BY <1>0, <1>1, <1>2, OkThroughout
<1> DEFINE T == [k \in 0..n |-> P[k].taken]
<1>7. T[0] = start.taken /\ T[n] = result.taken
  BY <1>1
<1>8. ASSUME NEW k \in 1..n
      PROVE  Took(T, k, demands, hits, fatal)
  <2>1. k \in 0..n /\ k - 1 \in 0..n
    OBVIOUS
  <2>2. T[k] = P[k].taken /\ T[k - 1] = P[k - 1].taken /\ P[k].ok
    BY <1>6, <2>1
  <2> HIDE DEF T
  <2> QED BY <1>2, <2>2 DEF Took
<1>9. start.ok /\ result \in Matching
  BY <1>1, <1>6
<1> HIDE DEF T
<1> QED BY <1>7, <1>8, <1>9 DEF result

\* The taken instructions bring what their demands ask for.
Masked(g, S, m) == [i \in 1..m |-> IF i \in S THEN g[i] ELSE 0]

Brings(g, f, demands, hits, fatal, n, m) ==
  \A k \in 1..n : \A j \in hits[demands[k]] \ fatal[demands[k]] : j \in 1..m /\ g[j] = f[k]

LEMMA TakenSum ==
  ASSUME NEW n \in Nat, NEW m \in Nat, NEW demands, NEW hits, NEW fatal, NEW T, T[0] = {},
         \A k \in 1..n : Took(T, k, demands, hits, fatal),
         NEW f, Numbers(f, n), NEW g, Brings(g, f, demands, hits, fatal, n, m)
  PROVE  /\ T[n] \in SUBSET (1..m)
         /\ Numbers(Masked(g, T[n], m), m)
         /\ SumTo(Masked(g, T[n], m), m) = SumTo(f, n)
<1> DEFINE U == {k \in Nat : /\ T[k] \in SUBSET (1..m)
                             /\ Numbers(Masked(g, T[k], m), m)
                             /\ SumTo(Masked(g, T[k], m), m) = SumTo(f, k)}
<1>1. 0 \in U
  <2>1. \A i \in 1..m : Masked(g, T[0], m)[i] = 0
    BY DEF Masked
  <2>2. Numbers(Masked(g, T[0], m), m)
    BY <2>1 DEF Numbers
  <2>3. SumTo(Masked(g, T[0], m), m) = 0
    <3> DEFINE e == Masked(g, T[0], m)
               Z == {i \in Nat : SumTo(e, i) = 0}
    <3>1. Numbers(e, m) /\ \A i \in 1..m : e[i] = 0
      BY <2>1, <2>2
    <3> HIDE DEF e
    <3>2. 0 \in Z /\ \A i \in 1..m : i - 1 \in Z => i \in Z
      BY <3>1, SumStep
    <3> HIDE DEF Z
    <3>3. m \in Z
      BY <3>2, PrefixSets
    <3> QED BY <3>3 DEF Z, e
  <2>4. SumTo(f, 0) = 0
    BY SumStep
  <2> QED BY <2>2, <2>3, <2>4
<1>2. ASSUME NEW k \in 1..n, k - 1 \in U
      PROVE  k \in U
  <2> DEFINE old == Masked(g, T[k - 1], m)
             new == Masked(g, T[k], m)
  <2>1. PICK j : j \in 1..m /\ g[j] = f[k] /\ j \notin T[k - 1] /\ T[k] = T[k - 1] \cup {j}
    BY DEF Took, Brings
  <2> DEFINE one == [i \in 1..m |-> IF i = j THEN f[k] ELSE 0]
  <2>2. T[k - 1] \in SUBSET (1..m) /\ Numbers(old, m) /\ SumTo(old, m) = SumTo(f, k - 1)
    BY <1>2
  <2>3. f[k] \in Nat /\ SumTo(f, k) = SumTo(f, k - 1) + f[k]
    BY SumStep DEF Numbers
  <2>4. T[k] \in SUBSET (1..m)
    BY <2>1, <2>2
  <2>5. \A i \in 1..m : one[i] = IF i = j THEN f[k] ELSE 0
    OBVIOUS
  <2>6. \A i \in 1..m : new[i] = old[i] + one[i]
    <3> SUFFICES ASSUME NEW i \in 1..m PROVE new[i] = old[i] + one[i]
      OBVIOUS
    <3>1. new[i] = (IF i \in T[k] THEN g[i] ELSE 0) /\ old[i] = (IF i \in T[k - 1] THEN g[i] ELSE 0)
      BY DEF Masked
    <3>2. old[i] \in Nat
      BY <2>2 DEF Numbers
    <3>3. one[i] = IF i = j THEN f[k] ELSE 0
      OBVIOUS
    <3> HIDE DEF old, new, one
    <3>4. CASE i = j
      <4>1. new[i] = f[k] /\ old[i] = 0 /\ one[i] = f[k]
        BY <2>1, <3>1, <3>3, <3>4
      <4> QED BY <2>3, <4>1
    <3>5. CASE i # j
      <4>1. new[i] = old[i] /\ one[i] = 0
        BY <2>1, <3>1, <3>3, <3>5
      <4> QED BY <3>2, <4>1
    <3> QED BY <3>4, <3>5
  <2> HIDE DEF old, new, one
  <2>7. Numbers(one, m) /\ SumTo(one, m) = f[k]
    <3>1. Numbers(one, m)
      BY <2>3, <2>5 DEF Numbers
    <3> DEFINE x == f[k]
    <3>2. x \in Nat /\ \A i \in 1..m : one[i] = IF i = j THEN x ELSE 0
      BY <2>3, <2>5
    <3>3. j \in 1..m
      BY <2>1
    <3> HIDE DEF x
    <3>4. SumTo(one, m) = x
      BY <3>2, <3>3, SumSingle
    <3> QED BY <3>1, <3>4 DEF x
  <2>8. Numbers(new, m)
    BY <2>2, <2>6, <2>7 DEF Numbers
  <2>9. SumTo(new, m) = SumTo(old, m) + SumTo(one, m)
    BY <2>2, <2>6, <2>7, SumPlus
  <2>10. SumTo(new, m) = SumTo(f, k)
    BY <2>2, <2>3, <2>7, <2>9
  <2> QED BY <2>4, <2>8, <2>10 DEF new
<1> HIDE DEF U
<1>3. n \in U
  <2>1. \A k \in 1..n : k - 1 \in U => k \in U
    BY <1>2
  <2>2. \A k \in 0..n : k \in U
    BY <1>1, <2>1, PrefixSets, Zenon
  <2> QED BY <2>2
<1> QED BY <1>3 DEF U

\* Whatever was taken was a hit of some demand.
LEMMA TakenAreHits ==
  ASSUME NEW n \in Nat, NEW demands, NEW hits, NEW fatal, NEW T,
         \A k \in 1..n : Took(T, k, demands, hits, fatal), NEW i, i \in T[n]
  PROVE  \/ i \in T[0]
         \/ \E k \in 1..n : i \in hits[demands[k]] \ fatal[demands[k]]
<1> DEFINE Hit(x) == x \in T[0] \/ \E k \in 1..n : x \in hits[demands[k]] \ fatal[demands[k]]
           U == {k \in Nat : \A x \in T[k] : Hit(x)}
<1>1. 0 \in U
  OBVIOUS
<1>2. ASSUME NEW k \in 1..n, k - 1 \in U
      PROVE  k \in U
  <2>1. PICK j \in hits[demands[k]] \ fatal[demands[k]] : T[k] = T[k - 1] \cup {j}
    BY DEF Took
  <2>2. \A x \in T[k] : Hit(x)
    BY <1>2, <2>1
  <2> HIDE DEF Hit
  <2> QED BY <2>2
<1> HIDE DEF U
<1>3. n \in U
  <2>1. \A k \in 1..n : k - 1 \in U => k \in U
    BY <1>2
  <2>2. \A k \in 0..n : k \in U
    BY <1>1, <2>1, PrefixSets, Zenon
  <2> QED BY <2>2
<1> QED BY <1>3 DEF U

-----------------------------------------------------------------------------
(* The memos. *)

MemosUpTo(F, s, fields) ==
  IF s = {} THEN <<>>
  ELSE IF fields[Max(s)] \in {None, EmptyMemo} THEN F[s \ {Max(s)}]
       ELSE Append(F[s \ {Max(s)}], fields[Max(s)])

FoldOfMemos(F, fields, n) == F = [s \in SUBSET (1..n) |-> MemosUpTo(F, s, fields)]

LEMMA FieldsShape ==
  ASSUME NEW c, c.splits \in Seq(Range(c.splits)), NEW n, n = Len(c.splits)
  PROVE  /\ n \in Nat /\ DOMAIN MemoFields(c) = 1..(n + 1)
         /\ MemoFields(c)[1] = c.external_id
         /\ \A k \in 1..n : MemoFields(c)[k + 1] = c.splits[k].memo
<1> DEFINE first == <<c.external_id>>
           rest == [i \in DOMAIN c.splits |-> c.splits[i].memo]
<1>1. n \in Nat /\ DOMAIN c.splits = 1..n
  OBVIOUS
<1>2. first \in Seq(Range(first)) /\ Len(first) = 1 /\ first[1] = c.external_id
  BY DEF Range
<1>3. rest \in Seq(Range(rest)) /\ Len(rest) = n
  <2>1. \A k \in 1..n : rest[k] \in Range(rest)
    BY <1>1 DEF Range
  <2>2. DOMAIN rest = 1..n
    BY <1>1
  <2>3. rest = [k \in 1..n |-> rest[k]]
    BY <1>1
  <2> HIDE DEF rest
  <2> QED BY <1>1, <2>1, <2>2, <2>3
<1>4. \A k \in 1..n : rest[k] = c.splits[k].memo
  BY <1>1
<1>5. MemoFields(c) = Joined(first, rest)
  BY DEF MemoFields, Joined
<1> HIDE DEF first, rest
<1> DEFINE cat == Joined(first, rest)
<1>6. /\ DOMAIN cat = 1..(Len(first) + Len(rest))
      /\ \A i \in 1..Len(first) : cat[i] = first[i]
      /\ \A i \in 1..Len(rest) : cat[Len(first) + i] = rest[i]
  <2>1. first \in Seq(Range(first))
    BY <1>2
  <2>2. rest \in Seq(Range(rest))
    BY <1>3
  <2> QED BY <2>1, <2>2, ConcatLaws
<1> HIDE DEF cat
<1>7. DOMAIN cat = 1..(1 + n) /\ cat[1] = first[1] /\ \A k \in 1..n : cat[1 + k] = rest[k]
  BY <1>2, <1>3, <1>6
<1>8. 1 + n = n + 1 /\ \A k \in 1..n : 1 + k = k + 1
  BY <1>1
<1>9. DOMAIN cat = 1..(n + 1) /\ cat[1] = first[1] /\ \A k \in 1..n : cat[k + 1] = rest[k]
  BY <1>7, <1>8
<1> QED BY <1>1, <1>2, <1>4, <1>5, <1>9 DEF cat

\* The memos a charge expects are its fields, one after the other, but for those
\* that are absent or empty.
LEMMA MemoSteps ==
  ASSUME NEW c, NEW n \in Nat, DOMAIN MemoFields(c) = 1..n
  PROVE  \E P : /\ P[0] = <<>> /\ P[n] = ExpectedMemos(c)
                /\ \A k \in 1..n :
                     P[k] = IF MemoFields(c)[k] \in {None, EmptyMemo} THEN P[k - 1]
                            ELSE Append(P[k - 1], MemoFields(c)[k])
                /\ \A k \in 0..n : P[k] \in Seq(Range(MemoFields(c)))
<1> DEFINE fields == MemoFields(c)
           memos == ExpectedMemos(c)
           S == Range(fields)
           V == Seq(S)
<1>1. DOMAIN fields = 1..n
  OBVIOUS
<1>2. memos = (CHOOSE F : FoldOfMemos(F, fields, n))[1..n]
  BY <1>1, Zenon DEF ExpectedMemos, FoldLeft, MapThenFoldSet, FoldOfMemos, MemosUpTo
<1>3. \A k \in 1..n : fields[k] \in S
  BY <1>1 DEF Range
<1> HIDE DEF fields, memos, S
<1> DEFINE h == [x \in (1..n) \X V |->
                   IF fields[x[1]] \in {None, EmptyMemo} THEN x[2] ELSE Append(x[2], fields[x[1]])]
<1>4. h \in [(1..n) \X V -> V]
  <2> SUFFICES ASSUME NEW k \in 1..n, NEW v \in V PROVE Append(v, fields[k]) \in V
    OBVIOUS
  <2> QED BY <1>3
<1>5. \A k \in 1..n, v \in V :
        h[<<k, v>>] = IF fields[k] \in {None, EmptyMemo} THEN v ELSE Append(v, fields[k])
  OBVIOUS
<1>6. <<>> \in V
  OBVIOUS
<1> HIDE DEF h, V
<1>7. PICK G \in [SUBSET (1..n) -> V] : \A s \in SUBSET (1..n) : PrefixStep(G, s, <<>>, h)
  BY <1>4, <1>6, PrefixFold
<1>8. FoldOfMemos(G, fields, n)
  <2>1. ASSUME NEW s \in SUBSET (1..n)
        PROVE  G[s] = MemosUpTo(G, s, fields)
    <3>1. CASE s = {}
      BY <1>7, <3>1 DEF PrefixStep, MemosUpTo
    <3>2. CASE s # {}
      <4>1. Max(s) \in 1..n /\ s \ {Max(s)} \in SUBSET (1..n)
        BY <3>2, MaxIn
      <4>2. G[s] = h[<<Max(s), G[s \ {Max(s)}]>>]
        BY <1>7, <3>2 DEF PrefixStep
      <4>3. G[s \ {Max(s)}] \in V
        BY <4>1
      <4>4. G[s] = IF fields[Max(s)] \in {None, EmptyMemo} THEN G[s \ {Max(s)}]
                   ELSE Append(G[s \ {Max(s)}], fields[Max(s)])
        BY <1>5, <4>1, <4>2, <4>3
      <4> QED BY <3>2, <4>4, Zenon DEF MemosUpTo
    <3> QED BY <3>1, <3>2
  <2> QED BY <2>1 DEF FoldOfMemos
<1>9. PICK F : FoldOfMemos(F, fields, n) /\ memos = F[1..n]
  BY <1>2, <1>8
<1>10. \A s \in SUBSET (1..n) : F[s] = MemosUpTo(F, s, fields)
  BY <1>9 DEF FoldOfMemos
<1> DEFINE P == [k \in 0..n |-> F[1..k]]
<1>11. P[0] = <<>> /\ P[n] = memos
  <2>1. 1..0 = {} /\ {} \in SUBSET (1..n) /\ 0 \in 0..n /\ n \in 0..n
    OBVIOUS
  <2>2. F[{}] = <<>>
    BY <1>10, <2>1 DEF MemosUpTo
  <2> QED BY <1>9, <2>1, <2>2
<1>12. ASSUME NEW k \in 1..n
       PROVE  P[k] = IF fields[k] \in {None, EmptyMemo} THEN P[k - 1]
                     ELSE Append(P[k - 1], fields[k])
  <2>1. /\ 1..k \in SUBSET (1..n) /\ 1..k # {}
        /\ Max(1..k) = k /\ (1..k) \ {Max(1..k)} = 1..(k - 1)
    BY MaxPrefix
  <2>2. F[1..k] = MemosUpTo(F, 1..k, fields)
    BY <1>10, <2>1
  <2>3. F[1..k] = IF fields[k] \in {None, EmptyMemo} THEN F[1..(k - 1)]
                  ELSE Append(F[1..(k - 1)], fields[k])
    BY <2>1, <2>2, Zenon DEF MemosUpTo
  <2>4. k \in 0..n /\ k - 1 \in 0..n
    OBVIOUS
  <2> QED BY <2>3, <2>4
<1> HIDE DEF P
<1> DEFINE T == {k \in Nat : P[k] \in V}
<1>13. 0 \in T
  BY <1>6, <1>11
<1>14. ASSUME NEW k \in 1..n, k - 1 \in T
       PROVE  k \in T
  <2>1. P[k - 1] \in V
    BY <1>14
  <2>2. Append(P[k - 1], fields[k]) \in V
    BY <1>3, <2>1 DEF V
  <2>3. P[k] \in V
    BY <1>12, <2>1, <2>2
  <2> QED BY <2>3
<1> HIDE DEF T
<1>15. \A k \in 0..n : k \in T
  <2>1. \A k \in 1..n : k - 1 \in T => k \in T
    BY <1>14
  <2> QED BY <1>13, <2>1, PrefixSets, Zenon
<1>16. \A k \in 0..n : P[k] \in V
  BY <1>15 DEF T
<1> QED BY <1>11, <1>12, <1>16 DEF fields, memos, V, S

LEMMA MemosAreSeq ==
  ASSUME NEW c, c.splits \in Seq(Range(c.splits))
  PROVE  ExpectedMemos(c) \in Seq(Range(ExpectedMemos(c)))
<1> DEFINE n == Len(c.splits)
<1>0. n \in Nat /\ n = Len(c.splits)
  OBVIOUS
<1> HIDE DEF n
<1>1. n + 1 \in Nat /\ DOMAIN MemoFields(c) = 1..(n + 1)
  BY <1>0, FieldsShape
<1>2. PICK P : P[n + 1] = ExpectedMemos(c)
               /\ \A k \in 0..(n + 1) : P[k] \in Seq(Range(MemoFields(c)))
  <2> DEFINE N == n + 1
  <2>1. N \in Nat /\ DOMAIN MemoFields(c) = 1..N
    BY <1>1
  <2> HIDE DEF N
  <2>2. \E P : P[N] = ExpectedMemos(c) /\ \A k \in 0..N : P[k] \in Seq(Range(MemoFields(c)))
    BY <2>1, MemoSteps, Zenon
  <2> QED BY <2>2 DEF N
<1>3. n + 1 \in 0..(n + 1)
  BY <1>1
<1> QED BY <1>2, <1>3, SeqItsRange

\* Matching the memos takes memo instructions only.
LEMMA MemosTaken ==
  ASSUME NEW c, c.splits \in Seq(Range(c.splits)), NEW ixs, NEW m \in Nat, DOMAIN ixs = 1..m,
         NEW transfers \in Matching, MatchMemos(ixs, c, transfers).ok
  PROVE  /\ transfers.ok
         /\ \A i \in MatchMemos(ixs, c, transfers).taken :
              \/ i \in transfers.taken
              \/ i \in 1..m /\ ixs[i].program = "memo" /\ ixs[i].text \in Range(ExpectedMemos(c))
<1> DEFINE memos == ExpectedMemos(c)
           n == Len(memos)
           hits == [x \in Range(memos) |-> {i \in DOMAIN ixs : IsMemo(ixs[i], x)}]
           fatal == [x \in Range(memos) |-> {}]
           result == MatchInOrder(memos, hits, fatal, transfers)
<1>1. n \in Nat /\ DOMAIN memos = 1..n
  BY MemosAreSeq
<1>2. \A k \in 1..n : memos[k] \in Range(memos)
  BY <1>1 DEF Range
<1>3. ASSUME NEW k \in 1..n
      PROVE  /\ hits[memos[k]] \in SUBSET (1..m)
             /\ hits[memos[k]] \in SUBSET Nat
             /\ fatal[memos[k]] = {}
             /\ \A i \in hits[memos[k]] : ixs[i].program = "memo" /\ ixs[i].text = memos[k]
  <2>1. hits[memos[k]] = {i \in DOMAIN ixs : IsMemo(ixs[i], memos[k])} /\ fatal[memos[k]] = {}
    BY <1>2
  <2> HIDE DEF hits, fatal
  <2> QED BY <2>1 DEF IsMemo
<1>4. result = MatchMemos(ixs, c, transfers) /\ result.ok
  BY DEF MatchMemos
<1> HIDE DEF hits, fatal, result, memos, n
<1>5. Indexed(memos, hits, fatal, n)
  BY <1>3 DEF Indexed
<1>6. transfers.ok /\ \E T : /\ T[0] = transfers.taken /\ T[n] = result.taken
                             /\ \A k \in 1..n : Took(T, k, memos, hits, fatal)
  <2>1. MatchInOrder(memos, hits, fatal, transfers).ok
    BY <1>4 DEF result
  <2>2. n \in Nat /\ DOMAIN memos = 1..n
    BY <1>1
  <2>3. /\ transfers.ok
        /\ \E T : /\ T[0] = transfers.taken
                  /\ T[n] = MatchInOrder(memos, hits, fatal, transfers).taken
                  /\ \A k \in 1..n : Took(T, k, memos, hits, fatal)
    BY <1>5, <2>1, <2>2, MatchSucceeds
  <2> QED BY <2>3 DEF result
<1>7. PICK T : /\ T[0] = transfers.taken /\ T[n] = result.taken
               /\ \A k \in 1..n : Took(T, k, memos, hits, fatal)
  BY <1>6
<1>8. ASSUME NEW i \in result.taken
      PROVE  \/ i \in transfers.taken
             \/ i \in 1..m /\ ixs[i].program = "memo" /\ ixs[i].text \in Range(memos)
  <2>1. i \in T[n] /\ n \in Nat
    BY <1>1, <1>7
  <2>2. i \in T[0] \/ \E k \in 1..n : i \in hits[memos[k]] \ fatal[memos[k]]
    BY <1>7, <2>1, TakenAreHits
  <2>3. CASE i \in T[0]
    BY <1>7, <2>3
  <2>4. CASE \E k \in 1..n : i \in hits[memos[k]] \ fatal[memos[k]]
    <3>1. PICK k \in 1..n : i \in hits[memos[k]]
      BY <2>4
    <3> QED BY <1>2, <1>3, <3>1
  <2> QED BY <2>2, <2>3, <2>4
<1> QED BY <1>4, <1>6, <1>8 DEF memos

-----------------------------------------------------------------------------
(* The amounts, modulo U64. *)

LEMMA ModOf ==
  ASSUME NEW m \in Nat \ {0}, NEW q \in Nat, NEW r \in 0..(m - 1)
  PROVE  (m * q + r) % m = r
OBVIOUS

LEMMA DivMod ==
  ASSUME NEW m \in Nat \ {0}, NEW a \in Nat
  PROVE  a \div m \in Nat /\ a % m \in 0..(m - 1) /\ a = m * (a \div m) + (a % m)
OBVIOUS

LEMMA ModStep ==
  ASSUME NEW m \in Nat \ {0}, NEW s \in Nat, NEW a \in Nat
  PROVE  ((s % m) + a) % m = (s + a) % m
<1>1. PICK q \in Nat, r \in 0..(m - 1) : s = m * q + r /\ s % m = r
  BY DivMod
<1>2. r + a \in Nat
  OBVIOUS
<1>3. PICK p \in Nat, t \in 0..(m - 1) : r + a = m * p + t /\ (r + a) % m = t
  BY <1>2, DivMod
<1>4. s + a = m * (q + p) + t
  <2>1. m * (q + p) = m * q + m * p
    OBVIOUS
  <2>2. m * q \in Nat /\ m * p \in Nat
    OBVIOUS
  <2> QED BY <1>1, <1>3, <2>1, <2>2
<1>5. (s + a) % m = t
  <2>1. q + p \in Nat
    OBVIOUS
  <2> QED BY <1>4, <2>1, ModOf
<1> QED BY <1>1, <1>3, <1>5

\* The rest of an amount, and what was taken from it modulo m, are the amount.
LEMMA ModBack ==
  ASSUME NEW m \in Nat \ {0}, NEW s \in Nat, NEW c \in 0..(m - 1), c > (s % m)
  PROVE  c - (s % m) \in Nat /\ ((c - (s % m)) + s) % m = c
<1>1. PICK q \in Nat, r \in 0..(m - 1) : s = m * q + r /\ s % m = r
  BY DivMod
<1>2. m * q \in Nat
  OBVIOUS
<1>3. (c - r) + s = m * q + c
  BY <1>1, <1>2
<1>4. (m * q + c) % m = c
  BY ModOf
<1> QED BY <1>1, <1>3, <1>4

Amounts(c) == [k \in DOMAIN c.splits |-> c.splits[k].amount]

TotalUpTo(F, s, splits) ==
  IF s = {} THEN 0
  ELSE IF splits[Max(s)].amount = None THEN F[s \ {Max(s)}]
       ELSE (F[s \ {Max(s)}] + splits[Max(s)].amount) % U64

FoldOfTotal(F, splits, n) == F = [s \in SUBSET (1..n) |-> TotalUpTo(F, s, splits)]

LEMMA SplitsTotalIs ==
  ASSUME NEW n \in Nat, NEW c, DOMAIN c.splits = 1..n, Numbers(Amounts(c), n),
         \A k \in 1..n : c.splits[k].amount # None
  PROVE  SplitsTotal(c) = SumTo(Amounts(c), n) % U64
<1> DEFINE splits == c.splits
           f == Amounts(c)
           total == SplitsTotal(c)
<1>1. total = (CHOOSE F : FoldOfTotal(F, splits, n))[1..n]
  BY Zenon DEF SplitsTotal, FoldLeft, MapThenFoldSet, FoldOfTotal, TotalUpTo
<1>2. \A k \in 1..n : splits[k].amount = f[k] /\ splits[k].amount # None
  BY DEF Amounts
<1>3. Numbers(f, n)
  OBVIOUS
<1>u. U64 \in Nat \ {0}
  BY TransactionAssumption
<1> HIDE DEF splits, f, total
<1> DEFINE h == [x \in (1..n) \X Nat |-> (x[2] + f[x[1]]) % U64]
<1>4. h \in [(1..n) \X Nat -> Nat]
  <2> SUFFICES ASSUME NEW k \in 1..n, NEW v \in Nat PROVE (v + f[k]) % U64 \in Nat
    OBVIOUS
  <2>1. v + f[k] \in Nat
    BY <1>3 DEF Numbers
  <2> QED BY <1>u, <2>1, DivMod
<1>5. \A k \in 1..n, v \in Nat : h[<<k, v>>] = (v + f[k]) % U64
  OBVIOUS
<1>6. 0 \in Nat
  OBVIOUS
<1> HIDE DEF h
<1>7. PICK G \in [SUBSET (1..n) -> Nat] : \A s \in SUBSET (1..n) : PrefixStep(G, s, 0, h)
  BY <1>4, <1>6, PrefixFold
<1>8. FoldOfTotal(G, splits, n)
  <2>1. ASSUME NEW s \in SUBSET (1..n)
        PROVE  G[s] = TotalUpTo(G, s, splits)
    <3>1. CASE s = {}
      BY <1>7, <3>1 DEF PrefixStep, TotalUpTo
    <3>2. CASE s # {}
      <4>1. Max(s) \in 1..n /\ s \ {Max(s)} \in SUBSET (1..n)
        BY <3>2, MaxIn
      <4>2. G[s] = h[<<Max(s), G[s \ {Max(s)}]>>]
        BY <1>7, <3>2 DEF PrefixStep
      <4>3. G[s \ {Max(s)}] \in Nat
        BY <4>1
      <4>4. G[s] = (G[s \ {Max(s)}] + f[Max(s)]) % U64
        BY <1>5, <4>1, <4>2, <4>3
      <4> QED BY <1>2, <3>2, <4>1, <4>4 DEF TotalUpTo
    <3> QED BY <3>1, <3>2
  <2> QED BY <2>1 DEF FoldOfTotal
<1>9. PICK F : FoldOfTotal(F, splits, n) /\ total = F[1..n]
  BY <1>1, <1>8
<1>10. \A s \in SUBSET (1..n) : F[s] = TotalUpTo(F, s, splits)
  BY <1>9 DEF FoldOfTotal
<1> DEFINE T == {k \in Nat : F[1..k] = SumTo(f, k) % U64}
<1>11. 0 \in T
  <2>1. 1..0 = {} /\ {} \in SUBSET (1..n) /\ SumTo(f, 0) = 0
    BY <1>3, SumStep
  <2>2. F[{}] = 0
    BY <1>10, <2>1 DEF TotalUpTo
  <2>3. 0 % U64 = 0
    BY <1>u
  <2> QED BY <2>1, <2>2, <2>3
<1>12. ASSUME NEW k \in 1..n, k - 1 \in T
       PROVE  k \in T
  <2>1. F[1..k] = TotalUpTo(F, 1..k, splits)
    BY <1>10, MaxPrefix
  <2>2. F[1..k] = (F[1..(k - 1)] + f[k]) % U64
    BY <1>2, <2>1, MaxPrefix DEF TotalUpTo
  <2>3. SumTo(f, k - 1) \in Nat /\ f[k] \in Nat /\ SumTo(f, k) = SumTo(f, k - 1) + f[k]
    <3>1. f[k] \in Nat
      BY <1>3 DEF Numbers
    <3>2. SumTo(f, k - 1) \in Nat /\ SumTo(f, k) = SumTo(f, k - 1) + f[k]
      BY <1>3, SumStep
    <3> QED BY <3>1, <3>2
  <2>4. F[1..(k - 1)] = SumTo(f, k - 1) % U64
    BY <1>12
  <2>5. ((SumTo(f, k - 1) % U64) + f[k]) % U64 = (SumTo(f, k - 1) + f[k]) % U64
    BY <1>u, <2>3, ModStep
  <2>6. F[1..k] = SumTo(f, k) % U64
    BY <2>2, <2>3, <2>4, <2>5
  <2> QED BY <2>6
<1> HIDE DEF T
<1>13. n \in T
  <2>1. \A k \in 1..n : k - 1 \in T => k \in T
    BY <1>12
  <2>2. \A k \in 0..n : k \in T
    BY <1>11, <2>1, PrefixSets, Zenon
  <2> QED BY <2>2
<1> QED BY <1>9, <1>13 DEF T, total, f

-----------------------------------------------------------------------------
(* The sum over the wallets. *)

ReceivedUpTo(F, s, ixs) ==
  IF s = {} THEN 0
  ELSE Received(ixs, CHOOSE x \in s : TRUE) + F[s \ {CHOOSE x \in s : TRUE}]

FoldOfReceived(F, ixs) == F = [s \in SUBSET Wallets |-> ReceivedUpTo(F, s, ixs)]

ReceivedByAll(ixs) == MapThenSumSet(LAMBDA w : Received(ixs, w), Wallets)

\* The demands a set of wallets shares.
SharesOf(s, c) ==
  [k \in DOMAIN Expected(c) |-> IF Expected(c)[k].owner \in s THEN Expected(c)[k].amount ELSE 0]

LEMMA ReceivedFold ==
  ASSUME NEW ixs, \A w \in Wallets : Received(ixs, w) \in Nat
  PROVE  \E F : /\ \A s \in SUBSET Wallets : F[s] = ReceivedUpTo(F, s, ixs)
                /\ ReceivedByAll(ixs) = F[Wallets]
<1> DEFINE h == [x \in Wallets \X Nat |-> Received(ixs, x[1]) + x[2]]
           ch == [s \in SUBSET Wallets |-> CHOOSE x \in s : TRUE]
           total == ReceivedByAll(ixs)
<1>1. total = (CHOOSE F : FoldOfReceived(F, ixs))[Wallets]
  BY Zenon DEF ReceivedByAll, MapThenSumSet, MapThenFoldSet, FoldOfReceived, ReceivedUpTo
<1>2. h \in [Wallets \X Nat -> Nat] /\ 0 \in Nat
  OBVIOUS
<1>3. \A w \in Wallets, v \in Nat : h[<<w, v>>] = Received(ixs, w) + v
  OBVIOUS
<1>4. \A s \in SUBSET Wallets : ch[s] = CHOOSE x \in s : TRUE
  OBVIOUS
<1>5. \A s \in SUBSET Wallets : s # {} => ch[s] \in s
  BY <1>4
<1>6. IsFiniteSet(Wallets)
  BY TransactionAssumption
<1> HIDE DEF h, ch, total
<1>7. PICK G \in [SUBSET Wallets -> Nat] : \A s \in SUBSET Wallets : FoldStep(G, s, ch, 0, h)
  BY <1>2, <1>5, <1>6, FoldExists
<1>8. FoldOfReceived(G, ixs)
  <2>1. ASSUME NEW s \in SUBSET Wallets
        PROVE  G[s] = ReceivedUpTo(G, s, ixs)
    <3>1. CASE s = {}
      BY <1>7, <3>1 DEF FoldStep, ReceivedUpTo
    <3>2. CASE s # {}
      <4>1. ch[s] \in Wallets /\ s \ {ch[s]} \in SUBSET Wallets
        BY <1>5, <3>2
      <4>2. G[s] = h[<<ch[s], G[s \ {ch[s]}]>>]
        BY <1>7, <3>2 DEF FoldStep
      <4>3. G[s \ {ch[s]}] \in Nat
        BY <4>1
      <4>4. G[s] = Received(ixs, ch[s]) + G[s \ {ch[s]}]
        BY <1>3, <4>1, <4>2, <4>3
      <4> QED BY <1>4, <3>2, <4>4, Zenon DEF ReceivedUpTo
    <3> QED BY <3>1, <3>2
  <2> QED BY <2>1 DEF FoldOfReceived
<1>9. PICK F : FoldOfReceived(F, ixs) /\ total = F[Wallets]
  BY <1>1, <1>8
<1>10. \A s \in SUBSET Wallets : F[s] = ReceivedUpTo(F, s, ixs)
  BY <1>9 DEF FoldOfReceived
<1> QED BY <1>9, <1>10 DEF total

LEMMA ReceivedByAllIs ==
  ASSUME NEW n \in Nat, NEW c, NEW ixs, DOMAIN Expected(c) = 1..n,
         \A k \in 1..n : Expected(c)[k].owner \in Wallets /\ Expected(c)[k].amount \in Nat,
         \A w \in Wallets : Received(ixs, w) = SumTo(Shares(c, w), n)
  PROVE  ReceivedByAll(ixs) = SumTo([k \in 1..n |-> Expected(c)[k].amount], n)
<1> DEFINE all == [k \in 1..n |-> Expected(c)[k].amount]
<1>1. ASSUME NEW s \in SUBSET Wallets
      PROVE  /\ Numbers(SharesOf(s, c), n)
             /\ \A k \in 1..n : SharesOf(s, c)[k] = IF Expected(c)[k].owner \in s
                                                    THEN all[k] ELSE 0
  BY DEF Numbers, SharesOf
<1>2. ASSUME NEW w \in Wallets
      PROVE  /\ Numbers(Shares(c, w), n)
             /\ \A k \in 1..n : Shares(c, w)[k] = IF Expected(c)[k].owner = w
                                                  THEN all[k] ELSE 0
  BY DEF Numbers, Shares, Share
<1>3. Numbers(all, n) /\ \A k \in 1..n : all[k] \in Nat
  BY DEF Numbers
<1>4. \A w \in Wallets : Received(ixs, w) \in Nat
  BY <1>2, SumStep
<1>5. PICK F : /\ \A s \in SUBSET Wallets : F[s] = ReceivedUpTo(F, s, ixs)
               /\ ReceivedByAll(ixs) = F[Wallets]
  BY <1>4, ReceivedFold
<1> HIDE DEF all
<1> DEFINE U == {i \in Nat : \A s \in SUBSET Wallets :
                   Cardinality(s) <= i => F[s] = SumTo(SharesOf(s, c), n)}
<1>6. ASSUME NEW s \in SUBSET Wallets
      PROVE  IsFiniteSet(s) /\ Cardinality(s) \in Nat /\ (Cardinality(s) = 0 <=> s = {})
  BY FS_Subset, FS_CardinalityType, FS_EmptySet, TransactionAssumption
<1>7. ASSUME NEW s \in SUBSET Wallets, s = {}
      PROVE  F[s] = SumTo(SharesOf(s, c), n)
  <2> DEFINE e == SharesOf(s, c)
             Z == {i \in Nat : SumTo(e, i) = 0}
  <2>1. Numbers(e, n) /\ \A k \in 1..n : e[k] = 0
    BY <1>1, <1>7
  <2> HIDE DEF e
  <2>2. 0 \in Z /\ \A i \in 1..n : i - 1 \in Z => i \in Z
    BY <2>1, SumStep
  <2> HIDE DEF Z
  <2>3. n \in Z
    <3>1. \A k \in 0..n : k \in Z
      BY <2>2, PrefixSets, Zenon
    <3> QED BY <3>1
  <2>4. F[s] = 0
    BY <1>5, <1>7 DEF ReceivedUpTo
  <2> QED BY <2>3, <2>4 DEF Z, e
<1>8. ASSUME NEW s \in SUBSET Wallets, s # {}, NEW x, x = CHOOSE y \in s : TRUE,
             F[s \ {x}] = SumTo(SharesOf(s \ {x}, c), n)
      PROVE  F[s] = SumTo(SharesOf(s, c), n)
  <2>1. x \in s /\ x \in Wallets /\ s \ {x} \in SUBSET Wallets
    BY <1>8
  <2> DEFINE whole == SharesOf(s, c)
             rest == SharesOf(s \ {x}, c)
             one == Shares(c, x)
  <2>2. Numbers(whole, n) /\ Numbers(rest, n) /\ Numbers(one, n)
    BY <1>1, <1>2, <2>1
  <2>3. ASSUME NEW k \in 1..n
        PROVE  whole[k] = one[k] + rest[k]
    <3>1. /\ whole[k] = IF Expected(c)[k].owner \in s THEN all[k] ELSE 0
          /\ rest[k] = IF Expected(c)[k].owner \in s \ {x} THEN all[k] ELSE 0
          /\ one[k] = IF Expected(c)[k].owner = x THEN all[k] ELSE 0
      BY <1>1, <1>2, <2>1
    <3>2. all[k] \in Nat
      BY <1>3
    <3> HIDE DEF whole, rest, one
    <3> QED BY <2>1, <3>1, <3>2
  <2> HIDE DEF whole, rest, one
  <2>4. SumTo(whole, n) = SumTo(one, n) + SumTo(rest, n)
    BY <2>2, <2>3, SumPlus
  <2>5. F[s] = Received(ixs, x) + F[s \ {x}]
    BY <1>5, <1>8 DEF ReceivedUpTo
  <2>6. Received(ixs, x) = SumTo(one, n) /\ F[s \ {x}] = SumTo(rest, n)
    BY <1>8, <2>1 DEF one, rest
  <2> QED BY <2>4, <2>5, <2>6 DEF whole
<1>9. 0 \in U
  BY <1>6, <1>7
<1>10. ASSUME NEW i \in Nat, i \in U
       PROVE  i + 1 \in U
  <2> SUFFICES ASSUME NEW s \in SUBSET Wallets, Cardinality(s) <= i + 1, s # {}
               PROVE  F[s] = SumTo(SharesOf(s, c), n)
    BY <1>7
  <2>1. PICK x \in s : x = CHOOSE y \in s : TRUE
    OBVIOUS
  <2>2. s \ {x} \in SUBSET Wallets /\ Cardinality(s \ {x}) = Cardinality(s) - 1
    BY <1>6, FS_RemoveElement
  <2>3. F[s \ {x}] = SumTo(SharesOf(s \ {x}, c), n)
    BY <1>6, <1>10, <2>2
  <2> QED BY <1>8, <2>1, <2>3
<1> HIDE DEF U
<1>11. \A i \in Nat : i \in U
  BY <1>9, <1>10, NatSets
<1>12. F[Wallets] = SumTo(SharesOf(Wallets, c), n)
  <2>1. Cardinality(Wallets) \in Nat /\ Wallets \in SUBSET Wallets
    BY <1>6
  <2> QED BY <1>11, <2>1 DEF U
<1>13. \A k \in 1..n : SharesOf(Wallets, c)[k] = all[k]
  BY <1>1
<1>14. SumTo(SharesOf(Wallets, c), n) = SumTo(all, n)
  BY <1>3, <1>13, SumSame
<1> QED BY <1>5, <1>12, <1>14 DEF all

-----------------------------------------------------------------------------
(* What the server cosigns. *)

\* Recipients and amounts of a charge the server takes; they add up to its amount.
LEMMA DemandsAddUp ==
  ASSUME NEW c, IsChargeRequest(c), WellFormed(c), NEW n, n = Len(c.splits) + 1
  PROVE  /\ n \in Nat /\ DOMAIN Expected(c) = 1..n
         /\ \A k \in 1..n : Expected(c)[k].owner \in Wallets /\ Expected(c)[k].amount \in Nat
         /\ SumTo([k \in 1..n |-> Expected(c)[k].amount], n) % U64 = c.amount
<1> DEFINE m == Len(c.splits)
           f == Amounts(c)
           g == [k \in 1..n |-> Expected(c)[k].amount]
           x == PrimaryAmount(c)
<1>1. c.splits \in Seq(Range(c.splits))
  BY DEF IsChargeRequest
<1>2. m \in Nat /\ DOMAIN c.splits = 1..m
  BY <1>1
<1>3. /\ DOMAIN Expected(c) = 1..(m + 1)
      /\ Expected(c)[1] = [owner |-> c.recipient, amount |-> PrimaryAmount(c)]
      /\ \A k \in 1..m : Expected(c)[k + 1] = [owner |-> c.splits[k].recipient,
                                               amount |-> c.splits[k].amount]
  BY <1>1, ExpectedShape
<1>4. n = m + 1 /\ n \in Nat
  BY <1>2
<1>u. U64 \in Nat \ {0}
  BY TransactionAssumption
<1>e. /\ Expected(c)[1].amount = x
      /\ \A k \in 1..m : k + 1 \in 1..n /\ Expected(c)[k + 1].amount = c.splits[k].amount
  <2>1. ASSUME NEW k \in 1..m
        PROVE  k + 1 \in 1..n /\ Expected(c)[k + 1].amount = c.splits[k].amount
    <3>1. Expected(c)[k + 1] = [owner |-> c.splits[k].recipient, amount |-> c.splits[k].amount]
      BY <1>3
    <3>2. k + 1 \in 1..n
      BY <1>2, <1>4
    <3> QED BY <3>1, <3>2
  <2> HIDE DEF x, m
  <2>2. Expected(c)[1].amount = x
    BY <1>3 DEF x
  <2> QED BY <2>1, <2>2
<1> HIDE DEF m
<1>5. \A k \in 1..n : Expected(c)[k].owner \in Wallets /\ Expected(c)[k].amount # None
  BY <1>3, <1>4 DEF WellFormed
<1>6. ASSUME NEW k \in 1..m
      PROVE  c.splits[k].amount # None /\ c.splits[k].amount \in 0..(U64 - 1)
  <2>1. k + 1 \in 1..n /\ Expected(c)[k + 1].amount = c.splits[k].amount
    BY <1>e
  <2>2. c.splits[k].amount # None
    BY <1>5, <2>1
  <2> QED BY <1>2, <2>2 DEF IsChargeRequest
<1>7. Numbers(f, m) /\ \A k \in 1..m : f[k] = c.splits[k].amount
  BY <1>2, <1>6, <1>u DEF Numbers, Amounts
<1>8. SplitsTotal(c) = SumTo(f, m) % U64
  <2>1. \A k \in 1..m : c.splits[k].amount # None
    BY <1>6
  <2> QED BY <1>2, <1>7, <2>1, SplitsTotalIs
<1>9. SumTo(f, m) \in Nat
  BY <1>2, <1>7, SumStep
<1>10. /\ c.amount # None /\ c.amount > SplitsTotal(c)
       /\ PrimaryAmount(c) = c.amount - SplitsTotal(c)
  BY DEF WellFormed, PrimaryAmount
<1>11. c.amount \in 0..(U64 - 1)
  BY <1>10 DEF IsChargeRequest
<1> HIDE DEF f
<1>12. x \in Nat /\ (x + SumTo(f, m)) % U64 = c.amount
  <2> DEFINE s == SumTo(f, m)
             a == c.amount
  <2>1. s \in Nat /\ a \in 0..(U64 - 1) /\ a > (s % U64) /\ x = a - (s % U64)
    BY <1>8, <1>9, <1>10, <1>11
  <2> HIDE DEF s, a, x
  <2>2. a - (s % U64) \in Nat /\ ((a - (s % U64)) + s) % U64 = a
    BY <1>u, <2>1, ModBack
  <2>3. x \in Nat /\ (x + s) % U64 = a
    BY <2>1, <2>2
  <2> QED BY <2>3 DEF s, a
<1>13. g[1] = x /\ \A k \in 1..m : g[k + 1] = f[k]
  <2>1. 1 \in 1..n /\ g[1] = Expected(c)[1].amount
    BY <1>2, <1>4
  <2>2. ASSUME NEW k \in 1..m
        PROVE  g[k + 1] = f[k]
    <3>1. k + 1 \in 1..n
      BY <1>2, <1>4
    <3>2. g[k + 1] = Expected(c)[k + 1].amount
      BY <3>1
    <3> QED BY <1>7, <1>e, <3>2
  <2> QED BY <1>e, <2>1, <2>2
<1>14. \A k \in 1..n : Expected(c)[k].amount \in Nat
  <2> SUFFICES ASSUME NEW k \in 1..n PROVE Expected(c)[k].amount \in Nat
    OBVIOUS
  <2>1. CASE k = 1
    BY <1>e, <1>12, <2>1
  <2>2. CASE k # 1
    <3>1. k - 1 \in 1..m /\ (k - 1) + 1 = k
      BY <1>2, <1>4, <2>2
    <3>2. Expected(c)[k].amount = c.splits[k - 1].amount
      BY <1>e, <3>1
    <3> QED BY <1>6, <1>u, <3>1, <3>2
  <2> QED BY <2>1, <2>2
<1> HIDE DEF g, x
<1>15. SumTo(g, m + 1) = x + SumTo(f, m)
  BY <1>2, <1>7, <1>12, <1>13, SumFront
<1>16. SumTo(g, n) % U64 = c.amount
  BY <1>4, <1>12, <1>15
<1> QED BY <1>3, <1>4, <1>5, <1>14, <1>16 DEF g

\* The instructions the server's verifier takes for a demand, and those it refuses.
PullHits(c, ixs) ==
  [d \in Range(Expected(c)) |-> {i \in DOMAIN ixs : PullTransfer(c, ixs[i], d)}]

PullFatals(c, ixs, feePayer) ==
  [d \in Range(Expected(c)) |-> {i \in DOMAIN ixs : PullFatal(c, ixs[i], d, feePayer)}]

FeePayerOf(c) == IF c.fee_payer THEN c.fee_payer_key ELSE None

\* What a taken instruction pays: its demand's share, and not from the sponsor.
LEMMA HitPays ==
  ASSUME NEW c, NEW ix, NEW d, NEW feePayer, PullTransfer(c, ix, d),
         ~PullFatal(c, ix, d, feePayer),
         ~Native(c) => PullPrograms(c) \subseteq TokenPrograms
  PROVE  /\ \A w : Gain(ix, w) = Share(d, w)
         /\ feePayer # None => feePayer \notin Signs(ix)
<1>p. "system" \notin TokenPrograms /\ "ata" \notin TokenPrograms
  BY TransactionAssumption
<1>1. CASE Native(c)
  <2>1. ix.program = "system" /\ ix.dest = d.owner /\ ix.amount = d.amount
    BY <1>1 DEF PullTransfer, IsSolTransfer
  <2>2. \A w : Gain(ix, w) = Share(d, w)
    BY <2>1 DEF Gain, Goes, Share
  <2>3. Signs(ix) = {ix.source}
    BY <1>p, <2>1 DEF Signs
  <2>4. feePayer # None => ix.source # feePayer
    BY <1>1 DEF PullTransfer, PullFatal, FundedByFeePayer
  <2> QED BY <2>2, <2>3, <2>4
<1>2. CASE ~Native(c)
  <2>1. ix.program \in TokenPrograms /\ ix.amount = d.amount
    BY <1>2 DEF PullTransfer, IsTokenTransfer
  <2>2. ix.dest.owner = d.owner /\ ix.program # "system"
    BY <1>2, <1>p, <2>1 DEF PullTransfer, Ata
  <2>3. \A w : Gain(ix, w) = Share(d, w)
    BY <2>1, <2>2 DEF Gain, Goes, Share
  <2>4. Signs(ix) = {ix.authority}
    BY <1>p, <2>1 DEF Signs
  <2>5. feePayer # None => ix.authority # feePayer
    BY <1>2 DEF PullTransfer, PullFatal, FundedByFeePayer
  <2> QED BY <2>3, <2>4, <2>5
<1> QED BY <1>1, <1>2

\* Every demand took an instruction of its own, and what no demand took is a
\* compute-budget call, an account creation or a memo.
LEMMA AcceptedTakes ==
  ASSUME NEW c, IsChargeRequest(c), NEW t, IsTransaction(t), VerifyPreBroadcast(c, t),
         NEW n, n = Len(c.splits) + 1, NEW m, m = Len(t.instructions)
  PROVE  \E T : /\ T[0] = {}
                /\ \A k \in 1..n : Took(T, k, Expected(c), PullHits(c, t.instructions),
                                        PullFatals(c, t.instructions, FeePayerOf(c)))
                /\ \A i \in 1..m : i \in T[n]
                                   \/ t.instructions[i].program \in {"compute", "ata", "memo"}
<1> DEFINE feePayer == FeePayerOf(c)
           ixs == t.instructions
           E == Expected(c)
           hits == PullHits(c, ixs)
           fatals == PullFatals(c, ixs, feePayer)
           transfers == MatchInOrder(E, hits, fatals, Untaken)
           matched == MatchMemos(ixs, c, transfers)
<1>1. matched.ok /\ PullAllowlist(c, t, feePayer, matched.taken) /\ WellFormed(c)
  BY Zenon DEF VerifyPreBroadcast, PullHits, PullFatals, FeePayerOf
<1>2. m \in Nat /\ DOMAIN ixs = 1..m
  BY DEF IsTransaction
<1>3. c.splits \in Seq(Range(c.splits))
  BY DEF IsChargeRequest
<1>4. n \in Nat /\ DOMAIN E = 1..n
  BY <1>1, DemandsAddUp
<1>5. Indexed(E, hits, fatals, n)
  <2>1. ASSUME NEW k \in 1..n
        PROVE  hits[E[k]] \in SUBSET Nat /\ fatals[E[k]] \in SUBSET Nat
    <3>1. E[k] \in Range(E)
      BY <1>4 DEF Range
    <3>2. hits[E[k]] \subseteq DOMAIN ixs /\ fatals[E[k]] \subseteq DOMAIN ixs
      BY <3>1 DEF PullHits, PullFatals
    <3> QED BY <1>2, <3>2
  <2> QED BY <2>1 DEF Indexed
<1>6. Untaken \in Matching /\ Untaken.taken = {}
  BY DEF Untaken, Matching
<1> HIDE DEF hits, fatals, feePayer, E
<1>7. transfers \in Matching
  <2>1. PICK P : P[n] = transfers /\ \A k \in 0..n : P[k] \in Matching
    BY <1>4, <1>5, <1>6, MatchSteps
  <2> HIDE DEF transfers
  <2> QED BY <1>4, <2>1
<1>8. /\ transfers.ok
      /\ \A i \in matched.taken : i \in transfers.taken \/ (i \in 1..m /\ ixs[i].program = "memo")
  <2> HIDE DEF transfers
  <2> QED BY <1>1, <1>2, <1>3, <1>7, MemosTaken
<1>9. PICK T : /\ T[0] = {} /\ T[n] = transfers.taken
               /\ \A k \in 1..n : Took(T, k, E, hits, fatals)
  BY <1>4, <1>5, <1>6, <1>8, MatchSucceeds
<1>10. ASSUME NEW i \in 1..m
       PROVE  i \in T[n] \/ ixs[i].program \in {"compute", "ata", "memo"}
  <2>1. i \in Calls(ixs, "compute") \/ i \in Calls(ixs, "ata") \/ i \in matched.taken
    BY <1>1, <1>2 DEF PullAllowlist, Allowlist
  <2> HIDE DEF matched, transfers
  <2> QED BY <1>8, <1>9, <2>1 DEF Calls
<1> HIDE DEF transfers, matched
<1> QED BY <1>9, <1>10 DEF E, hits, fatals, feePayer

LEMMA AcceptedPays ==
  ASSUME NEW c, IsChargeRequest(c), NEW t, IsTransaction(t), VerifyPreBroadcast(c, t)
  PROVE  /\ ReceivedByAll(t.instructions) % U64 = c.amount
         /\ \A w \in Wallets : Received(t.instructions, w) = Owed(c, w)
         /\ FeePayerOf(c) # None =>
              \A i \in DOMAIN t.instructions :
                t.instructions[i].program # "ata"
                  => FeePayerOf(c) \notin Signs(t.instructions[i])
<1> DEFINE feePayer == FeePayerOf(c)
           ixs == t.instructions
           E == Expected(c)
           hits == PullHits(c, ixs)
           fatals == PullFatals(c, ixs, feePayer)
           n == Len(c.splits) + 1
           m == Len(ixs)
<1>1. WellFormed(c) /\ (~Native(c) => PullPrograms(c) \subseteq TokenPrograms)
  BY DEF VerifyPreBroadcast
<1>2. m \in Nat /\ DOMAIN ixs = 1..m
  BY DEF IsTransaction
<1>3. /\ n \in Nat /\ DOMAIN E = 1..n
      /\ \A k \in 1..n : E[k].owner \in Wallets /\ E[k].amount \in Nat
      /\ SumTo([k \in 1..n |-> E[k].amount], n) % U64 = c.amount
  BY <1>1, DemandsAddUp
<1>4. PICK T : /\ T[0] = {}
               /\ \A k \in 1..n : Took(T, k, E, hits, fatals)
               /\ \A i \in 1..m : i \in T[n] \/ ixs[i].program \in {"compute", "ata", "memo"}
  BY AcceptedTakes
<1>5. ASSUME NEW k \in 1..n, NEW j \in hits[E[k]] \ fatals[E[k]]
      PROVE  /\ j \in 1..m
             /\ PullTransfer(c, ixs[j], E[k]) /\ ~PullFatal(c, ixs[j], E[k], feePayer)
  <2>1. E[k] \in Range(E)
    BY <1>3 DEF Range
  <2>2. /\ hits[E[k]] = {i \in DOMAIN ixs : PullTransfer(c, ixs[i], E[k])}
        /\ fatals[E[k]] = {i \in DOMAIN ixs : PullFatal(c, ixs[i], E[k], feePayer)}
    BY <2>1 DEF PullHits, PullFatals
  <2> HIDE DEF hits, fatals, E, feePayer
  <2> QED BY <1>2, <2>2
<1> HIDE DEF hits, fatals, E, feePayer, n, m
<1>6. ASSUME NEW k \in 1..n, NEW j \in hits[E[k]] \ fatals[E[k]]
      PROVE  /\ j \in 1..m /\ \A w : Gain(ixs[j], w) = Share(E[k], w)
             /\ feePayer # None => feePayer \notin Signs(ixs[j])
  BY <1>1, <1>5, HitPays
<1>7. ASSUME NEW w \in Wallets
      PROVE  Received(ixs, w) = SumTo(Shares(c, w), n) /\ Owed(c, w) = SumTo(Shares(c, w), n)
  <2> DEFINE f == Shares(c, w)
             g == Gains(ixs, w)
             masked == Masked(g, T[n], m)
  <2>1. \A k \in 1..n : f[k] = Share(E[k], w)
    BY <1>3 DEF Shares, E
  <2>2. Numbers(f, n)
    <3> HIDE DEF f
    <3> QED BY <1>3, <2>1 DEF Numbers, Share
  <2>3. \A i \in 1..m : g[i] = Gain(ixs[i], w)
    BY <1>2 DEF Gains
  <2> HIDE DEF f, g
  <2>4. \A k \in 1..n : \A j \in hits[E[k]] \ fatals[E[k]] : j \in 1..m /\ g[j] = f[k]
    BY <1>6, <2>1, <2>3
  <2>5. Numbers(masked, m) /\ SumTo(masked, m) = SumTo(f, n)
    <3>1. n \in Nat /\ m \in Nat
      BY <1>2, <1>3
    <3>2. T[0] = {}
      BY <1>4
    <3>3. \A k \in 1..n : Took(T, k, E, hits, fatals)
      BY <1>4
    <3> HIDE DEF masked
    <3>b. Brings(g, f, E, hits, fatals, n, m)
      BY <2>4 DEF Brings
    <3>4. Numbers(Masked(g, T[n], m), m) /\ SumTo(Masked(g, T[n], m), m) = SumTo(f, n)
      BY <2>2, <3>b, <3>1, <3>2, <3>3, TakenSum
    <3> QED BY <3>4 DEF masked
  <2>6. \A i \in 1..m : g[i] = masked[i]
    <3> SUFFICES ASSUME NEW i \in 1..m, i \notin T[n] PROVE g[i] = 0
      BY DEF Masked
    <3>1. ixs[i].program \in {"compute", "ata", "memo"}
      BY <1>4
    <3>2. ixs[i].program \notin TokenPrograms /\ ixs[i].program # "system"
      BY <3>1, TransactionAssumption
    <3> QED BY <2>3, <3>2 DEF Gain, Goes
  <2> HIDE DEF masked
  <2>7. Numbers(g, m)
    BY <2>5, <2>6 DEF Numbers
  <2>8. SumTo(g, m) = SumTo(masked, m)
    BY <1>2, <2>5, <2>6, SumSame
  <2>9. Received(ixs, w) = SumTo(g, m)
    BY <1>2, <2>7, ReceivedIsSum DEF g
  <2>10. Owed(c, w) = SumTo(f, n)
    BY <1>3, <2>2, OwedIsSum DEF E, f
  <2> QED BY <2>5, <2>8, <2>9, <2>10 DEF f
<1>8. ReceivedByAll(ixs) = SumTo([k \in 1..n |-> E[k].amount], n)
  BY <1>3, <1>7, ReceivedByAllIs DEF E
<1>9. ASSUME feePayer # None, NEW i \in DOMAIN ixs, ixs[i].program # "ata"
      PROVE  feePayer \notin Signs(ixs[i])
  <2>1. CASE i \in T[n]
    <3>1. PICK k \in 1..n : i \in hits[E[k]] \ fatals[E[k]]
      BY <1>3, <1>4, <2>1, TakenAreHits
    <3> QED BY <1>6, <1>9, <3>1
  <2>2. CASE i \notin T[n]
    <3>1. ixs[i].program \in {"compute", "memo"}
      BY <1>2, <1>4, <1>9, <2>2
    <3>2. ixs[i].program \notin TokenPrograms /\ ixs[i].program # "system"
      BY <3>1, TransactionAssumption
    <3>3. Signs(ixs[i]) = {}
      BY <1>9, <3>2 DEF Signs
    <3> QED BY <3>3
  <2> QED BY <2>1, <2>2
<1>10. \A w \in Wallets : Received(ixs, w) = Owed(c, w)
  BY <1>7
<1>11. ReceivedByAll(ixs) % U64 = c.amount
  BY <1>3, <1>8
<1> QED BY <1>9, <1>10, <1>11 DEF feePayer

\* However its instructions were shuffled, repeated, dropped or replaced, a
\* transaction verify_versioned_transaction_pre_broadcast passes pays every wallet
\* what the charge owes it and adds up to the charge's amount, and the sponsor
\* authorises none of its transfers: for every charge, transaction and width.
THEOREM AcceptedPaysWhatIsOwedHolds == Spec => []AcceptedPaysWhatIsOwed
<1>1. Init => ChoiceInv /\ TransactionInv
  BY DEF Init, ChoiceInv, TransactionInv
<1>2. ChoiceInv /\ TransactionInv /\ [Next]_vars => (ChoiceInv /\ TransactionInv)'
  BY ChoiceStep, TransactionStep
<1>3. ChoiceInv /\ TransactionInv => AcceptedPaysWhatIsOwed
  <2> SUFFICES ASSUME ChoiceInv, TransactionInv, tx # None, VerifyPreBroadcast(charge, tx)
               PROVE  /\ ReceivedByAll(tx.instructions) % U64 = charge.amount
                      /\ \A w \in Wallets :
                           /\ Received(tx.instructions, w) = Owed(charge, w)
                           /\ charge.fee_payer /\ w = charge.fee_payer_key =>
                                \A i \in DOMAIN tx.instructions :
                                  tx.instructions[i].program # "ata"
                                    => w \notin Signs(tx.instructions[i])
    BY Zenon DEF AcceptedPaysWhatIsOwed, ReceivedByAll
  <2>1. IsChargeRequest(charge) /\ IsTransaction(tx)
    BY ChosenIsRequest DEF TransactionInv
  <2>2. /\ ReceivedByAll(tx.instructions) % U64 = charge.amount
        /\ \A w \in Wallets : Received(tx.instructions, w) = Owed(charge, w)
        /\ FeePayerOf(charge) # None =>
             \A i \in DOMAIN tx.instructions :
               tx.instructions[i].program # "ata"
                 => FeePayerOf(charge) \notin Signs(tx.instructions[i])
    BY <2>1, AcceptedPays
  <2>3. ASSUME NEW w \in Wallets, charge.fee_payer /\ w = charge.fee_payer_key
        PROVE  FeePayerOf(charge) = w /\ w # None
    BY <2>3, TransactionAssumption DEF FeePayerOf
  <2> QED BY <2>2, <2>3
<1> QED BY <1>1, <1>2, <1>3, PTL DEF Spec

-----------------------------------------------------------------------------
(* Push mode takes what pull mode took. *)

\* The same hits and nothing fatal: the same instruction is taken.
LEMMA MatchAgrees ==
  ASSUME NEW m \in Matching, NEW d, NEW hits, NEW fatal, NEW hits2, NEW fatal2,
         hits[d] \in SUBSET Nat, fatal[d] \in SUBSET Nat,
         hits2[d] = hits[d], fatal2[d] = {}, Match(m, d, hits, fatal).ok
  PROVE  Match(m, d, hits2, fatal2) = Match(m, d, hits, fatal)
<1> DEFINE seen == (hits[d] \cup fatal[d]) \ m.taken
           seen2 == (hits2[d] \cup fatal2[d]) \ m.taken
<1>1. seen \in SUBSET Nat /\ seen2 \in SUBSET Nat /\ seen2 \subseteq seen
  OBVIOUS
<1>2. Match(m, d, hits, fatal) =
        IF m.ok /\ seen # {} /\ Min(seen) \notin fatal[d]
        THEN [ok |-> TRUE, taken |-> m.taken \cup {Min(seen)}]
        ELSE [ok |-> FALSE, taken |-> m.taken]
  BY DEF Match
<1>3. Match(m, d, hits2, fatal2) =
        IF m.ok /\ seen2 # {} /\ Min(seen2) \notin fatal2[d]
        THEN [ok |-> TRUE, taken |-> m.taken \cup {Min(seen2)}]
        ELSE [ok |-> FALSE, taken |-> m.taken]
  BY DEF Match
<1>4. \A j \in seen : j \notin fatal[d] => j \in seen2
  OBVIOUS
<1> HIDE DEF seen, seen2
<1>5. m.ok /\ seen # {} /\ Min(seen) \notin fatal[d]
  BY <1>2
<1>6. Min(seen) \in seen /\ \A j \in seen : Min(seen) <= j
  BY <1>1, <1>5, MinIn
<1>7. Min(seen) \in seen2
  BY <1>4, <1>5, <1>6
<1>8. Min(seen2) \in seen2 /\ \A j \in seen2 : Min(seen2) <= j
  BY <1>1, <1>7, MinIn
<1>9. Min(seen2) <= Min(seen) /\ Min(seen) <= Min(seen2)
  BY <1>1, <1>6, <1>7, <1>8
<1>10. Min(seen) \in Nat /\ Min(seen2) \in Nat
  BY <1>1, <1>6, <1>8
<1>11. Min(seen2) = Min(seen)
  BY <1>9, <1>10
<1> QED BY <1>2, <1>3, <1>5, <1>7, <1>11

LEMMA MatchesAgree ==
  ASSUME NEW n \in Nat, NEW demands, DOMAIN demands = 1..n,
         NEW hits, NEW fatal, Indexed(demands, hits, fatal, n),
         NEW hits2, NEW fatal2, Indexed(demands, hits2, fatal2, n),
         \A k \in 1..n : hits2[demands[k]] = hits[demands[k]] /\ fatal2[demands[k]] = {},
         NEW start \in Matching, MatchInOrder(demands, hits, fatal, start).ok
  PROVE  MatchInOrder(demands, hits2, fatal2, start) = MatchInOrder(demands, hits, fatal, start)
<1> DEFINE result == MatchInOrder(demands, hits, fatal, start)
           result2 == MatchInOrder(demands, hits2, fatal2, start)
<1>1. PICK P : /\ P[0] = start /\ P[n] = result
               /\ \A k \in 1..n : P[k] = Match(P[k - 1], demands[k], hits, fatal)
               /\ \A k \in 0..n : P[k] \in Matching
  BY MatchSteps
<1>2. PICK Q : /\ Q[0] = start /\ Q[n] = result2
               /\ \A k \in 1..n : Q[k] = Match(Q[k - 1], demands[k], hits2, fatal2)
               /\ \A k \in 0..n : Q[k] \in Matching
  BY MatchSteps
<1>3. result.ok
  OBVIOUS
<1> HIDE DEF result, result2
<1>4. ASSUME NEW k \in 1..n, P[k].ok
      PROVE  P[k - 1].ok
  <2> DEFINE m == P[k - 1]
             d == demands[k]
  <2>1. m \in Matching /\ Match(m, d, hits, fatal).ok
    BY <1>1, <1>4
  <2>2. hits[d] \in SUBSET Nat /\ fatal[d] \in SUBSET Nat
    BY DEF Indexed
  <2> HIDE DEF m, d
  <2>3. m.ok
    BY <2>1, <2>2, MatchedTakesOne
  <2> QED BY <2>3 DEF m
<1>5. \A k \in 0..n : P[k].ok
  BY <1>1, <1>3, <1>4, OkThroughout
<1> DEFINE T == {k \in Nat : Q[k] = P[k]}
<1>6. 0 \in T
  BY <1>1, <1>2
<1>7. ASSUME NEW k \in 1..n, k - 1 \in T
      PROVE  k \in T
  <2> DEFINE m == P[k - 1]
             d == demands[k]
  <2>1. /\ m \in Matching /\ Q[k - 1] = m
        /\ P[k] = Match(m, d, hits, fatal) /\ Q[k] = Match(Q[k - 1], d, hits2, fatal2)
    BY <1>1, <1>2, <1>7
  <2>2. P[k].ok
    BY <1>5
  <2>3. /\ hits[d] \in SUBSET Nat /\ fatal[d] \in SUBSET Nat
        /\ hits2[d] = hits[d] /\ fatal2[d] = {}
    BY DEF Indexed
  <2> HIDE DEF m, d
  <2>4. Match(m, d, hits, fatal).ok
    BY <2>1, <2>2
  <2>5. Match(m, d, hits2, fatal2) = Match(m, d, hits, fatal)
    BY <2>1, <2>3, <2>4, MatchAgrees
  <2>6. Q[k] = P[k]
    BY <2>1, <2>5
  <2> QED BY <2>6
<1> HIDE DEF T
<1>8. n \in T
  <2>1. \A k \in 1..n : k - 1 \in T => k \in T
    BY <1>7
  <2>2. \A k \in 0..n : k \in T
    BY <1>6, <2>1, PrefixSets, Zenon
  <2> QED BY <2>2
<1> QED BY <1>1, <1>2, <1>8 DEF T, result, result2

\* What landing calls besides the instructions of the transaction.
Opens(ix) == ix.program = "ata" /\ ix.ata \notin accounts

Opening(ix) == <<[program |-> "system", op |-> "createAccount"],
                 [program |-> ix.token_program, op |-> "initializeAccount3"]>>

InnerUpTo(F, s, ixs) ==
  IF s = {} THEN <<>>
  ELSE IF Opens(ixs[Max(s)]) THEN F[s \ {Max(s)}] \o Opening(ixs[Max(s)])
       ELSE F[s \ {Max(s)}]

FoldOfInner(F, ixs, n) == F = [s \in SUBSET (1..n) |-> InnerUpTo(F, s, ixs)]

LEMMA InnerIsSeq ==
  ASSUME NEW n \in Nat, NEW ixs, DOMAIN ixs = 1..n
  PROVE  InnerOf(ixs) \in Seq(Range(InnerOf(ixs)))
<1> DEFINE inner == InnerOf(ixs)
           piece == [k \in 1..n |-> Opening(ixs[k])]
           S == UNION {Range(piece[k]) : k \in 1..n}
           V == Seq(S)
<1>1. inner = (CHOOSE F : FoldOfInner(F, ixs, n))[1..n]
  BY Zenon DEF InnerOf, FoldLeft, MapThenFoldSet, FoldOfInner, InnerUpTo, Opens, Opening
<1>2. \A k \in 1..n : piece[k] = Opening(ixs[k])
  OBVIOUS
<1>3. \A k \in 1..n : Opening(ixs[k]) \in V
  <2> SUFFICES ASSUME NEW k \in 1..n PROVE Opening(ixs[k]) \in V
    OBVIOUS
  <2> DEFINE o == Opening(ixs[k])
  <2>1. o \in Seq(Range(o))
    BY DEF Opening, Range
  <2>2. Range(o) \subseteq S
    BY <1>2
  <2> HIDE DEF o, S
  <2>3. o \in Seq(S)
    BY <2>1, <2>2, SeqWider
  <2> QED BY <2>3 DEF o
<1> HIDE DEF inner, piece, S
<1> DEFINE h == [x \in (1..n) \X V |->
                   IF Opens(ixs[x[1]]) THEN x[2] \o Opening(ixs[x[1]]) ELSE x[2]]
<1>4. h \in [(1..n) \X V -> V]
  <2> SUFFICES ASSUME NEW k \in 1..n, NEW v \in V PROVE v \o Opening(ixs[k]) \in V
    OBVIOUS
  <2> QED BY <1>3
<1>5. \A k \in 1..n, v \in V :
        h[<<k, v>>] = IF Opens(ixs[k]) THEN v \o Opening(ixs[k]) ELSE v
  OBVIOUS
<1>6. <<>> \in V
  OBVIOUS
<1> HIDE DEF h, V
<1>7. PICK G \in [SUBSET (1..n) -> V] : \A s \in SUBSET (1..n) : PrefixStep(G, s, <<>>, h)
  BY <1>4, <1>6, PrefixFold
<1>8. FoldOfInner(G, ixs, n)
  <2>1. ASSUME NEW s \in SUBSET (1..n)
        PROVE  G[s] = InnerUpTo(G, s, ixs)
    <3>1. CASE s = {}
      BY <1>7, <3>1 DEF PrefixStep, InnerUpTo
    <3>2. CASE s # {}
      <4>1. Max(s) \in 1..n /\ s \ {Max(s)} \in SUBSET (1..n)
        BY <3>2, MaxIn
      <4>2. G[s] = h[<<Max(s), G[s \ {Max(s)}]>>]
        BY <1>7, <3>2 DEF PrefixStep
      <4>3. G[s \ {Max(s)}] \in V
        BY <4>1
      <4>4. G[s] = IF Opens(ixs[Max(s)]) THEN G[s \ {Max(s)}] \o Opening(ixs[Max(s)])
                   ELSE G[s \ {Max(s)}]
        BY <1>5, <4>1, <4>2, <4>3
      <4> QED BY <3>2, <4>4, Zenon DEF InnerUpTo
    <3> QED BY <3>1, <3>2
  <2> QED BY <2>1 DEF FoldOfInner
<1>9. PICK F : FoldOfInner(F, ixs, n) /\ inner = F[1..n]
  BY <1>1, <1>8
<1>10. \A s \in SUBSET (1..n) : F[s] = InnerUpTo(F, s, ixs)
  BY <1>9 DEF FoldOfInner
<1> DEFINE T == {k \in Nat : F[1..k] \in V}
<1>11. 0 \in T
  <2>1. 1..0 = {} /\ {} \in SUBSET (1..n)
    OBVIOUS
  <2>2. F[{}] = <<>>
    BY <1>10, <2>1 DEF InnerUpTo
  <2> QED BY <1>6, <2>1, <2>2
<1>12. ASSUME NEW k \in 1..n, k - 1 \in T
       PROVE  k \in T
  <2>1. /\ 1..k \in SUBSET (1..n) /\ 1..k # {}
        /\ Max(1..k) = k /\ (1..k) \ {Max(1..k)} = 1..(k - 1)
    BY MaxPrefix
  <2>2. F[1..k] = InnerUpTo(F, 1..k, ixs)
    BY <1>10, <2>1
  <2>3. F[1..k] = IF Opens(ixs[k]) THEN F[1..(k - 1)] \o Opening(ixs[k]) ELSE F[1..(k - 1)]
    BY <2>1, <2>2, Zenon DEF InnerUpTo
  <2>4. F[1..(k - 1)] \in V
    BY <1>12
  <2>5. F[1..(k - 1)] \o Opening(ixs[k]) \in V
    BY <1>3, <2>4 DEF V
  <2>6. F[1..k] \in V
    BY <2>3, <2>4, <2>5
  <2> QED BY <2>6
<1> HIDE DEF T
<1>13. n \in T
  <2>1. \A k \in 1..n : k - 1 \in T => k \in T
    BY <1>12
  <2>2. \A k \in 0..n : k \in T
    BY <1>11, <2>1, PrefixSets, Zenon
  <2> QED BY <2>2
<1>14. inner \in Seq(S)
  BY <1>9, <1>13 DEF T, V
<1>15. inner \in Seq(Range(inner))
  BY <1>14, SeqItsRange
<1> QED BY <1>15 DEF inner

\* What the ledger accepted: every mint under its own program, with its decimals.
Ran(ix) ==
  /\ ix.program \in TokenPrograms => ix.program = MintOwner[ix.mint] /\ ix.decimals = 6
  /\ ix.program = "ata" => ix.token_program = MintOwner[ix.mint]

\* A landed transaction is listed as it is unless landing opened an account.
LandedInv ==
  landed # None =>
    /\ tx # None
    /\ landed = tx.instructions \/ Len(landed) > Len(tx.instructions)
    /\ \A i \in DOMAIN tx.instructions : Ran(tx.instructions[i])

LEMMA LandedStep ==
  ASSUME TransactionInv, LandedInv, [Next]_vars
  PROVE  LandedInv'
<1>1. CASE Select
  BY <1>1 DEF Select, LandedInv, Ran
<1>2. CASE Build
  BY <1>2 DEF Build, LandedInv
<1>3. CASE Edit
  BY <1>3 DEF Edit, LandedInv
<1>4. CASE Land
  <2> DEFINE ixs == tx.instructions
             inner == InnerOf(ixs)
  <2>1. tx # None /\ tx' = tx /\ landed' = ixs \o inner
    BY <1>4 DEF Land, ParsedInstructions
  <2>2. ixs \in Seq(Range(ixs)) /\ Len(ixs) \in Nat /\ DOMAIN ixs = 1..Len(ixs)
    BY <2>1 DEF TransactionInv, IsTransaction
  <2>3. inner \in Seq(Range(inner))
    BY <2>2, InnerIsSeq
  <2>4. \A i \in DOMAIN ixs : Ran(ixs[i])
    <3> SUFFICES ASSUME NEW i \in DOMAIN ixs PROVE Ran(ixs[i])
      OBVIOUS
    <3>1. Succeeds(ixs[i], i, ixs)
      BY <1>4 DEF Land
    <3>2. "ata" \notin TokenPrograms
      BY TransactionAssumption
    <3> HIDE DEF ixs
    <3>3. CASE ixs[i].program \in TokenPrograms
      BY <3>1, <3>2, <3>3 DEF Succeeds, Ran
    <3>4. CASE ixs[i].program = "ata"
      BY <3>1, <3>2, <3>4 DEF Succeeds, Ran
    <3>5. CASE ixs[i].program \notin TokenPrograms /\ ixs[i].program # "ata"
      BY <3>5 DEF Ran
    <3> QED BY <3>3, <3>4, <3>5
  <2> HIDE DEF ixs, inner
  <2>5. ixs \o inner = ixs \/ Len(ixs \o inner) > Len(ixs)
    <3> DEFINE S == Range(ixs) \cup Range(inner)
    <3>1. ixs \in Seq(S) /\ inner \in Seq(S)
      BY <2>2, <2>3, SeqWider
    <3> HIDE DEF S
    <3>2. CASE inner = <<>>
      BY <3>1, <3>2
    <3>3. CASE inner # <<>>
      BY <3>1, <3>3
    <3> QED BY <3>2, <3>3
  <2>6. tx'.instructions = ixs
    BY <2>1 DEF ixs
  <2> QED BY <2>1, <2>4, <2>5, <2>6 DEF LandedInv, Ran
<1>5. CASE UNCHANGED vars
  BY <1>5 DEF vars, LandedInv, Ran
<1> QED BY <1>1, <1>2, <1>3, <1>4, <1>5 DEF Next

\* What push mode looks for.
PushHits(c, ixs) ==
  [d \in Range(Expected(c)) |-> {i \in DOMAIN ixs : PushTransfer(c, ixs[i], d)}]

NoFatals(c) == [d \in Range(Expected(c)) |-> {}]

\* On the ledger's terms both modes see the same transfers.
LEMMA SameTransfers ==
  ASSUME NEW c, NEW ix, Ran(ix), NEW d,
         ~Native(c) => /\ MintOf(c) \in Mints
                       /\ PullPrograms(c) \subseteq TokenPrograms
                       /\ MintOwner[MintOf(c)] \in PushPrograms(c)
                       /\ c.decimals \in {None, 6}
  PROVE  PushTransfer(c, ix, d) <=> PullTransfer(c, ix, d)
<1>1. CASE Native(c)
  BY <1>1 DEF PushTransfer, PullTransfer
<1>2. CASE ~Native(c)
  <2> DEFINE owner == MintOwner[MintOf(c)]
  <2>1. PushPrograms(c) = {owner}
    BY <1>2 DEF PushPrograms
  <2>2. owner \in TokenPrograms
    BY <1>2, TransactionAssumption
  <2>3. owner \in PullPrograms(c)
    BY <2>1, <2>2 DEF PullPrograms, PushPrograms
  <2>4. ASSUME ix.program \in TokenPrograms, ix.mint = MintOf(c)
        PROVE  ix.program = owner /\ ix.decimals = 6
    BY <2>4 DEF Ran
  <2> HIDE DEF owner
  <2>5. ASSUME PullTransfer(c, ix, d)
        PROVE  PushTransfer(c, ix, d)
    <3>1. /\ ix.program \in PullPrograms(c) /\ ix.op = "transferChecked"
          /\ ix.amount = d.amount /\ ix.mint = MintOf(c)
          /\ ix.dest = Ata(d.owner, ix.program, MintOf(c))
      BY <1>2, <2>5 DEF PullTransfer, IsTokenTransfer
    <3>2. ix.program = owner
      BY <1>2, <2>4, <3>1
    <3> QED BY <1>2, <2>1, <2>2, <3>1, <3>2 DEF PushTransfer, IsTokenTransfer
  <2>6. ASSUME PushTransfer(c, ix, d)
        PROVE  PullTransfer(c, ix, d)
    <3>1. /\ ix.program = owner /\ ix.op = "transferChecked"
          /\ ix.amount = d.amount /\ ix.mint = MintOf(c)
          /\ ix.dest = Ata(d.owner, ix.program, MintOf(c))
      BY <1>2, <2>1, <2>6 DEF PushTransfer, IsTokenTransfer
    <3>2. c.decimals \in {None, ix.decimals}
      BY <1>2, <2>2, <2>4, <3>1
    <3> QED BY <1>2, <2>3, <3>1, <3>2 DEF PullTransfer, IsTokenTransfer
  <2> QED BY <2>5, <2>6
<1> QED BY <1>1, <1>2

\* A token transfer that pull mode took tells which decimals the charge named.
LEMMA DecimalsAgree ==
  ASSUME NEW c, IsChargeRequest(c), NEW t, IsTransaction(t), VerifyPreBroadcast(c, t),
         ~Native(c), \A i \in DOMAIN t.instructions : Ran(t.instructions[i])
  PROVE  c.decimals \in {None, 6}
<1> DEFINE ixs == t.instructions
           E == Expected(c)
           hits == PullHits(c, ixs)
           fatals == PullFatals(c, ixs, FeePayerOf(c))
           n == Len(c.splits) + 1
<1>1. WellFormed(c) /\ PullPrograms(c) \subseteq TokenPrograms
  BY DEF VerifyPreBroadcast
<1>2. n \in Nat /\ DOMAIN E = 1..n
  BY <1>1, DemandsAddUp
<1>3. 1 \in 1..n
  BY DEF IsChargeRequest
<1>4. PICK T : \A k \in 1..n : Took(T, k, E, hits, fatals)
  BY AcceptedTakes
<1>5. PICK j : j \in hits[E[1]]
  <2> HIDE DEF n, E, hits, fatals
  <2>1. Took(T, 1, E, hits, fatals)
    BY <1>3, <1>4
  <2> QED BY <2>1 DEF Took
<1>6. E[1] \in Range(E)
  BY <1>2, <1>3 DEF Range
<1>7. hits[E[1]] = {i \in DOMAIN ixs : PullTransfer(c, ixs[i], E[1])}
  BY <1>6 DEF PullHits
<1> HIDE DEF hits, E, n, ixs
<1>8. j \in DOMAIN ixs /\ PullTransfer(c, ixs[j], E[1])
  BY <1>5, <1>7
<1>9. ixs[j].program \in TokenPrograms /\ c.decimals \in {None, ixs[j].decimals}
  BY <1>1, <1>8 DEF PullTransfer, IsTokenTransfer
<1>10. ixs[j].decimals = 6
  BY <1>8, <1>9 DEF ixs, Ran
<1> QED BY <1>9, <1>10

LEMMA PushTakes ==
  ASSUME NEW c, IsChargeRequest(c), NEW t, IsTransaction(t), VerifyPreBroadcast(c, t),
         \A i \in DOMAIN t.instructions : Ran(t.instructions[i]),
         ~Native(c) => MintOwner[MintOf(c)] \in PushPrograms(c)
  PROVE  VerifyOnChain(c, t.instructions)
<1> DEFINE feePayer == FeePayerOf(c)
           ixs == t.instructions
           E == Expected(c)
           hits == PullHits(c, ixs)
           fatals == PullFatals(c, ixs, feePayer)
           transfers == MatchInOrder(E, hits, fatals, Untaken)
           matched == MatchMemos(ixs, c, transfers)
           hits2 == PushHits(c, ixs)
           none == NoFatals(c)
           transfers2 == MatchInOrder(E, hits2, none, Untaken)
           matched2 == MatchMemos(ixs, c, transfers2)
           n == Len(c.splits) + 1
           m == Len(ixs)
<1>1. matched.ok /\ PullAllowlist(c, t, feePayer, matched.taken)
  BY Zenon DEF VerifyPreBroadcast, PullHits, PullFatals, FeePayerOf
<1>2. /\ WellFormed(c) /\ PaidByExpected(c, t) /\ AtaCreationFits(c)
      /\ ~Native(c) => MintOf(c) \in Mints /\ PullPrograms(c) \subseteq TokenPrograms
      /\ MemosFit(ExpectedMemos(c))
  BY DEF VerifyPreBroadcast
<1>3. m \in Nat /\ DOMAIN ixs = 1..m
  BY DEF IsTransaction
<1>4. n \in Nat /\ DOMAIN E = 1..n /\ c.splits \in Seq(Range(c.splits))
  BY <1>2, DemandsAddUp DEF IsChargeRequest
<1>5. ~Native(c) => c.decimals \in {None, 6}
  BY DecimalsAgree
<1>6. ASSUME NEW k \in 1..n
      PROVE  /\ hits[E[k]] \in SUBSET Nat /\ fatals[E[k]] \in SUBSET Nat
             /\ hits2[E[k]] = hits[E[k]] /\ none[E[k]] = {}
  <2> DEFINE d == E[k]
  <2>1. d \in Range(E)
    BY <1>4 DEF Range
  <2>2. /\ hits[d] = {i \in DOMAIN ixs : PullTransfer(c, ixs[i], d)}
        /\ fatals[d] = {i \in DOMAIN ixs : PullFatal(c, ixs[i], d, feePayer)}
        /\ hits2[d] = {i \in DOMAIN ixs : PushTransfer(c, ixs[i], d)}
        /\ none[d] = {}
    BY <2>1 DEF PullHits, PullFatals, PushHits, NoFatals
  <2>3. ASSUME NEW i \in DOMAIN ixs
        PROVE  PushTransfer(c, ixs[i], d) <=> PullTransfer(c, ixs[i], d)
    BY <1>2, <1>5, SameTransfers
  <2> HIDE DEF d, hits, fatals, hits2, none, ixs, feePayer
  <2>4. hits2[d] = hits[d]
    BY <2>2, <2>3
  <2>5. hits[d] \in SUBSET Nat /\ fatals[d] \in SUBSET Nat
    BY <1>3, <2>2
  <2> QED BY <2>2, <2>4, <2>5 DEF d
<1> HIDE DEF hits, fatals, hits2, none, E, feePayer, n
<1>7. Indexed(E, hits, fatals, n) /\ Indexed(E, hits2, none, n)
  BY <1>6 DEF Indexed
<1>8. Untaken \in Matching
  BY DEF Untaken, Matching
<1>9. transfers \in Matching
  <2>1. PICK P : P[n] = transfers /\ \A k \in 0..n : P[k] \in Matching
    BY <1>4, <1>7, <1>8, MatchSteps
  <2> HIDE DEF transfers
  <2> QED BY <1>4, <2>1
<1>10. transfers.ok
  <2> HIDE DEF transfers
  <2> QED BY <1>1, <1>3, <1>4, <1>9, MemosTaken
<1>11. transfers2 = transfers
  <2>1. \A k \in 1..n : hits2[E[k]] = hits[E[k]] /\ none[E[k]] = {}
    BY <1>6
  <2> QED BY <1>4, <1>7, <1>8, <1>10, <2>1, MatchesAgree
<1>12. matched2.ok /\ matched2.taken = matched.taken
  BY <1>1, <1>11
<1> DEFINE feePayer2 == IF UsesFeePayer(c) THEN c.fee_payer_key ELSE None
<1>13. feePayer2 = feePayer /\ (feePayer2 # None => feePayer2 \in Wallets)
  BY <1>2 DEF feePayer, FeePayerOf, UsesFeePayer, PaidByExpected
<1> HIDE DEF transfers, transfers2, matched, matched2, feePayer2
<1>14. ASSUME NEW ix, Ran(ix), ix.program = "ata", PullAtaCreation(c, t, feePayer, ix)
       PROVE  PushAtaCreation(c, feePayer, ix)
  <2>1. /\ ~Native(c) /\ ix.op = "createIdempotent" /\ ix.payer = t.payer
        /\ ix.mint = MintOf(c) /\ ix.owner \in AllowedOwners(c, feePayer)
        /\ ix.ata = Ata(ix.owner, ix.token_program, ix.mint)
    BY <1>14 DEF PullAtaCreation, IsAtaCreation
  <2>2. ix.token_program = MintOwner[MintOf(c)] /\ MintOf(c) \in Mints
    BY <1>2, <1>14, <2>1 DEF Ran
  <2>3. ix.token_program \in PushPrograms(c) \cap TokenPrograms
    BY <2>1, <2>2, TransactionAssumption
  <2>4. PushPayers(c) = {} \/ ix.payer \in PushPayers(c)
    BY <1>2, <2>1 DEF PushPayers, UsesFeePayer, PaidByExpected
  <2> QED BY <2>1, <2>3, <2>4 DEF PushAtaCreation, IsAtaCreation
<1>15. PushAllowlist(c, ixs, feePayer, matched.taken)
  <2>1. /\ Calls(ixs, "ata") \subseteq
             {i \in Calls(ixs, "ata") : PullAtaCreation(c, t, feePayer, ixs[i])}
        /\ DOMAIN ixs \subseteq Calls(ixs, "compute") \cup Calls(ixs, "ata") \cup matched.taken
        /\ RequiredOwners(c) \subseteq {ixs[i].owner : i \in Calls(ixs, "ata")}
    BY <1>1 DEF PullAllowlist, Allowlist
  <2>2. ASSUME NEW i \in Calls(ixs, "ata")
        PROVE  PushAtaCreation(c, feePayer, ixs[i])
    <3>1. PullAtaCreation(c, t, feePayer, ixs[i])
      BY <2>1
    <3>2. Ran(ixs[i]) /\ ixs[i].program = "ata"
      BY DEF Calls
    <3> QED BY <1>14, <3>1, <3>2
  <2>3. Calls(ixs, "ata") \subseteq
          {i \in Calls(ixs, "ata") : PushAtaCreation(c, feePayer, ixs[i])}
    BY <2>2
  <2> HIDE DEF ixs
  <2> QED BY <2>1, <2>3 DEF PushAllowlist, Allowlist
<1>16. PushAllowlist(c, ixs, feePayer2, matched2.taken)
  BY <1>12, <1>13, <1>15
<1> QED BY <1>2, <1>12, <1>13, <1>16, Zenon
        DEF VerifyOnChain, feePayer2, matched2, transfers2, hits2, none, PushHits, NoFatals, E

\* A landed transaction that pull mode would have taken is taken in push mode
\* (verify_on_chain), unless landing opened a token account or the mint is not under
\* the program push mode assumes: for every charge, transaction and ledger.
THEOREM PushTakesWhatPullTakesHolds == Spec => []PushTakesWhatPullTakes
<1>1. Init => ChoiceInv /\ TransactionInv /\ LandedInv
  BY DEF Init, ChoiceInv, TransactionInv, LandedInv
<1>2. ChoiceInv /\ TransactionInv /\ LandedInv /\ [Next]_vars
        => (ChoiceInv /\ TransactionInv /\ LandedInv)'
  BY ChoiceStep, TransactionStep, LandedStep
<1>3. ChoiceInv /\ TransactionInv /\ LandedInv => PushTakesWhatPullTakes
  <2> SUFFICES ASSUME ChoiceInv, TransactionInv, LandedInv, landed # None,
                      VerifyPreBroadcast(charge, tx), ~(Len(landed) > Len(tx.instructions)),
                      Native(charge) \/ MintOwner[MintOf(charge)] \in PushPrograms(charge)
               PROVE  VerifyOnChain(charge, landed)
    BY DEF PushTakesWhatPullTakes
  <2>1. /\ tx # None /\ landed = tx.instructions
        /\ \A i \in DOMAIN tx.instructions : Ran(tx.instructions[i])
    BY DEF LandedInv
  <2>2. IsChargeRequest(charge) /\ IsTransaction(tx)
    BY <2>1, ChosenIsRequest DEF TransactionInv
  <2> QED BY <2>1, <2>2, PushTakes
<1> QED BY <1>1, <1>2, <1>3, PTL DEF Spec

-----------------------------------------------------------------------------
(* The server takes what the client builds. *)

\* The demands of a transaction that was built for them: demand k finds place p[k],
\* and whatever else it could take is the place of another demand.
InOrder(p, n) == \A j, k \in 1..n : j < k => p[j] < p[k]

Standing(p, demands, hits, fatal, n) ==
  \A k \in 1..n :
    /\ p[k] \in hits[demands[k]] /\ fatal[demands[k]] = {}
    /\ \A i \in hits[demands[k]] : \E j \in 1..n : i = p[j]

\* A demand with a free place of its own takes the first.
LEMMA MatchTakesLeast ==
  ASSUME NEW m \in Matching, m.ok, NEW d, NEW hits, NEW fatal,
         hits[d] \in SUBSET Nat, fatal[d] = {},
         NEW j \in hits[d], j \notin m.taken, \A i \in hits[d] : i \in m.taken \/ j <= i
  PROVE  Match(m, d, hits, fatal) = [ok |-> TRUE, taken |-> m.taken \cup {j}]
<1> DEFINE seen == (hits[d] \cup fatal[d]) \ m.taken
<1>1. seen \in SUBSET Nat /\ j \in seen /\ j \in Nat /\ \A i \in seen : j <= i
  OBVIOUS
<1>2. Match(m, d, hits, fatal) =
        IF m.ok /\ seen # {} /\ Min(seen) \notin fatal[d]
        THEN [ok |-> TRUE, taken |-> m.taken \cup {Min(seen)}]
        ELSE [ok |-> FALSE, taken |-> m.taken]
  BY DEF Match
<1> HIDE DEF seen
<1>3. Min(seen) \in seen /\ Min(seen) <= j
  BY <1>1, MinIn
<1>4. Min(seen) = j
  <2>1. j <= Min(seen) /\ Min(seen) \in Nat
    BY <1>1, <1>3
  <2> QED BY <1>1, <1>3, <2>1
<1> QED BY <1>1, <1>2, <1>4

\* Matched in order, each demand takes its own place.
LEMMA MatchTakesPlaces ==
  ASSUME NEW n \in Nat, NEW demands, DOMAIN demands = 1..n, NEW hits, NEW fatal,
         Indexed(demands, hits, fatal, n), NEW start \in Matching, start.ok,
         NEW p, Standing(p, demands, hits, fatal, n), InOrder(p, n),
         \A k \in 1..n : p[k] \notin start.taken
  PROVE  LET result == MatchInOrder(demands, hits, fatal, start) IN
           /\ result \in Matching /\ result.ok
           /\ result.taken = start.taken \cup {p[k] : k \in 1..n}
<1> DEFINE result == MatchInOrder(demands, hits, fatal, start)
           Upto(k) == start.taken \cup {p[j] : j \in 1..k}
<1>1. PICK P : /\ P[0] = start /\ P[n] = result
               /\ \A k \in 1..n : P[k] = Match(P[k - 1], demands[k], hits, fatal)
               /\ \A k \in 0..n : P[k] \in Matching
  BY MatchSteps
<1> HIDE DEF result
<1>2. \A k \in 1..n : p[k] \in Nat
  BY DEF Standing, Indexed
<1> DEFINE T == {k \in Nat : P[k].ok /\ P[k].taken = Upto(k)}
<1>3. 0 \in T
  <2>1. {p[j] : j \in 1..0} = {}
    OBVIOUS
  <2> QED BY <1>1, <2>1
<1>4. ASSUME NEW k \in 1..n, k - 1 \in T
      PROVE  k \in T
  <2> DEFINE m == P[k - 1]
  <2>1. m \in Matching /\ m.ok /\ m.taken = Upto(k - 1)
    BY <1>1, <1>4
  <2>2. /\ hits[demands[k]] \in SUBSET Nat /\ fatal[demands[k]] = {}
        /\ p[k] \in hits[demands[k]]
        /\ \A i \in hits[demands[k]] : \E j \in 1..n : i = p[j]
    BY DEF Indexed, Standing
  <2>3. p[k] \notin m.taken
    <3> SUFFICES ASSUME NEW j \in 1..(k - 1), p[k] = p[j] PROVE FALSE
      BY <2>1
    <3>1. j \in 1..n /\ j < k
      OBVIOUS
    <3>2. p[j] < p[k] /\ p[j] \in Nat
      BY <1>2, <3>1 DEF InOrder
    <3> QED BY <3>2
  <2>4. ASSUME NEW i \in hits[demands[k]]
        PROVE  i \in m.taken \/ p[k] <= i
    <3>1. PICK j \in 1..n : i = p[j]
      BY <2>2
    <3>2. CASE j < k
      <4>1. j \in 1..(k - 1)
        BY <3>2
      <4> QED BY <2>1, <3>1, <4>1
    <3>3. CASE j = k
      BY <1>2, <3>1, <3>3
    <3>4. CASE j > k
      <4>1. p[k] < p[j]
        BY <3>4 DEF InOrder
      <4> QED BY <1>2, <3>1, <4>1
    <3> QED BY <3>2, <3>3, <3>4
  <2>5. P[k] = Match(m, demands[k], hits, fatal)
    BY <1>1
  <2> HIDE DEF m, Upto
  <2>6. Match(m, demands[k], hits, fatal) = [ok |-> TRUE, taken |-> m.taken \cup {p[k]}]
    BY <2>1, <2>2, <2>3, <2>4, MatchTakesLeast
  <2>7. Upto(k - 1) \cup {p[k]} = Upto(k)
    <3>1. 1..k = (1..(k - 1)) \cup {k}
      OBVIOUS
    <3> QED BY <3>1 DEF Upto
  <2>8. P[k].ok /\ P[k].taken = m.taken \cup {p[k]}
    BY <2>5, <2>6
  <2>9. P[k].ok /\ P[k].taken = Upto(k) /\ k \in Nat
    <3>1. m.taken \cup {p[k]} = Upto(k)
      BY <2>1, <2>7
    <3> QED BY <2>8, <3>1
  <2> QED BY <2>9
<1> HIDE DEF T
<1>5. n \in T
  <2>1. \A k \in 1..n : k - 1 \in T => k \in T
    BY <1>4
  <2>2. \A k \in 0..n : k \in T
    BY <1>3, <2>1, PrefixSets, Zenon
  <2> QED BY <2>2
<1>6. result \in Matching /\ result.ok /\ result.taken = Upto(n)
  BY <1>1, <1>5 DEF T
<1> QED BY <1>6 DEF result

-----------------------------------------------------------------------------
(* The memos a charge expects. *)

\* memos are the present ones of the first r fields, origin[k] the field of the k-th.
Thinned(memos, fields, origin, r) ==
  /\ \A k \in 1..Len(memos) : /\ origin[k] \in 1..r /\ memos[k] = fields[origin[k]]
                              /\ fields[origin[k]] \notin {None, EmptyMemo}
  /\ InOrder(origin, Len(memos))
  /\ \A j \in 1..r : fields[j] \notin {None, EmptyMemo} => \E k \in 1..Len(memos) : origin[k] = j

\* An absent or empty memo field leaves the list of memos as it is.
LEMMA ThinnedSkips ==
  ASSUME NEW memos, NEW fields, NEW origin, NEW r \in Nat \ {0}, Len(memos) \in Nat,
         Thinned(memos, fields, origin, r - 1), fields[r] \in {None, EmptyMemo}
  PROVE  Thinned(memos, fields, origin, r)
<1>1. \A k \in 1..(r - 1) : k \in 1..r
  OBVIOUS
<1>2. \A k \in 1..r : k \in 1..(r - 1) \/ k = r
  OBVIOUS
<1> DEFINE n == Len(memos)
<1> HIDE DEF n
<1>3. \A k \in 1..n : /\ origin[k] \in 1..r /\ memos[k] = fields[origin[k]]
                       /\ fields[origin[k]] \notin {None, EmptyMemo}
  BY <1>1 DEF Thinned, n
<1>4. InOrder(origin, n)
  BY DEF Thinned, n
<1>5. ASSUME NEW j \in 1..r, fields[j] \notin {None, EmptyMemo}
      PROVE  \E k \in 1..n : origin[k] = j
  <2>1. j \in 1..(r - 1)
    BY <1>2, <1>5
  <2> QED BY <1>5, <2>1 DEF Thinned, n
<1> QED BY <1>3, <1>4, <1>5 DEF Thinned, n

\* A memo field that is present comes last in the list of memos.
LEMMA ThinnedKeeps ==
  ASSUME NEW S, NEW memos \in Seq(S), NEW fields, NEW origin, NEW r \in Nat \ {0},
         Thinned(memos, fields, origin, r - 1), fields[r] \notin {None, EmptyMemo}, fields[r] \in S
  PROVE  \E g : Thinned(Append(memos, fields[r]), fields, g, r)
<1> DEFINE n == Len(memos)
           longer == Append(memos, fields[r])
           g == [k \in 1..(n + 1) |-> IF k = n + 1 THEN r ELSE origin[k]]
<1>1. n \in Nat /\ Len(longer) = n + 1
  OBVIOUS
<1>2. longer[n + 1] = fields[r] /\ \A k \in 1..n : longer[k] = memos[k]
  OBVIOUS
<1>3. g[n + 1] = r /\ \A k \in 1..n : g[k] = origin[k]
  BY <1>1
<1>4. \A k \in 1..n : /\ origin[k] \in 1..(r - 1) /\ memos[k] = fields[origin[k]]
                       /\ fields[origin[k]] \notin {None, EmptyMemo}
  BY DEF Thinned
<1>5. InOrder(origin, n)
  BY DEF Thinned
<1>6. \A j \in 1..(r - 1) : fields[j] \notin {None, EmptyMemo} => \E k \in 1..n : origin[k] = j
  BY DEF Thinned
<1> HIDE DEF n, longer, g
<1>7. \A k \in 1..(n + 1) : k \in 1..n \/ k = n + 1
  BY <1>1
<1>8. ASSUME NEW k \in 1..(n + 1)
      PROVE  /\ g[k] \in 1..r /\ longer[k] = fields[g[k]]
             /\ fields[g[k]] \notin {None, EmptyMemo}
  <2>1. CASE k = n + 1
    <3>1. r \in 1..r
      OBVIOUS
    <3> QED BY <1>2, <1>3, <2>1, <3>1
  <2>2. CASE k \in 1..n
    <3>1. origin[k] \in 1..r
      BY <1>4, <2>2
    <3> QED BY <1>2, <1>3, <1>4, <2>2, <3>1
  <2> QED BY <1>7, <2>1, <2>2
<1>9. InOrder(g, n + 1)
  <2> SUFFICES ASSUME NEW j \in 1..(n + 1), NEW k \in 1..(n + 1), j < k PROVE g[j] < g[k]
    BY DEF InOrder
  <2>1. j \in 1..n
    BY <1>1
  <2>2. CASE k = n + 1
    <3>1. origin[j] \in 1..(r - 1) /\ g[j] = origin[j] /\ g[k] = r
      BY <1>3, <1>4, <2>1, <2>2
    <3> QED BY <3>1
  <2>3. CASE k \in 1..n
    BY <1>3, <1>5, <2>1, <2>3 DEF InOrder
  <2> QED BY <1>7, <2>2, <2>3
<1>10. ASSUME NEW j \in 1..r, fields[j] \notin {None, EmptyMemo}
       PROVE  \E k \in 1..(n + 1) : g[k] = j
  <2>1. CASE j = r
    <3>1. n + 1 \in 1..(n + 1)
      BY <1>1
    <3> QED BY <1>3, <2>1, <3>1
  <2>2. CASE j # r
    <3>1. j \in 1..(r - 1)
      BY <2>2
    <3>2. PICK k \in 1..n : origin[k] = j
      BY <1>6, <1>10, <3>1
    <3>3. k \in 1..(n + 1) /\ g[k] = j
      BY <1>1, <1>3, <3>2
    <3> QED BY <3>3
  <2> QED BY <2>1, <2>2
<1>11. Thinned(longer, fields, g, r)
  BY <1>1, <1>8, <1>9, <1>10 DEF Thinned
<1> QED BY <1>11 DEF longer

\* The memos the server expects are the memo fields that are neither absent nor empty.
LEMMA MemosThinned ==
  ASSUME NEW c, NEW n \in Nat, DOMAIN MemoFields(c) = 1..n
  PROVE  \E origin : Thinned(ExpectedMemos(c), MemoFields(c), origin, n)
<1> DEFINE fields == MemoFields(c)
           S == Range(fields)
<1>1. PICK P : /\ P[0] = <<>> /\ P[n] = ExpectedMemos(c)
               /\ \A k \in 1..n : P[k] = IF fields[k] \in {None, EmptyMemo} THEN P[k - 1]
                                        ELSE Append(P[k - 1], fields[k])
               /\ \A k \in 0..n : P[k] \in Seq(S)
  BY MemoSteps
<1>2. \A k \in 1..n : fields[k] \in S
  BY DEF Range
<1> HIDE DEF fields, S
<1> DEFINE T == {k \in Nat : \E origin : Thinned(P[k], fields, origin, k)}
<1>3. 0 \in T
  <2>1. Thinned(<<>>, fields, <<>>, 0)
    <3>1. Len(<<>>) = 0 /\ 1..0 = {}
      OBVIOUS
    <3> QED BY <3>1 DEF Thinned, InOrder
  <2> QED BY <1>1, <2>1
<1>4. ASSUME NEW k \in 1..n, k - 1 \in T
      PROVE  k \in T
  <2> DEFINE before == P[k - 1]
  <2>1. PICK origin : Thinned(before, fields, origin, k - 1)
    BY <1>4
  <2>2. before \in Seq(S) /\ k \in Nat \ {0} /\ fields[k] \in S
    BY <1>1, <1>2
  <2>3. P[k] = IF fields[k] \in {None, EmptyMemo} THEN before ELSE Append(before, fields[k])
    BY <1>1
  <2> HIDE DEF before
  <2>4. \E g : Thinned(P[k], fields, g, k)
    <3>1. CASE fields[k] \in {None, EmptyMemo}
      <4>1. Len(before) \in Nat
        BY <2>2
      <4>2. Thinned(before, fields, origin, k)
        BY <2>1, <2>2, <3>1, <4>1, ThinnedSkips
      <4>3. P[k] = before
        BY <2>3, <3>1
      <4> QED BY <4>2, <4>3
    <3>2. CASE fields[k] \notin {None, EmptyMemo}
      <4>1. \E g : Thinned(Append(before, fields[k]), fields, g, k)
        BY <2>1, <2>2, <3>2, ThinnedKeeps
      <4>2. P[k] = Append(before, fields[k])
        BY <2>3, <3>2
      <4> QED BY <4>1, <4>2
    <3> QED BY <3>1, <3>2
  <2> QED BY <2>2, <2>4
<1> HIDE DEF T
<1>5. n \in T
  <2>1. \A k \in 1..n : k - 1 \in T => k \in T
    BY <1>4
  <2>2. \A k \in 0..n : k \in T
    BY <1>3, <2>1, PrefixSets, Zenon
  <2> QED BY <2>2
<1> QED BY <1>1, <1>5 DEF T, fields

-----------------------------------------------------------------------------
(* The transaction the client builds. *)

Creation(c, split) ==
  CreateAtaIdempotent(Payer(c), split.recipient, MintOf(c), ResolveTokenProgram(c))

Pay(c, d) == PayInstruction(c, d.owner, d.amount)

Ahead(c, split) == IF CreatesAta(c, split) THEN 1 ELSE 0

Behind(memo) == IF memo = None THEN 0 ELSE 1

\* both holds s and then t.
Follows(both, s, t) ==
  /\ both \in Seq(Range(both))
  /\ Len(both) = Len(s) + Len(t)
  /\ DOMAIN both = 1..(Len(s) + Len(t))
  /\ \A i \in 1..Len(s) : both[i] = s[i]
  /\ \A i \in 1..Len(t) : both[Len(s) + i] = t[i]

\* In a concatenation the second list stands behind the first.
LEMMA JoinedFollows ==
  ASSUME NEW s, s \in Seq(Range(s)), NEW t, t \in Seq(Range(t))
  PROVE  Follows(Joined(s, t), s, t)
<1> DEFINE both == Joined(s, t)
<1>1. both \in Seq(Range(both))
  BY SeqConcat DEF Joined
<1>2. DOMAIN both = 1..(Len(s) + Len(t))
  BY ConcatLaws
<1>3. \A i \in 1..Len(s) : both[i] = s[i]
  BY ConcatLaws
<1>4. \A i \in 1..Len(t) : both[Len(s) + i] = t[i]
  BY ConcatLaws
<1>5. Len(s) \in Nat /\ Len(t) \in Nat
  OBVIOUS
<1> HIDE DEF both
<1>6. Len(both) = Len(s) + Len(t)
  BY <1>1, <1>2, <1>5
<1>7. Follows(both, s, t)
  BY <1>1, <1>2, <1>3, <1>4, <1>6 DEF Follows
<1> QED BY <1>7 DEF both

\* A memo field lays down one instruction or none.
LEMMA MemoShape ==
  ASSUME NEW memo
  PROVE  Len(PushMemo(memo)) = Behind(memo) /\ (memo # None => PushMemo(memo)[1] = MemoIx(memo))
<1>1. Len(<<MemoIx(memo)>>) = 1 /\ <<MemoIx(memo)>>[1] = MemoIx(memo) /\ Len(<<>>) = 0
  OBVIOUS
<1> QED BY <1>1 DEF PushMemo, Behind

\* An account creation or none, the transfer, a memo or none.
LEMMA PieceShape ==
  ASSUME NEW c, NEW split
  PROVE  LET piece == SplitInstructions(c, split)
             a == Ahead(c, split) IN
           /\ Len(piece) = a + 1 + Behind(split.memo)
           /\ piece[a + 1] = PayInstruction(c, split.recipient, split.amount)
           /\ CreatesAta(c, split) => piece[1] = Creation(c, split)
           /\ split.memo # None => piece[a + 2] = MemoIx(split.memo)
<1> DEFINE creation == IF CreatesAta(c, split) THEN <<Creation(c, split)>> ELSE <<>>
           pay == <<PayInstruction(c, split.recipient, split.amount)>>
           memo == PushMemo(split.memo)
           both == Joined(creation, pay)
           piece == Joined(both, memo)
           a == Ahead(c, split)
<1>1. /\ creation \in Seq(Range(creation)) /\ Len(creation) = a
      /\ CreatesAta(c, split) => creation[1] = Creation(c, split)
  <2> DEFINE x == Creation(c, split)
  <2> HIDE DEF x
  <2>1. /\ <<x>> \in Seq(Range(<<x>>)) /\ <<>> \in Seq(Range(<<>>))
        /\ Len(<<x>>) = 1 /\ Len(<<>>) = 0 /\ <<x>>[1] = x
    BY DEF Range
  <2>2. CASE CreatesAta(c, split)
    <3>1. creation = <<x>> /\ a = 1
      BY <2>2 DEF Ahead, x
    <3> QED BY <2>1, <3>1 DEF x
  <2>3. CASE ~CreatesAta(c, split)
    <3>1. creation = <<>> /\ a = 0
      BY <2>3 DEF Ahead
    <3> QED BY <2>1, <2>3, <3>1
  <2> QED BY <2>2, <2>3
<1>2. /\ pay \in Seq(Range(pay)) /\ Len(pay) = 1
      /\ pay[1] = PayInstruction(c, split.recipient, split.amount)
  BY DEF Range
<1>3. /\ memo \in Seq(Range(memo)) /\ Len(memo) = Behind(split.memo)
      /\ split.memo # None => memo[1] = MemoIx(split.memo)
  BY MemoIsSeq, MemoShape
<1>4. SplitInstructions(c, split) = piece
  BY DEF SplitInstructions, Joined, Creation
<1>5. a \in {0, 1} /\ Behind(split.memo) \in {0, 1} /\ (CreatesAta(c, split) => a = 1)
      /\ (split.memo # None => Behind(split.memo) = 1)
  BY DEF Ahead, Behind
<1> HIDE DEF creation, pay, memo, piece, both, a
<1>6. Follows(both, creation, pay)
  <2>1. creation \in Seq(Range(creation))
    BY <1>1
  <2>2. pay \in Seq(Range(pay))
    BY <1>2
  <2> QED BY <2>1, <2>2, JoinedFollows DEF both
<1>7. /\ Len(both) = a + 1 /\ both[a + 1] = pay[1]
      /\ CreatesAta(c, split) => both[1] = creation[1]
  BY <1>1, <1>2, <1>5, <1>6 DEF Follows
<1>8. Follows(piece, both, memo)
  <2>1. both \in Seq(Range(both))
    BY <1>6 DEF Follows
  <2>2. memo \in Seq(Range(memo))
    BY <1>3
  <2> QED BY <2>1, <2>2, JoinedFollows DEF piece
<1>9. /\ Len(piece) = a + 1 + Behind(split.memo) /\ piece[a + 1] = pay[1]
      /\ CreatesAta(c, split) => piece[1] = creation[1]
  BY <1>3, <1>5, <1>7, <1>8 DEF Follows
<1>10. split.memo # None => piece[a + 2] = memo[1]
  <2> SUFFICES ASSUME split.memo # None PROVE piece[a + 2] = memo[1]
    OBVIOUS
  <2>1. 1 \in 1..Len(memo) /\ Len(both) + 1 = a + 2
    BY <1>3, <1>5, <1>7
  <2> QED BY <1>8, <2>1 DEF Follows
<1> QED BY <1>1, <1>2, <1>3, <1>4, <1>9, <1>10 DEF a

\* The compute budget, the transfer to the recipient, a memo or none.
LEMMA PrimaryShape ==
  ASSUME NEW c
  PROVE  LET base == PrimaryInstructions(c) IN
           /\ Len(base) = 3 + Behind(c.external_id)
           /\ base[1] = Compute("price", 1) /\ base[2] = Compute("limit", 200000)
           /\ base[3] = PayInstruction(c, c.recipient, PrimaryAmount(c))
           /\ c.external_id # None => base[4] = MemoIx(c.external_id)
<1> DEFINE limits == <<Compute("price", 1), Compute("limit", 200000)>>
           pay == <<PayInstruction(c, c.recipient, PrimaryAmount(c))>>
           memo == PushMemo(c.external_id)
           both == Joined(limits, pay)
           base == Joined(both, memo)
<1>1. /\ limits \in Seq(Range(limits)) /\ Len(limits) = 2
      /\ limits[1] = Compute("price", 1) /\ limits[2] = Compute("limit", 200000)
  BY DEF Range
<1>2. /\ pay \in Seq(Range(pay)) /\ Len(pay) = 1
      /\ pay[1] = PayInstruction(c, c.recipient, PrimaryAmount(c))
  BY DEF Range
<1>3. /\ memo \in Seq(Range(memo)) /\ Len(memo) = Behind(c.external_id)
      /\ c.external_id # None => memo[1] = MemoIx(c.external_id)
  BY MemoIsSeq, MemoShape
<1>4. PrimaryInstructions(c) = base
  BY DEF PrimaryInstructions, Joined
<1>5. Behind(c.external_id) \in {0, 1} /\ (c.external_id # None => Behind(c.external_id) = 1)
  BY DEF Behind
<1> HIDE DEF limits, pay, memo, base, both
<1>6. Follows(both, limits, pay)
  <2>1. limits \in Seq(Range(limits))
    BY <1>1
  <2>2. pay \in Seq(Range(pay))
    BY <1>2
  <2> QED BY <2>1, <2>2, JoinedFollows DEF both
<1>7. /\ Len(both) = 3 /\ both[1] = limits[1] /\ both[2] = limits[2] /\ both[3] = pay[1]
  BY <1>1, <1>2, <1>6 DEF Follows
<1>8. Follows(base, both, memo)
  <2>1. both \in Seq(Range(both))
    BY <1>6 DEF Follows
  <2>2. memo \in Seq(Range(memo))
    BY <1>3
  <2> QED BY <2>1, <2>2, JoinedFollows DEF base
<1>9. Len(base) = 3 + Behind(c.external_id) /\ \A i \in 1..3 : base[i] = both[i]
  BY <1>3, <1>5, <1>7, <1>8 DEF Follows
<1>10. c.external_id # None => base[4] = memo[1]
  <2> SUFFICES ASSUME c.external_id # None PROVE base[4] = memo[1]
    OBVIOUS
  <2>1. 1 \in 1..Len(memo) /\ Len(both) + 1 = 4
    BY <1>3, <1>5, <1>7
  <2> QED BY <1>8, <2>1 DEF Follows
<1> QED BY <1>1, <1>2, <1>3, <1>4, <1>7, <1>9, <1>10

\* Where the transfers of the first r splits and of the recipient are, that a memo
\* follows its transfer, and what else there is: the compute budget and the token
\* accounts of these splits.
PaysAt(ixs, c, place, r) ==
  \A k \in 1..(r + 1) : place[k] \in DOMAIN ixs /\ ixs[place[k]] = Pay(c, Expected(c)[k])

NotesAt(ixs, c, place, r) ==
  \A k \in 1..(r + 1) :
    MemoFields(c)[k] # None => /\ place[k] + 1 \in DOMAIN ixs
                               /\ ixs[place[k] + 1] = MemoIx(MemoFields(c)[k])

Limits(ix) == ix \in {Compute("price", 1), Compute("limit", 200000)}

Creates(ix, c, r) == \E k \in 1..r : CreatesAta(c, c.splits[k]) /\ ix = Creation(c, c.splits[k])

Placed(i, c, place, r) ==
  \E k \in 1..(r + 1) : i = place[k] \/ (i = place[k] + 1 /\ MemoFields(c)[k] # None)

Accounted(ixs, c, place, r) ==
  \A i \in DOMAIN ixs : Limits(ixs[i]) \/ Creates(ixs[i], c, r) \/ Placed(i, c, place, r)

AllCreated(ixs, c, r) ==
  \A k \in 1..r : CreatesAta(c, c.splits[k]) =>
                    \E i \in DOMAIN ixs : ixs[i] = Creation(c, c.splits[k])

Laid(ixs, c, place, r) ==
  /\ PaysAt(ixs, c, place, r) /\ NotesAt(ixs, c, place, r)
  /\ Accounted(ixs, c, place, r) /\ AllCreated(ixs, c, r)
  /\ InOrder(place, r + 1)

\* One split more.
LEMMA LaidSplit ==
  ASSUME NEW c, c.splits \in Seq(Range(c.splits)), NEW r \in 1..Len(c.splits),
         NEW before, before \in Seq(Range(before)), NEW place, Laid(before, c, place, r - 1),
         place[r + 1] = Len(before) + Ahead(c, c.splits[r]) + 1
  PROVE  Laid(Joined(before, SplitInstructions(c, c.splits[r])), c, place, r)
<1> DEFINE split == c.splits[r]
           piece == SplitInstructions(c, split)
           ixs == Joined(before, piece)
           a == Ahead(c, split)
           b == Behind(split.memo)
           m == Len(before)
           pay == Pay(c, Expected(c)[r + 1])
<1>1. r \in Nat /\ r >= 1 /\ r - 1 \in Nat /\ (r - 1) + 1 = r
  OBVIOUS
<1>2. a \in {0, 1} /\ b \in {0, 1} /\ (CreatesAta(c, split) <=> a = 1)
      /\ (split.memo # None <=> b = 1)
  BY DEF Ahead, Behind
<1>3. m \in Nat /\ DOMAIN before = 1..m
  OBVIOUS
<1>4. Expected(c)[r + 1] = [owner |-> split.recipient, amount |-> split.amount]
  BY ExpectedShape
<1>5. MemoFields(c)[r + 1] = split.memo
  BY FieldsShape
<1>6. /\ Len(piece) = a + 1 + b
      /\ piece[a + 1] = pay
      /\ CreatesAta(c, split) => piece[1] = Creation(c, split)
      /\ split.memo # None => piece[a + 2] = MemoIx(split.memo)
  BY <1>4, PieceShape DEF Pay
<1>7. Follows(ixs, before, piece)
  <2>1. piece \in Seq(Range(piece))
    BY PiecesAreSeqs
  <2> HIDE DEF piece
  <2> QED BY <2>1, JoinedFollows
<1>p. place[r + 1] = m + a + 1
  OBVIOUS
<1>l. /\ PaysAt(before, c, place, r - 1) /\ NotesAt(before, c, place, r - 1)
      /\ Accounted(before, c, place, r - 1) /\ AllCreated(before, c, r - 1)
      /\ InOrder(place, r)
  BY <1>1 DEF Laid
<1>q. ixs = Joined(before, SplitInstructions(c, c.splits[r]))
  OBVIOUS
<1>s. split = c.splits[r]
  OBVIOUS
<1> HIDE DEF split, piece, ixs, a, b, m, pay
<1>8. DOMAIN ixs = 1..(m + (a + 1 + b))
  BY <1>6, <1>7 DEF Follows, m
<1>9. \A i \in DOMAIN before : i \in DOMAIN ixs /\ ixs[i] = before[i]
  BY <1>2, <1>3, <1>7, <1>8 DEF Follows, m
<1>10. /\ m + a + 1 \in DOMAIN ixs /\ ixs[m + a + 1] = pay
  <2>1. a + 1 \in 1..Len(piece) /\ m + (a + 1) = m + a + 1
    BY <1>2, <1>3, <1>6
  <2>2. ixs[m + (a + 1)] = piece[a + 1]
    BY <1>7, <2>1 DEF Follows, m
  <2> QED BY <1>2, <1>3, <1>6, <1>8, <2>1, <2>2
<1>11. CreatesAta(c, split) => m + 1 \in DOMAIN ixs /\ ixs[m + 1] = Creation(c, split)
  <2> SUFFICES ASSUME CreatesAta(c, split)
               PROVE  m + 1 \in DOMAIN ixs /\ ixs[m + 1] = Creation(c, split)
    OBVIOUS
  <2>1. 1 \in 1..Len(piece)
    BY <1>2, <1>6
  <2>2. ixs[m + 1] = piece[1]
    BY <1>7, <2>1 DEF Follows, m
  <2> QED BY <1>2, <1>3, <1>6, <1>8, <2>2
<1>12. split.memo # None =>
         m + a + 1 + 1 \in DOMAIN ixs /\ ixs[m + a + 1 + 1] = MemoIx(split.memo)
  <2> SUFFICES ASSUME split.memo # None
               PROVE  m + a + 1 + 1 \in DOMAIN ixs /\ ixs[m + a + 1 + 1] = MemoIx(split.memo)
    OBVIOUS
  <2>1. a + 2 \in 1..Len(piece) /\ m + (a + 2) = m + a + 1 + 1
    BY <1>2, <1>3, <1>6
  <2>2. ixs[m + (a + 2)] = piece[a + 2]
    BY <1>7, <2>1 DEF Follows, m
  <2> QED BY <1>2, <1>3, <1>6, <1>8, <2>1, <2>2
<1>13. \A k \in 1..(r + 1) : k \in 1..r \/ k = r + 1
  BY <1>1
<1>14. PaysAt(ixs, c, place, r)
  <2> SUFFICES ASSUME NEW k \in 1..(r + 1)
               PROVE  place[k] \in DOMAIN ixs /\ ixs[place[k]] = Pay(c, Expected(c)[k])
    BY DEF PaysAt
  <2>1. CASE k = r + 1
    BY <1>p, <1>10, <2>1 DEF pay
  <2>2. CASE k \in 1..r
    <3>1. place[k] \in DOMAIN before /\ before[place[k]] = Pay(c, Expected(c)[k])
      BY <1>1, <1>l, <2>2 DEF PaysAt
    <3> QED BY <1>9, <3>1
  <2> QED BY <1>13, <2>1, <2>2
<1>15. NotesAt(ixs, c, place, r)
  <2> SUFFICES ASSUME NEW k \in 1..(r + 1), MemoFields(c)[k] # None
               PROVE  place[k] + 1 \in DOMAIN ixs
                      /\ ixs[place[k] + 1] = MemoIx(MemoFields(c)[k])
    BY DEF NotesAt
  <2>1. CASE k = r + 1
    BY <1>5, <1>p, <1>12, <2>1
  <2>2. CASE k \in 1..r
    <3>1. /\ place[k] + 1 \in DOMAIN before
          /\ before[place[k] + 1] = MemoIx(MemoFields(c)[k])
      BY <1>1, <1>l, <2>2 DEF NotesAt
    <3> QED BY <1>9, <3>1
  <2> QED BY <1>13, <2>1, <2>2
<1>16. Accounted(ixs, c, place, r)
  <2> SUFFICES ASSUME NEW i \in DOMAIN ixs
               PROVE  Limits(ixs[i]) \/ Creates(ixs[i], c, r) \/ Placed(i, c, place, r)
    BY DEF Accounted
  <2>1. /\ r + 1 \in 1..(r + 1) /\ r \in 1..r
        /\ \A k \in 1..r : k \in 1..(r + 1)
        /\ \A k \in 1..(r - 1) : k \in 1..r
    BY <1>1
  <2>2. \/ i \in DOMAIN before
        \/ CreatesAta(c, split) /\ i = m + 1
        \/ i = m + a + 1
        \/ split.memo # None /\ i = m + a + 1 + 1
    <3>1. i \in 1..(m + (a + 1 + b)) /\ i \in Int
      BY <1>8
    <3>2. CASE a = 1
      <4>1. i \in 1..m \/ i = m + 1 \/ i = m + a + 1 \/ (b = 1 /\ i = m + a + 1 + 1)
        BY <1>2, <1>3, <3>1, <3>2
      <4> QED BY <1>2, <1>3, <3>2, <4>1
    <3>3. CASE a = 0
      <4>1. i \in 1..m \/ i = m + a + 1 \/ (b = 1 /\ i = m + a + 1 + 1)
        BY <1>2, <1>3, <3>1, <3>3
      <4> QED BY <1>2, <1>3, <4>1
    <3> QED BY <1>2, <3>2, <3>3
  <2>3. CASE i \in DOMAIN before
    <3>1. \/ Limits(before[i]) \/ Creates(before[i], c, r - 1) \/ Placed(i, c, place, r - 1)
      BY <1>l, <2>3 DEF Accounted
    <3>2. Creates(before[i], c, r - 1) => Creates(before[i], c, r)
      BY <2>1 DEF Creates
    <3>3. Placed(i, c, place, r - 1) => Placed(i, c, place, r)
      BY <1>1, <2>1 DEF Placed
    <3>4. before[i] = ixs[i]
      BY <1>9, <2>3
    <3> QED BY <3>1, <3>2, <3>3, <3>4
  <2>4. CASE CreatesAta(c, split) /\ i = m + 1
    BY <1>s, <1>11, <2>1, <2>4 DEF Creates
  <2>5. CASE i = m + a + 1
    BY <1>p, <2>1, <2>5 DEF Placed
  <2>6. CASE split.memo # None /\ i = m + a + 1 + 1
    BY <1>5, <1>p, <2>1, <2>6 DEF Placed
  <2> QED BY <2>2, <2>3, <2>4, <2>5, <2>6
<1>17. AllCreated(ixs, c, r)
  <2> SUFFICES ASSUME NEW k \in 1..r, CreatesAta(c, c.splits[k])
               PROVE  \E i \in DOMAIN ixs : ixs[i] = Creation(c, c.splits[k])
    BY DEF AllCreated
  <2>1. CASE k = r
    BY <1>s, <1>11, <2>1
  <2>2. CASE k # r
    <3>1. k \in 1..(r - 1)
      BY <2>2
    <3>2. PICK i \in DOMAIN before : before[i] = Creation(c, c.splits[k])
      BY <1>l, <3>1 DEF AllCreated
    <3> QED BY <1>9, <3>2
  <2> QED BY <2>1, <2>2
<1>18. InOrder(place, r + 1)
  <2> SUFFICES ASSUME NEW j \in 1..(r + 1), NEW k \in 1..(r + 1), j < k
               PROVE  place[j] < place[k]
    BY DEF InOrder
  <2>1. j \in 1..r
    BY <1>1
  <2>2. CASE k = r + 1
    <3>1. place[j] \in 1..m
      BY <1>1, <1>3, <1>l, <2>1 DEF PaysAt
    <3> QED BY <1>2, <1>3, <1>p, <2>2, <3>1
  <2>3. CASE k \in 1..r
    BY <1>l, <2>1, <2>3 DEF InOrder
  <2> QED BY <1>13, <2>2, <2>3
<1>19. Laid(ixs, c, place, r)
  BY <1>14, <1>15, <1>16, <1>17, <1>18 DEF Laid
<1> QED BY <1>q, <1>19

\* What the primary payment lays down.
LEMMA LaidPrimary ==
  ASSUME NEW c, c.splits \in Seq(Range(c.splits)), NEW place, place[1] = 3
  PROVE  Laid(PrimaryInstructions(c), c, place, 0)
<1> DEFINE base == PrimaryInstructions(c)
           b == Behind(c.external_id)
<1>1. /\ Len(base) = 3 + b
      /\ base[1] = Compute("price", 1) /\ base[2] = Compute("limit", 200000)
      /\ base[3] = PayInstruction(c, c.recipient, PrimaryAmount(c))
      /\ c.external_id # None => base[4] = MemoIx(c.external_id)
  BY PrimaryShape
<1>2. b \in {0, 1} /\ (c.external_id # None <=> b = 1)
  BY DEF Behind
<1>3. base \in Seq(Range(base))
  BY PrimaryIsSeq
<1>4. base[3] = Pay(c, Expected(c)[1])
  <2>1. Expected(c)[1] = [owner |-> c.recipient, amount |-> PrimaryAmount(c)]
    BY ExpectedShape
  <2> HIDE DEF base
  <2> QED BY <1>1, <2>1 DEF Pay
<1>5. MemoFields(c)[1] = c.external_id
  BY FieldsShape
<1>q. base = PrimaryInstructions(c)
  OBVIOUS
<1> HIDE DEF base, b
<1>6. DOMAIN base = 1..(3 + b)
  BY <1>1, <1>3
<1>7. 1..(0 + 1) = {1} /\ 1..0 = {}
  OBVIOUS
<1>8. PaysAt(base, c, place, 0)
  BY <1>2, <1>4, <1>6, <1>7 DEF PaysAt
<1>9. NotesAt(base, c, place, 0)
  BY <1>1, <1>2, <1>5, <1>6, <1>7 DEF NotesAt
<1>10. Accounted(base, c, place, 0)
  <2> SUFFICES ASSUME NEW i \in DOMAIN base
               PROVE  Limits(base[i]) \/ Placed(i, c, place, 0)
    BY DEF Accounted
  <2>1. i = 1 \/ i = 2 \/ i = 3 \/ (c.external_id # None /\ i = 4)
    BY <1>2, <1>6
  <2>2. CASE i = 1 \/ i = 2
    BY <1>1, <2>2 DEF Limits
  <2>3. CASE i = 3
    BY <1>7, <2>3 DEF Placed
  <2>4. CASE c.external_id # None /\ i = 4
    BY <1>5, <1>7, <2>4 DEF Placed
  <2> QED BY <2>1, <2>2, <2>3, <2>4
<1>11. AllCreated(base, c, 0)
  BY <1>7 DEF AllCreated
<1>12. InOrder(place, 0 + 1)
  BY <1>7 DEF InOrder
<1>13. Laid(base, c, place, 0)
  BY <1>8, <1>9, <1>10, <1>11, <1>12 DEF Laid
<1> QED BY <1>q, <1>13

\* What build_charge_transaction_with_options lays down.
LEMMA LaidOut ==
  ASSUME NEW c, c.splits \in Seq(Range(c.splits))
  PROVE  \E place : Laid(BuildInstructions(c), c, place, Len(c.splits))
<1> DEFINE n == Len(c.splits)
<1>1. PICK P : /\ P[0] = PrimaryInstructions(c)
               /\ P[n] = BuildInstructions(c)
               /\ \A k \in 1..n : P[k] = Joined(P[k - 1], SplitInstructions(c, c.splits[k]))
               /\ \A k \in 0..n : P[k] \in Seq(Range(P[k]))
  BY BuiltSteps
<1>2. n \in Nat /\ n = Len(c.splits)
  OBVIOUS
<1> HIDE DEF n
<1> DEFINE place == [k \in 1..(n + 1) |->
                       IF k = 1 THEN 3 ELSE Len(P[k - 2]) + Ahead(c, c.splits[k - 1]) + 1]
           T == {k \in Nat : Laid(P[k], c, place, k)}
<1>3. place[1] = 3
  BY <1>2
<1>4. ASSUME NEW k \in 1..n
      PROVE  place[k + 1] = Len(P[k - 1]) + Ahead(c, c.splits[k]) + 1
  <2>1. k + 1 \in 1..(n + 1) /\ k + 1 # 1 /\ (k + 1) - 2 = k - 1 /\ (k + 1) - 1 = k
    BY <1>2
  <2> QED BY <2>1
<1> HIDE DEF place
<1>5. 0 \in T
  BY <1>1, <1>3, LaidPrimary
<1>6. ASSUME NEW k \in 1..n, k - 1 \in T
      PROVE  k \in T
  <2> DEFINE before == P[k - 1]
  <2>1. before \in Seq(Range(before)) /\ Laid(before, c, place, k - 1)
        /\ place[k + 1] = Len(before) + Ahead(c, c.splits[k]) + 1
        /\ P[k] = Joined(before, SplitInstructions(c, c.splits[k]))
    BY <1>1, <1>2, <1>4, <1>6
  <2>2. k \in 1..Len(c.splits) /\ k \in Nat
    BY <1>2
  <2> HIDE DEF before
  <2>3. Laid(Joined(before, SplitInstructions(c, c.splits[k])), c, place, k)
    BY <2>1, <2>2, LaidSplit
  <2>4. Laid(P[k], c, place, k)
    BY <2>1, <2>3
  <2> QED BY <2>2, <2>4
<1> HIDE DEF T
<1>7. n \in T
  <2>1. \A k \in 1..n : k - 1 \in T => k \in T
    BY <1>6
  <2>2. \A k \in 0..n : k \in T
    BY <1>2, <1>5, <2>1, PrefixSets, Zenon
  <2>3. n \in 0..n
    BY <1>2
  <2> QED BY <2>2, <2>3
<1>8. Laid(BuildInstructions(c), c, place, n)
  BY <1>1, <1>7 DEF T
<1> QED BY <1>2, <1>8

\* The token program the client resolved is one the server allows.
LEMMA ProgramsFit ==
  ASSUME NEW c, MayBuild(c), ~Native(c)
  PROVE  /\ ResolveTokenProgram(c) \in TokenPrograms
         /\ ResolveTokenProgram(c) \in PullPrograms(c)
         /\ PullPrograms(c) \subseteq TokenPrograms
<1>1. ResolveTokenProgram(c) \in TokenPrograms
  BY DEF MayBuild
<1>2. CASE c.token_program = None
  BY <1>1, <1>2 DEF PullPrograms
<1>3. CASE c.token_program # None
  BY <1>1, <1>3 DEF PullPrograms, ResolveTokenProgram
<1> QED BY <1>1, <1>2, <1>3

\* The verifier tells the client's instructions apart by their programs.
LEMMA ProgramsOf ==
  ASSUME NEW c, MayBuild(c)
  PROVE  /\ \A d : Pay(c, d).program \notin {"compute", "memo", "ata"}
         /\ \A ix : Limits(ix) => ix.program = "compute"
         /\ \A text : MemoIx(text).program = "memo"
         /\ \A split : Creation(c, split).program = "ata"
<1>t. TokenPrograms \cap {"compute", "memo", "system", "ata"} = {}
  BY TransactionAssumption
<1>1. ASSUME NEW d
      PROVE  Pay(c, d).program \notin {"compute", "memo", "ata"}
  <2>1. CASE Native(c)
    BY <2>1 DEF Pay, PayInstruction, SolTransfer
  <2>2. CASE ~Native(c)
    <3>1. Pay(c, d).program = ResolveTokenProgram(c)
      BY <2>2 DEF Pay, PayInstruction, TransferChecked
    <3> QED BY <1>t, <2>2, <3>1, ProgramsFit
  <2> QED BY <2>1, <2>2
<1>2. \A ix : Limits(ix) => ix.program = "compute"
  BY DEF Limits, Compute
<1>3. \A text : MemoIx(text).program = "memo"
  BY DEF MemoIx
<1>4. \A split : Creation(c, split).program = "ata"
  BY DEF Creation, CreateAtaIdempotent
<1> QED BY <1>1, <1>2, <1>3, <1>4

\* The program of an instruction says which part of the construction it is.
LEMMA Kinds ==
  ASSUME NEW c, MayBuild(c), NEW r \in Nat, NEW ixs, NEW place, Laid(ixs, c, place, r),
         NEW i \in DOMAIN ixs
  PROVE  /\ ixs[i].program = "compute" => Limits(ixs[i])
         /\ ixs[i].program = "ata" => Creates(ixs[i], c, r)
         /\ ixs[i].program = "memo" =>
              \E k \in 1..(r + 1) : i = place[k] + 1 /\ MemoFields(c)[k] # None
         /\ ixs[i].program \notin {"compute", "ata", "memo"} => \E k \in 1..(r + 1) : i = place[k]
<1>1. Limits(ixs[i]) \/ Creates(ixs[i], c, r) \/ Placed(i, c, place, r)
  BY DEF Laid, Accounted
<1>2. CASE Limits(ixs[i])
  BY <1>2, ProgramsOf
<1>3. CASE Creates(ixs[i], c, r)
  <2>1. ixs[i].program = "ata"
    BY <1>3, ProgramsOf DEF Creates
  <2> QED BY <1>3, <2>1
<1>4. CASE Placed(i, c, place, r)
  <2>1. PICK k \in 1..(r + 1) : i = place[k] \/ (i = place[k] + 1 /\ MemoFields(c)[k] # None)
    BY <1>4 DEF Placed
  <2>2. CASE i = place[k]
    <3>1. ixs[i] = Pay(c, Expected(c)[k])
      BY <2>2 DEF Laid, PaysAt
    <3>2. ixs[i].program \notin {"compute", "memo", "ata"}
      BY <3>1, ProgramsOf
    <3> QED BY <2>2, <3>2
  <2>3. CASE i = place[k] + 1 /\ MemoFields(c)[k] # None
    <3>1. ixs[i] = MemoIx(MemoFields(c)[k])
      BY <2>3 DEF Laid, NotesAt
    <3>2. ixs[i].program = "memo"
      BY <3>1, ProgramsOf
    <3> QED BY <2>3, <3>2
  <2> QED BY <2>1, <2>2, <2>3
<1> QED BY <1>1, <1>2, <1>3, <1>4

\* What the verifier could take or refuse is a transfer.
LEMMA HitsAreTransfers ==
  ASSUME NEW c, MayBuild(c), NEW ix, NEW d, NEW feePayer,
         PullTransfer(c, ix, d) \/ PullFatal(c, ix, d, feePayer)
  PROVE  ix.program \notin {"compute", "ata", "memo"}
<1>t. TokenPrograms \cap {"compute", "memo", "system", "ata"} = {}
  BY TransactionAssumption
<1>1. CASE Native(c)
  BY <1>1 DEF PullTransfer, PullFatal, IsSolTransfer
<1>2. CASE ~Native(c)
  <2>1. ix.program \in PullPrograms(c)
    BY <1>2 DEF PullTransfer, PullFatal, IsTokenTransfer
  <2> QED BY <1>t, <1>2, <2>1, ProgramsFit
<1> QED BY <1>1, <1>2

\* The client's transfer for a demand is one the verifier takes for it.
LEMMA PayIsHit ==
  ASSUME NEW c, MayBuild(c), NEW d
  PROVE  PullTransfer(c, Pay(c, d), d)
<1>1. CASE Native(c)
  <2>1. Pay(c, d) = SolTransfer(Signer, d.owner, d.amount)
    BY <1>1 DEF Pay, PayInstruction
  <2> QED BY <1>1, <2>1 DEF PullTransfer, IsSolTransfer, SolTransfer
<1>2. CASE ~Native(c)
  <2> DEFINE program == ResolveTokenProgram(c)
             mint == MintOf(c)
             ix == Pay(c, d)
  <2>1. ix = TransferChecked(program, Ata(Signer, program, mint), mint,
                             Ata(d.owner, program, mint), Signer, d.amount, Decimals(c))
    BY <1>2 DEF Pay, PayInstruction
  <2>2. program \in PullPrograms(c)
    BY <1>2, ProgramsFit
  <2>3. c.decimals \in {None, Decimals(c)}
    BY DEF Decimals
  <2> HIDE DEF program, ix, mint
  <2>4. /\ ix.program = program /\ ix.op = "transferChecked" /\ ix.amount = d.amount
        /\ ix.mint = mint /\ ix.decimals = Decimals(c) /\ ix.dest = Ata(d.owner, program, mint)
    BY <2>1 DEF TransferChecked
  <2>5. IsTokenTransfer(ix, d.amount, mint, PullPrograms(c), c.decimals)
    BY <2>2, <2>3, <2>4 DEF IsTokenTransfer
  <2>6. ix.dest = Ata(d.owner, ix.program, mint)
    BY <2>4
  <2> QED BY <1>2, <2>5, <2>6 DEF PullTransfer, ix, mint
<1> QED BY <1>1, <1>2

\* It is the client's own money, so the sponsor funds it exactly when the sponsor
\* is the client.
LEMMA PayFunded ==
  ASSUME NEW c, NEW d, NEW feePayer, feePayer # None
  PROVE  FundedByFeePayer(c, Pay(c, d), feePayer) <=> feePayer = Signer
<1>1. CASE Native(c)
  <2>1. Pay(c, d).source = Signer
    BY <1>1 DEF Pay, PayInstruction, SolTransfer
  <2> QED BY <1>1, <2>1 DEF FundedByFeePayer
<1>2. CASE ~Native(c)
  <2> DEFINE program == ResolveTokenProgram(c)
             ix == Pay(c, d)
  <2>1. ix.authority = Signer /\ ix.source = Ata(Signer, program, MintOf(c))
    BY <1>2 DEF Pay, PayInstruction, TransferChecked
  <2> HIDE DEF program, ix
  <2>2. ix.source.owner = Signer
    BY <2>1 DEF Ata
  <2>3. ix.source = Ata(feePayer, ix.program, ix.mint) => feePayer = Signer
    BY <2>2 DEF Ata
  <2> QED BY <1>2, <2>1, <2>3 DEF FundedByFeePayer, ix
<1> QED BY <1>1, <1>2

-----------------------------------------------------------------------------
(* What the server makes of it. *)

PullTransfers(c, ixs) ==
  MatchInOrder(Expected(c), PullHits(c, ixs), PullFatals(c, ixs, FeePayerOf(c)), Untaken)

PullMatched(c, ixs) == MatchMemos(ixs, c, PullTransfers(c, ixs))

\* What a demand could take or refuse depends on the demand alone.
LEMMA HitsIndexed ==
  ASSUME NEW c, NEW n \in Nat, DOMAIN Expected(c) = 1..n, NEW ixs, ixs \in Seq(Range(ixs))
  PROVE  /\ Indexed(Expected(c), PullHits(c, ixs), PullFatals(c, ixs, FeePayerOf(c)), n)
         /\ \A k \in 1..n :
              /\ PullHits(c, ixs)[Expected(c)[k]]
                   = {i \in DOMAIN ixs : PullTransfer(c, ixs[i], Expected(c)[k])}
              /\ PullFatals(c, ixs, FeePayerOf(c))[Expected(c)[k]]
                   = {i \in DOMAIN ixs : PullFatal(c, ixs[i], Expected(c)[k], FeePayerOf(c))}
<1> DEFINE E == Expected(c)
           hits == PullHits(c, ixs)
           fatals == PullFatals(c, ixs, FeePayerOf(c))
<1>1. \A k \in 1..n : E[k] \in Range(E)
  BY DEF Range
<1>2. ASSUME NEW k \in 1..n
      PROVE  /\ hits[E[k]] = {i \in DOMAIN ixs : PullTransfer(c, ixs[i], E[k])}
             /\ fatals[E[k]] = {i \in DOMAIN ixs : PullFatal(c, ixs[i], E[k], FeePayerOf(c))}
  <2>1. E[k] \in Range(E)
    BY <1>1
  <2> HIDE DEF E
  <2>2. E[k] \in Range(Expected(c))
    BY <2>1 DEF E
  <2> QED BY <2>2, Zenon DEF PullHits, PullFatals
<1>3. DOMAIN ixs \in SUBSET Nat
  OBVIOUS
<1> HIDE DEF E, hits, fatals
<1>4. Indexed(E, hits, fatals, n)
  <2> SUFFICES ASSUME NEW k \in 1..n
               PROVE  hits[E[k]] \in SUBSET Nat /\ fatals[E[k]] \in SUBSET Nat
    BY DEF Indexed
  <2> QED BY <1>2, <1>3
<1> QED BY <1>2, <1>4 DEF E, hits, fatals

\* Every demand takes the transfer that was made for it.
LEMMA TransfersTaken ==
  ASSUME NEW c, c.splits \in Seq(Range(c.splits)), MayBuild(c), FeePayerOf(c) # Signer,
         NEW n, n = Len(c.splits), NEW ixs, ixs \in Seq(Range(ixs)),
         NEW place, Laid(ixs, c, place, n)
  PROVE  /\ PullTransfers(c, ixs) \in Matching /\ PullTransfers(c, ixs).ok
         /\ PullTransfers(c, ixs).taken = {place[k] : k \in 1..(n + 1)}
<1> DEFINE E == Expected(c)
           N == n + 1
           hits == PullHits(c, ixs)
           fatals == PullFatals(c, ixs, FeePayerOf(c))
<1>0. n \in Nat /\ DOMAIN Expected(c) = 1..(n + 1)
  BY ExpectedShape, Zenon
<1>1. n \in Nat /\ N \in Nat /\ DOMAIN E = 1..N
  BY <1>0
<1>2. /\ Indexed(E, hits, fatals, N)
      /\ \A k \in 1..N : /\ hits[E[k]] = {i \in DOMAIN ixs : PullTransfer(c, ixs[i], E[k])}
                         /\ fatals[E[k]] = {i \in DOMAIN ixs :
                                              PullFatal(c, ixs[i], E[k], FeePayerOf(c))}
  <2> HIDE DEF N
  <2> QED BY <1>1, HitsIndexed
<1>3. \A k \in 1..N : place[k] \in DOMAIN ixs /\ ixs[place[k]] = Pay(c, E[k])
  BY DEF Laid, PaysAt
<1>4. InOrder(place, N)
  BY DEF Laid
<1>n. N = n + 1
  OBVIOUS
<1> HIDE DEF E, N, hits, fatals
<1>5. ASSUME NEW i \in DOMAIN ixs, ixs[i].program \notin {"compute", "ata", "memo"}
      PROVE  \E k \in 1..N : i = place[k] /\ ixs[i] = Pay(c, E[k])
  <2>1. \E k \in 1..(n + 1) : i = place[k]
    BY <1>1, <1>5, Kinds
  <2> QED BY <1>3, <1>n, <2>1
<1>6. Standing(place, E, hits, fatals, N)
  <2> SUFFICES ASSUME NEW k \in 1..N
               PROVE  /\ place[k] \in hits[E[k]] /\ fatals[E[k]] = {}
                      /\ \A i \in hits[E[k]] : \E j \in 1..N : i = place[j]
    BY DEF Standing
  <2>1. place[k] \in hits[E[k]]
    BY <1>2, <1>3, PayIsHit
  <2>2. ASSUME NEW i \in hits[E[k]]
        PROVE  \E j \in 1..N : i = place[j]
    <3>1. i \in DOMAIN ixs /\ PullTransfer(c, ixs[i], E[k])
      BY <1>2
    <3>2. ixs[i].program \notin {"compute", "ata", "memo"}
      BY <3>1, HitsAreTransfers
    <3> QED BY <1>5, <3>1, <3>2
  <2>3. ASSUME NEW i \in fatals[E[k]]
        PROVE  FALSE
    <3>1. i \in DOMAIN ixs /\ PullFatal(c, ixs[i], E[k], FeePayerOf(c))
      BY <1>2
    <3>2. ixs[i].program \notin {"compute", "ata", "memo"}
      BY <3>1, HitsAreTransfers
    <3>3. PICK j \in 1..N : ixs[i] = Pay(c, E[j])
      BY <1>5, <3>1, <3>2
    <3>4. FeePayerOf(c) # None /\ FundedByFeePayer(c, Pay(c, E[j]), FeePayerOf(c))
      BY <3>1, <3>3 DEF PullFatal, FundedByFeePayer
    <3> QED BY <3>4, PayFunded
  <2> QED BY <2>1, <2>2, <2>3
<1>7. Untaken \in Matching /\ Untaken.ok /\ Untaken.taken = {}
  BY DEF Untaken, Matching
<1> DEFINE result == MatchInOrder(E, hits, fatals, Untaken)
<1>8. /\ result \in Matching /\ result.ok
      /\ result.taken = Untaken.taken \cup {place[k] : k \in 1..N}
  <2>1. \A k \in 1..N : place[k] \notin Untaken.taken
    BY <1>7
  <2> QED BY <1>1, <1>2, <1>4, <1>6, <1>7, <2>1, MatchTakesPlaces
<1>9. result.taken = {place[k] : k \in 1..N}
  BY <1>7, <1>8
<1>10. result = PullTransfers(c, ixs)
  BY DEF PullTransfers, E, hits, fatals
<1> HIDE DEF result
<1> QED BY <1>8, <1>9, <1>10 DEF N

\* And every memo the charge expects the one behind its transfer.
LEMMA MemosFound ==
  ASSUME NEW c, c.splits \in Seq(Range(c.splits)), MayBuild(c), FeePayerOf(c) # Signer,
         EmptyMemo \notin Range(MemoFields(c)),
         NEW n, n = Len(c.splits), NEW ixs, ixs \in Seq(Range(ixs)),
         NEW place, Laid(ixs, c, place, n)
  PROVE  /\ PullMatched(c, ixs).ok
         /\ \A k \in 1..(n + 1) :
              /\ place[k] \in PullMatched(c, ixs).taken
              /\ MemoFields(c)[k] # None => place[k] + 1 \in PullMatched(c, ixs).taken
<1> DEFINE fields == MemoFields(c)
           memos == ExpectedMemos(c)
           m == Len(memos)
           N == n + 1
           transfers == PullTransfers(c, ixs)
           hits == [x \in Range(memos) |-> {i \in DOMAIN ixs : IsMemo(ixs[i], x)}]
           fatal == [x \in Range(memos) |-> {}]
           result == MatchInOrder(memos, hits, fatal, transfers)
<1>1. n \in Nat /\ N \in Nat /\ DOMAIN fields = 1..N
  BY FieldsShape
<1>2. m \in Nat /\ DOMAIN memos = 1..m
  BY MemosAreSeq
<1>3. PICK origin : Thinned(memos, fields, origin, N)
  <2> HIDE DEF N
  <2> QED BY <1>1, MemosThinned
<1>4. transfers \in Matching /\ transfers.ok /\ transfers.taken = {place[k] : k \in 1..N}
  BY TransfersTaken
<1>5. result = PullMatched(c, ixs)
  BY DEF PullMatched, MatchMemos
<1>6. \A k \in 1..m : memos[k] \in Range(memos)
  BY <1>2 DEF Range
<1>7. ASSUME NEW k \in 1..m
      PROVE  /\ hits[memos[k]] = {i \in DOMAIN ixs : IsMemo(ixs[i], memos[k])}
             /\ fatal[memos[k]] = {}
  <2>1. memos[k] \in Range(memos)
    BY <1>6
  <2> HIDE DEF memos
  <2> QED BY <2>1, Zenon
<1>8. DOMAIN ixs \in SUBSET Nat
  OBVIOUS
<1>9. \A k \in 1..N : fields[k] # None => /\ place[k] + 1 \in DOMAIN ixs
                                         /\ ixs[place[k] + 1] = MemoIx(fields[k])
  BY DEF Laid, NotesAt
<1>10. \A k \in 1..N : place[k] \in DOMAIN ixs /\ ixs[place[k]] = Pay(c, Expected(c)[k])
  BY DEF Laid, PaysAt
<1>11. InOrder(place, N)
  BY DEF Laid
<1>12. \A k \in 1..N : fields[k] # EmptyMemo
  BY <1>1 DEF Range
<1>n. N = n + 1 /\ m = Len(memos)
  OBVIOUS
<1>f. fields = MemoFields(c)
  OBVIOUS
<1> HIDE DEF fields, memos, m, N, transfers, hits, fatal, result
<1> DEFINE p == [k \in 1..m |-> place[origin[k]] + 1]
<1>13. ASSUME NEW k \in 1..m
       PROVE  /\ p[k] = place[origin[k]] + 1
              /\ origin[k] \in 1..N /\ memos[k] = fields[origin[k]]
              /\ fields[origin[k]] \notin {None, EmptyMemo}
  BY <1>3, <1>n DEF Thinned
<1> HIDE DEF p
<1>14. InOrder(p, m)
  <2> SUFFICES ASSUME NEW j \in 1..m, NEW k \in 1..m, j < k PROVE p[j] < p[k]
    BY DEF InOrder
  <2>1. origin[j] < origin[k]
    BY <1>3, <1>n DEF Thinned, InOrder
  <2>2. origin[j] \in 1..N /\ origin[k] \in 1..N
    BY <1>13
  <2>3. place[origin[j]] < place[origin[k]]
    BY <1>11, <2>1, <2>2 DEF InOrder
  <2>4. place[origin[j]] \in Nat /\ place[origin[k]] \in Nat
    BY <1>8, <1>10, <2>2
  <2>5. p[j] = place[origin[j]] + 1 /\ p[k] = place[origin[k]] + 1
    BY <1>13
  <2> QED BY <2>3, <2>4, <2>5
<1>15. Indexed(memos, hits, fatal, m)
  BY <1>7, <1>8 DEF Indexed
<1>16. Standing(p, memos, hits, fatal, m)
  <2> SUFFICES ASSUME NEW k \in 1..m
               PROVE  /\ p[k] \in hits[memos[k]] /\ fatal[memos[k]] = {}
                      /\ \A i \in hits[memos[k]] : \E j \in 1..m : i = p[j]
    BY DEF Standing
  <2>1. p[k] \in hits[memos[k]]
    <3>1. p[k] \in DOMAIN ixs /\ ixs[p[k]] = MemoIx(memos[k])
      BY <1>9, <1>13
    <3>2. IsMemo(ixs[p[k]], memos[k])
      BY <3>1 DEF IsMemo, MemoIx
    <3> QED BY <1>7, <3>1, <3>2
  <2>2. ASSUME NEW i \in hits[memos[k]]
        PROVE  \E j \in 1..m : i = p[j]
    <3>1. i \in DOMAIN ixs /\ ixs[i].program = "memo"
      BY <1>7 DEF IsMemo
    <3>2. PICK x \in 1..N : i = place[x] + 1 /\ fields[x] # None
      <4>1. \E x \in 1..(n + 1) : i = place[x] + 1 /\ MemoFields(c)[x] # None
        BY <1>1, <3>1, Kinds
      <4> QED BY <1>f, <1>n, <4>1
    <3>3. PICK j \in 1..m : origin[j] = x
      BY <1>3, <1>12, <1>n, <3>2 DEF Thinned
    <3>4. i = p[j]
      BY <1>13, <3>2, <3>3
    <3> QED BY <3>4
  <2> QED BY <1>7, <2>1, <2>2
<1>17. ASSUME NEW k \in 1..m
       PROVE  p[k] \notin transfers.taken
  <2> SUFFICES ASSUME NEW x \in 1..N, p[k] = place[x] PROVE FALSE
    BY <1>4
  <2>1. ixs[p[k]].program = "memo"
    <3>1. ixs[p[k]] = MemoIx(memos[k])
      BY <1>9, <1>13
    <3> QED BY <3>1, ProgramsOf
  <2>2. ixs[p[k]].program # "memo"
    <3>1. ixs[p[k]] = Pay(c, Expected(c)[x])
      BY <1>10
    <3> QED BY <3>1, ProgramsOf
  <2> QED BY <2>1, <2>2
<1>18. result.ok /\ result.taken = transfers.taken \cup {p[k] : k \in 1..m}
  BY <1>2, <1>4, <1>14, <1>15, <1>16, <1>17, MatchTakesPlaces DEF result
<1>19. ASSUME NEW k \in 1..N
       PROVE  /\ place[k] \in result.taken
              /\ fields[k] # None => place[k] + 1 \in result.taken
  <2>1. place[k] \in result.taken
    BY <1>4, <1>18
  <2>2. ASSUME fields[k] # None
        PROVE  place[k] + 1 \in result.taken
    <3>1. PICK j \in 1..m : origin[j] = k
      BY <1>3, <1>12, <1>n, <2>2 DEF Thinned
    <3>2. p[j] = place[k] + 1
      BY <1>13, <3>1
    <3> QED BY <1>18, <3>2
  <2> QED BY <2>1, <2>2
<1> QED BY <1>5, <1>18, <1>19 DEF N, fields

\* The parts of verify_versioned_transaction_pre_broadcast.
LEMMA PullVerifies ==
  ASSUME NEW c, NEW t
  PROVE  VerifyPreBroadcast(c, t) <=>
           /\ RejectAddressLookupTables(t)
           /\ Len(c.splits) <= MaxSplits
           /\ WellFormed(c)
           /\ PaidByExpected(c, t)
           /\ AtaCreationFits(c)
           /\ ~Native(c) => MintOf(c) \in Mints /\ PullPrograms(c) \subseteq TokenPrograms
           /\ MemosFit(ExpectedMemos(c))
           /\ PullMatched(c, t.instructions).ok
           /\ PullAllowlist(c, t, FeePayerOf(c), PullMatched(c, t.instructions).taken)
  BY Zenon DEF VerifyPreBroadcast, PullHits, PullFatals, FeePayerOf, PullTransfers, PullMatched

\* A token account the client creates is one the challenge lets it create.
LEMMA CreationFits ==
  ASSUME NEW c, MayBuild(c), ~Unpayable(c), NEW t, t.payer = Payer(c),
         NEW k \in DOMAIN c.splits, CreatesAta(c, c.splits[k])
  PROVE  PullAtaCreation(c, t, FeePayerOf(c), Creation(c, c.splits[k]))
<1> DEFINE split == c.splits[k]
           ix == Creation(c, split)
           program == ResolveTokenProgram(c)
           mint == MintOf(c)
<1>1. ~Native(c) /\ (UsesFeePayer(c) => split.ata_required)
  BY DEF CreatesAta
<1>2. program \in PullPrograms(c)
  BY <1>1, ProgramsFit
<1>3. split.recipient \in AllowedOwners(c, FeePayerOf(c))
  <2>1. CASE c.fee_payer
    <3>1. UsesFeePayer(c) /\ FeePayerOf(c) = c.fee_payer_key /\ FeePayerOf(c) # None
      BY <2>1 DEF UsesFeePayer, FeePayerOf, Unpayable
    <3>2. split.recipient \in RequiredOwners(c)
      BY <1>1, <3>1 DEF RequiredOwners
    <3> QED BY <3>1, <3>2 DEF AllowedOwners
  <2>2. CASE ~c.fee_payer
    BY <2>2 DEF AllowedOwners, FeePayerOf
  <2> QED BY <2>1, <2>2
<1>4. ix = CreateAtaIdempotent(Payer(c), split.recipient, mint, program)
  BY DEF Creation
<1> HIDE DEF split, ix, program, mint
<1>5. /\ ix.op = "createIdempotent" /\ ix.payer = Payer(c) /\ ix.owner = split.recipient
      /\ ix.mint = mint /\ ix.token_program = program
      /\ ix.ata = Ata(split.recipient, program, mint)
  BY <1>4 DEF CreateAtaIdempotent
<1>6. IsAtaCreation(ix, mint, AllowedOwners(c, FeePayerOf(c)), PullPrograms(c), {t.payer})
  BY <1>2, <1>3, <1>5 DEF IsAtaCreation
<1> QED BY <1>1, <1>6 DEF PullAtaCreation, ix, mint, split

\* The client's compute budget is within the server's limits.
LEMMA LimitsAreValid ==
  ASSUME NEW ix, Limits(ix)
  PROVE  ValidComputeBudget(ix)
  BY DEF Limits, Compute, ValidComputeBudget

\* The server accepts what the client builds.
LEMMA BuiltIsAccepted ==
  ASSUME NEW c, c.splits \in Seq(Range(c.splits)), MayBuild(c), ~Unpayable(c)
  PROVE  VerifyPreBroadcast(c, BuildChargeTransaction(c))
<1> DEFINE t == BuildChargeTransaction(c)
           ixs == BuildInstructions(c)
           n == Len(c.splits)
           taken == PullMatched(c, ixs).taken
<1>1. t.payer = Payer(c) /\ t.lookups = FALSE /\ t.instructions = ixs
  BY DEF BuildChargeTransaction
<1>2. n \in Nat /\ DOMAIN c.splits = 1..n /\ n = Len(c.splits)
  OBVIOUS
<1>3. ixs \in Seq(Range(ixs))
  BY BuiltIsSeq
<1>4. PICK place : Laid(ixs, c, place, n)
  BY LaidOut
<1>5. FeePayerOf(c) # Signer
  <2>1. Signer # None
    BY TransactionAssumption
  <2> QED BY <2>1 DEF FeePayerOf, Unpayable
<1>6. EmptyMemo \notin Range(MemoFields(c))
  BY DEF Unpayable
<1> HIDE DEF t, ixs, n, taken
<1>7. /\ PullMatched(c, ixs).ok
      /\ \A k \in 1..(n + 1) :
           /\ place[k] \in PullMatched(c, ixs).taken
           /\ MemoFields(c)[k] # None => place[k] + 1 \in PullMatched(c, ixs).taken
  BY <1>2, <1>3, <1>4, <1>5, <1>6, MemosFound
<1>8. PaidByExpected(c, t)
  <2> SUFFICES ASSUME c.fee_payer PROVE c.fee_payer_key \in Wallets /\ t.payer = c.fee_payer_key
    BY DEF PaidByExpected
  <2>1. UsesFeePayer(c)
    BY DEF UsesFeePayer, Unpayable
  <2> QED BY <1>1, <2>1 DEF MayBuild, Payer
<1>9. MemosFit(ExpectedMemos(c))
  <2>1. n + 1 \in Nat /\ DOMAIN MemoFields(c) = 1..(n + 1)
    BY <1>2, FieldsShape
  <2>2. PICK origin : Thinned(ExpectedMemos(c), MemoFields(c), origin, n + 1)
    <3> DEFINE N == n + 1
    <3>1. N \in Nat /\ DOMAIN MemoFields(c) = 1..N
      BY <2>1
    <3> HIDE DEF N
    <3>2. \E origin : Thinned(ExpectedMemos(c), MemoFields(c), origin, N)
      BY <3>1, MemosThinned
    <3> QED BY <3>2 DEF N
  <2>3. ExpectedMemos(c) \in Seq(Range(ExpectedMemos(c)))
    BY MemosAreSeq
  <2>4. MemosFit(MemoFields(c))
    BY DEF MayBuild
  <2> SUFFICES ASSUME NEW k \in DOMAIN ExpectedMemos(c)
               PROVE  ExpectedMemos(c)[k] \notin LongMemos
    BY DEF MemosFit
  <2>5. k \in 1..Len(ExpectedMemos(c))
    BY <2>3
  <2>6. origin[k] \in 1..(n + 1) /\ ExpectedMemos(c)[k] = MemoFields(c)[origin[k]]
    BY <2>2, <2>5 DEF Thinned
  <2> QED BY <2>1, <2>4, <2>6 DEF MemosFit
<1>10. ASSUME NEW i \in DOMAIN ixs
       PROVE  /\ ixs[i].program = "compute" => ValidComputeBudget(ixs[i])
              /\ ixs[i].program = "ata" => PullAtaCreation(c, t, FeePayerOf(c), ixs[i])
              /\ ixs[i].program \notin {"compute", "ata"} => i \in taken
  <2>1. /\ ixs[i].program = "compute" => Limits(ixs[i])
        /\ ixs[i].program = "ata" => Creates(ixs[i], c, n)
        /\ ixs[i].program = "memo" =>
             \E k \in 1..(n + 1) : i = place[k] + 1 /\ MemoFields(c)[k] # None
        /\ ixs[i].program \notin {"compute", "ata", "memo"} =>
             \E k \in 1..(n + 1) : i = place[k]
    BY <1>2, <1>4, Kinds
  <2>2. ixs[i].program = "compute" => ValidComputeBudget(ixs[i])
    BY <2>1, LimitsAreValid
  <2>3. ASSUME ixs[i].program = "ata"
        PROVE  PullAtaCreation(c, t, FeePayerOf(c), ixs[i])
    <3>1. PICK k \in 1..n : CreatesAta(c, c.splits[k]) /\ ixs[i] = Creation(c, c.splits[k])
      BY <2>1, <2>3 DEF Creates
    <3>2. PullAtaCreation(c, t, FeePayerOf(c), Creation(c, c.splits[k]))
      BY <1>1, <1>2, <3>1, CreationFits
    <3> QED BY <3>1, <3>2
  <2>4. ixs[i].program \notin {"compute", "ata"} => i \in taken
    BY <1>7, <2>1 DEF taken
  <2> QED BY <2>2, <2>3, <2>4
<1>11. RequiredOwners(c) \subseteq {ixs[i].owner : i \in Calls(ixs, "ata")}
  <2> SUFFICES ASSUME NEW k \in DOMAIN c.splits, c.splits[k].ata_required
               PROVE  \E i \in Calls(ixs, "ata") : ixs[i].owner = c.splits[k].recipient
    BY DEF RequiredOwners
  <2>1. ~Native(c)
    <3>1. c.splits[k].recipient \in RequiredOwners(c)
      BY DEF RequiredOwners
    <3> QED BY <3>1 DEF MayBuild, AtaCreationFits
  <2>2. CreatesAta(c, c.splits[k])
    BY <2>1 DEF CreatesAta
  <2>3. PICK i \in DOMAIN ixs : ixs[i] = Creation(c, c.splits[k])
    BY <1>2, <1>4, <2>2 DEF Laid, AllCreated
  <2>4. ixs[i].program = "ata" /\ ixs[i].owner = c.splits[k].recipient
    BY <2>3 DEF Creation, CreateAtaIdempotent
  <2> QED BY <2>3, <2>4 DEF Calls
<1>12. PullAllowlist(c, t, FeePayerOf(c), taken)
  BY <1>1, <1>10, <1>11 DEF PullAllowlist, Allowlist, Calls
<1>13. ~Native(c) => MintOf(c) \in Mints /\ PullPrograms(c) \subseteq TokenPrograms
  BY ProgramsFit DEF MayBuild
<1>14. Len(c.splits) <= MaxSplits /\ WellFormed(c) /\ AtaCreationFits(c)
  BY DEF MayBuild
<1>15. RejectAddressLookupTables(t)
  BY <1>1 DEF RejectAddressLookupTables
<1>16. VerifyPreBroadcast(c, t)
  BY <1>1, <1>7, <1>8, <1>9, <1>12, <1>13, <1>14, <1>15, PullVerifies DEF taken
<1> QED BY <1>16 DEF t

\* A memo that was sent empty is an instruction no demand takes.
LEMMA EmptyMemoIsLeft ==
  ASSUME NEW c, c.splits \in Seq(Range(c.splits)), MayBuild(c),
         EmptyMemo \in Range(MemoFields(c)),
         VerifyPreBroadcast(c, BuildChargeTransaction(c))
  PROVE  FALSE
<1> DEFINE ixs == BuildInstructions(c)
           t == BuildChargeTransaction(c)
           n == Len(c.splits)
           m == Len(ixs)
           transfers == PullTransfers(c, ixs)
           taken == PullMatched(c, ixs).taken
<1>1. t.instructions = ixs
  BY DEF BuildChargeTransaction
<1>2. n \in Nat /\ n + 1 \in Nat /\ n = Len(c.splits)
  OBVIOUS
<1>3. ixs \in Seq(Range(ixs))
  BY BuiltIsSeq
<1>4. PICK place : Laid(ixs, c, place, n)
  BY LaidOut
<1>5. PullMatched(c, ixs).ok /\ PullAllowlist(c, t, FeePayerOf(c), taken)
  BY <1>1, PullVerifies
<1> HIDE DEF ixs, t, n, transfers, taken, m
<1>6. DOMAIN MemoFields(c) = 1..(n + 1) /\ DOMAIN Expected(c) = 1..(n + 1)
  <2>1. DOMAIN MemoFields(c) = 1..(n + 1)
    BY <1>2, FieldsShape
  <2>2. DOMAIN Expected(c) = 1..(n + 1)
    BY <1>2, ExpectedShape, Zenon
  <2> QED BY <2>1, <2>2
<1>7. PICK k \in 1..(n + 1) : MemoFields(c)[k] = EmptyMemo
  BY <1>6 DEF Range
<1>8. None # EmptyMemo
  BY TransactionAssumption
<1> DEFINE i == place[k] + 1
<1>9. i \in DOMAIN ixs /\ ixs[i] = MemoIx(EmptyMemo)
  BY <1>4, <1>7, <1>8 DEF Laid, NotesAt
<1> HIDE DEF i
<1>10. ixs[i].program = "memo" /\ ixs[i].text = EmptyMemo
  BY <1>9 DEF MemoIx
<1>11. i \in taken
  BY <1>1, <1>5, <1>9, <1>10 DEF PullAllowlist, Allowlist, Calls
<1>12. m \in Nat /\ DOMAIN ixs = 1..m
  BY <1>3 DEF m
<1> DEFINE E == Expected(c)
           N == n + 1
           hits == PullHits(c, ixs)
           fatals == PullFatals(c, ixs, FeePayerOf(c))
<1>13. N \in Nat /\ DOMAIN E = 1..N
  BY <1>2, <1>6
<1> HIDE DEF N
<1>14. /\ Indexed(E, hits, fatals, N)
       /\ \A j \in 1..N : hits[E[j]] = {x \in DOMAIN ixs : PullTransfer(c, ixs[x], E[j])}
  BY <1>3, <1>13, HitsIndexed
<1>15. Untaken \in Matching /\ Untaken.taken = {}
  BY DEF Untaken, Matching
<1>16. transfers = MatchInOrder(E, hits, fatals, Untaken)
  BY DEF transfers, PullTransfers
<1> HIDE DEF E, hits, fatals
<1>17. transfers \in Matching
  <2>1. \E P : P[N] = MatchInOrder(E, hits, fatals, Untaken) /\ \A j \in 0..N : P[j] \in Matching
    BY <1>13, <1>14, <1>15, MatchSteps
  <2>2. N \in 0..N
    BY <1>13
  <2> QED BY <1>16, <2>1, <2>2
<1>18. transfers.ok /\ (i \in transfers.taken \/ ixs[i].text \in Range(ExpectedMemos(c)))
  <2>1. MatchMemos(ixs, c, transfers).ok /\ i \in MatchMemos(ixs, c, transfers).taken
    BY <1>5, <1>11 DEF PullMatched, transfers, taken
  <2> QED BY <1>12, <1>17, <2>1, MemosTaken
<1>19. i \notin transfers.taken
  <2> SUFFICES ASSUME i \in transfers.taken PROVE FALSE
    OBVIOUS
  <2>1. MatchInOrder(E, hits, fatals, Untaken).ok
    BY <1>16, <1>18
  <2>2. PICK T : /\ T[0] = Untaken.taken
                 /\ T[N] = MatchInOrder(E, hits, fatals, Untaken).taken
                 /\ \A j \in 1..N : Took(T, j, E, hits, fatals)
    BY <1>13, <1>14, <1>15, <2>1, MatchSucceeds
  <2>3. i \in T[N] /\ i \notin T[0]
    BY <1>15, <1>16, <2>2
  <2>4. PICK j \in 1..N : i \in hits[E[j]] \ fatals[E[j]]
    BY <1>13, <2>2, <2>3, TakenAreHits
  <2>5. PullTransfer(c, ixs[i], E[j])
    BY <1>14, <2>4
  <2> QED BY <1>10, <2>5, HitsAreTransfers
<1>20. EmptyMemo \notin Range(ExpectedMemos(c))
  <2>1. PICK origin : Thinned(ExpectedMemos(c), MemoFields(c), origin, N)
    BY <1>6, <1>13, MemosThinned DEF N
  <2>2. ExpectedMemos(c) \in Seq(Range(ExpectedMemos(c)))
    BY MemosAreSeq
  <2> SUFFICES ASSUME NEW j \in 1..Len(ExpectedMemos(c)), ExpectedMemos(c)[j] = EmptyMemo
               PROVE  FALSE
    BY <2>2 DEF Range
  <2> QED BY <2>1 DEF Thinned
<1> QED BY <1>10, <1>18, <1>19, <1>20

\* A sponsor that is the client itself would fund the payment.
LEMMA SponsorCannotPay ==
  ASSUME NEW c, IsChargeRequest(c), MayBuild(c), FeePayerOf(c) = Signer,
         VerifyPreBroadcast(c, BuildChargeTransaction(c))
  PROVE  FALSE
<1> DEFINE t == BuildChargeTransaction(c)
           ixs == BuildInstructions(c)
           n == Len(c.splits)
           N == n + 1
           m == Len(ixs)
           E == Expected(c)
           hits == PullHits(c, ixs)
           fatals == PullFatals(c, ixs, FeePayerOf(c))
<1>0. c.splits \in Seq(Range(c.splits)) /\ Signer # None
  BY TransactionAssumption DEF IsChargeRequest
<1>1. /\ t.instructions = ixs
      /\ t = [payer |-> t.payer, lookups |-> t.lookups, instructions |-> t.instructions]
  BY DEF BuildChargeTransaction
<1>2. n \in Nat /\ N \in Nat /\ 1 \in 1..N /\ N = n + 1
  BY <1>0
<1>3. ixs \in Seq(Range(ixs))
  BY <1>0, BuiltIsSeq
<1>4. PICK place : Laid(ixs, c, place, n)
  BY <1>0, LaidOut
<1>5. DOMAIN E = 1..N
  BY <1>0, ExpectedShape, Zenon
<1>6. PICK T : \A k \in 1..N : Took(T, k, E, hits, fatals)
  <2>1. IsTransaction(t)
    BY <1>1, <1>3 DEF IsTransaction
  <2>2. \E T : \A k \in 1..N : Took(T, k, Expected(c), PullHits(c, t.instructions),
                                    PullFatals(c, t.instructions, FeePayerOf(c)))
    <3> HIDE DEF t
    <3> QED BY <2>1, AcceptedTakes DEF t
  <2> QED BY <1>1, <2>2
<1> HIDE DEF t, ixs, n, N, m, E, hits, fatals
<1>7. \A k \in 1..N : /\ hits[E[k]] = {i \in DOMAIN ixs : PullTransfer(c, ixs[i], E[k])}
                      /\ fatals[E[k]] = {i \in DOMAIN ixs :
                                           PullFatal(c, ixs[i], E[k], FeePayerOf(c))}
  BY <1>2, <1>3, <1>5, HitsIndexed DEF E, hits, fatals
<1>8. PICK i \in hits[E[1]] : i \notin fatals[E[1]]
  BY <1>2, <1>6 DEF Took
<1>9. i \in DOMAIN ixs /\ PullTransfer(c, ixs[i], E[1])
  BY <1>2, <1>7, <1>8
<1>10. ixs[i].program \notin {"compute", "ata", "memo"}
  BY <1>9, HitsAreTransfers
<1>11. PICK k \in 1..N : i = place[k]
  <2>1. \E k \in 1..(n + 1) : i = place[k]
    BY <1>2, <1>4, <1>9, <1>10, Kinds
  <2> QED BY <1>2, <2>1
<1>12. ixs[i] = Pay(c, E[k])
  BY <1>2, <1>4, <1>11 DEF Laid, PaysAt, E
<1>13. FundedByFeePayer(c, ixs[i], FeePayerOf(c))
  BY <1>0, <1>12, PayFunded
<1>14. PullFatal(c, ixs[i], E[1], FeePayerOf(c))
  BY <1>9, <1>13 DEF PullFatal, PullTransfer
<1> QED BY <1>2, <1>7, <1>8, <1>9, <1>14

\* The server accepts what the client builds for exactly the payable charges.
LEMMA BuiltIsAcceptedOrUnpayable ==
  ASSUME NEW c, IsChargeRequest(c), MayBuild(c)
  PROVE  VerifyPreBroadcast(c, BuildChargeTransaction(c)) <=> ~Unpayable(c)
<1>1. c.splits \in Seq(Range(c.splits))
  BY DEF IsChargeRequest
<1>2. ASSUME ~Unpayable(c)
      PROVE  VerifyPreBroadcast(c, BuildChargeTransaction(c))
  BY <1>1, <1>2, BuiltIsAccepted
<1>3. ASSUME Unpayable(c), VerifyPreBroadcast(c, BuildChargeTransaction(c))
      PROVE  FALSE
  <2>1. CASE EmptyMemo \in Range(MemoFields(c))
    BY <1>1, <1>3, <2>1, EmptyMemoIsLeft
  <2>2. CASE c.fee_payer /\ c.fee_payer_key = None
    <3>1. PaidByExpected(c, BuildChargeTransaction(c))
      BY <1>3, PullVerifies
    <3>2. None \in Wallets
      BY <2>2, <3>1 DEF PaidByExpected
    <3> QED BY <3>2, TransactionAssumption
  <2>3. CASE c.fee_payer /\ c.fee_payer_key = Signer
    <3>1. FeePayerOf(c) = Signer
      BY <2>3 DEF FeePayerOf
    <3> QED BY <1>3, <3>1, SponsorCannotPay
  <2> QED BY <1>3, <2>1, <2>2, <2>3 DEF Unpayable
<1> QED BY <1>2, <1>3

\* Until another client changes it, the transaction is the one that was built.
BuiltInv ==
  /\ edits \in Nat
  /\ tx # None => charge # None /\ MayBuild(charge)
  /\ tx # None /\ edits = 0 => tx = BuildChargeTransaction(charge)

\* Until another client edits it, the transaction is the one that was built.
LEMMA BuiltStep ==
  ASSUME BuiltInv, [Next]_vars
  PROVE  BuiltInv'
<1>1. CASE Select
  BY <1>1 DEF Select, BuiltInv
<1>2. CASE Build
  BY <1>2 DEF Build, BuiltInv
<1>3. CASE Edit
  <2>1. tx # None /\ charge' = charge /\ edits' = edits + 1 /\ edits \in Nat
    BY <1>3 DEF Edit, BuiltInv
  <2>2. edits' \in Nat /\ edits' # 0
    BY <2>1
  <2> QED BY <2>1, <2>2 DEF BuiltInv
<1>4. CASE Land
  BY <1>4 DEF Land, BuiltInv
<1>5. CASE UNCHANGED vars
  BY <1>5 DEF vars, BuiltInv
<1> QED BY <1>1, <1>2, <1>3, <1>4, <1>5 DEF Next

\* Client and server agree about every charge: what build_charge_transaction returns
\* passes verify_versioned_transaction_pre_broadcast, unless the challenge sends an
\* empty memo or names as sponsor nobody or the client itself.
THEOREM ServerTakesClientTransactionHolds == Spec => []ServerTakesClientTransaction
<1>1. Init => ChoiceInv /\ BuiltInv
  BY DEF Init, ChoiceInv, BuiltInv
<1>2. ChoiceInv /\ BuiltInv /\ [Next]_vars => (ChoiceInv /\ BuiltInv)'
  BY ChoiceStep, BuiltStep
<1>3. ChoiceInv /\ BuiltInv => ServerTakesClientTransaction
  <2> SUFFICES ASSUME ChoiceInv, BuiltInv, tx # None, edits = 0
               PROVE  VerifyPreBroadcast(charge, tx) <=> ~Unpayable(charge)
    BY DEF ServerTakesClientTransaction
  <2>1. charge # None /\ MayBuild(charge) /\ tx = BuildChargeTransaction(charge)
    BY DEF BuiltInv
  <2>2. IsChargeRequest(charge)
    BY <2>1, ChosenIsRequest
  <2> QED BY <2>1, <2>2, BuiltIsAcceptedOrUnpayable
<1> QED BY <1>1, <1>2, <1>3, PTL DEF Spec

=============================================================================
