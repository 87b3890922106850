--------------------------- MODULE LibrariesProofs ---------------------------
(***************************************************************************)
(* Theorems of the libraries, for every text, shape, array, file and       *)
(* capacity that they may be given.                                        *)
(*                                                                         *)
(* The calls keep nothing, so CallInv says only which arguments they have, *)
(* and the rest are lemmas on what the functions compute.  They rest on    *)
(* two: Induction, over a set of numbers in place of a predicate, and      *)
(* Recursion, that a definition which goes down in some measure defines a  *)
(* function; from these come folds, products, quotients and positions of a *)
(* text.  The file of cnpy needs an invariant, NpyIndInv: the header shows *)
(* the rows, and what was given is behind it or the file is too short.     *)
(* The ring implements the FIFO of BoundedFifo by its own invariant, Inv.  *)
(***************************************************************************)
EXTENDS Libraries, FiniteSetTheorems, SequenceTheorems, WellFoundedInduction, TLAPS

-----------------------------------------------------------------------------
(* Induction. The library states it for predicates, with a parameter that  *)
(* the provers here cannot instantiate; it is proved for sets from what    *)
(* the library says of well-founded orders, and from it that recursive     *)
(* definitions define what they seem to.                                   *)

Before == {p \in Nat \X Nat : p[1] < p[2]}

\* The library states it with an operator; as a set of pairs it can be used.
LEMMA BeforeIsWellFounded == IsWellFoundedOn(Before, Nat)
<1>1. OpToRel(<, Nat) = Before
  BY Zenon DEF OpToRel, Before
<1>. QED BY <1>1, NatLessThanWellFounded, Zenon

\* Induction over the natural numbers, for a set in place of a predicate.
LEMMA Induction ==
  ASSUME NEW S, 0 \in S, \A n \in Nat : n \in S => n + 1 \in S
  PROVE  Nat \subseteq S
<1> DEFINE Others == Nat \ S
<1>1. SUFFICES ASSUME Others # {} PROVE FALSE
  OBVIOUS
<1>2. PICK x \in Others : \A y \in Others : <<y, x>> \notin Before
  <2>1. Others \subseteq Nat
    OBVIOUS
  <2> HIDE DEF Others
  <2>. QED BY <1>1, <2>1, BeforeIsWellFounded, WFMin, Zenon
<1>3. x - 1 \in Nat /\ <<x - 1, x>> \in Before
  BY DEF Before
<1>. QED BY <1>2, <1>3

\* What F says of an element depends only on the elements with a smaller measure.
Descends(F, S, V, mu) ==
  \A g, h \in [S -> V] : \A x \in S :
    (\A y \in S : mu[y] < mu[x] => g[y] = h[y]) => F[<<g, x>>] = F[<<h, x>>]

Solves(g, F, S, V) == g \in [S -> V] /\ \A x \in S : g[x] = F[<<g, x>>]

\* A recursive definition that descends has a solution.
LEMMA Recursion ==
  ASSUME NEW S, NEW V, NEW v \in V, NEW mu \in [S -> Nat],
         NEW F \in [[S -> V] \X S -> V], Descends(F, S, V, mu)
  PROVE  \E g : Solves(g, F, S, V)
<1> DEFINE Good(n) == {g \in [S -> V] : \A x \in S : mu[x] < n => g[x] = F[<<g, x>>]}
           Agree == {n \in Nat : \A g, h \in Good(n) : \A x \in S : mu[x] < n => g[x] = h[x]}
           Some == {n \in Nat : Good(n) # {}}
<1>0. \A x \in S : mu[x] \in Nat
  OBVIOUS
<1>1. \A n \in Nat : \A m \in 0..n : Good(n) \subseteq Good(m)
  <2> SUFFICES ASSUME NEW n \in Nat, NEW m \in 0..n, NEW g \in Good(n), NEW x \in S, mu[x] < m
               PROVE  mu[x] < n
    OBVIOUS
  <2>. QED BY <1>0
<1>2. Nat \subseteq Agree
  <2>1. 0 \in Agree
    OBVIOUS
  <2>2. ASSUME NEW n \in Nat, n \in Agree PROVE n + 1 \in Agree
    <3> SUFFICES ASSUME NEW g \in Good(n + 1), NEW h \in Good(n + 1), NEW x \in S, mu[x] < n + 1
                 PROVE  g[x] = h[x]
      <4>1. n + 1 \in Nat
        OBVIOUS
      <4> HIDE DEF Good
      <4>. QED BY <4>1
    <3>1. g \in Good(n) /\ h \in Good(n)
      OBVIOUS
    <3>2. \A y \in S : mu[y] < mu[x] => g[y] = h[y]
      <4>1. \A y \in S : mu[y] < mu[x] => mu[y] < n
        BY <1>0
      <4> HIDE DEF Good
      <4>. QED BY <2>2, <3>1, <4>1
    <3>3. g[x] = F[<<g, x>>] /\ h[x] = F[<<h, x>>]
      OBVIOUS
    <3>4. F[<<g, x>>] = F[<<h, x>>]
      BY <3>1, <3>2 DEF Descends
    <3>. QED BY <3>3, <3>4
  <2> HIDE DEF Agree
  <2>. QED BY <2>1, <2>2, Induction
<1>3. Nat \subseteq Some
  <2>1. 0 \in Some
    <3>1. [x \in S |-> v] \in Good(0)
      OBVIOUS
    <3>. QED BY <3>1
  <2>2. ASSUME NEW n \in Nat, n \in Some PROVE n + 1 \in Some
    <3>1. PICK g : g \in Good(n)
      BY <2>2
    <3> DEFINE h == [x \in S |-> IF mu[x] < n THEN g[x] ELSE F[<<g, x>>]]
    <3>2. h \in [S -> V] /\ g \in [S -> V]
      BY <3>1
    <3>3. ASSUME NEW x \in S, mu[x] < n + 1 PROVE h[x] = F[<<h, x>>]
      <4>1. \A y \in S : mu[y] < mu[x] => g[y] = h[y]
        BY <3>3
      <4>2. F[<<h, x>>] = F[<<g, x>>]
        <5>1. \A y \in S : mu[y] < mu[x] => h[y] = g[y]
          BY <4>1
        <5> HIDE DEF h
        <5>. QED BY <3>2, <5>1 DEF Descends
      <4>. QED BY <3>1, <4>2
    <3>4. h \in Good(n + 1)
      <4> HIDE DEF h
      <4>. QED BY <3>2, <3>3
    <3> HIDE DEF Good
    <3>. QED BY <3>4
  <2> HIDE DEF Some
  <2>. QED BY <2>1, <2>2, Induction
<1> DEFINE At(x) == CHOOSE g : g \in Good(mu[x] + 1)
           G == [x \in S |-> At(x)[x]]
<1>4. ASSUME NEW x \in S PROVE At(x) \in Good(mu[x] + 1)
  <2>1. mu[x] + 1 \in Some
    <3>1. mu[x] + 1 \in Nat
      OBVIOUS
    <3> HIDE DEF Some
    <3>. QED BY <1>3, <3>1
  <2> HIDE DEF Good
  <2>. QED BY <2>1
<1>5. G \in [S -> V]
  BY <1>4
<1>6. ASSUME NEW x \in S PROVE G[x] = F[<<G, x>>]
  <2>1. At(x) \in [S -> V] /\ At(x)[x] = F[<<At(x), x>>]
    <3>1. mu[x] < mu[x] + 1
      OBVIOUS
    <3>2. At(x) \in Good(mu[x] + 1)
      BY <1>4
    <3> HIDE DEF At
    <3>. QED BY <3>1, <3>2
  <2>2. ASSUME NEW y \in S, mu[y] < mu[x] PROVE At(x)[y] = G[y]
    <3>1. At(y) \in Good(mu[y] + 1) /\ At(x) \in Good(mu[x] + 1)
      BY <1>4
    <3>2. mu[y] + 1 \in 0..(mu[x] + 1) /\ mu[x] + 1 \in Nat /\ mu[y] + 1 \in Nat
      BY <2>2
    <3>3. At(x) \in Good(mu[y] + 1)
      BY <1>1, <3>1, <3>2
    <3>4. mu[y] + 1 \in Agree
      BY <1>2, <3>2
    <3>5. G[y] = At(y)[y]
      OBVIOUS
    <3> HIDE DEF At, G, Good
    <3>. QED BY <3>1, <3>2, <3>3, <3>4, <3>5
  <2>3. F[<<At(x), x>>] = F[<<G, x>>]
    <3> HIDE DEF At, G
    <3>. QED BY <2>1, <2>2, <1>5 DEF Descends
  <2>. QED BY <2>1, <2>3
<1>7. Solves(G, F, S, V)
  <2> HIDE DEF G
  <2>. QED BY <1>5, <1>6 DEF Solves
<1>. QED BY <1>7

\* Division with a remainder, and that there is only one.
LEMMA Division ==
  ASSUME NEW a \in Int, NEW b \in Nat \ {0}
  PROVE  a % b \in 0..b - 1 /\ a \div b \in Int /\ a = b * (a \div b) + (a % b)
OBVIOUS

\* Natural numbers have a natural product.
LEMMA NaturalProduct ==
  ASSUME NEW a \in Nat, NEW b \in Nat
  PROVE  a * b \in Nat
OBVIOUS

\* A number is written with quotient and remainder in one way.
LEMMA DivisionOnce ==
  ASSUME NEW b \in Nat \ {0}, NEW q \in Int, NEW r \in 0..b - 1
  PROVE  (b * q + r) \div b = q /\ (b * q + r) % b = r
OBVIOUS

\* A number less than the divisor is its own remainder.
LEMMA SmallDivision ==
  ASSUME NEW b \in Nat \ {0}, NEW a \in 0..b - 1
  PROVE  a \div b = 0 /\ a % b = a
OBVIOUS

\* A finite set of numbers that is not empty has a greatest element.
LEMMA MaxInSet ==
  ASSUME NEW S, S \subseteq Int, IsFiniteSet(S), S # {}
  PROVE  Max(S) \in S /\ \A x \in S : x <= Max(S)
<1> DEFINE Bounded == {n \in Nat : \A T \in SUBSET S : Cardinality(T) = n /\ T # {} =>
                                     \E m \in T : \A x \in T : x <= m}
<1>1. 0 \in Bounded
  <2> SUFFICES ASSUME NEW T \in SUBSET S, Cardinality(T) = 0 PROVE T = {}
    OBVIOUS
  <2>. QED BY FS_EmptySet, FS_Subset
<1>2. ASSUME NEW n \in Nat, n \in Bounded PROVE n + 1 \in Bounded
  <2> SUFFICES ASSUME NEW T \in SUBSET S, Cardinality(T) = n + 1, T # {}
               PROVE  \E m \in T : \A x \in T : x <= m
    OBVIOUS
  <2>1. PICK e : e \in T
    OBVIOUS
  <2>2. Cardinality(T \ {e}) = n
    <3>1. IsFiniteSet(T)
      BY FS_Subset
    <3>2. Cardinality(T \ {e}) = Cardinality(T) - 1
      BY <2>1, <3>1, FS_RemoveElement, Zenon
    <3>. QED BY <3>2
  <2>3. CASE T \ {e} = {}
    BY <2>1, <2>3
  <2>4. CASE T \ {e} # {}
    <3>1. PICK m \in T \ {e} : \A x \in T \ {e} : x <= m
      BY <1>2, <2>2, <2>4
    <3>. QED BY <2>1, <3>1
  <2>. QED BY <2>3, <2>4
<1>3. Cardinality(S) \in Bounded
  <2>1. Nat \subseteq Bounded
    <3> HIDE DEF Bounded
    <3>. QED BY <1>1, <1>2, Induction
  <2>. QED BY <2>1, FS_CardinalityType
<1>4. \E m \in S : \A x \in S : x <= m
  BY <1>3
<1>5. Max(S) = CHOOSE x \in S : \A y \in S : x >= y
  BY DEF Max
<1>. QED BY <1>4, <1>5

-----------------------------------------------------------------------------
(* Folds. What FoldLeft makes of a sequence is the last of its values on   *)
(* the beginnings of the sequence, each of them made from the one before.  *)

\* v are the values of a fold by f on the beginnings of s.
Accumulates(v, V, f, base, s) ==
  v \in [0..Len(s) -> V] /\ v[0] = base /\ \A n \in 1..Len(s) : v[n] = f[<<v[n - 1], s[n]>>]

\* r is the last of them.
FoldIs(r, V, f, base, s) == \E v : Accumulates(v, V, f, base, s) /\ r = v[Len(s)]

\* The values are determined by that.
LEMMA AccumulatesOnce ==
  ASSUME NEW S, NEW s \in Seq(S), NEW V, NEW f, NEW base, NEW v, NEW w,
         Accumulates(v, V, f, base, s), Accumulates(w, V, f, base, s)
  PROVE  v = w
<1> DEFINE Same == {n \in Nat : n <= Len(s) => v[n] = w[n]}
<1>1. 0 \in Same
  BY DEF Accumulates
<1>2. ASSUME NEW n \in Nat, n \in Same PROVE n + 1 \in Same
  <2> SUFFICES ASSUME n + 1 <= Len(s) PROVE v[n + 1] = w[n + 1]
    OBVIOUS
  <2>1. n + 1 \in 1..Len(s) /\ (n + 1) - 1 = n /\ v[n] = w[n]
    BY <1>2
  <2>. QED BY <2>1 DEF Accumulates
<1>3. Nat \subseteq Same
  <2> HIDE DEF Same
  <2>. QED BY <1>1, <1>2, Induction
<1>4. \A n \in 0..Len(s) : v[n] = w[n]
  <2>1. \A n \in 0..Len(s) : n \in Nat /\ n <= Len(s)
    BY LenProperties
  <2>. QED BY <1>3, <2>1
<1>. QED BY <1>4 DEF Accumulates

\* Sets of positions of a sequence are finite and have a last element.
LEMMA Positions ==
  ASSUME NEW E, NEW s \in Seq(E), NEW t \in SUBSET DOMAIN s
  PROVE  /\ IsFiniteSet(t) /\ t \subseteq Int /\ Cardinality(t) \in Nat
         /\ t # {} => Max(t) \in t
<1>1. DOMAIN s = 1..Len(s) /\ Len(s) \in Nat
  BY LenProperties
<1>2. IsFiniteSet(1..Len(s))
  BY <1>1, FS_Interval
<1>3. IsFiniteSet(t)
  BY <1>1, <1>2, FS_Subset
<1>. QED BY <1>1, <1>3, FS_CardinalityType, MaxInSet

FoldsTo(it, V, base, f, s) ==
  /\ it \in [SUBSET DOMAIN s -> V]
  /\ \A t \in SUBSET DOMAIN s :
       it[t] = IF t = {} THEN base ELSE f[<<it[t \ {Max(t)}], s[Max(t)]>>]

\* The function over sets of positions by which FoldLeft is defined exists.
LEMMA FoldExists ==
  ASSUME NEW E, NEW V, NEW base \in V, NEW f \in [V \X E -> V], NEW s \in Seq(E)
  PROVE  \E it : FoldsTo(it, V, base, f, s)
<1> DEFINE S == SUBSET DOMAIN s
           mu == [t \in S |-> Cardinality(t)]
           F == [p \in [S -> V] \X S |->
                  IF p[2] = {} THEN base ELSE f[<<p[1][p[2] \ {Max(p[2])}], s[Max(p[2])]>>]]
<1>1. \A t \in S : IsFiniteSet(t) /\ t \subseteq Int /\ Cardinality(t) \in Nat
  BY Positions
<1>2. ASSUME NEW t \in S, t # {} PROVE Max(t) \in t
  BY <1>2, Positions
<1>3. mu \in [S -> Nat]
  BY <1>1
<1>4. F \in [[S -> V] \X S -> V]
  <2> SUFFICES ASSUME NEW g \in [S -> V], NEW t \in S, t # {}
               PROVE  f[<<g[t \ {Max(t)}], s[Max(t)]>>] \in V
    OBVIOUS
  <2>1. s[Max(t)] \in E
    BY <1>2, LenProperties
  <2>. QED BY <2>1
<1>5. ASSUME NEW g \in [S -> V], NEW h \in [S -> V], NEW t \in S,
             \A u \in S : mu[u] < mu[t] => g[u] = h[u]
      PROVE  F[<<g, t>>] = F[<<h, t>>]
  <2>1. CASE t = {}
    BY <2>1
  <2>2. CASE t # {}
    <3>1. t \ {Max(t)} \in S /\ Cardinality(t \ {Max(t)}) = Cardinality(t) - 1
      BY <2>2, <1>1, <1>2, FS_RemoveElement
    <3>2. g[t \ {Max(t)}] = h[t \ {Max(t)}]
      <4>1. mu[t \ {Max(t)}] < mu[t]
        BY <3>1, <1>1
      <4> HIDE DEF mu, F
      <4>. QED BY <1>5, <3>1, <4>1
    <3>. QED BY <2>2, <3>2
  <2>. QED BY <2>1, <2>2
<1>6. Descends(F, S, V, mu)
  <2> HIDE DEF S, mu, F
  <2>. QED BY <1>5 DEF Descends
<1>7. PICK g : Solves(g, F, S, V)
  <2>1. base \in V
    OBVIOUS
  <2> HIDE DEF S, mu, F
  <2>. QED BY <1>3, <1>4, <1>6, <2>1, Recursion, Zenon
<1>8. g \in [S -> V] /\ \A t \in S : g[t] = F[<<g, t>>]
  BY <1>7, Zenon DEF Solves
<1>9. ASSUME NEW t \in S
      PROVE  g[t] = IF t = {} THEN base ELSE f[<<g[t \ {Max(t)}], s[Max(t)]>>]
  BY <1>8, Zenon
<1>. QED BY <1>8, <1>9, Zenon DEF FoldsTo

\* The greatest of the numbers up to n, and what it leaves.
LEMMA LastOfInterval ==
  ASSUME NEW n \in Nat \ {0}
  PROVE  Max(1..n) = n /\ (1..n) \ {n} = 1..(n - 1) /\ 1..n # {}
<1>1. Max(1..n) \in 1..n /\ \A x \in 1..n : x <= Max(1..n)
  <2>1. IsFiniteSet(1..n)
    BY FS_Interval
  <2>. QED BY <2>1, MaxInSet
<1>. QED BY <1>1

\* A function over sets of positions that is made step by step, as long as what
\* has been made is in V.
MadeBy(it, V, base, f, s) ==
  /\ it[{}] = base
  /\ \A t \in SUBSET DOMAIN s :
       t # {} /\ it[t \ {Max(t)}] \in V => it[t] = f[<<it[t \ {Max(t)}], s[Max(t)]>>]

\* Its values on the beginnings of the sequence are those of the fold.
LEMMA FoldValues ==
  ASSUME NEW E, NEW V, NEW base \in V, NEW f \in [V \X E -> V], NEW s \in Seq(E),
         NEW it, MadeBy(it, V, base, f, s)
  PROVE  FoldIs(it[DOMAIN s], V, f, base, s)
<1> DEFINE v == [n \in 0..Len(s) |-> it[1..n]]
           Made == {n \in Nat : n <= Len(s) =>
                      v[n] \in V /\ (n > 0 => v[n] = f[<<v[n - 1], s[n]>>])}
<1>0. Len(s) \in Nat /\ DOMAIN s = 1..Len(s) /\ \A n \in 1..Len(s) : s[n] \in E
  BY LenProperties
<1>1. v[0] = base
  BY <1>0 DEF MadeBy
<1>2. 0 \in Made
  BY <1>1
<1>3. ASSUME NEW n \in Nat, n \in Made PROVE n + 1 \in Made
  <2> SUFFICES ASSUME n + 1 <= Len(s)
               PROVE  v[n + 1] \in V /\ v[n + 1] = f[<<v[n], s[n + 1]>>]
    <3>1. (n + 1) - 1 = n
      OBVIOUS
    <3> HIDE DEF v
    <3>. QED BY <3>1
  <2>1. v[n] = it[1..n] /\ v[n + 1] = it[1..(n + 1)] /\ v[n] \in V
    BY <1>0, <1>3
  <2>2. /\ Max(1..(n + 1)) = n + 1 /\ 1..(n + 1) # {}
        /\ (1..(n + 1)) \ {n + 1} = 1..n
    <3>1. n + 1 \in Nat \ {0} /\ (n + 1) - 1 = n
      OBVIOUS
    <3>2. /\ Max(1..(n + 1)) = n + 1 /\ 1..(n + 1) # {}
          /\ (1..(n + 1)) \ {n + 1} = 1..((n + 1) - 1)
      BY <3>1, LastOfInterval
    <3>. QED BY <3>1, <3>2
  <2>3. 1..(n + 1) \in SUBSET DOMAIN s
    BY <1>0
  <2> HIDE DEF v
  <2>4. it[1..(n + 1)] = f[<<it[1..n], s[n + 1]>>]
    BY <2>1, <2>2, <2>3 DEF MadeBy
  <2>5. s[n + 1] \in E
    BY <1>0
  <2>. QED BY <2>1, <2>4, <2>5
<1>4. Nat \subseteq Made
  <2> HIDE DEF Made
  <2>. QED BY <1>2, <1>3, Induction
<1>5. v \in [0..Len(s) -> V]
  <2>1. \A n \in 0..Len(s) : v[n] \in V
    <3>1. \A n \in 0..Len(s) : n \in Nat /\ n <= Len(s)
      BY <1>0
    <3> HIDE DEF v
    <3>. QED BY <1>4, <3>1
  <2>. QED BY <2>1
<1>6. ASSUME NEW n \in 1..Len(s) PROVE v[n] = f[<<v[n - 1], s[n]>>]
  <2>1. n \in Nat /\ n <= Len(s) /\ n > 0
    BY <1>0
  <2> HIDE DEF v
  <2>. QED BY <1>4, <2>1
<1>7. it[DOMAIN s] = v[Len(s)]
  BY <1>0
<1> HIDE DEF v
<1>. QED BY <1>1, <1>5, <1>6, <1>7 DEF Accumulates, FoldIs

\* The product of a shape, step by step.
LEMMA Products ==
  ASSUME NEW s \in Seq(Int)
  PROVE  \E v \in [0..Len(s) -> Int] :
           /\ v[0] = 1 /\ \A n \in 1..Len(s) : v[n] = v[n - 1] * s[n]
           /\ Product(s) = v[Len(s)] /\ Elements(s) = v[Len(s)]
<1> DEFINE f == [p \in Int \X Int |-> p[1] * p[2]]
           Is(it) == it = [t \in SUBSET DOMAIN s |->
                            IF t = {} THEN 1 ELSE it[t \ {Max(t)}] * s[Max(t)]]
<1>1. f \in [Int \X Int -> Int] /\ 1 \in Int
  OBVIOUS
<1>2. \A t \in SUBSET DOMAIN s : t # {} => s[Max(t)] \in Int
  BY Positions, LenProperties
<1>3. \E x : Is(x)
  <2>1. PICK g : FoldsTo(g, Int, 1, f, s)
    <3> HIDE DEF f
    <3>. QED BY <1>1, FoldExists, Zenon
  <2>2. ASSUME NEW t \in SUBSET DOMAIN s
        PROVE  g[t] = IF t = {} THEN 1 ELSE g[t \ {Max(t)}] * s[Max(t)]
    BY <1>2, <2>1 DEF FoldsTo
  <2>3. Is(g)
    BY <2>1, <2>2 DEF FoldsTo
  <2>. QED BY <2>3
<1>4. PICK it : Is(it) /\ Product(s) = it[DOMAIN s] /\ Elements(s) = it[DOMAIN s]
  <2> DEFINE x == CHOOSE x : Is(x)
  <2>1. Is(x)
    BY <1>3, Zenon
  <2>2. Product(s) = x[DOMAIN s] /\ Elements(s) = x[DOMAIN s]
    BY DEF Product, Elements, FoldLeft, MapThenFoldSet
  <2> HIDE DEF x
  <2>. QED BY <2>1, <2>2
<1>6. MadeBy(it, Int, 1, f, s)
  BY <1>2, <1>4 DEF MadeBy
<1>7. FoldIs(it[DOMAIN s], Int, f, 1, s)
  <2> HIDE DEF f
  <2>. QED BY <1>1, <1>6, FoldValues, Zenon
<1>8. PICK v : Accumulates(v, Int, f, 1, s) /\ it[DOMAIN s] = v[Len(s)]
  BY <1>7 DEF FoldIs
<1>9. \A n \in 1..Len(s) : v[n - 1] \in Int /\ s[n] \in Int
  BY <1>8, LenProperties DEF Accumulates
<1>10. v[0] = 1 /\ \A n \in 1..Len(s) : v[n] = v[n - 1] * s[n]
  BY <1>8, <1>9 DEF Accumulates
<1>. QED BY <1>4, <1>8, <1>10 DEF Accumulates

\* The two names of the product of a shape.
LEMMA ElementsAreProduct == \A s \in Seq(Int) : Elements(s) = Product(s)
BY Products

\* Products of integers may be bracketed in any way.
LEMMA TimesAssociates == \A a, b, c \in Int : (a * b) * c = a * (b * c) /\ a * b \in Int
OBVIOUS

\* The product of two shapes, one after the other.
LEMMA ProductOfConcat ==
  ASSUME NEW s \in Seq(Int), NEW t \in Seq(Int)
  PROVE  /\ Product(s) \in Int /\ Product(t) \in Int
         /\ Product(s \o t) = Product(s) * Product(t)
<1> DEFINE u == s \o t
<1>1. /\ u \in Seq(Int) /\ Len(u) = Len(s) + Len(t) /\ Len(s) \in Nat /\ Len(t) \in Nat
      /\ \A i \in 1..Len(u) : u[i] = IF i <= Len(s) THEN s[i] ELSE t[i - Len(s)]
      /\ \A i \in 1..Len(s) : s[i] \in Int
      /\ \A i \in 1..Len(t) : t[i] \in Int
  BY ConcatProperties, LenProperties
<1> HIDE DEF u
<1>2. PICK v \in [0..Len(s) -> Int] :
        v[0] = 1 /\ (\A n \in 1..Len(s) : v[n] = v[n - 1] * s[n]) /\ Product(s) = v[Len(s)]
  BY Products
<1>3. PICK w \in [0..Len(t) -> Int] :
        w[0] = 1 /\ (\A n \in 1..Len(t) : w[n] = w[n - 1] * t[n]) /\ Product(t) = w[Len(t)]
  BY Products
<1>4. PICK x \in [0..Len(u) -> Int] :
        x[0] = 1 /\ (\A n \in 1..Len(u) : x[n] = x[n - 1] * u[n]) /\ Product(u) = x[Len(u)]
  BY <1>1, Products
<1> DEFINE First == {n \in Nat : n <= Len(s) => x[n] = v[n]}
           Second == {n \in Nat : n <= Len(t) => x[Len(s) + n] = Product(s) * w[n]}
<1>5. Nat \subseteq First
  <2>1. 0 \in First
    BY <1>2, <1>4
  <2>2. ASSUME NEW n \in Nat, n \in First PROVE n + 1 \in First
    <3> SUFFICES ASSUME n + 1 <= Len(s) PROVE x[n + 1] = v[n + 1]
      OBVIOUS
    <3>1. n + 1 \in 1..Len(s) /\ n + 1 \in 1..Len(u) /\ (n + 1) - 1 = n /\ x[n] = v[n]
      BY <1>1, <2>2
    <3>. QED BY <1>1, <1>2, <1>4, <3>1
  <2> HIDE DEF First
  <2>. QED BY <2>1, <2>2, Induction
<1>6. Product(s) \in Int /\ Product(t) \in Int /\ x[Len(s)] = Product(s)
  <2>1. Len(s) \in First /\ Len(s) \in 0..Len(s) /\ Len(t) \in 0..Len(t)
    <3> HIDE DEF First
    <3>. QED BY <1>1, <1>5
  <2>2. x[Len(s)] = v[Len(s)]
    BY <1>1, <2>1
  <2>. QED BY <1>2, <1>3, <2>1, <2>2
<1>7. Nat \subseteq Second
  <2>1. 0 \in Second
    <3>1. Product(s) * 1 = Product(s) /\ Len(s) + 0 = Len(s)
      BY <1>1, <1>6
    <3>. QED BY <1>3, <1>6, <3>1
  <2>2. ASSUME NEW n \in Nat, n \in Second PROVE n + 1 \in Second
    <3> SUFFICES ASSUME n + 1 <= Len(t) PROVE x[Len(s) + (n + 1)] = Product(s) * w[n + 1]
      OBVIOUS
    <3>1. /\ Len(s) + (n + 1) \in 1..Len(u) /\ (Len(s) + (n + 1)) - 1 = Len(s) + n
          /\ n + 1 \in 1..Len(t) /\ (n + 1) - 1 = n /\ n \in 0..Len(t)
          /\ (Len(s) + (n + 1)) - Len(s) = n + 1 /\ ~(Len(s) + (n + 1) <= Len(s))
      BY <1>1
    <3>2. x[Len(s) + (n + 1)] = x[Len(s) + n] * t[n + 1]
      BY <1>1, <1>4, <3>1
    <3>3. x[Len(s) + n] = Product(s) * w[n]
      BY <2>2, <3>1
    <3>4. w[n + 1] = w[n] * t[n + 1] /\ w[n] \in Int /\ t[n + 1] \in Int
      BY <1>1, <1>3, <3>1
    <3>. QED BY <1>6, <3>2, <3>3, <3>4, TimesAssociates
  <2> HIDE DEF Second
  <2>. QED BY <2>1, <2>2, Induction
<1>8. Product(u) = Product(s) * Product(t)
  <2>1. x[Len(s) + Len(t)] = Product(s) * w[Len(t)]
    BY <1>1, <1>7
  <2>. QED BY <1>1, <1>3, <1>4, <2>1
<1>. QED BY <1>6, <1>8 DEF u

\* A shape of one dimension, and one of none.
LEMMA ProductOfFew ==
  Product(<<>>) = 1 /\ \A d \in Int : Product(<<d>>) = d
<1>1. Product(<<>>) = 1
  <2>1. <<>> \in Seq(Int) /\ Len(<<>>) = 0
    OBVIOUS
  <2>2. PICK v \in [0..Len(<<>>) -> Int] : v[0] = 1 /\ Product(<<>>) = v[Len(<<>>)]
    BY <2>1, Products
  <2>. QED BY <2>1, <2>2
<1>2. ASSUME NEW d \in Int PROVE Product(<<d>>) = d
  <2>1. <<d>> \in Seq(Int) /\ Len(<<d>>) = 1 /\ <<d>>[1] = d
    OBVIOUS
  <2> DEFINE s == <<d>>
  <2> HIDE DEF s
  <2>2. PICK v \in [0..Len(s) -> Int] :
          v[0] = 1 /\ (\A n \in 1..Len(s) : v[n] = v[n - 1] * s[n]) /\ Product(s) = v[Len(s)]
    BY <2>1, Products DEF s
  <2>3. v[1] = v[0] * d
    BY <2>1, <2>2 DEF s
  <2>. QED BY <2>1, <2>2, <2>3 DEF s
<1>. QED BY <1>1, <1>2

\* Positive dimensions have a positive product, and others that are not negative
\* one that is not.
LEMMA ProductSign ==
  ASSUME NEW s \in Seq(Int), NEW low \in {0, 1}, \A n \in 1..Len(s) : s[n] >= low
  PROVE  Product(s) \in Int /\ Product(s) >= low
<1>1. PICK v \in [0..Len(s) -> Int] :
        v[0] = 1 /\ (\A n \in 1..Len(s) : v[n] = v[n - 1] * s[n]) /\ Product(s) = v[Len(s)]
  BY Products
<1>2. Len(s) \in Nat /\ \A n \in 1..Len(s) : s[n] \in Int
  BY LenProperties
<1> DEFINE Signed == {n \in Nat : n <= Len(s) => v[n] >= low}
<1>3. 0 \in Signed
  BY <1>1
<1>4. ASSUME NEW n \in Nat, n \in Signed PROVE n + 1 \in Signed
  <2> SUFFICES ASSUME n + 1 <= Len(s) PROVE v[n + 1] >= low
    OBVIOUS
  <2>1. n + 1 \in 1..Len(s) /\ n \in 0..Len(s) /\ (n + 1) - 1 = n /\ v[n] >= low
    BY <1>2, <1>4
  <2>2. v[n + 1] = v[n] * s[n + 1] /\ s[n + 1] \in Int /\ s[n + 1] >= low
    BY <1>1, <1>2, <2>1
  <2>3. \A a, b \in Int : (a >= 0 /\ b >= 0 => a * b >= 0) /\ (a >= 1 /\ b >= 1 => a * b >= 1)
    OBVIOUS
  <2>4. v[n] \in Int
    BY <1>1, <2>1
  <2>. QED BY <2>1, <2>2, <2>3, <2>4
<1>5. Nat \subseteq Signed
  <2> HIDE DEF Signed
  <2>. QED BY <1>3, <1>4, Induction
<1>. QED BY <1>1, <1>2, <1>5

\* A number has one digit, or one more than what it is without its last.
LEMMA DigitsOfNumber ==
  Digits \in [Nat -> Nat] /\
    \A n \in Nat : Digits[n] = IF n < 10 THEN 1 ELSE 1 + Digits[n \div 10]
<1> DEFINE mu == [n \in Nat |-> n]
           F == [p \in [Nat -> Nat] \X Nat |-> IF p[2] < 10 THEN 1 ELSE 1 + p[1][p[2] \div 10]]
           Is(d) == d = [n \in Nat |-> IF n < 10 THEN 1 ELSE 1 + d[n \div 10]]
<1>1. \A n \in Nat : n \div 10 \in Nat /\ (n >= 10 => n \div 10 < n)
  OBVIOUS
<1>2. F \in [[Nat -> Nat] \X Nat -> Nat]
  BY <1>1
<1>3. Descends(F, Nat, Nat, mu)
  BY <1>1 DEF Descends
<1>4. PICK g : Solves(g, F, Nat, Nat)
  <2>1. mu \in [Nat -> Nat] /\ 1 \in Nat
    OBVIOUS
  <2> HIDE DEF mu, F
  <2>. QED BY <1>2, <1>3, <2>1, Recursion, Zenon
<1>5. \A n \in Nat : g[n] = IF n < 10 THEN 1 ELSE 1 + g[n \div 10]
  BY <1>4 DEF Solves
<1>6. Is(g)
  BY <1>4, <1>5 DEF Solves
<1>7. Is(Digits)
  <2> DEFINE x == CHOOSE x : Is(x)
  <2>1. Is(x)
    BY <1>6, Zenon
  <2>2. Digits = x
    BY DEF Digits
  <2> HIDE DEF x, Is
  <2>. QED BY <2>1, <2>2
<1>8. Digits = g
  <2> DEFINE Same == {n \in Nat : \A m \in 0..n : Digits[m] = g[m]}
  <2>0. \A n \in Nat : Digits[n] = IF n < 10 THEN 1 ELSE 1 + Digits[n \div 10]
    BY <1>7
  <2>1. 0 \in Same
    BY <1>5, <2>0
  <2>2. ASSUME NEW n \in Nat, n \in Same PROVE n + 1 \in Same
    <3> SUFFICES Digits[n + 1] = g[n + 1]
      BY <2>2
    <3>1. n + 1 \in Nat /\ (n + 1 >= 10 => (n + 1) \div 10 \in 0..n)
      OBVIOUS
    <3>2. n + 1 >= 10 => Digits[(n + 1) \div 10] = g[(n + 1) \div 10]
      BY <2>2, <3>1
    <3>. QED BY <1>5, <2>0, <3>1, <3>2
  <2>3. Nat \subseteq Same
    <3> HIDE DEF Same
    <3>. QED BY <2>1, <2>2, Induction
  <2>4. \A n \in Nat : Digits[n] = g[n]
    BY <2>3
  <2>. QED BY <1>4, <1>7, <2>4 DEF Solves
<1>. QED BY <1>4, <1>5, <1>8 DEF Solves

\* A greater number has no fewer digits.
LEMMA DigitsGrow == \A n \in Nat : \A m \in 0..n : Digits[m] <= Digits[n]
<1> DEFINE Grow == {k \in Nat : \A n \in 0..k : \A m \in 0..n : Digits[m] <= Digits[n]}
<1>0. /\ \A n \in Nat : Digits[n] \in Nat
      /\ \A n \in Nat : Digits[n] = IF n < 10 THEN 1 ELSE 1 + Digits[n \div 10]
  BY DigitsOfNumber
<1>1. 0 \in Grow
  BY <1>0
<1>2. ASSUME NEW k \in Nat, k \in Grow PROVE k + 1 \in Grow
  <2> SUFFICES ASSUME NEW m \in 0..k + 1 PROVE Digits[m] <= Digits[k + 1]
    BY <1>2
  <2>1. CASE k + 1 < 10
    BY <1>0, <2>1
  <2>2. CASE k + 1 >= 10 /\ m < 10
    <3>1. (k + 1) \div 10 \in Nat
      OBVIOUS
    <3>2. Digits[m] = 1 /\ Digits[k + 1] = 1 + Digits[(k + 1) \div 10]
      BY <1>0, <2>2
    <3>. QED BY <1>0, <3>1, <3>2
  <2>3. CASE k + 1 >= 10 /\ m >= 10
    <3>1. (k + 1) \div 10 \in 0..k /\ m \div 10 \in 0..((k + 1) \div 10)
      BY <2>3
    <3>2. Digits[m \div 10] <= Digits[(k + 1) \div 10]
      BY <1>2, <3>1
    <3>3. Digits[m] = 1 + Digits[m \div 10] /\ Digits[k + 1] = 1 + Digits[(k + 1) \div 10]
      BY <1>0, <2>3
    <3>4. Digits[m \div 10] \in Nat /\ Digits[(k + 1) \div 10] \in Nat
      BY <1>0, <3>1
    <3>. QED BY <3>2, <3>3, <3>4
  <2>. QED BY <2>1, <2>2, <2>3
<1>3. Nat \subseteq Grow
  <2> HIDE DEF Grow
  <2>. QED BY <1>1, <1>2, Induction
<1>. QED BY <1>3

\* The digits of a shape, step by step.
LEMMA Dictionaries ==
  ASSUME NEW s \in Seq(Nat)
  PROVE  \E v \in [0..Len(s) -> Nat] :
           /\ v[0] = 0 /\ \A n \in 1..Len(s) : v[n] = v[n - 1] + Digits[s[n]] + 2
           /\ Dictionary(s) = 11 + 3 + 37 + v[Len(s)] - 2 + (IF Len(s) = 1 THEN 1 ELSE 0) + 4
<1> DEFINE f == [p \in Nat \X Nat |-> p[1] + Digits[p[2]] + 2]
           Is(it) == it = [t \in SUBSET DOMAIN s |->
                            IF t = {} THEN 0 ELSE it[t \ {Max(t)}] + Digits[s[Max(t)]] + 2]
           Size(n) == 11 + 3 + 37 + n - 2 + (IF Len(s) = 1 THEN 1 ELSE 0) + 4
<1>1. f \in [Nat \X Nat -> Nat] /\ 0 \in Nat
  <2>1. \A b \in Nat : Digits[b] \in Nat
    BY DigitsOfNumber, Zenon
  <2>2. \A p \in Nat \X Nat : p[1] \in Nat /\ Digits[p[2]] \in Nat
    BY <2>1
  <2>3. \A p \in Nat \X Nat : p[1] + Digits[p[2]] + 2 \in Nat
    BY <2>2
  <2>. QED BY <2>3
<1>2. \A t \in SUBSET DOMAIN s : t # {} => s[Max(t)] \in Nat
  BY Positions, LenProperties
<1>3. \E x : Is(x)
  <2>1. PICK g : FoldsTo(g, Nat, 0, f, s)
    <3> HIDE DEF f
    <3>. QED BY <1>1, FoldExists, Zenon
  <2>2. ASSUME NEW t \in SUBSET DOMAIN s
        PROVE  g[t] = IF t = {} THEN 0 ELSE g[t \ {Max(t)}] + Digits[s[Max(t)]] + 2
    BY <1>2, <2>1 DEF FoldsTo
  <2>3. Is(g)
    BY <2>1, <2>2 DEF FoldsTo
  <2>. QED BY <2>3
<1>4. PICK it : Is(it) /\ Dictionary(s) = Size(it[DOMAIN s])
  <2> DEFINE x == CHOOSE x : Is(x)
  <2>1. Is(x)
    BY <1>3, Zenon
  <2>2. Dictionary(s) = Size(x[DOMAIN s])
    BY DEF Dictionary, FoldLeft, MapThenFoldSet
  <2> HIDE DEF x
  <2>. QED BY <2>1, <2>2
<1>6. MadeBy(it, Nat, 0, f, s)
  BY <1>2, <1>4 DEF MadeBy
<1>7. FoldIs(it[DOMAIN s], Nat, f, 0, s)
  <2> HIDE DEF f
  <2>. QED BY <1>1, <1>6, FoldValues, Zenon
<1>8. PICK v : Accumulates(v, Nat, f, 0, s) /\ it[DOMAIN s] = v[Len(s)]
  BY <1>7 DEF FoldIs
<1>9. \A n \in 1..Len(s) : v[n - 1] \in Nat /\ s[n] \in Nat
  <2>1. v \in [0..Len(s) -> Nat]
    BY <1>8 DEF Accumulates
  <2>2. \A n \in 1..Len(s) : n - 1 \in 0..Len(s)
    BY LenProperties
  <2>3. \A n \in 1..Len(s) : s[n] \in Nat
    BY LenProperties
  <2>. QED BY <2>1, <2>2, <2>3, Zenon
<1>10. v[0] = 0 /\ \A n \in 1..Len(s) : v[n] = v[n - 1] + Digits[s[n]] + 2
  <2>1. v[0] = 0 /\ \A n \in 1..Len(s) : v[n] = f[<<v[n - 1], s[n]>>]
    <3> HIDE DEF f
    <3>. QED BY <1>8 DEF Accumulates
  <2>2. ASSUME NEW n \in 1..Len(s) PROVE v[n] = v[n - 1] + Digits[s[n]] + 2
    BY <1>9, <2>1
  <2>. QED BY <2>1, <2>2
<1>. QED BY <1>4, <1>8, <1>10 DEF Accumulates

\* A header with a greater number of rows is no shorter.
LEMMA HeaderGrows ==
  ASSUME NEW C \in Seq(Nat), NEW m \in Nat, NEW n \in Nat, m <= n
  PROVE  /\ HeaderLength(<<m>> \o C) \in Nat /\ HeaderLength(<<n>> \o C) \in Nat
         /\ HeaderLength(<<m>> \o C) <= HeaderLength(<<n>> \o C)
<1> DEFINE s == <<m>> \o C
           t == <<n>> \o C
<1>1. /\ s \in Seq(Nat) /\ t \in Seq(Nat) /\ Len(s) = Len(t) /\ Len(s) \in Nat
      /\ \A i \in 1..Len(s) : s[i] \in Nat /\ t[i] \in Nat /\ s[i] <= t[i]
  <2>1. <<m>> \in Seq(Nat) /\ Len(<<m>>) = 1 /\ <<m>>[1] = m
        /\ <<n>> \in Seq(Nat) /\ Len(<<n>>) = 1 /\ <<n>>[1] = n
    OBVIOUS
  <2>2. Len(C) \in Nat /\ \A i \in 1..Len(C) : C[i] \in Nat
    BY LenProperties
  <2>3. /\ s \in Seq(Nat) /\ Len(s) = 1 + Len(C)
        /\ \A i \in 1..1 + Len(C) : s[i] = IF i <= 1 THEN <<m>>[i] ELSE C[i - 1]
    BY <2>1, ConcatProperties
  <2>4. /\ t \in Seq(Nat) /\ Len(t) = 1 + Len(C)
        /\ \A i \in 1..1 + Len(C) : t[i] = IF i <= 1 THEN <<n>>[i] ELSE C[i - 1]
    BY <2>1, ConcatProperties
  <2> HIDE DEF s, t
  <2>5. ASSUME NEW i \in 1..1 + Len(C) PROVE s[i] \in Nat /\ t[i] \in Nat /\ s[i] <= t[i]
    <3>1. CASE i = 1
      BY <2>1, <2>3, <2>4, <3>1
    <3>2. CASE i # 1
      <4>1. ~(i <= 1) /\ i - 1 \in 1..Len(C)
        BY <2>2, <3>2
      <4>2. s[i] = C[i - 1] /\ t[i] = C[i - 1]
        BY <2>3, <2>4, <4>1
      <4>3. C[i - 1] \in Nat
        BY <2>2, <4>1
      <4>. QED BY <4>2, <4>3
    <3>. QED BY <3>1, <3>2
  <2>. QED BY <2>2, <2>3, <2>4, <2>5
<1> HIDE DEF s, t
<1>2. PICK v \in [0..Len(s) -> Nat] :
        /\ v[0] = 0 /\ \A i \in 1..Len(s) : v[i] = v[i - 1] + Digits[s[i]] + 2
        /\ Dictionary(s) = 11 + 3 + 37 + v[Len(s)] - 2 + (IF Len(s) = 1 THEN 1 ELSE 0) + 4
  BY <1>1, Dictionaries
<1>3. PICK w \in [0..Len(t) -> Nat] :
        /\ w[0] = 0 /\ \A i \in 1..Len(t) : w[i] = w[i - 1] + Digits[t[i]] + 2
        /\ Dictionary(t) = 11 + 3 + 37 + w[Len(t)] - 2 + (IF Len(t) = 1 THEN 1 ELSE 0) + 4
  BY <1>1, Dictionaries
<1> DEFINE Less == {i \in Nat : i <= Len(s) => v[i] <= w[i]}
<1>4. 0 \in Less
  BY <1>2, <1>3
<1>5. ASSUME NEW i \in Nat, i \in Less PROVE i + 1 \in Less
  <2> SUFFICES ASSUME i + 1 <= Len(s) PROVE v[i + 1] <= w[i + 1]
    OBVIOUS
  <2>1. i + 1 \in 1..Len(s) /\ i \in 0..Len(s) /\ (i + 1) - 1 = i /\ v[i] <= w[i]
    BY <1>1, <1>5
  <2>2. v[i + 1] = v[i] + Digits[s[i + 1]] + 2 /\ w[i + 1] = w[i] + Digits[t[i + 1]] + 2
    BY <1>1, <1>2, <1>3, <2>1
  <2>3. /\ Digits[s[i + 1]] <= Digits[t[i + 1]]
        /\ Digits[s[i + 1]] \in Nat /\ Digits[t[i + 1]] \in Nat
    <3>1. t[i + 1] \in Nat /\ s[i + 1] \in 0..t[i + 1]
      BY <1>1, <2>1
    <3>2. s[i + 1] \in Nat
      BY <3>1
    <3>3. Digits[s[i + 1]] <= Digits[t[i + 1]]
      BY <3>1, DigitsGrow
    <3>. QED BY <3>1, <3>2, <3>3, DigitsOfNumber
  <2>4. v[i] \in Nat /\ w[i] \in Nat
    BY <1>1, <1>2, <1>3, <2>1
  <2> DEFINE a == v[i]
             b == w[i]
             c == Digits[s[i + 1]]
             d == Digits[t[i + 1]]
  <2>5. a \in Nat /\ b \in Nat /\ c \in Nat /\ d \in Nat /\ a <= b /\ c <= d
    BY <2>1, <2>3, <2>4
  <2>6. v[i + 1] = a + c + 2 /\ w[i + 1] = b + d + 2
    BY <2>2
  <2> HIDE DEF a, b, c, d, Less
  <2>7. a + c + 2 <= b + d + 2
    BY <2>5
  <2>. QED BY <2>6, <2>7
<1>6. v[Len(s)] <= w[Len(s)] /\ v[Len(s)] \in Nat /\ w[Len(s)] \in Nat
  <2>1. Nat \subseteq Less
    <3> HIDE DEF Less
    <3>. QED BY <1>4, <1>5, Induction
  <2>. QED BY <1>1, <2>1
<1>7. Dictionary(s) \in Nat /\ Dictionary(t) \in Nat /\ Dictionary(s) <= Dictionary(t)
  <2>1. Len(t) = Len(s)
    BY <1>1
  <2>2. /\ Dictionary(s) = 11 + 3 + 37 + v[Len(s)] - 2 + (IF Len(s) = 1 THEN 1 ELSE 0) + 4
        /\ Dictionary(t) = 11 + 3 + 37 + w[Len(s)] - 2 + (IF Len(s) = 1 THEN 1 ELSE 0) + 4
    BY <1>2, <1>3, <2>1
  <2> DEFINE one == IF Len(s) = 1 THEN 1 ELSE 0
  <2>4. one \in {0, 1} /\ Dictionary(s) = 51 + v[Len(s)] - 2 + one + 4
        /\ Dictionary(t) = 51 + w[Len(s)] - 2 + one + 4
    BY <2>2
  <2> HIDE DEF one
  <2> DEFINE a == v[Len(s)]
             b == w[Len(s)]
  <2>5. a \in Nat /\ b \in Nat /\ a <= b
    BY <1>6
  <2>6. Dictionary(s) = 51 + a - 2 + one + 4 /\ Dictionary(t) = 51 + b - 2 + one + 4
    BY <2>4
  <2> HIDE DEF a, b
  <2>. QED BY <2>4, <2>5, <2>6
<1>8. HeaderLength(s) \in Nat /\ HeaderLength(t) \in Nat /\ HeaderLength(s) <= HeaderLength(t)
  <2>1. \A a, b \in Nat : a <= b =>
          /\ 10 + a + (16 - ((10 + a) % 16)) \in Nat
          /\ 10 + a + (16 - ((10 + a) % 16)) <= 10 + b + (16 - ((10 + b) % 16))
    OBVIOUS
  <2>2. /\ 10 + Dictionary(s) + (16 - ((10 + Dictionary(s)) % 16)) \in Nat
        /\ 10 + Dictionary(t) + (16 - ((10 + Dictionary(t)) % 16)) \in Nat
        /\ 10 + Dictionary(s) + (16 - ((10 + Dictionary(s)) % 16))
             <= 10 + Dictionary(t) + (16 - ((10 + Dictionary(t)) % 16))
    <3> DEFINE a == Dictionary(s)
               b == Dictionary(t)
    <3>1. a \in Nat /\ b \in Nat /\ a <= b
      BY <1>7
    <3> HIDE DEF a, b
    <3>2. /\ 10 + a + (16 - ((10 + a) % 16)) \in Nat
          /\ 10 + b + (16 - ((10 + b) % 16)) \in Nat
          /\ 10 + a + (16 - ((10 + a) % 16)) <= 10 + b + (16 - ((10 + b) % 16))
      BY <3>1
    <3>. QED BY <3>2 DEF a, b
  <2>. QED BY <2>2 DEF HeaderLength
<1>. QED BY <1>8 DEF s, t

-----------------------------------------------------------------------------
(* A file of numpy's format.                                               *)

Zeros(n) == [i \in 1..n |-> HeaderByte]

\* The header of the file shows that many rows. What it has been given is
\* behind the header, or the file is shorter than the header says: an append
\* never makes up for what a longer header was written over, or for the
\* elements that a vector does not have.
FileShows(rows) ==
  LET shape == <<rows>> \o Columns
      row == Elements(Columns)
  IN  /\ npy = [shape |-> shape, bytes |-> npy.bytes]
      /\ npy.bytes \in Seq(Nat) /\ given \in Seq(Nat)
      /\ began \in Nat /\ began <= HeaderLength(shape)
      /\ HeaderLength(shape) <= Len(npy.bytes)
      /\ IF HeaderLength(shape) = began /\ (misshaped => row = 1)
         THEN npy.bytes = Zeros(began) \o given /\ Len(given) = rows * row
         ELSE Len(npy.bytes) < HeaderLength(shape) + rows * row

NpyIndInv ==
  /\ numbered \in Nat /\ misshaped \in BOOLEAN
  /\ npy # NoFile => \E rows \in Nat \ {0} : FileShows(rows)

\* The shape of a file that has rows.
LEMMA ShapeOfFile ==
  /\ Columns \in Seq(Int) /\ Elements(Columns) \in Nat \ {0} /\ Elements(<<>>) = 1
  /\ \A rows \in Nat : /\ <<rows>> \o Columns \in Seq(Nat) /\ <<rows>> \o Columns # <<>>
                       /\ Elements(<<rows>> \o Columns) = rows * Elements(Columns)
<1>1. /\ Columns \in Seq(Int) /\ Columns \in Seq(Nat)
      /\ \A n \in 1..Len(Columns) : Columns[n] >= 1
  <2>1. Columns \in Seq(1..MaxInt)
    BY NpyAssumption
  <2>2. \A n \in 1..MaxInt : n \in Nat /\ n >= 1
    BY SMT
  <2>3. 1..MaxInt \subseteq Nat /\ 1..MaxInt \subseteq Int
    BY <2>2
  <2>4. \A n \in 1..Len(Columns) : Columns[n] \in 1..MaxInt
    BY <2>1, ElementOfSeq
  <2>. QED BY <2>1, <2>2, <2>3, <2>4, SeqMonotonic
<1>2. Product(Columns) \in Int /\ Product(Columns) >= 1
  BY <1>1, ProductSign
<1>3. Elements(Columns) = Product(Columns)
  BY <1>1, ElementsAreProduct
<1>4. Elements(<<>>) = 1
  <2>1. <<>> \in Seq(Int)
    OBVIOUS
  <2>. QED BY <2>1, ElementsAreProduct, ProductOfFew
<1>5. ASSUME NEW rows \in Nat
      PROVE  /\ <<rows>> \o Columns \in Seq(Nat) /\ <<rows>> \o Columns # <<>>
             /\ Elements(<<rows>> \o Columns) = rows * Elements(Columns)
  <2>1. <<rows>> \in Seq(Int) /\ rows \in Int /\ <<rows>> \in Seq(Nat) /\ <<rows>> # <<>>
    OBVIOUS
  <2>2. Product(<<rows>> \o Columns) = Product(<<rows>>) * Product(Columns)
    BY <1>1, <2>1, ProductOfConcat
  <2>3. Product(<<rows>>) = rows
    BY <2>1, ProductOfFew
  <2>4. <<rows>> \o Columns \in Seq(Int) /\ <<rows>> \o Columns \in Seq(Nat)
    BY <1>1, <2>1, ConcatProperties
  <2>5. <<rows>> \o Columns # <<>>
    BY <1>1, <2>1, ConcatEmptySeq, ConcatProperties, LenProperties
  <2>6. Elements(<<rows>> \o Columns) = Product(<<rows>> \o Columns)
    BY <2>4, ElementsAreProduct
  <2>. QED BY <1>3, <2>2, <2>3, <2>4, <2>5, <2>6
<1>. QED BY <1>1, <1>2, <1>3, <1>4, <1>5

\* The bytes of rows are as many as their elements.
LEMMA BytesOfRows ==
  ASSUME numbered \in Nat, NEW n \in Nat \ {0}, NEW count \in Nat \ {0}
  PROVE  Rows(n, count) \in Seq(Nat) /\ Len(Rows(n, count)) = n * count /\ n * count \in Nat \ {0}
<1>1. n * count \in Nat \ {0}
  OBVIOUS
<1>2. \A b \in 1..n * count : numbered + 1 + (b - 1) \div count \in Nat
  <2>1. \A a \in Nat : a \div count \in Nat
    OBVIOUS
  <2> SUFFICES ASSUME NEW b \in 1..n * count PROVE numbered + 1 + (b - 1) \div count \in Nat
    OBVIOUS
  <2>2. b - 1 \in Nat
    BY <1>1
  <2>. QED BY <2>1, <2>2
<1>. QED BY <1>1, <1>2 DEF Rows

\* A header is written in bytes.
LEMMA ZerosAreBytes == \A n \in Nat : Zeros(n) \in Seq(Nat) /\ Len(Zeros(n)) = n
BY DEF Zeros, HeaderByte

\* A header that is written over a file changes nothing of what is behind it,
\* and a file that is shorter becomes as long as the header.
LEMMA HeaderOverFile ==
  ASSUME NEW bytes \in Seq(Nat), NEW shape, HeaderLength(shape) \in Nat
  PROVE  /\ WithHeader(bytes, shape) \in Seq(Nat)
         /\ Len(WithHeader(bytes, shape)) =
              IF HeaderLength(shape) <= Len(bytes) THEN Len(bytes) ELSE HeaderLength(shape)
         /\ \A values \in Seq(Nat) : bytes = Zeros(HeaderLength(shape)) \o values =>
              WithHeader(bytes, shape) = bytes
<1> DEFINE h == HeaderLength(shape)
           rest == SubSeq(bytes, h + 1, Len(bytes))
<1>1. h \in Nat /\ Len(bytes) \in Nat
  BY LenProperties
<1>2. WithHeader(bytes, shape) = Zeros(h) \o rest
  BY DEF WithHeader, Zeros
<1> HIDE DEF h
<1>3. Zeros(h) \in Seq(Nat) /\ Len(Zeros(h)) = h
  BY <1>1, ZerosAreBytes
<1>4. rest \in Seq(Nat) /\ Len(rest) = IF h + 1 <= Len(bytes) THEN Len(bytes) - h ELSE 0
  BY <1>1
<1>5. ASSUME NEW values \in Seq(Nat), bytes = Zeros(h) \o values PROVE rest = values
  <2>1. Len(bytes) = h + Len(values) /\ Len(values) \in Nat
    BY <1>3, <1>5, ConcatProperties, LenProperties
  <2>2. Len(rest) = Len(values)
    BY <1>1, <1>4, <2>1
  <2>3. ASSUME NEW i \in 1..Len(values) PROVE rest[i] = values[i]
    <3>1. rest[i] = bytes[h + i]
      BY <1>1, <1>4, <2>1
    <3>2. bytes[h + i] = values[i]
      <4>1. \A n \in 1..Len(Zeros(h)) + Len(values) :
              (Zeros(h) \o values)[n] = IF n <= Len(Zeros(h)) THEN Zeros(h)[n]
                                        ELSE values[n - Len(Zeros(h))]
        BY <1>3, ConcatProperties
      <4>2. h + i \in 1..Len(Zeros(h)) + Len(values) /\ ~(h + i <= Len(Zeros(h)))
            /\ (h + i) - Len(Zeros(h)) = i
        BY <1>1, <1>3, <2>1
      <4>. QED BY <1>5, <4>1, <4>2
    <3>. QED BY <3>1, <3>2
  <2> HIDE DEF rest
  <2>. QED BY <1>4, <2>2, <2>3, SeqEqual
<1> HIDE DEF rest
<1>6. Zeros(h) \o rest \in Seq(Nat) /\ Len(Zeros(h) \o rest) = h + Len(rest)
  BY <1>3, <1>4, ConcatProperties
<1>7. Len(Zeros(h) \o rest) = IF h <= Len(bytes) THEN Len(bytes) ELSE h
  BY <1>1, <1>4, <1>6
<1>. QED BY <1>2, <1>5, <1>6, <1>7 DEF h

\* A new file holds its header and the rows it is created with.
LEMMA CreateKeeps ==
  ASSUME NpyIndInv, NEW n \in Nat \ {0}, Create(n)
  PROVE  NpyIndInv'
<1> DEFINE shape == <<n>> \o Columns
           h == HeaderLength(shape)
           row == Elements(Columns)
           new == Rows(n, row)
<1>1. row \in Nat \ {0} /\ h \in Nat
  BY ShapeOfFile, HeaderGrows
<1>2. new \in Seq(Nat) /\ Len(new) = n * row /\ n * row \in Nat \ {0}
  BY <1>1, BytesOfRows DEF NpyIndInv
<1>3. Zeros(h) \in Seq(Nat) /\ Len(Zeros(h)) = h
  BY <1>1, ZerosAreBytes
<1>4. WithHeader(<<>>, shape) = Zeros(h)
  <2>1. <<>> \in Seq(Nat) /\ Len(<<>>) = 0
    OBVIOUS
  <2>2. WithHeader(<<>>, shape) = Zeros(h) \o SubSeq(<<>>, h + 1, 0)
    BY DEF WithHeader, Zeros
  <2>3. SubSeq(<<>>, h + 1, 0) = <<>>
    BY <1>1, SubSeqEmpty
  <2> HIDE DEF h
  <2>. QED BY <1>3, <2>2, <2>3, ConcatEmptySeq
<1>5. /\ npy' = [shape |-> shape, bytes |-> Zeros(h) \o new] /\ given' = new
      /\ misshaped' = FALSE /\ began' = h /\ numbered' = numbered + n
  BY <1>4 DEF Create
<1>6. FileShows(n)'
  <2> HIDE DEF h, new, row, shape
  <2>1. Zeros(h) \o new \in Seq(Nat) /\ Len(Zeros(h) \o new) = h + n * row
    BY <1>2, <1>3, ConcatProperties
  <2>2. /\ npy'.bytes = Zeros(began') \o given' /\ Len(given') = n * row
        /\ npy' = [shape |-> shape, bytes |-> npy'.bytes] /\ npy'.bytes \in Seq(Nat)
        /\ given' \in Seq(Nat) /\ began' \in Nat /\ h <= Len(npy'.bytes) /\ began' = h
        /\ misshaped' = FALSE
    BY <1>1, <1>2, <1>5, <2>1
  <2>3. began' <= h
    BY <1>1, <2>2
  <2>. QED BY <2>2, <2>3 DEF FileShows, shape, h, row
<1>7. numbered' \in Nat
  BY <1>5 DEF NpyIndInv
<1>8. misshaped' \in BOOLEAN
  BY <1>5
<1> HIDE DEF h, new, row, shape
<1>. QED BY <1>6, <1>7, <1>8 DEF NpyIndInv

\* Bytes one after another, in whatever order they are put together.
LEMMA ThreeTogether == \A a, b, c \in Seq(Nat) : (a \o b) \o c = a \o (b \o c)
BY ConcatAssociative, SMTT(30)

\* What is appended to a file is behind what was there.
LEMMA TwoTogether ==
  \A a, b \in Seq(Nat) :
    /\ a \o b \in Seq(Nat) /\ Len(a \o b) = Len(a) + Len(b)
    /\ \A i \in 1..Len(b) : (a \o b)[Len(a) + i] = b[i]
BY ConcatProperties, LenProperties

\* What is appended does not make a file that is too short long enough.
LEMMA StaysShort ==
  ASSUME NEW before \in Nat, NEW k \in Nat, NEW a \in Nat \ {0}, NEW b \in Nat, NEW c \in Nat,
         b <= c, before <= k + a, b < c \/ before < k + a
  PROVE  (IF k <= before THEN before ELSE k) + b < k + (a + c)
OBVIOUS

\* Rows or a vector are put behind what is in the file, unless the header has
\* become longer.
LEMMA AppendKeeps ==
  ASSUME NpyIndInv, NEW n \in Nat \ {0}, NEW sizes, AppendTo(n, sizes),
         Elements(sizes) \in 1..Elements(Columns),
         misshaped' \in BOOLEAN, misshaped => misshaped',
         Elements(sizes) = Elements(Columns) \/ misshaped',
         misshaped' => misshaped \/ Elements(sizes) # Elements(Columns) \/ Elements(Columns) = 1
  PROVE  NpyIndInv'
<1> DEFINE row == Elements(Columns)
           few == Elements(sizes)
           new == Rows(n, few)
<1>1. row \in Nat \ {0} /\ few \in Nat \ {0} /\ few <= row /\ (few = row \/ misshaped')
      /\ (misshaped' => misshaped \/ few # row \/ row = 1)
  BY ShapeOfFile
<1>2. PICK rows \in Nat \ {0} : FileShows(rows)
  BY DEF NpyIndInv, AppendTo
<1> DEFINE old == <<rows>> \o Columns
           shape == <<rows + n>> \o Columns
           h == HeaderLength(old)
           k == HeaderLength(shape)
           over == WithHeader(npy.bytes, shape)
<1>3. h \in Nat /\ k \in Nat /\ h <= k
  BY ShapeOfFile, HeaderGrows
<1>4. new \in Seq(Nat) /\ Len(new) = n * few /\ n * few \in Nat
  BY <1>1, BytesOfRows DEF NpyIndInv
<1>5. [npy.shape EXCEPT ![1] = @ + n] = shape
  <2>1. npy.shape = old
    BY <1>2 DEF FileShows
  <2>2. Columns \in Seq(Int) /\ Columns \in [1..Len(Columns) -> Int] /\ Len(Columns) \in Nat
    BY ShapeOfFile, LenProperties
  <2>3. old \in Seq(Int) /\ Len(old) = 1 + Len(Columns) /\ old[1] = rows
        /\ \A i \in 2..Len(old) : old[i] = Columns[i - 1]
    BY <2>2
  <2>4. shape \in Seq(Int) /\ Len(shape) = 1 + Len(Columns) /\ shape[1] = rows + n
        /\ \A i \in 2..Len(old) : shape[i] = Columns[i - 1]
    BY <2>2
  <2> DEFINE new1 == [old EXCEPT ![1] = rows + n]
  <2> HIDE DEF old, shape
  <2>5. 1 \in 1..Len(old) /\ rows + n \in Int
    BY <2>2, <2>3
  <2>6. /\ new1 \in Seq(Int) /\ Len(new1) = Len(old)
        /\ \A i \in 1..Len(old) : new1[i] = IF i = 1 THEN rows + n ELSE old[i]
    BY <2>3, <2>5, ExceptSeq
  <2>7. ASSUME NEW i \in 1..Len(old) PROVE new1[i] = shape[i]
    <3>1. new1[i] = IF i = 1 THEN rows + n ELSE old[i]
      BY <2>6
    <3>2. CASE i = 1
      BY <2>4, <3>1, <3>2
    <3>3. CASE i # 1
      <4>1. i \in 2..Len(old)
        BY <2>2, <2>3, <3>3
      <4>. QED BY <2>3, <2>4, <3>1, <3>3, <4>1
    <3>. QED BY <3>2, <3>3
  <2>8. [npy.shape EXCEPT ![1] = @ + n] = new1
    BY <2>1, <2>3
  <2> HIDE DEF new1
  <2>9. new1 = shape
    BY <2>3, <2>4, <2>6, <2>7, SeqEqual
  <2>. QED BY <2>8, <2>9
<1>6. /\ npy' = [shape |-> shape, bytes |-> over \o new] /\ given' = given \o new
      /\ began' = began /\ numbered' = numbered + n
  BY <1>5 DEF AppendTo
<1>7. /\ over \in Seq(Nat)
      /\ Len(over) = IF k <= Len(npy.bytes) THEN Len(npy.bytes) ELSE k
      /\ \A values \in Seq(Nat) : npy.bytes = Zeros(k) \o values => over = npy.bytes
  <2>1. npy.bytes \in Seq(Nat)
    BY <1>2 DEF FileShows
  <2>. QED BY <1>3, <2>1, HeaderOverFile
<1>8. /\ npy.bytes \in Seq(Nat) /\ given \in Seq(Nat) /\ began \in Nat /\ began <= h
      /\ h <= Len(npy.bytes)
      /\ IF h = began /\ (misshaped => row = 1)
         THEN npy.bytes = Zeros(began) \o given /\ Len(given) = rows * row
         ELSE Len(npy.bytes) < h + rows * row
  BY <1>2 DEF FileShows
<1>9. Len(npy.bytes) \in Nat
  BY <1>8, LenProperties
<1> HIDE DEF h, k, new, over, row, few, shape, old
<1>10. over \o new \in Seq(Nat) /\ Len(over \o new) = Len(over) + n * few
  <2>1. over \in Seq(Nat) /\ new \in Seq(Nat)
    BY <1>4, <1>7
  <2>2. over \o new \in Seq(Nat) /\ Len(over \o new) = Len(over) + Len(new)
    BY <2>1, ConcatProperties
  <2>. QED BY <1>4, <2>2
<1>11. given' \in Seq(Nat) /\ Len(given') = Len(given) + n * few
  <2>1. given \in Seq(Nat) /\ new \in Seq(Nat)
    BY <1>4, <1>8
  <2>2. given \o new \in Seq(Nat) /\ Len(given \o new) = Len(given) + Len(new)
    BY <2>1, ConcatProperties
  <2>. QED BY <1>4, <1>6, <2>2
<1>12. /\ n * few <= n * row /\ (few # row => n * few < n * row)
       /\ (rows + n) * row = rows * row + n * row
       /\ rows * row \in Nat \ {0} /\ n * row \in Nat \ {0}
  BY <1>1
<1>13. ASSUME h = began, misshaped => row = 1
       PROVE  npy.bytes = Zeros(h) \o given /\ Len(given) = rows * row
              /\ Len(npy.bytes) = h + rows * row
  <2>1. npy.bytes = Zeros(h) \o given /\ Len(given) = rows * row
    BY <1>8, <1>13
  <2>2. Zeros(h) \in Seq(Nat) /\ Len(Zeros(h)) = h /\ given \in Seq(Nat)
    BY <1>3, <1>8, ZerosAreBytes
  <2>. QED BY <2>1, <2>2, ConcatProperties
<1>14. ASSUME k = began, misshaped' => row = 1
       PROVE  over \o new = Zeros(began) \o given' /\ Len(given') = (rows + n) * row
  <2>1. h = began /\ (misshaped => row = 1) /\ h = k
    BY <1>3, <1>8, <1>14
  <2>2. npy.bytes = Zeros(k) \o given /\ Len(given) = rows * row
    BY <1>13, <2>1
  <2>3. over = Zeros(k) \o given
    BY <1>7, <1>8, <2>2
  <2>4. few = row
    BY <1>1, <1>14
  <2>5. over \o new = Zeros(k) \o (given \o new)
    <3> DEFINE head1 == Zeros(k)
    <3>1. head1 \in Seq(Nat) /\ given \in Seq(Nat) /\ new \in Seq(Nat)
      BY <1>3, <1>4, <1>8, ZerosAreBytes
    <3> HIDE DEF head1
    <3>2. (head1 \o given) \o new = head1 \o (given \o new)
      BY <3>1, ThreeTogether, Zenon
    <3>. QED BY <2>3, <3>2 DEF head1
  <2>6. Len(given') = (rows + n) * row
    BY <1>11, <1>12, <2>2, <2>4
  <2>. QED BY <1>6, <1>14, <2>5, <2>6
<1>15. ASSUME ~(k = began /\ (misshaped' => row = 1))
       PROVE  Len(over \o new) < k + (rows + n) * row
  <2>1. /\ Len(npy.bytes) <= k + rows * row
        /\ n * few < n * row \/ Len(npy.bytes) < k + rows * row
    <3>1. CASE h = began /\ (misshaped => row = 1)
      <4>1. Len(npy.bytes) = h + rows * row
        BY <1>13, <3>1
      <4>2. k # h \/ few # row
        <5>1. CASE k = began
          BY <1>1, <1>15, <3>1, <5>1
        <5>2. CASE k # began
          BY <3>1, <5>2
        <5>. QED BY <5>1, <5>2
      <4>. QED BY <1>3, <1>12, <4>1, <4>2
    <3>2. CASE ~(h = began /\ (misshaped => row = 1))
      <4>1. Len(npy.bytes) < h + rows * row
        BY <1>8, <3>2
      <4>. QED BY <1>3, <1>9, <1>12, <4>1
    <3>. QED BY <3>1, <3>2
  <2>2. (IF k <= Len(npy.bytes) THEN Len(npy.bytes) ELSE k) + n * few
          < k + (rows * row + n * row)
    BY <1>3, <1>4, <1>9, <1>12, <2>1, StaysShort
  <2>. QED BY <1>7, <1>10, <1>12, <2>2
<1>16. k <= Len(over \o new)
  <2>1. k <= Len(over) /\ Len(over) \in Nat
    BY <1>3, <1>7, <1>9
  <2>. QED BY <1>3, <1>4, <1>10, <2>1
<1>17. FileShows(rows + n)'
  <2>1. npy' = [shape |-> shape, bytes |-> npy'.bytes] /\ npy'.bytes = over \o new
    BY <1>6
  <2>2. began' \in Nat /\ began' <= k /\ began' = began
    BY <1>3, <1>6, <1>8
  <2>3. IF k = began' /\ (misshaped' => row = 1)
        THEN npy'.bytes = Zeros(began') \o given' /\ Len(given') = (rows + n) * row
        ELSE Len(npy'.bytes) < k + (rows + n) * row
    BY <1>14, <1>15, <2>1, <2>2
  <2>. QED BY <1>10, <1>11, <1>16, <2>1, <2>2, <2>3 DEF FileShows, k, row, shape
<1>18. numbered' \in Nat
  BY <1>6 DEF NpyIndInv
<1>. QED BY <1>17, <1>18 DEF NpyIndInv

\* Every call keeps the invariant of the file.
THEOREM FileIsAsGiven == LibrarySpec => []NpyIndInv
<1>1. LibraryInit => NpyIndInv
  <2> SUFFICES ASSUME LibraryInit PROVE NpyIndInv
    OBVIOUS
  <2>1. npy = NoFile /\ numbered = 0 /\ misshaped = FALSE
    BY DEF LibraryInit, NpyInit
  <2>. QED BY <2>1 DEF NpyIndInv
<1>2. NpyIndInv /\ [LibraryNext]_libraryVars => NpyIndInv'
  <2> SUFFICES ASSUME NpyIndInv, [LibraryNext]_libraryVars PROVE NpyIndInv'
    OBVIOUS
  <2>1. CASE NpyNext
    <3>1. PICK n \in RowCounts : Create(n) \/ AppendRows(n) \/ AppendVector(n)
      BY <2>1 DEF NpyNext
    <3>2. n \in Nat \ {0}
      BY NpyAssumption
    <3>3. /\ Elements(Columns) \in 1..Elements(Columns) /\ misshaped \in BOOLEAN
          /\ Elements(<<>>) \in 1..Elements(Columns) /\ Elements(<<>>) = 1
      BY ShapeOfFile DEF NpyIndInv
    <3>4. CASE Create(n)
      BY <3>2, <3>4, CreateKeeps
    <3>5. CASE AppendRows(n)
      BY <3>2, <3>3, <3>5, AppendKeeps DEF AppendRows
    <3>6. CASE AppendVector(n)
      BY <3>2, <3>3, <3>6, AppendKeeps DEF AppendVector
    <3>. QED BY <3>1, <3>4, <3>5, <3>6
  <2>2. CASE UNCHANGED npyVars
    BY <2>2 DEF npyVars, NpyIndInv, FileShows, Zeros
  <2>. QED BY <2>1, <2>2 DEF LibraryNext, libraryVars
<1>. QED BY <1>1, <1>2, PTL DEF LibrarySpec

\* Of a number and itself the least is that number.
LEMMA MinOfOne == \A n \in Nat : Min({n, n}) = n
BY DEF Min

\* cnpy: what is loaded is what was saved, or loading throws, and it throws
\* only when the header has outgrown its padding or the file was misshaped.
THEOREM LoadedIsSavedAlways == LibrarySpec => []LoadedIsSaved
<1>1. NpyIndInv => LoadedIsSaved
  <2> SUFFICES ASSUME NpyIndInv, npy # NoFile PROVE LoadedIsSaved
    BY DEF LoadedIsSaved
  <2>1. PICK rows \in Nat \ {0} : FileShows(rows)
    BY DEF NpyIndInv
  <2> DEFINE h == HeaderLength(npy.shape)
             row == Elements(Columns)
             wanted == rows * row
  <2>2. npy.shape = <<rows>> \o Columns
    BY <2>1 DEF FileShows
  <2>3. h \in Nat /\ row \in Nat \ {0} /\ wanted \in Nat /\ Elements(npy.shape) = wanted
    BY <2>2, ShapeOfFile, HeaderGrows
  <2>4. /\ npy.bytes \in Seq(Nat) /\ given \in Seq(Nat) /\ began \in Nat /\ began <= h
        /\ h <= Len(npy.bytes)
        /\ IF h = began /\ (misshaped => row = 1)
           THEN npy.bytes = Zeros(began) \o given /\ Len(given) = wanted
           ELSE Len(npy.bytes) < h + wanted
    BY <2>1, <2>2 DEF FileShows
  <2>5. Len(npy.bytes) \in Nat
    BY <2>4, LenProperties
  <2>6. Body = SubSeq(npy.bytes, h + 1, Len(npy.bytes))
    BY DEF Body
  <2>7. LoadThrows <=> Len(Body) < wanted
    BY <2>3 DEF LoadThrows, ReadFails
  <2>8. misshaped \in BOOLEAN
    BY DEF NpyIndInv
  <2>9. LoadedIsSaved <=>
          /\ ~LoadThrows => Loaded = given
          /\ LoadThrows <=> h > began \/ (misshaped /\ row > 1)
    BY DEF LoadedIsSaved
  <2>10. Loaded = SubSeq(Body, 1, Min({wanted, Len(Body)}))
    BY <2>3 DEF Loaded
  <2> HIDE DEF h, wanted, row
  <2>11. /\ Body \in Seq(Nat) /\ Len(Body) = Len(npy.bytes) - h
         /\ \A i \in 1..Len(npy.bytes) - h : Body[i] = npy.bytes[h + i]
    <3>1. \A i \in h + 1..Len(npy.bytes) : npy.bytes[i] \in Nat
      BY <2>3, <2>4, <2>5, ElementOfSeq
    <3>2. h + 1 \in Int /\ Len(npy.bytes) \in Int
      BY <2>3, <2>5
    <3>3. /\ Body \in Seq(Nat)
          /\ Len(Body) = IF h + 1 <= Len(npy.bytes) THEN Len(npy.bytes) - (h + 1) + 1 ELSE 0
          /\ \A i \in 1..Len(npy.bytes) - (h + 1) + 1 : Body[i] = npy.bytes[h + 1 + i - 1]
      BY <2>6, <3>1, <3>2, SubSeqProperties
    <3>4. Len(npy.bytes) - (h + 1) + 1 = Len(npy.bytes) - h
      BY <2>3, <2>5
    <3>5. \A i \in 1..Len(npy.bytes) - h : h + 1 + i - 1 = h + i
      BY <2>3
    <3>. QED BY <2>3, <2>4, <2>5, <3>3, <3>4, <3>5
  <2>12. CASE h = began /\ (misshaped => row = 1)
    <3>1. npy.bytes = Zeros(h) \o given /\ Len(given) = wanted
      BY <2>4, <2>12
    <3>2. Zeros(h) \in Seq(Nat) /\ Len(Zeros(h)) = h
      BY <2>3, ZerosAreBytes
    <3>3. Len(npy.bytes) = h + wanted /\ Len(npy.bytes) - h = wanted
      BY <2>3, <2>4, <3>1, <3>2, ConcatProperties
    <3>4. Body = given
      <4>1. ASSUME NEW i \in 1..wanted PROVE Body[i] = given[i]
        <5>1. Body[i] = npy.bytes[h + i]
          BY <2>11, <3>3
        <5>2. h + i \in 1..Len(Zeros(h)) + Len(given) /\ ~(h + i <= Len(Zeros(h)))
              /\ h + i - Len(Zeros(h)) = i
          BY <2>3, <3>1, <3>2
        <5>3. npy.bytes[h + i] = given[i]
          <6> DEFINE head1 == Zeros(h)
          <6>1. head1 \in Seq(Nat) /\ given \in Seq(Nat) /\ i \in 1..Len(given)
            BY <2>4, <3>1, <3>2
          <6>2. Len(head1) = h
            BY <3>2
          <6> HIDE DEF head1
          <6>3. (head1 \o given)[Len(head1) + i] = given[i]
            BY <6>1, TwoTogether, Zenon
          <6>. QED BY <3>1, <6>2, <6>3, Zenon DEF head1
        <5>. QED BY <5>1, <5>3
      <4>2. Len(Body) = Len(given)
        BY <2>11, <3>1, <3>3
      <4>. QED BY <2>4, <2>11, <3>1, <4>1, <4>2, SeqEqual
    <3>5. ~LoadThrows
      BY <2>3, <2>7, <3>1, <3>4
    <3>6. Loaded = given
      <4>1. Min({wanted, Len(Body)}) = wanted
        BY <2>3, <3>1, <3>4, MinOfOne
      <4>. QED BY <2>4, <2>10, <3>1, <3>4, <4>1, SubSeqFull
    <3>7. ~(h > began) /\ ~(misshaped /\ row > 1)
      BY <2>3, <2>4, <2>12
    <3>. QED BY <2>9, <3>5, <3>6, <3>7
  <2>13. CASE ~(h = began /\ (misshaped => row = 1))
    <3>1. Len(npy.bytes) < h + wanted
      BY <2>4, <2>13
    <3>2. LoadThrows
      BY <2>3, <2>5, <2>7, <2>11, <3>1
    <3>3. h > began \/ (misshaped /\ row > 1)
      BY <2>3, <2>4, <2>8, <2>13
    <3>. QED BY <2>9, <3>2, <3>3
  <2>. QED BY <2>12, <2>13
<1>. QED BY <1>1, FileIsAsGiven, PTL

-----------------------------------------------------------------------------
(* The functions. A call has the arguments that it was made with.          *)

CallInv ==
  \/ call = NoCall
  \/ \E s \in Texts : call = [fn |-> "text", str |-> s]
  \/ \E s \in TensorShapes, o \in Shapes, a \in Axes :
       call = [fn |-> "shape", shape |-> s, axis |-> a, other |-> o]
  \/ \E s \in TensorShapes, f \in Factors : \E n \in Nat :
       call = [fn |-> "repeat", input |-> [i \in 1..n |-> i], shape |-> s, factors |-> f]
  \/ \E v \in Arrays, k \in Ks : call = [fn |-> "topk", values |-> v, k |-> k]
  \/ \E f \in Waves : call = [fn |-> "read", file |-> f]
  \/ \E v \in Arrays, c \in {1, 2}, b \in Widths :
       call = [fn |-> "write", values |-> v, channels |-> c, bits |-> b]

\* A tensor has as many elements as the product of its shape, or more.
LEMMA CountOfElements == \A s \in TensorShapes : Product(s) \in Nat
<1> SUFFICES ASSUME NEW s \in TensorShapes PROVE Product(s) \in Nat
  OBVIOUS
<1>1. s \in Seq(Int) /\ \A n \in DOMAIN s : s[n] >= 0
  BY LibrariesAssumption DEF TensorShapes
<1>2. \A n \in 1..Len(s) : s[n] >= 0
  BY <1>1, LenProperties
<1>3. Product(s) \in Int /\ Product(s) >= 0
  BY <1>1, <1>2, ProductSign
<1>. QED BY <1>3

\* A call is of a function of the libraries, with arguments that it may be given:
\* the inductive invariant of the calls.
THEOREM CallsHaveArguments == LibrarySpec => []CallInv
<1>1. LibraryInit => CallInv
  BY DEF LibraryInit, CallInv
<1>2. CallInv /\ [LibraryNext]_libraryVars => CallInv'
  <2> SUFFICES ASSUME CallInv, [LibraryNext]_libraryVars PROVE CallInv'
    OBVIOUS
  <2>1. CASE Text
    BY <2>1 DEF Text, CallInv
  <2>2. CASE Shape
    BY <2>2 DEF Shape, CallInv, TensorShapes
  <2>3. CASE RepeatTensor
    <3>1. PICK s \in TensorShapes, f \in Factors, extra \in 0..MaxExtra :
            \E n \in {Product(s) + extra} \cup (Nat \cap {Accumulated(s)}) :
              call' = [fn |-> "repeat", input |-> [i \in 1..n |-> i], shape |-> s, factors |-> f]
      BY <2>3 DEF RepeatTensor
    <3>2. Product(s) + extra \in Nat
      BY CountOfElements, LibrariesAssumption
    <3>3. \E n \in Nat :
            call' = [fn |-> "repeat", input |-> [i \in 1..n |-> i], shape |-> s, factors |-> f]
      BY <3>1, <3>2
    <3>. QED BY <3>3 DEF CallInv, TensorShapes
  <2>4. CASE Best
    BY <2>4 DEF Best, CallInv
  <2>5. CASE Read
    BY <2>5 DEF Read, CallInv
  <2>6. CASE WriteWave
    BY <2>6 DEF WriteWave, CallInv
  <2>7. CASE call' = NoCall
    BY <2>7 DEF CallInv, NoCall
  <2>8. CASE UNCHANGED call
    BY <2>8 DEF CallInv, NoCall, TensorShapes
  <2>. QED BY <2>1, <2>2, <2>3, <2>4, <2>5, <2>6, <2>7, <2>8 DEF LibraryNext, Call, libraryVars
<1>. QED BY <1>1, <1>2, PTL DEF LibrarySpec

\* A set of positions that is not empty has a first one.
LEMMA MinInSet ==
  ASSUME NEW S, S \subseteq Nat, S # {}
  PROVE  Min(S) \in S /\ \A x \in S : Min(S) <= x
<1>1. PICK m \in S : \A y \in S : <<y, m>> \notin Before
  BY BeforeIsWellFounded, WFMin, Zenon
<1>2. \A y \in S : m <= y
  <2>1. \A a, b \in Nat : a < b => <<a, b>> \in Before
    BY DEF Before
  <2> SUFFICES ASSUME NEW y \in S PROVE m <= y
    OBVIOUS
  <2>2. y \in Nat /\ m \in Nat /\ <<y, m>> \notin Before
    BY <1>1
  <2>3. ~(y < m)
    BY <2>1, <2>2
  <2>. QED BY <2>2, <2>3
<1>3. Min(S) = CHOOSE x \in S : \A y \in S : x <= y
  BY DEF Min
<1>. QED BY <1>2, <1>3

-----------------------------------------------------------------------------
(* Tensors: shapes.                                                        *)

\* A function on 1..n is a sequence of n elements.
LEMMA FunctionIsSequence ==
  ASSUME NEW S, NEW n \in Nat, NEW f \in [1..n -> S]
  PROVE  f \in Seq(S) /\ Len(f) = n
OBVIOUS

\* A stride is the product of the dimensions behind.
LEMMA StridesOfShape ==
  ASSUME NEW s \in Seq(Int), ~StridesOverrun(s)
  PROVE  /\ ComputeStrides(s) \in [1..Len(s) -> Int]
         /\ \A i \in 1..Len(s) :
              ComputeStrides(s)[i] = IF i = Len(s) THEN 1 ELSE ComputeStrides(s)[i + 1] * s[i + 1]
<1> DEFINE S == 1..Len(s)
           mu == [i \in S |-> Len(s) - i]
           F == [p \in [S -> Int] \X S |->
                   IF p[2] = Len(s) THEN 1 ELSE p[1][p[2] + 1] * s[p[2] + 1]]
           Is(x) == x = [i \in 1..Len(s) |-> IF i = Len(s) THEN 1 ELSE x[i + 1] * s[i + 1]]
<1>1. Len(s) \in Nat /\ \A i \in S : s[i] \in Int /\ (i # Len(s) => i + 1 \in S)
  BY LenProperties
<1>2. mu \in [S -> Nat]
  BY <1>1
<1>3. F \in [[S -> Int] \X S -> Int]
  <2> HIDE DEF S
  <2> SUFFICES ASSUME NEW g \in [S -> Int], NEW i \in S, i # Len(s)
               PROVE  g[i + 1] * s[i + 1] \in Int
    OBVIOUS
  <2>1. i + 1 \in S
    BY <1>1
  <2>2. g[i + 1] \in Int /\ s[i + 1] \in Int
    BY <1>1, <2>1
  <2>. QED BY <2>2
<1>4. Descends(F, S, Int, mu)
  <2> SUFFICES ASSUME NEW g \in [S -> Int], NEW h \in [S -> Int], NEW i \in S,
                      \A j \in S : mu[j] < mu[i] => g[j] = h[j]
               PROVE  F[<<g, i>>] = F[<<h, i>>]
    BY Zenon DEF Descends
  <2>1. i # Len(s) => i + 1 \in S /\ mu[i + 1] < mu[i]
    BY <1>1
  <2>2. i # Len(s) => g[i + 1] = h[i + 1]
    <3> HIDE DEF mu
    <3>. QED BY <2>1
  <2>. QED BY <2>2
<1>5. PICK g : Solves(g, F, S, Int)
  <2>1. 1 \in Int
    OBVIOUS
  <2> HIDE DEF S, mu, F
  <2>. QED BY <1>2, <1>3, <1>4, <2>1, Recursion, Zenon
<1>6. \A i \in S : g[i] = IF i = Len(s) THEN 1 ELSE g[i + 1] * s[i + 1]
  BY <1>5 DEF Solves
<1>7. Is(g)
  BY <1>5, <1>6 DEF Solves
<1> DEFINE x == CHOOSE x : Is(x)
<1>8. Is(x)
  BY <1>7, Zenon
<1>9. ComputeStrides(s) = x
  BY Zenon DEF ComputeStrides
<1> HIDE DEF x
<1>10. \A i \in S : x[i] = IF i = Len(s) THEN 1 ELSE x[i + 1] * s[i + 1]
  BY <1>8
<1>11. \A i \in S : x[i] \in Int
  <2> DEFINE Typed == {n \in Nat : n < Len(s) => x[Len(s) - n] \in Int}
  <2>1. 0 \in Typed
    BY <1>1, <1>10
  <2>2. ASSUME NEW n \in Nat, n \in Typed PROVE n + 1 \in Typed
    <3> SUFFICES ASSUME n + 1 < Len(s) PROVE x[Len(s) - (n + 1)] \in Int
      OBVIOUS
    <3> DEFINE i == Len(s) - (n + 1)
    <3>1. i \in S /\ i # Len(s) /\ i + 1 = Len(s) - n /\ i + 1 \in S
      BY <1>1
    <3>2. x[i + 1] \in Int /\ s[i + 1] \in Int
      <4>1. n < Len(s) /\ x[Len(s) - n] \in Int
        BY <1>1, <2>2
      <4> HIDE DEF i
      <4>. QED BY <1>1, <3>1, <4>1
    <3> HIDE DEF i
    <3>3. x[i] = x[i + 1] * s[i + 1]
      BY <1>10, <3>1
    <3>4. x[i] \in Int
      BY <3>2, <3>3
    <3>. QED BY <3>4 DEF i
  <2>3. Nat \subseteq Typed
    <3> HIDE DEF Typed
    <3>. QED BY <2>1, <2>2, Induction
  <2> SUFFICES ASSUME NEW i \in S PROVE x[i] \in Int
    OBVIOUS
  <2>4. Len(s) - i \in Nat /\ Len(s) - i < Len(s) /\ Len(s) - (Len(s) - i) = i
    BY <1>1
  <2>. QED BY <2>3, <2>4
<1>. QED BY <1>8, <1>9, <1>10, <1>11

\* Unsqueeze puts a dimension of 1 after as many as the axis says.
LEMMA UnsqueezedShape ==
  ASSUME NEW s \in Seq(Int), NEW axis \in 0..Len(s)
  PROVE  /\ Unsqueeze(s, axis) \in Seq(Int) /\ Len(Unsqueeze(s, axis)) = Len(s) + 1
         /\ Unsqueeze(s, axis)[axis + 1] = 1
         /\ \A n \in 1..Len(s) + 1 :
              /\ n <= axis => Unsqueeze(s, axis)[n] = s[n]
              /\ n > axis + 1 => Unsqueeze(s, axis)[n] = s[n - 1]
<1>1. Len(s) \in Nat /\ \A i \in 1..Len(s) : s[i] \in Int
  BY LenProperties
<1>2. \A n \in 1..Len(s) + 1 :
        (IF n = axis + 1 THEN 1 ELSE IF n <= axis THEN s[n] ELSE s[n - 1]) \in Int
  BY <1>1
<1>3. Unsqueeze(s, axis) \in [1..Len(s) + 1 -> Int] /\ Len(s) + 1 \in Nat
  BY <1>1, <1>2 DEF Unsqueeze
<1>4. Unsqueeze(s, axis) \in Seq(Int) /\ Len(Unsqueeze(s, axis)) = Len(s) + 1
  BY <1>3
<1>. QED BY <1>1, <1>4 DEF Unsqueeze

\* A dimension of 1 more leaves the number of elements.
LEMMA ProductOfUnsqueezed ==
  ASSUME NEW s \in Seq(Int), NEW axis \in 0..Len(s)
  PROVE  Product(Unsqueeze(s, axis)) = Product(s)
<1> DEFINE t == Unsqueeze(s, axis)
<1>1. /\ t \in Seq(Int) /\ Len(t) = Len(s) + 1 /\ t[axis + 1] = 1
      /\ \A n \in 1..Len(s) + 1 : (n <= axis => t[n] = s[n]) /\ (n > axis + 1 => t[n] = s[n - 1])
  BY UnsqueezedShape
<1>2. Len(s) \in Nat /\ axis \in Nat /\ axis <= Len(s) /\ \A i \in 1..Len(s) : s[i] \in Int
  BY LenProperties
<1> HIDE DEF t
<1>3. PICK v \in [0..Len(s) -> Int] :
        v[0] = 1 /\ (\A n \in 1..Len(s) : v[n] = v[n - 1] * s[n]) /\ Product(s) = v[Len(s)]
  BY Products
<1>4. PICK w \in [0..Len(t) -> Int] :
        w[0] = 1 /\ (\A n \in 1..Len(t) : w[n] = w[n - 1] * t[n]) /\ Product(t) = w[Len(t)]
  BY <1>1, Products
<1> DEFINE Same == {n \in Nat : n <= Len(s) + 1 => w[n] = IF n <= axis THEN v[n] ELSE v[n - 1]}
<1>5. 0 \in Same
  BY <1>2, <1>3, <1>4
<1>6. ASSUME NEW n \in Nat, n \in Same PROVE n + 1 \in Same
  <2> SUFFICES ASSUME n + 1 <= Len(s) + 1
               PROVE  w[n + 1] = IF n + 1 <= axis THEN v[n + 1] ELSE v[n]
    OBVIOUS
  <2>1. /\ n + 1 \in 1..Len(t) /\ n + 1 \in 1..Len(s) + 1 /\ (n + 1) - 1 = n
        /\ w[n] = IF n <= axis THEN v[n] ELSE v[n - 1]
    BY <1>1, <1>2, <1>6
  <2>2. w[n + 1] = w[n] * t[n + 1]
    BY <1>4, <2>1
  <2>3. CASE n + 1 <= axis
    <3>1. n + 1 \in 1..Len(s) /\ n <= axis
      BY <1>2, <2>3
    <3>2. v[n + 1] = v[n] * s[n + 1]
      BY <1>3, <2>1, <3>1
    <3>3. t[n + 1] = s[n + 1]
      BY <1>1, <2>1, <2>3
    <3>. QED BY <2>1, <2>2, <2>3, <3>1, <3>2, <3>3
  <2>4. CASE n = axis
    <3>1. t[n + 1] = 1 /\ w[n] = v[n] /\ n \in 0..Len(s) /\ ~(n + 1 <= axis)
      BY <1>1, <1>2, <2>1, <2>4
    <3>2. v[n] \in Int
      BY <1>3, <3>1
    <3>. QED BY <2>2, <3>1, <3>2
  <2>5. CASE n > axis
    <3>1. n \in 1..Len(s) /\ ~(n <= axis) /\ ~(n + 1 <= axis) /\ n + 1 > axis + 1
      BY <1>2, <2>5
    <3>2. v[n] = v[n - 1] * s[n] /\ t[n + 1] = s[n] /\ w[n] = v[n - 1]
      BY <1>1, <1>3, <2>1, <3>1
    <3>. QED BY <2>2, <3>1, <3>2
  <2>. QED BY <1>2, <2>3, <2>4, <2>5
<1>7. Nat \subseteq Same
  <2> HIDE DEF Same
  <2>. QED BY <1>5, <1>6, Induction
<1>8. w[Len(s) + 1] = v[Len(s)]
  <2>1. Len(s) + 1 \in Nat /\ Len(s) + 1 <= Len(s) + 1 /\ ~(Len(s) + 1 <= axis)
        /\ (Len(s) + 1) - 1 = Len(s)
    BY <1>2
  <2>. QED BY <1>7, <2>1
<1>. QED BY <1>1, <1>3, <1>4, <1>8 DEF t

\* Of a sequence with one element more, at a place, what is left without it.
LEMMA RemovedElement ==
  ASSUME NEW S, NEW s \in Seq(S), NEW t \in Seq(S), NEW n \in 0..Len(s),
         Len(t) = Len(s) + 1,
         \A i \in 1..n : t[i] = s[i],
         \A i \in n + 1..Len(s) : t[i + 1] = s[i]
  PROVE  RemoveAt(t, n + 1) = s
<1> DEFINE a == SubSeq(t, 1, n)
           b == SubSeq(t, n + 2, Len(t))
<1>1. Len(s) \in Nat /\ n \in Nat /\ n <= Len(s) /\ (n + 1) - 1 = n /\ (n + 1) + 1 = n + 2
      /\ \A i \in 1..Len(t) : t[i] \in S
  BY LenProperties
<1>2. RemoveAt(t, n + 1) = a \o b
  BY <1>1 DEF RemoveAt
<1>3. a \in Seq(S) /\ Len(a) = n /\ \A i \in 1..n : a[i] = t[i]
  BY <1>1
<1>4. /\ b \in Seq(S) /\ Len(b) = Len(s) - n
      /\ \A i \in 1..Len(s) - n : b[i] = t[n + 1 + i]
  BY <1>1
<1> HIDE DEF a, b
<1>5. /\ a \o b \in Seq(S) /\ Len(a \o b) = Len(a) + Len(b)
      /\ \A i \in 1..Len(a) + Len(b) :
           (a \o b)[i] = IF i <= Len(a) THEN a[i] ELSE b[i - Len(a)]
  BY <1>3, <1>4, ConcatProperties
<1> DEFINE c == a \o b
<1>6. c \in Seq(S) /\ Len(c) = Len(s)
      /\ \A i \in 1..Len(s) : c[i] = IF i <= n THEN a[i] ELSE b[i - n]
  BY <1>1, <1>3, <1>4, <1>5
<1> HIDE DEF c
<1>7. ASSUME NEW i \in 1..Len(s) PROVE c[i] = s[i]
  <2>1. CASE i <= n
    <3>1. i \in 1..n
      BY <1>1, <2>1
    <3>2. c[i] = a[i]
      BY <1>6, <2>1
    <3>. QED BY <1>3, <3>1, <3>2
  <2>2. CASE i > n
    <3>1. i - n \in 1..Len(s) - n /\ n + 1 + (i - n) = i + 1 /\ i \in n + 1..Len(s) /\ ~(i <= n)
      BY <1>1, <2>2
    <3>2. c[i] = b[i - n]
      BY <1>6, <3>1
    <3>3. b[i - n] = t[i + 1]
      BY <1>4, <3>1
    <3>. QED BY <3>1, <3>2, <3>3
  <2>. QED BY <1>1, <2>1, <2>2
<1>8. c = s
  BY <1>6, <1>7, SeqEqual
<1>. QED BY <1>2, <1>8 DEF c

\* The strides of an unsqueezed shape are those of the shape, and one more.
LEMMA StridesOfUnsqueezed ==
  ASSUME NEW s \in Seq(Int), ~StridesOverrun(s), NEW axis \in 0..Len(s)
  PROVE  RemoveAt(ComputeStrides(Unsqueeze(s, axis)), axis + 1) = ComputeStrides(s)
<1> DEFINE t == Unsqueeze(s, axis)
           v == ComputeStrides(s)
           w == ComputeStrides(t)
           Same == {n \in Nat : \A i \in 1..Len(s) : i + n >= Len(s) =>
                      (i > axis => w[i + 1] = v[i]) /\ (i <= axis => w[i] = v[i])}
<1>1. /\ t \in Seq(Int) /\ Len(t) = Len(s) + 1 /\ t[axis + 1] = 1
      /\ \A n \in 1..Len(s) + 1 : (n <= axis => t[n] = s[n]) /\ (n > axis + 1 => t[n] = s[n - 1])
  BY UnsqueezedShape
<1>2. Len(s) \in Nat /\ axis \in Nat /\ axis <= Len(s)
  BY LenProperties
<1>3. /\ v \in [1..Len(s) -> Int]
      /\ \A i \in 1..Len(s) : v[i] = IF i = Len(s) THEN 1 ELSE v[i + 1] * s[i + 1]
  BY StridesOfShape
<1>4. /\ w \in [1..Len(s) + 1 -> Int]
      /\ \A i \in 1..Len(s) + 1 : w[i] = IF i = Len(s) + 1 THEN 1 ELSE w[i + 1] * t[i + 1]
  <2> HIDE DEF t
  <2>1. ~StridesOverrun(t)
    BY <1>1, <1>2 DEF StridesOverrun
  <2>. QED BY <1>1, <2>1, StridesOfShape
<1> HIDE DEF t, v, w
<1>5. ASSUME NEW i \in 1..Len(s), i > axis, i = Len(s) \/ w[i + 2] = v[i + 1]
      PROVE  w[i + 1] = v[i]
  <2>1. i + 1 \in 1..Len(s) + 1 /\ (i + 1) + 1 = i + 2 /\ (i + 1 = Len(s) + 1 <=> i = Len(s))
    BY <1>2
  <2>2. CASE i = Len(s)
    BY <1>3, <1>4, <2>1, <2>2
  <2>3. CASE i # Len(s)
    <3>1. i + 2 \in 1..Len(s) + 1 /\ i + 2 > axis + 1 /\ (i + 2) - 1 = i + 1
      BY <1>2, <1>5, <2>3
    <3>2. t[i + 2] = s[i + 1]
      <4>1. i + 2 \in 1..Len(s) + 1 /\ i + 2 > axis + 1 => t[i + 2] = s[(i + 2) - 1]
        BY <1>1
      <4>. QED BY <3>1, <4>1, Zenon
    <3>3. w[i + 1] = w[i + 2] * t[i + 2] /\ v[i] = v[i + 1] * s[i + 1]
      BY <1>3, <1>4, <2>1, <2>3
    <3>. QED BY <1>5, <2>3, <3>2, <3>3
  <2>. QED BY <2>2, <2>3
<1>6. ASSUME NEW i \in 1..Len(s), i < axis, w[i + 1] = v[i + 1]
      PROVE  w[i] = v[i]
  <2>1. i + 1 \in 1..Len(s) + 1 /\ i + 1 <= axis /\ i # Len(s) /\ i # Len(s) + 1
        /\ i \in 1..Len(s) + 1
    BY <1>2, <1>6
  <2>2. t[i + 1] = s[i + 1]
    BY <1>1, <2>1
  <2>3. w[i] = w[i + 1] * t[i + 1] /\ v[i] = v[i + 1] * s[i + 1]
    BY <1>3, <1>4, <2>1
  <2>. QED BY <1>6, <2>2, <2>3
<1>7. ASSUME NEW i \in 1..Len(s), i = axis, i = Len(s) \/ w[i + 2] = v[i + 1]
      PROVE  w[i] = v[i]
  <2>1. i \in 1..Len(s) + 1 /\ i # Len(s) + 1 /\ i + 1 \in 1..Len(s) + 1 /\ (i + 1) + 1 = i + 2
    BY <1>2
  <2>2. w[i] = w[i + 1] * t[i + 1] /\ w[i + 1] \in Int
    BY <1>4, <2>1
  <2>3. w[i] = w[i + 1]
    BY <1>1, <1>7, <2>2
  <2>4. CASE i = Len(s)
    <3>1. w[i + 1] = 1 /\ v[i] = 1
      BY <1>3, <1>4, <2>1, <2>4
    <3>. QED BY <2>3, <3>1
  <2>5. CASE i # Len(s)
    <3>1. i + 2 \in 1..Len(s) + 1 /\ i + 2 > axis + 1 /\ (i + 2) - 1 = i + 1
          /\ i + 1 # Len(s) + 1
      BY <1>2, <1>7, <2>5
    <3>2. t[i + 2] = s[i + 1]
      <4>1. i + 2 \in 1..Len(s) + 1 /\ i + 2 > axis + 1 => t[i + 2] = s[(i + 2) - 1]
        BY <1>1
      <4>. QED BY <3>1, <4>1, Zenon
    <3>3. w[i + 1] = w[i + 2] * t[i + 2] /\ v[i] = v[i + 1] * s[i + 1]
      BY <1>3, <1>4, <2>1, <2>5, <3>1
    <3>. QED BY <1>7, <2>3, <2>5, <3>2, <3>3
  <2>. QED BY <2>4, <2>5
<1>8. 0 \in Same
  <2> SUFFICES ASSUME NEW i \in 1..Len(s), i >= Len(s)
               PROVE  (i > axis => w[i + 1] = v[i]) /\ (i <= axis => w[i] = v[i])
    OBVIOUS
  <2>1. i = Len(s) /\ (i <= axis => i = axis)
    BY <1>2
  <2>. QED BY <1>5, <1>7, <2>1
<1>9. ASSUME NEW n \in Nat, n \in Same PROVE n + 1 \in Same
  <2> SUFFICES ASSUME NEW i \in 1..Len(s), i + (n + 1) >= Len(s)
               PROVE  (i > axis => w[i + 1] = v[i]) /\ (i <= axis => w[i] = v[i])
    OBVIOUS
  <2>1. CASE i = Len(s)
    BY <1>2, <1>5, <1>7, <2>1
  <2>2. CASE i # Len(s)
    <3>1. i + 1 \in 1..Len(s) /\ (i + 1) + n >= Len(s) /\ (i + 1) + 1 = i + 2
      BY <1>2, <2>2
    <3>2. (i + 1 > axis => w[i + 2] = v[i + 1]) /\ (i + 1 <= axis => w[i + 1] = v[i + 1])
      BY <1>9, <3>1
    <3>3. CASE i > axis
      <4>1. i + 1 > axis /\ ~(i <= axis)
        BY <1>2, <3>3
      <4>. QED BY <1>5, <3>2, <3>3, <4>1
    <3>4. CASE i = axis
      <4>1. i + 1 > axis /\ ~(i > axis)
        BY <1>2, <3>4
      <4>. QED BY <1>7, <3>2, <3>4, <4>1
    <3>5. CASE i < axis
      <4>1. i + 1 <= axis /\ ~(i > axis)
        BY <1>2, <3>5
      <4>. QED BY <1>6, <3>2, <3>5, <4>1
    <3>. QED BY <1>2, <3>3, <3>4, <3>5
  <2>. QED BY <2>1, <2>2
<1>10. Nat \subseteq Same
  <2> HIDE DEF Same
  <2>. QED BY <1>8, <1>9, Induction
<1>11. \A i \in 1..Len(s) : (i > axis => w[i + 1] = v[i]) /\ (i <= axis => w[i] = v[i])
  <2> SUFFICES ASSUME NEW i \in 1..Len(s)
               PROVE  (i > axis => w[i + 1] = v[i]) /\ (i <= axis => w[i] = v[i])
    OBVIOUS
  <2>1. Len(s) \in Same /\ i + Len(s) >= Len(s)
    <3> HIDE DEF Same
    <3>. QED BY <1>2, <1>10
  <2>. QED BY <2>1
<1>12. v \in Seq(Int) /\ w \in Seq(Int) /\ Len(v) = Len(s) /\ Len(w) = Len(s) + 1
  <2>1. v \in [1..Len(s) -> Int] /\ w \in [1..Len(s) + 1 -> Int] /\ Len(s) + 1 \in Nat
    BY <1>2, <1>3, <1>4
  <2>. QED BY <1>2, <2>1, FunctionIsSequence
<1>13. (\A i \in 1..axis : w[i] = v[i]) /\ (\A i \in axis + 1..Len(v) : w[i + 1] = v[i])
  <2>1. \A i \in 1..axis : i \in 1..Len(s) /\ i <= axis
    BY <1>2
  <2>2. \A i \in axis + 1..Len(v) : i \in 1..Len(s) /\ i > axis
    BY <1>2, <1>12
  <2>. QED BY <1>11, <2>1, <2>2
<1>14. axis \in 0..Len(v) /\ Len(w) = Len(v) + 1
  BY <1>2, <1>12
<1>15. RemoveAt(w, axis + 1) = v
  BY <1>12, <1>13, <1>14, RemovedElement
<1>. QED BY <1>15 DEF v, w, t

\* What an int of the range that begins with -n and has m numbers keeps of a.
Wraps(b, a, n, m) ==
  /\ b \in -n..n - 1
  /\ \E q \in Int : b = a + q * m
  /\ a \in -n..n - 1 => b = a

\* What is left of a number in an integer of m values differs from it by a
\* multiple of m, and by none where the number fits.
LEMMA WrappedNumber ==
  ASSUME NEW a \in Int, NEW n \in Nat \ {0}, NEW m \in Nat \ {0}, NEW k \in Int,
         m = 2 * n, k = a + n
  PROVE  Wraps((k % m) - n, a, n, m)
<1>1. PICK x \in 0..m - 1, y \in Int : x = k % m /\ k = m * y + x
  <2>1. k % m \in 0..m - 1 /\ k \div m \in Int /\ k = m * (k \div m) + (k % m)
    BY Division, Zenon
  <2>. QED BY <2>1, Zenon
<1>2. x - n \in -n..n - 1
  BY <1>1
<1>3. x - n = a + (-y) * m /\ -y \in Int
  <2>1. m * y + (-y) * m = 0 /\ m * y \in Int /\ (-y) * m \in Int
    BY <1>1
  <2>. QED BY <1>1, <2>1
<1>4. ASSUME a \in -n..n - 1 PROVE x = k
  <2>1. k \in 0..m - 1
    BY <1>4
  <2>2. k % m = k
    BY <2>1, SmallDivision
  <2>. QED BY <1>1, <2>2
<1>5. (k % m) - n \in -n..n - 1
  BY <1>1, <1>2
<1>6. \E q \in Int : (k % m) - n = a + q * m
  BY <1>1, <1>3
<1>7. k - n = a
  OBVIOUS
<1>8. a \in -n..n - 1 => (k % m) - n = a
  BY <1>1, <1>4, <1>7
<1>. QED BY <1>5, <1>6, <1>8 DEF Wraps

\* The value of an int is in its range, and differs from what was assigned by
\* a multiple of the range.
LEMMA IntOfNumber ==
  ASSUME NEW n \in Int
  PROVE  /\ ToInt(n) \in -IntLimit..IntLimit - 1
         /\ \E q \in Int : ToInt(n) = n + q * (2 * IntLimit)
         /\ n \in -IntLimit..IntLimit - 1 => ToInt(n) = n
<1>1. IntLimit \in Nat \ {0} /\ 2 * IntLimit \in Nat \ {0} /\ n + IntLimit \in Int
  BY TensorAssumption
<1> DEFINE m == 2 * IntLimit
           k == n + IntLimit
<1>2. ToInt(n) = (k % m) - IntLimit
  BY DEF ToInt
<1>3. m = 2 * IntLimit /\ k = n + IntLimit /\ m \in Nat \ {0} /\ k \in Int
  BY <1>1
<1> HIDE DEF k, m
<1>4. Wraps((k % m) - IntLimit, n, IntLimit, m)
  BY <1>1, <1>3, WrappedNumber, Zenon
<1>5. Wraps(ToInt(n), n, IntLimit, m)
  BY <1>2, <1>4
<1>. QED BY <1>5 DEF Wraps, m

\* The product in an int, step by step.
LEMMA AccumulatedProducts ==
  ASSUME NEW s \in Seq(Int)
  PROVE  \E v \in [0..Len(s) -> Int] :
           /\ v[0] = 1 /\ \A n \in 1..Len(s) : v[n] = ToInt(v[n - 1] * s[n])
           /\ Accumulated(s) = v[Len(s)]
<1> DEFINE f == [p \in Int \X Int |-> ToInt(p[1] * p[2])]
           Is(it) == it = [t \in SUBSET DOMAIN s |->
                            IF t = {} THEN 1 ELSE ToInt(it[t \ {Max(t)}] * s[Max(t)])]
<1>1. f \in [Int \X Int -> Int] /\ 1 \in Int
  <2>1. \A p \in Int \X Int : ToInt(p[1] * p[2]) \in Int
    <3> SUFFICES ASSUME NEW a \in Int, NEW b \in Int PROVE ToInt(a * b) \in Int
      OBVIOUS
    <3>1. a * b \in Int
      OBVIOUS
    <3> DEFINE c == a * b
    <3>2. c \in Int
      OBVIOUS
    <3> HIDE DEF c
    <3>3. ToInt(c) \in -IntLimit..IntLimit - 1
      BY <3>2, IntOfNumber, Zenon
    <3>4. ToInt(c) \in Int
      BY <3>3
    <3>. QED BY <3>4 DEF c
  <2>. QED BY <2>1
<1>2. \A t \in SUBSET DOMAIN s : t # {} => s[Max(t)] \in Int
  BY Positions, LenProperties
<1>3. \E x : Is(x)
  <2>1. PICK g : FoldsTo(g, Int, 1, f, s)
    <3> HIDE DEF f
    <3>. QED BY <1>1, FoldExists, Zenon
  <2>2. ASSUME NEW t \in SUBSET DOMAIN s
        PROVE  g[t] = IF t = {} THEN 1 ELSE ToInt(g[t \ {Max(t)}] * s[Max(t)])
    BY <1>2, <2>1 DEF FoldsTo
  <2>3. Is(g)
    BY <2>1, <2>2 DEF FoldsTo
  <2>. QED BY <2>3
<1>4. PICK it : Is(it) /\ Accumulated(s) = it[DOMAIN s]
  <2> DEFINE x == CHOOSE x : Is(x)
  <2>1. Is(x)
    BY <1>3, Zenon
  <2>2. Accumulated(s) = x[DOMAIN s]
    BY DEF Accumulated, FoldLeft, MapThenFoldSet
  <2> HIDE DEF x
  <2>. QED BY <2>1, <2>2
<1>6. MadeBy(it, Int, 1, f, s)
  BY <1>2, <1>4 DEF MadeBy
<1>7. FoldIs(it[DOMAIN s], Int, f, 1, s)
  <2> HIDE DEF f
  <2>. QED BY <1>1, <1>6, FoldValues, Zenon
<1>8. PICK v : Accumulates(v, Int, f, 1, s) /\ it[DOMAIN s] = v[Len(s)]
  BY <1>7 DEF FoldIs
<1>9. \A n \in 1..Len(s) : v[n - 1] \in Int /\ s[n] \in Int
  BY <1>8, LenProperties DEF Accumulates
<1>10. v[0] = 1 /\ \A n \in 1..Len(s) : v[n] = ToInt(v[n - 1] * s[n])
  BY <1>8, <1>9 DEF Accumulates
<1>. QED BY <1>4, <1>8, <1>10 DEF Accumulates

\* The product in an int differs from the product by a multiple of the range,
\* and it is in the range, unless it is that of no dimensions.
LEMMA AccumulatedIsProduct ==
  ASSUME NEW s \in Seq(Int)
  PROVE  /\ \E q \in Int : Accumulated(s) = Product(s) + q * (2 * IntLimit)
         /\ Accumulated(s) \in Int
         /\ s # <<>> => Accumulated(s) \in -IntLimit..IntLimit - 1
         /\ s = <<>> => Accumulated(s) = 1
<1> DEFINE m == 2 * IntLimit
<1>0. m \in Nat /\ Len(s) \in Nat /\ \A n \in 1..Len(s) : s[n] \in Int
  BY TensorAssumption, LenProperties
<1>1. PICK v \in [0..Len(s) -> Int] :
        v[0] = 1 /\ (\A n \in 1..Len(s) : v[n] = v[n - 1] * s[n]) /\ Product(s) = v[Len(s)]
  BY Products
<1>2. PICK w \in [0..Len(s) -> Int] :
        /\ w[0] = 1 /\ \A n \in 1..Len(s) : w[n] = ToInt(w[n - 1] * s[n])
        /\ Accumulated(s) = w[Len(s)]
  BY AccumulatedProducts
<1> DEFINE Alike == {n \in Nat : n <= Len(s) => \E q \in Int : w[n] = v[n] + q * m}
<1>3. 0 \in Alike
  <2>1. w[0] = v[0] + 0 * m
    BY <1>0, <1>1, <1>2
  <2>. QED BY <2>1
<1>4. ASSUME NEW n \in Nat, n \in Alike PROVE n + 1 \in Alike
  <2> SUFFICES ASSUME n + 1 <= Len(s) PROVE \E q \in Int : w[n + 1] = v[n + 1] + q * m
    OBVIOUS
  <2>1. n + 1 \in 1..Len(s) /\ (n + 1) - 1 = n /\ n \in 0..Len(s)
    BY <1>0
  <2>2. PICK q \in Int : w[n] = v[n] + q * m
    BY <1>0, <1>4, <2>1
  <2> DEFINE d == s[n + 1]
             x == w[n] * d
  <2>3. d \in Int /\ v[n] \in Int /\ w[n] \in Int /\ x \in Int
    <3>1. d \in Int /\ v[n] \in Int /\ w[n] \in Int
      BY <1>0, <1>1, <1>2, <2>1
    <3>. QED BY <3>1
  <2>4. v[n + 1] = v[n] * d /\ w[n + 1] = ToInt(x)
    BY <1>1, <1>2, <2>1
  <2>5. x = v[n] * d + (q * d) * m
    <3> DEFINE a == v[n]
    <3>1. a \in Int /\ d \in Int /\ m \in Int /\ x = (a + q * m) * d
      BY <1>0, <2>2, <2>3
    <3> HIDE DEF a, d, m, x
    <3>2. (a + q * m) * d = a * d + (q * d) * m
      BY <3>1
    <3>. QED BY <3>1, <3>2 DEF a
  <2> HIDE DEF x, m
  <2>6. PICK p \in Int : ToInt(x) = x + p * m
    BY <2>3, IntOfNumber, Zenon DEF m
  <2>7. q * d \in Int /\ q * d + p \in Int /\ v[n] * d \in Int
    <3> DEFINE a == v[n]
    <3>1. a \in Int /\ d \in Int
      BY <2>3
    <3> HIDE DEF a, d
    <3>2. q * d \in Int /\ a * d \in Int
      BY <3>1
    <3>3. q * d + p \in Int
      BY <3>2
    <3>. QED BY <3>2, <3>3 DEF a
  <2> DEFINE b == q * d
             c == v[n] * d
  <2>8. b \in Int /\ c \in Int /\ ToInt(x) = (c + b * m) + p * m
    BY <2>5, <2>6, <2>7
  <2>9. v[n + 1] = c
    BY <2>4
  <2> HIDE DEF b, c, d
  <2>10. ToInt(x) = c + (b + p) * m /\ b + p \in Int
    BY <1>0, <2>8
  <2>. QED BY <2>4, <2>9, <2>10
<1>5. Nat \subseteq Alike
  <2> HIDE DEF Alike
  <2>. QED BY <1>3, <1>4, Induction
<1>6. \E q \in Int : w[Len(s)] = v[Len(s)] + q * m
  <2>1. Len(s) \in Nat /\ Len(s) <= Len(s)
    BY <1>0
  <2> HIDE DEF m
  <2>. QED BY <1>5, <2>1
<1>7. ASSUME s # <<>> PROVE Accumulated(s) \in -IntLimit..IntLimit - 1
  <2>1. Len(s) \in 1..Len(s) /\ Len(s) - 1 \in 0..Len(s)
    BY <1>0, <1>7, EmptySeq
  <2> DEFINE x == w[Len(s) - 1] * s[Len(s)]
  <2>2. x \in Int
    <3>1. w[Len(s) - 1] \in Int /\ s[Len(s)] \in Int
      BY <1>0, <1>2, <2>1
    <3>. QED BY <3>1
  <2>3. w[Len(s)] = ToInt(x)
    BY <1>2, <2>1
  <2> HIDE DEF x
  <2>4. ToInt(x) \in -IntLimit..IntLimit - 1
    BY <2>2, IntOfNumber, Zenon
  <2>. QED BY <1>2, <2>3, <2>4
<1>8. s = <<>> => Accumulated(s) = 1
  BY <1>2, EmptySeq
<1>9. Accumulated(s) \in Int
  BY <1>0, <1>2
<1>. QED BY <1>1, <1>2, <1>6, <1>7, <1>8, <1>9

\* Two numbers in the range of an int that differ by a multiple of it are one.
LEMMA SameInt ==
  ASSUME NEW a \in -IntLimit..IntLimit - 1, NEW b \in -IntLimit..IntLimit - 1, NEW q \in Int,
         a = b + q * (2 * IntLimit)
  PROVE  a = b
<1> DEFINE m == 2 * IntLimit
<1>1. m \in Nat \ {0} /\ IntLimit \in Nat
  BY TensorAssumption
<1>2. q >= 1 => q * m >= m
  <2> HIDE DEF m
  <2>. QED BY <1>1
<1>3. q <= -1 => q * m <= -m
  <2> HIDE DEF m
  <2>1. \A k \in Nat : (-(1 + k)) * m = -m - k * m /\ k * m \in Nat
    BY <1>1
  <2>2. q <= -1 => -q - 1 \in Nat /\ -(1 + (-q - 1)) = q
    OBVIOUS
  <2> DEFINE k == -q - 1
  <2>3. q <= -1 => q * m = -m - k * m /\ k * m \in Nat
    <3> HIDE DEF k
    <3>. QED BY <2>1, <2>2 DEF k
  <2> DEFINE y == k * m
  <2>4. q <= -1 => q * m = -m - y /\ y \in Nat
    BY <2>3
  <2> HIDE DEF y
  <2>. QED BY <1>1, <2>4
<1>4. q * m \in Int /\ q * m < m /\ q * m > -m
  <2> DEFINE x == q * m
  <2>1. x \in Int /\ a = b + x
    BY <1>1
  <2> HIDE DEF x
  <2>. QED BY <1>1, <2>1 DEF x
<1>5. q = 0
  <2> DEFINE x == q * m
  <2>1. x \in Int /\ x < m /\ x > -m /\ (q >= 1 => x >= m) /\ (q <= -1 => x <= -m)
    BY <1>2, <1>3, <1>4
  <2> HIDE DEF x, m
  <2>. QED BY <1>1, <2>1
<1>. QED BY <1>1, <1>5

\* The product of dimensions that is right as far as an int goes is right if it
\* is no less than the product.
LEMMA AccumulatedIsExact ==
  ASSUME NEW s \in Seq(Int), \A i \in DOMAIN s : s[i] > 0, Product(s) <= Accumulated(s)
  PROVE  Accumulated(s) = Product(s)
<1> DEFINE a == Accumulated(s)
           b == Product(s)
<1>1. b \in Int /\ b >= 1
  <2>1. 1 \in {0, 1} /\ \A n \in 1..Len(s) : s[n] >= 1
    BY LenProperties
  <2>. QED BY <2>1, ProductSign
<1>2. CASE s = <<>>
  BY <1>2, AccumulatedIsProduct, ProductOfFew
<1>3. CASE s # <<>>
  <2>1. PICK q \in Int : a = b + q * (2 * IntLimit)
    BY AccumulatedIsProduct
  <2>2. a \in -IntLimit..IntLimit - 1
    BY <1>3, AccumulatedIsProduct
  <2>3. b <= a
    OBVIOUS
  <2> HIDE DEF a, b
  <2>4. b \in -IntLimit..IntLimit - 1
    BY <1>1, <2>2, <2>3, TensorAssumption
  <2>5. a = b
    BY <2>1, <2>2, <2>4, SameInt, Zenon
  <2>. QED BY <2>5 DEF a, b
<1>. QED BY <1>2, <1>3

\* Both tables of sizes agree.
LEMMA ElementSizes ==
  \A type \in DOMAIN ElementSize :
    GetTensorElementByteSize(type) = ElementSize[type] /\ ElementSize[type] \in Nat \ {0}
BY DEF ElementSize, GetTensorElementByteSize

\* The functions on shapes lose no element, for every shape, axis and other
\* shape; the strides for every shape that has a dimension.
LEMMA ShapesAreKept ==
  ASSUME NEW s \in Seq(Int), NEW axis \in Int, NEW other \in Seq(Int)
  PROVE  ShapesKeepElements(s, axis, other)
<1>1. Product(s) \in Int /\ Product(other) \in Int
  BY ProductOfConcat
<1>2. ASSUME ~UnsqueezeThrows(s, axis)
      PROVE  LET new == Unsqueeze(s, axis)
             IN  /\ Product(new) = Product(s)
                 /\ RemoveAt(new, axis + 1) = s
                 /\ ~StridesOverrun(s) =>
                      RemoveAt(ComputeStrides(new), axis + 1) = ComputeStrides(s)
                 /\ \A type \in DOMAIN ElementSize :
                      ~CreateTensorThrows(Product(s) * GetTensorElementByteSize(type), new, type)
  <2> DEFINE new == Unsqueeze(s, axis)
  <2>1. axis \in 0..Len(s)
    BY <1>2, LenProperties DEF UnsqueezeThrows
  <2>2. Product(new) = Product(s)
    BY <2>1, ProductOfUnsqueezed
  <2>3. RemoveAt(new, axis + 1) = s
    <3>1. /\ new \in Seq(Int) /\ Len(new) = Len(s) + 1
          /\ \A n \in 1..Len(s) + 1 :
               (n <= axis => new[n] = s[n]) /\ (n > axis + 1 => new[n] = s[n - 1])
      BY <2>1, UnsqueezedShape
    <3> HIDE DEF new
    <3>2. \A i \in 1..axis : new[i] = s[i]
      <4>1. \A i \in 1..axis : i \in 1..Len(s) + 1 /\ i <= axis
        BY <2>1, LenProperties
      <4>. QED BY <3>1, <4>1, Zenon
    <3>3. \A i \in axis + 1..Len(s) : new[i + 1] = s[i]
      <4>1. \A i \in axis + 1..Len(s) :
              i + 1 \in 1..Len(s) + 1 /\ i + 1 > axis + 1 /\ (i + 1) - 1 = i
        BY <2>1, LenProperties
      <4>. QED BY <3>1, <4>1
    <3>. QED BY <2>1, <3>1, <3>2, <3>3, RemovedElement
  <2>4. ~StridesOverrun(s) => RemoveAt(ComputeStrides(new), axis + 1) = ComputeStrides(s)
    BY <2>1, StridesOfUnsqueezed
  <2>5. ASSUME NEW type \in DOMAIN ElementSize
        PROVE  ~CreateTensorThrows(Product(s) * GetTensorElementByteSize(type), new, type)
    <3>1. ~(Product(s) * ElementSize[type] < Product(s) * ElementSize[type])
      <4> DEFINE x == Product(s) * ElementSize[type]
      <4>1. x \in Int
        BY <1>1, ElementSizes
      <4> HIDE DEF x
      <4>2. ~(x < x)
        BY <4>1
      <4>. QED BY <4>2 DEF x
    <3> HIDE DEF new
    <3>. QED BY <2>2, <3>1, ElementSizes DEF CreateTensorThrows
  <2>. QED BY <2>2, <2>3, <2>4, <2>5
<1>3. ASSUME NEW type \in DOMAIN ElementSize, ~ViewThrows(Product(s), type, other)
      PROVE  Product(other) = Product(s)
  <2> DEFINE a == Product(s)
             b == Product(other)
             z == ElementSize[type]
  <2>1. /\ \A i \in DOMAIN other : ~(other[i] <= 0)
        /\ Accumulated(other) = a /\ ~(a * z < b * z)
    BY <1>3, ElementSizes DEF ViewThrows, CreateTensorThrows
  <2>2. a \in Int /\ b \in Int /\ z \in {1, 4, 8}
    BY <1>1 DEF ElementSize
  <2>3. \A i \in DOMAIN other : other[i] > 0
    BY <2>1, LenProperties
  <2>4. b <= a
    <3>1. ~(a * z < b * z)
      BY <2>1
    <3> HIDE DEF a, b, z
    <3>. QED BY <2>2, <3>1
  <2>. QED BY <2>1, <2>3, <2>4, AccumulatedIsExact
<1>. QED BY <1>2, <1>3, Zenon DEF ShapesKeepElements

-----------------------------------------------------------------------------
(* Tensors: TopK.                                                          *)

Pairs == Int \X Int

\* ValueComp is a total order of pairs.
LEMMA PairsAreOrdered ==
  \A p, q, r \in Pairs :
    /\ ~ValueComp(p, p)
    /\ p = q \/ ValueComp(p, q) \/ ValueComp(q, p)
    /\ ValueComp(p, q) /\ ValueComp(q, r) => ValueComp(p, r)
BY DEF ValueComp, Pairs

\* The top of the queue.
WorstOf(pq) == CHOOSE p \in pq : \A q \in pq \ {p} : ValueComp(q, p)

\* The queue has a top: every other pair in it comes before that one.
LEMMA WorstComesLast ==
  ASSUME NEW pq \in SUBSET Pairs, IsFiniteSet(pq), pq # {}
  PROVE  WorstOf(pq) \in pq /\ \A q \in pq \ {WorstOf(pq)} : ValueComp(q, WorstOf(pq))
<1> DEFINE Has(S) == \E p \in S : \A q \in S \ {p} : ValueComp(q, p)
           All == {n \in Nat : \A S \in SUBSET Pairs :
                     IsFiniteSet(S) /\ Cardinality(S) = n + 1 => Has(S)}
<1>1. 0 \in All
  <2> SUFFICES ASSUME NEW S \in SUBSET Pairs, IsFiniteSet(S), Cardinality(S) = 0 + 1
               PROVE  Has(S)
    OBVIOUS
  <2>1. \E p : S = {p}
    <3>1. Cardinality(S) = 1
      OBVIOUS
    <3>. QED BY <3>1, FS_Singleton
  <2>. QED BY <2>1
<1>2. ASSUME NEW n \in Nat, n \in All PROVE n + 1 \in All
  <2> SUFFICES ASSUME NEW S \in SUBSET Pairs, IsFiniteSet(S), Cardinality(S) = (n + 1) + 1
               PROVE  Has(S)
    OBVIOUS
  <2>1. PICK p \in S : TRUE
    <3>1. Cardinality(S) # 0
      OBVIOUS
    <3>. QED BY <3>1, FS_EmptySet
  <2>2. S \ {p} \in SUBSET Pairs /\ IsFiniteSet(S \ {p}) /\ Cardinality(S \ {p}) = n + 1
    BY FS_RemoveElement
  <2>3. PICK w \in S \ {p} : \A q \in (S \ {p}) \ {w} : ValueComp(q, w)
    BY <1>2, <2>2
  <2>4. CASE ValueComp(p, w)
    BY <2>3, <2>4
  <2>5. CASE ValueComp(w, p)
    <3>1. \A q \in S \ {p} : ValueComp(q, p)
      BY <2>1, <2>3, <2>5, PairsAreOrdered
    <3>. QED BY <2>1, <3>1
  <2>. QED BY <2>1, <2>3, <2>4, <2>5, PairsAreOrdered
<1>3. Nat \subseteq All
  <2> HIDE DEF All
  <2>. QED BY <1>1, <1>2, Induction
<1>4. Has(pq)
  <2>1. Cardinality(pq) \in Nat /\ Cardinality(pq) # 0
    BY FS_CardinalityType, FS_EmptySet
  <2>2. Cardinality(pq) - 1 \in Nat /\ Cardinality(pq) = (Cardinality(pq) - 1) + 1
    BY <2>1
  <2> HIDE DEF Has
  <2>. QED BY <1>3, <2>2
<1>. QED BY <1>4 DEF WorstOf

\* What the queue holds after some numbers: as many pairs, and each of them
\* comes before all that is not there.
QueueHolds(pq, values, first, n) ==
  /\ pq \subseteq { <<values[i], i - 1>> : i \in 1..n }
  /\ IsFiniteSet(pq) /\ Cardinality(pq) = first
  /\ \A p \in pq : \A j \in 1..n :
       <<values[j], j - 1>> \in pq \/ ValueComp(p, <<values[j], j - 1>>)

\* If the queue holds the first pairs by ValueComp before a number is looked at,
\* it does so after: the number takes the place of the top if it is greater.
LEMMA QueueKeepsTheBest ==
  ASSUME NEW values \in Seq(Nat), NEW first \in Nat \ {0}, NEW i \in 1..Len(values),
         NEW pq, QueueHolds(pq, values, first, i - 1)
  PROVE  QueueHolds(IF WorstOf(pq)[1] < values[i]
               THEN (pq \ {WorstOf(pq)}) \cup {<<values[i], i - 1>>} ELSE pq, values, first, i)
<1> DEFINE pair(j) == <<values[j], j - 1>>
           t == WorstOf(pq)
<1>1. Len(values) \in Nat /\ \A j \in 1..Len(values) : values[j] \in Nat /\ pair(j) \in Pairs
  BY LenProperties DEF Pairs
<1>2. pq \in SUBSET Pairs /\ IsFiniteSet(pq) /\ Cardinality(pq) = first /\ pq # {}
  <2>1. \A j \in 1..i - 1 : j \in 1..Len(values)
    BY <1>1
  <2>2. pq \in SUBSET Pairs
    BY <1>1, <2>1 DEF QueueHolds
  <2>3. IsFiniteSet(pq) /\ Cardinality(pq) = first
    BY DEF QueueHolds
  <2>. QED BY <2>2, <2>3, FS_EmptySet
<1>3. t \in pq /\ \A q \in pq \ {t} : ValueComp(q, t)
  BY <1>2, WorstComesLast
<1>4. /\ pair(i) \in Pairs
      /\ \A j \in 1..i : j = i \/ j \in 1..i - 1
      /\ \A j \in 1..i : j \in 1..Len(values)
      /\ \A j \in 1..i - 1 : j \in 1..i
  BY <1>1
<1>5. ASSUME NEW p \in pq PROVE p[2] < i - 1 /\ p # pair(i)
  <2>1. PICK j \in 1..i - 1 : p = pair(j)
    BY DEF QueueHolds
  <2>. QED BY <2>1
<1>6. CASE t[1] < values[i]
  <2> DEFINE new == (pq \ {t}) \cup {pair(i)}
  <2>1. IsFiniteSet(pq \ {t}) /\ Cardinality(pq \ {t}) = first - 1 /\ pair(i) \notin pq \ {t}
    BY <1>2, <1>3, <1>5, FS_RemoveElement
  <2>2. IsFiniteSet(new) /\ Cardinality(new) = first
    <3> DEFINE rest == pq \ {t}
    <3>1. (first - 1) + 1 = first
      OBVIOUS
    <3>2. IsFiniteSet(rest) /\ Cardinality(rest) = first - 1 /\ pair(i) \notin rest
      BY <2>1
    <3> HIDE DEF rest, pair
    <3>3. IsFiniteSet(rest \cup {pair(i)}) /\ Cardinality(rest \cup {pair(i)}) = first
      BY <3>1, <3>2, FS_AddElement
    <3>. QED BY <3>3 DEF rest
  <2>3. new \subseteq {pair(j) : j \in 1..i}
    BY <1>4 DEF QueueHolds
  <2>4. ValueComp(pair(i), t)
    BY <1>6 DEF ValueComp
  <2>5. ASSUME NEW p \in new, NEW j \in 1..i, pair(j) \notin new PROVE ValueComp(p, pair(j))
    <3>1. j \in 1..i - 1 /\ pair(j) \in Pairs /\ p \in Pairs /\ t \in Pairs
      BY <1>2, <1>3, <1>4, <1>1, <2>5
    <3>2. p = t \/ ValueComp(p, t)
      BY <1>3, <2>4
    <3>3. p # t
      BY <1>3, <1>5
    <3>4. pair(j) = t \/ ValueComp(t, pair(j))
      BY <1>3, <2>5, <3>1 DEF QueueHolds
    <3> HIDE DEF pair, t, new
    <3>. QED BY <3>1, <3>2, <3>3, <3>4, PairsAreOrdered
  <2>. QED BY <1>6, <2>2, <2>3, <2>5 DEF QueueHolds
<1>7. CASE ~(t[1] < values[i])
  <2>1. t \in Pairs /\ t[2] < i - 1
    BY <1>2, <1>3, <1>5
  <2>2. ValueComp(t, pair(i))
    <3>1. t[1] \in Int /\ t[2] \in Int /\ values[i] \in Int
      BY <1>1, <2>1 DEF Pairs
    <3> HIDE DEF t
    <3>. QED BY <1>7, <2>1, <3>1 DEF ValueComp
  <2>3. pq \subseteq {pair(j) : j \in 1..i}
    BY <1>4 DEF QueueHolds
  <2>4. ASSUME NEW p \in pq, NEW j \in 1..i, pair(j) \notin pq PROVE ValueComp(p, pair(j))
    <3>1. CASE j = i
      <4>1. p = t \/ ValueComp(p, t)
        BY <1>3
      <4>2. p \in Pairs /\ pair(j) \in Pairs
        BY <1>2, <1>4, <3>1
      <4> HIDE DEF t, pair
      <4>. QED BY <2>1, <2>2, <3>1, <4>1, <4>2, PairsAreOrdered
    <3>2. CASE j # i
      BY <1>4, <2>4, <3>2 DEF QueueHolds
    <3>. QED BY <3>1, <3>2
  <2>. QED BY <1>2, <1>7, <2>3, <2>4 DEF QueueHolds
<1>. QED BY <1>6, <1>7

\* Taking the worst of what is left until nothing is, each before the one that
\* was taken before.
DrainsTo(d, heap) ==
  d = [pq \in SUBSET heap |->
         IF pq = {} THEN <<>> ELSE Append(d[pq \ {WorstOf(pq)}], WorstOf(pq))]

Sorted(s) == \A m, n \in DOMAIN s : m < n => ValueComp(s[m], s[n])

\* What the last loop of TopK takes out of the queue is defined.
LEMMA QueueDrains ==
  ASSUME NEW heap \in SUBSET Pairs, IsFiniteSet(heap)
  PROVE  \E d : DrainsTo(d, heap)
<1> DEFINE S == SUBSET heap
           V == Seq(Pairs)
           mu == [pq \in S |-> Cardinality(pq)]
           F == [p \in [S -> V] \X S |->
                   IF p[2] = {} THEN <<>>
                   ELSE Append(p[1][p[2] \ {WorstOf(p[2])}], WorstOf(p[2]))]
<1>1. ASSUME NEW pq \in S
      PROVE  /\ pq \in SUBSET Pairs /\ IsFiniteSet(pq) /\ Cardinality(pq) \in Nat
             /\ pq # {} => WorstOf(pq) \in pq
  <2>1. pq \in SUBSET Pairs /\ IsFiniteSet(pq)
    BY FS_Subset
  <2>. QED BY <2>1, FS_CardinalityType, WorstComesLast
<1>2. mu \in [S -> Nat]
  BY <1>1
<1>3. F \in [[S -> V] \X S -> V]
  <2> SUFFICES ASSUME NEW g \in [S -> V], NEW pq \in S, pq # {}
               PROVE  Append(g[pq \ {WorstOf(pq)}], WorstOf(pq)) \in V
    <3>1. <<>> \in V
      OBVIOUS
    <3> HIDE DEF V, S
    <3>. QED BY <3>1
  <2>1. WorstOf(pq) \in Pairs /\ g[pq \ {WorstOf(pq)}] \in V
    BY <1>1
  <2>. QED BY <2>1, AppendProperties
<1>4. Descends(F, S, V, mu)
  <2> SUFFICES ASSUME NEW g \in [S -> V], NEW h \in [S -> V], NEW pq \in S,
                      \A qp \in S : mu[qp] < mu[pq] => g[qp] = h[qp]
               PROVE  F[<<g, pq>>] = F[<<h, pq>>]
    <3> HIDE DEF F, S, V, mu
    <3>. QED BY DEF Descends
  <2>1. CASE pq = {}
    BY <2>1
  <2>2. CASE pq # {}
    <3> DEFINE less == pq \ {WorstOf(pq)}
    <3>1. less \in S /\ Cardinality(less) = Cardinality(pq) - 1
      BY <2>2, <1>1, FS_RemoveElement
    <3>2. mu[less] < mu[pq]
      BY <1>1, <3>1
    <3>3. g[less] = h[less]
      <4> HIDE DEF mu, less, S
      <4>. QED BY <3>1, <3>2
    <3>. QED BY <2>2, <3>3
  <2>. QED BY <2>1, <2>2
<1>5. PICK g : Solves(g, F, S, V)
  <2>1. <<>> \in V
    OBVIOUS
  <2> HIDE DEF S, V, mu, F
  <2>. QED BY <1>2, <1>3, <1>4, <2>1, Recursion, Zenon
<1>6. g \in [S -> V] /\ \A pq \in S :
        g[pq] = IF pq = {} THEN <<>> ELSE Append(g[pq \ {WorstOf(pq)}], WorstOf(pq))
  BY <1>5, Zenon DEF Solves
<1>. QED BY <1>6, Zenon DEF DrainsTo

\* The loop that empties the queue from its top gives the pairs in order.
LEMMA DrainedIsSorted ==
  ASSUME NEW heap \in SUBSET Pairs, IsFiniteSet(heap), NEW d, DrainsTo(d, heap)
  PROVE  /\ d[heap] \in Seq(Pairs) /\ Len(d[heap]) = Cardinality(heap)
         /\ ToSet(d[heap]) = heap /\ Sorted(d[heap])
<1> DEFINE Right(pq) == /\ d[pq] \in Seq(Pairs) /\ Len(d[pq]) = Cardinality(pq)
                        /\ ToSet(d[pq]) = pq /\ Sorted(d[pq])
           All == {n \in Nat : \A pq \in SUBSET heap : Cardinality(pq) = n => Right(pq)}
<1>1. \A pq \in SUBSET heap :
        d[pq] = IF pq = {} THEN <<>> ELSE Append(d[pq \ {WorstOf(pq)}], WorstOf(pq))
  BY DEF DrainsTo
<1>2. \A pq \in SUBSET heap : pq \in SUBSET Pairs /\ IsFiniteSet(pq) /\ Cardinality(pq) \in Nat
  BY FS_Subset, FS_CardinalityType
<1>3. 0 \in All
  <2> SUFFICES ASSUME NEW pq \in SUBSET heap, Cardinality(pq) = 0 PROVE Right(pq)
    OBVIOUS
  <2>1. pq = {}
    BY <1>2, FS_EmptySet
  <2>2. d[pq] = <<>>
    BY <1>1, <2>1
  <2>. QED BY <2>1, <2>2 DEF ToSet, Sorted
<1>4. ASSUME NEW n \in Nat, n \in All PROVE n + 1 \in All
  <2> SUFFICES ASSUME NEW pq \in SUBSET heap, Cardinality(pq) = n + 1 PROVE Right(pq)
    OBVIOUS
  <2> DEFINE w == WorstOf(pq)
             less == pq \ {w}
  <2>1. pq # {} /\ pq \in SUBSET Pairs /\ IsFiniteSet(pq)
    <3>1. Cardinality(pq) # 0
      OBVIOUS
    <3>. QED BY <1>2, <3>1, FS_EmptySet
  <2>2. w \in pq /\ w \in Pairs /\ \A q \in less : ValueComp(q, w)
    BY <2>1, WorstComesLast
  <2>3. less \in SUBSET heap /\ Cardinality(less) = n
    <3>1. Cardinality(less) = Cardinality(pq) - 1
      <4>1. IsFiniteSet(pq) /\ w \in pq
        BY <2>1, <2>2
      <4> HIDE DEF w
      <4>. QED BY <4>1, FS_RemoveElement
    <3>2. Cardinality(pq) - 1 = n
      OBVIOUS
    <3>. QED BY <3>1, <3>2
  <2>4. Right(less)
    BY <1>4, <2>3
  <2>5. d[pq] = Append(d[less], w)
    BY <1>1, <2>1
  <2> DEFINE s == d[less]
             t == d[pq]
  <2>6. s \in Seq(Pairs) /\ Len(s) = n /\ ToSet(s) = less /\ Sorted(s)
    BY <2>3, <2>4
  <2>7. t = Append(s, w)
    BY <2>5
  <2>8. less \cup {w} = pq
    BY <2>2
  <2> HIDE DEF s, t, w, less
  <2>9. t \in Seq(Pairs) /\ Len(t) = n + 1 /\ t[n + 1] = w /\ \A i \in 1..n : t[i] = s[i]
    BY <2>2, <2>6, <2>7, AppendProperties
  <2>10. ToSet(t) = pq
    <3>1. ToSet(s) = {s[i] : i \in 1..n} /\ ToSet(t) = {t[i] : i \in 1..n + 1}
      BY <2>6, <2>9 DEF ToSet
    <3>2. \A x : x \in ToSet(t) <=> x \in less \/ x = w
      BY <2>6, <2>9, <3>1
    <3>. QED BY <2>8, <3>2
  <2>11. Sorted(t)
    <3> SUFFICES ASSUME NEW i \in 1..n + 1, NEW j \in 1..n + 1, i < j
                 PROVE  ValueComp(t[i], t[j])
      BY <2>9 DEF Sorted
    <3>1. i \in 1..n /\ (j = n + 1 \/ j \in 1..n)
      OBVIOUS
    <3>2. CASE j = n + 1
      <4>1. s[i] \in less
        BY <2>6, <3>1 DEF ToSet
      <4>. QED BY <2>2, <2>9, <3>1, <3>2, <4>1
    <3>3. CASE j \in 1..n
      <4>1. ValueComp(s[i], s[j])
        BY <2>6, <3>1, <3>3 DEF Sorted
      <4>. QED BY <2>9, <3>1, <3>3, <4>1
    <3>. QED BY <3>1, <3>2, <3>3
  <2>. QED BY <2>9, <2>10, <2>11 DEF t
<1>5. Nat \subseteq All
  <2> HIDE DEF All
  <2>. QED BY <1>3, <1>4, Induction
<1>6. Right(heap)
  <2> HIDE DEF Right
  <2>. QED BY <1>2, <1>5
<1>. QED BY <1>6

\* How many it is to find.
Found(values, k) == IF k < Len(values) THEN k ELSE Len(values)

\* What TopK has in the queue when the numbers are through.
LEMMA QueueIsFilled ==
  ASSUME NEW values \in Seq(Nat), NEW k \in Nat \ {0}
  PROVE  \E heap :
           /\ QueueHolds(heap, values, Found(values, k), Len(values))
           /\ TopK(values, k) = (CHOOSE x : DrainsTo(x, heap))[heap]
<1> DEFINE first == Found(values, k)
           pair(i) == <<values[i], i - 1>>
           base == {pair(i) : i \in 1..first}
           seq == [i \in 1..Len(values) - first |-> first + i]
           push(pq, i) == IF WorstOf(pq)[1] < values[i]
                          THEN (pq \ {WorstOf(pq)}) \cup {pair(i)} ELSE pq
           E == 1..Len(values)
           V == SUBSET {pair(i) : i \in E}
           f == [p \in V \X E |-> push(p[1], p[2])]
           Is(it) == it = [t \in SUBSET DOMAIN seq |->
                            IF t = {} THEN base ELSE push(it[t \ {Max(t)}], seq[Max(t)])]
<1>1. /\ Len(values) \in Nat /\ first \in 0..Len(values) /\ Len(values) - first \in Nat
      /\ Len(values) - first > 0 => first \in Nat \ {0}
  BY LenProperties DEF Found
<1>2. seq \in Seq(E) /\ Len(seq) = Len(values) - first
  <2> HIDE DEF first
  <2> DEFINE n == Len(values) - first
  <2>1. n \in Nat /\ \A i \in 1..n : first + i \in E
    BY <1>1
  <2> HIDE DEF E
  <2>2. seq = [i \in 1..n |-> first + i]
    OBVIOUS
  <2> HIDE DEF n, seq
  <2>3. seq \in [1..n -> E] /\ DOMAIN seq = 1..n
    BY <2>1, <2>2
  <2>4. seq \in Seq(E)
    BY <2>1, <2>3, FunctionIsSequence
  <2>. QED BY <2>1, <2>3, <2>4, LenProperties DEF n
<1>3. f \in [V \X E -> V] /\ base \in V
  <2>1. base \in V
    BY <1>1
  <2>2. \A pq \in V, i \in E : push(pq, i) \in V
    OBVIOUS
  <2> HIDE DEF V, E, push
  <2>. QED BY <2>1, <2>2
<1>4. ASSUME NEW t \in SUBSET DOMAIN seq, t # {}
      PROVE  seq[Max(t)] \in E
  <2>1. Max(t) \in DOMAIN seq
    <3> HIDE DEF seq
    <3>. QED BY <1>2, <1>4, Positions
  <2>2. DOMAIN seq = 1..Len(values) - first
    OBVIOUS
  <2> DEFINE m == Max(t)
  <2>3. m \in 1..Len(values) - first
    BY <2>1, <2>2
  <2> HIDE DEF m
  <2>4. seq[m] \in E
    BY <1>1, <2>3
  <2>. QED BY <2>4 DEF m
<1>5. \E x : Is(x)
  <2>1. PICK g : FoldsTo(g, V, base, f, seq)
    <3> HIDE DEF f, V, E, base, seq
    <3>. QED BY <1>2, <1>3, FoldExists, Zenon
  <2> HIDE DEF V, E, base, seq, push
  <2>2. ASSUME NEW t \in SUBSET DOMAIN seq
        PROVE  g[t] = IF t = {} THEN base ELSE push(g[t \ {Max(t)}], seq[Max(t)])
    <3>1. t \ {Max(t)} \in SUBSET DOMAIN seq
      OBVIOUS
    <3>2. g[t \ {Max(t)}] \in V
      BY <2>1, <3>1 DEF FoldsTo
    <3>. QED BY <1>4, <2>1, <3>2 DEF FoldsTo
  <2>3. Is(g)
    BY <2>1, <2>2 DEF FoldsTo
  <2>. QED BY <2>3
<1> DEFINE x == CHOOSE x : Is(x)
           heap == x[DOMAIN seq]
<1>6. Is(x)
  BY <1>5, Zenon
<1>7. TopK(values, k) = (CHOOSE d : DrainsTo(d, heap))[heap]
  BY DEF TopK, FoldLeft, MapThenFoldSet, DrainsTo, WorstOf, first, Found
<1> HIDE DEF x
<1>8. MadeBy(x, V, base, f, seq)
  <2> HIDE DEF seq, E, push, base
  <2>1. \A t \in SUBSET DOMAIN seq :
          t # {} => x[t] = push(x[t \ {Max(t)}], seq[Max(t)]) /\ seq[Max(t)] \in E
    BY <1>4, <1>6
  <2>2. x[{}] = base
    BY <1>6
  <2> HIDE DEF V, Is
  <2>. QED BY <2>1, <2>2 DEF MadeBy
<1>9. FoldIs(heap, V, f, base, seq)
  <2> HIDE DEF f, V, E, base, seq
  <2>. QED BY <1>2, <1>3, <1>8, FoldValues, Zenon DEF heap
<1> HIDE DEF heap
<1>10. PICK v : Accumulates(v, V, f, base, seq) /\ heap = v[Len(seq)]
  BY <1>9 DEF FoldIs
<1>11. v[0] = base /\ \A n \in 1..Len(seq) : v[n] = push(v[n - 1], first + n)
  <2> HIDE DEF push, E, V, base
  <2>1. \A n \in 1..Len(seq) : v[n - 1] \in V /\ seq[n] = first + n /\ seq[n] \in E
    <3>1. \A n \in 1..Len(seq) : n - 1 \in 0..Len(seq)
      BY <1>1, <1>2
    <3>2. ASSUME NEW n \in 1..Len(seq) PROVE seq[n] \in E /\ seq[n] = first + n
      <4>1. n \in 1..Len(values) - first
        BY <1>2
      <4>2. seq[n] = first + n
        BY <4>1
      <4>3. seq[n] \in E
        <5> HIDE DEF seq, E
        <5>. QED BY <1>2, ElementOfSeq
      <4>. QED BY <4>2, <4>3
    <3>. QED BY <1>10, <3>1, <3>2 DEF Accumulates
  <2>2. \A n \in 1..Len(seq) : v[n] = f[<<v[n - 1], seq[n]>>] /\ <<v[n - 1], seq[n]>> \in V \X E
    <3> HIDE DEF f, seq
    <3>. QED BY <1>10, <2>1 DEF Accumulates
  <2>3. \A n \in 1..Len(seq) : v[n] = push(v[n - 1], seq[n])
    BY <2>2
  <2>4. v[0] = base
    BY <1>10 DEF Accumulates
  <2>. QED BY <2>1, <2>3, <2>4
<1> DEFINE Fine == {n \in Nat : n <= Len(seq) => QueueHolds(v[n], values, first, first + n)}
<1>12. 0 \in Fine
  <2>1. \A i \in 1..first : i \in E
    BY <1>1
  <2>2. IsFiniteSet(base) /\ Cardinality(base) = first
    <3> HIDE DEF first
    <3> DEFINE g == [i \in 1..first |-> pair(i)]
    <3>1. g \in Bijection(1..first, base)
      <4>1. \A i, j \in 1..first : pair(i) = pair(j) => i = j
        <5> SUFFICES ASSUME NEW i \in 1..first, NEW j \in 1..first, pair(i) = pair(j)
                     PROVE  i = j
          OBVIOUS
        <5>1. i - 1 = j - 1 /\ i \in Int /\ j \in Int
          OBVIOUS
        <5>. QED BY <5>1
      <4>2. g \in [1..first -> base] /\ \A p \in base : \E i \in 1..first : g[i] = p
        OBVIOUS
      <4>3. \A i, j \in 1..first : g[i] = g[j] => i = j
        BY <4>1
      <4> HIDE DEF g, base
      <4>. QED BY <4>2, <4>3, Zenon DEF Bijection, Injection, IsInjective, Surjection
    <3>3. ExistsBijection(1..first, base)
      BY <3>1 DEF ExistsBijection
    <3>2. IsFiniteSet(1..first) /\ Cardinality(1..first) = first
      BY <1>1, FS_Interval
    <3> HIDE DEF g, base
    <3>. QED BY <3>2, <3>3, FS_Bijection
  <2>3. first + 0 = first
    BY <1>1
  <2>4. \A j \in 1..first : pair(j) \in base
    OBVIOUS
  <2>5. QueueHolds(base, values, first, first)
    BY <2>2, <2>4 DEF QueueHolds
  <2> HIDE DEF base, first
  <2>. QED BY <1>11, <2>3, <2>5
<1>13. ASSUME NEW n \in Nat, n \in Fine PROVE n + 1 \in Fine
  <2> HIDE DEF first, seq, base, push, f, V, E
  <2> SUFFICES ASSUME n + 1 <= Len(seq)
               PROVE  QueueHolds(v[n + 1], values, first, first + (n + 1))
    OBVIOUS
  <2> DEFINE i == first + (n + 1)
  <2>1. /\ n + 1 \in 1..Len(seq) /\ (n + 1) - 1 = n /\ first \in Nat \ {0}
        /\ i \in 1..Len(values) /\ i - 1 = first + n
    BY <1>1, <1>2
  <2>2. v[n + 1] = push(v[n], i) /\ QueueHolds(v[n], values, first, i - 1)
    <3>1. QueueHolds(v[n], values, first, first + n)
      BY <1>2, <1>1, <1>13
    <3>. QED BY <1>11, <2>1, <3>1
  <2> HIDE DEF i
  <2>3. QueueHolds(push(v[n], i), values, first, i)
    BY <2>1, <2>2, QueueKeepsTheBest DEF push
  <2>. QED BY <2>2, <2>3 DEF i
<1>14. Nat \subseteq Fine
  <2> HIDE DEF Fine
  <2>. QED BY <1>12, <1>13, Induction
<1>15. QueueHolds(heap, values, first, Len(values))
  <2>1. Len(seq) \in Nat /\ Len(seq) <= Len(seq) /\ first + Len(seq) = Len(values)
    BY <1>1, <1>2
  <2>2. QueueHolds(v[Len(seq)], values, first, first + Len(seq))
    <3> HIDE DEF first, seq
    <3>. QED BY <1>14, <2>1
  <2> HIDE DEF first, seq
  <2>. QED BY <1>10, <2>1, <2>2
<1>. QED BY <1>7, <1>15 DEF first

\* TopK finds the greatest numbers and, of equal ones, the first, for every array.
LEMMA BestAreFound ==
  ASSUME NEW values \in Seq(Nat), NEW k \in Nat \ {0}
  PROVE  TopKIsStable(values, k)
<1> DEFINE best == TopK(values, k)
           pairs == {<<values[i], i - 1>> : i \in DOMAIN values}
<1>1. PICK heap :
        /\ QueueHolds(heap, values, Found(values, k), Len(values))
        /\ best = (CHOOSE x : DrainsTo(x, heap))[heap]
  BY QueueIsFilled
<1>2. DOMAIN values = 1..Len(values) /\ pairs \in SUBSET Pairs
  BY LenProperties DEF Pairs
<1>3. /\ heap \subseteq pairs /\ heap \in SUBSET Pairs
      /\ IsFiniteSet(heap) /\ Cardinality(heap) = Found(values, k)
      /\ \A p \in heap : \A j \in DOMAIN values :
           <<values[j], j - 1>> \in heap \/ ValueComp(p, <<values[j], j - 1>>)
  <2>1. heap \subseteq pairs
    BY <1>1, <1>2 DEF QueueHolds
  <2> HIDE DEF pairs
  <2>. QED BY <1>1, <1>2, <2>1 DEF QueueHolds
<1>4. /\ best \in Seq(Pairs) /\ Len(best) = Found(values, k)
      /\ ToSet(best) = heap /\ Sorted(best)
  <2> DEFINE d == CHOOSE x : DrainsTo(x, heap)
  <2>1. DrainsTo(d, heap)
    BY <1>3, QueueDrains, Zenon
  <2>2. best = d[heap]
    BY <1>1
  <2> HIDE DEF d, best
  <2>. QED BY <1>3, <2>1, <2>2, DrainedIsSorted
<1> HIDE DEF best
<1>5. \A n \in DOMAIN best : best[n] \in heap
  <2>1. \A n \in DOMAIN best : best[n] \in ToSet(best)
    BY DEF ToSet
  <2>. QED BY <1>4, <2>1
<1>6. \A n \in DOMAIN best, p \in pairs \ ToSet(best) : ValueComp(best[n], p)
  BY <1>3, <1>4, <1>5
<1>7. \A m, n \in DOMAIN best : m < n => ValueComp(best[m], best[n])
  BY <1>4 DEF Sorted
<1>8. Len(best) = (IF k < Len(values) THEN k ELSE Len(values)) /\ ToSet(best) \subseteq pairs
  BY <1>3, <1>4 DEF Found
<1>. QED BY <1>6, <1>7, <1>8 DEF best, TopKIsStable, ValueComp

-----------------------------------------------------------------------------
(* Tensors: Repeat. First quotients of products.                           *)

\* Quotient and remainder, as numbers that a step can name.
LEMMA Quotient ==
  ASSUME NEW x \in Nat, NEW b \in Nat \ {0}
  PROVE  \E q \in Nat, r \in 0..b - 1 : x = b * q + r /\ x \div b = q /\ x % b = r
<1> DEFINE q == x \div b
           r == x % b
<1>1. r \in 0..b - 1 /\ q \in Int /\ x = b * q + r
  BY Division
<1>2. q >= 0
  <2> HIDE DEF q, r
  <2>1. q < 0 => b * q <= -b
    <3>1. \A n \in Nat : b * (-1 - n) = -b - b * n /\ b * n \in Nat
      OBVIOUS
    <3>2. q < 0 => -1 - q \in Nat /\ -1 - (-1 - q) = q
      BY <1>1
    <3> DEFINE n == -1 - q
               y == b * n
    <3>3. q < 0 => b * q = -b - y /\ y \in Nat
      <4> HIDE DEF n
      <4>. QED BY <3>1, <3>2 DEF n
    <3> HIDE DEF y
    <3>. QED BY <3>3
  <2> DEFINE z == b * q
  <2>2. z \in Int /\ x = z + r /\ (q < 0 => z <= -b)
    BY <1>1, <2>1
  <2> HIDE DEF z
  <2>. QED BY <1>1, <2>2
<1>3. q \in Nat
  BY <1>1, <1>2
<1>. QED BY <1>1, <1>3

DividedInTwo(x, a, b) == x \div (a * b) = (x \div a) \div b

\* Dividing by a product is dividing by one factor after the other.
LEMMA QuotientOfQuotient ==
  ASSUME NEW x \in Nat, NEW a \in Nat \ {0}, NEW b \in Nat \ {0}
  PROVE  DividedInTwo(x, a, b)
<1>1. PICK q \in Nat, r \in 0..a - 1 : x = a * q + r /\ x \div a = q
  BY Quotient
<1>2. PICK p \in Nat, t \in 0..b - 1 : q = b * p + t /\ q \div b = p
  BY Quotient
<1> DEFINE c == a * b
           u == a * t + r
<1>3. c \in Nat \ {0}
  OBVIOUS
<1>4. u \in 0..c - 1
  <2>1. b - 1 - t \in Nat
    BY <1>2
  <2>2. a * (b - 1 - t) \in Nat
    BY <2>1
  <2>3. a * (b - 1 - t) = a * b - a - a * t
    BY <1>2
  <2> DEFINE y == a * t
             z == a * (b - 1 - t)
  <2>4. y \in Nat /\ z \in Nat /\ z = c - a - y /\ u = y + r
    BY <1>2, <2>2, <2>3
  <2> HIDE DEF y, z, c, u
  <2>. QED BY <1>1, <1>3, <2>4
<1>5. x = c * p + u
  <2>1. a * (b * p + t) = (a * b) * p + a * t
    BY <1>2
  <2> DEFINE y == (a * b) * p
             z == a * t
  <2>2. y \in Int /\ z \in Int /\ x = (y + z) + r
    BY <1>1, <1>2, <2>1
  <2> HIDE DEF y, z
  <2>3. x = y + (z + r)
    BY <1>1, <2>2
  <2>. QED BY <2>3 DEF y, z
<1> HIDE DEF c, u
<1>6. x \div c = p
  BY <1>2, <1>3, <1>4, <1>5, DivisionOnce
<1>. QED BY <1>1, <1>2, <1>6 DEF c, DividedInTwo

\* A multiple of a * b more changes no digit of base b at a.
LEMMA DigitOfSum ==
  ASSUME NEW x \in Nat, NEW k \in Nat, NEW a \in Nat \ {0}, NEW b \in Nat \ {0}
  PROVE  ((x + k * (a * b)) \div a) % b = (x \div a) % b
<1>1. PICK q \in Nat, r \in 0..a - 1 : x = a * q + r /\ x \div a = q
  BY Quotient
<1>2. PICK p \in Nat, t \in 0..b - 1 : q = b * p + t /\ q % b = t
  BY Quotient
<1> DEFINE y == x + k * (a * b)
           z == q + k * b
<1>3. y = a * z + r
  <2>1. a * (q + k * b) = a * q + k * (a * b)
    OBVIOUS
  <2> DEFINE c == a * q
             d == k * (a * b)
  <2>2. c \in Nat /\ d \in Nat /\ x = c + r /\ a * z = c + d
    BY <1>1, <2>1
  <2> HIDE DEF c, d, z
  <2>3. x + d = a * z + r
    BY <1>1, <2>2
  <2>. QED BY <2>3 DEF d
<1>4. z = b * (p + k) + t
  <2>1. b * (p + k) = b * p + k * b
    OBVIOUS
  <2> DEFINE c == b * p
             d == k * b
  <2>2. c \in Nat /\ d \in Nat /\ q = c + t /\ b * (p + k) = c + d
    BY <1>2, <2>1
  <2> HIDE DEF c, d
  <2>3. q + d = (c + d) + t
    BY <1>2, <2>2
  <2>. QED BY <2>2, <2>3 DEF d
<1>5. z \in Nat
  OBVIOUS
<1> HIDE DEF y, z
<1>6. y \div a = z
  BY <1>1, <1>3, <1>5, DivisionOnce
<1>7. z % b = t
  <2>1. p + k \in Int
    OBVIOUS
  <2> DEFINE c == p + k
  <2> HIDE DEF c
  <2>2. c \in Int /\ z = b * c + t
    BY <1>4, <2>1 DEF c
  <2>. QED BY <1>2, <2>2, DivisionOnce
<1>. QED BY <1>1, <1>2, <1>6, <1>7 DEF y

SameDigits(a, b, j) == \A p \in Nat : ((j + p * (a * b)) \div a) % b = (j \div a) % b

\* DigitOfSum for every multiple at once.
LEMMA DigitsOfSum ==
  ASSUME NEW a \in Nat \ {0}, NEW b \in Nat \ {0}, NEW j \in Nat
  PROVE  SameDigits(a, b, j)
BY DigitOfSum, Zenon DEF SameDigits

\* The remainder by a multiple of b has the same remainder by b as the number.
LEMMA RemainderOfRemainder ==
  ASSUME NEW x \in Nat, NEW b \in Nat \ {0}, NEW f \in Nat \ {0}
  PROVE  (x % (b * f)) % b = x % b
<1> DEFINE c == b * f
<1>1. c \in Nat \ {0}
  OBVIOUS
<1>2. PICK q \in Nat, r \in 0..c - 1 : x = c * q + r /\ x % c = r
  <2> HIDE DEF c
  <2>. QED BY <1>1, Quotient
<1>3. r \in Nat
  BY <1>1, <1>2
<1>4. PICK p \in Nat, t \in 0..b - 1 : r = b * p + t /\ r % b = t
  BY <1>3, Quotient
<1>5. x = b * (f * q + p) + t
  <2>1. b * (f * q + p) = (b * f) * q + b * p
    OBVIOUS
  <2> DEFINE y == (b * f) * q
             z == b * p
  <2>2. y \in Nat /\ z \in Nat /\ x = y + r /\ r = z + t /\ b * (f * q + p) = y + z
    BY <1>2, <1>4, <2>1
  <2> HIDE DEF y, z
  <2>3. x = (y + z) + t
    BY <1>4, <2>2
  <2>. QED BY <2>2, <2>3
<1> DEFINE d == f * q + p
<1>6. d \in Int /\ x = b * d + t
  BY <1>5
<1> HIDE DEF d
<1>7. x % b = t
  BY <1>4, <1>6, DivisionOnce
<1>. QED BY <1>2, <1>4, <1>7 DEF c

-----------------------------------------------------------------------------
(* Sequences of sequences.                                                 *)

\* What has been put together is what there was and the next.
LEMMA Flattened ==
  ASSUME NEW E, NEW seqs \in Seq(Seq(E))
  PROVE  \E v \in [0..Len(seqs) -> Seq(E)] :
           /\ v[0] = <<>> /\ \A n \in 1..Len(seqs) : v[n] = v[n - 1] \o seqs[n]
           /\ FlattenSeq(seqs) = v[Len(seqs)]
<1> DEFINE S == 1..Len(seqs)
           V == Seq(E)
           mu == [i \in S |-> i]
           F == [p \in [S -> V] \X S |->
                   IF p[2] = 1 THEN seqs[p[2]] ELSE p[1][p[2] - 1] \o seqs[p[2]]]
           Is(x) == x = [i \in 1..Len(seqs) |-> IF i = 1 THEN seqs[i] ELSE x[i - 1] \o seqs[i]]
<1>1. Len(seqs) \in Nat /\ \A i \in S : seqs[i] \in V /\ (i # 1 => i - 1 \in S)
  BY LenProperties
<1>2. mu \in [S -> Nat]
  BY <1>1
<1>3. F \in [[S -> V] \X S -> V]
  <2> HIDE DEF S, V
  <2> SUFFICES ASSUME NEW g \in [S -> V], NEW i \in S
               PROVE  (IF i = 1 THEN seqs[i] ELSE g[i - 1] \o seqs[i]) \in V
    OBVIOUS
  <2>1. i # 1 => g[i - 1] \in V
    BY <1>1
  <2>2. i # 1 => g[i - 1] \o seqs[i] \in V
    BY <1>1, <2>1, ConcatProperties, Zenon DEF V
  <2>. QED BY <1>1, <2>2
<1>4. Descends(F, S, V, mu)
  <2> SUFFICES ASSUME NEW g \in [S -> V], NEW h \in [S -> V], NEW i \in S,
                      \A j \in S : mu[j] < mu[i] => g[j] = h[j]
               PROVE  F[<<g, i>>] = F[<<h, i>>]
    <3> HIDE DEF F, S, V, mu
    <3>. QED BY DEF Descends
  <2>1. i # 1 => i - 1 \in S /\ mu[i - 1] < mu[i]
    BY <1>1
  <2>2. i # 1 => g[i - 1] = h[i - 1]
    <3> HIDE DEF mu, F
    <3>. QED BY <2>1
  <2>3. F[<<g, i>>] = (IF i = 1 THEN seqs[i] ELSE g[i - 1] \o seqs[i])
    BY Zenon
  <2>4. F[<<h, i>>] = (IF i = 1 THEN seqs[i] ELSE h[i - 1] \o seqs[i])
    BY Zenon
  <2> HIDE DEF F
  <2>. QED BY <2>2, <2>3, <2>4, Zenon
<1>5. PICK g : Solves(g, F, S, V)
  <2>1. <<>> \in V
    OBVIOUS
  <2> HIDE DEF S, V, mu, F
  <2>. QED BY <1>2, <1>3, <1>4, <2>1, Recursion, Zenon
<1>6. Is(g)
  BY <1>5, Zenon DEF Solves
<1> DEFINE x == CHOOSE x : Is(x)
<1>7. Is(x)
  BY <1>6, Zenon
<1>8. FlattenSeq(seqs) = IF Len(seqs) = 0 THEN seqs ELSE x[Len(seqs)]
  BY DEF FlattenSeq
<1> HIDE DEF x
<1>9. \A i \in S : x[i] = IF i = 1 THEN seqs[i] ELSE x[i - 1] \o seqs[i]
  BY <1>7, Zenon
<1> DEFINE Typed == {n \in Nat : n + 1 <= Len(seqs) => x[n + 1] \in V}
<1>10. 0 \in Typed
  BY <1>1, <1>9
<1>11. ASSUME NEW n \in Nat, n \in Typed PROVE n + 1 \in Typed
  <2> SUFFICES ASSUME (n + 1) + 1 <= Len(seqs) PROVE x[(n + 1) + 1] \in V
    OBVIOUS
  <2> DEFINE i == (n + 1) + 1
  <2>1. i \in S /\ i # 1 /\ i - 1 = n + 1 /\ n + 1 <= Len(seqs)
    BY <1>1
  <2>2. x[i - 1] \in V /\ seqs[i] \in V
    BY <1>1, <1>11, <2>1
  <2>3. x[i] = x[i - 1] \o seqs[i]
    BY <1>9, <2>1, Zenon
  <2> HIDE DEF i
  <2>4. x[i] \in V
    BY <2>2, <2>3, ConcatProperties, Zenon
  <2>. QED BY <2>4 DEF i
<1>12. Nat \subseteq Typed
  <2> HIDE DEF Typed
  <2>. QED BY <1>10, <1>11, Induction
<1>13. \A i \in S : x[i] \in V
  <2> SUFFICES ASSUME NEW i \in S PROVE x[i] \in V
    OBVIOUS
  <2>1. i - 1 \in Nat /\ (i - 1) + 1 = i /\ i <= Len(seqs)
    BY <1>1
  <2>. QED BY <1>12, <2>1
<1> DEFINE v == [n \in 0..Len(seqs) |-> IF n = 0 THEN <<>> ELSE x[n]]
<1>14. v \in [0..Len(seqs) -> V] /\ v[0] = <<>>
  <2>1. \A n \in 0..Len(seqs) : n = 0 \/ n \in S
    BY <1>1
  <2>2. <<>> \in V /\ 0 \in 0..Len(seqs)
    BY <1>1
  <2> HIDE DEF V, S
  <2>. QED BY <1>13, <2>1, <2>2
<1>15. ASSUME NEW n \in 1..Len(seqs) PROVE v[n] = v[n - 1] \o seqs[n]
  <2>1. /\ n \in 0..Len(seqs) /\ n # 0 /\ n - 1 \in 0..Len(seqs) /\ (n = 1 <=> n - 1 = 0)
        /\ v[n] = x[n] /\ (n # 1 => v[n - 1] = x[n - 1]) /\ (n = 1 => v[n - 1] = <<>>)
    BY <1>1
  <2> HIDE DEF v
  <2>2. CASE n = 1
    <3>1. x[n] = seqs[n] /\ seqs[n] \in V
      BY <1>1, <1>9, <2>2
    <3>2. <<>> \o seqs[n] = seqs[n]
      BY <3>1, ConcatEmptySeq, Zenon
    <3>. QED BY <2>1, <2>2, <3>1, <3>2, Zenon
  <2>3. CASE n # 1
    <3>1. x[n] = x[n - 1] \o seqs[n]
      BY <1>9, <2>3, Zenon
    <3>. QED BY <2>1, <2>3, <3>1, Zenon
  <2>. QED BY <2>2, <2>3
<1>16. FlattenSeq(seqs) = v[Len(seqs)]
  <2>1. CASE Len(seqs) = 0
    <3>1. seqs = <<>>
      BY <2>1, EmptySeq
    <3>. QED BY <1>8, <1>14, <2>1, <3>1
  <2>2. CASE Len(seqs) # 0
    <3>1. v[Len(seqs)] = x[Len(seqs)]
      BY <1>1, <2>2
    <3>. QED BY <1>8, <2>2, <3>1
  <2>. QED BY <2>1, <2>2
<1> HIDE DEF v
<1>. QED BY <1>14, <1>15, <1>16

\* Blocks of one length, one after the other.
LaidOut(t, seqs, B) ==
  /\ Len(t) = Len(seqs) * B
  /\ \A n \in 1..Len(seqs), j \in 1..B : t[(n - 1) * B + j] = seqs[n][j]

\* Sequences of one length are laid out one after the other.
LEMMA BlocksFlattened ==
  ASSUME NEW E, NEW B \in Nat, NEW seqs \in Seq(Seq(E)), \A n \in 1..Len(seqs) : Len(seqs[n]) = B
  PROVE  LaidOut(FlattenSeq(seqs), seqs, B)
<1>1. PICK v \in [0..Len(seqs) -> Seq(E)] :
        /\ v[0] = <<>> /\ \A n \in 1..Len(seqs) : v[n] = v[n - 1] \o seqs[n]
        /\ FlattenSeq(seqs) = v[Len(seqs)]
  BY Flattened
<1>2. Len(seqs) \in Nat /\ \A n \in 1..Len(seqs) : seqs[n] \in Seq(E)
  BY LenProperties
<1> DEFINE Right(m) == /\ Len(v[m]) = m * B
                       /\ \A n \in 1..m, j \in 1..B : v[m][(n - 1) * B + j] = seqs[n][j]
           All == {m \in Nat : m <= Len(seqs) => Right(m)}
<1>3. 0 \in All
  BY <1>1
<1>4. ASSUME NEW m \in Nat, m \in All PROVE m + 1 \in All
  <2> SUFFICES ASSUME m + 1 <= Len(seqs) PROVE Right(m + 1)
    OBVIOUS
  <2> DEFINE s == v[m]
             b == seqs[m + 1]
             t == v[m + 1]
             c == m * B
  <2>1. m + 1 \in 1..Len(seqs) /\ (m + 1) - 1 = m /\ m \in 0..Len(seqs) /\ m <= Len(seqs)
    BY <1>2
  <2>2. s \in Seq(E) /\ b \in Seq(E) /\ Len(b) = B /\ Len(s) = c /\ c \in Nat
        /\ \A n \in 1..m, j \in 1..B : s[(n - 1) * B + j] = seqs[n][j]
    <3>1. Right(m)
      <4> HIDE DEF Right
      <4>. QED BY <1>4, <2>1
    <3>2. c \in Nat
      OBVIOUS
    <3>3. s \in Seq(E)
      BY <1>1, <2>1
    <3>4. b \in Seq(E) /\ Len(b) = B
      BY <1>2, <2>1
    <3>. QED BY <3>1, <3>2, <3>3, <3>4
  <2>3. t = s \o b
    BY <1>1, <2>1, Zenon
  <2> HIDE DEF s, b, t
  <2>4. /\ Len(t) = Len(s) + Len(b)
        /\ \A i \in 1..Len(s) + Len(b) : t[i] = IF i <= Len(s) THEN s[i] ELSE b[i - Len(s)]
    <3>1. /\ Len(s \o b) = Len(s) + Len(b)
          /\ \A i \in 1..Len(s) + Len(b) : (s \o b)[i] = IF i <= Len(s) THEN s[i] ELSE b[i - Len(s)]
      <4>1. s \in Seq(E) /\ b \in Seq(E)
        BY <2>2
      <4>. QED BY <4>1, ConcatProperties
    <3>. QED BY <2>3, <3>1
  <2> HIDE DEF c
  <2>5. Len(t) = c + B
    BY <2>2, <2>4
  <2>6. ASSUME NEW n \in 1..m + 1, NEW j \in 1..B PROVE t[(n - 1) * B + j] = seqs[n][j]
    <3>1. CASE n = m + 1
      <4>1. (n - 1) * B = c
        BY <3>1 DEF c
      <4>2. c + j \in 1..c + B /\ ~(c + j <= c) /\ (c + j) - c = j
        BY <2>2
      <4>3. t[c + j] = b[j]
        BY <2>2, <2>4, <4>2
      <4>. QED BY <3>1, <4>1, <4>3 DEF b
    <3>2. CASE n # m + 1
      <4>1. n \in 1..m /\ m - n \in Nat
        BY <3>2
      <4> DEFINE d == (n - 1) * B
      <4>2. d \in Nat /\ d + B <= c
        <5>1. n * B + (m - n) * B = m * B /\ (n - 1) * B + B = n * B
          BY <4>1
        <5>2. (m - n) * B \in Nat /\ (n - 1) * B \in Nat /\ n * B \in Nat
          BY <4>1
        <5> DEFINE x == n * B
                   y == (m - n) * B
                   z == (n - 1) * B
        <5>3. x + y = c /\ z + B = x /\ x \in Nat /\ y \in Nat /\ z \in Nat
          BY <5>1, <5>2 DEF c
        <5> HIDE DEF x, y, z
        <5>4. z + B <= c
          BY <5>3
        <5>. QED BY <5>3, <5>4 DEF z
      <4> HIDE DEF d
      <4>3. d + j \in 1..c + B /\ d + j <= c
        BY <2>2, <4>2
      <4>4. t[d + j] = s[d + j]
        BY <2>2, <2>4, <4>3
      <4>. QED BY <2>2, <4>1, <4>4 DEF d
    <3>. QED BY <3>1, <3>2
  <2>7. (m + 1) * B = c + B
    BY DEF c
  <2>. QED BY <2>5, <2>6, <2>7 DEF t
<1>5. Nat \subseteq All
  <2> HIDE DEF All
  <2>. QED BY <1>3, <1>4, Induction
<1>6. Right(Len(seqs))
  <2> HIDE DEF Right
  <2>1. Len(seqs) \in Nat /\ Len(seqs) <= Len(seqs)
    BY <1>2
  <2>. QED BY <1>5, <2>1
<1>. QED BY <1>1, <1>6 DEF LaidOut

\* A sum, step by step.
LEMMA Sums ==
  ASSUME NEW s \in Seq(Int)
  PROVE  \E v \in [0..Len(s) -> Int] :
           /\ v[0] = 0 /\ \A n \in 1..Len(s) : v[n] = v[n - 1] + s[n]
           /\ Sum(s) = v[Len(s)]
<1> DEFINE f == [p \in Int \X Int |-> p[1] + p[2]]
           Is(it) == it = [t \in SUBSET DOMAIN s |->
                            IF t = {} THEN 0 ELSE it[t \ {Max(t)}] + s[Max(t)]]
<1>1. f \in [Int \X Int -> Int] /\ 0 \in Int
  OBVIOUS
<1>2. \A t \in SUBSET DOMAIN s : t # {} => s[Max(t)] \in Int
  BY Positions, LenProperties
<1>3. \E x : Is(x)
  <2>1. PICK g : FoldsTo(g, Int, 0, f, s)
    <3> HIDE DEF f
    <3>. QED BY <1>1, FoldExists, Zenon
  <2>2. ASSUME NEW t \in SUBSET DOMAIN s
        PROVE  g[t] = IF t = {} THEN 0 ELSE g[t \ {Max(t)}] + s[Max(t)]
    BY <1>2, <2>1 DEF FoldsTo
  <2>3. Is(g)
    BY <2>1, <2>2 DEF FoldsTo
  <2>. QED BY <2>3
<1>4. PICK it : Is(it) /\ Sum(s) = it[DOMAIN s]
  <2> DEFINE x == CHOOSE x : Is(x)
  <2>1. Is(x)
    BY <1>3, Zenon
  <2>2. Sum(s) = x[DOMAIN s]
    BY DEF Sum, FoldLeft, MapThenFoldSet
  <2> HIDE DEF x
  <2>. QED BY <2>1, <2>2
<1>6. MadeBy(it, Int, 0, f, s)
  BY <1>2, <1>4 DEF MadeBy
<1>7. FoldIs(it[DOMAIN s], Int, f, 0, s)
  <2> HIDE DEF f
  <2>. QED BY <1>1, <1>6, FoldValues, Zenon
<1>8. PICK v : Accumulates(v, Int, f, 0, s) /\ it[DOMAIN s] = v[Len(s)]
  BY <1>7 DEF FoldIs
<1>9. \A n \in 1..Len(s) : v[n - 1] \in Int /\ s[n] \in Int
  BY <1>8, LenProperties DEF Accumulates
<1>10. v[0] = 0 /\ \A n \in 1..Len(s) : v[n] = v[n - 1] + s[n]
  BY <1>8, <1>9 DEF Accumulates
<1>. QED BY <1>4, <1>8, <1>10 DEF Accumulates

\* A sum of numbers from 0 on is one.
LEMMA SumSign ==
  ASSUME NEW s \in Seq(Int), \A n \in 1..Len(s) : s[n] >= 0
  PROVE  Sum(s) \in Nat
<1>1. PICK v \in [0..Len(s) -> Int] :
        v[0] = 0 /\ (\A n \in 1..Len(s) : v[n] = v[n - 1] + s[n]) /\ Sum(s) = v[Len(s)]
  BY Sums
<1>2. Len(s) \in Nat /\ \A n \in 1..Len(s) : s[n] \in Int
  BY LenProperties
<1> DEFINE Signed == {n \in Nat : n <= Len(s) => v[n] >= 0}
<1>3. 0 \in Signed
  BY <1>1
<1>4. ASSUME NEW n \in Nat, n \in Signed PROVE n + 1 \in Signed
  <2> SUFFICES ASSUME n + 1 <= Len(s) PROVE v[n + 1] >= 0
    OBVIOUS
  <2>1. n + 1 \in 1..Len(s) /\ (n + 1) - 1 = n /\ n \in 0..Len(s)
    BY <1>2
  <2>2. v[n + 1] = v[n] + s[n + 1] /\ s[n + 1] \in Int /\ v[n] \in Int
    BY <1>1, <1>2, <2>1
  <2>3. v[n] >= 0 /\ s[n + 1] >= 0
    BY <1>2, <1>4, <2>1
  <2>. QED BY <2>2, <2>3
<1>5. Len(s) \in Signed
  <2> HIDE DEF Signed
  <2>. QED BY <1>2, <1>3, <1>4, Induction
<1>. QED BY <1>1, <1>2, <1>5

\* The product of the dimensions from d on.
TailProduct(s, d) == Product(SubSeq(s, d, Len(s)))

\* Products of the last dimensions: of all of them, of none, and from one to the next.
LEMMA TailProducts ==
  ASSUME NEW s \in Seq(Int)
  PROVE  /\ TailProduct(s, 1) = Product(s) /\ TailProduct(s, Len(s) + 1) = 1
         /\ \A d \in 1..Len(s) + 1 : TailProduct(s, d) \in Int
         /\ \A d \in 1..Len(s) + 1 : \A e \in d..Len(s) + 1 :
              /\ Product(SubSeq(s, d, e - 1)) \in Int
              /\ TailProduct(s, d) = Product(SubSeq(s, d, e - 1)) * TailProduct(s, e)
         /\ \A d \in 1..Len(s) : TailProduct(s, d) = s[d] * TailProduct(s, d + 1)
<1>1. Len(s) \in Nat /\ \A d \in 1..Len(s) : s[d] \in Int
  BY LenProperties
<1>2. ASSUME NEW d \in 1..Len(s) + 1, NEW e \in d - 1..Len(s) PROVE SubSeq(s, d, e) \in Seq(Int)
  <2>1. \A i \in d..e : s[i] \in Int
    BY <1>1
  <2>. QED BY <2>1, SubSeqProperties
<1>3. TailProduct(s, 1) = Product(s)
  BY SubSeqFull DEF TailProduct
<1>4. TailProduct(s, Len(s) + 1) = 1
  <2>1. SubSeq(s, Len(s) + 1, Len(s)) = <<>>
    BY <1>1, SubSeqEmpty
  <2>. QED BY <2>1, ProductOfFew DEF TailProduct
<1>5. ASSUME NEW d \in 1..Len(s) + 1 PROVE TailProduct(s, d) \in Int
  <2>1. Len(s) \in d - 1..Len(s)
    BY <1>1
  <2>2. SubSeq(s, d, Len(s)) \in Seq(Int)
    BY <1>2, <2>1
  <2>. QED BY <2>2, ProductOfConcat DEF TailProduct
<1>6. ASSUME NEW d \in 1..Len(s) + 1, NEW e \in d..Len(s) + 1
      PROVE  /\ Product(SubSeq(s, d, e - 1)) \in Int
             /\ TailProduct(s, d) = Product(SubSeq(s, d, e - 1)) * TailProduct(s, e)
  <2> DEFINE a == SubSeq(s, d, e - 1)
             b == SubSeq(s, e, Len(s))
  <2>1. /\ e - 1 \in d - 1..Len(s) /\ (e - 1) + 1 = e /\ Len(s) \in e - 1..Len(s)
        /\ e \in 1..Len(s) + 1
    BY <1>1
  <2>2. a \in Seq(Int) /\ b \in Seq(Int)
    BY <1>2, <2>1
  <2>3. SubSeq(s, d, e - 1) \o SubSeq(s, (e - 1) + 1, Len(s)) = SubSeq(s, d, Len(s))
    BY <2>1, ConcatAdjacentSubSeq, Zenon
  <2>4. a \o b = SubSeq(s, d, Len(s))
    BY <2>1, <2>3
  <2> HIDE DEF a, b
  <2>5. Product(a \o b) = Product(a) * Product(b) /\ Product(a) \in Int
    BY <2>2, ProductOfConcat, Zenon
  <2>. QED BY <2>4, <2>5 DEF TailProduct, a, b
<1>7. ASSUME NEW d \in 1..Len(s) PROVE TailProduct(s, d) = s[d] * TailProduct(s, d + 1)
  <2>1. d \in 1..Len(s) + 1 /\ d + 1 \in d..Len(s) + 1 /\ (d + 1) - 1 = d /\ d \in d..Len(s)
        /\ d + 1 > d
    BY <1>1
  <2>2. TailProduct(s, d) = Product(SubSeq(s, d, d)) * TailProduct(s, d + 1)
    BY <1>6, <2>1
  <2>3. SubSeq(s, d, d) = <<s[d]>>
    <3>1. SubSeq(s, d, d) = <<s[d]>> \o SubSeq(s, d + 1, d)
      BY <2>1, SubSeqRecursiveFirst, Zenon
    <3>2. SubSeq(s, d + 1, d) = <<>>
      BY <2>1, SubSeqEmpty
    <3>3. <<s[d]>> \in Seq(Int)
      BY <1>1
    <3>. QED BY <3>1, <3>2, <3>3, ConcatEmptySeq, Zenon
  <2>. QED BY <1>1, <2>2, <2>3, ProductOfFew
<1>. QED BY <1>3, <1>4, <1>5, <1>6, <1>7

\* The stride of a dimension is the product of those behind it.
LEMMA StridesAreTails ==
  ASSUME NEW s \in Seq(Int)
  PROVE  \A d \in 1..Len(s) : ComputeStrides(s)[d] = TailProduct(s, d + 1)
<1> DEFINE v == ComputeStrides(s)
           W(d) == TailProduct(s, d)
           Same == {n \in Nat : \A d \in 1..Len(s) : d + n >= Len(s) => v[d] = W(d + 1)}
<1>1. /\ Len(s) \in Nat
      /\ \A d \in 1..Len(s) : v[d] = IF d = Len(s) THEN 1 ELSE v[d + 1] * s[d + 1]
  <2>1. Len(s) \in Nat
    BY LenProperties
  <2>2. CASE 1..Len(s) = {}
    BY <2>1, <2>2
  <2>3. CASE ~StridesOverrun(s)
    BY <2>1, <2>3, StridesOfShape
  <2>4. s = <<>> => 1..Len(s) = {}
    OBVIOUS
  <2>. QED BY <2>2, <2>3, <2>4, Zenon DEF StridesOverrun
<1>2. /\ W(Len(s) + 1) = 1
      /\ \A d \in 1..Len(s) : W(d) = s[d] * W(d + 1) /\ s[d] \in Int /\ W(d + 1) \in Int
  <2>1. \A d \in 1..Len(s) : d + 1 \in 1..Len(s) + 1 /\ s[d] \in Int
    BY LenProperties
  <2>. QED BY <2>1, TailProducts
<1> HIDE DEF v, W
<1>3. 0 \in Same
  <2>1. \A d \in 1..Len(s) : d + 0 >= Len(s) => d = Len(s)
    BY <1>1
  <2>. QED BY <1>1, <1>2, <2>1
<1>4. ASSUME NEW n \in Nat, n \in Same PROVE n + 1 \in Same
  <2> SUFFICES ASSUME NEW d \in 1..Len(s), d + (n + 1) >= Len(s) PROVE v[d] = W(d + 1)
    OBVIOUS
  <2>1. CASE d = Len(s)
    BY <1>1, <1>2, <2>1
  <2>2. CASE d # Len(s)
    <3>1. d + 1 \in 1..Len(s) /\ (d + 1) + n >= Len(s)
      BY <1>1, <2>2
    <3>2. v[d + 1] = W((d + 1) + 1)
      BY <1>4, <3>1
    <3>3. v[d] = v[d + 1] * s[d + 1]
      BY <1>1, <2>2
    <3>4. W(d + 1) = s[d + 1] * W((d + 1) + 1) /\ s[d + 1] \in Int /\ W((d + 1) + 1) \in Int
      BY <1>2, <3>1
    <3>. QED BY <3>2, <3>3, <3>4
  <2>. QED BY <2>1, <2>2
<1>5. Nat \subseteq Same
  <2> HIDE DEF Same
  <2>. QED BY <1>3, <1>4, Induction
<1>6. \A d \in 1..Len(s) : v[d] = W(d + 1)
  <2> SUFFICES ASSUME NEW d \in 1..Len(s) PROVE v[d] = W(d + 1)
    OBVIOUS
  <2>1. Len(s) \in Same /\ d + Len(s) >= Len(s)
    <3> HIDE DEF Same
    <3>. QED BY <1>1, <1>5
  <2>. QED BY <2>1
<1>. QED BY <1>6 DEF v, W

\* Dimensions of one at least.
LEMMA PositiveTails ==
  ASSUME NEW s \in Seq(Int), \A d \in 1..Len(s) : s[d] >= 1,
         NEW d \in 1..Len(s) + 1, NEW e \in d..Len(s) + 1
  PROVE  /\ Product(SubSeq(s, d, e - 1)) \in Nat \ {0}
         /\ TailProduct(s, d) \in Nat \ {0} /\ TailProduct(s, e) \in Nat \ {0}
<1>1. Len(s) \in Nat /\ \A i \in 1..Len(s) : s[i] \in Int
  BY LenProperties
<1>2. ASSUME NEW m \in 1..Len(s) + 1, NEW n \in m - 1..Len(s)
      PROVE  Product(SubSeq(s, m, n)) \in Nat \ {0}
  <2> DEFINE t == SubSeq(s, m, n)
  <2>1. \A i \in m..n : s[i] \in Int /\ s[i] >= 1
    BY <1>1
  <2>2. /\ t \in Seq(Int) /\ Len(t) = IF m <= n THEN n - m + 1 ELSE 0
        /\ \A i \in 1..n - m + 1 : t[i] = s[m + i - 1]
    BY <2>1, SubSeqProperties
  <2>3. \A i \in 1..Len(t) : i \in 1..n - m + 1 /\ m + i - 1 \in m..n
    BY <1>1, <2>2
  <2> HIDE DEF t
  <2>4. 1 \in {0, 1} /\ \A i \in 1..Len(t) : t[i] >= 1
    BY <2>1, <2>2, <2>3
  <2>5. Product(t) \in Int /\ Product(t) >= 1
    BY <2>2, <2>4, ProductSign
  <2>. QED BY <2>5 DEF t
<1>3. e - 1 \in d - 1..Len(s) /\ Len(s) \in d - 1..Len(s) /\ Len(s) \in e - 1..Len(s)
      /\ e \in 1..Len(s) + 1
  BY <1>1
<1>. QED BY <1>2, <1>3 DEF TailProduct

\* Numbers are made of their digits: the place of an element is made of its
\* indices and the strides.
LEMMA NextDigit ==
  ASSUME NEW x \in Nat, NEW a \in Nat \ {0}, NEW b \in Nat \ {0}
  PROVE  (b * a) * (x \div (b * a)) + ((x \div a) % b) * a = a * (x \div a)
<1>1. PICK q \in Nat, r \in 0..a - 1 : x = a * q + r /\ x \div a = q
  BY Quotient
<1>2. PICK p \in Nat, t \in 0..b - 1 : q = b * p + t /\ q \div b = p /\ q % b = t
  BY Quotient
<1>3. x \div (b * a) = p
  <2>1. x \div (a * b) = (x \div a) \div b
    BY QuotientOfQuotient, Zenon DEF DividedInTwo
  <2>2. a * b = b * a
    OBVIOUS
  <2>. QED BY <1>1, <1>2, <2>1, <2>2
<1>4. (b * a) * p + t * a = a * (b * p + t)
  BY <1>2
<1>. QED BY <1>1, <1>2, <1>3, <1>4

Coordinates(s, x) ==
  [d \in 1..Len(s) |-> ((x \div ComputeStrides(s)[d]) % s[d]) * ComputeStrides(s)[d]]

\* An index is the sum of its coordinates times their strides.
LEMMA DigitsMakeNumber ==
  ASSUME NEW s \in Seq(Int), \A d \in 1..Len(s) : s[d] >= 1,
         NEW x \in Nat, x < Product(s)
  PROVE  Sum(Coordinates(s, x)) = x
<1> DEFINE W(d) == TailProduct(s, d)
           t == Coordinates(s, x)
<1>1. Len(s) \in Nat /\ \A d \in 1..Len(s) : s[d] \in Nat \ {0}
  BY LenProperties
<1>2. \A d \in 1..Len(s) + 1 : W(d) \in Nat \ {0}
  <2>1. \A d \in 1..Len(s) + 1 : d \in d..Len(s) + 1
    BY <1>1
  <2>. QED BY <2>1, PositiveTails
<1>3. \A d \in 1..Len(s) : W(d) = s[d] * W(d + 1)
  BY TailProducts
<1>4. W(1) = Product(s) /\ W(Len(s) + 1) = 1
  BY TailProducts
<1>5. \A d \in 1..Len(s) : t[d] = ((x \div W(d + 1)) % s[d]) * W(d + 1)
  BY StridesAreTails DEF Coordinates
<1>6. t \in Seq(Int) /\ Len(t) = Len(s)
  <2>1. \A d \in 1..Len(s) : t[d] \in Int
    <3> SUFFICES ASSUME NEW d \in 1..Len(s) PROVE t[d] \in Int
      OBVIOUS
    <3> DEFINE w == W(d + 1)
    <3>1. d + 1 \in 1..Len(s) + 1
      BY <1>1
    <3>2. w \in Nat \ {0} /\ s[d] \in Nat \ {0} /\ t[d] = ((x \div w) % s[d]) * w
      BY <1>1, <1>2, <1>5, <3>1
    <3> HIDE DEF w, t
    <3>3. x \div w \in Int
      BY <3>2, Division
    <3>4. (x \div w) % s[d] \in Int
      <4> DEFINE y == x \div w
      <4>1. y \in Int
        BY <3>3
      <4> HIDE DEF y
      <4>2. y % s[d] \in 0..s[d] - 1
        BY <3>2, <4>1, Division, Zenon
      <4>3. y % s[d] \in Int
        BY <3>2, <4>2
      <4>. QED BY <4>3 DEF y
    <3>. QED BY <3>2, <3>4
  <2>2. t \in [1..Len(s) -> Int]
    <3>1. t = [d \in 1..Len(s) |-> t[d]]
      BY DEF Coordinates
    <3> HIDE DEF t
    <3>. QED BY <2>1, <3>1
  <2> HIDE DEF t
  <2>. QED BY <1>1, <2>2, FunctionIsSequence
<1> HIDE DEF W, t
<1>7. PICK v \in [0..Len(s) -> Int] :
        v[0] = 0 /\ (\A n \in 1..Len(s) : v[n] = v[n - 1] + t[n]) /\ Sum(t) = v[Len(s)]
  BY <1>6, Sums
<1> DEFINE Made == {n \in Nat : n <= Len(s) => v[n] = W(n + 1) * (x \div W(n + 1))}
<1>8. 0 \in Made
  <2>1. W(1) \in Nat \ {0} /\ x \in 0..W(1) - 1
    BY <1>1, <1>2, <1>4
  <2>2. x \div W(1) = 0 /\ W(1) * 0 = 0
    BY <2>1, SmallDivision
  <2>. QED BY <1>7, <2>2
<1>9. ASSUME NEW n \in Nat, n \in Made PROVE n + 1 \in Made
  <2> SUFFICES ASSUME n + 1 <= Len(s)
               PROVE  v[n + 1] = W((n + 1) + 1) * (x \div W((n + 1) + 1))
    OBVIOUS
  <2> DEFINE d == n + 1
             a == W(d + 1)
             b == s[d]
  <2>1. d \in 1..Len(s) /\ d - 1 = n /\ d \in 1..Len(s) + 1 /\ d + 1 \in 1..Len(s) + 1
        /\ n <= Len(s)
    BY <1>1
  <2>2. a \in Nat \ {0} /\ b \in Nat \ {0} /\ W(d) = b * a
    BY <1>1, <1>2, <1>3, <2>1
  <2>3. v[d] = v[n] + ((x \div a) % b) * a
    BY <1>5, <1>7, <2>1
  <2>4. v[n] = W(d) * (x \div W(d))
    BY <1>9, <2>1
  <2> HIDE DEF a, b
  <2>5. v[d] = (b * a) * (x \div (b * a)) + ((x \div a) % b) * a
    BY <2>2, <2>3, <2>4, Zenon
  <2>6. v[d] = a * (x \div a)
    BY <2>2, <2>5, NextDigit, Zenon
  <2>. QED BY <2>6 DEF a
<1>10. Nat \subseteq Made
  <2> HIDE DEF Made
  <2>. QED BY <1>8, <1>9, Induction
<1>11. v[Len(s)] = 1 * (x \div 1)
  <2>1. Len(s) \in Nat /\ Len(s) <= Len(s)
    BY <1>1
  <2>. QED BY <1>4, <1>10, <2>1
<1>12. x \div 1 = x
  OBVIOUS
<1>. QED BY <1>7, <1>11, <1>12 DEF t

-----------------------------------------------------------------------------

\* A shape of which one dimension is f times that of s.
Repeats(shape, s, r, f) ==
  /\ shape \in Seq(Int) /\ Len(shape) = Len(s)
  /\ \A d \in 1..Len(s) : shape[d] = s[d] * (IF d = r THEN f ELSE 1)

\* Repeating one dimension multiplies the products that it is a part of.
LEMMA TailsOfRepeated ==
  ASSUME NEW s \in Seq(Int), NEW r \in 1..Len(s), NEW f \in Int, NEW shape, Repeats(shape, s, r, f)
  PROVE  \A d \in 1..Len(s) + 1 :
           TailProduct(shape, d) = IF d <= r THEN TailProduct(s, d) * f ELSE TailProduct(s, d)
<1>1. /\ Len(s) \in Nat /\ shape \in Seq(Int) /\ Len(shape) = Len(s)
      /\ \A d \in 1..Len(s) : s[d] \in Int /\ shape[d] = s[d] * (IF d = r THEN f ELSE 1)
  BY LenProperties DEF Repeats
<1>2. ASSUME NEW d \in 1..Len(s) + 1, NEW e \in d - 1..Len(s), r \notin d..e
      PROVE  SubSeq(shape, d, e) = SubSeq(s, d, e)
  <2> DEFINE a == SubSeq(shape, d, e)
             b == SubSeq(s, d, e)
  <2>1. \A i \in d..e : shape[i] \in Int /\ s[i] \in Int /\ shape[i] = s[i]
    <3> SUFFICES ASSUME NEW i \in d..e
                 PROVE  shape[i] \in Int /\ s[i] \in Int /\ shape[i] = s[i]
      OBVIOUS
    <3>1. i \in 1..Len(s) /\ i # r
      <4>1. Len(s) \in Nat
        BY <1>1
      <4>2. i \in Int /\ d <= i /\ i <= e /\ 1 <= d /\ e <= Len(s)
        BY <4>1
      <4>. QED BY <1>2, <4>1, <4>2
    <3>2. s[i] \in Int /\ shape[i] = s[i] * 1
      BY <1>1, <3>1
    <3>. QED BY <3>2
  <2>2. /\ a \in Seq(Int) /\ Len(a) = IF d <= e THEN e - d + 1 ELSE 0
        /\ \A i \in 1..e - d + 1 : a[i] = shape[d + i - 1]
    BY <2>1, SubSeqProperties
  <2>3. /\ b \in Seq(Int) /\ Len(b) = IF d <= e THEN e - d + 1 ELSE 0
        /\ \A i \in 1..e - d + 1 : b[i] = s[d + i - 1]
    BY <2>1, SubSeqProperties
  <2> HIDE DEF a, b
  <2>4. \A i \in 1..Len(a) : i \in 1..e - d + 1 /\ d + i - 1 \in d..e
    BY <1>1, <2>2
  <2>5. Len(a) = Len(b) /\ \A i \in 1..Len(a) : a[i] = b[i]
    BY <2>1, <2>2, <2>3, <2>4
  <2>6. a = b
    BY <2>2, <2>3, <2>5, SeqEqual
  <2>. QED BY <2>6 DEF a, b
<1>3. ASSUME NEW d \in r + 1..Len(s) + 1 PROVE TailProduct(shape, d) = TailProduct(s, d)
  <2>1. d \in 1..Len(s) + 1 /\ Len(s) \in d - 1..Len(s) /\ r \notin d..Len(s)
    BY <1>1
  <2>2. SubSeq(shape, d, Len(s)) = SubSeq(s, d, Len(s))
    BY <1>2, <2>1
  <2>. QED BY <1>1, <2>2 DEF TailProduct
<1>4. TailProduct(shape, r) = TailProduct(s, r) * f
  <2> DEFINE w == TailProduct(s, r + 1)
  <2>1. r + 1 \in r + 1..Len(s) + 1 /\ r + 1 \in 1..Len(s) + 1
    BY <1>1
  <2>2. /\ TailProduct(shape, r) = shape[r] * TailProduct(shape, r + 1)
        /\ TailProduct(s, r) = s[r] * w
        /\ w \in Int
    BY <1>1, <2>1, TailProducts
  <2>3. TailProduct(shape, r + 1) = w /\ shape[r] = s[r] * f /\ s[r] \in Int
    BY <1>1, <1>3, <2>1
  <2> HIDE DEF w
  <2>4. (s[r] * f) * w = (s[r] * w) * f
    BY <2>2, <2>3
  <2>. QED BY <2>2, <2>3, <2>4
<1>5. ASSUME NEW d \in 1..r PROVE TailProduct(shape, d) = TailProduct(s, d) * f
  <2> DEFINE p == Product(SubSeq(s, d, r - 1))
             w == TailProduct(s, r)
  <2>1. d \in 1..Len(s) + 1 /\ r \in d..Len(s) + 1 /\ r - 1 \in d - 1..Len(s)
        /\ r \notin d..r - 1 /\ r \in 1..Len(s) + 1
    BY <1>1
  <2>2. SubSeq(shape, d, r - 1) = SubSeq(s, d, r - 1)
    BY <1>2, <2>1
  <2>3. /\ TailProduct(shape, d) = Product(SubSeq(shape, d, r - 1)) * TailProduct(shape, r)
        /\ TailProduct(s, d) = p * w /\ p \in Int /\ w \in Int
    <3>1. TailProduct(s, d) = p * w /\ p \in Int /\ w \in Int
      BY <2>1, TailProducts
    <3>2. d \in 1..Len(shape) + 1 /\ r \in d..Len(shape) + 1
      BY <1>1, <2>1
    <3> HIDE DEF p, w
    <3>3. TailProduct(shape, d) = Product(SubSeq(shape, d, r - 1)) * TailProduct(shape, r)
      BY <1>1, <3>2, TailProducts
    <3>. QED BY <3>1, <3>3
  <2>4. TailProduct(shape, d) = p * (w * f)
    BY <1>4, <2>2, <2>3
  <2> HIDE DEF p, w
  <2>5. p * (w * f) = (p * w) * f
    BY <2>3
  <2>. QED BY <2>3, <2>4, <2>5
<1>. QED
  <2> SUFFICES ASSUME NEW d \in 1..Len(s) + 1
               PROVE  TailProduct(shape, d) =
                        IF d <= r THEN TailProduct(s, d) * f ELSE TailProduct(s, d)
    OBVIOUS
  <2>1. d \in 1..r \/ (d \in r + 1..Len(s) + 1 /\ ~(d <= r))
    BY <1>1
  <2>. QED BY <1>3, <1>5, <2>1

\* Where the element of the output at o comes from: the place in the input that
\* is made of its indices, each modulo the dimension of the input.
Source(s, shape, o) ==
  Sum([d \in DOMAIN shape |->
         (((o \div ComputeStrides(shape)[d]) % shape[d]) % s[d]) * ComputeStrides(s)[d]])

\* One index, of a dimension not before the one that is repeated, and of one before.
InnerSame(a, b, f, k, m, n, j) ==
  (((k * m + j) \div a) % (b * f)) % b = ((k * n + j) \div a) % b

OuterSame(c, u, b, f, m, j) ==
  (((c * m + j) \div ((u * c) * f)) % b) % b = ((c * (m \div f) + j) \div (u * c)) % b

\* A coordinate behind the one repeated is the same in every copy.
LEMMA InnerIndex ==
  ASSUME NEW a \in Nat \ {0}, NEW b \in Nat \ {0}, NEW u \in Nat \ {0}, NEW f \in Nat \ {0},
         NEW m \in Nat, NEW n \in Nat, NEW j \in Nat, NEW k, k = u * (b * a)
  PROVE  InnerSame(a, b, f, k, m, n, j)
<1>1. ASSUME NEW i \in Nat PROVE ((k * i + j) \div a) % b = (j \div a) % b /\ k * i + j \in Nat
  <2>1. k * i + j = j + (i * u) * (a * b) /\ i * u \in Nat
    <3>1. (u * (b * a)) * i = (i * u) * (a * b)
      OBVIOUS
    <3> DEFINE y == (i * u) * (a * b)
    <3>2. y \in Nat /\ k * i = y
      BY <3>1
    <3> HIDE DEF y
    <3>3. k * i + j = j + y
      BY <3>2
    <3>. QED BY <3>3 DEF y
  <2> DEFINE p == i * u
  <2>2. p \in Nat /\ k * i + j = j + p * (a * b)
    BY <2>1
  <2> HIDE DEF p
  <2>3. ((j + p * (a * b)) \div a) % b = (j \div a) % b
    <3>1. SameDigits(a, b, j)
      BY DigitsOfSum
    <3>. QED BY <2>2, <3>1, Zenon DEF SameDigits
  <2>4. k * i + j \in Nat
    <3>1. p * (a * b) \in Nat
      BY <2>2
    <3> DEFINE y == p * (a * b)
    <3>2. y \in Nat /\ k * i + j = j + y
      BY <2>2, <3>1
    <3> HIDE DEF y
    <3>. QED BY <3>2
  <2>. QED BY <2>2, <2>3, <2>4
<1> DEFINE x == (k * m + j) \div a
<1>2. x \in Nat
  <2> DEFINE y == k * m + j
  <2>1. y \in Nat
    BY <1>1
  <2> HIDE DEF y
  <2>2. y \div a \in Nat
    BY <2>1, Quotient
  <2>. QED BY <2>2 DEF y
<1> HIDE DEF x
<1>3. (x % (b * f)) % b = x % b
  BY <1>2, RemainderOfRemainder
<1>. QED BY <1>1, <1>3 DEF x, InnerSame

\* A coordinate before the one repeated, of a shape that is repeated, is that of
\* the index without the copies.
LEMMA OuterIndex ==
  ASSUME NEW c \in Nat \ {0}, NEW u \in Nat \ {0}, NEW b \in Nat \ {0}, NEW f \in Nat \ {0},
         NEW m \in Nat, NEW j \in 0..c - 1
  PROVE  OuterSame(c, u, b, f, m, j)
<1>1. (c * m + j) \div c = m /\ c * m + j \in Nat
  <2>1. (c * m + j) \div c = m
    BY DivisionOnce
  <2>2. c * m \in Nat
    OBVIOUS
  <2> DEFINE y == c * m
  <2>3. y \in Nat
    BY <2>2
  <2> HIDE DEF y
  <2>4. y + j \in Nat
    BY <2>3
  <2>. QED BY <2>1, <2>4 DEF y
<1>2. m \div f \in Nat
  BY Quotient
<1> DEFINE n == m \div f
<1>3. (c * n + j) \div c = n /\ c * n + j \in Nat
  <2>1. n \in Nat
    BY <1>2
  <2> HIDE DEF n
  <2>2. (c * n + j) \div c = n
    BY <2>1, DivisionOnce
  <2> DEFINE y == c * n
  <2>3. y \in Nat
    BY <2>1
  <2> HIDE DEF y
  <2>4. y + j \in Nat
    BY <2>3
  <2>. QED BY <2>2, <2>4 DEF y
<1> DEFINE x == c * m + j
           z == c * n + j
<1>4. x \in Nat /\ z \in Nat /\ n \in Nat /\ x \div c = m /\ z \div c = n
  BY <1>1, <1>2, <1>3
<1> HIDE DEF x, z
<1>5. x \div ((u * c) * f) = n \div u
  <2>1. (u * c) * f = c * (f * u) /\ f * u \in Nat \ {0} /\ u \in Nat \ {0}
    OBVIOUS
  <2> DEFINE g == f * u
  <2>2. (u * c) * f = c * g /\ g \in Nat \ {0}
    BY <2>1
  <2> HIDE DEF g
  <2>3. x \div (c * g) = (x \div c) \div g
    <3>1. x \in Nat /\ c \in Nat \ {0} /\ g \in Nat \ {0}
      BY <1>4, <2>2
    <3>2. DividedInTwo(x, c, g)
      BY <3>1, QuotientOfQuotient, Zenon
    <3>. QED BY <3>2, Zenon DEF DividedInTwo
  <2>4. m \div (f * u) = (m \div f) \div u
    <3>1. DividedInTwo(m, f, u)
      BY QuotientOfQuotient, Zenon
    <3>. QED BY <3>1, Zenon DEF DividedInTwo
  <2>. QED BY <1>4, <2>2, <2>3, <2>4 DEF g
<1>6. z \div (u * c) = n \div u
  <2>1. z \div (c * u) = (z \div c) \div u
    <3>1. DividedInTwo(z, c, u)
      BY <1>4, QuotientOfQuotient, Zenon
    <3>. QED BY <3>1, Zenon DEF DividedInTwo
  <2>2. u * c = c * u
    OBVIOUS
  <2>. QED BY <1>4, <2>1, <2>2
<1>7. n \div u \in Nat
  <2> HIDE DEF n
  <2>. QED BY <1>4, Quotient
<1> DEFINE w == n \div u
<1>8. w \in Nat
  BY <1>7
<1> HIDE DEF w
<1>9. (w % b) % b = w % b
  <2>1. w % b \in 0..b - 1
    BY <1>8, Division
  <2> DEFINE y == w % b
  <2>2. y \in 0..b - 1
    BY <2>1
  <2> HIDE DEF y
  <2>3. y % b = y
    BY <2>2, SmallDivision
  <2>. QED BY <2>3 DEF y
<1>. QED BY <1>5, <1>6, <1>9 DEF w, x, z, OuterSame

ComesFrom(s, shape, c, m, f, j) == Source(s, shape, c * m + j) = c * (m \div f) + j

\* Where torch takes the element at an index of the repeated tensor from: the same
\* place of the block, in the block that the copy is one of.
LEMMA SourceOfIndex ==
  ASSUME NEW s \in Seq(Int), \A d \in 1..Len(s) : s[d] >= 1, NEW r \in 1..Len(s),
         NEW f \in Nat \ {0}, NEW shape, Repeats(shape, s, r, f),
         NEW c, c = TailProduct(s, r), NEW m \in Nat, NEW j \in 0..c - 1,
         c * (m \div f) + j < Product(s)
  PROVE  ComesFrom(s, shape, c, m, f, j)
<1> DEFINE n == m \div f
           o == c * m + j
           x == c * n + j
           S(d) == ComputeStrides(s)[d]
           R(d) == ComputeStrides(shape)[d]
<1>1. /\ Len(s) \in Nat /\ shape \in Seq(Int) /\ Len(shape) = Len(s) /\ DOMAIN shape = 1..Len(s)
      /\ \A d \in 1..Len(s) : s[d] \in Nat \ {0} /\ shape[d] = s[d] * (IF d = r THEN f ELSE 1)
  <2>1. Len(s) \in Nat /\ \A d \in 1..Len(s) : s[d] \in Nat \ {0}
    BY LenProperties
  <2>2. /\ shape \in Seq(Int) /\ Len(shape) = Len(s)
        /\ \A d \in 1..Len(s) : shape[d] = s[d] * (IF d = r THEN f ELSE 1)
    BY Zenon DEF Repeats
  <2>3. DOMAIN shape = 1..Len(s)
    BY <2>2
  <2>. QED BY <2>1, <2>2, <2>3, Zenon
<1>2. c \in Nat \ {0} /\ n \in Nat
  <2>1. r \in 1..Len(s) + 1 /\ r \in r..Len(s) + 1
    BY <1>1
  <2>. QED BY <2>1, PositiveTails, Quotient
<1>3. \A d \in 1..Len(s) :
        /\ S(d) = TailProduct(s, d + 1)
        /\ R(d) = IF d + 1 <= r THEN TailProduct(s, d + 1) * f ELSE TailProduct(s, d + 1)
  <2> SUFFICES ASSUME NEW d \in 1..Len(s)
               PROVE  /\ S(d) = TailProduct(s, d + 1)
                      /\ R(d) = IF d + 1 <= r THEN TailProduct(s, d + 1) * f
                                ELSE TailProduct(s, d + 1)
    OBVIOUS
  <2>1. S(d) = TailProduct(s, d + 1) /\ R(d) = TailProduct(shape, d + 1)
    BY <1>1, StridesAreTails
  <2>2. d + 1 \in 1..Len(s) + 1
    BY <1>1
  <2> HIDE DEF S, R
  <2>. QED BY <2>1, <2>2, TailsOfRepeated
<1> HIDE DEF S, R
<1>4. ASSUME NEW d \in 1..Len(s)
      PROVE  (((o \div R(d)) % shape[d]) % s[d]) * S(d) = ((x \div S(d)) % s[d]) * S(d)
  <2>1. CASE d < r
    <3> DEFINE u == Product(SubSeq(s, d + 1, r - 1))
               b == s[d]
    <3>1. d + 1 \in 1..Len(s) + 1 /\ r \in d + 1..Len(s) + 1 /\ d + 1 <= r /\ d # r
      BY <1>1, <2>1
    <3>2. u \in Nat \ {0} /\ TailProduct(s, d + 1) = u * c
      BY <3>1, PositiveTails, TailProducts
    <3>3. b \in Nat \ {0} /\ shape[d] = b
      BY <1>1, <3>1
    <3> HIDE DEF u, b
    <3>4. S(d) = u * c /\ R(d) = (u * c) * f
      BY <1>3, <3>1, <3>2
    <3>5. OuterSame(c, u, b, f, m, j)
      BY <1>2, <3>2, <3>3, OuterIndex, Zenon
    <3>. QED BY <3>3, <3>4, <3>5, Zenon DEF b, OuterSame
  <2>2. CASE d >= r
    <3> DEFINE u == Product(SubSeq(s, r, d - 1))
               a == TailProduct(s, d + 1)
               b == s[d]
               g == IF d = r THEN f ELSE 1
    <3>1. /\ r \in 1..Len(s) + 1 /\ d \in r..Len(s) + 1 /\ ~(d + 1 <= r)
          /\ d \in 1..Len(s) + 1 /\ d + 1 \in 1..Len(s) + 1 /\ d + 1 \in d..Len(s) + 1
      BY <1>1, <2>2
    <3>2. u \in Nat \ {0} /\ c = u * TailProduct(s, d)
      BY <3>1, PositiveTails, TailProducts
    <3>3. a \in Nat \ {0} /\ TailProduct(s, d) = b * a
      BY <3>1, PositiveTails, TailProducts
    <3>4. b \in Nat \ {0} /\ g \in Nat \ {0} /\ shape[d] = b * g
      BY <1>1
    <3>5. S(d) = a /\ R(d) = a
      BY <1>3, <3>1
    <3>6. j \in Nat
      BY <1>2
    <3> HIDE DEF u, a, b, g, n
    <3>7. c = u * (b * a)
      BY <3>2, <3>3
    <3>8. InnerSame(a, b, g, c, m, n, j)
      BY <1>2, <3>2, <3>3, <3>4, <3>6, <3>7, InnerIndex, Zenon
    <3>. QED BY <3>4, <3>5, <3>8, Zenon DEF b, InnerSame
  <2>. QED BY <1>1, <2>1, <2>2
<1>5. x \in Nat /\ x < Product(s)
  <2> DEFINE y == c * n
  <2>1. y \in Nat
    <3>1. c \in Nat /\ n \in Nat
      BY <1>2
    <3> HIDE DEF n
    <3>. QED BY <3>1, NaturalProduct, Zenon
  <2> HIDE DEF y
  <2>2. y + j \in Nat
    BY <1>2, <2>1
  <2>. QED BY <2>2 DEF y
<1>6. [d \in DOMAIN shape |-> (((o \div ComputeStrides(shape)[d]) % shape[d]) % s[d]) * ComputeStrides(s)[d]]
        = Coordinates(s, x)
  <2> HIDE DEF o, x
  <2>1. [d \in 1..Len(s) |-> (((o \div R(d)) % shape[d]) % s[d]) * S(d)]
          = [d \in 1..Len(s) |-> ((x \div S(d)) % s[d]) * S(d)]
    BY <1>4
  <2>. QED BY <1>1, <2>1 DEF S, R, Coordinates
<1> HIDE DEF x
<1>7. Sum(Coordinates(s, x)) = x
  BY <1>5, DigitsMakeNumber
<1>. QED BY <1>6, <1>7 DEF Source, ComesFrom, x

-----------------------------------------------------------------------------

\* A product that an int can hold is right.
LEMMA SmallProductIsExact ==
  ASSUME NEW s \in Seq(Int), Product(s) \in 1..IntLimit - 1
  PROVE  Accumulated(s) = Product(s)
<1> DEFINE a == Accumulated(s)
           b == Product(s)
<1>1. CASE s = <<>>
  BY <1>1, AccumulatedIsProduct, ProductOfFew
<1>2. CASE s # <<>>
  <2>1. PICK q \in Int : a = b + q * (2 * IntLimit)
    BY AccumulatedIsProduct
  <2>2. a \in -IntLimit..IntLimit - 1
    BY <1>2, AccumulatedIsProduct
  <2>3. b \in -IntLimit..IntLimit - 1
    BY TensorAssumption
  <2> HIDE DEF a, b
  <2>4. a = b
    BY <2>1, <2>2, <2>3, SameInt, Zenon
  <2>. QED BY <2>4 DEF a, b
<1>. QED BY <1>1, <1>2

\* A dimension of zero makes the product zero in an int, too.
LEMMA ZeroAccumulates ==
  ASSUME NEW s \in Seq(Int), NEW d \in 1..Len(s), s[d] = 0
  PROVE  Accumulated(s) = 0
<1>1. PICK v \in [0..Len(s) -> Int] :
        /\ v[0] = 1 /\ \A n \in 1..Len(s) : v[n] = ToInt(v[n - 1] * s[n])
        /\ Accumulated(s) = v[Len(s)]
  BY AccumulatedProducts
<1>2. Len(s) \in Nat /\ \A n \in 1..Len(s) : s[n] \in Int
  BY LenProperties
<1>3. ToInt(0) = 0
  <2>1. 0 \in -IntLimit..IntLimit - 1
    BY TensorAssumption
  <2>. QED BY <2>1, IntOfNumber
<1> DEFINE Zero == {n \in Nat : d + n <= Len(s) => v[d + n] = 0}
<1>4. 0 \in Zero
  <2>1. d + 0 = d /\ d - 1 \in 0..Len(s) /\ v[d - 1] \in Int
    <3>1. d + 0 = d /\ d - 1 \in 0..Len(s)
      BY <1>2
    <3>. QED BY <1>1, <3>1
  <2>2. v[d - 1] * s[d] = 0
    BY <2>1
  <2>. QED BY <1>1, <1>3, <2>1, <2>2
<1>5. ASSUME NEW n \in Nat, n \in Zero PROVE n + 1 \in Zero
  <2> SUFFICES ASSUME d + (n + 1) <= Len(s) PROVE v[d + (n + 1)] = 0
    OBVIOUS
  <2>1. d + (n + 1) \in 1..Len(s) /\ (d + (n + 1)) - 1 = d + n /\ d + n <= Len(s)
    BY <1>2
  <2>2. v[d + n] = 0
    BY <1>5, <2>1
  <2>3. 0 * s[d + (n + 1)] = 0
    BY <1>2, <2>1
  <2>4. v[d + (n + 1)] = ToInt(v[(d + (n + 1)) - 1] * s[d + (n + 1)])
    BY <1>1, <2>1, Zenon
  <2>. QED BY <1>3, <2>1, <2>2, <2>3, <2>4, Zenon
<1>6. Nat \subseteq Zero
  <2> HIDE DEF Zero
  <2>. QED BY <1>4, <1>5, Induction
<1>7. Len(s) - d \in Nat /\ d + (Len(s) - d) = Len(s) /\ d + (Len(s) - d) <= Len(s)
  BY <1>2
<1>. QED BY <1>1, <1>6, <1>7

\* A product that is not zero has no dimension of zero.
LEMMA DimensionsOfProduct ==
  ASSUME NEW s \in Seq(Int), NEW d \in 1..Len(s), s[d] = 0
  PROVE  Product(s) = 0
<1>1. d \in 1..Len(s) + 1 /\ 1 \in 1..Len(s) + 1 /\ d \in 1..Len(s) + 1 /\ d + 1 \in 1..Len(s) + 1
  BY LenProperties
<1>2. /\ TailProduct(s, d) = 0 * TailProduct(s, d + 1) /\ TailProduct(s, d + 1) \in Int
      /\ Product(s) = Product(SubSeq(s, 1, d - 1)) * TailProduct(s, d)
      /\ Product(SubSeq(s, 1, d - 1)) \in Int
  BY <1>1, TailProducts
<1>. QED BY <1>2

\* A number less than k times b has a quotient less than k.
LEMMA QuotientBound ==
  ASSUME NEW x \in Nat, NEW b \in Nat \ {0}, NEW k \in Nat, x < k * b
  PROVE  x \div b \in 0..k - 1
<1>1. PICK q \in Nat, r \in 0..b - 1 : x = b * q + r /\ x \div b = q
  BY Quotient
<1>2. q >= k => b * q >= k * b
  <2> SUFFICES ASSUME q >= k PROVE b * q >= k * b
    OBVIOUS
  <2>1. q - k \in Nat /\ b * q = k * b + b * (q - k)
    OBVIOUS
  <2>2. b * (q - k) \in Nat /\ k * b \in Nat
    BY <2>1
  <2> DEFINE y == b * (q - k)
             z == k * b
  <2>3. y \in Nat /\ z \in Nat /\ b * q = z + y
    BY <2>1, <2>2
  <2> HIDE DEF y, z
  <2>. QED BY <2>3 DEF z
<1> DEFINE y == b * q
           z == k * b
<1>3. y \in Nat /\ z \in Nat /\ x = y + r /\ x < z /\ (q >= k => y >= z)
  BY <1>1, <1>2
<1> HIDE DEF y, z
<1>4. ~(q >= k)
  BY <1>3
<1>. QED BY <1>1, <1>4

-----------------------------------------------------------------------------

FirstOther(f) == SelectInSeq(f, LAMBDA x : x # 1)

\* A call of Repeat that does not throw repeats one dimension at most.
LEMMA OneIsRepeated ==
  ASSUME NEW f \in Seq(Int), ~(Ones(f) < Len(f) - 1)
  PROVE  LET r == FirstOther(f)
         IN  /\ r = 0 => \A d \in 1..Len(f) : f[d] = 1
             /\ r # 0 => r \in 1..Len(f) /\ f[r] # 1 /\ \A d \in 1..Len(f) : d # r => f[d] = 1
<1> DEFINE I == {i \in 1..Len(f) : f[i] # 1}
           r == FirstOther(f)
           A == {d \in DOMAIN f : f[d] = 1}
<1>1. r = IF I # {} THEN Min(I) ELSE 0
  BY DEF FirstOther, SelectInSeq
<1>2. Len(f) \in Nat /\ DOMAIN f = 1..Len(f)
  BY LenProperties
<1>3. I # {} => Min(I) \in I
  <2>1. I \subseteq Nat
    BY <1>2
  <2> HIDE DEF I
  <2>. QED BY <2>1, MinInSet
<1>4. ASSUME r # 0, NEW d \in 1..Len(f), d # r, f[d] # 1 PROVE FALSE
  <2>1. r \in 1..Len(f) /\ f[r] # 1
    <3>1. I # {} /\ r \in I
      BY <1>1, <1>3, <1>4
    <3>. QED BY <3>1
  <2> DEFINE D == 1..Len(f)
  <2>2. IsFiniteSet(D) /\ Cardinality(D) = Len(f)
    <3>1. Cardinality(1..Len(f)) = IF 1 > Len(f) THEN 0 ELSE Len(f) - 1 + 1
      BY <1>2, FS_Interval
    <3>2. IsFiniteSet(1..Len(f))
      BY <1>2, FS_Interval
    <3>. QED BY <1>2, <3>1, <3>2
  <2>3. r \in D /\ d \in D \ {r} /\ A \subseteq (D \ {r}) \ {d}
    BY <1>2, <1>4, <2>1
  <2> HIDE DEF D, A, r
  <2>4. IsFiniteSet(D \ {r}) /\ Cardinality(D \ {r}) = Len(f) - 1
    BY <2>2, <2>3, FS_RemoveElement
  <2> DEFINE C == D \ {r}
  <2>5. IsFiniteSet(C) /\ Cardinality(C) = Len(f) - 1 /\ d \in C /\ A \subseteq C \ {d}
    BY <2>3, <2>4
  <2> HIDE DEF C
  <2>6. IsFiniteSet(C \ {d}) /\ Cardinality(C \ {d}) = (Len(f) - 1) - 1
    BY <2>5, FS_RemoveElement
  <2>7. Cardinality(A) <= Cardinality(C \ {d}) /\ Cardinality(A) \in Nat
    BY <2>5, <2>6, FS_Subset, FS_CardinalityType
  <2>. QED BY <1>2, <2>6, <2>7 DEF Ones, A
<1>5. r = 0 => I = {}
  BY <1>1, <1>3
<1>. QED BY <1>1, <1>3, <1>4, <1>5

\* A product of positive numbers is at least each of them.
LEMMA FactorsAreLess ==
  ASSUME NEW a \in Nat \ {0}, NEW b \in Nat \ {0}
  PROVE  a <= a * b /\ b <= a * b
<1>1. b - 1 \in Nat /\ a - 1 \in Nat /\ a * b = a + a * (b - 1) /\ a * b = b + b * (a - 1)
  OBVIOUS
<1>2. a * (b - 1) \in Nat /\ b * (a - 1) \in Nat
  BY <1>1
<1> DEFINE x == a * (b - 1)
           y == b * (a - 1)
           z == a * b
<1>3. x \in Nat /\ y \in Nat /\ z = a + x /\ z = b + y
  BY <1>1, <1>2
<1> HIDE DEF x, y, z
<1>4. a <= z /\ b <= z
  BY <1>3
<1>. QED BY <1>4 DEF z

\* The shape of the output has one dimension that is repeated, if any.
LEMMA OutputRepeats ==
  ASSUME NEW s \in Seq(Int), NEW f \in Seq(Int), Len(s) = Len(f), NEW r \in 1..Len(s),
         \A d \in 1..Len(f) : d # r => f[d] = 1
  PROVE  /\ Repeats(OutputShape(s, f), s, r, f[r])
         /\ Product(OutputShape(s, f)) = Product(s) * f[r] /\ Product(s) \in Int
<1> DEFINE shape == OutputShape(s, f)
<1>1. Len(s) \in Nat /\ DOMAIN s = 1..Len(s) /\ \A d \in 1..Len(s) : s[d] \in Int /\ f[d] \in Int
  BY LenProperties
<1>2. \A d \in 1..Len(s) : shape[d] = s[d] * f[d] /\ shape[d] \in Int
  BY <1>1 DEF OutputShape
<1>3. shape \in Seq(Int) /\ Len(shape) = Len(s)
  <2>1. shape \in [1..Len(s) -> Int]
    BY <1>1, <1>2 DEF OutputShape
  <2> HIDE DEF shape
  <2>. QED BY <1>1, <2>1, FunctionIsSequence
<1>4. Repeats(shape, s, r, f[r])
  <2>1. \A d \in 1..Len(s) : f[d] = IF d = r THEN f[r] ELSE 1
    BY <1>1
  <2> HIDE DEF shape
  <2>. QED BY <1>2, <1>3, <2>1 DEF Repeats
<1>5. Product(shape) = Product(s) * f[r]
  <2>1. 1 \in 1..Len(s) + 1 /\ 1 <= r /\ f[r] \in Int
    BY <1>1
  <2>2. TailProduct(shape, 1) = TailProduct(s, 1) * f[r]
    <3> HIDE DEF shape
    <3>. QED BY <1>4, <2>1, TailsOfRepeated
  <2> HIDE DEF shape
  <2>. QED BY <1>3, <2>2, TailProducts
<1>6. Product(s) \in Int
  BY ProductOfConcat
<1>. QED BY <1>4, <1>5, <1>6

\* The products of both parts of a shape that an int can hold are right.
LEMMA PartsAreExact ==
  ASSUME NEW s \in Seq(Int), \A d \in 1..Len(s) : s[d] >= 1, NEW r \in 1..Len(s),
         Product(s) <= IntLimit - 1
  PROVE  LET c == Accumulated(SubSeq(s, 1, r - 1))
             b == Accumulated(Block(s, r))
         IN  /\ c \in Nat \ {0} /\ b \in Nat \ {0} /\ b = TailProduct(s, r)
             /\ Product(s) = c * b /\ Accumulated(s) = Product(s)
<1> DEFINE t == SubSeq(s, 1, r - 1)
           u == SubSeq(s, r, Len(s))
           c == Product(t)
           b == Product(u)
<1>1. Len(s) \in Nat /\ \A d \in 1..Len(s) : s[d] \in Int
  BY LenProperties
<1>2. /\ r \in 1..Len(s) + 1 /\ 1 \in 1..Len(s) + 1 /\ r \in r..Len(s) + 1
      /\ \A i \in 1..r - 1 : s[i] \in Int
      /\ \A i \in r..Len(s) : s[i] \in Int
  BY <1>1
<1>3. t \in Seq(Int) /\ u \in Seq(Int)
  <2>1. t \in Seq(Int)
    BY <1>1, <1>2, SubSeqProperties
  <2>2. u \in Seq(Int)
    BY <1>1, <1>2, SubSeqProperties
  <2>. QED BY <2>1, <2>2
<1>4. c \in Nat \ {0} /\ b \in Nat \ {0} /\ b = TailProduct(s, r) /\ Product(s) = c * b
  BY <1>2, PositiveTails, TailProducts DEF TailProduct
<1> HIDE DEF b, c
<1>5. c <= c * b /\ b <= c * b
  BY <1>4, FactorsAreLess, Zenon
<1> DEFINE z == c * b
<1>6. c \in 1..IntLimit - 1 /\ b \in 1..IntLimit - 1 /\ Product(s) \in 1..IntLimit - 1
  <2>1. z \in Int /\ z = Product(s) /\ c <= z /\ b <= z
    BY <1>4, <1>5
  <2> HIDE DEF z
  <2>. QED BY <1>4, <2>1, TensorAssumption
<1>7. Accumulated(t) = c /\ Accumulated(u) = b /\ Accumulated(s) = Product(s)
  BY <1>3, <1>6, SmallProductIsExact DEF b, c
<1>. QED BY <1>4, <1>7 DEF Block

\* Where a tensor has elements, its dimensions are one at least, and the product
\* is no more than the one of the output, which is in an int.
LEMMA PartsOfRepeated ==
  ASSUME NEW s \in Seq(Int), \A d \in 1..Len(s) : s[d] >= 0, NEW f \in Seq(Int),
         Len(s) = Len(f), NEW r \in 1..Len(s), f[r] >= 1,
         \A d \in 1..Len(f) : d # r => f[d] = 1,
         Accumulated(OutputShape(s, f)) = Product(OutputShape(s, f)),
         Product(OutputShape(s, f)) # 0
  PROVE  (\A d \in 1..Len(s) : s[d] >= 1) /\ Product(s) <= IntLimit - 1
<1> DEFINE shape == OutputShape(s, f)
           p == Product(s)
<1>1. /\ shape \in Seq(Int) /\ Len(shape) = Len(s) /\ Product(shape) = p * f[r]
      /\ p \in Int /\ f[r] \in Nat \ {0}
  <2>1. f[r] \in Nat \ {0}
    BY LenProperties
  <2>. QED BY <2>1, OutputRepeats DEF Repeats
<1>2. p # 0
  <2>1. p = 0 => Product(shape) = 0
    <3> HIDE DEF shape, p
    <3>. QED BY <1>1
  <2>. QED BY <2>1
<1>3. \A d \in 1..Len(s) : s[d] >= 1
  <2>1. \A d \in 1..Len(s) : s[d] # 0
    BY <1>2, DimensionsOfProduct
  <2>. QED BY <2>1, LenProperties
<1>4. p >= 1
  <2>1. 1 \in {0, 1}
    OBVIOUS
  <2>. QED BY <1>3, <2>1, ProductSign
<1>5. p <= Product(shape)
  <2> HIDE DEF shape, p
  <2>1. p \in Nat \ {0}
    BY <1>1, <1>4
  <2>. QED BY <1>1, <2>1, FactorsAreLess, Zenon
<1>6. Product(shape) <= IntLimit - 1
  <2>1. shape # <<>>
    <3>1. Len(s) # 0
      BY LenProperties
    <3> HIDE DEF shape
    <3>. QED BY <1>1, <3>1
  <2>2. Product(shape) \in -IntLimit..IntLimit - 1
    <3> HIDE DEF shape
    <3>. QED BY <1>1, <2>1, AccumulatedIsProduct DEF shape
  <2>. QED BY <2>2, TensorAssumption
<1>7. p <= IntLimit - 1
  <2> DEFINE z == Product(shape)
  <2>1. z \in Int /\ p <= z /\ z <= IntLimit - 1
    <3>1. z \in Int
      <4> HIDE DEF shape, p
      <4>. QED BY <1>1
    <3>. QED BY <1>5, <1>6, <3>1
  <2> HIDE DEF z, p
  <2>. QED BY <1>1, <2>1, TensorAssumption
<1>. QED BY <1>3, <1>7

Copies(input, c, b, f) ==
  FlattenSeq([n \in 1..c * f |->
    SubSeq(input, ((n - 1) \div f) * b + 1, (((n - 1) \div f) + 1) * b)])

CopiedFrom(output, input, c, b, f) ==
  /\ Len(output) = (c * f) * b
  /\ \A m \in 0..c * f - 1, j \in 0..b - 1 :
       output[(b * m + j) + 1] = input[(b * (m \div f) + j) + 1]

\* Blocks of a sequence, each of them f times: where an element comes from.
LEMMA RepeatedBlocks ==
  ASSUME NEW E, NEW input \in Seq(E), NEW c \in Nat \ {0}, NEW b \in Nat, NEW f \in Nat \ {0},
         b # 0 => Len(input) = c * b
  PROVE  CopiedFrom(Copies(input, c, b, f), input, c, b, f)
<1> DEFINE output == Copies(input, c, b, f)
           k == c * f
           q(n) == (n - 1) \div f
           block(n) == SubSeq(input, q(n) * b + 1, (q(n) + 1) * b)
           seqs == [n \in 1..k |-> block(n)]
<1>1. k \in Nat /\ Len(input) \in Nat /\ \A i \in 1..Len(input) : input[i] \in E
  BY LenProperties
<1>2. ASSUME NEW n \in 1..k PROVE q(n) \in 0..c - 1
  <2>1. n - 1 \in Nat /\ n - 1 < c * f
    BY <1>1
  <2>. QED BY <2>1, QuotientBound
<1>3. ASSUME NEW n \in 1..k
      PROVE  /\ block(n) \in Seq(E) /\ Len(block(n)) = b
             /\ \A j \in 1..b : block(n)[j] = input[b * q(n) + j]
  <2> DEFINE p == q(n)
             low == p * b
  <2>1. p \in 0..c - 1
    BY <1>2
  <2>2. low \in Nat /\ (p + 1) * b = low + b /\ b * p = low
    <3> HIDE DEF p
    <3>. QED BY <2>1
  <2>3. b # 0 => low + b <= Len(input)
    <3> HIDE DEF p
    <3>1. c - 1 - p \in Nat /\ c * b = (p * b + b) + (c - 1 - p) * b
      BY <2>1
    <3>2. (c - 1 - p) * b \in Nat /\ c * b \in Nat
      <4> DEFINE y == c - 1 - p
      <4>1. y \in Nat
        BY <3>1
      <4> HIDE DEF y
      <4>2. y * b \in Nat /\ c * b \in Nat
        BY <4>1
      <4>. QED BY <4>2 DEF y
    <3> DEFINE x == (c - 1 - p) * b
               z == c * b
    <3>3. x \in Nat /\ z = (low + b) + x /\ (b # 0 => Len(input) = z)
      BY <3>1, <3>2
    <3> HIDE DEF x, z, low
    <3>. QED BY <2>2, <3>3
  <2> DEFINE first == low + 1
             last == low + b
             t == SubSeq(input, first, last)
  <2>4. block(n) = t
    BY <2>2
  <2> HIDE DEF low
  <2>5. first \in Int /\ last \in Int /\ \A i \in first..last : input[i] \in E
    BY <1>1, <2>2, <2>3
  <2>6. first = low + 1 /\ last = low + b
    OBVIOUS
  <2> HIDE DEF first, last
  <2>7. /\ t \in Seq(E) /\ Len(t) = IF first <= last THEN last - first + 1 ELSE 0
        /\ \A i \in 1..last - first + 1 : t[i] = input[first + i - 1]
    BY <2>5, SubSeqProperties
  <2> HIDE DEF t
  <2>8. Len(t) = b
    BY <2>2, <2>6, <2>7
  <2>9. \A j \in 1..b : t[j] = input[low + j]
    <3>1. \A j \in 1..b : j \in 1..last - first + 1 /\ first + j - 1 = low + j
      BY <2>2, <2>6
    <3>. QED BY <2>7, <3>1
  <2>. QED BY <2>2, <2>4, <2>7, <2>8, <2>9
<1>4. seqs \in Seq(Seq(E)) /\ Len(seqs) = k /\ \A n \in 1..Len(seqs) : Len(seqs[n]) = b
  <2> HIDE DEF block, k
  <2>1. seqs \in [1..k -> Seq(E)] /\ \A n \in 1..k : seqs[n] = block(n)
    BY <1>3
  <2> HIDE DEF seqs
  <2>2. seqs \in Seq(Seq(E)) /\ Len(seqs) = k
    BY <1>1, <2>1, FunctionIsSequence
  <2>. QED BY <1>3, <2>1, <2>2
<1>5. output = FlattenSeq(seqs)
  BY DEF Copies
<1> HIDE DEF seqs, output
<1>6. /\ Len(output) = Len(seqs) * b
      /\ \A n \in 1..Len(seqs), j \in 1..b : output[(n - 1) * b + j] = seqs[n][j]
  <2>1. LaidOut(FlattenSeq(seqs), seqs, b)
    BY <1>4, BlocksFlattened, Zenon
  <2>. QED BY <1>5, <2>1 DEF LaidOut
<1>7. ASSUME NEW m \in 0..k - 1, NEW j \in 0..b - 1
      PROVE  output[(b * m + j) + 1] = input[(b * (m \div f) + j) + 1]
  <2>1. m + 1 \in 1..k /\ j + 1 \in 1..b /\ (m + 1) - 1 = m
    BY <1>1
  <2>2. output[m * b + (j + 1)] = block(m + 1)[j + 1]
    <3>1. seqs[m + 1] = block(m + 1)
      BY <2>1 DEF seqs
    <3> HIDE DEF block, k
    <3>. QED BY <1>4, <1>6, <2>1, <3>1
  <2>3. block(m + 1)[j + 1] = input[b * (m \div f) + (j + 1)]
    <3>1. block(m + 1)[j + 1] = input[b * q(m + 1) + (j + 1)]
      <4> HIDE DEF block, q, k
      <4>. QED BY <1>3, <2>1, Zenon
    <3>2. q(m + 1) = m \div f
      BY <2>1
    <3>. QED BY <3>1, <3>2, Zenon
  <2>4. m * b + (j + 1) = (b * m + j) + 1
    <3>1. m * b = b * m /\ m * b \in Nat
      BY <1>1
    <3> DEFINE x == m * b
    <3>2. x \in Nat /\ b * m = x
      BY <3>1
    <3> HIDE DEF x
    <3>3. x + (j + 1) = (x + j) + 1
      BY <3>2
    <3>. QED BY <3>2, <3>3 DEF x
  <2>5. b * (m \div f) + (j + 1) = (b * (m \div f) + j) + 1
    <3>1. m \div f \in Nat
      <4>1. m \in Nat
        BY <1>1
      <4>. QED BY <4>1, Quotient
    <3> DEFINE d == m \div f
               x == b * d
    <3>2. d \in Nat
      BY <3>1
    <3> HIDE DEF d
    <3>3. x \in Nat
      BY <3>2
    <3> HIDE DEF x
    <3>4. x + (j + 1) = (x + j) + 1
      BY <3>3
    <3>. QED BY <3>4 DEF x, d
  <2>. QED BY <2>2, <2>3, <2>4, <2>5
<1>. QED BY <1>4, <1>6, <1>7 DEF output, CopiedFrom

HasPlace(o, c, b, g) ==
  \E m \in 0..c * g - 1, j \in 0..b - 1 :
    o = b * m + j /\ m \in Nat /\ b * (m \div g) + j < c * b

\* Every index of the result is a place in one of the copies of a block.
LEMMA PlaceInBlocks ==
  ASSUME NEW c \in Nat \ {0}, NEW b \in Nat \ {0}, NEW g \in Nat \ {0},
         NEW o \in 0..(c * g) * b - 1
  PROVE  HasPlace(o, c, b, g)
<1> DEFINE k == c * g
<1>1. k \in Nat
  OBVIOUS
<1>2. o \in Nat /\ o < k * b
  <2> DEFINE z == k * b
  <2>1. z \in Nat /\ o \in 0..z - 1
    OBVIOUS
  <2> HIDE DEF z
  <2>2. o \in Nat /\ o < z
    BY <2>1
  <2>. QED BY <2>2 DEF z
<1> HIDE DEF k
<1>3. PICK m \in Nat, j \in 0..b - 1 : o = b * m + j /\ o \div b = m
  BY <1>2, Quotient
<1>4. m \in 0..k - 1
  BY <1>1, <1>2, <1>3, QuotientBound
<1>5. m \div g \in 0..c - 1
  <2>1. m < c * g
    BY <1>1, <1>4 DEF k
  <2>. QED BY <2>1, QuotientBound
<1> DEFINE n == m \div g
<1>6. n \in 0..c - 1
  BY <1>5
<1> HIDE DEF n
<1>7. b * n + j < c * b
  <2> DEFINE y == c - 1 - n
  <2>1. y \in Nat /\ n \in Nat /\ c = (n + 1) + y
    BY <1>6
  <2> HIDE DEF y
  <2>2. c * b = (b * n + b) + y * b /\ y * b \in Nat /\ b * n \in Nat
    BY <2>1
  <2> DEFINE x == y * b
             w == b * n
             z == c * b
  <2>3. x \in Nat /\ w \in Nat /\ z = (w + b) + x
    BY <2>2
  <2> HIDE DEF x, w, z
  <2>4. w + j < z
    BY <2>3
  <2>. QED BY <2>4 DEF w, z
<1>. QED BY <1>3, <1>4, <1>7 DEF HasPlace, k, n

IsTorchRepeat(output, input, s, shape) ==
  /\ Len(output) = Product(shape)
  /\ \A o \in 0..Len(output) - 1 : output[o + 1] = input[Source(s, shape, o) + 1]

\* Nothing is repeated.
LEMMA NothingRepeated ==
  ASSUME NEW E, NEW input \in Seq(E), NEW s \in Seq(Int), \A d \in 1..Len(s) : s[d] >= 0,
         NEW f \in Seq(Int), Len(s) = Len(f), Len(f) # 0, \A d \in 1..Len(f) : f[d] = 1,
         Accumulated(s) = Len(input),
         Accumulated(OutputShape(s, f)) = Product(OutputShape(s, f))
  PROVE  IsTorchRepeat(input, input, s, OutputShape(s, f))
<1> DEFINE shape == OutputShape(s, f)
<1>1. Len(s) \in Nat /\ 1 \in 1..Len(s) /\ f[1] = 1
  BY LenProperties
<1>2. Repeats(shape, s, 1, 1) /\ Product(shape) = Product(s) * 1 /\ Product(s) \in Int
  BY <1>1, OutputRepeats
<1>3. shape = s
  <2> HIDE DEF shape
  <2>1. shape \in Seq(Int) /\ Len(shape) = Len(s)
    BY <1>2 DEF Repeats
  <2>2. \A d \in 1..Len(s) : s[d] * 1 = s[d]
    BY LenProperties
  <2>3. \A d \in 1..Len(s) : shape[d] = s[d]
    BY <1>2, <2>2 DEF Repeats
  <2>. QED BY <2>1, <2>3, SeqEqual
<1> HIDE DEF shape
<1>4. Len(input) = Product(shape) /\ Product(shape) = Product(s) /\ Len(input) \in Nat
  BY <1>2, <1>3, LenProperties DEF shape
<1>5. ASSUME NEW o \in 0..Len(input) - 1 PROVE input[o + 1] = input[Source(s, shape, o) + 1]
  <2> DEFINE c == TailProduct(s, 1)
  <2>1. c = Product(s) /\ c \in Nat \ {0} /\ o \in 0..c - 1 /\ o < Product(s)
    BY <1>4, TailProducts
  <2>2. \A d \in 1..Len(s) : s[d] >= 1
    <3>1. \A d \in 1..Len(s) : s[d] # 0
      BY <2>1, DimensionsOfProduct
    <3>. QED BY <3>1, LenProperties
  <2> HIDE DEF c
  <2>3. c * 0 = 0 /\ 0 \div 1 = 0 /\ 0 + o = o /\ o \in Nat
    BY <2>1
  <2>4. c * (0 \div 1) + o < Product(s)
    BY <2>1, <2>3, Zenon
  <2>5. ComesFrom(s, shape, c, 0, 1, o)
    <3>1. 1 \in Nat \ {0} /\ 0 \in Nat
      OBVIOUS
    <3>. QED BY <1>1, <1>2, <2>1, <2>2, <2>4, <3>1, SourceOfIndex, Zenon DEF c
  <2>6. Source(s, shape, o) = o
    BY <2>3, <2>5, Zenon DEF ComesFrom
  <2>. QED BY <2>6
<1>. QED BY <1>4, <1>5 DEF IsTorchRepeat, shape

\* One dimension is, in a tensor that has elements.
LEMMA ElementsRepeated ==
  ASSUME NEW E, NEW input \in Seq(E), NEW s \in Seq(Int), \A d \in 1..Len(s) : s[d] >= 1,
         NEW f \in Seq(Int), Len(s) = Len(f), NEW r \in 1..Len(s), f[r] >= 1,
         \A d \in 1..Len(f) : d # r => f[d] = 1,
         Product(s) <= IntLimit - 1, Accumulated(s) = Len(input),
         NEW c, c = Accumulated(SubSeq(s, 1, r - 1)), NEW b, b = Accumulated(Block(s, r)),
         NEW g, g = f[r], NEW output, output = Copies(input, c, b, g)
  PROVE  IsTorchRepeat(output, input, s, OutputShape(s, f))
<1> DEFINE shape == OutputShape(s, f)
<1>1. /\ c \in Nat \ {0} /\ b \in Nat \ {0} /\ b = TailProduct(s, r)
      /\ Product(s) = c * b /\ Len(input) = c * b
  BY PartsAreExact
<1>2. g \in Nat \ {0}
  BY LenProperties
<1>3. Repeats(shape, s, r, g) /\ Product(shape) = Product(s) * g
  BY OutputRepeats
<1> HIDE DEF shape
<1>4. CopiedFrom(output, input, c, b, g)
  <2>1. b \in Nat /\ (b # 0 => Len(input) = c * b)
    BY <1>1
  <2>. QED BY <1>1, <1>2, <2>1, RepeatedBlocks, Zenon
<1>5. Len(output) = Product(shape)
  <2>1. (c * g) * b = (c * b) * g
    BY <1>1, <1>2
  <2>. QED BY <1>1, <1>3, <1>4, <2>1 DEF CopiedFrom
<1>6. ASSUME NEW o \in 0..Len(output) - 1
      PROVE  output[o + 1] = input[Source(s, shape, o) + 1]
  <2>1. Len(output) = (c * g) * b
    BY <1>4 DEF CopiedFrom
  <2>2. PICK m \in 0..c * g - 1, j \in 0..b - 1 :
          o = b * m + j /\ m \in Nat /\ b * (m \div g) + j < c * b
    <3>1. o \in 0..(c * g) * b - 1
      BY <2>1
    <3>2. HasPlace(o, c, b, g)
      BY <1>1, <1>2, <3>1, PlaceInBlocks, Zenon
    <3>. QED BY <3>2, Zenon DEF HasPlace
  <2>3. b * (m \div g) + j < Product(s)
    BY <1>1, <2>2, Zenon
  <2>4. ComesFrom(s, shape, b, m, g, j)
    BY <1>1, <1>2, <1>3, <2>2, <2>3, SourceOfIndex, Zenon
  <2>5. output[(b * m + j) + 1] = input[(b * (m \div g) + j) + 1]
    BY <1>4, <2>2, Zenon DEF CopiedFrom
  <2>. QED BY <2>2, <2>4, <2>5, Zenon DEF ComesFrom
<1>. QED BY <1>5, <1>6, Zenon DEF IsTorchRepeat, shape

\* A tensor that has none.
LEMMA NoElementsRepeated ==
  ASSUME NEW E, NEW input \in Seq(E), NEW s \in Seq(Int), NEW r \in 1..Len(s), NEW g \in Nat \ {0},
         NEW d \in 1..Len(s), s[d] = 0,
         NEW c \in Nat \ {0}, c = Accumulated(SubSeq(s, 1, r - 1)),
         NEW b, b = Accumulated(Block(s, r))
  PROVE  Len(Copies(input, c, b, g)) = 0
<1> DEFINE t == SubSeq(s, 1, r - 1)
           u == SubSeq(s, r, Len(s))
<1>1. Len(s) \in Nat /\ \A i \in 1..Len(s) : s[i] \in Int
  BY LenProperties
<1>2. (\A i \in 1..r - 1 : s[i] \in Int) /\ (\A i \in r..Len(s) : s[i] \in Int)
      /\ 1 \in Int /\ r - 1 \in Int
  BY <1>1
<1>3. /\ t \in Seq(Int) /\ Len(t) = IF 1 <= r - 1 THEN (r - 1) - 1 + 1 ELSE 0
      /\ \A i \in 1..(r - 1) - 1 + 1 : t[i] = s[1 + i - 1]
  BY <1>2, SubSeqProperties
<1>4. /\ u \in Seq(Int) /\ Len(u) = IF r <= Len(s) THEN Len(s) - r + 1 ELSE 0
      /\ \A i \in 1..Len(s) - r + 1 : u[i] = s[r + i - 1]
  BY <1>1, <1>2, SubSeqProperties, SMTT(30)
<1>5. c = Accumulated(t) /\ b = Accumulated(u)
  BY DEF Block
<1> HIDE DEF t, u
<1>6. d >= r
  <2> SUFFICES ASSUME d < r PROVE FALSE
    BY <1>1
  <2>1. d \in 1..(r - 1) - 1 + 1 /\ d \in 1..Len(t) /\ 1 + d - 1 = d
    BY <1>1, <1>3
  <2>2. t[d] = 0
    BY <1>3, <2>1
  <2>3. Accumulated(t) = 0
    BY <1>3, <2>1, <2>2, ZeroAccumulates
  <2>. QED BY <1>5, <2>3
<1>7. b = 0
  <2> DEFINE i == d - r + 1
  <2>1. i \in 1..Len(s) - r + 1 /\ i \in 1..Len(u) /\ r + i - 1 = d
    BY <1>1, <1>4, <1>6
  <2> HIDE DEF i
  <2>2. u[i] = 0
    BY <1>4, <2>1
  <2>3. Accumulated(u) = 0
    BY <1>4, <2>1, <2>2, ZeroAccumulates
  <2>. QED BY <1>5, <2>3
<1>8. CopiedFrom(Copies(input, c, b, g), input, c, b, g)
  <2>1. b \in Nat /\ (b # 0 => Len(input) = c * b)
    BY <1>7
  <2>. QED BY <2>1, RepeatedBlocks, Zenon
<1>9. (c * g) * 0 = 0
  OBVIOUS
<1>. QED BY <1>7, <1>8, <1>9 DEF CopiedFrom

\* Repeat, where it does not throw, copies as torch does, whatever the tensor and
\* the factors, also those with whose product the int overflows.
LEMMA RepeatedLikeTorch ==
  ASSUME NEW E, NEW input \in Seq(E), NEW s \in Seq(Int), \A d \in 1..Len(s) : s[d] >= 0,
         NEW f \in Seq(Int)
  PROVE  RepeatIsTorchRepeat(input, s, f)
<1> DEFINE shape == OutputShape(s, f)
           output == Repeat(input, s, f)
           r == FirstOther(f)
           c == Accumulated(SubSeq(s, 1, r - 1))
           b == Accumulated(Block(s, r))
           g == f[r]
<1>1. output = CASE r = 0 -> input
                 [] r # 0 /\ (c <= 0 \/ g <= 0) -> <<>>
                 [] OTHER -> Copies(input, c, b, g)
  BY DEF Repeat, FirstOther, Copies
<1>2. SUFFICES ASSUME ~RepeatThrows(input, s, f) PROVE IsTorchRepeat(output, input, s, shape)
  BY Zenon DEF RepeatIsTorchRepeat, IsTorchRepeat, Source
<1>3. /\ Len(s) = Len(f) /\ Product(shape) >= 0
      /\ Accumulated(s) = Len(input) /\ Accumulated(shape) = Product(shape)
      /\ f # <<>> /\ ~(Ones(f) < Len(f) - 1)
  <2> HIDE DEF shape
  <2>1. /\ ~(Len(s) # Len(f)) /\ ~(Product(shape) < 0)
        /\ ~(Accumulated(s) # Len(input)) /\ ~(Accumulated(shape) # Product(shape))
        /\ ~(f = <<>> \/ Ones(f) < Len(f) - 1)
    BY <1>2, Zenon DEF RepeatThrows, shape
  <2>2. Len(s) = Len(f) => Product(shape) \in Int
    <3> SUFFICES ASSUME Len(s) = Len(f) PROVE Product(shape) \in Int
      OBVIOUS
    <3>1. shape \in [1..Len(s) -> Int] /\ Len(s) \in Nat
      <4>1. Len(s) \in Nat /\ DOMAIN s = 1..Len(s) /\ \A d \in 1..Len(s) : s[d] \in Int /\ f[d] \in Int
        BY LenProperties
      <4>2. \A d \in 1..Len(s) : s[d] * f[d] \in Int
        BY <4>1
      <4>. QED BY <4>1, <4>2 DEF shape, OutputShape
    <3>2. shape \in Seq(Int)
      BY <3>1, FunctionIsSequence
    <3>. QED BY <3>2, ProductOfConcat
  <2>. QED BY <2>1, <2>2
<1>4. Len(f) \in Nat \ {0} /\ \A d \in 1..Len(f) : f[d] \in Int
  BY <1>3, EmptySeq, LenProperties
<1>5. /\ r = 0 => \A d \in 1..Len(f) : f[d] = 1
      /\ r # 0 => r \in 1..Len(f) /\ g # 1 /\ \A d \in 1..Len(f) : d # r => f[d] = 1
  BY <1>3, OneIsRepeated
<1> HIDE DEF shape, output, r, c, b, g
<1>6. CASE r = 0
  <2>1. \A d \in 1..Len(f) : f[d] = 1
    BY <1>5, <1>6
  <2>2. output = input
    BY <1>1, <1>6
  <2>3. IsTorchRepeat(input, input, s, shape)
    BY <1>3, <1>4, <2>1, NothingRepeated DEF shape
  <2>. QED BY <2>2, <2>3
<1>7. CASE r # 0
  <2>1. r \in 1..Len(s) /\ (\A d \in 1..Len(f) : d # r => f[d] = 1) /\ g \in Int /\ g = f[r]
    BY <1>3, <1>4, <1>5, <1>7 DEF g
  <2>2. Product(shape) = Product(s) * g /\ Product(s) \in Int /\ Product(s) >= 0
    <3>1. Product(shape) = Product(s) * g /\ Product(s) \in Int
      BY <1>3, <2>1, OutputRepeats DEF shape
    <3>2. 0 \in {0, 1}
      OBVIOUS
    <3>3. Product(s) >= 0
      BY <3>2, ProductSign
    <3>. QED BY <3>1, <3>3
  <2>3. ASSUME g >= 1, Product(shape) # 0
        PROVE  (\A d \in 1..Len(s) : s[d] >= 1) /\ Product(s) <= IntLimit - 1
    BY <1>3, <2>1, <2>3, PartsOfRepeated DEF shape
  <2>4. c \in Int
    <3>1. \A i \in 1..r - 1 : s[i] \in Int
      BY <2>1, LenProperties
    <3>2. r - 1 \in Int /\ 1 \in Int
      BY <2>1
    <3>3. SubSeq(s, 1, r - 1) \in Seq(Int)
      BY <3>1, <3>2, SubSeqProperties
    <3>. QED BY <3>3, AccumulatedIsProduct DEF c
  <2>5. CASE c <= 0 \/ g <= 0
    <3>1. output = <<>>
      BY <1>1, <1>7, <2>5
    <3>2. Product(shape) = 0
      <4>1. CASE g <= 0
        <5> DEFINE p == Product(s)
                   z == Product(shape)
                   h == -g
        <5>1. p \in Nat /\ h \in Nat /\ z = p * g /\ g = -h /\ z >= 0
          BY <1>3, <2>1, <2>2, <4>1
        <5> HIDE DEF p, z, h
        <5>2. z = -(p * h) /\ p * h \in Nat
          BY <5>1
        <5> DEFINE x == p * h
        <5>3. x \in Nat /\ z = -x
          BY <5>2
        <5> HIDE DEF x
        <5>. QED BY <5>1, <5>3 DEF z
      <4>2. CASE g >= 1
        <5> SUFFICES ASSUME Product(shape) # 0 PROVE FALSE
          OBVIOUS
        <5>1. (\A d \in 1..Len(s) : s[d] >= 1) /\ Product(s) <= IntLimit - 1
          BY <2>3, <4>2
        <5>2. c \in Nat \ {0}
          BY <2>1, <5>1, PartsAreExact DEF c
        <5>. QED BY <2>5, <4>2, <5>2, <2>1
      <4>. QED BY <2>1, <4>1, <4>2
    <3>. QED BY <3>1, <3>2 DEF IsTorchRepeat
  <2>6. CASE ~(c <= 0 \/ g <= 0)
    <3>1. c \in Nat \ {0} /\ g \in Nat \ {0} /\ g >= 1
      BY <2>1, <2>4, <2>6
    <3>2. output = Copies(input, c, b, g)
      BY <1>1, <1>7, <2>6
    <3>3. CASE Product(shape) # 0
      <4>1. (\A d \in 1..Len(s) : s[d] >= 1) /\ Product(s) <= IntLimit - 1
        BY <2>3, <3>1, <3>3
      <4>2. f[r] >= 1 /\ Len(s) = Len(f) /\ Accumulated(s) = Len(input)
        BY <1>3, <2>1, <3>1
      <4>. QED BY <2>1, <3>2, <4>1, <4>2, ElementsRepeated DEF shape, b, c
    <3>4. CASE Product(shape) = 0
      <4>1. \E d \in 1..Len(s) : s[d] = 0
        <5> SUFFICES ASSUME \A d \in 1..Len(s) : s[d] # 0 PROVE FALSE
          OBVIOUS
        <5>1. 1 \in {0, 1} /\ \A d \in 1..Len(s) : s[d] >= 1
          BY LenProperties
        <5>2. Product(s) >= 1
          BY <5>1, ProductSign
        <5> DEFINE p == Product(s)
        <5>3. p \in Nat \ {0} /\ p * g = 0
          BY <2>2, <3>4, <5>2
        <5> HIDE DEF p
        <5>4. p <= p * g
          BY <3>1, <5>3, FactorsAreLess, Zenon
        <5>. QED BY <5>3, <5>4
      <4>2. Len(output) = 0
        <5>1. PICK d \in 1..Len(s) : s[d] = 0
          BY <4>1
        <5>2. c = Accumulated(SubSeq(s, 1, r - 1)) /\ b = Accumulated(Block(s, r))
          BY DEF b, c
        <5>3. Len(Copies(input, c, b, g)) = 0
          <6>1. r \in 1..Len(s) /\ g \in Nat \ {0} /\ c \in Nat \ {0} /\ s[d] = 0
            BY <2>1, <3>1, <5>1
          <6>. QED BY <5>2, <6>1, NoElementsRepeated
        <5>. QED BY <3>2, <5>3
      <4>. QED BY <3>4, <4>2 DEF IsTorchRepeat
    <3>. QED BY <3>3, <3>4
  <2>. QED BY <2>5, <2>6
<1>. QED BY <1>6, <1>7

\* onnxruntime-tensor: no function on shapes and no copy loses an element or
\* puts it where it does not belong, overflow of the products included. Of
\* the strides of a shape without dimensions, in front of which the code
\* writes, it says nothing.
THEOREM TensorsKeepElementsAlways == LibrarySpec => []TensorsKeepElements
<1>1. CallInv => TensorsKeepElements
  <2> SUFFICES ASSUME CallInv PROVE TensorsKeepElements
    OBVIOUS
  <2>1. ASSUME call.fn = "shape"
        PROVE  call.shape \in Seq(Int) /\ call.axis \in Int /\ call.other \in Seq(Int)
    <3>1. PICK s \in TensorShapes, o \in Shapes, a \in Axes :
            call = [fn |-> "shape", shape |-> s, axis |-> a, other |-> o]
      BY <2>1 DEF CallInv, NoCall
    <3>2. call.shape = s /\ call.axis = a /\ call.other = o
      BY <3>1
    <3>. QED BY <3>2, LibrariesAssumption DEF TensorShapes
  <2>2. call.fn = "shape" => ShapesKeepElements(call.shape, call.axis, call.other)
    BY <2>1, ShapesAreKept, Zenon
  <2>3. ASSUME call.fn = "repeat"
        PROVE  RepeatIsTorchRepeat(call.input, call.shape, call.factors)
    <3>1. PICK s \in TensorShapes, f \in Factors, n \in Nat :
            call = [fn |-> "repeat", input |-> [i \in 1..n |-> i], shape |-> s, factors |-> f]
      BY <2>3 DEF CallInv, NoCall
    <3> DEFINE input == [i \in 1..n |-> i]
    <3>2. input \in Seq(Nat)
      <4>1. input \in [1..n -> Nat]
        OBVIOUS
      <4>. QED BY <4>1, FunctionIsSequence
    <3> HIDE DEF input
    <3>3. s \in Seq(Int) /\ (\A d \in 1..Len(s) : s[d] >= 0) /\ f \in Seq(Int)
      BY LibrariesAssumption, LenProperties DEF TensorShapes
    <3>4. RepeatIsTorchRepeat(input, s, f)
      BY <3>2, <3>3, RepeatedLikeTorch
    <3>5. call.input = input /\ call.shape = s /\ call.factors = f
      BY <3>1 DEF input
    <3>. QED BY <3>4, <3>5
  <2>4. ASSUME call.fn = "topk"
        PROVE  call.values \in Seq(Nat) /\ call.k \in Nat \ {0}
    <3>1. PICK v \in Arrays, k \in Ks : call = [fn |-> "topk", values |-> v, k |-> k]
      BY <2>4 DEF CallInv, NoCall
    <3>2. call.values = v /\ call.k = k
      BY <3>1
    <3>. QED BY <3>2, LibrariesAssumption
  <2>5. call.fn = "topk" => TopKIsStable(call.values, call.k)
    BY <2>4, BestAreFound, Zenon
  <2>. QED BY <2>2, <2>3, <2>5, Zenon DEF TensorsKeepElements
<1>. QED BY <1>1, CallsHaveArguments, PTL

-----------------------------------------------------------------------------
(* Files in RIFF format.                                                   *)

\* Where the loop over the chunks ends is the first chunk of data, with no
\* chunk of odd size before it.
LEMMA DataChunkFound ==
  ASSUME NEW E, NEW chunks \in Seq(E)
  PROVE  /\ DataChunk(chunks) \in 0..Len(chunks)
         /\ DataChunk(chunks) # 0 => chunks[DataChunk(chunks)].id = "data"
         /\ \A j \in 1..DataChunk(chunks) - 1 : chunks[j].id # "data" /\ chunks[j].size % 2 # 1
         /\ \A k \in 1..Len(chunks) :
              chunks[k].id = "data" /\ (\A j \in 1..k - 1 : chunks[j].id # "data" /\ chunks[j].size % 2 # 1)
                => DataChunk(chunks) = k
<1> DEFINE I == {i \in 1..Len(chunks) : chunks[i].id = "data" \/ chunks[i].size % 2 = 1}
           at == IF I # {} THEN Min(I) ELSE 0
<1>0. Len(chunks) \in Nat
  BY LenProperties
<1>1. DataChunk(chunks) = IF at > 0 /\ chunks[at].id = "data" THEN at ELSE 0
  BY DEF DataChunk, SelectInSeq
<1>2. I # {} => Min(I) \in I /\ \A i \in I : Min(I) <= i
  <2>1. I \subseteq Nat
    OBVIOUS
  <2> HIDE DEF I
  <2>. QED BY <2>1, MinInSet
<1>3. at \in 0..Len(chunks) /\ (at > 0 => at \in I /\ \A i \in I : at <= i)
  BY <1>0, <1>2
<1>4. ASSUME NEW k \in 1..Len(chunks), chunks[k].id = "data",
             \A j \in 1..k - 1 : chunks[j].id # "data" /\ chunks[j].size % 2 # 1
      PROVE  at = k
  <2>1. k \in I
    BY <1>4
  <2>2. at \in I /\ at <= k /\ at \in 1..Len(chunks)
    BY <1>2, <2>1
  <2>3. at \notin 1..k - 1
    BY <1>4, <2>2
  <2>. QED BY <2>2, <2>3
<1>5. at > 0 => \A j \in 1..at - 1 : chunks[j].id # "data" /\ chunks[j].size % 2 # 1
  <2> SUFFICES ASSUME at > 0, NEW j \in 1..at - 1
               PROVE  chunks[j].id # "data" /\ chunks[j].size % 2 # 1
    OBVIOUS
  <2>1. j \in 1..Len(chunks) /\ ~(at <= j)
    BY <1>0, <1>3
  <2>2. j \notin I
    BY <1>3, <2>1
  <2> HIDE DEF at
  <2>. QED BY <2>1, <2>2
<1> HIDE DEF at, I
<1>6. DataChunk(chunks) \in {0, at} /\ at \in Nat /\ (at > 0 /\ chunks[at].id = "data" => DataChunk(chunks) = at)
  BY <1>0, <1>1, <1>3
<1>7. DataChunk(chunks) \in 0..Len(chunks) /\ (DataChunk(chunks) # 0 => chunks[DataChunk(chunks)].id = "data")
  BY <1>0, <1>1, <1>3
<1>8. ASSUME NEW j \in 1..DataChunk(chunks) - 1
      PROVE  chunks[j].id # "data" /\ chunks[j].size % 2 # 1
  <2>1. at > 0 /\ j \in 1..at - 1
    BY <1>6
  <2>. QED BY <1>5, <2>1
<1>9. ASSUME NEW k \in 1..Len(chunks), chunks[k].id = "data",
             \A j \in 1..k - 1 : chunks[j].id # "data" /\ chunks[j].size % 2 # 1
      PROVE  DataChunk(chunks) = k
  <2>1. at = k
    BY <1>4, <1>9
  <2>2. k > 0
    OBVIOUS
  <2>. QED BY <1>6, <1>9, <2>1, <2>2
<1>. QED BY <1>7, <1>8, <1>9

\* DataOf is what the chunk that was found holds.
LEMMA DataOfChunk ==
  ASSUME NEW f \in WaveFiles, DataChunk(f.chunks) # 0
  PROVE  /\ DataOf(f) = f.chunks[DataChunk(f.chunks)].numbers /\ DataOf(f) \in Seq(Nat)
         /\ f.chunks[DataChunk(f.chunks)].size \in Nat
<1> DEFINE E == [id : ChunkIds, size : Nat, numbers : Seq(Nat)]
           chunks == f.chunks
           k == DataChunk(chunks)
           I == {i \in 1..Len(chunks) : chunks[i].id = "data"}
           at == IF I # {} THEN Min(I) ELSE 0
<1>1. chunks \in Seq(E)
  BY DEF WaveFiles
<1>2. DataOf(f) = IF at = 0 THEN <<>> ELSE chunks[at].numbers
  BY DEF DataOf, SelectInSeq
<1>3. /\ k \in 1..Len(chunks) /\ chunks[k].id = "data"
      /\ \A j \in 1..k - 1 : chunks[j].id # "data"
  <2>1. /\ k \in 0..Len(chunks) /\ chunks[k].id = "data"
        /\ \A j \in 1..k - 1 : chunks[j].id # "data"
    BY <1>1, DataChunkFound
  <2>. QED BY <2>1, LenProperties
<1>4. k \in I /\ Min(I) \in I /\ Min(I) <= k
  <2>1. k \in I /\ I \subseteq Nat
    BY <1>3
  <2> HIDE DEF I
  <2>. QED BY <2>1, MinInSet
<1>5. at = k
  <2>1. at \in I /\ at <= k
    BY <1>4
  <2>2. at \notin 1..k - 1
    BY <1>3, <2>1
  <2>. QED BY <1>3, <2>1, <2>2
<1>6. chunks[k] \in E
  BY <1>1, <1>3, ElementOfSeq
<1> HIDE DEF at
<1>7. chunks[k].numbers \in Seq(Nat) /\ chunks[k].size \in Nat
  BY <1>6
<1>. QED BY <1>2, <1>3, <1>5, <1>7

\* The bytes behind a chunk are so many.
LEMMA BehindIsNat ==
  ASSUME NEW f \in WaveFiles, NEW at \in 1..Len(f.chunks)
  PROVE  BytesBehind(f.chunks, at) \in Nat
<1> DEFINE E == [id : ChunkIds, size : Nat, numbers : Seq(Nat)]
           chunks == f.chunks
           n == Len(chunks) - at
           part(i) == (chunks[at + i - 1].size % 2) + 8 + chunks[at + i].size
           t == [i \in 1..n |-> part(i)]
<1>1. chunks \in Seq(E)
  BY DEF WaveFiles
<1>2. Len(chunks) \in Nat /\ \A k \in 1..Len(chunks) : chunks[k].size \in Nat
  <2>1. \A k \in 1..Len(chunks) : chunks[k] \in E
    BY <1>1, ElementOfSeq
  <2>. QED BY <1>1, <2>1, LenProperties
<1> HIDE DEF chunks
<1>3. n \in Nat /\ \A i \in 1..n : at + i - 1 \in 1..Len(chunks) /\ at + i \in 1..Len(chunks)
  BY <1>2 DEF chunks
<1>4. \A i \in 1..n : part(i) \in Int /\ part(i) >= 0
  <2> SUFFICES ASSUME NEW i \in 1..n PROVE part(i) \in Int /\ part(i) >= 0
    OBVIOUS
  <2>1. \A a, b \in Nat : (a % 2) + 8 + b \in Int /\ (a % 2) + 8 + b >= 0
    OBVIOUS
  <2>2. chunks[at + i - 1].size \in Nat /\ chunks[at + i].size \in Nat
    BY <1>2, <1>3
  <2>. QED BY <2>1, <2>2
<1> HIDE DEF n, part
<1>5. t \in [1..n -> Int] /\ \A i \in 1..n : t[i] >= 0
  BY <1>4
<1>6. t \in Seq(Int) /\ Len(t) = n
  <2> HIDE DEF t
  <2>. QED BY <1>3, <1>5, FunctionIsSequence
<1>7. Sum(t) \in Nat
  <2> HIDE DEF t
  <2>. QED BY <1>5, <1>6, SumSign
<1>. QED BY <1>7 DEF BytesBehind, Sum, t, n, part, chunks

\* What is there to be read begins with the numbers of the chunk, and the rest is
\* foreign.
Begins(s, t) ==
  /\ Len(s) <= Len(t)
  /\ \A i \in 1..Len(t) : t[i] = IF i <= Len(s) THEN s[i] ELSE Foreign

\* x has the numbers of s where they are, and behind them nothing that is new.
AsFarAsThere(s, x) ==
  \A i \in DOMAIN x :
    IF i <= Len(s) THEN x[i] = s[i] ELSE x[i] \in ToSet(s) \cup {Undefined, Foreign}

\* What fread finds begins with the numbers of the chunk.
LEMMA WhatIsThere ==
  ASSUME NEW s \in Seq(Nat), NEW bytes \in Nat, NEW width \in Nat \ {0}
  PROVE  ToTheEnd(s, bytes, width) \in Seq(Int) /\ Begins(s, ToTheEnd(s, bytes, width))
<1> DEFINE n == (bytes + width - 1) \div width
           u == [i \in 1..n |-> Foreign]
<1>1. n \in Nat
  <2>1. \A a \in Nat, b \in Nat \ {0} : a \div b \in Nat
    OBVIOUS
  <2>2. bytes + width - 1 \in Nat
    OBVIOUS
  <2>. QED BY <2>1, <2>2
<1> HIDE DEF n
<1>2. u \in Seq(Int) /\ Len(u) = n /\ \A i \in 1..n : u[i] = Foreign
  BY <1>1 DEF Foreign
<1>3. s \in Seq(Int) /\ Len(s) \in Nat
  BY LenProperties
<1> HIDE DEF u
<1>4. s \o u \in Seq(Int) /\ Len(s \o u) = Len(s) + n
  BY <1>2, <1>3
<1>5. \A i \in 1..Len(s) + n : (s \o u)[i] = IF i <= Len(s) THEN s[i] ELSE u[i - Len(s)]
  BY <1>2, <1>3
<1>6. \A i \in 1..Len(s) + n : ~(i <= Len(s)) => i - Len(s) \in 1..n
  BY <1>1, <1>3
<1>7. ToTheEnd(s, bytes, width) = s \o u
  BY DEF ToTheEnd, u, n
<1> DEFINE t == s \o u
<1>8. /\ t \in Seq(Int) /\ Len(s) <= Len(t)
      /\ \A i \in 1..Len(t) : t[i] = IF i <= Len(s) THEN s[i] ELSE Foreign
  BY <1>1, <1>2, <1>3, <1>4, <1>5, <1>6
<1>. QED BY <1>7, <1>8 DEF Begins

\* Numbers that are read where as many are stored are those; of fewer, those that
\* are there are in their places.
LEMMA WhatIsRead ==
  ASSUME NEW s \in Seq(Nat), NEW t \in Seq(Int), Begins(s, t), NEW n \in Nat
  PROVE  /\ n = Len(s) => FreshReads(t, n) = s /\ KeptReads(t, n) = s
         /\ AsFarAsThere(s, FreshReads(t, n)) /\ AsFarAsThere(s, KeptReads(t, n))
<1>1. /\ s \in [1..Len(s) -> Nat] /\ Len(s) \in Nat /\ DOMAIN s = 1..Len(s)
      /\ Len(t) \in Nat /\ Len(s) <= Len(t)
      /\ t # <<>> => Len(t) \in 1..Len(t)
  BY LenProperties, EmptySeq DEF Begins
<1>2. \A i \in 1..Len(t) : t[i] = IF i <= Len(s) THEN s[i] ELSE Foreign
  BY DEF Begins
<1>3. \A i \in 1..Len(t) : t[i] \in ToSet(s) \cup {Undefined, Foreign}
  <2> TAKE i \in 1..Len(t)
  <2>1. t[i] = IF i <= Len(s) THEN s[i] ELSE Foreign
    BY <1>2
  <2>2. CASE i <= Len(s)
    <3>1. i \in DOMAIN s
      BY <1>1, <2>2
    <3>2. s[i] \in ToSet(s)
      BY <3>1, Zenon DEF ToSet
    <3>. QED BY <2>1, <2>2, <3>2
  <2>3. CASE ~(i <= Len(s))
    BY <2>1, <2>3, Zenon
  <2>. QED BY <2>2, <2>3
<1>4. ASSUME n = Len(s) PROVE FreshReads(t, n) = s /\ KeptReads(t, n) = s
  <2>1. \A i \in 1..n : i <= Len(t) /\ t[i] = s[i]
    BY <1>1, <1>2, <1>4
  <2>. QED BY <1>1, <1>4, <2>1 DEF FreshReads, KeptReads
<1>5. DOMAIN FreshReads(t, n) = 1..n /\ DOMAIN KeptReads(t, n) = 1..n
  BY DEF FreshReads, KeptReads
<1>6. \A i \in 1..n :
        IF i <= Len(s) THEN FreshReads(t, n)[i] = s[i]
        ELSE FreshReads(t, n)[i] \in ToSet(s) \cup {Undefined, Foreign}
  BY <1>1, <1>2, <1>3 DEF FreshReads
<1>7. \A i \in 1..n :
        IF i <= Len(s) THEN KeptReads(t, n)[i] = s[i]
        ELSE KeptReads(t, n)[i] \in ToSet(s) \cup {Undefined, Foreign}
  <2>1. t # <<>> => Last(t) \in ToSet(s) \cup {Undefined, Foreign}
    BY <1>1, <1>3 DEF Last
  <2>2. t = <<>> => Len(s) = 0
    BY <1>1
  <2>. QED BY <1>1, <1>2, <1>3, <2>1, <2>2 DEF KeptReads
<1>. QED BY <1>4, <1>5, <1>6, <1>7 DEF AsFarAsThere

\* The size of a chunk that holds n numbers of so many bits is that of n.
LEMMA SizeOfNumbers ==
  \A n \in Nat : \A b \in {8, 16, 32} :
    /\ b \div 8 \in {1, 2, 4} /\ n * (b \div 8) \in Nat
    /\ (n * (b \div 8)) \div (b \div 8) = n /\ (n * (b \div 8) = 0 => n = 0)
OBVIOUS

\* What a division of natural numbers gives.
LEMMA DivisionIsNat == \A a \in Nat, b \in Nat \ {0} : a \div b \in Nat /\ a * b \in Nat
OBVIOUS

\* A reader that returns a file has found a chunk of data; there is so much there.
LEMMA FoundData ==
  ASSUME NEW f \in WaveFiles, DataAt(f) # 0, ~DividesByZero(f)
  PROVE  LET c == f.chunks[DataAt(f)]
             width == f.bit \div 8
             there == ToTheEnd(c.numbers, BytesBehind(f.chunks, DataAt(f)), width)
         IN  /\ DataOf(f) = c.numbers /\ c.numbers \in Seq(Nat) /\ c.size \in Nat
             /\ width \in Nat \ {0} /\ BytesBehind(f.chunks, DataAt(f)) \in Nat
             /\ there \in Seq(Int) /\ Begins(c.numbers, there)
<1> DEFINE at == DataAt(f)
           chunks == f.chunks
           E == [id : ChunkIds, size : Nat, numbers : Seq(Nat)]
<1>1. chunks \in Seq(E) /\ f.bit \in Nat
  BY DEF WaveFiles
<1>2. at = DataChunk(chunks)
  BY DEF DataAt
<1>3. at \in 1..Len(chunks)
  <2>1. DataChunk(chunks) \in 0..Len(chunks)
    BY <1>1, DataChunkFound
  <2>2. Len(chunks) \in Nat
    BY <1>1, LenProperties
  <2> HIDE DEF at, chunks
  <2>3. at # 0
    BY DEF at
  <2>. QED BY <1>2, <2>1, <2>2, <2>3
<1>4. /\ DataOf(f) = chunks[at].numbers /\ DataOf(f) \in Seq(Nat)
      /\ chunks[at].size \in Nat
  BY <1>2, DataOfChunk
<1>5. f.bit \div 8 \in Nat \ {0}
  BY <1>1 DEF DividesByZero
<1>6. BytesBehind(chunks, at) \in Nat
  BY <1>3, BehindIsNat
<1>7. chunks[at].numbers \in Seq(Nat)
  BY <1>4
<1> DEFINE stored == chunks[at].numbers
           behind == BytesBehind(chunks, at)
           width1 == f.bit \div 8
<1>8. /\ ToTheEnd(stored, behind, width1) \in Seq(Int)
      /\ Begins(stored, ToTheEnd(stored, behind, width1))
  <2>1. stored \in Seq(Nat) /\ behind \in Nat /\ width1 \in Nat \ {0}
    BY <1>5, <1>6, <1>7
  <2> HIDE DEF stored, behind, width1
  <2>. QED BY <2>1, WhatIsThere
<1>. QED BY <1>4, <1>5, <1>6, <1>7, <1>8

\* wav.h, both copies: what OpenRecorded and OpenForDetection find in a file.
LEMMA FilesAreRead == \A f \in WaveFiles : ReadersFindTheData(f)
<1> SUFFICES ASSUME NEW f \in WaveFiles PROVE ReadersFindTheData(f)
  OBVIOUS
<1> DEFINE E == [id : ChunkIds, size : Nat, numbers : Seq(Nat)]
           chunks == f.chunks
           at == DataAt(f)
           stored == chunks[at].numbers
           width == f.bit \div 8
           behind == BytesBehind(chunks, at)
           there == ToTheEnd(stored, behind, width)
           size1 == IF chunks[at].size = 0 THEN Len(stored) * width + behind
                    ELSE chunks[at].size
<1>1. /\ chunks \in Seq(E) /\ f.bit \in Nat /\ f.channels \in Nat /\ f.fmt_size \in Nat
      /\ f.format \in Nat
  BY DEF WaveFiles
<1>2. at # 0 /\ ~DividesByZero(f) =>
        /\ DataOf(f) = stored /\ stored \in Seq(Nat) /\ chunks[at].size \in Nat
        /\ width \in Nat \ {0} /\ behind \in Nat
        /\ there \in Seq(Int) /\ Begins(stored, there)
  BY FoundData
<1> DEFINE float == f.bit = 32 /\ f.format = 3
           read == IF float THEN ToTheEnd(stored, behind, width)
                   ELSE IF f.bit \in {8, 16} \/ (f.bit = 32 /\ f.format = 1)
                   THEN ToTheEnd(AsIntegers(f, stored), behind, width) ELSE <<>>
           last == Returned("true", (size1 \div width) \div f.channels,
                            KeptReads(read, size1 \div width), IF float THEN 1 ELSE 32768)
<1>6. OpenForDetection(f) =
        IF HeaderRefused(f, FALSE) THEN NotReturned("false")
        ELSE IF at = 0 THEN NotReturned("lost")
        ELSE IF DividesByZero(f) THEN NotReturned("crash") ELSE last
  BY DEF OpenForDetection
<1> HIDE DEF last
<1>3. ASSUME at # 0, ~DividesByZero(f), NEW r, r.ret = "true",
             f.format = 1, f.bit \in {8, 16, 32}
      PROVE  /\ r = OpenRecorded(f) =>
                   r.numbers = FreshReads(there, chunks[at].size \div width)
             /\ r = OpenForDetection(f) => r.numbers = KeptReads(there, size1 \div width)
  <2>1. AsIntegers(f, stored) = stored
    BY <1>3 DEF AsIntegers
  <2> DEFINE num1 == chunks[at].size \div width
             num2 == size1 \div width
             found1 == FreshReads(there, num1)
             found2 == KeptReads(there, num2)
             last1 == Returned("true", num1 \div f.channels, found1, 1)
  <2>2. read = there
    <3>1. ~float /\ (f.bit \in {8, 16} \/ (f.bit = 32 /\ f.format = 1))
      BY <1>3
    <3> HIDE DEF float
    <3>. QED BY <2>1, <3>1
  <2>3. OpenRecorded(f) \in {NotReturned("false"), last1}
    BY <1>3, <2>1 DEF OpenRecorded
  <2>4. OpenForDetection(f) \in {NotReturned("false"), last}
    BY <1>3, <1>6
  <2>5. NotReturned("false").ret = "false" /\ last1.numbers = found1
    BY DEF NotReturned, Returned
  <2>8. last.numbers = KeptReads(read, num2)
    BY DEF last, Returned
  <2> HIDE DEF last1, read, there
  <2>6. r = OpenRecorded(f) => r = last1
    BY <1>3, <2>3, <2>5
  <2>7. r = OpenForDetection(f) => r = last
    BY <1>3, <2>4, <2>5
  <2>. QED BY <2>2, <2>5, <2>6, <2>7, <2>8
<1>4. ASSUME WellFormed(f)
      PROVE  /\ OpenRecorded(f) = Returned("true", Len(DataOf(f)) \div f.channels, DataOf(f), 1)
             /\ ~TakenForData(f) =>
                  OpenForDetection(f) = [OpenRecorded(f) EXCEPT !.divisor = 32768]
  <2>1. /\ f.riff /\ f.fmt_size >= 16 /\ f.fmt_size % 2 = 0 /\ f.channels > 0
        /\ f.bit \in {8, 16, 32} /\ f.format = 1
    BY <1>4 DEF WellFormed
  <2>2. PICK k \in DOMAIN chunks :
          /\ chunks[k].id = "data"
          /\ chunks[k].size = Len(chunks[k].numbers) * (f.bit \div 8)
          /\ \A j \in 1..k - 1 : chunks[j].id # "data" /\ chunks[j].size % 2 = 0
    BY <1>4 DEF WellFormed
  <2>3. at = k /\ at # 0
    <3>1. k \in 1..Len(chunks)
      BY <1>1, LenProperties
    <3>2. \A j \in 1..k - 1 : chunks[j].id # "data" /\ chunks[j].size % 2 # 1
      BY <2>2
    <3>4. at = DataChunk(chunks)
      BY <2>1 DEF DataAt
    <3> HIDE DEF chunks, at
    <3>3. DataChunk(chunks) = k
      BY <1>1, <2>2, <3>1, <3>2, DataChunkFound
    <3>. QED BY <3>1, <3>3, <3>4
  <2> DEFINE count == Len(stored)
  <2>4. /\ ~HeaderRefused(f, TRUE) /\ ~HeaderRefused(f, FALSE) /\ ~DividesByZero(f)
        /\ ~(f.bit = 32 /\ f.format = 3)
    <3>0. f.fmt_size \in Nat /\ f.channels \in Nat
      BY <1>1
    <3>1. ~(f.fmt_size < 16) /\ ~(f.bit < 8) /\ ~(f.channels = 0) /\ f.format # 3
      BY ONLY <3>0, <2>1
    <3>2. f.riff
      BY <2>1
    <3>. QED BY <3>1, <3>2, Zenon DEF HeaderRefused, DividesByZero
  <2>5. /\ stored \in Seq(Nat) /\ DataOf(f) = stored /\ behind \in Nat
        /\ there \in Seq(Int) /\ Begins(stored, there)
    BY <1>2, <2>3, <2>4
  <2>6. count \in Nat /\ chunks[at].size = count * width
    <3>1. count \in Nat
      <4> HIDE DEF stored
      <4>. QED BY <2>5, LenProperties
    <3>. QED BY <2>2, <2>3, <3>1
  <2>7. /\ width \in {1, 2, 4} /\ (count * width) \div width = count
        /\ (count * width = 0 => count = 0)
    BY <2>1, <2>6, SizeOfNumbers
  <2>8. FreshReads(there, count) = stored /\ KeptReads(there, count) = stored
    <3>1. stored \in Seq(Nat) /\ there \in Seq(Int) /\ Begins(stored, there) /\ count = Len(stored)
          /\ count \in Nat
      BY <2>5, <2>6
    <3> HIDE DEF stored, there, count
    <3>. QED BY <3>1, WhatIsRead
  <2>9. AsIntegers(f, stored) = stored
    BY <2>1 DEF AsIntegers
  <2>10. OpenRecorded(f) = Returned("true", count \div f.channels, stored, 1)
    <3>1. OpenRecorded(f) =
            Returned("true", (chunks[at].size \div width) \div f.channels,
                     FreshReads(ToTheEnd(AsIntegers(f, stored), behind, width),
                                chunks[at].size \div width), 1)
      BY <2>1, <2>3, <2>4, Zenon DEF OpenRecorded
    <3>2. chunks[at].size \div width = count
      BY <2>6, <2>7
    <3>3. ToTheEnd(AsIntegers(f, stored), behind, width) = there
      BY <2>9
    <3> HIDE DEF count, width, at, stored, behind, there
    <3>. QED BY <2>8, <3>1, <3>2, <3>3
  <2>11. ASSUME ~TakenForData(f)
         PROVE  OpenForDetection(f) = Returned("true", count \div f.channels, stored, 32768)
    <3>1. OpenForDetection(f) =
            Returned("true", (size1 \div width) \div f.channels,
                     KeptReads(ToTheEnd(AsIntegers(f, stored), behind, width),
                               size1 \div width), 32768)
      BY <2>1, <2>3, <2>4 DEF OpenForDetection
    <3>2. size1 \div width = count
      <4>1. count = 0 => behind = 0
        <5>1. count = 0 => stored = <<>>
          <6> HIDE DEF stored
          <6>. QED BY <2>5, EmptySeq
        <5>2. stored = <<>> => ~(behind > 0)
          BY <2>5, <2>11 DEF TakenForData
        <5> HIDE DEF count, stored, behind
        <5>. QED BY <2>5, <5>1, <5>2
      <4>2. size1 = IF count * width = 0 THEN count * width + behind ELSE count * width
        BY <2>6
      <4> HIDE DEF size1, count, width, behind
      <4>3. size1 = count * width
        BY <2>5, <2>7, <4>1, <4>2
      <4>. QED BY <2>7, <4>3
    <3>3. ToTheEnd(AsIntegers(f, stored), behind, width) = there
      BY <2>9
    <3> HIDE DEF count, width, at, stored, size1, behind, there
    <3>. QED BY <2>8, <3>1, <3>2, <3>3
  <2>. QED BY <2>5, <2>10, <2>11 DEF Returned
<1>5. ASSUME NEW r \in {OpenRecorded(f), OpenForDetection(f)}, r.ret = "true",
             f.format = 1, f.bit \in {8, 16, 32}
      PROVE  AsFarAsThere(DataOf(f), r.numbers)
  <2>1. at # 0 /\ ~DividesByZero(f)
    <3>1. /\ NotReturned("false").ret = "false" /\ NotReturned("lost").ret = "lost"
          /\ NotReturned("crash").ret = "crash" /\ NotReturned("exit").ret = "exit"
      BY DEF NotReturned, Returned
    <3> DEFINE Given == {NotReturned("false"), NotReturned("lost"), NotReturned("crash")}
    <3>2. ~(at # 0 /\ ~DividesByZero(f)) => OpenRecorded(f) \in Given
      BY DEF OpenRecorded
    <3>3. ~(at # 0 /\ ~DividesByZero(f)) => OpenForDetection(f) \in Given
      BY <1>6
    <3>4. r \notin Given
      BY <1>5, <3>1
    <3> HIDE DEF Given
    <3>. QED BY <1>5, <3>2, <3>3, <3>4
  <2>2. /\ DataOf(f) = stored /\ stored \in Seq(Nat) /\ chunks[at].size \in Nat
        /\ width \in Nat \ {0} /\ behind \in Nat
        /\ there \in Seq(Int) /\ Begins(stored, there)
    BY <1>2, <2>1
  <2>3. size1 \in Nat
    <3>1. Len(stored) \in Nat
      <4> HIDE DEF stored
      <4>. QED BY <2>2, LenProperties
    <3>2. Len(stored) * width \in Nat
      BY <2>2, <3>1, DivisionIsNat, Zenon
    <3>3. Len(stored) * width + behind \in Nat
      BY <2>2, <3>2
    <3>. QED BY <2>2, <3>3
  <2>4. chunks[at].size \div width \in Nat /\ size1 \div width \in Nat
    <3> HIDE DEF size1, width, chunks, at
    <3>. QED BY <2>2, <2>3, DivisionIsNat
  <2>5. \E n \in Nat : r.numbers \in {FreshReads(there, n), KeptReads(there, n)}
    <3>1. /\ r = OpenRecorded(f) =>
                r.numbers = FreshReads(there, chunks[at].size \div width)
          /\ r = OpenForDetection(f) => r.numbers = KeptReads(there, size1 \div width)
      BY <1>3, <1>5, <2>1
    <3>2. r = OpenRecorded(f) \/ r = OpenForDetection(f)
      BY <1>5
    <3> HIDE DEF size1, width, chunks, at, there
    <3>. QED BY <2>4, <3>1, <3>2
  <2> HIDE DEF stored, there
  <2>. QED BY <2>2, <2>5, WhatIsRead
<1>. QED BY <1>4, <1>5 DEF ReadersFindTheData, AsFarAsThere

\* The first elements of a sequence.
LEMMA FirstOnes ==
  ASSUME NEW s, NEW k \in Nat
  PROVE  SubSeq(s, 1, k) = [i \in 1..k |-> s[i]]
OBVIOUS

\* What a WavWriter made is a file, and well-formed.
LEMMA WrittenIsRead ==
  ASSUME NEW numbers \in Seq(Nat), NEW c \in {1, 2}, NEW bits \in {8, 16, 32}
  PROVE  WritersAreRead(numbers, Len(numbers) \div c, c, bits)
<1> DEFINE n == Len(numbers) \div c
           f == WavWriter(numbers, n, c, bits)
           data1 == SubSeq(numbers, 1, n * c)
           data2 == FreshReads(numbers, n * c)
           chunk == Chunk("data", n * c * (bits \div 8), data1)
<1>1. n \in Nat /\ n * c \in Nat /\ n * c <= Len(numbers) /\ (n * c) \div c = n
  <2>1. Len(numbers) \in Nat
    BY LenProperties
  <2>2. \A a \in Nat : /\ a \div c \in Nat /\ (a \div c) * c \in Nat
                       /\ (a \div c) * c <= a /\ ((a \div c) * c) \div c = a \div c
    OBVIOUS
  <2>. QED BY <2>1, <2>2
<1>2. data1 \in Seq(Nat) /\ Len(data1) = n * c
  <2>1. \A i \in 1..n * c : numbers[i] \in Nat
    <3>1. \A i \in 1..n * c : i \in 1..Len(numbers)
      BY <1>1, LenProperties
    <3>. QED BY <3>1, ElementOfSeq
  <2>2. 1 \in Int /\ n * c \in Int
    BY <1>1
  <2>3. /\ data1 \in Seq(Nat)
        /\ Len(data1) = IF 1 <= n * c THEN n * c - 1 + 1 ELSE 0
    BY <2>1, <2>2, SubSeqProperties
  <2> HIDE DEF data1, n
  <2>. QED BY <1>1, <2>3
<1>3. bits \div 8 \in {1, 2, 4} /\ n * c * (bits \div 8) \in Nat
  BY <1>1, SizeOfNumbers
<1>15. data1 = data2
  <2>1. data2 = [i \in 1..n * c |-> numbers[i]]
    <3>1. \A i \in 1..n * c : i <= Len(numbers)
      BY <1>1, LenProperties
    <3>. QED BY <3>1 DEF FreshReads
  <2> HIDE DEF data2, n
  <2>2. SubSeq(numbers, 1, n * c) = [i \in 1..n * c |-> numbers[i]]
    BY <1>1, FirstOnes, Zenon
  <2>. QED BY <2>1, <2>2
<1>4. f = [riff |-> TRUE, fmt_size |-> 16, format |-> 1, channels |-> c, bit |-> bits,
           chunks |-> <<chunk>>]
  <2>1. f = [riff |-> TRUE, fmt_size |-> 16, format |-> 1, channels |-> c, bit |-> bits,
             chunks |-> <<Chunk("data", n * c * (bits \div 8), data2)>>]
    BY DEF WavWriter
  <2> HIDE DEF data1, data2
  <2>. QED BY <1>15, <2>1
<1> HIDE DEF n, data1
<1>5. chunk \in [id : ChunkIds, size : Nat, numbers : Seq(Nat)]
  <2> DEFINE bytes == n * c * (bits \div 8)
  <2>1. bytes \in Nat /\ chunk = [id |-> "data", size |-> bytes, numbers |-> data1]
    BY <1>3 DEF Chunk
  <2> HIDE DEF bytes, chunk
  <2>2. [id |-> "data", size |-> bytes, numbers |-> data1]
          \in [id : ChunkIds, size : Nat, numbers : Seq(Nat)]
    BY <1>2, <2>1 DEF ChunkIds
  <2>. QED BY <2>1, <2>2
<1>6. f \in WaveFiles
  <2>1. <<chunk>> \in Seq([id : ChunkIds, size : Nat, numbers : Seq(Nat)])
    BY <1>5
  <2> HIDE DEF chunk, f
  <2>. QED BY <1>4, <2>1 DEF WaveFiles
<1>7. /\ Len(<<chunk>>) = 1 /\ DOMAIN <<chunk>> = 1..1 /\ <<chunk>>[1] = chunk
      /\ chunk.id = "data" /\ chunk.numbers = data1 /\ chunk.size = n * c * (bits \div 8)
  BY DEF Chunk
<1>8. DataChunk(f.chunks) = 1
  <2>1. f.chunks = <<chunk>> /\ 1 \in 1..Len(<<chunk>>) /\ 1..1 - 1 = {}
    BY <1>4, <1>7
  <2>2. <<chunk>> \in Seq([id : ChunkIds, size : Nat, numbers : Seq(Nat)])
    BY <1>5
  <2> HIDE DEF chunk, f
  <2>. QED BY <1>7, <2>1, <2>2, DataChunkFound
<1>9. DataOf(f) = data1
  <2> HIDE DEF f, chunk
  <2>1. DataOf(f) = f.chunks[1].numbers
    BY <1>6, <1>8, DataOfChunk
  <2>. QED BY <1>4, <1>7, <2>1
<1>10. WellFormed(f)
  <2>1. /\ f.riff /\ f.fmt_size >= 16 /\ f.fmt_size % 2 = 0 /\ f.channels > 0
        /\ f.bit \in {8, 16, 32} /\ f.format = 1
    BY <1>4
  <2> HIDE DEF f, chunk
  <2>2. f.chunks = <<chunk>> /\ f.bit = bits
    BY <1>4
  <2>3. f.chunks[1] = chunk /\ 1 \in DOMAIN f.chunks
    BY <1>7, <2>2
  <2>4. chunk.size = Len(chunk.numbers) * (f.bit \div 8)
    BY <1>2, <1>7, <2>2
  <2>5. \A j \in 1..1 - 1 : f.chunks[j].id # "data" /\ f.chunks[j].size % 2 = 0
    OBVIOUS
  <2>6. \E k \in DOMAIN f.chunks :
          /\ f.chunks[k].id = "data"
          /\ f.chunks[k].size = Len(f.chunks[k].numbers) * (f.bit \div 8)
          /\ \A j \in 1..k - 1 : f.chunks[j].id # "data" /\ f.chunks[j].size % 2 = 0
    BY <1>7, <2>3, <2>4, <2>5
  <2>. QED BY <2>1, <2>6 DEF WellFormed
<1> HIDE DEF f, chunk
<1>11. ReadersFindTheData(f)
  BY <1>6, FilesAreRead
<1>12. OpenRecorded(f) = Returned("true", Len(data1) \div f.channels, data1, 1)
  BY <1>9, <1>10, <1>11 DEF ReadersFindTheData
<1>13. f.channels = c
  BY <1>4
<1>14. OpenRecorded(f).num_samples = n /\ OpenRecorded(f).numbers = data1
  BY <1>1, <1>2, <1>12, <1>13 DEF Returned
<1>. QED BY <1>11, <1>14 DEF WritersAreRead, f, n, data1

\* wav.h, both copies: the readers find what the writers and others wrote.
THEOREM WavesAreReadAlways == LibrarySpec => []WavesAreRead
<1>1. CallInv => WavesAreRead
  <2> SUFFICES ASSUME CallInv PROVE WavesAreRead
    OBVIOUS
  <2>1. call.fn = "read" => call.file \in WaveFiles
    BY LibrariesAssumption DEF CallInv, NoCall
  <2>2. call.fn = "write" => /\ call.values \in Seq(Nat) /\ call.channels \in {1, 2}
    BY LibrariesAssumption DEF CallInv, NoCall
  <2>3. call.fn = "write" =>
          WritersAreRead(call.values, Len(call.values) \div call.channels, call.channels, call.bits)
    BY <2>2, WrittenIsRead DEF WritersAreRead
  <2>. QED BY <2>1, <2>3, FilesAreRead DEF WavesAreRead
<1>. QED BY <1>1, CallsHaveArguments, PTL

-----------------------------------------------------------------------------
(* Texts. The loops go from one position to a later one; what they make of *)
(* the text from a position on is a function of the position.              *)

\* What F says of a place does not depend on the places before the end of a text
\* of that length that are not behind it, nor on any from the end on.
Advances(F, S, V, at, len) ==
  \A g, h \in [S -> V] : \A x \in S :
    (at[x] <= len => \A y \in S : at[y] > at[x] => g[y] = h[y]) => F[<<g, x>>] = F[<<h, x>>]

\* A loop that goes on to later positions defines a function of the positions.
LEMMA Loop ==
  ASSUME NEW S, NEW V, NEW v \in V, NEW at \in [S -> Nat], NEW len \in Nat,
         NEW F \in [[S -> V] \X S -> V], Advances(F, S, V, at, len)
  PROVE  \E g : Solves(g, F, S, V)
<1> DEFINE left(x) == IF at[x] <= len THEN (len - at[x]) + 1 ELSE 0
           mu == [x \in S |-> left(x)]
<1>1. mu \in [S -> Nat]
  OBVIOUS
<1>2. \A x, y \in S : at[x] <= len /\ at[y] > at[x] => mu[y] < mu[x]
  OBVIOUS
<1>3. Descends(F, S, V, mu)
  <2> SUFFICES ASSUME NEW g \in [S -> V], NEW h \in [S -> V], NEW x \in S,
                      \A y \in S : mu[y] < mu[x] => g[y] = h[y]
               PROVE  F[<<g, x>>] = F[<<h, x>>]
    <3> HIDE DEF mu
    <3>. QED BY DEF Descends
  <2>1. at[x] <= len => \A y \in S : at[y] > at[x] => g[y] = h[y]
    <3> HIDE DEF mu
    <3>. QED BY <1>2
  <2>. QED BY <2>1, Zenon DEF Advances
<1> HIDE DEF mu
<1>. QED BY <1>1, <1>3, Recursion, Zenon

\* Induction over the positions of a text, from its end to its beginning.
LEMMA Backwards ==
  ASSUME NEW S, NEW len \in Nat,
         \A i \in Nat : (i <= len => \A j \in Nat : j > i => j \in S) => i \in S
  PROVE  Nat \subseteq S
<1> DEFINE Near == {n \in Nat : \A i \in Nat : i + n > len => i \in S}
<1>1. 0 \in Near
  OBVIOUS
<1>2. ASSUME NEW n \in Nat, n \in Near PROVE n + 1 \in Near
  <2> SUFFICES ASSUME NEW i \in Nat, i + (n + 1) > len PROVE i \in S
    OBVIOUS
  <2>1. \A j \in Nat : j > i => j + n > len
    OBVIOUS
  <2>2. \A j \in Nat : j > i => j \in S
    BY <1>2, <2>1
  <2>. QED BY <2>2
<1>3. Nat \subseteq Near
  <2> HIDE DEF Near
  <2>. QED BY <1>1, <1>2, Induction
<1>4. len + 1 \in Near
  <2> HIDE DEF Near
  <2>. QED BY <1>3
<1>. QED BY <1>4

\* A loop over characters: the text passes from i on if it ends before i, or a
\* character is there, of width w[i], and what is behind it passes.
Scans(g, fits, w, len) ==
  /\ g \in [Nat -> BOOLEAN] /\ fits \in [Nat -> BOOLEAN] /\ w \in [Nat -> Nat]
  /\ \A i \in Nat \ {0} : g[i] <=> (i > len \/ (fits[i] /\ g[i + w[i]]))
  /\ \A i \in Nat \ {0} : fits[i] => w[i] > 0 /\ i + w[i] <= len + 1

\* There is such a function for every text.
Scan(g, fits, w, len) ==
  g \in [Nat -> BOOLEAN] /\ \A i \in Nat : g[i] = (i > len \/ (fits[i] /\ g[i + w[i]]))

\* Such a loop, as a recursive function, has a solution.
LEMMA ScanLoop ==
  ASSUME NEW fits \in [Nat -> BOOLEAN], NEW w \in [Nat -> Nat], NEW len \in Nat,
         \A i \in Nat : fits[i] => w[i] > 0
  PROVE  \E g : Scan(g, fits, w, len)
<1> DEFINE body(g, i) == i > len \/ (fits[i] /\ g[i + w[i]])
           V == BOOLEAN
           S == Nat
           F == [p \in [S -> V] \X S |-> body(p[1], p[2])]
           at == [i \in S |-> i]
<1>1. F \in [[S -> V] \X S -> V]
  OBVIOUS
<1>2. Advances(F, S, V, at, len)
  <2>1. ASSUME NEW g \in [S -> V], NEW h \in [S -> V], NEW i \in S,
               i <= len => \A j \in S : j > i => g[j] = h[j]
        PROVE  body(g, i) = body(h, i)
    <3>1. fits[i] /\ i <= len => g[i + w[i]] = h[i + w[i]]
      <4>1. fits[i] => i + w[i] > i /\ i + w[i] \in S
        OBVIOUS
      <4>. QED BY <2>1, <4>1
    <3>2. i > len \/ i <= len
      OBVIOUS
    <3>. QED BY <3>1, <3>2, Zenon
  <2> HIDE DEF body
  <2>2. \A g \in [S -> V] : \A i \in S : F[<<g, i>>] = body(g, i)
    OBVIOUS
  <2>3. \A i \in S : at[i] = i
    OBVIOUS
  <2> HIDE DEF F, at, V, S
  <2>. QED BY <2>1, <2>2, <2>3 DEF Advances
<1>3. PICK g : Solves(g, F, S, V)
  <2>1. TRUE \in V /\ at \in [S -> Nat]
    OBVIOUS
  <2> HIDE DEF F, V, S, at
  <2>. QED BY <1>1, <1>2, <2>1, Loop, Zenon
<1>4. g \in [S -> V] /\ \A i \in S : g[i] = body(g, i)
  BY <1>3, Zenon DEF Solves
<1>. QED BY <1>4 DEF Scan

\* The first n places are as in another text, or are those from n + 1 on there.
StartsLike(kl, wl, ks, ws, n) == \A i \in 1..n : kl[i] => ks[i] /\ ws[i] = wl[i]
EndsLike(kr, wr, ks, ws, n, m) == \A i \in 1..m : kr[i] = ks[n + i] /\ wr[i] = ws[n + i]

\* Such a loop goes over the first half of a text as over the half alone, and
\* over the second from where that ends.
LEMMA Halves ==
  ASSUME NEW n \in Nat, NEW m \in Nat,
         NEW gl, NEW gs, NEW gr, NEW kl, NEW ks, NEW kr, NEW wl, NEW ws, NEW wr,
         Scans(gl, kl, wl, n), Scans(gs, ks, ws, n + m), Scans(gr, kr, wr, m),
         StartsLike(kl, wl, ks, ws, n), EndsLike(kr, wr, ks, ws, n, m)
  PROVE  gl[1] => (gs[1] <=> gr[1])
<1> DEFINE Second == {i \in Nat : i >= 1 => (gs[n + i] <=> gr[i])}
           First == {i \in Nat : i \in 1..n + 1 /\ gl[i] => (gs[i] <=> gs[n + 1])}
<1>1. Nat \subseteq Second
  <2>1. ASSUME NEW i \in Nat, i <= m => \A j \in Nat : j > i => j \in Second
        PROVE  i \in Second
    <3> SUFFICES ASSUME i >= 1 PROVE gs[n + i] <=> gr[i]
      OBVIOUS
    <3>1. CASE i > m
      <4>1. gr[i]
        BY <3>1 DEF Scans
      <4>2. gs[n + i]
        <5>1. n + i \in Nat /\ n + i > n + m
          BY <3>1
        <5>. QED BY <5>1 DEF Scans
      <4>. QED BY <4>1, <4>2
    <3>2. CASE i <= m
      <4>1. /\ gr[i] <=> (kr[i] /\ gr[i + wr[i]])
            /\ kr[i] => wr[i] \in Nat /\ wr[i] > 0
        BY <3>2 DEF Scans
      <4>2. gs[n + i] <=> (ks[n + i] /\ gs[(n + i) + ws[n + i]])
        <5>1. n + i \in Nat /\ ~(n + i > n + m)
          BY <3>2
        <5>. QED BY <5>1 DEF Scans
      <4>3. kr[i] = ks[n + i] /\ wr[i] = ws[n + i]
        BY <3>2 DEF EndsLike
      <4>4. kr[i] => (gs[n + (i + wr[i])] <=> gr[i + wr[i]])
        <5>1. kr[i] => i + wr[i] \in Nat /\ i + wr[i] > i /\ i + wr[i] >= 1
          BY <4>1
        <5>. QED BY <2>1, <3>2, <5>1
      <4>5. kr[i] => n + (i + wr[i]) = (n + i) + wr[i]
        BY <4>1
      <4>. QED BY <4>1, <4>2, <4>3, <4>4, <4>5
    <3>. QED BY <3>1, <3>2
  <2> HIDE DEF Second
  <2>. QED BY <2>1, Backwards
<1>2. Nat \subseteq First
  <2>1. ASSUME NEW i \in Nat, i <= n => \A j \in Nat : j > i => j \in First
        PROVE  i \in First
    <3> SUFFICES ASSUME i \in 1..n + 1, gl[i] PROVE gs[i] <=> gs[n + 1]
      OBVIOUS
    <3>1. CASE i = n + 1
      BY <3>1
    <3>2. CASE i \in 1..n
      <4>1. kl[i] /\ gl[i + wl[i]] /\ wl[i] \in Nat /\ wl[i] > 0 /\ i + wl[i] <= n + 1
        BY <3>2 DEF Scans
      <4>2. ks[i] /\ ws[i] = wl[i]
        BY <3>2, <4>1 DEF StartsLike
      <4>3. gs[i] <=> gs[i + wl[i]]
        <5>1. i \in Nat /\ ~(i > n + m)
          BY <3>2
        <5>. QED BY <4>2, <5>1 DEF Scans
      <4>4. gs[i + wl[i]] <=> gs[n + 1]
        <5>1. i + wl[i] \in Nat /\ i + wl[i] > i /\ i + wl[i] \in 1..n + 1 /\ i <= n
          BY <3>2, <4>1
        <5>. QED BY <2>1, <4>1, <5>1
      <4>. QED BY <4>3, <4>4
    <3>. QED BY <3>1, <3>2
  <2> HIDE DEF First
  <2>. QED BY <2>1, Backwards
<1>. QED BY <1>1, <1>2

\* A whole character is at i, and its bytes as a function.
CharacterAt(str, i) ==
  /\ Width(str[i]) > 0
  /\ i + Width(str[i]) - 1 <= Len(str)
  /\ \A k \in i + 1..i + Width(str[i]) - 1 : Continues(str[k])

Characters(str) == [i \in Nat |-> CharacterAt(str, i)]
WidthsOf(str) == [i \in Nat |-> Width(str[i])]

\* The function of positions by which isUTF8 is defined.
IsUTF8From(str, g) ==
  g = [i \in Nat |->
         LET n == Width(str[i])
         IN  i > Len(str) \/ /\ n > 0
                             /\ i + n - 1 <= Len(str)
                             /\ \A k \in i + 1..i + n - 1 : Continues(str[k])
                             /\ g[i + n]]

UTF8From(str) == CHOOSE g : IsUTF8From(str, g)

\* No width is more than 4.
LEMMA WidthBound == \A c : Width(c) \in 0..4
BY DEF Width

\* isUTF8 is such a loop.
LEMMA UTF8Scans ==
  ASSUME NEW str, Len(str) \in Nat
  PROVE  /\ isUTF8(str) = UTF8From(str)[1]
         /\ Scans(UTF8From(str), Characters(str), WidthsOf(str), Len(str))
<1>1. /\ Characters(str) \in [Nat -> BOOLEAN] /\ WidthsOf(str) \in [Nat -> Nat]
      /\ \A i \in Nat : Characters(str)[i] = CharacterAt(str, i) /\ WidthsOf(str)[i] = Width(str[i])
  BY WidthBound DEF Characters, WidthsOf, CharacterAt
<1>2. \A i \in Nat : CharacterAt(str, i) => Width(str[i]) > 0 /\ i + Width(str[i]) <= Len(str) + 1
  BY WidthBound DEF CharacterAt
<1> DEFINE body(g, i) == i > Len(str) \/ (CharacterAt(str, i) /\ g[i + Width(str[i])])
<1>3. PICK g \in [Nat -> BOOLEAN] : \A i \in Nat : g[i] = body(g, i)
  <2>1. \A i \in Nat : Characters(str)[i] => WidthsOf(str)[i] > 0
    BY <1>1, <1>2
  <2>2. PICK g : Scan(g, Characters(str), WidthsOf(str), Len(str))
    BY <1>1, <2>1, ScanLoop, Zenon
  <2>3. \A i \in Nat : g[i] = body(g, i)
    BY <1>1, <2>2, Zenon DEF Scan
  <2>. QED BY <2>2, <2>3, Zenon DEF Scan
<1>4. \A h : IsUTF8From(str, h) <=> h = [i \in Nat |-> body(h, i)]
  BY Zenon DEF IsUTF8From, CharacterAt
<1>5. g = [i \in Nat |-> body(g, i)]
  <2> HIDE DEF body
  <2>. QED BY <1>3
<1> DEFINE u == UTF8From(str)
<1>6. u = [i \in Nat |-> body(u, i)]
  <2>1. IsUTF8From(str, g)
    BY <1>4, <1>5, Zenon
  <2>2. IsUTF8From(str, u)
    BY <2>1, Zenon DEF UTF8From
  <2>. QED BY <1>4, <2>2, Zenon
<1>7. isUTF8(str) = u[1]
  BY DEF isUTF8, UTF8From, IsUTF8From
<1> HIDE DEF u
<1>8. u \in [Nat -> BOOLEAN] /\ \A i \in Nat : u[i] <=> body(u, i)
  <2>1. \A i \in Nat : body(u, i) \in BOOLEAN
    OBVIOUS
  <2> HIDE DEF body
  <2>. QED BY <1>6, <2>1
<1>9. Scans(u, Characters(str), WidthsOf(str), Len(str))
  <2>1. \A i \in Nat \ {0} :
          u[i] <=> (i > Len(str) \/ (Characters(str)[i] /\ u[i + WidthsOf(str)[i]]))
    <3>1. \A i \in Nat \ {0} : i \in Nat
      OBVIOUS
    <3>. QED BY <1>1, <1>8, <3>1, Zenon
  <2>2. \A i \in Nat \ {0} :
          Characters(str)[i] => WidthsOf(str)[i] > 0 /\ i + WidthsOf(str)[i] <= Len(str) + 1
    BY <1>1, <1>2
  <2>. QED BY <1>1, <1>8, <2>1, <2>2, Zenon DEF Scans
<1>. QED BY <1>7, <1>9 DEF u

\* isGBK is one too: two bytes are a character, or one.
PairAt(str, i) ==
  \/ str[i] < 128
  \/ i < Len(str) /\ str[i + 1] \in (64..126) \cup (128..254)

Pairings(str) == [i \in Nat |-> i <= Len(str) /\ PairAt(str, i)]
PairWidths(str) == [i \in Nat |-> IF str[i] < 128 THEN 1 ELSE 2]

IsGBKFrom(str, g) ==
  g = [i \in Nat |->
         \/ i > Len(str)
         \/ str[i] < 128 /\ g[i + 1]
         \/ /\ str[i] >= 128
            /\ i < Len(str)
            /\ str[i + 1] \in (64..126) \cup (128..254)
            /\ g[i + 2]]

GBKFrom(str) == CHOOSE g : IsGBKFrom(str, g)

\* isGBK is such a loop.
LEMMA GBKScans ==
  ASSUME NEW str \in Seq(Nat)
  PROVE  /\ isGBK(str) = GBKFrom(str)[1]
         /\ Scans(GBKFrom(str), Pairings(str), PairWidths(str), Len(str))
<1>0. Len(str) \in Nat /\ \A i \in 1..Len(str) : str[i] \in Nat
  BY LenProperties
<1> DEFINE one(i) == str[i] < 128
           two(i) == str[i] >= 128 /\ i < Len(str) /\ str[i + 1] \in (64..126) \cup (128..254)
           V == BOOLEAN
           S == Nat
           body(g, i) == \/ i > Len(str)
                         \/ str[i] < 128 /\ g[i + 1]
                         \/ /\ str[i] >= 128
                            /\ i < Len(str)
                            /\ str[i + 1] \in (64..126) \cup (128..254)
                            /\ g[i + 2]
           F == [p \in [S -> V] \X S |-> body(p[1], p[2])]
           at == [i \in S |-> i]
<1>1. F \in [[S -> V] \X S -> V]
  OBVIOUS
<1>2. Advances(F, S, V, at, Len(str))
  <2>1. ASSUME NEW g \in [S -> V], NEW h \in [S -> V], NEW i \in S,
               i <= Len(str) => \A j \in S : j > i => g[j] = h[j]
        PROVE  body(g, i) = body(h, i)
    <3>1. i <= Len(str) => g[i + 1] = h[i + 1] /\ g[i + 2] = h[i + 2]
      BY <2>1
    <3>2. i > Len(str) \/ i <= Len(str)
      BY <1>0
    <3>. QED BY <3>1, <3>2, ZenonT(30)
  <2> HIDE DEF body
  <2>2. \A g \in [S -> V] : \A i \in S : F[<<g, i>>] = body(g, i)
    OBVIOUS
  <2>3. \A i \in S : at[i] = i
    OBVIOUS
  <2> HIDE DEF F, at, V, S
  <2>4. ASSUME NEW g \in [S -> V], NEW h \in [S -> V], NEW i \in S,
               at[i] <= Len(str) => \A j \in S : at[j] > at[i] => g[j] = h[j]
        PROVE  F[<<g, i>>] = F[<<h, i>>]
    <3>1. i <= Len(str) => \A j \in S : j > i => g[j] = h[j]
      BY <2>3, <2>4
    <3>2. body(g, i) = body(h, i)
      BY <2>1, <3>1
    <3>. QED BY <2>2, <3>2, Zenon
  <2>. QED BY <2>4, Zenon DEF Advances
<1>3. PICK g : Solves(g, F, S, V)
  <2>1. TRUE \in V /\ at \in [S -> Nat]
    OBVIOUS
  <2> HIDE DEF F, V, S, at
  <2>. QED BY <1>0, <1>1, <1>2, <2>1, Loop, Zenon
<1>4. g = [i \in Nat |-> body(g, i)]
  <2>1. g \in [S -> V] /\ \A i \in S : g[i] = body(g, i)
    <3>1. g \in [S -> V] /\ \A i \in S : g[i] = F[<<g, i>>]
      BY <1>3, Zenon DEF Solves
    <3> HIDE DEF body
    <3>2. \A i \in S : F[<<g, i>>] = body(g, i)
      BY <3>1
    <3>. QED BY <3>1, <3>2, Zenon
  <2> HIDE DEF body
  <2>. QED BY <2>1
<1>5. \A h : IsGBKFrom(str, h) <=> h = [i \in Nat |-> body(h, i)]
  BY Zenon DEF IsGBKFrom
<1> DEFINE u == GBKFrom(str)
<1>6. u = [i \in Nat |-> body(u, i)]
  <2>1. IsGBKFrom(str, g)
    BY <1>4, <1>5, Zenon
  <2>2. IsGBKFrom(str, u)
    BY <2>1, Zenon DEF GBKFrom
  <2>. QED BY <1>5, <2>2, Zenon
<1>7. isGBK(str) = u[1]
  BY DEF isGBK, GBKFrom, IsGBKFrom
<1> HIDE DEF u
<1>8. u \in [Nat -> BOOLEAN] /\ \A i \in Nat : u[i] <=> body(u, i)
  <2>1. \A i \in Nat : body(u, i) \in BOOLEAN
    OBVIOUS
  <2> HIDE DEF body
  <2>. QED BY <1>6, <2>1
<1>9. /\ Pairings(str) \in [Nat -> BOOLEAN] /\ PairWidths(str) \in [Nat -> Nat]
      /\ \A i \in Nat : /\ Pairings(str)[i] = (i <= Len(str) /\ PairAt(str, i))
                        /\ PairWidths(str)[i] = IF str[i] < 128 THEN 1 ELSE 2
  BY DEF Pairings, PairWidths
<1>10. ASSUME NEW i \in Nat \ {0}
       PROVE  /\ u[i] <=> (i > Len(str) \/ (Pairings(str)[i] /\ u[i + PairWidths(str)[i]]))
              /\ Pairings(str)[i] => /\ PairWidths(str)[i] > 0
                                     /\ i + PairWidths(str)[i] <= Len(str) + 1
  <2>1. CASE i > Len(str)
    <3>1. ~Pairings(str)[i]
      <4>1. i \in Nat /\ ~(i <= Len(str))
        BY <1>0, <2>1
      <4>. QED BY <1>9, <4>1, Zenon
    <3>2. u[i]
      BY <1>8, <2>1
    <3>. QED BY <2>1, <3>1, <3>2
  <2>2. CASE i <= Len(str) /\ str[i] < 128
    <3>1. ~(i > Len(str)) /\ ~(str[i] >= 128)
      BY <1>0, <2>2
    <3>2. u[i] <=> u[i + 1]
      BY <1>8, <2>2, <3>1
    <3>3. Pairings(str)[i] /\ PairWidths(str)[i] = 1
      BY <1>9, <2>2 DEF PairAt
    <3>. QED BY <1>0, <2>2, <3>1, <3>2, <3>3
  <2>3. CASE i <= Len(str) /\ ~(str[i] < 128)
    <3>1. ~(i > Len(str)) /\ str[i] >= 128
      BY <1>0, <2>3
    <3>2. u[i] <=> (two(i) /\ u[i + 2])
      <4>1. i \in Nat /\ ~(str[i] < 128)
        BY <2>3
      <4>. QED BY <1>8, <3>1, <4>1, ZenonT(30)
    <3>3. Pairings(str)[i] = two(i) /\ PairWidths(str)[i] = 2
      BY <1>9, <2>3, <3>1 DEF PairAt
    <3>4. two(i) => i + 2 <= Len(str) + 1
      BY <1>0
    <3> HIDE DEF two
    <3>5. PairWidths(str)[i] > 0
      BY <3>3
    <3>6. i + PairWidths(str)[i] = i + 2
      BY <3>3
    <3>. QED BY <3>1, <3>2, <3>3, <3>4, <3>5, <3>6
  <2>. QED BY <1>0, <2>1, <2>2, <2>3
<1>11. Scans(u, Pairings(str), PairWidths(str), Len(str))
  <2> HIDE DEF body, one, two
  <2>. QED BY <1>8, <1>9, <1>10, Zenon DEF Scans
<1>. QED BY <1>7, <1>11 DEF u

\* The bytes of a text in two halves.
HalvesOf(left, right, str, n) ==
  /\ left \in Seq(Nat) /\ right \in Seq(Nat) /\ Len(left) = n /\ Len(right) = Len(str) - n
  /\ \A i \in 1..n : left[i] = str[i]
  /\ \A i \in 1..Len(str) - n : right[i] = str[n + i]

\* Cut in two anywhere.
LEMMA CutInTwo ==
  ASSUME NEW str \in Seq(Nat), NEW n \in 1..Len(str)
  PROVE  HalvesOf(SubSeq(str, 1, n), SubSeq(str, n + 1, Len(str)), str, n)
<1> DEFINE left == SubSeq(str, 1, n)
           right == SubSeq(str, n + 1, Len(str))
<1>1. Len(str) \in Nat /\ \A i \in 1..Len(str) : str[i] \in Nat
  BY LenProperties
<1>2. left \in Seq(Nat) /\ Len(left) = n /\ \A i \in 1..n : left[i] = str[i]
  <2>1. \A i \in 1..n : str[i] \in Nat
    BY <1>1
  <2>2. /\ left \in Seq(Nat) /\ Len(left) = IF 1 <= n THEN n - 1 + 1 ELSE 0
        /\ \A i \in 1..n - 1 + 1 : left[i] = str[1 + i - 1]
    BY <2>1, SubSeqProperties
  <2> HIDE DEF left
  <2>3. \A i \in 1..n : 1 + i - 1 = i /\ i \in 1..n - 1 + 1
    BY <1>1
  <2>. QED BY <1>1, <2>2, <2>3
<1>3. /\ right \in Seq(Nat) /\ Len(right) = Len(str) - n
      /\ \A i \in 1..Len(str) - n : right[i] = str[n + i]
  <2>1. \A i \in n + 1..Len(str) : str[i] \in Nat
    BY <1>1
  <2>2. /\ right \in Seq(Nat)
        /\ Len(right) = IF n + 1 <= Len(str) THEN Len(str) - (n + 1) + 1 ELSE 0
        /\ \A i \in 1..Len(str) - (n + 1) + 1 : right[i] = str[n + 1 + i - 1]
    BY <1>1, <2>1, SubSeqProperties
  <2> HIDE DEF right
  <2>3. \A i \in 1..Len(str) - n : n + 1 + i - 1 = n + i /\ i \in 1..Len(str) - (n + 1) + 1
    BY <1>1
  <2>. QED BY <1>1, <2>2, <2>3
<1>. QED BY <1>2, <1>3 DEF HalvesOf

\* A text whose first half is UTF-8 is so if the second is.
LEMMA UTF8InHalves ==
  ASSUME NEW str \in Seq(Nat), NEW n \in 1..Len(str), NEW left, NEW right,
         HalvesOf(left, right, str, n)
  PROVE  isUTF8(left) => (isUTF8(str) <=> isUTF8(right))
<1> DEFINE m == Len(str) - n
<1>1. Len(str) \in Nat /\ m \in Nat /\ Len(str) = n + m /\ n \in Nat
  BY LenProperties
<1>2. /\ Len(left) = n /\ Len(right) = m
      /\ \A i \in 1..n : left[i] = str[i]
      /\ \A i \in 1..m : right[i] = str[n + i]
  BY DEF HalvesOf
<1> HIDE DEF m
<1>3. \A s : \A i \in Nat : Characters(s)[i] = CharacterAt(s, i) /\ WidthsOf(s)[i] = Width(s[i])
  BY DEF Characters, WidthsOf
<1>4. ASSUME NEW i \in 1..n
      PROVE  Characters(left)[i] =>
               Characters(str)[i] /\ WidthsOf(str)[i] = WidthsOf(left)[i]
  <2> DEFINE w == Width(left[i])
  <2>1. w \in 0..4 /\ w = Width(str[i])
    BY <1>2, WidthBound
  <2> HIDE DEF w
  <2>2. CharacterAt(left, i) => CharacterAt(str, i)
    <3> SUFFICES ASSUME CharacterAt(left, i) PROVE CharacterAt(str, i)
      OBVIOUS
    <3>1. /\ w > 0 /\ i + w - 1 <= n
          /\ \A k \in i + 1..i + w - 1 : Continues(left[k])
      BY <1>2 DEF CharacterAt, w
    <3>2. \A k \in i + 1..i + w - 1 : k \in 1..n
      BY <1>1, <2>1, <3>1
    <3>3. \A k \in i + 1..i + w - 1 : Continues(str[k])
      BY <1>2, <3>1, <3>2
    <3>4. i + w - 1 <= Len(str)
      BY <1>1, <2>1, <3>1
    <3>. QED BY <2>1, <3>1, <3>3, <3>4 DEF CharacterAt
  <2>3. i \in Nat
    OBVIOUS
  <2>. QED BY <1>3, <2>1, <2>2, <2>3, Zenon DEF w
<1>5. ASSUME NEW i \in 1..m
      PROVE  /\ Characters(right)[i] = Characters(str)[n + i]
             /\ WidthsOf(right)[i] = WidthsOf(str)[n + i]
  <2> DEFINE w == Width(right[i])
  <2>1. w \in 0..4 /\ w = Width(str[n + i])
    BY <1>2, WidthBound
  <2> HIDE DEF w
  <2>3. w \in Nat
    BY <2>1
  <2>2. CharacterAt(right, i) <=> CharacterAt(str, n + i)
    <3>1. CharacterAt(right, i) <=>
            /\ w > 0 /\ i + w - 1 <= m
            /\ \A k \in i + 1..i + w - 1 : Continues(right[k])
      BY <1>2 DEF CharacterAt, w
    <3>2. CharacterAt(str, n + i) <=>
            /\ w > 0 /\ n + i + w - 1 <= n + m
            /\ \A k \in n + i + 1..n + i + w - 1 : Continues(str[k])
      BY <1>1, <2>1 DEF CharacterAt
    <3>3. i + w - 1 <= m <=> n + i + w - 1 <= n + m
      <4>1. i \in Int /\ w \in Int /\ m \in Int /\ n \in Int
        BY <1>1, <2>1
      <4>. QED BY <4>1
    <3>4. i + w - 1 <= m =>
            ((\A k \in i + 1..i + w - 1 : Continues(right[k]))
              <=> (\A k \in n + i + 1..n + i + w - 1 : Continues(str[k])))
      <4> SUFFICES ASSUME i + w - 1 <= m
                   PROVE  (\A k \in i + 1..i + w - 1 : Continues(right[k]))
                            <=> (\A k \in n + i + 1..n + i + w - 1 : Continues(str[k]))
        OBVIOUS
      <4>1. \A k \in i + 1..i + w - 1 :
              right[k] = str[n + k] /\ n + k \in n + i + 1..n + i + w - 1
        <5> SUFFICES ASSUME NEW k \in i + 1..i + w - 1
                     PROVE  right[k] = str[n + k] /\ n + k \in n + i + 1..n + i + w - 1
          OBVIOUS
        <5>1. k \in 1..m /\ n + k \in n + i + 1..n + i + w - 1
          <6>1. k \in Int /\ i + 1 <= k /\ k <= i + w - 1 /\ i \in Nat /\ 1 <= i
            BY <2>1
          <6>2. i + w - 1 <= m /\ w \in Nat
            BY <2>3, Zenon
          <6>. QED BY <1>1, <6>1, <6>2
        <5>. QED BY <1>2, <5>1
      <4>2. \A k \in n + i + 1..n + i + w - 1 :
              k - n \in i + 1..i + w - 1 /\ n + (k - n) = k
        BY <1>1, <2>1
      <4>3. \A k \in n + i + 1..n + i + w - 1 : str[k] = right[k - n]
        BY <4>1, <4>2
      <4>. QED BY <4>1, <4>2, <4>3
    <3>. QED BY <3>1, <3>2, <3>3, <3>4
  <2>6. CharacterAt(right, i) \in BOOLEAN /\ CharacterAt(str, n + i) \in BOOLEAN
    BY DEF CharacterAt
  <2>4. i \in Nat /\ n + i \in Nat
    BY <1>1
  <2>5. Characters(right)[i] = Characters(str)[n + i]
    BY <1>3, <2>2, <2>4, <2>6, Zenon
  <2>. QED BY <1>3, <2>1, <2>4, <2>5 DEF w
<1>6. /\ isUTF8(left) = UTF8From(left)[1]
      /\ Scans(UTF8From(left), Characters(left), WidthsOf(left), n)
  BY <1>1, <1>2, UTF8Scans
<1>7. /\ isUTF8(str) = UTF8From(str)[1]
      /\ Scans(UTF8From(str), Characters(str), WidthsOf(str), n + m)
  BY <1>1, UTF8Scans
<1>8. /\ isUTF8(right) = UTF8From(right)[1]
      /\ Scans(UTF8From(right), Characters(right), WidthsOf(right), m)
  BY <1>1, <1>2, UTF8Scans
<1>9. StartsLike(Characters(left), WidthsOf(left), Characters(str), WidthsOf(str), n)
  BY <1>4, Zenon DEF StartsLike
<1>10. EndsLike(Characters(right), WidthsOf(right), Characters(str), WidthsOf(str), n, m)
  BY <1>5, Zenon DEF EndsLike
<1>11. UTF8From(left)[1] => (UTF8From(str)[1] <=> UTF8From(right)[1])
  BY <1>1, <1>6, <1>7, <1>8, <1>9, <1>10, Halves, Zenon
<1>. QED BY <1>6, <1>7, <1>8, <1>11, Zenon

\* And so for GBK.
LEMMA GBKInHalves ==
  ASSUME NEW str \in Seq(Nat), NEW n \in 1..Len(str), NEW left, NEW right,
         HalvesOf(left, right, str, n)
  PROVE  isGBK(left) => (isGBK(str) <=> isGBK(right))
<1> DEFINE m == Len(str) - n
<1>1. Len(str) \in Nat /\ m \in Nat /\ Len(str) = n + m /\ n \in Nat
  BY LenProperties
<1>2. /\ left \in Seq(Nat) /\ right \in Seq(Nat) /\ Len(left) = n /\ Len(right) = m
      /\ \A i \in 1..n : left[i] = str[i]
      /\ \A i \in 1..m : right[i] = str[n + i]
  BY DEF HalvesOf
<1> HIDE DEF m
<1>3. \A s : \A i \in Nat : /\ Pairings(s)[i] = (i <= Len(s) /\ PairAt(s, i))
                            /\ PairWidths(s)[i] = IF s[i] < 128 THEN 1 ELSE 2
  BY DEF Pairings, PairWidths
<1>4. ASSUME NEW i \in 1..n
      PROVE  Pairings(left)[i] =>
               Pairings(str)[i] /\ PairWidths(str)[i] = PairWidths(left)[i]
  <2>1. left[i] = str[i] /\ i <= Len(str) /\ i \in Nat
    BY <1>1, <1>2
  <2>2. PairAt(left, i) => PairAt(str, i)
    <3>1. i < n => left[i + 1] = str[i + 1] /\ i < Len(str)
      BY <1>1, <1>2
    <3>2. Len(left) = n /\ left[i] = str[i]
      BY <1>2, <2>1
    <3>. QED BY <3>1, <3>2 DEF PairAt
  <2>3. Pairings(left)[i] => PairAt(left, i)
    BY <1>3, <2>1, Zenon
  <2>4. Pairings(str)[i] = (i <= Len(str) /\ PairAt(str, i))
    BY <1>3, <2>1, Zenon
  <2>5. PairWidths(str)[i] = PairWidths(left)[i]
    BY <1>3, <2>1
  <2>. QED BY <2>1, <2>2, <2>3, <2>4, <2>5, Zenon
<1>5. ASSUME NEW i \in 1..m
      PROVE  /\ Pairings(right)[i] = Pairings(str)[n + i]
             /\ PairWidths(right)[i] = PairWidths(str)[n + i]
  <2>1. /\ right[i] = str[n + i] /\ i \in Nat /\ n + i \in Nat
        /\ i <= m /\ n + i <= Len(str)
    BY <1>1, <1>2
  <2>2. PairAt(right, i) <=> PairAt(str, n + i)
    <3>1. i < m => right[i + 1] = str[(n + i) + 1]
      <4>1. i < m => i + 1 \in 1..m /\ n + (i + 1) = (n + i) + 1
        BY <1>1
      <4>. QED BY <1>2, <4>1
    <3>2. i < m <=> n + i < Len(str)
      BY <1>1
    <3>3. Len(right) = m /\ right[i] = str[n + i]
      BY <1>2, <2>1
    <3> DEFINE k == n + i
               pair == (64..126) \cup (128..254)
    <3>4. /\ right[i] < 128 <=> str[k] < 128
          /\ i < Len(right) <=> k < Len(str)
          /\ i < Len(right) => (right[i + 1] \in pair <=> str[k + 1] \in pair)
      <4> HIDE DEF pair
      <4>. QED BY <3>1, <3>2, <3>3
    <3>5. /\ PairAt(right, i) <=> right[i] < 128 \/ (i < Len(right) /\ right[i + 1] \in pair)
          /\ PairAt(str, k) <=> str[k] < 128 \/ (k < Len(str) /\ str[k + 1] \in pair)
      BY Zenon DEF PairAt
    <3> HIDE DEF k, pair
    <3>6. PairAt(right, i) <=> PairAt(str, k)
      BY <3>4, <3>5, Zenon
    <3>. QED BY <3>6 DEF k
  <2>3. (i <= Len(right) /\ PairAt(right, i)) = (n + i <= Len(str) /\ PairAt(str, n + i))
    BY <1>2, <2>1, <2>2
  <2>4. /\ Pairings(right)[i] = (i <= Len(right) /\ PairAt(right, i))
        /\ PairWidths(right)[i] = IF right[i] < 128 THEN 1 ELSE 2
        /\ Pairings(str)[n + i] = (n + i <= Len(str) /\ PairAt(str, n + i))
        /\ PairWidths(str)[n + i] = IF str[n + i] < 128 THEN 1 ELSE 2
    <3>1. i \in Nat /\ n + i \in Nat
      BY <2>1
    <3>2. /\ Pairings(right)[i] = (i <= Len(right) /\ PairAt(right, i))
          /\ PairWidths(right)[i] = IF right[i] < 128 THEN 1 ELSE 2
      BY <1>3, <3>1, Zenon
    <3> DEFINE k == n + i
    <3>3. k \in Nat
      BY <3>1
    <3> HIDE DEF k
    <3>4. /\ Pairings(str)[k] = (k <= Len(str) /\ PairAt(str, k))
          /\ PairWidths(str)[k] = IF str[k] < 128 THEN 1 ELSE 2
      BY <1>3, <3>3, Zenon
    <3>. QED BY <3>2, <3>4, Zenon DEF k
  <2>5. Pairings(right)[i] = Pairings(str)[n + i]
    BY <2>3, <2>4
  <2>6. PairWidths(right)[i] = PairWidths(str)[n + i]
    BY <2>1, <2>4
  <2>. QED BY <2>5, <2>6, Zenon
<1>6. /\ isGBK(left) = GBKFrom(left)[1]
      /\ Scans(GBKFrom(left), Pairings(left), PairWidths(left), n)
  <2>1. left \in Seq(Nat) /\ Len(left) = n
    BY <1>2
  <2>. QED BY <2>1, GBKScans
<1>7. /\ isGBK(str) = GBKFrom(str)[1]
      /\ Scans(GBKFrom(str), Pairings(str), PairWidths(str), n + m)
  BY <1>1, GBKScans
<1>8. /\ isGBK(right) = GBKFrom(right)[1]
      /\ Scans(GBKFrom(right), Pairings(right), PairWidths(right), m)
  <2>1. right \in Seq(Nat) /\ Len(right) = m
    BY <1>2
  <2>. QED BY <2>1, GBKScans
<1>9. StartsLike(Pairings(left), PairWidths(left), Pairings(str), PairWidths(str), n)
  BY <1>4, Zenon DEF StartsLike
<1>10. EndsLike(Pairings(right), PairWidths(right), Pairings(str), PairWidths(str), n, m)
  BY <1>5, Zenon DEF EndsLike
<1>11. GBKFrom(left)[1] => (GBKFrom(str)[1] <=> GBKFrom(right)[1])
  BY <1>1, <1>6, <1>7, <1>8, <1>9, <1>10, Halves, Zenon
<1>. QED BY <1>6, <1>7, <1>8, <1>11, Zenon

-----------------------------------------------------------------------------
(* Texts: characters.                                                      *)

\* The cursor goes on by one byte at least.
LEMMA NextCursor ==
  ASSUME NEW str, NEW c \in Cursors
  PROVE  /\ After(str, c) \in Cursors
         /\ After(str, c)[1] > c[1]
         /\ Width(str[c[1]]) > 0 => After(str, c)[1] = c[1] + Width(str[c[1]])
<1> DEFINE w == Width(str[c[1]])
           b == IF w = 0 THEN c[2] ELSE w
<1>1. w \in 0..4 /\ c[1] \in Nat \ {0} /\ c[2] \in 1..4
  BY WidthBound DEF Cursors
<1> HIDE DEF w
<1>2. b \in 1..4 /\ (w > 0 => b = w)
  BY <1>1
<1>3. After(str, c) = <<c[1] + b, b>>
  BY Zenon DEF After, w
<1> HIDE DEF b
<1>4. c[1] + b \in Nat \ {0} /\ c[1] + b > c[1]
  BY <1>1, <1>2
<1>5. <<c[1] + b, b>> \in Cursors
  BY <1>2, <1>4 DEF Cursors
<1>. QED BY <1>2, <1>3, <1>4, <1>5 DEF w

\* A loop with a cursor.
Walks(g, str, V, base, step) ==
  /\ g \in [Cursors -> V]
  /\ \A c \in Cursors :
       g[c] = IF c[1] > Len(str) THEN base ELSE step[<<c, g[After(str, c)]>>]

\* The recursive functions of cursors are defined.
LEMMA WalkExists ==
  ASSUME NEW str, Len(str) \in Nat, NEW V, NEW base \in V, NEW step \in [Cursors \X V -> V]
  PROVE  \E g : Walks(g, str, V, base, step)
<1> DEFINE S == Cursors
           body(g, c) == IF c[1] > Len(str) THEN base ELSE step[<<c, g[After(str, c)]>>]
           F == [p \in [S -> V] \X S |-> body(p[1], p[2])]
           at == [c \in S |-> c[1]]
<1>1. F \in [[S -> V] \X S -> V]
  <2>1. ASSUME NEW g \in [S -> V], NEW c \in S PROVE body(g, c) \in V
    <3>1. After(str, c) \in S
      BY NextCursor
    <3>2. <<c, g[After(str, c)]>> \in Cursors \X V
      BY <3>1
    <3>3. step[<<c, g[After(str, c)]>>] \in V
      BY <3>2
    <3>. QED BY <3>3
  <2> HIDE DEF body, S
  <2>. QED BY <2>1
<1>2. Advances(F, S, V, at, Len(str))
  <2>1. ASSUME NEW g \in [S -> V], NEW h \in [S -> V], NEW c \in S,
               c[1] <= Len(str) => \A d \in S : d[1] > c[1] => g[d] = h[d]
        PROVE  body(g, c) = body(h, c)
    <3>1. c[1] <= Len(str) => g[After(str, c)] = h[After(str, c)]
      BY <2>1, NextCursor
    <3>2. c[1] > Len(str) \/ c[1] <= Len(str)
      BY DEF Cursors
    <3>. QED BY <3>1, <3>2, Zenon
  <2> HIDE DEF body
  <2>2. \A g \in [S -> V] : \A c \in S : F[<<g, c>>] = body(g, c)
    OBVIOUS
  <2>3. \A c \in S : at[c] = c[1]
    OBVIOUS
  <2> HIDE DEF F, at, S
  <2>. QED BY <2>1, <2>2, <2>3 DEF Advances
<1>3. PICK g : Solves(g, F, S, V)
  <2>1. at \in [S -> Nat]
    BY DEF Cursors
  <2> HIDE DEF F, S, at
  <2>. QED BY <1>1, <1>2, <2>1, Loop, Zenon
<1>4. g \in [S -> V] /\ \A c \in S : g[c] = body(g, c)
  BY <1>3, Zenon DEF Solves
<1>. QED BY <1>4, Zenon DEF Walks

\* The functions of the cursor by which the three loops are defined.
IsHoldsFrom(str, g) ==
  g = [c \in Cursors |-> c[1] > Len(str) \/ (str[c[1]] < 248 /\ g[After(str, c)])]

LastByte(str, c) ==
  IF After(str, c)[1] <= Len(str) THEN After(str, c)[1] - 1 ELSE Len(str)

IsCharsFrom(str, g) ==
  g = [c \in Cursors |->
         IF c[1] > Len(str) THEN <<>>
         ELSE <<SubSeq(str, c[1], LastByte(str, c))>> \o g[After(str, c)]]

IsLengthFrom(str, g) ==
  g = [c \in Cursors |-> IF c[1] > Len(str) THEN 0 ELSE 1 + g[After(str, c)]]

HoldsFrom(str) == CHOOSE g : IsHoldsFrom(str, g)
CharsFrom(str) == CHOOSE g : IsCharsFrom(str, g)
LengthFrom(str) == CHOOSE g : IsLengthFrom(str, g)

\* The first cursor, and what they are from there.
LEMMA FirstCursor ==
  /\ <<1, 1>> \in Cursors
  /\ \A str : AssertHolds(str) = HoldsFrom(str)[<<1, 1>>]
  /\ \A str : SplitUTF8StringToChars(str) = CharsFrom(str)[<<1, 1>>]
  /\ \A str : UTF8StringLength(str) = LengthFrom(str)[<<1, 1>>]
<1>1. <<1, 1>> \in Cursors
  BY DEF Cursors
<1>2. \A str : AssertHolds(str) = HoldsFrom(str)[<<1, 1>>]
  BY DEF AssertHolds, HoldsFrom, IsHoldsFrom
<1>3. \A str : SplitUTF8StringToChars(str) = CharsFrom(str)[<<1, 1>>]
  BY DEF SplitUTF8StringToChars, CharsFrom, IsCharsFrom, LastByte
<1>4. \A str : UTF8StringLength(str) = LengthFrom(str)[<<1, 1>>]
  BY DEF UTF8StringLength, LengthFrom, IsLengthFrom
<1>. QED BY <1>1, <1>2, <1>3, <1>4

\* The bytes of a character are of the text, and there is one at least.
LEMMA CharacterBytes ==
  ASSUME NEW str \in Seq(Nat), NEW c \in Cursors, c[1] <= Len(str)
  PROVE  /\ LastByte(str, c) \in c[1]..Len(str)
         /\ LastByte(str, c) < After(str, c)[1]
         /\ LastByte(str, c) < Len(str) => After(str, c)[1] = LastByte(str, c) + 1
         /\ SubSeq(str, c[1], LastByte(str, c)) \in Seq(Nat)
         /\ Len(SubSeq(str, c[1], LastByte(str, c))) = LastByte(str, c) - c[1] + 1
         /\ \A k \in 1..LastByte(str, c) - c[1] + 1 :
              SubSeq(str, c[1], LastByte(str, c))[k] = str[c[1] + k - 1]
<1> DEFINE next == After(str, c)[1]
           last == LastByte(str, c)
<1>1. Len(str) \in Nat /\ \A i \in 1..Len(str) : str[i] \in Nat
  BY LenProperties
<1>2. c[1] \in Nat \ {0} /\ next \in Nat \ {0} /\ next > c[1]
  <2>1. After(str, c) \in Cursors /\ next > c[1]
    BY NextCursor
  <2>. QED BY <2>1 DEF Cursors
<1>3. last = IF next <= Len(str) THEN next - 1 ELSE Len(str)
  BY DEF LastByte
<1> HIDE DEF next, last
<1>4. last \in c[1]..Len(str) /\ last < next /\ (last < Len(str) => next = last + 1)
  BY <1>1, <1>2, <1>3
<1>5. \A i \in c[1]..last : str[i] \in Nat
  BY <1>1, <1>2, <1>4
<1>6. /\ SubSeq(str, c[1], last) \in Seq(Nat)
      /\ Len(SubSeq(str, c[1], last)) = IF c[1] <= last THEN last - c[1] + 1 ELSE 0
      /\ \A k \in 1..last - c[1] + 1 : SubSeq(str, c[1], last)[k] = str[c[1] + k - 1]
  <2>1. c[1] \in Int /\ last \in Int
    BY <1>2, <1>4
  <2>. QED BY <1>5, <2>1, SubSeqProperties
<1>. QED BY <1>2, <1>4, <1>6 DEF next, last

\* The assertion holds from a cursor on if it does at it and from the next on.
LEMMA HoldsWalk ==
  ASSUME NEW str, Len(str) \in Nat
  PROVE  \A c \in Cursors : HoldsFrom(str)[c] <=>
           (c[1] > Len(str) \/ (str[c[1]] < 248 /\ HoldsFrom(str)[After(str, c)]))
<1> DEFINE small(c) == str[c[1]] < 248
           V == BOOLEAN
           step == [p \in Cursors \X V |-> small(p[1]) /\ p[2]]
           body(g, c) == c[1] > Len(str) \/ (str[c[1]] < 248 /\ g[After(str, c)])
<1>1. step \in [Cursors \X V -> V] /\ TRUE \in V
  OBVIOUS
<1>2. PICK g : Walks(g, str, V, TRUE, step)
  <2> HIDE DEF step, V
  <2>. QED BY <1>1, WalkExists, Zenon
<1>3. ASSUME NEW c \in Cursors PROVE g[c] = body(g, c)
  <2>1. After(str, c) \in Cursors
    BY NextCursor
  <2>2. g[c] \in V /\ g[After(str, c)] \in V
    BY <1>2, <2>1 DEF Walks
  <2>3. step[<<c, g[After(str, c)]>>] = (small(c) /\ g[After(str, c)])
    BY <2>2
  <2>4. g[c] = IF c[1] > Len(str) THEN TRUE ELSE step[<<c, g[After(str, c)]>>]
    BY <1>2 DEF Walks
  <2>5. IF c[1] > Len(str) THEN g[c] = TRUE ELSE g[c] = (small(c) /\ g[After(str, c)])
    BY <2>3, <2>4, Zenon
  <2>. QED BY <2>2, <2>5, Zenon
<1>4. g = [c \in Cursors |-> body(g, c)]
  <2>1. g = [c \in Cursors |-> g[c]]
    BY <1>2, Zenon DEF Walks
  <2> HIDE DEF body
  <2>. QED BY <1>3, <2>1
<1> DEFINE h == HoldsFrom(str)
<1>5. h = [c \in Cursors |-> body(h, c)]
  <2>1. IsHoldsFrom(str, g)
    BY <1>4, Zenon DEF IsHoldsFrom
  <2>2. IsHoldsFrom(str, h)
    BY <2>1, Zenon DEF HoldsFrom
  <2>. QED BY <2>2, Zenon DEF IsHoldsFrom
<1> HIDE DEF h
<1>6. \A c \in Cursors : h[c] <=> body(h, c)
  <2>1. \A c \in Cursors : body(h, c) \in BOOLEAN
    OBVIOUS
  <2> HIDE DEF body
  <2>. QED BY <1>5, <2>1
<1>. QED BY <1>6, Zenon DEF h

\* The characters from a cursor on: the one there and those from the next on.
CharsAt(str, c) ==
  IF c[1] > Len(str) THEN <<>>
  ELSE <<SubSeq(str, c[1], LastByte(str, c))>> \o CharsFrom(str)[After(str, c)]

\* SplitUTF8StringToChars from a cursor on: the character there and those behind it.
LEMMA CharsWalk ==
  ASSUME NEW str \in Seq(Nat)
  PROVE  /\ CharsFrom(str) \in [Cursors -> Seq(Seq(Nat))]
         /\ \A c \in Cursors : CharsFrom(str)[c] = CharsAt(str, c)
<1> DEFINE V == Seq(Seq(Nat))
           char(c) == SubSeq(str, c[1], LastByte(str, c))
           step == [p \in Cursors \X V |->
                      IF p[1][1] > Len(str) THEN <<>> ELSE <<char(p[1])>> \o p[2]]
           body(g, c) == IF c[1] > Len(str) THEN <<>> ELSE <<char(c)>> \o g[After(str, c)]
<1>0. Len(str) \in Nat /\ <<>> \in V /\ \A c \in Cursors : c[1] \in Nat
  BY LenProperties DEF Cursors
<1>1. step \in [Cursors \X V -> V]
  <2>1. ASSUME NEW c \in Cursors, NEW v \in V, ~(c[1] > Len(str)) PROVE <<char(c)>> \o v \in V
    <3>1. char(c) \in Seq(Nat)
      <4>1. c[1] <= Len(str)
        BY <1>0, <2>1
      <4>. QED BY <4>1, CharacterBytes
    <3>2. <<char(c)>> \in V
      BY <3>1
    <3>. QED BY <3>2, ConcatProperties, Zenon
  <2> HIDE DEF V, char
  <2>. QED BY <1>0, <2>1
<1>2. PICK g : Walks(g, str, V, <<>>, step)
  <2> HIDE DEF step, V
  <2>. QED BY <1>0, <1>1, WalkExists, Zenon
<1> DEFINE Is(h) == h = [c \in Cursors |->
                           IF c[1] > Len(str) THEN <<>> ELSE step[<<c, h[After(str, c)]>>]]
<1>3. ASSUME NEW c \in Cursors PROVE g[c] = body(g, c)
  <2>1. After(str, c) \in Cursors
    BY NextCursor
  <2>2. <<c, g[After(str, c)]>> \in Cursors \X V
    BY <1>2, <2>1 DEF Walks
  <2>3. step[<<c, g[After(str, c)]>>] =
          IF c[1] > Len(str) THEN <<>> ELSE <<char(c)>> \o g[After(str, c)]
    <3> HIDE DEF V, char
    <3>. QED BY <2>2
  <2>4. g[c] = IF c[1] > Len(str) THEN <<>> ELSE step[<<c, g[After(str, c)]>>]
    BY <1>2 DEF Walks
  <2>. QED BY <2>3, <2>4, Zenon
<1>4. \A h : IsCharsFrom(str, h) <=> h = [c \in Cursors |-> body(h, c)]
  BY Zenon DEF IsCharsFrom
<1>5. g = [c \in Cursors |-> body(g, c)]
  <2>1. g = [c \in Cursors |-> g[c]]
    BY <1>2, Zenon DEF Walks
  <2> HIDE DEF body
  <2>. QED BY <1>3, <2>1
<1> DEFINE h == CharsFrom(str)
<1>6. h = [c \in Cursors |-> body(h, c)]
  <2>1. IsCharsFrom(str, g)
    BY <1>4, <1>5, Zenon
  <2>2. IsCharsFrom(str, h)
    BY <2>1, Zenon DEF CharsFrom
  <2>. QED BY <1>4, <2>2, Zenon
<1> HIDE DEF h
<1>7. h = g
  <2> DEFINE Same == {i \in Nat : \A c \in Cursors : c[1] = i => g[c] = h[c]}
  <2>1. ASSUME NEW i \in Nat, i <= Len(str) => \A j \in Nat : j > i => j \in Same
        PROVE  i \in Same
    <3> SUFFICES ASSUME NEW c \in Cursors, c[1] = i PROVE g[c] = h[c]
      OBVIOUS
    <3>1. h[c] = body(h, c)
      <4> HIDE DEF body
      <4>. QED BY <1>6
    <3>2. i <= Len(str) => g[After(str, c)] = h[After(str, c)]
      <4>1. /\ After(str, c) \in Cursors /\ After(str, c)[1] > i
            /\ After(str, c)[1] \in Nat
        BY <1>0, NextCursor
      <4>. QED BY <2>1, <4>1
    <3>3. c[1] > Len(str) \/ i <= Len(str)
      BY <1>0
    <3>. QED BY <1>3, <3>1, <3>2, <3>3, Zenon
  <2>2. Nat \subseteq Same
    <3> HIDE DEF Same
    <3>. QED BY <1>0, <2>1, Backwards
  <2>3. \A c \in Cursors : g[c] = h[c]
    BY <1>0, <2>2
  <2>4. g = [c \in Cursors |-> g[c]] /\ h = [c \in Cursors |-> h[c]]
    <3>1. h = [c \in Cursors |-> h[c]]
      <4> HIDE DEF body
      <4>. QED BY <1>6
    <3>. QED BY <1>2, <3>1, Zenon DEF Walks
  <2>. QED BY <2>3, <2>4
<1>8. g \in [Cursors -> V]
  BY <1>2 DEF Walks
<1>. QED BY <1>3, <1>7, <1>8, Zenon DEF CharsAt, h

\* Sequences may be put together in any order.
Joined(a, b, c) == (a \o b) \o c = a \o (b \o c)

\* Concatenation is associative, in a form that can be cited.
LEMMA AnyOrder == ASSUME NEW E PROVE \A a, b, c \in Seq(E) : Joined(a, b, c)
<1>1. \A a, b, c \in Seq(E) : (a \o b) \o c = a \o (b \o c)
  BY ConcatAssociative
<1>. QED BY <1>1 DEF Joined

\* seqs is a and the rest.
FirstAndRest(seqs, a, rest) ==
  /\ Len(seqs) = Len(rest) + 1 /\ Len(rest) \in Nat
  /\ seqs[1] = a
  /\ \A n \in 1..Len(rest) : seqs[n + 1] = rest[n]
  /\ ToSet(seqs) = {a} \cup ToSet(rest)

\* The elements of a sequence behind a first one.
LEMMA SetWithFirst ==
  ASSUME NEW E, NEW a \in E, NEW rest \in Seq(E)
  PROVE  <<a>> \o rest \in Seq(E) /\ FirstAndRest(<<a>> \o rest, a, rest)
<1> DEFINE seqs == <<a>> \o rest
<1>1. /\ seqs \in Seq(E) /\ Len(seqs) = Len(rest) + 1 /\ Len(rest) \in Nat
      /\ seqs[1] = a /\ \A n \in 1..Len(rest) : seqs[n + 1] = rest[n]
  <2>1. <<a>> \in Seq(E) /\ Len(<<a>>) = 1 /\ <<a>>[1] = a
    OBVIOUS
  <2>2. /\ seqs \in Seq(E) /\ Len(seqs) = Len(<<a>>) + Len(rest)
        /\ \A i \in 1..Len(<<a>>) + Len(rest) :
             seqs[i] = IF i <= Len(<<a>>) THEN <<a>>[i] ELSE rest[i - Len(<<a>>)]
    BY <2>1, ConcatProperties, Zenon
  <2>3. Len(rest) \in Nat
    BY LenProperties
  <2> HIDE DEF seqs
  <2>4. seqs[1] = a
    BY <2>1, <2>2, <2>3
  <2>5. ASSUME NEW n \in 1..Len(rest) PROVE seqs[n + 1] = rest[n]
    <3>1. n + 1 \in 1..Len(<<a>>) + Len(rest) /\ ~(n + 1 <= Len(<<a>>)) /\ (n + 1) - Len(<<a>>) = n
      BY <2>1, <2>3
    <3>. QED BY <2>2, <3>1
  <2>. QED BY <2>1, <2>2, <2>3, <2>4, <2>5
<1> HIDE DEF seqs
<1>2. DOMAIN seqs = 1..Len(rest) + 1 /\ DOMAIN rest = 1..Len(rest)
  BY <1>1, LenProperties
<1>3. ToSet(seqs) = {a} \cup ToSet(rest)
  <2>1. ASSUME NEW i \in 1..Len(rest) + 1 PROVE seqs[i] \in {a} \cup ToSet(rest)
    <3>1. CASE i = 1
      BY <1>1, <3>1
    <3>2. CASE i # 1
      <4>1. i - 1 \in 1..Len(rest) /\ (i - 1) + 1 = i
        BY <1>1, <3>2
      <4>2. seqs[i] = rest[i - 1]
        BY <1>1, <4>1
      <4>. QED BY <1>2, <4>1, <4>2 DEF ToSet
    <3>. QED BY <3>1, <3>2
  <2>2. a \in ToSet(seqs)
    <3>1. 1 \in DOMAIN seqs
      BY <1>1, <1>2
    <3>. QED BY <1>1, <3>1 DEF ToSet
  <2>3. ASSUME NEW n \in 1..Len(rest) PROVE rest[n] \in ToSet(seqs)
    <3>1. n + 1 \in DOMAIN seqs /\ seqs[n + 1] = rest[n]
      BY <1>1, <1>2
    <3>. QED BY <3>1 DEF ToSet
  <2>. QED BY <1>2, <2>1, <2>2, <2>3 DEF ToSet
<1>. QED BY <1>1, <1>3 DEF seqs, FirstAndRest

\* Putting sequences together begins with the first of them.
LEMMA FlattenFirst ==
  ASSUME NEW E, NEW a \in Seq(E), NEW rest \in Seq(Seq(E))
  PROVE  /\ FlattenSeq(rest) \in Seq(E)
         /\ <<a>> \o rest \in Seq(Seq(E))
         /\ FlattenSeq(<<a>> \o rest) = a \o FlattenSeq(rest)
<1> DEFINE seqs == <<a>> \o rest
<1>1. /\ seqs \in Seq(Seq(E)) /\ Len(seqs) = Len(rest) + 1 /\ Len(rest) \in Nat
      /\ seqs[1] = a /\ \A n \in 1..Len(rest) : seqs[n + 1] = rest[n] /\ rest[n] \in Seq(E)
  <2>1. Len(rest) \in Nat /\ \A n \in 1..Len(rest) : rest[n] \in Seq(E)
    BY LenProperties
  <2>2. seqs \in Seq(Seq(E)) /\ FirstAndRest(seqs, a, rest)
    BY SetWithFirst, Zenon
  <2> HIDE DEF seqs
  <2>. QED BY <2>1, <2>2 DEF FirstAndRest
<1> HIDE DEF seqs
<1>2. PICK v \in [0..Len(seqs) -> Seq(E)] :
        /\ v[0] = <<>> /\ \A n \in 1..Len(seqs) : v[n] = v[n - 1] \o seqs[n]
        /\ FlattenSeq(seqs) = v[Len(seqs)]
  BY <1>1, Flattened
<1>3. PICK w \in [0..Len(rest) -> Seq(E)] :
        /\ w[0] = <<>> /\ \A n \in 1..Len(rest) : w[n] = w[n - 1] \o rest[n]
        /\ FlattenSeq(rest) = w[Len(rest)]
  BY Flattened
<1> DEFINE Fine == {n \in Nat : n <= Len(rest) => v[n + 1] = a \o w[n]}
<1>4. 0 \in Fine
  <2>1. 1 \in 1..Len(seqs) /\ 1 - 1 = 0 /\ 0 + 1 = 1
    BY <1>1
  <2>2. v[1] = <<>> \o a
    BY <1>1, <1>2, <2>1
  <2>3. <<>> \o a = a /\ a \o <<>> = a
    BY ConcatEmptySeq
  <2>. QED BY <1>3, <2>2, <2>3
<1>5. ASSUME NEW n \in Nat, n \in Fine PROVE n + 1 \in Fine
  <2> SUFFICES ASSUME n + 1 <= Len(rest) PROVE v[(n + 1) + 1] = a \o w[n + 1]
    OBVIOUS
  <2>1. /\ n + 1 \in 1..Len(rest) /\ (n + 1) - 1 = n /\ n <= Len(rest) /\ n \in 0..Len(rest)
        /\ (n + 1) + 1 \in 1..Len(seqs) /\ ((n + 1) + 1) - 1 = n + 1
    BY <1>1
  <2>2. v[(n + 1) + 1] = v[n + 1] \o rest[n + 1]
    BY <1>1, <1>2, <2>1
  <2>3. v[n + 1] = a \o w[n]
    BY <1>5, <2>1
  <2>4. w[n + 1] = w[n] \o rest[n + 1] /\ w[n] \in Seq(E) /\ rest[n + 1] \in Seq(E)
    BY <1>1, <1>3, <2>1
  <2>5. (a \o w[n]) \o rest[n + 1] = a \o (w[n] \o rest[n + 1])
    <3> DEFINE p == w[n]
               q == rest[n + 1]
    <3>1. p \in Seq(E) /\ q \in Seq(E) /\ a \in Seq(E)
      BY <2>4
    <3> HIDE DEF p, q
    <3>2. Joined(a, p, q)
      BY <3>1, AnyOrder, Zenon
    <3>. QED BY <3>2, Zenon DEF p, q, Joined
  <2>. QED BY <2>2, <2>3, <2>4, <2>5, Zenon
<1>6. Nat \subseteq Fine
  <2> HIDE DEF Fine
  <2>. QED BY <1>4, <1>5, Induction
<1>7. v[Len(rest) + 1] = a \o w[Len(rest)]
  <2>1. Len(rest) \in Fine
    <3> HIDE DEF Fine
    <3>. QED BY <1>1, <1>6
  <2>2. Len(rest) <= Len(rest)
    BY <1>1
  <2>. QED BY <2>1, <2>2
<1>8. w[Len(rest)] \in Seq(E)
  <2>1. Len(rest) \in 0..Len(rest)
    BY <1>1
  <2>. QED BY <1>3, <2>1
<1>. QED BY <1>1, <1>2, <1>3, <1>7, <1>8 DEF seqs

\* Nothing put together is nothing.
LEMMA FlattenNone == FlattenSeq(<<>>) = <<>>
BY DEF FlattenSeq

\* The characters from a cursor on are the bytes from it on.
LEMMA CharactersAreBytes ==
  ASSUME NEW str \in Seq(Nat)
  PROVE  \A c \in Cursors : FlattenSeq(CharsFrom(str)[c]) = SubSeq(str, c[1], Len(str))
<1> DEFINE Fine == {i \in Nat : \A c \in Cursors : c[1] = i =>
                      FlattenSeq(CharsFrom(str)[c]) = SubSeq(str, c[1], Len(str))}
<1>0. Len(str) \in Nat /\ \A c \in Cursors : c[1] \in Nat \ {0}
  BY LenProperties DEF Cursors
<1>1. ASSUME NEW i \in Nat, i <= Len(str) => \A j \in Nat : j > i => j \in Fine
      PROVE  i \in Fine
  <2> SUFFICES ASSUME NEW c \in Cursors, c[1] = i
               PROVE  FlattenSeq(CharsFrom(str)[c]) = SubSeq(str, c[1], Len(str))
    OBVIOUS
  <2>1. CharsFrom(str)[c] = CharsAt(str, c)
    BY CharsWalk
  <2>2. CASE i > Len(str)
    <3>1. CharsFrom(str)[c] = <<>>
      BY <2>1, <2>2 DEF CharsAt
    <3>2. SubSeq(str, c[1], Len(str)) = <<>>
      BY <1>0, <2>2, SubSeqEmpty
    <3>. QED BY <3>1, <3>2, FlattenNone
  <2>3. CASE i <= Len(str)
    <3> DEFINE next == After(str, c)
               last == LastByte(str, c)
               a == SubSeq(str, c[1], last)
               rest == CharsFrom(str)[next]
    <3>1. next \in Cursors /\ next[1] > i /\ next[1] \in Nat
      BY <1>0, NextCursor
    <3>2. /\ last \in i..Len(str) /\ last < next[1]
          /\ (last < Len(str) => next[1] = last + 1) /\ a \in Seq(Nat)
      BY <2>3, CharacterBytes
    <3>3. rest \in Seq(Seq(Nat))
      BY <3>1, CharsWalk
    <3>4. CharsFrom(str)[c] = <<a>> \o rest
      <4>1. ~(c[1] > Len(str))
        BY <1>0, <2>3
      <4>. QED BY <2>1, <4>1, Zenon DEF CharsAt
    <3>5. FlattenSeq(rest) = SubSeq(str, next[1], Len(str))
      BY <1>1, <2>3, <3>1
    <3> HIDE DEF next, last, rest
    <3>6. FlattenSeq(<<a>> \o rest) = a \o FlattenSeq(rest)
      <4> HIDE DEF a
      <4>. QED BY <3>2, <3>3, FlattenFirst, Zenon
    <3>7. SubSeq(str, next[1], Len(str)) = SubSeq(str, last + 1, Len(str))
      <4>1. CASE last < Len(str)
        BY <3>2, <4>1
      <4>2. CASE last = Len(str)
        <5>1. next[1] > Len(str) /\ last + 1 > Len(str) /\ next[1] \in Int /\ last + 1 \in Int
          BY <1>0, <3>1, <3>2, <4>2
        <5>. QED BY <1>0, <5>1, SubSeqEmpty
      <4>. QED BY <1>0, <3>2, <4>1, <4>2
    <3>8. a \o SubSeq(str, last + 1, Len(str)) = SubSeq(str, c[1], Len(str))
      <4>1. c[1] \in 1..Len(str) + 1 /\ last \in c[1] - 1..Len(str) /\ Len(str) \in last..Len(str)
        BY <1>0, <2>3, <3>2
      <4>. QED BY <4>1, ConcatAdjacentSubSeq
    <3>. QED BY <3>4, <3>5, <3>6, <3>7, <3>8, Zenon
  <2>. QED BY <1>0, <2>2, <2>3
<1>2. Nat \subseteq Fine
  <2> HIDE DEF Fine
  <2>. QED BY <1>0, <1>1, Backwards
<1>. QED BY <1>0, <1>2

English == Letters \cup {Apostrophe}

\* An English byte is a character.
LEMMA EnglishWidth == \A b \in English : Width(b) = 1
<1> SUFFICES ASSUME NEW b \in English PROVE Width(b) = 1
  OBVIOUS
<1>1. b \in 0..127
  BY DEF English, Letters, Apostrophe
<1>. QED BY <1>1 DEF Width

\* They are English if every byte from it on is.
LEMMA EnglishBytes ==
  ASSUME NEW str \in Seq(Nat)
  PROVE  \A c \in Cursors :
           (\A ch \in ToSet(CharsFrom(str)[c]) : CheckEnglishChar(ch))
             <=> (\A k \in c[1]..Len(str) : str[k] \in English)
<1> DEFINE Fine == {i \in Nat : \A c \in Cursors : c[1] = i =>
                      ((\A ch \in ToSet(CharsFrom(str)[c]) : CheckEnglishChar(ch))
                         <=> (\A k \in c[1]..Len(str) : str[k] \in English))}
<1>0. Len(str) \in Nat /\ \A c \in Cursors : c[1] \in Nat \ {0}
  BY LenProperties DEF Cursors
<1>1. ASSUME NEW i \in Nat, i <= Len(str) => \A j \in Nat : j > i => j \in Fine
      PROVE  i \in Fine
  <2> SUFFICES ASSUME NEW c \in Cursors, c[1] = i
               PROVE  (\A ch \in ToSet(CharsFrom(str)[c]) : CheckEnglishChar(ch))
                        <=> (\A k \in i..Len(str) : str[k] \in English)
    OBVIOUS
  <2>1. CharsFrom(str)[c] = CharsAt(str, c)
    BY CharsWalk
  <2>2. CASE i > Len(str)
    <3>1. CharsFrom(str)[c] = <<>>
      BY <2>1, <2>2 DEF CharsAt
    <3>2. ToSet(<<>>) = {}
      BY DEF ToSet
    <3>. QED BY <1>0, <2>2, <3>1, <3>2
  <2>3. CASE i <= Len(str)
    <3> DEFINE next == After(str, c)
               last == LastByte(str, c)
               a == SubSeq(str, c[1], last)
               rest == CharsFrom(str)[next]
    <3>1. next \in Cursors /\ next[1] > i /\ next[1] \in Nat
          /\ (Width(str[i]) > 0 => next[1] = i + Width(str[i]))
      BY <1>0, NextCursor
    <3>2. /\ last \in i..Len(str) /\ last < next[1]
          /\ (last < Len(str) => next[1] = last + 1) /\ a \in Seq(Nat)
          /\ Len(a) = last - i + 1 /\ \A k \in 1..last - i + 1 : a[k] = str[i + k - 1]
      BY <2>3, CharacterBytes
    <3>3. rest \in Seq(Seq(Nat))
      BY <3>1, CharsWalk
    <3>4. CharsFrom(str)[c] = <<a>> \o rest
      <4>1. ~(c[1] > Len(str))
        BY <1>0, <2>3
      <4>. QED BY <2>1, <4>1, Zenon DEF CharsAt
    <3>5. (\A ch \in ToSet(rest) : CheckEnglishChar(ch))
            <=> (\A k \in next[1]..Len(str) : str[k] \in English)
      BY <1>1, <2>3, <3>1
    <3>6. ToSet(CharsFrom(str)[c]) = {a} \cup ToSet(rest)
      <4> HIDE DEF a, rest
      <4>1. FirstAndRest(<<a>> \o rest, a, rest)
        BY <3>2, <3>3, SetWithFirst, Zenon
      <4>. QED BY <3>4, <4>1, Zenon DEF FirstAndRest
    <3> HIDE DEF next, last, rest, a
    <3>7. CheckEnglishChar(a) <=> (last = i /\ str[i] \in English)
      <4>1. Len(a) = 1 <=> last = i
        BY <3>2
      <4>2. a[1] = str[i]
        <5>1. 1 \in 1..last - i + 1 /\ i + 1 - 1 = i
          BY <3>2
        <5>. QED BY <3>2, <5>1
      <4>. QED BY <4>1, <4>2 DEF CheckEnglishChar, English
    <3>8. str[i] \in English => last = i
      <4> SUFFICES ASSUME str[i] \in English PROVE last = i
        OBVIOUS
      <4>2. Width(str[i]) = 1
        BY EnglishWidth
      <4>3. next[1] = i + 1
        BY <3>1, <4>2
      <4>. QED BY <3>2, <4>3
    <3>9. last = i => \A k \in i..Len(str) : k = i \/ k \in next[1]..Len(str)
      <4>1. last = i => next[1] = i + 1 \/ i = Len(str)
        BY <1>0, <3>2
      <4>. QED BY <1>0, <3>1, <4>1
    <3>10. \A k \in next[1]..Len(str) : k \in i..Len(str)
      BY <1>0, <3>1
    <3>11. i \in i..Len(str)
      BY <1>0, <2>3
    <3>. QED BY <3>5, <3>6, <3>7, <3>8, <3>9, <3>10, <3>11, Zenon
  <2>. QED BY <1>0, <2>2, <2>3
<1>2. Nat \subseteq Fine
  <2> HIDE DEF Fine
  <2>. QED BY <1>0, <1>1, Backwards
<1>. QED BY <1>0, <1>2

\* One character passes alone.
LEMMA CharacterPasses ==
  ASSUME NEW str \in Seq(Nat), NEW i \in 1..Len(str), CharacterAt(str, i),
         NEW a \in Seq(Nat), Len(a) = Width(str[i]),
         \A k \in 1..Len(a) : a[k] = str[i + k - 1]
  PROVE  isUTF8(a) /\ Width(a[1]) = Len(a)
<1> DEFINE w == Width(str[i])
<1>1. w \in 0..4 /\ w > 0 /\ Len(a) = w /\ Len(str) \in Nat
      /\ \A k \in i + 1..i + w - 1 : Continues(str[k])
  BY WidthBound, LenProperties DEF CharacterAt
<1> HIDE DEF w
<1>2. \A k \in 1..w : a[k] = str[i + k - 1]
  BY <1>1
<1>3. a[1] = str[i]
  <2>1. 1 \in 1..w /\ i + 1 - 1 = i
    BY <1>1
  <2>. QED BY <1>2, <2>1
<1>4. Width(a[1]) = w
  BY <1>3 DEF w
<1>5. CharacterAt(a, 1)
  <2>1. \A k \in 1 + 1..1 + w - 1 : Continues(a[k])
    <3> SUFFICES ASSUME NEW k \in 1 + 1..1 + w - 1 PROVE Continues(a[k])
      OBVIOUS
    <3>1. k \in 1..w /\ i + k - 1 \in i + 1..i + w - 1
      BY <1>1
    <3>. QED BY <1>1, <1>2, <3>1
  <2>2. 1 + w - 1 <= Len(a)
    BY <1>1
  <2>. QED BY <1>1, <1>4, <2>1, <2>2 DEF CharacterAt
<1>6. /\ isUTF8(a) = UTF8From(a)[1]
      /\ Scans(UTF8From(a), Characters(a), WidthsOf(a), w)
  <2>1. Len(a) \in Nat
    BY <1>1
  <2>. QED BY <1>1, <2>1, UTF8Scans
<1>7. Characters(a)[1] /\ WidthsOf(a)[1] = w
  <2>1. Characters(a)[1] = CharacterAt(a, 1) /\ WidthsOf(a)[1] = Width(a[1])
    BY DEF Characters, WidthsOf
  <2>. QED BY <1>4, <1>5, <2>1
<1>8. UTF8From(a)[1 + w]
  <2>1. 1 + w \in Nat \ {0} /\ 1 + w > w
    BY <1>1
  <2>. QED BY <1>6, <2>1 DEF Scans
<1>9. UTF8From(a)[1]
  <2>1. 1 \in Nat \ {0}
    OBVIOUS
  <2>2. UTF8From(a)[1] <=> (1 > w \/ (Characters(a)[1] /\ UTF8From(a)[1 + WidthsOf(a)[1]]))
    BY <1>6, <2>1, Zenon DEF Scans
  <2>. QED BY <1>7, <1>8, <2>2, Zenon
<1>. QED BY <1>1, <1>4, <1>6, <1>9

\* The loop that counts.
LEMMA LengthWalk ==
  ASSUME NEW str, Len(str) \in Nat
  PROVE  \A c \in Cursors : LengthFrom(str)[c] =
           IF c[1] > Len(str) THEN 0 ELSE 1 + LengthFrom(str)[After(str, c)]
<1> DEFINE V == Nat
           step == [p \in Cursors \X V |-> 1 + p[2]]
           body(g, c) == IF c[1] > Len(str) THEN 0 ELSE 1 + g[After(str, c)]
<1>1. step \in [Cursors \X V -> V] /\ 0 \in V
  OBVIOUS
<1>2. PICK g : Walks(g, str, V, 0, step)
  <2> HIDE DEF step, V
  <2>. QED BY <1>1, WalkExists, Zenon
<1>3. ASSUME NEW c \in Cursors PROVE g[c] = body(g, c)
  <2>1. After(str, c) \in Cursors
    BY NextCursor
  <2>2. <<c, g[After(str, c)]>> \in Cursors \X V
    BY <1>2, <2>1 DEF Walks
  <2>3. step[<<c, g[After(str, c)]>>] = 1 + g[After(str, c)]
    BY <2>2
  <2>4. g[c] = IF c[1] > Len(str) THEN 0 ELSE step[<<c, g[After(str, c)]>>]
    BY <1>2 DEF Walks
  <2>. QED BY <2>3, <2>4, Zenon
<1>4. g = [c \in Cursors |-> body(g, c)]
  <2>1. g = [c \in Cursors |-> g[c]]
    BY <1>2, Zenon DEF Walks
  <2> HIDE DEF body
  <2>. QED BY <1>3, <2>1
<1> DEFINE h == LengthFrom(str)
<1>5. h = [c \in Cursors |-> body(h, c)]
  <2>1. IsLengthFrom(str, g)
    BY <1>4, Zenon DEF IsLengthFrom
  <2>2. IsLengthFrom(str, h)
    BY <2>1, Zenon DEF LengthFrom
  <2>. QED BY <2>2, Zenon DEF IsLengthFrom
<1> HIDE DEF h
<1>6. \A c \in Cursors : h[c] = body(h, c)
  <2> HIDE DEF body
  <2>. QED BY <1>5
<1>. QED BY <1>6, Zenon DEF h

\* A byte that begins a character is less than 248.
LEMMA FirstBytes == \A b \in Nat : Width(b) # 0 => b < 248
BY DEF Width

\* What the loops make of a text that is UTF-8 from the cursor on.
Agree8(str, c) ==
  /\ Len(CharsFrom(str)[c]) = LengthFrom(str)[c]
  /\ UTF8From(str)[c[1]] =>
       /\ HoldsFrom(str)[c]
       /\ \A ch \in ToSet(CharsFrom(str)[c]) : isUTF8(ch) /\ Width(ch[1]) = Len(ch)

\* Of what passes isUTF8, the loop over cursors goes where the test goes.
LEMMA LoopsAgree ==
  ASSUME NEW str \in Seq(Nat)
  PROVE  \A c \in Cursors : Agree8(str, c)
<1> DEFINE Fine == {i \in Nat : \A c \in Cursors : c[1] = i => Agree8(str, c)}
<1>0. Len(str) \in Nat /\ \A c \in Cursors : c[1] \in Nat \ {0}
  BY LenProperties DEF Cursors
<1>1. ASSUME NEW i \in Nat, i <= Len(str) => \A j \in Nat : j > i => j \in Fine
      PROVE  i \in Fine
  <2> SUFFICES ASSUME NEW c \in Cursors, c[1] = i PROVE Agree8(str, c)
    OBVIOUS
  <2>1. /\ CharsFrom(str)[c] = CharsAt(str, c)
        /\ LengthFrom(str)[c] = IF i > Len(str) THEN 0 ELSE 1 + LengthFrom(str)[After(str, c)]
        /\ HoldsFrom(str)[c] <=>
             (i > Len(str) \/ (str[i] < 248 /\ HoldsFrom(str)[After(str, c)]))
    BY <1>0, CharsWalk, LengthWalk, HoldsWalk
  <2>2. CASE i > Len(str)
    <3>1. CharsFrom(str)[c] = <<>> /\ LengthFrom(str)[c] = 0 /\ HoldsFrom(str)[c]
      BY <2>1, <2>2 DEF CharsAt
    <3>2. ToSet(<<>>) = {} /\ Len(<<>>) = 0
      BY DEF ToSet
    <3>. QED BY <3>1, <3>2 DEF Agree8
  <2>3. CASE i <= Len(str)
    <3> DEFINE next == After(str, c)
               last == LastByte(str, c)
               a == SubSeq(str, c[1], last)
               rest == CharsFrom(str)[next]
               w == Width(str[i])
    <3>1. /\ next \in Cursors /\ next[1] > i /\ next[1] \in Nat
          /\ (w > 0 => next[1] = i + w)
      BY <1>0, NextCursor
    <3>2. /\ last \in i..Len(str) /\ last < next[1]
          /\ (last < Len(str) => next[1] = last + 1) /\ a \in Seq(Nat)
          /\ Len(a) = last - i + 1 /\ \A k \in 1..last - i + 1 : a[k] = str[i + k - 1]
      BY <2>3, CharacterBytes
    <3>3. rest \in Seq(Seq(Nat))
      BY <3>1, CharsWalk
    <3>4. CharsFrom(str)[c] = <<a>> \o rest
      <4>1. ~(c[1] > Len(str))
        BY <1>0, <2>3
      <4>. QED BY <2>1, <4>1, Zenon DEF CharsAt
    <3>5. Agree8(str, next)
      BY <1>1, <2>3, <3>1
    <3>6. FirstAndRest(CharsFrom(str)[c], a, rest)
      <4> HIDE DEF a, rest
      <4>1. FirstAndRest(<<a>> \o rest, a, rest)
        BY <3>2, <3>3, SetWithFirst, Zenon
      <4>. QED BY <3>4, <4>1, Zenon
    <3>7. w \in 0..4
      BY WidthBound
    <3>8. /\ i \in 1..Len(str) /\ i \in Nat \ {0} /\ ~(i > Len(str))
      BY <1>0, <2>3
    <3> HIDE DEF next, last, rest, a, w
    <3>9. Len(CharsFrom(str)[c]) = LengthFrom(str)[c]
      <4>1. Len(CharsFrom(str)[c]) = Len(rest) + 1 /\ Len(rest) \in Nat
        BY <3>6, Zenon DEF FirstAndRest
      <4>2. LengthFrom(str)[c] = 1 + LengthFrom(str)[next]
        BY <2>1, <3>8, Zenon DEF next
      <4>3. Len(rest) = LengthFrom(str)[next]
        BY <3>5, Zenon DEF Agree8, rest
      <4>. QED BY <4>1, <4>2, <4>3
    <3>10. ASSUME UTF8From(str)[i]
           PROVE  /\ HoldsFrom(str)[c]
                  /\ \A ch \in ToSet(CharsFrom(str)[c]) : isUTF8(ch) /\ Width(ch[1]) = Len(ch)
      <4>1. CharacterAt(str, i) /\ UTF8From(str)[i + w]
        <5>1. Scans(UTF8From(str), Characters(str), WidthsOf(str), Len(str))
          BY <1>0, UTF8Scans
        <5>2. Characters(str)[i] = CharacterAt(str, i) /\ WidthsOf(str)[i] = w
          BY DEF Characters, WidthsOf, w
        <5>. QED BY <3>8, <3>10, <5>1, <5>2, Zenon DEF Scans
      <4>2. w > 0 /\ i + w - 1 <= Len(str) /\ w = Width(str[i])
        BY <4>1 DEF CharacterAt, w
      <4>3. next[1] = i + w
        BY <3>1, <4>2
      <4>4. last = i + w - 1
        <5>1. /\ last \in Int /\ last <= Len(str) /\ last < i + w /\ Len(str) \in Nat
              /\ (last < Len(str) => i + w = last + 1) /\ i \in Nat
          <6>1. last \in i..Len(str) /\ last < next[1] /\ (last < Len(str) => next[1] = last + 1)
            BY <3>2
          <6>2. i \in Nat /\ Len(str) \in Nat
            BY <1>0, <3>8
          <6>. QED BY <4>3, <6>1, <6>2
        <5>2. w \in Int /\ i + w - 1 <= Len(str)
          BY <3>7, <4>2
        <5>3. last < Len(str) \/ last = Len(str)
          BY <5>1
        <5>. QED BY <5>1, <5>2, <5>3
      <4>5. Len(a) = w /\ \A k \in 1..Len(a) : a[k] = str[i + k - 1]
        <5>1. last - i + 1 = w
          BY <3>7, <3>8, <4>4
        <5>. QED BY <3>2, <5>1
      <4>6. isUTF8(a) /\ Width(a[1]) = Len(a)
        <5>1. i \in 1..Len(str) /\ CharacterAt(str, i) /\ a \in Seq(Nat)
              /\ Len(a) = Width(str[i]) /\ \A k \in 1..Len(a) : a[k] = str[i + k - 1]
          BY <3>2, <3>8, <4>1, <4>2, <4>5, Zenon
        <5>. QED BY <5>1, CharacterPasses, Zenon
      <4>7. UTF8From(str)[next[1]]
        BY <4>1, <4>3
      <4>8. HoldsFrom(str)[next] /\ \A ch \in ToSet(rest) : isUTF8(ch) /\ Width(ch[1]) = Len(ch)
        BY <3>5, <4>7, Zenon DEF Agree8, rest
      <4>9. str[i] < 248
        <5>1. str[i] \in Nat
          BY <3>8, ElementOfSeq
        <5>2. Width(str[i]) # 0
          BY <3>7, <4>2
        <5>. QED BY <5>1, <5>2, FirstBytes
      <4>10. HoldsFrom(str)[c]
        BY <2>1, <4>8, <4>9, Zenon DEF next
      <4>11. ToSet(CharsFrom(str)[c]) = {a} \cup ToSet(rest)
        BY <3>6, Zenon DEF FirstAndRest
      <4>. QED BY <4>6, <4>8, <4>10, <4>11, Zenon
    <3>. QED BY <3>9, <3>10, Zenon DEF Agree8
  <2>. QED BY <1>0, <2>2, <2>3
<1>2. Nat \subseteq Fine
  <2> HIDE DEF Fine
  <2>. QED BY <1>0, <1>1, Backwards
<1>. QED BY <1>0, <1>2

\* Cutting any text into characters loses no byte, and agrees with the tests.
LEMMA TextIsItsCharacters ==
  ASSUME NEW str \in Seq(Nat)
  PROVE  CharactersAreWhole(str)
<1> DEFINE c == <<1, 1>>
           chars == SplitUTF8StringToChars(str)
<1>1. /\ c \in Cursors /\ c[1] = 1
      /\ AssertHolds(str) = HoldsFrom(str)[c] /\ chars = CharsFrom(str)[c]
      /\ UTF8StringLength(str) = LengthFrom(str)[c]
  BY FirstCursor
<1>2. Len(str) \in Nat /\ DOMAIN str = 1..Len(str)
  BY LenProperties
<1> HIDE DEF c, chars
<1>3. FlattenSeq(chars) = str
  <2>1. FlattenSeq(CharsFrom(str)[c]) = SubSeq(str, c[1], Len(str))
    BY <1>1, CharactersAreBytes
  <2>2. SubSeq(str, 1, Len(str)) = str
    BY SubSeqFull
  <2>. QED BY <1>1, <2>1, <2>2
<1>4. CheckEnglishWord(str) <=> ToSet(str) \subseteq Letters \cup {Apostrophe}
  <2>1. (\A ch \in ToSet(chars) : CheckEnglishChar(ch)) <=> (\A k \in 1..Len(str) : str[k] \in English)
    BY <1>1, EnglishBytes
  <2>2. ToSet(str) \subseteq English <=> (\A k \in 1..Len(str) : str[k] \in English)
    BY <1>2 DEF ToSet
  <2>. QED BY <2>1, <2>2, Zenon DEF CheckEnglishWord, English, chars
<1>5. ASSUME isUTF8(str)
      PROVE  /\ AssertHolds(str)
             /\ Len(chars) = UTF8StringLength(str)
             /\ \A ch \in ToSet(chars) : isUTF8(ch) /\ Width(ch[1]) = Len(ch)
  <2>1. UTF8From(str)[1]
    BY <1>2, <1>5, UTF8Scans
  <2>2. Agree8(str, c)
    BY <1>1, LoopsAgree
  <2>. QED BY <1>1, <2>1, <2>2 DEF Agree8
<1>6. ASSUME NEW n \in DOMAIN str
      PROVE  LET left == SubSeq(str, 1, n)  right == SubSeq(str, n + 1, Len(str))
             IN  /\ isUTF8(left) => (isUTF8(str) <=> isUTF8(right))
                 /\ isGBK(left) => (isGBK(str) <=> isGBK(right))
  <2> DEFINE left == SubSeq(str, 1, n)
             right == SubSeq(str, n + 1, Len(str))
  <2>1. n \in 1..Len(str)
    BY <1>2
  <2>2. HalvesOf(left, right, str, n)
    BY <2>1, CutInTwo
  <2> HIDE DEF left, right
  <2>3. isUTF8(left) => (isUTF8(str) <=> isUTF8(right))
    BY <2>1, <2>2, UTF8InHalves, Zenon
  <2>4. isGBK(left) => (isGBK(str) <=> isGBK(right))
    BY <2>1, <2>2, GBKInHalves, Zenon
  <2>. QED BY <2>3, <2>4 DEF left, right
<1>7. isUTF8(str) =>
        LET chs == SplitUTF8StringToChars(str)
        IN  /\ AssertHolds(str)
            /\ Len(chs) = UTF8StringLength(str)
            /\ \A ch \in ToSet(chs) : isUTF8(ch) /\ Width(ch[1]) = Len(ch)
  BY <1>5, Zenon DEF chars
<1>8. FlattenSeq(SplitUTF8StringToChars(str)) = str
  BY <1>3 DEF chars
<1>. QED BY <1>4, <1>6, <1>7, <1>8, Zenon DEF CharactersAreWhole

-----------------------------------------------------------------------------
(* Texts: parts.                                                           *)

\* at is where a delimiter is found from start on, or behind the end.
FoundAt(at, full, delim, start) ==
  /\ at \in start..Len(full) + 1
  /\ \A j \in start..at - 1 : full[j] \notin delim
  /\ at <= Len(full) => full[at] \in delim

\* FindFirstOf finds the first delimiter, or the end.
LEMMA FirstOf ==
  ASSUME NEW full, Len(full) \in Nat, NEW delim, NEW start \in Nat \ {0}
  PROVE  /\ start <= Len(full) + 1 => FoundAt(FindFirstOf(full, delim, start), full, delim, start)
         /\ start > Len(full) => FindFirstOf(full, delim, start) = Len(full) + 1
<1> DEFINE I == {i \in start..Len(full) : full[i] \in delim}
           at == FindFirstOf(full, delim, start)
<1>1. at = LET s == IF I # {} THEN Min(I) ELSE 0 IN IF s = 0 THEN Len(full) + 1 ELSE s
  BY DEF FindFirstOf, SelectInSubSeq
<1>2. I \subseteq Nat /\ \A i \in I : i \in start..Len(full) /\ full[i] \in delim
  OBVIOUS
<1>3. CASE I = {}
  <2>1. at = Len(full) + 1
    <3> HIDE DEF I
    <3>. QED BY <1>1, <1>3
  <2>2. \A j \in start..Len(full) : full[j] \notin delim
    BY <1>3
  <2> HIDE DEF I, at
  <2>. QED BY <2>1, <2>2 DEF FoundAt, at
<1>4. CASE I # {}
  <2>1. Min(I) \in I /\ \A j \in I : Min(I) <= j
    <3> HIDE DEF I
    <3>. QED BY <1>2, <1>4, MinInSet
  <2> DEFINE m == Min(I)
  <2>2. m \in start..Len(full) /\ full[m] \in delim /\ m # 0
    BY <2>1
  <2>3. \A j \in start..m - 1 : full[j] \notin delim
    <3> SUFFICES ASSUME NEW j \in start..m - 1, full[j] \in delim PROVE FALSE
      OBVIOUS
    <3>1. j \in I /\ j < m
      BY <2>2
    <3>. QED BY <2>1, <2>2, <3>1
  <2>4. at = m
    <3> HIDE DEF I
    <3>. QED BY <1>1, <1>4, <2>2
  <2> HIDE DEF I, at, m
  <2>. QED BY <2>2, <2>3, <2>4 DEF FoundAt, at
<1>. QED BY <1>3, <1>4

Starts == Nat \ {0}

\* The function of positions by which SplitStringToVector is defined.
PartAt(full, delim, omit, start) ==
  IF Kept(omit, start, FindFirstOf(full, delim, start), Len(full))
  THEN <<SubSeq(full, start, FindFirstOf(full, delim, start) - 1)>> ELSE <<>>

IsPartsFrom(full, delim, omit, g) ==
  g = [start \in Nat \ {0} |->
         LET found == FindFirstOf(full, delim, start)
             part == IF Kept(omit, start, found, Len(full))
                     THEN <<SubSeq(full, start, found - 1)>> ELSE <<>>
         IN  part \o IF found > Len(full) THEN <<>> ELSE g[found + 1]]

PartsFrom(full, delim, omit) == CHOOSE g : IsPartsFrom(full, delim, omit, g)

PartsAt(full, delim, omit, start) ==
  PartAt(full, delim, omit, start) \o
    IF FindFirstOf(full, delim, start) > Len(full) THEN <<>>
    ELSE PartsFrom(full, delim, omit)[FindFirstOf(full, delim, start) + 1]

\* A part is of the text.
LEMMA PartsAreTexts ==
  ASSUME NEW full \in Seq(Nat), NEW delim, NEW omit, NEW start \in Starts
  PROVE  PartAt(full, delim, omit, start) \in Seq(Seq(Nat))
<1> DEFINE found == FindFirstOf(full, delim, start)
<1>1. Len(full) \in Nat /\ \A i \in 1..Len(full) : full[i] \in Nat
  BY LenProperties
<1>2. found \in Nat /\ found - 1 <= Len(full)
  <2>1. CASE start > Len(full)
    BY <1>1, <2>1, FirstOf DEF Starts
  <2>2. CASE start <= Len(full)
    <3>1. FoundAt(found, full, delim, start)
      BY <1>1, <2>2, FirstOf DEF Starts
    <3> HIDE DEF found
    <3>. QED BY <1>1, <3>1 DEF FoundAt, Starts
  <2>. QED BY <1>1, <2>1, <2>2 DEF Starts
<1> HIDE DEF found
<1>3. \A i \in start..found - 1 : full[i] \in Nat
  BY <1>1, <1>2 DEF Starts
<1>4. SubSeq(full, start, found - 1) \in Seq(Nat)
  <2>1. start \in Int /\ found - 1 \in Int
    BY <1>2 DEF Starts
  <2>. QED BY <1>3, <2>1, SubSeqProperties
<1>. QED BY <1>4 DEF PartAt, found

\* What is split from a position on: the part there and those behind it.
LEMMA PartsWalk ==
  ASSUME NEW full \in Seq(Nat), NEW delim, NEW omit
  PROVE  /\ SplitStringToVector(full, delim, omit) = PartsFrom(full, delim, omit)[1]
         /\ PartsFrom(full, delim, omit) \in [Starts -> Seq(Seq(Nat))]
         /\ \A start \in Starts :
              PartsFrom(full, delim, omit)[start] = PartsAt(full, delim, omit, start)
<1> DEFINE S == Starts
           V == Seq(Seq(Nat))
           find(i) == FindFirstOf(full, delim, i)
           part(i) == PartAt(full, delim, omit, i)
           body(g, i) == part(i) \o IF find(i) > Len(full) THEN <<>> ELSE g[find(i) + 1]
           F == [p \in [S -> V] \X S |-> body(p[1], p[2])]
           at == [i \in S |-> i]
<1>0. Len(full) \in Nat /\ <<>> \in V /\ \A i \in S : part(i) \in V
  <2>1. \A i \in S : part(i) \in V
    BY PartsAreTexts
  <2>. QED BY <2>1, LenProperties
<1>1. ASSUME NEW i \in S, ~(find(i) > Len(full))
      PROVE  find(i) + 1 \in S /\ find(i) + 1 > i /\ i <= Len(full)
  <2>1. i \in Nat \ {0}
    BY DEF Starts
  <2>2. i <= Len(full)
    <3>1. i > Len(full) => find(i) = Len(full) + 1
      BY <1>0, <2>1, FirstOf
    <3>. QED BY <1>0, <1>1, <2>1, <3>1
  <2>3. FoundAt(find(i), full, delim, i)
    <3>1. i <= Len(full) + 1
      BY <1>0, <2>1, <2>2
    <3>. QED BY <1>0, <2>1, <3>1, FirstOf
  <2> HIDE DEF find
  <2>. QED BY <1>0, <2>1, <2>2, <2>3 DEF FoundAt, Starts
<1> HIDE DEF find, part
<1>2. ASSUME NEW g, NEW i \in S, ~(find(i) > Len(full)) => g[find(i) + 1] \in V
      PROVE  body(g, i) \in V
  <2>1. (IF find(i) > Len(full) THEN <<>> ELSE g[find(i) + 1]) \in V
    BY <1>0, <1>2
  <2>. QED BY <1>0, <2>1, ConcatProperties, Zenon
<1>3. F \in [[S -> V] \X S -> V]
  <2>1. ASSUME NEW g \in [S -> V], NEW i \in S PROVE body(g, i) \in V
    <3>1. ~(find(i) > Len(full)) => g[find(i) + 1] \in V
      BY <1>1
    <3> HIDE DEF body, V
    <3>. QED BY <1>2, <3>1
  <2> HIDE DEF body, V
  <2>. QED BY <2>1
<1>4. Advances(F, S, V, at, Len(full))
  <2>1. ASSUME NEW g \in [S -> V], NEW h \in [S -> V], NEW i \in S,
               i <= Len(full) => \A j \in S : j > i => g[j] = h[j]
        PROVE  body(g, i) = body(h, i)
    <3>1. ~(find(i) > Len(full)) => g[find(i) + 1] = h[find(i) + 1]
      BY <1>1, <2>1
    <3>. QED BY <3>1, Zenon
  <2> HIDE DEF body
  <2>2. \A g \in [S -> V] : \A i \in S : F[<<g, i>>] = body(g, i)
    OBVIOUS
  <2>3. \A i \in S : at[i] = i
    OBVIOUS
  <2> HIDE DEF F, at, S, V
  <2>4. ASSUME NEW g \in [S -> V], NEW h \in [S -> V], NEW i \in S,
               at[i] <= Len(full) => \A j \in S : at[j] > at[i] => g[j] = h[j]
        PROVE  F[<<g, i>>] = F[<<h, i>>]
    <3>1. i <= Len(full) => \A j \in S : j > i => g[j] = h[j]
      BY <2>3, <2>4
    <3>2. body(g, i) = body(h, i)
      BY <2>1, <3>1
    <3>. QED BY <2>2, <3>2, Zenon
  <2>. QED BY <2>4, Zenon DEF Advances
<1>5. PICK g : Solves(g, F, S, V)
  <2>1. at \in [S -> Nat]
    BY DEF Starts
  <2> HIDE DEF F, S, at, V
  <2>. QED BY <1>0, <1>3, <1>4, <2>1, Loop, Zenon
<1>6. g = [i \in S |-> body(g, i)]
  <2>1. g \in [S -> V] /\ \A i \in S : g[i] = body(g, i)
    BY <1>5, Zenon DEF Solves
  <2> HIDE DEF body
  <2>. QED BY <2>1
<1> DEFINE h == PartsFrom(full, delim, omit)
<1>7. h = [i \in S |-> body(h, i)]
  <2>1. \A x : IsPartsFrom(full, delim, omit, x) <=> x = [i \in S |-> body(x, i)]
    BY Zenon DEF IsPartsFrom, PartAt, Starts, find, part
  <2>2. IsPartsFrom(full, delim, omit, g)
    BY <1>6, <2>1, Zenon
  <2>3. IsPartsFrom(full, delim, omit, h)
    BY <2>2, Zenon DEF PartsFrom
  <2>. QED BY <2>1, <2>3, Zenon
<1>8. SplitStringToVector(full, delim, omit) = h[1]
  BY DEF SplitStringToVector, PartsFrom, IsPartsFrom
<1> HIDE DEF h
<1>9. \A i \in S : h[i] = body(h, i)
  <2> HIDE DEF body
  <2>. QED BY <1>7
<1>10. \A i \in S : h[i] \in V
  <2> DEFINE Fine == {i \in Nat : i \in S => h[i] \in V}
  <2>1. ASSUME NEW i \in Nat, i <= Len(full) => \A j \in Nat : j > i => j \in Fine
        PROVE  i \in Fine
    <3> SUFFICES ASSUME i \in S PROVE h[i] \in V
      OBVIOUS
    <3>1. ~(find(i) > Len(full)) => h[find(i) + 1] \in V
      <4>1. \A j \in S : j \in Nat
        BY DEF Starts
      <4> HIDE DEF V
      <4>. QED BY <1>1, <2>1, <4>1
    <3> HIDE DEF body, V
    <3>. QED BY <1>2, <1>9, <3>1
  <2>2. Nat \subseteq Fine
    <3> HIDE DEF Fine
    <3>. QED BY <1>0, <2>1, Backwards
  <2>3. \A i \in S : i \in Nat
    BY DEF Starts
  <2> HIDE DEF V
  <2>. QED BY <2>2, <2>3
<1>11. h \in [S -> V]
  <2> HIDE DEF body, V
  <2>. QED BY <1>7, <1>10
<1>. QED BY <1>8, <1>9, <1>11, Zenon DEF h, PartsAt, find, part

BeginsWith(s, a, rest) ==
  Len(s) = Len(rest) + 1 /\ s[1] = a /\ \A n \in 1..Len(rest) : s[n + 1] = rest[n]

IsBoth(s, a, rest) == s = <<a>> \o rest

\* Two sequences with the same first element and the same others are the same.
LEMMA SameFirstAndRest ==
  ASSUME NEW E, NEW s \in Seq(E), NEW a \in E, NEW rest \in Seq(E), BeginsWith(s, a, rest)
  PROVE  IsBoth(s, a, rest)
<1> DEFINE t == <<a>> \o rest
<1>1. t \in Seq(E) /\ FirstAndRest(t, a, rest)
  BY SetWithFirst, Zenon
<1> HIDE DEF t
<1>2. Len(s) = Len(t) /\ Len(rest) \in Nat
  BY <1>1 DEF FirstAndRest, BeginsWith
<1>3. ASSUME NEW i \in 1..Len(s) PROVE s[i] = t[i]
  <2>1. CASE i = 1
    BY <1>1, <2>1 DEF FirstAndRest, BeginsWith
  <2>2. CASE i # 1
    <3>1. i - 1 \in 1..Len(rest) /\ (i - 1) + 1 = i
      BY <1>1, <1>2, <2>2 DEF FirstAndRest
    <3>2. s[(i - 1) + 1] = rest[i - 1]
      BY <3>1 DEF BeginsWith
    <3>3. t[(i - 1) + 1] = rest[i - 1]
      BY <1>1, <3>1 DEF FirstAndRest
    <3>. QED BY <3>1, <3>2, <3>3
  <2>. QED BY <2>1, <2>2
<1>4. s = t
  BY <1>1, <1>2, <1>3, SeqEqual
<1>. QED BY <1>4 DEF t, IsBoth

\* What is joined begins with the first part, and goes on behind a separator if
\* there are others.
Separated(c, strs) == [i \in DOMAIN strs |-> IF i < Len(strs) THEN strs[i] \o c ELSE strs[i]]

JoinedFirst(c, a, rest) ==
  JoinString(c, <<a>> \o rest) =
    IF rest = <<>> THEN a ELSE (a \o c) \o JoinString(c, rest)

\* The parts with their separators are as many texts.
LEMMA SeparatedTexts ==
  ASSUME NEW c \in Seq(Nat), NEW strs \in Seq(Seq(Nat))
  PROVE  /\ Separated(c, strs) \in Seq(Seq(Nat)) /\ Len(Separated(c, strs)) = Len(strs)
         /\ \A i \in 1..Len(strs) :
              Separated(c, strs)[i] = IF i < Len(strs) THEN strs[i] \o c ELSE strs[i]
<1>1. Len(strs) \in Nat /\ DOMAIN strs = 1..Len(strs) /\ \A i \in 1..Len(strs) : strs[i] \in Seq(Nat)
  BY LenProperties
<1>2. \A i \in 1..Len(strs) : strs[i] \o c \in Seq(Nat)
  BY <1>1, ConcatProperties, Zenon
<1> DEFINE s == Separated(c, strs)
<1>3. s \in [1..Len(strs) -> Seq(Nat)]
  BY <1>1, <1>2 DEF Separated
<1>4. \A i \in 1..Len(strs) : s[i] = IF i < Len(strs) THEN strs[i] \o c ELSE strs[i]
  BY <1>1 DEF Separated
<1> HIDE DEF s
<1>5. s \in Seq(Seq(Nat)) /\ Len(s) = Len(strs)
  BY <1>1, <1>3, FunctionIsSequence
<1>. QED BY <1>4, <1>5 DEF s

\* JoinString begins with the first part and goes on with what joins the rest.
LEMMA JoinFirst ==
  ASSUME NEW c \in Seq(Nat), NEW a \in Seq(Nat), NEW rest \in Seq(Seq(Nat))
  PROVE  JoinString(c, rest) \in Seq(Nat) /\ JoinedFirst(c, a, rest)
<1> DEFINE strs == <<a>> \o rest
           b == IF rest = <<>> THEN a ELSE a \o c
<1>1. strs \in Seq(Seq(Nat)) /\ FirstAndRest(strs, a, rest)
  BY SetWithFirst, Zenon
<1>2. b \in Seq(Nat)
  BY ConcatProperties, Zenon
<1>3. \A s : JoinString(c, s) = FlattenSeq(Separated(c, s))
  BY DEF JoinString, Separated
<1>4. Len(rest) \in Nat /\ (rest = <<>> <=> Len(rest) = 0)
  BY LenProperties, EmptySeq
<1> DEFINE s == Separated(c, strs)
           t == Separated(c, rest)
<1>5. /\ s \in Seq(Seq(Nat)) /\ Len(s) = Len(strs)
      /\ \A i \in 1..Len(strs) : s[i] = IF i < Len(strs) THEN strs[i] \o c ELSE strs[i]
  <2> HIDE DEF strs
  <2>. QED BY <1>1, SeparatedTexts, Zenon
<1>6. /\ t \in Seq(Seq(Nat)) /\ Len(t) = Len(rest)
      /\ \A i \in 1..Len(rest) : t[i] = IF i < Len(rest) THEN rest[i] \o c ELSE rest[i]
  BY SeparatedTexts, Zenon
<1> HIDE DEF s, t, strs
<1>7. s[1] = b
  <2>1. 1 \in 1..Len(strs) /\ (1 < Len(strs) <=> Len(rest) # 0) /\ strs[1] = a
    BY <1>1, <1>4 DEF FirstAndRest
  <2>2. s[1] = IF 1 < Len(strs) THEN strs[1] \o c ELSE strs[1]
    BY <1>5, <2>1, Zenon
  <2>. QED BY <1>4, <2>1, <2>2, Zenon
<1>8. ASSUME NEW n \in 1..Len(rest) PROVE s[n + 1] = t[n]
  <2>0. Len(strs) = Len(rest) + 1 /\ Len(rest) \in Nat
    BY <1>1, <1>4 DEF FirstAndRest
  <2>1. /\ n + 1 \in 1..Len(strs) /\ (n + 1 < Len(strs) <=> n < Len(rest))
        /\ strs[n + 1] = rest[n]
    <3>1. strs[n + 1] = rest[n]
      BY <1>1, Zenon DEF FirstAndRest
    <3>. QED BY <2>0, <3>1
  <2>2. s[n + 1] = IF n + 1 < Len(strs) THEN strs[n + 1] \o c ELSE strs[n + 1]
    BY <1>5, <2>1, Zenon
  <2>3. t[n] = IF n < Len(rest) THEN rest[n] \o c ELSE rest[n]
    BY <1>6, Zenon
  <2>. QED BY <2>1, <2>2, <2>3, Zenon
<1> HIDE DEF b
<1>9. Len(s) = Len(t) + 1
  BY <1>1, <1>5, <1>6 DEF FirstAndRest
<1>10. s = <<b>> \o t
  <2>1. \A n \in 1..Len(t) : s[n + 1] = t[n]
    BY <1>6, <1>8
  <2>2. BeginsWith(s, b, t)
    BY <1>7, <1>9, <2>1, Zenon DEF BeginsWith
  <2>3. IsBoth(s, b, t)
    BY <1>2, <1>5, <1>6, <2>2, SameFirstAndRest, Zenon
  <2>. QED BY <2>3, Zenon DEF IsBoth
<1>11. FlattenSeq(t) \in Seq(Nat) /\ FlattenSeq(<<b>> \o t) = b \o FlattenSeq(t)
  BY <1>2, <1>6, FlattenFirst, Zenon
<1>12. JoinString(c, rest) = FlattenSeq(t) /\ JoinString(c, strs) = FlattenSeq(s)
  BY <1>3, Zenon DEF s, t
<1>13. CASE rest = <<>>
  <2>1. Len(t) = 0 /\ Len(rest) = 0
    BY <1>4, <1>6, <1>13
  <2>2. t = <<>>
    BY <1>6, <2>1, EmptySeq
  <2>3. b \o FlattenSeq(t) = b
    BY <1>2, <2>2, FlattenNone, ConcatEmptySeq
  <2>4. b = a
    BY <1>13 DEF b
  <2>. QED BY <1>10, <1>11, <1>12, <1>13, <2>3, <2>4, Zenon DEF JoinedFirst, strs
<1>14. CASE rest # <<>>
  <2>1. b = a \o c
    BY <1>14 DEF b
  <2>. QED BY <1>10, <1>11, <1>12, <1>14, <2>1, Zenon DEF JoinedFirst, strs
<1>. QED BY <1>13, <1>14

\* Nothing joined is nothing.
LEMMA JoinNone == \A c : JoinString(c, <<>>) = <<>>
BY DEF JoinString, FlattenSeq

\* Leaving out what is empty: the first, if it is not, and what is left of the rest.
KeptFirst(a, rest) ==
  NonEmpty(<<a>> \o rest) = (IF a = <<>> THEN <<>> ELSE <<a>>) \o NonEmpty(rest)

\* What is kept is the first part, if it is not empty, and what is kept of the rest.
LEMMA NonEmptyFirst ==
  ASSUME NEW a \in Seq(Nat), NEW rest \in Seq(Seq(Nat))
  PROVE  NonEmpty(rest) \in Seq(Seq(Nat)) /\ KeptFirst(a, rest)
<1> DEFINE one(x) == IF x = <<>> THEN <<>> ELSE <<x>>
           each(strs) == [i \in DOMAIN strs |-> one(strs[i])]
           strs == <<a>> \o rest
           V == Seq(Seq(Nat))
<1>1. strs \in V /\ FirstAndRest(strs, a, rest)
  BY SetWithFirst, Zenon
<1>2. \A x : NonEmpty(x) = FlattenSeq(each(x))
  BY DEF NonEmpty
<1>3. \A x \in Seq(Nat) : one(x) \in V
  OBVIOUS
<1>4. ASSUME NEW x \in V
      PROVE  /\ each(x) \in Seq(V) /\ Len(each(x)) = Len(x)
             /\ \A i \in 1..Len(x) : each(x)[i] = one(x[i])
  <2>1. Len(x) \in Nat /\ DOMAIN x = 1..Len(x) /\ \A i \in 1..Len(x) : x[i] \in Seq(Nat)
    BY LenProperties
  <2> DEFINE e == each(x)
  <2>2. e \in [1..Len(x) -> V]
    <3> HIDE DEF one, V
    <3>. QED BY <1>3, <2>1
  <2>3. \A i \in 1..Len(x) : e[i] = one(x[i])
    <3> HIDE DEF one
    <3>. QED BY <2>1
  <2> HIDE DEF e, V
  <2>4. e \in Seq(V) /\ Len(e) = Len(x)
    BY <2>1, <2>2, FunctionIsSequence
  <2>. QED BY <2>3, <2>4 DEF e
<1> DEFINE s == each(strs)
           t == each(rest)
<1>5. s \in Seq(V) /\ Len(s) = Len(strs) /\ \A i \in 1..Len(strs) : s[i] = one(strs[i])
  <2> HIDE DEF strs, one, each, V
  <2>. QED BY <1>1, <1>4
<1>6. t \in Seq(V) /\ Len(t) = Len(rest) /\ \A i \in 1..Len(rest) : t[i] = one(rest[i])
  <2> HIDE DEF strs, one, each
  <2>. QED BY <1>4
<1>7. one(a) \in V
  <2> HIDE DEF one, V
  <2>. QED BY <1>3
<1> HIDE DEF s, t, strs, one, V
<1>9. s[1] = one(a) /\ Len(s) = Len(t) + 1 /\ \A n \in 1..Len(t) : s[n + 1] = t[n]
  <2>1. 1 \in 1..Len(strs) /\ strs[1] = a /\ Len(strs) = Len(rest) + 1 /\ Len(rest) \in Nat
    BY <1>1 DEF FirstAndRest
  <2>2. \A n \in 1..Len(rest) : n + 1 \in 1..Len(strs) /\ strs[n + 1] = rest[n]
    BY <1>1, <2>1 DEF FirstAndRest
  <2>. QED BY <1>5, <1>6, <2>1, <2>2
<1>10. s = <<one(a)>> \o t
  <2>1. BeginsWith(s, one(a), t)
    BY <1>9, Zenon DEF BeginsWith
  <2>2. IsBoth(s, one(a), t)
    BY <1>5, <1>6, <1>7, <2>1, SameFirstAndRest, Zenon
  <2>. QED BY <2>2, Zenon DEF IsBoth
<1>11. FlattenSeq(t) \in Seq(Seq(Nat)) /\ FlattenSeq(<<one(a)>> \o t) = one(a) \o FlattenSeq(t)
  BY <1>6, <1>7, FlattenFirst, Zenon DEF V
<1>12. NonEmpty(rest) = FlattenSeq(t) /\ NonEmpty(strs) = FlattenSeq(s)
  BY <1>2, Zenon DEF s, t
<1>. QED BY <1>10, <1>11, <1>12, Zenon DEF KeptFirst, strs, one

\* Of nothing nothing is kept.
LEMMA NothingKept == NonEmpty(<<>>) = <<>>
BY DEF NonEmpty, FlattenSeq

-----------------------------------------------------------------------------
(* Texts: parts joined.                                                    *)

PartOf(full, delim, start) == SubSeq(full, start, FindFirstOf(full, delim, start) - 1)

Later(full, delim, omit, start) ==
  IF FindFirstOf(full, delim, start) > Len(full) THEN <<>>
  ELSE PartsFrom(full, delim, omit)[FindFirstOf(full, delim, start) + 1]

\* What is split from a position in the text on, with the part at hand.
LEMMA PartsHere ==
  ASSUME NEW full \in Seq(Nat), NEW delim, NEW omit, NEW start \in 1..Len(full) + 1
  PROVE  /\ FoundAt(FindFirstOf(full, delim, start), full, delim, start)
         /\ PartOf(full, delim, start) \in Seq(Nat)
         /\ Later(full, delim, omit, start) \in Seq(Seq(Nat))
         /\ PartsFrom(full, delim, omit)[start] =
              (IF Kept(omit, start, FindFirstOf(full, delim, start), Len(full))
               THEN <<PartOf(full, delim, start)>> ELSE <<>>) \o Later(full, delim, omit, start)
<1> DEFINE found == FindFirstOf(full, delim, start)
           parts == PartsFrom(full, delim, omit)
<1>1. Len(full) \in Nat /\ \A i \in 1..Len(full) : full[i] \in Nat
  BY LenProperties
<1>2. start \in Starts /\ start \in Nat \ {0} /\ start <= Len(full) + 1
  BY <1>1 DEF Starts
<1>3. FoundAt(found, full, delim, start)
  BY <1>1, <1>2, FirstOf
<1>4. found \in start..Len(full) + 1
  BY <1>3 DEF FoundAt
<1>5. PartOf(full, delim, start) \in Seq(Nat)
  <2> HIDE DEF found
  <2>1. \A i \in start..found - 1 : full[i] \in Nat
    BY <1>1, <1>2, <1>4
  <2>2. start \in Int /\ found - 1 \in Int
    BY <1>2, <1>4
  <2>. QED BY <2>1, <2>2, SubSeqProperties DEF PartOf, found
<1>6. parts \in [Starts -> Seq(Seq(Nat))] /\ parts[start] = PartsAt(full, delim, omit, start)
  <2>1. parts \in [Starts -> Seq(Seq(Nat))]
    BY PartsWalk, Zenon
  <2>2. \A i \in Starts : parts[i] = PartsAt(full, delim, omit, i)
    BY PartsWalk, Zenon
  <2>. QED BY <1>2, <2>1, <2>2, Zenon
<1>7. Later(full, delim, omit, start) \in Seq(Seq(Nat))
  <2> HIDE DEF found, parts
  <2>1. ~(found > Len(full)) => found + 1 \in Starts
    BY <1>1, <1>2, <1>4 DEF Starts
  <2>2. (IF found > Len(full) THEN <<>> ELSE parts[found + 1]) \in Seq(Seq(Nat))
    BY <1>6, <2>1
  <2>. QED BY <2>2, Zenon DEF Later, found, parts
<1>. QED BY <1>3, <1>5, <1>6, <1>7, Zenon DEF PartsAt, PartAt, PartOf, Later

\* Splitting at one delimiter and joining the parts gives the text back.
LEMMA SplitAndJoin ==
  ASSUME NEW str \in Seq(Nat), NEW d \in Nat
  PROVE  JoinString(<<d>>, SplitStringToVector(str, {d}, FALSE)) = str
<1> DEFINE parts == PartsFrom(str, {d}, FALSE)
           found(i) == FindFirstOf(str, {d}, i)
           rest(i) == SubSeq(str, i, Len(str))
           Fine == {i \in Nat : i \in 1..Len(str) + 1 =>
                      parts[i] # <<>> /\ JoinString(<<d>>, parts[i]) = rest(i)}
<1>1. Len(str) \in Nat /\ <<d>> \in Seq(Nat)
  BY LenProperties
<1>2. ASSUME NEW i \in Nat, i <= Len(str) => \A j \in Nat : j > i => j \in Fine
      PROVE  i \in Fine
  <2> SUFFICES ASSUME i \in 1..Len(str) + 1
               PROVE  parts[i] # <<>> /\ JoinString(<<d>>, parts[i]) = rest(i)
    OBVIOUS
  <2> DEFINE p == PartOf(str, {d}, i)
             q == Later(str, {d}, FALSE, i)
  <2>1. FoundAt(found(i), str, {d}, i) /\ p \in Seq(Nat) /\ q \in Seq(Seq(Nat)) /\ parts[i] = <<p>> \o q
    BY PartsHere, Zenon DEF Kept
  <2>2. /\ JoinString(<<d>>, <<p>> \o q) = IF q = <<>> THEN p ELSE (p \o <<d>>) \o JoinString(<<d>>, q)
        /\ JoinString(<<d>>, q) \in Seq(Nat)
    <3> HIDE DEF p, q
    <3>1. JoinString(<<d>>, q) \in Seq(Nat) /\ JoinedFirst(<<d>>, p, q)
      BY <1>1, <2>1, JoinFirst, Zenon
    <3>. QED BY <3>1, Zenon DEF JoinedFirst
  <2>3. parts[i] # <<>>
    <3> HIDE DEF p, q, parts
    <3>1. FirstAndRest(<<p>> \o q, p, q)
      BY <2>1, SetWithFirst, Zenon
    <3>2. Len(parts[i]) >= 1
      BY <2>1, <3>1 DEF FirstAndRest
    <3>3. parts[i] \in Seq(Seq(Nat))
      BY <2>1, SetWithFirst, Zenon
    <3>. QED BY <3>2, <3>3, EmptySeq
  <2>4. found(i) \in i..Len(str) + 1 /\ (found(i) <= Len(str) => str[found(i)] = d)
    BY <2>1 DEF FoundAt
  <2> DEFINE at == found(i)
  <2>5. p = SubSeq(str, i, at - 1)
    BY DEF PartOf
  <2>6. q = IF at > Len(str) THEN <<>> ELSE parts[at + 1]
    BY DEF Later
  <2> HIDE DEF at, p, q, parts
  <2>7. CASE at > Len(str)
    <3>1. at - 1 = Len(str) /\ q = <<>>
      BY <1>1, <2>4, <2>6, <2>7 DEF at
    <3>. QED BY <2>1, <2>2, <2>3, <2>5, <3>1
  <2>8. CASE ~(at > Len(str))
    <3>1. /\ i <= Len(str) /\ at + 1 > i /\ at + 1 \in Nat /\ at + 1 \in 1..Len(str) + 1
          /\ at \in 1..Len(str) /\ at <= Len(str)
          /\ at \in i..Len(str) /\ i \in 1..Len(str) + 1 /\ i \in 1..Len(str)
          /\ at \in i - 1..Len(str) /\ Len(str) \in at..Len(str)
      BY <1>1, <2>4, <2>8 DEF at
    <3>2. q # <<>> /\ JoinString(<<d>>, q) = rest(at + 1)
      <4>1. at + 1 \in Fine
        <5> HIDE DEF Fine
        <5>. QED BY <1>2, <3>1
      <4>2. q = parts[at + 1]
        BY <2>6, <2>8
      <4>. QED BY <3>1, <4>1, <4>2
    <3>3. p \o <<d>> = SubSeq(str, i, at)
      <4>1. str[at] = d
        BY <2>4, <3>1 DEF at
      <4>2. SubSeq(str, i, at) = SubSeq(str, i, at - 1) \o <<str[at]>>
        BY <3>1, SubSeqRecursiveSecond
      <4>. QED BY <2>5, <4>1, <4>2, Zenon
    <3>4. SubSeq(str, i, at) \o rest(at + 1) = rest(i)
      BY <3>1, ConcatAdjacentSubSeq
    <3> HIDE DEF rest
    <3>. QED BY <2>1, <2>2, <2>3, <3>2, <3>3, <3>4, Zenon
  <2>. QED BY <2>7, <2>8
<1>3. Nat \subseteq Fine
  <2> HIDE DEF Fine
  <2>. QED BY <1>1, <1>2, Backwards
<1>4. JoinString(<<d>>, parts[1]) = rest(1)
  <2>1. 1 \in Nat /\ 1 \in 1..Len(str) + 1
    BY <1>1
  <2> HIDE DEF parts, rest
  <2>. QED BY <1>3, <2>1
<1>5. rest(1) = str
  BY SubSeqFull
<1>6. SplitStringToVector(str, {d}, FALSE) = parts[1]
  BY PartsWalk, Zenon
<1>. QED BY <1>4, <1>5, <1>6, Zenon

\* Leaving out what is empty while splitting leaves out the empty parts.
LEMMA SplitWithoutEmpty ==
  ASSUME NEW str \in Seq(Nat), NEW delim
  PROVE  SplitStringToVector(str, delim, TRUE) = NonEmpty(SplitStringToVector(str, delim, FALSE))
<1> DEFINE all == PartsFrom(str, delim, FALSE)
           some == PartsFrom(str, delim, TRUE)
           found(i) == FindFirstOf(str, delim, i)
           Fine == {i \in Nat : i \in 1..Len(str) + 1 => some[i] = NonEmpty(all[i])}
<1>1. Len(str) \in Nat
  BY LenProperties
<1>2. ASSUME NEW i \in Nat, i <= Len(str) => \A j \in Nat : j > i => j \in Fine
      PROVE  i \in Fine
  <2> SUFFICES ASSUME i \in 1..Len(str) + 1 PROVE some[i] = NonEmpty(all[i])
    OBVIOUS
  <2> DEFINE p == PartOf(str, delim, i)
             at == found(i)
             q == Later(str, delim, FALSE, i)
             r == Later(str, delim, TRUE, i)
             b == IF p = <<>> THEN <<>> ELSE <<p>>
  <2>1. FoundAt(at, str, delim, i) /\ p \in Seq(Nat) /\ q \in Seq(Seq(Nat)) /\ all[i] = <<p>> \o q
    BY PartsHere, Zenon DEF Kept
  <2>2. some[i] = (IF at # i /\ i # Len(str) + 1 THEN <<p>> ELSE <<>>) \o r
    BY PartsHere, Zenon DEF Kept
  <2>3. NonEmpty(<<p>> \o q) = b \o NonEmpty(q)
    <3> HIDE DEF p, q
    <3>. QED BY <2>1, NonEmptyFirst, Zenon DEF KeptFirst
  <2>4. at \in i..Len(str) + 1
    BY <2>1 DEF FoundAt
  <2>5. p = SubSeq(str, i, at - 1)
    BY DEF PartOf
  <2>6. /\ q = (IF at > Len(str) THEN <<>> ELSE all[at + 1])
        /\ r = (IF at > Len(str) THEN <<>> ELSE some[at + 1])
    BY DEF Later
  <2> HIDE DEF at, p, q, r, all, some
  <2>7. p = <<>> <=> ~(at # i /\ i # Len(str) + 1)
    <3>1. Len(p) = IF i <= at - 1 THEN at - 1 - i + 1 ELSE 0
      <4>1. \A n \in i..at - 1 : str[n] \in Nat
        <5>1. \A n \in i..at - 1 : n \in 1..Len(str)
          BY <1>1, <2>4
        <5>2. \A n \in 1..Len(str) : str[n] \in Nat
          BY LenProperties
        <5>. QED BY <5>1, <5>2
      <4>2. i \in Int /\ at - 1 \in Int
        BY <2>4
      <4>. QED BY <2>5, <4>1, <4>2, SubSeqProperties
    <3>2. p = <<>> <=> Len(p) = 0
      BY <2>1, EmptySeq
    <3>. QED BY <1>1, <2>4, <3>1, <3>2
  <2>8. r = NonEmpty(q)
    <3>1. CASE at > Len(str)
      BY <2>6, <3>1, NothingKept
    <3>2. CASE ~(at > Len(str))
      <4>1. i <= Len(str) /\ at + 1 > i /\ at + 1 \in Nat /\ at + 1 \in 1..Len(str) + 1
        BY <1>1, <2>4, <3>2
      <4>2. at + 1 \in Fine
        <5> HIDE DEF Fine
        <5>. QED BY <1>2, <4>1
      <4>. QED BY <2>6, <3>2, <4>1, <4>2
    <3>. QED BY <3>1, <3>2
  <2>9. (IF at # i /\ i # Len(str) + 1 THEN <<p>> ELSE <<>>) = b
    BY <2>7
  <2> HIDE DEF b
  <2>. QED BY <2>1, <2>2, <2>3, <2>8, <2>9, Zenon
<1>3. Nat \subseteq Fine
  <2> HIDE DEF Fine
  <2>. QED BY <1>1, <1>2, Backwards
<1>4. some[1] = NonEmpty(all[1])
  <2>1. 1 \in Nat /\ 1 \in 1..Len(str) + 1
    BY <1>1
  <2> HIDE DEF all, some
  <2>. QED BY <1>3, <2>1
<1>5. SplitStringToVector(str, delim, FALSE) = all[1] /\ SplitStringToVector(str, delim, TRUE) = some[1]
  BY PartsWalk, Zenon
<1>. QED BY <1>4, <1>5, Zenon

-----------------------------------------------------------------------------
(* Texts: words.                                                           *)

Words(delim) == {w \in Seq(Nat) : w # <<>> /\ ToSet(w) \cap delim = {}}

\* What is split without empty parts is words.
LEMMA PartsAreWords ==
  ASSUME NEW str \in Seq(Nat), NEW delim
  PROVE  \A i \in 1..Len(str) + 1 : PartsFrom(str, delim, TRUE)[i] \in Seq(Words(delim))
<1> DEFINE some == PartsFrom(str, delim, TRUE)
           V == Words(delim)
           Fine == {i \in Nat : i \in 1..Len(str) + 1 => some[i] \in Seq(V)}
<1>1. Len(str) \in Nat
  BY LenProperties
<1>2. ASSUME NEW i \in Nat, i <= Len(str) => \A j \in Nat : j > i => j \in Fine
      PROVE  i \in Fine
  <2> SUFFICES ASSUME i \in 1..Len(str) + 1 PROVE some[i] \in Seq(V)
    OBVIOUS
  <2> DEFINE p == PartOf(str, delim, i)
             at == FindFirstOf(str, delim, i)
             r == Later(str, delim, TRUE, i)
             b == IF at # i /\ i # Len(str) + 1 THEN <<p>> ELSE <<>>
  <2>1. FoundAt(at, str, delim, i) /\ p \in Seq(Nat)
    BY PartsHere, Zenon
  <2>2. some[i] = b \o r
    BY PartsHere, Zenon DEF Kept
  <2>3. at \in i..Len(str) + 1 /\ \A j \in i..at - 1 : str[j] \notin delim
    BY <2>1 DEF FoundAt
  <2>4. p = SubSeq(str, i, at - 1)
    BY DEF PartOf
  <2>5. r = (IF at > Len(str) THEN <<>> ELSE some[at + 1])
    BY DEF Later
  <2> HIDE DEF at, p, r, some, V
  <2>6. r \in Seq(V)
    <3>1. CASE at > Len(str)
      BY <2>5, <3>1
    <3>2. CASE ~(at > Len(str))
      <4>1. i <= Len(str) /\ at + 1 > i /\ at + 1 \in Nat /\ at + 1 \in 1..Len(str) + 1
        BY <1>1, <2>3, <3>2
      <4>2. at + 1 \in Fine
        <5> HIDE DEF Fine
        <5>. QED BY <1>2, <4>1
      <4>. QED BY <2>5, <3>2, <4>1, <4>2
    <3>. QED BY <3>1, <3>2
  <2>7. at # i => p \in V
    <3> SUFFICES ASSUME at # i PROVE p \in V
      OBVIOUS
    <3>1. \A n \in i..at - 1 : str[n] \in Nat
      <4>1. \A n \in i..at - 1 : n \in 1..Len(str)
        BY <1>1, <2>3
      <4>2. \A n \in 1..Len(str) : str[n] \in Nat
        BY LenProperties
      <4>. QED BY <4>1, <4>2
    <3>2. i \in Int /\ at - 1 \in Int /\ i <= at - 1
      BY <2>3
    <3>3. /\ Len(p) = IF i <= at - 1 THEN at - 1 - i + 1 ELSE 0
          /\ \A n \in 1..at - 1 - i + 1 : p[n] = str[i + n - 1]
      BY <2>4, <3>1, <3>2, SubSeqProperties
    <3>4. p # <<>>
      <4>1. Len(p) # 0
        BY <2>3, <3>2, <3>3
      <4>. QED BY <2>1, <4>1, EmptySeq
    <3>5. ASSUME NEW n \in 1..Len(p) PROVE p[n] \notin delim
      <4>1. n \in 1..at - 1 - i + 1 /\ i + n - 1 \in i..at - 1
        BY <2>3, <3>2, <3>3
      <4>2. p[n] = str[i + n - 1]
        BY <3>3, <4>1
      <4>. QED BY <2>3, <4>1, <4>2
    <3>6. DOMAIN p = 1..Len(p)
      BY <2>1, LenProperties
    <3>7. ToSet(p) \cap delim = {}
      BY <3>5, <3>6 DEF ToSet
    <3>. QED BY <2>1, <3>4, <3>7 DEF V, Words
  <2>8. b \in Seq(V)
    BY <2>7
  <2> HIDE DEF b
  <2>. QED BY <2>2, <2>6, <2>8, ConcatProperties, Zenon
<1>3. Nat \subseteq Fine
  <2> HIDE DEF Fine
  <2>. QED BY <1>1, <1>2, Backwards
<1>4. \A i \in 1..Len(str) + 1 : i \in Nat
  BY <1>1
<1> HIDE DEF some, V
<1>5. \A i \in 1..Len(str) + 1 : some[i] \in Seq(V)
  BY <1>3, <1>4
<1>. QED BY <1>5 DEF some, V

\* At start the text goes on with w, and then with a delimiter or not at all.
WordAt(full, start, w, delim) ==
  /\ start + Len(w) <= Len(full) + 1
  /\ \A i \in 1..Len(w) : full[start + i - 1] = w[i]
  /\ start + Len(w) <= Len(full) => full[start + Len(w)] \in delim

WordFirst(full, start, w, delim) ==
  PartsFrom(full, delim, TRUE)[start] =
    <<w>> \o IF start + Len(w) > Len(full) THEN <<>>
             ELSE PartsFrom(full, delim, TRUE)[start + Len(w) + 1]

\* Such a word is the part that is split off there.
LEMMA WordHere ==
  ASSUME NEW full \in Seq(Nat), NEW delim, NEW start \in Nat \ {0}, NEW w \in Words(delim),
         WordAt(full, start, w, delim)
  PROVE  WordFirst(full, start, w, delim)
<1> DEFINE some == PartsFrom(full, delim, TRUE)
           at == FindFirstOf(full, delim, start)
           p == PartOf(full, delim, start)
           r == Later(full, delim, TRUE, start)
<1>1. /\ Len(full) \in Nat /\ Len(w) \in Nat /\ w \in Seq(Nat) /\ Len(w) # 0
      /\ \A i \in 1..Len(w) : w[i] \notin delim
  <2>1. w \in Seq(Nat) /\ w # <<>> /\ ToSet(w) \cap delim = {}
    BY DEF Words
  <2>2. DOMAIN w = 1..Len(w) /\ Len(w) \in Nat /\ Len(full) \in Nat
    BY <2>1, LenProperties
  <2>3. \A i \in 1..Len(w) : w[i] \notin delim
    BY <2>1, <2>2 DEF ToSet
  <2>. QED BY <2>1, <2>2, <2>3, EmptySeq
<1>2. start \in 1..Len(full) + 1 /\ start # Len(full) + 1
  BY <1>1 DEF WordAt
<1>3. /\ FoundAt(at, full, delim, start)
      /\ p \in Seq(Nat)
      /\ some[start] = (IF at # start /\ start # Len(full) + 1 THEN <<p>> ELSE <<>>) \o r
  BY <1>2, PartsHere, Zenon DEF Kept
<1>4. p = SubSeq(full, start, at - 1)
  BY DEF PartOf
<1>5. r = (IF at > Len(full) THEN <<>> ELSE some[at + 1])
  BY DEF Later
<1> HIDE DEF at, p, r, some
<1>6. /\ at \in start..Len(full) + 1
      /\ \A j \in start..at - 1 : full[j] \notin delim
      /\ at <= Len(full) => full[at] \in delim
  BY <1>3 DEF FoundAt
<1>7. \A j \in start..start + Len(w) - 1 : full[j] \notin delim
  <2> SUFFICES ASSUME NEW j \in start..start + Len(w) - 1 PROVE full[j] \notin delim
    OBVIOUS
  <2>1. j - start + 1 \in 1..Len(w) /\ start + (j - start + 1) - 1 = j
    BY <1>1
  <2>2. full[start + (j - start + 1) - 1] = w[j - start + 1]
    BY <2>1 DEF WordAt
  <2>. QED BY <1>1, <2>1, <2>2
<1>8. at = start + Len(w)
  <2>1. ~(at < start + Len(w))
    <3> SUFFICES ASSUME at < start + Len(w) PROVE FALSE
      OBVIOUS
    <3>1. at \in start..start + Len(w) - 1 /\ at <= Len(full)
      BY <1>1, <1>6 DEF WordAt
    <3>. QED BY <1>6, <1>7, <3>1
  <2>2. ~(at > start + Len(w))
    <3> SUFFICES ASSUME at > start + Len(w) PROVE FALSE
      OBVIOUS
    <3>1. start + Len(w) \in start..at - 1 /\ start + Len(w) <= Len(full)
      BY <1>1, <1>6
    <3>2. full[start + Len(w)] \in delim
      BY <3>1 DEF WordAt
    <3>. QED BY <1>6, <3>1, <3>2
  <2>3. at \in Int /\ start + Len(w) \in Int
    BY <1>1, <1>6
  <2>. QED BY <2>1, <2>2, <2>3
<1>9. p = w
  <2>1. /\ Len(p) = IF start <= at - 1 THEN at - 1 - start + 1 ELSE 0
        /\ \A n \in 1..at - 1 - start + 1 : p[n] = full[start + n - 1]
    <3>1. \A n \in start..at - 1 : full[n] \in Nat
      <4>1. \A n \in start..at - 1 : n \in 1..Len(full)
        BY <1>1, <1>6
      <4>2. \A n \in 1..Len(full) : full[n] \in Nat
        BY LenProperties
      <4>. QED BY <4>1, <4>2
    <3>2. start \in Int /\ at - 1 \in Int
      BY <1>6
    <3>. QED BY <1>4, <3>1, <3>2, SubSeqProperties
  <2>2. Len(p) = Len(w)
    BY <1>1, <1>8, <2>1
  <2>3. ASSUME NEW n \in 1..Len(p) PROVE p[n] = w[n]
    <3>1. n \in 1..Len(w) /\ n \in 1..at - 1 - start + 1
      BY <1>1, <1>8, <2>2
    <3>. QED BY <2>1, <3>1 DEF WordAt
  <2>. QED BY <1>1, <1>3, <2>2, <2>3, SeqEqual
<1>10. at # start
  BY <1>1, <1>8
<1>11. (IF at # start /\ start # Len(full) + 1 THEN <<p>> ELSE <<>>) = <<w>>
  BY <1>2, <1>9, <1>10
<1>12. r = IF start + Len(w) > Len(full) THEN <<>> ELSE some[start + Len(w) + 1]
  BY <1>5, <1>8
<1>. QED BY <1>3, <1>11, <1>12, Zenon DEF some, WordFirst

JoinsAndSplits(delim, c) ==
  \A ws \in Seq(Words(delim)) : \A pre \in Seq(Nat) :
    /\ JoinString(<<c>>, ws) \in Seq(Nat)
    /\ PartsFrom(pre \o JoinString(<<c>>, ws), delim, TRUE)[Len(pre) + 1] = ws

\* Splitting what joins words gives the words back, whatever is before them.
LEMMA JoinAndSplit ==
  ASSUME NEW delim, NEW c \in Nat, c \in delim
  PROVE  JoinsAndSplits(delim, c)
<1> DEFINE V == Words(delim)
           Split(full, start) == PartsFrom(full, delim, TRUE)[start]
           J(ws) == JoinString(<<c>>, ws)
           Fine == {n \in Nat : \A ws \in Seq(V) : Len(ws) = n =>
                      \A pre \in Seq(Nat) : J(ws) \in Seq(Nat) /\ Split(pre \o J(ws), Len(pre) + 1) = ws}
<1>1. ASSUME NEW pre \in Seq(Nat) PROVE Split(pre, Len(pre) + 1) = <<>>
  <2>1. Len(pre) \in Nat /\ Len(pre) + 1 \in 1..Len(pre) + 1
    BY LenProperties
  <2> DEFINE start == Len(pre) + 1
             at == FindFirstOf(pre, delim, start)
  <2>2. /\ FoundAt(at, pre, delim, start)
        /\ Split(pre, start) =
             (IF Kept(TRUE, start, at, Len(pre)) THEN <<PartOf(pre, delim, start)>> ELSE <<>>)
               \o Later(pre, delim, TRUE, start)
    BY <2>1, PartsHere, Zenon
  <2>3. Kept(TRUE, start, at, Len(pre)) = FALSE
    BY DEF Kept
  <2>4. at > Len(pre)
    <3> HIDE DEF at
    <3>. QED BY <2>1, <2>2 DEF FoundAt
  <2>5. Later(pre, delim, TRUE, start) = <<>>
    BY <2>4, Zenon DEF Later
  <2>6. <<>> \o <<>> = <<>>
    OBVIOUS
  <2>. QED BY <2>2, <2>3, <2>5, <2>6, Zenon
<1>2. 0 \in Fine
  <2> SUFFICES ASSUME NEW ws \in Seq(V), Len(ws) = 0, NEW pre \in Seq(Nat)
               PROVE  J(ws) \in Seq(Nat) /\ Split(pre \o J(ws), Len(pre) + 1) = ws
    OBVIOUS
  <2>1. ws = <<>>
    BY EmptySeq
  <2>2. J(ws) = <<>>
    BY <2>1, JoinNone, Zenon
  <2>3. pre \o <<>> = pre /\ <<>> \in Seq(Nat)
    BY ConcatEmptySeq
  <2>. QED BY <1>1, <2>1, <2>2, <2>3, Zenon
<1>3. ASSUME NEW n \in Nat, n \in Fine PROVE n + 1 \in Fine
  <2> SUFFICES ASSUME NEW ws \in Seq(V), Len(ws) = n + 1, NEW pre \in Seq(Nat)
               PROVE  J(ws) \in Seq(Nat) /\ Split(pre \o J(ws), Len(pre) + 1) = ws
    <3>1. n + 1 \in Nat
      OBVIOUS
    <3> HIDE DEF J, Split, V
    <3>. QED BY <3>1
  <2> HIDE DEF V
  <2> DEFINE w == Head(ws)
             rest == Tail(ws)
  <2>1. w \in V /\ rest \in Seq(V) /\ Len(rest) = n /\ ws = <<w>> \o rest
    <3>1. ws # <<>>
      BY EmptySeq
    <3>2. w \in V /\ rest \in Seq(V) /\ Len(rest) = n /\ \A i \in 1..Len(rest) : rest[i] = ws[i + 1]
      BY <3>1, HeadTailProperties
    <3>3. ws[1] = w
      BY <3>1
    <3> HIDE DEF w, rest
    <3>4. BeginsWith(ws, w, rest)
      BY <3>2, <3>3 DEF BeginsWith
    <3>5. IsBoth(ws, w, rest)
      BY <3>2, <3>4, SameFirstAndRest, Zenon
    <3>. QED BY <3>2, <3>5, Zenon DEF IsBoth
  <2> HIDE DEF w, rest
  <2>2. w \in Seq(Nat) /\ V \subseteq Seq(Nat)
    BY <2>1 DEF V, Words
  <2>3. rest \in Seq(Seq(Nat))
    BY <2>1, <2>2
  <2>4. <<c>> \in Seq(Nat)
    OBVIOUS
  <2> DEFINE j == J(rest)
  <2>5. j \in Seq(Nat)
    BY <2>2, <2>3, <2>4, JoinFirst, Zenon
  <2>6. J(ws) = IF rest = <<>> THEN w ELSE (w \o <<c>>) \o j
    <3>1. JoinedFirst(<<c>>, w, rest)
      BY <2>2, <2>3, <2>4, JoinFirst, Zenon
    <3>. QED BY <2>1, <3>1, Zenon DEF JoinedFirst
  <2>7. w \o <<c>> \in Seq(Nat)
    BY <2>2, <2>4, ConcatProperties, Zenon
  <2> DEFINE full == pre \o J(ws)
             start == Len(pre) + 1
  <2>8. J(ws) \in Seq(Nat)
    <3>1. (w \o <<c>>) \o j \in Seq(Nat)
      <4> HIDE DEF j
      <4>. QED BY <2>5, <2>7, ConcatProperties, Zenon
    <3>. QED BY <2>2, <2>6, <3>1
  <2> HIDE DEF j, J
  <2>9. full \in Seq(Nat) /\ Len(full) = Len(pre) + Len(J(ws)) /\ Len(pre) \in Nat /\ Len(w) \in Nat
    BY <2>2, <2>8, ConcatProperties, LenProperties
  <2>10. ASSUME WordAt(full, start, w, delim)
         PROVE  Split(full, start) =
                  <<w>> \o IF start + Len(w) > Len(full) THEN <<>> ELSE Split(full, start + Len(w) + 1)
    <3>1. start \in Nat \ {0} /\ w \in Words(delim)
      BY <2>1, <2>9 DEF V
    <3> HIDE DEF full, start
    <3>2. WordFirst(full, start, w, delim)
      BY <2>9, <2>10, <3>1, WordHere, Zenon
    <3>. QED BY <3>2, Zenon DEF WordFirst
  <2>11. \A i \in 1..Len(J(ws)) : full[Len(pre) + i] = J(ws)[i]
    <3> SUFFICES ASSUME NEW i \in 1..Len(J(ws)) PROVE full[Len(pre) + i] = J(ws)[i]
      OBVIOUS
    <3>1. Len(J(ws)) \in Nat
      BY <2>8, LenProperties
    <3>2. /\ Len(pre) + i \in 1..Len(pre) + Len(J(ws)) /\ ~(Len(pre) + i <= Len(pre))
          /\ (Len(pre) + i) - Len(pre) = i
      BY <2>9, <3>1
    <3>3. full[Len(pre) + i] =
            IF Len(pre) + i <= Len(pre) THEN pre[Len(pre) + i] ELSE J(ws)[(Len(pre) + i) - Len(pre)]
      BY <2>8, <3>2, ConcatProperties
    <3>. QED BY <3>2, <3>3
  <2>12. CASE rest = <<>>
    <3>1. J(ws) = w
      BY <2>6, <2>12
    <3>2. WordAt(full, start, w, delim) /\ start + Len(w) > Len(full)
      <4>1. start + Len(w) <= Len(full) + 1 /\ ~(start + Len(w) <= Len(full))
        BY <2>9, <3>1
      <4>2. \A i \in 1..Len(w) : full[start + i - 1] = w[i]
        <5>1. \A i \in 1..Len(w) : start + i - 1 = Len(pre) + i
          BY <2>9
        <5>. QED BY <2>11, <3>1, <5>1
      <4> HIDE DEF full, start
      <4>. QED BY <2>9, <4>1, <4>2 DEF WordAt, start
    <3>3. Split(full, start) = <<w>> \o <<>>
      <4> HIDE DEF full, start, Split
      <4>. QED BY <2>10, <3>2, Zenon
    <3>4. ws = <<w>> \o <<>>
      BY <2>1, <2>12
    <3>. QED BY <2>8, <3>3, <3>4
  <2>13. CASE rest # <<>>
    <3> DEFINE u == w \o <<c>>
               next == pre \o u
    <3>1. J(ws) = u \o j
      BY <2>6, <2>13, Zenon
    <3>2. /\ u \in Seq(Nat) /\ Len(u) = Len(w) + 1
          /\ \A i \in 1..Len(w) + 1 : u[i] = IF i <= Len(w) THEN w[i] ELSE c
      <4>1. Len(<<c>>) = 1 /\ <<c>>[1] = c
        OBVIOUS
      <4>2. /\ Len(u) = Len(w) + Len(<<c>>)
            /\ \A i \in 1..Len(w) + Len(<<c>>) : u[i] = IF i <= Len(w) THEN w[i] ELSE <<c>>[i - Len(w)]
        BY <2>2, <2>4, ConcatProperties
      <4>3. \A i \in 1..Len(w) + 1 : ~(i <= Len(w)) => i - Len(w) = 1
        BY <2>9
      <4> HIDE DEF u
      <4>. QED BY <2>7, <4>1, <4>2, <4>3 DEF u
    <3> HIDE DEF u
    <3>3. next \in Seq(Nat) /\ Len(next) = Len(pre) + Len(w) + 1
      <4>1. next \in Seq(Nat) /\ Len(next) = Len(pre) + Len(u)
        BY <3>2, ConcatProperties
      <4>. QED BY <2>9, <3>2, <4>1
    <3>4. full = next \o j
      <4>1. Joined(pre, u, j)
        BY <2>5, <3>2, AnyOrder, Zenon
      <4>. QED BY <3>1, <4>1, Zenon DEF Joined
    <3>5. /\ Len(J(ws)) = Len(w) + 1 + Len(j) /\ Len(j) \in Nat
          /\ \A i \in 1..Len(w) + 1 : J(ws)[i] = u[i]
      <4>1. /\ Len(J(ws)) = Len(u) + Len(j) /\ Len(j) \in Nat
            /\ \A i \in 1..Len(u) + Len(j) : J(ws)[i] = IF i <= Len(u) THEN u[i] ELSE j[i - Len(u)]
        <5>1. /\ Len(u \o j) = Len(u) + Len(j)
              /\ \A i \in 1..Len(u) + Len(j) :
                   (u \o j)[i] = IF i <= Len(u) THEN u[i] ELSE j[i - Len(u)]
          BY <2>5, <3>2, ConcatProperties
        <5>2. Len(j) \in Nat
          BY <2>5, LenProperties
        <5>. QED BY <3>1, <5>1, <5>2, Zenon
      <4>2. \A i \in 1..Len(w) + 1 : i \in 1..Len(u) + Len(j) /\ i <= Len(u)
        BY <2>9, <3>2, <4>1
      <4>3. Len(u) = Len(w) + 1
        BY <3>2
      <4>. QED BY <4>1, <4>2, <4>3
    <3>6. WordAt(full, start, w, delim) /\ ~(start + Len(w) > Len(full))
      <4>1. /\ start + Len(w) <= Len(full) + 1 /\ start + Len(w) <= Len(full)
            /\ ~(start + Len(w) > Len(full)) /\ start + Len(w) = Len(pre) + (Len(w) + 1)
        BY <2>9, <3>5
      <4>2. \A i \in 1..Len(w) + 1 : full[Len(pre) + i] = IF i <= Len(w) THEN w[i] ELSE c
        <5>1. \A i \in 1..Len(w) + 1 : i \in 1..Len(J(ws))
          BY <2>9, <3>5
        <5> HIDE DEF full
        <5>. QED BY <2>11, <3>2, <3>5, <5>1
      <4>3. \A i \in 1..Len(w) : full[start + i - 1] = w[i]
        <5>1. \A i \in 1..Len(w) : start + i - 1 = Len(pre) + i /\ i \in 1..Len(w) + 1 /\ i <= Len(w)
          BY <2>9
        <5> HIDE DEF full, start
        <5>. QED BY <4>2, <5>1
      <4>4. full[start + Len(w)] = c
        <5>1. Len(w) + 1 \in 1..Len(w) + 1 /\ ~(Len(w) + 1 <= Len(w))
          BY <2>9
        <5> HIDE DEF full
        <5>. QED BY <4>1, <4>2, <5>1
      <4> HIDE DEF full, start
      <4>. QED BY <4>1, <4>3, <4>4 DEF WordAt
    <3>7. Split(full, start) = <<w>> \o Split(full, start + Len(w) + 1)
      <4> HIDE DEF full, start, Split
      <4>. QED BY <2>10, <3>6, Zenon
    <3>8. start + Len(w) + 1 = Len(next) + 1
      <4> HIDE DEF next
      <4>. QED BY <2>9, <3>3
    <3>9. Split(next \o j, Len(next) + 1) = rest
      <4> HIDE DEF next, Split
      <4>. QED BY <1>3, <2>1, <3>3 DEF j
    <3>10. Split(full, start) = <<w>> \o rest
      <4>1. Split(full, start + Len(w) + 1) = rest
        <5> HIDE DEF full, start, next, Split
        <5>. QED BY <3>4, <3>8, <3>9, Zenon
      <4> HIDE DEF full, start, next, Split
      <4>. QED BY <3>7, <4>1, Zenon
    <3>. QED BY <2>1, <2>8, <3>10, Zenon
  <2>. QED BY <2>12, <2>13
<1>4. Nat \subseteq Fine
  <2> HIDE DEF Fine
  <2>. QED BY <1>2, <1>3, Induction
<1>5. ASSUME NEW ws \in Seq(V), NEW pre \in Seq(Nat)
      PROVE  J(ws) \in Seq(Nat) /\ Split(pre \o J(ws), Len(pre) + 1) = ws
  <2>1. Len(ws) \in Fine
    <3>1. Len(ws) \in Nat
      BY LenProperties
    <3> HIDE DEF Fine
    <3>. QED BY <1>4, <3>1
  <2> HIDE DEF J, Split, V
  <2>. QED BY <2>1
<1>. QED BY <1>5, Zenon DEF JoinsAndSplits

-----------------------------------------------------------------------------
(* Texts: trimming.                                                        *)

\* Neither the first byte nor the last is white.
Trimmed(s) == s # <<>> => s[1] \notin Whitespace /\ s[Len(s)] \notin Whitespace

\* What is left of a text from its first byte that is not white on.
LEMMA Left ==
  ASSUME NEW s \in Seq(Nat)
  PROVE  /\ Ltrim(s) \in Seq(Nat)
         /\ Ltrim(s) # <<>> => Ltrim(s)[1] \notin Whitespace
         /\ s # <<>> /\ s[1] \notin Whitespace => Ltrim(s) = s
         /\ s = <<>> => Ltrim(s) = <<>>
<1> DEFINE t == s \o <<0>>
           I == {i \in 1..Len(t) : t[i] \notin Whitespace}
           k == SelectInSeq(t, LAMBDA c : c \notin Whitespace)
<1>1. /\ Len(s) \in Nat /\ Len(t) = Len(s) + 1
      /\ \A i \in 1..Len(s) : t[i] = s[i] /\ s[i] \in Nat
      /\ t[Len(s) + 1] = 0
  <2>1. <<0>> \in Seq(Nat) /\ Len(<<0>>) = 1 /\ <<0>>[1] = 0
    OBVIOUS
  <2>2. /\ Len(t) = Len(s) + Len(<<0>>)
        /\ \A i \in 1..Len(s) + Len(<<0>>) : t[i] = IF i <= Len(s) THEN s[i] ELSE <<0>>[i - Len(s)]
    BY <2>1, ConcatProperties
  <2>3. Len(s) \in Nat /\ \A i \in 1..Len(s) : s[i] \in Nat
    BY LenProperties
  <2> HIDE DEF t
  <2>4. \A i \in 1..Len(s) : i \in 1..Len(s) + Len(<<0>>) /\ i <= Len(s)
    BY <2>1, <2>3
  <2>5. \A i \in 1..Len(s) : t[i] = s[i]
    BY <2>2, <2>4
  <2>6. Len(s) + 1 \in 1..Len(s) + Len(<<0>>) /\ ~(Len(s) + 1 <= Len(s)) /\ (Len(s) + 1) - Len(s) = 1
    BY <2>1, <2>3
  <2>7. t[Len(s) + 1] = 0
    BY <2>1, <2>2, <2>6
  <2>. QED BY <2>1, <2>2, <2>3, <2>5, <2>7
<1>2. k = IF I # {} THEN Min(I) ELSE 0
  BY DEF SelectInSeq
<1>3. Ltrim(s) = SubSeq(s, k, Len(s))
  BY DEF Ltrim
<1> HIDE DEF t, k
<1>4. Len(s) + 1 \in I
  <2>1. 0 \notin Whitespace
    BY DEF Whitespace, Tab, Space
  <2>. QED BY <1>1, <2>1
<1>5. k \in I /\ \A i \in I : k <= i
  <2>1. I \subseteq Nat /\ I # {}
    BY <1>1, <1>4
  <2> HIDE DEF I
  <2>. QED BY <1>2, <2>1, MinInSet
<1>6. k \in 1..Len(s) + 1 /\ (k <= Len(s) => s[k] \notin Whitespace)
  BY <1>1, <1>5
<1>7. /\ Ltrim(s) \in Seq(Nat)
      /\ Len(Ltrim(s)) = IF k <= Len(s) THEN Len(s) - k + 1 ELSE 0
      /\ \A i \in 1..Len(s) - k + 1 : Ltrim(s)[i] = s[k + i - 1]
  <2>1. \A i \in k..Len(s) : s[i] \in Nat
    BY <1>1, <1>6
  <2>2. k \in Int /\ Len(s) \in Int
    BY <1>1, <1>6
  <2>. QED BY <1>3, <2>1, <2>2, SubSeqProperties
<1>8. ASSUME Ltrim(s) # <<>> PROVE Ltrim(s)[1] \notin Whitespace
  <2>1. Len(Ltrim(s)) # 0
    BY <1>7, <1>8, EmptySeq
  <2>2. k <= Len(s) /\ 1 \in 1..Len(s) - k + 1 /\ k + 1 - 1 = k
    BY <1>1, <1>6, <1>7, <2>1
  <2>3. Ltrim(s)[1] = s[k + 1 - 1]
    BY <1>7, <2>2
  <2>. QED BY <1>6, <2>2, <2>3
<1>9. ASSUME s # <<>>, s[1] \notin Whitespace PROVE Ltrim(s) = s
  <2>1. Len(s) # 0
    BY <1>9, EmptySeq
  <2>2. 1 \in I
    BY <1>1, <1>9, <2>1
  <2>3. k = 1
    <3> HIDE DEF I
    <3>1. k <= 1
      BY <1>5, <2>2
    <3>. QED BY <1>6, <3>1
  <2>. QED BY <1>3, <2>3, SubSeqFull
<1>10. ASSUME s = <<>> PROVE Ltrim(s) = <<>>
  <2>1. Len(s) = 0
    BY <1>10
  <2>2. Len(Ltrim(s)) = 0
    BY <1>6, <1>7, <2>1
  <2>. QED BY <1>7, <2>2, EmptySeq
<1>. QED BY <1>7, <1>8, <1>9, <1>10

\* What is left of a text up to its last byte that is not white.
LEMMA Right ==
  ASSUME NEW s \in Seq(Nat)
  PROVE  /\ Rtrim(s) \in Seq(Nat)
         /\ Rtrim(s) # <<>> => s # <<>> /\ Rtrim(s)[1] = s[1] /\ Rtrim(s)[Len(Rtrim(s))] \notin Whitespace
         /\ s # <<>> /\ s[Len(s)] \notin Whitespace => Rtrim(s) = s
<1> DEFINE I == {i \in 1..Len(s) : s[i] \notin Whitespace}
           k == SelectLastInSeq(s, LAMBDA c : c \notin Whitespace)
<1>1. Len(s) \in Nat /\ \A i \in 1..Len(s) : s[i] \in Nat
  BY LenProperties
<1>2. k = IF I # {} THEN Max(I) ELSE 0
  BY DEF SelectLastInSeq
<1>3. Rtrim(s) = SubSeq(s, 1, k)
  BY DEF Rtrim
<1> HIDE DEF k
<1>4. I # {} => k \in I /\ \A i \in I : i <= k
  <2> SUFFICES ASSUME I # {} PROVE k \in I /\ \A i \in I : i <= k
    OBVIOUS
  <2>1. I \subseteq Int /\ IsFiniteSet(I)
    <3>1. IsFiniteSet(1..Len(s)) /\ I \subseteq 1..Len(s)
      BY <1>1, FS_Interval
    <3>. QED BY <3>1, FS_Subset
  <2> HIDE DEF I
  <2>. QED BY <1>2, <2>1, MaxInSet
<1>5. k \in 0..Len(s) /\ (k # 0 => s[k] \notin Whitespace)
  <2>1. CASE I = {}
    <3>1. k = 0
      BY <1>2, <2>1
    <3>. QED BY <1>1, <3>1
  <2>2. CASE I # {}
    <3>1. k \in 1..Len(s) /\ s[k] \notin Whitespace
      BY <1>4, <2>2
    <3>. QED BY <3>1
  <2>. QED BY <2>1, <2>2
<1>6. /\ Rtrim(s) \in Seq(Nat)
      /\ Len(Rtrim(s)) = IF 1 <= k THEN k - 1 + 1 ELSE 0
      /\ \A i \in 1..k - 1 + 1 : Rtrim(s)[i] = s[1 + i - 1]
  <2>1. \A i \in 1..k : s[i] \in Nat
    BY <1>1, <1>5
  <2>2. k \in Int /\ 1 \in Int
    BY <1>1, <1>5
  <2>. QED BY <1>3, <2>1, <2>2, SubSeqProperties
<1>7. ASSUME Rtrim(s) # <<>>
      PROVE  s # <<>> /\ Rtrim(s)[1] = s[1] /\ Rtrim(s)[Len(Rtrim(s))] \notin Whitespace
  <2>1. Len(Rtrim(s)) # 0
    BY <1>6, <1>7, EmptySeq
  <2>2. /\ k # 0 /\ Len(Rtrim(s)) = k /\ Len(s) # 0 /\ 1 \in 1..k - 1 + 1 /\ k \in 1..k - 1 + 1
        /\ 1 + 1 - 1 = 1 /\ 1 + k - 1 = k
    BY <1>1, <1>5, <1>6, <2>1
  <2>3. Rtrim(s)[1] = s[1 + 1 - 1] /\ Rtrim(s)[k] = s[1 + k - 1]
    BY <1>6, <2>2
  <2>4. s # <<>>
    BY <2>2, EmptySeq
  <2>. QED BY <1>5, <2>2, <2>3, <2>4
<1>8. ASSUME s # <<>>, s[Len(s)] \notin Whitespace PROVE Rtrim(s) = s
  <2>1. Len(s) # 0
    BY <1>8, EmptySeq
  <2>2. Len(s) \in I
    BY <1>1, <1>8, <2>1
  <2>3. k = Len(s)
    <3> HIDE DEF I
    <3>1. Len(s) <= k
      BY <1>4, <2>2
    <3>. QED BY <1>1, <1>5, <3>1
  <2>. QED BY <1>3, <2>3, SubSeqFull
<1>. QED BY <1>6, <1>7, <1>8

\* What is trimmed begins and ends with a byte that is not white, and trimming
\* what does leaves it as it is.
LEMMA Trims ==
  ASSUME NEW s \in Seq(Nat)
  PROVE  /\ Trim(s) \in Seq(Nat) /\ Trimmed(Trim(s))
         /\ Trimmed(s) => Trim(s) = s
<1> DEFINE t == Ltrim(s)
<1>1. /\ t \in Seq(Nat)
      /\ t # <<>> => t[1] \notin Whitespace
      /\ s # <<>> /\ s[1] \notin Whitespace => t = s
  BY Left
<1>2. Trim(s) = Rtrim(t)
  BY DEF Trim
<1> HIDE DEF t
<1>3. /\ Rtrim(t) \in Seq(Nat)
      /\ Rtrim(t) # <<>> => t # <<>> /\ Rtrim(t)[1] = t[1] /\ Rtrim(t)[Len(Rtrim(t))] \notin Whitespace
      /\ t # <<>> /\ t[Len(t)] \notin Whitespace => Rtrim(t) = t
  BY <1>1, Right
<1>4. Trimmed(Rtrim(t))
  BY <1>1, <1>3 DEF Trimmed
<1>5. ASSUME Trimmed(s) PROVE Rtrim(t) = s
  <2>1. CASE s = <<>>
    <3>1. t = <<>>
      BY <2>1, Left, Zenon DEF t
    <3>2. Rtrim(t) = <<>>
      BY <1>3, <3>1, Zenon
    <3>. QED BY <2>1, <3>2
  <2>2. CASE s # <<>>
    BY <1>1, <1>3, <1>5, <2>2 DEF Trimmed
  <2>. QED BY <2>1, <2>2
<1>. QED BY <1>2, <1>3, <1>4, <1>5

\* Two texts together begin with the first and end with the second.
LEMMA Ends ==
  ASSUME NEW s \in Seq(Nat), NEW t \in Seq(Nat)
  PROVE  /\ t # <<>> => s \o t # <<>> /\ Last(s \o t) = Last(t)
         /\ s # <<>> => s \o t # <<>> /\ (s \o t)[1] = s[1]
<1> DEFINE u == s \o t
<1>1. Len(s) \in Nat /\ Len(t) \in Nat /\ (s # <<>> => Len(s) # 0) /\ (t # <<>> => Len(t) # 0)
  BY LenProperties, EmptySeq
<1>2. /\ u \in Seq(Nat) /\ Len(u) = Len(s) + Len(t)
      /\ \A i \in 1..Len(s) + Len(t) : u[i] = IF i <= Len(s) THEN s[i] ELSE t[i - Len(s)]
  BY ConcatProperties
<1> HIDE DEF u
<1>3. u # <<>> <=> Len(u) # 0
  BY <1>2, EmptySeq
<1>4. ASSUME t # <<>> PROVE u # <<>> /\ u[Len(u)] = t[Len(t)]
  <2>1. /\ Len(s) + Len(t) \in 1..Len(s) + Len(t) /\ ~(Len(s) + Len(t) <= Len(s))
        /\ (Len(s) + Len(t)) - Len(s) = Len(t) /\ Len(u) # 0
    BY <1>1, <1>2, <1>4
  <2>. QED BY <1>2, <1>3, <2>1
<1>5. ASSUME s # <<>> PROVE u # <<>> /\ u[1] = s[1]
  <2>1. 1 \in 1..Len(s) + Len(t) /\ 1 <= Len(s) /\ Len(u) # 0
    BY <1>1, <1>2, <1>5
  <2>. QED BY <1>2, <1>3, <2>1
<1>. QED BY <1>4, <1>5 DEF u, Last

\* Paths may be joined in any order.
LEMMA PathsInAnyOrder ==
  ASSUME NEW a \in Seq(Nat), NEW b \in Seq(Nat), NEW c \in Seq(Nat)
  PROVE  JoinPath(JoinPath(a, b), c) = JoinPath(a, JoinPath(b, c))
<1> DEFINE Open(s) == s # <<>> /\ Last(s) # Slash
           sl == <<Slash>>
           as == a \o sl
           bs == b \o sl
<1>1. sl \in Seq(Nat) /\ Len(sl) = 1 /\ sl[1] = Slash
  BY DEF Slash
<1>2. \A s, t : JoinPath(s, t) = IF Open(s) THEN (s \o sl) \o t ELSE s \o t
  BY DEF JoinPath
<1> HIDE DEF sl
<1>3. as \in Seq(Nat) /\ bs \in Seq(Nat)
  BY <1>1, ConcatProperties, Zenon
<1>4. ASSUME NEW s \in Seq(Nat), NEW t \in Seq(Nat), t # <<>>
      PROVE  Open(s \o t) <=> Open(t)
  <2>1. s \o t # <<>> /\ Last(s \o t) = Last(t)
    BY <1>4, Ends
  <2>. QED BY <1>4, <2>1
<1>5. ~Open(as) /\ ~Open(bs)
  <2>1. ~Open(sl)
    BY <1>1 DEF Last
  <2>2. sl # <<>>
    BY DEF sl
  <2> HIDE DEF Open
  <2>. QED BY <1>1, <1>4, <2>1, <2>2
<1>6. \A x, y, z \in Seq(Nat) : Joined(x, y, z)
  BY AnyOrder
<1>7. CASE b = <<>>
  <2>1. /\ \A x \in Seq(Nat) : x \o b = x /\ b \o x = x
        /\ ~Open(b)
    BY <1>7, ConcatEmptySeq
  <2>2. JoinPath(b, c) = c
    BY <1>2, <2>1, Zenon
  <2>3. CASE Open(a)
    <3>1. JoinPath(a, b) = as
      BY <1>2, <1>3, <2>1, <2>3, Zenon
    <3> HIDE DEF Open
    <3>. QED BY <1>2, <1>5, <2>2, <2>3, <3>1, Zenon
  <2>4. CASE ~Open(a)
    <3>1. JoinPath(a, b) = a
      BY <1>2, <2>1, <2>4, Zenon
    <3>. QED BY <2>2, <3>1, Zenon
  <2>. QED BY <2>3, <2>4
<1>8. CASE b # <<>>
  <2> HIDE DEF Open
  <2> DEFINE x == IF Open(a) THEN as ELSE a
             y == IF Open(b) THEN bs ELSE b
  <2>1. x \in Seq(Nat) /\ y \in Seq(Nat)
    BY <1>3, Zenon
  <2>2. JoinPath(a, b) = x \o b /\ JoinPath(b, c) = y \o c
    BY <1>2, Zenon
  <2>3. JoinPath(a, y \o c) = x \o (y \o c)
    BY <1>2, Zenon
  <2>4. Open(x \o b) <=> Open(b)
    <3> HIDE DEF x
    <3>. QED BY <1>4, <1>8, <2>1
  <2>5. JoinPath(x \o b, c) = (x \o y) \o c
    <3>1. CASE Open(b)
      <4> HIDE DEF x
      <4>1. Joined(x, b, sl)
        BY <1>1, <1>6, <2>1, Zenon
      <4>2. JoinPath(x \o b, c) = ((x \o b) \o sl) \o c
        BY <1>2, <2>4, <3>1, Zenon
      <4>. QED BY <3>1, <4>1, <4>2, Zenon DEF Joined
    <3>2. CASE ~Open(b)
      <4> HIDE DEF x
      <4>1. JoinPath(x \o b, c) = (x \o b) \o c
        BY <1>2, <2>4, <3>2, Zenon
      <4>. QED BY <3>2, <4>1, Zenon
    <3>. QED BY <3>1, <3>2
  <2> HIDE DEF x, y
  <2>6. Joined(x, y, c)
    BY <1>6, <2>1, Zenon
  <2>. QED BY <2>2, <2>3, <2>5, <2>6, Zenon DEF Joined
<1>. QED BY <1>7, <1>8

\* What joins the words of a text that begins and ends with no white does so too.
LEMMA WordsJoined ==
  ASSUME NEW t \in Seq(Nat), Trimmed(t), NEW delim, delim \subseteq Whitespace,
         NEW c \in Nat, c \in delim
  PROVE  Trimmed(JoinString(<<c>>, PartsFrom(t, delim, TRUE)[1]))
<1> DEFINE some == PartsFrom(t, delim, TRUE)
           J(ws) == JoinString(<<c>>, ws)
           Good(s) == s \in Seq(Nat) /\ s # <<>> /\ Last(s) = Last(t)
           Fine == {i \in Nat : i \in 1..Len(t) => some[i] # <<>> /\ Good(J(some[i]))}
<1>1. Len(t) \in Nat /\ (t = <<>> <=> Len(t) = 0) /\ <<c>> \in Seq(Nat)
  BY LenProperties, EmptySeq
<1>2. t # <<>> => t[1] \notin delim /\ t[Len(t)] \notin delim
  BY DEF Trimmed
<1>3. ASSUME NEW i \in 1..Len(t)
      PROVE  LET p == PartOf(t, delim, i)  at == FindFirstOf(t, delim, i)
                 r == Later(t, delim, TRUE, i)
             IN  /\ p \in Seq(Nat) /\ r \in Seq(Seq(Nat))
                 /\ at \in i..Len(t) + 1 /\ (at <= Len(t) => t[at] \in delim)
                 /\ p = SubSeq(t, i, at - 1)
                 /\ at # i => p # <<>> /\ p[1] = t[i] /\ Last(p) = t[at - 1]
                 /\ r = IF at > Len(t) THEN <<>> ELSE some[at + 1]
                 /\ some[i] = (IF at # i THEN <<p>> ELSE <<>>) \o r
                 /\ J(r) \in Seq(Nat)
                 /\ J(<<p>> \o r) = IF r = <<>> THEN p ELSE (p \o <<c>>) \o J(r)
  <2> DEFINE p == PartOf(t, delim, i)
             at == FindFirstOf(t, delim, i)
             r == Later(t, delim, TRUE, i)
  <2>1. i \in 1..Len(t) + 1 /\ i # Len(t) + 1
    BY <1>1
  <2>2. /\ FoundAt(at, t, delim, i) /\ p \in Seq(Nat) /\ r \in Seq(Seq(Nat))
        /\ some[i] = (IF at # i /\ i # Len(t) + 1 THEN <<p>> ELSE <<>>) \o r
    BY <2>1, PartsHere, Zenon DEF Kept
  <2>3. p = SubSeq(t, i, at - 1) /\ r = IF at > Len(t) THEN <<>> ELSE some[at + 1]
    BY DEF PartOf, Later
  <2> HIDE DEF at, p, r, some
  <2>4. at \in i..Len(t) + 1 /\ (at <= Len(t) => t[at] \in delim)
    BY <2>2 DEF FoundAt
  <2>5. J(r) \in Seq(Nat) /\ J(<<p>> \o r) = IF r = <<>> THEN p ELSE (p \o <<c>>) \o J(r)
    <3>1. JoinString(<<c>>, r) \in Seq(Nat) /\ JoinedFirst(<<c>>, p, r)
      BY <1>1, <2>2, JoinFirst, Zenon
    <3>. QED BY <3>1, Zenon DEF JoinedFirst
  <2>6. ASSUME at # i PROVE p # <<>> /\ p[1] = t[i] /\ Last(p) = t[at - 1]
    <3>1. \A n \in i..at - 1 : t[n] \in Nat
      <4>1. \A n \in i..at - 1 : n \in 1..Len(t)
        BY <1>1, <2>4
      <4>2. \A n \in 1..Len(t) : t[n] \in Nat
        BY LenProperties
      <4>. QED BY <4>1, <4>2
    <3>2. i \in Int /\ at - 1 \in Int /\ i <= at - 1
      BY <2>4, <2>6
    <3>3. /\ Len(p) = IF i <= at - 1 THEN at - 1 - i + 1 ELSE 0
          /\ \A n \in 1..at - 1 - i + 1 : p[n] = t[i + n - 1]
      BY <2>3, <3>1, <3>2, SubSeqProperties
    <3>4. /\ Len(p) = at - i /\ Len(p) # 0 /\ 1 \in 1..at - 1 - i + 1 /\ Len(p) \in 1..at - 1 - i + 1
          /\ i + 1 - 1 = i /\ i + Len(p) - 1 = at - 1
      BY <2>4, <3>2, <3>3
    <3>5. p # <<>>
      BY <2>2, <3>4, EmptySeq
    <3>6. p[1] = t[i] /\ p[Len(p)] = t[at - 1]
      BY <3>3, <3>4
    <3>. QED BY <3>5, <3>6 DEF Last
  <2>7. some[i] = (IF at # i THEN <<p>> ELSE <<>>) \o r
    BY <2>1, <2>2, Zenon
  <2> HIDE DEF J
  <2>. QED BY <2>2, <2>3, <2>4, <2>5, <2>6, <2>7, Zenon DEF p, at, r
<1>4. ASSUME NEW i \in Nat, i <= Len(t) => \A j \in Nat : j > i => j \in Fine
      PROVE  i \in Fine
  <2> SUFFICES ASSUME i \in 1..Len(t) PROVE some[i] # <<>> /\ Good(J(some[i]))
    OBVIOUS
  <2> DEFINE p == PartOf(t, delim, i)
             at == FindFirstOf(t, delim, i)
             r == Later(t, delim, TRUE, i)
  <2> HIDE DEF J
  <2>1. /\ p \in Seq(Nat) /\ r \in Seq(Seq(Nat))
        /\ at \in i..Len(t) + 1 /\ (at <= Len(t) => t[at] \in delim)
        /\ at # i => p # <<>> /\ p[1] = t[i] /\ Last(p) = t[at - 1]
        /\ r = IF at > Len(t) THEN <<>> ELSE some[at + 1]
        /\ some[i] = (IF at # i THEN <<p>> ELSE <<>>) \o r
        /\ J(r) \in Seq(Nat)
        /\ J(<<p>> \o r) = IF r = <<>> THEN p ELSE (p \o <<c>>) \o J(r)
    <3> HIDE DEF some
    <3>. QED BY <1>3, Zenon DEF p, at, r
  <2>2. t # <<>> /\ i <= Len(t)
    BY <1>1
  <2> HIDE DEF p, at, r, some, Fine, Good
  <2>3. CASE at > Len(t)
    <3>1. at # i /\ at - 1 = Len(t)
      BY <1>1, <2>1, <2>2, <2>3
    <3>2. r = <<>> /\ some[i] = <<p>> \o r
      BY <2>1, <2>3, <3>1
    <3>3. some[i] # <<>>
      BY <3>2
    <3>4. J(some[i]) = p
      BY <2>1, <3>2, Zenon
    <3>5. Good(p)
      BY <2>1, <3>1 DEF Good, Last
    <3>. QED BY <3>3, <3>4, <3>5
  <2>4. CASE ~(at > Len(t))
    <3>1. at # Len(t)
      <4>1. t[Len(t)] \notin delim
        BY <1>2, <2>2, Zenon
      <4>2. at <= Len(t) => t[at] \in delim
        BY <2>1, Zenon
      <4>3. at \in i..Len(t) + 1
        BY <2>1, Zenon
      <4>4. at <= Len(t)
        BY <1>1, <2>4, <4>3
      <4>. QED BY <4>1, <4>2, <4>4
    <3>2. at + 1 \in Nat /\ at + 1 > i /\ at + 1 \in 1..Len(t)
      BY <1>1, <2>1, <2>4, <3>1
    <3>3. r # <<>> /\ Good(J(r))
      <4>1. at + 1 \in Fine
        BY <1>4, <2>2, <3>2
      <4>. QED BY <2>1, <2>4, <3>2, <4>1 DEF Fine
    <3>4. CASE at = i
      <4>1. some[i] = r
        BY <2>1, <3>4, ConcatEmptySeq
      <4>. QED BY <3>3, <4>1
    <3>5. CASE at # i
      <4>1. some[i] = <<p>> \o r
        BY <2>1, <3>5, Zenon
      <4>2. some[i] # <<>>
        <5>1. some[i] \in Seq(Seq(Nat)) /\ FirstAndRest(some[i], p, r)
          BY <2>1, <4>1, SetWithFirst, Zenon
        <5>2. Len(some[i]) # 0
          BY <5>1 DEF FirstAndRest
        <5>. QED BY <5>1, <5>2, EmptySeq
      <4> DEFINE b == p \o <<c>>
                 j == J(r)
      <4>3. b \in Seq(Nat)
        BY <1>1, <2>1, ConcatProperties, Zenon
      <4>4. J(some[i]) = b \o j
        BY <2>1, <3>3, <4>1, Zenon
      <4> HIDE DEF b, j
      <4>5. j \in Seq(Nat) /\ j # <<>> /\ Last(j) = Last(t)
        BY <3>3 DEF j, Good
      <4>6. b \o j # <<>> /\ Last(b \o j) = Last(j)
        BY <4>3, <4>5, Ends
      <4>7. b \o j \in Seq(Nat)
        BY <4>3, <4>5, ConcatProperties, Zenon
      <4>8. Good(J(some[i]))
        BY <4>4, <4>5, <4>6, <4>7 DEF Good
      <4>. QED BY <4>2, <4>8
    <3>. QED BY <3>4, <3>5
  <2>. QED BY <2>3, <2>4
<1>5. Nat \subseteq Fine
  <2> HIDE DEF Fine
  <2>. QED BY <1>1, <1>4, Backwards
<1>6. CASE t = <<>>
  <2>1. /\ <<>> \in Seq(Words(delim)) /\ <<>> \in Seq(Nat) /\ <<>> \o <<>> = <<>>
        /\ Len(<<>>) + 1 = 1
    OBVIOUS
  <2>2. PartsFrom(<<>> \o J(<<>>), delim, TRUE)[Len(<<>>) + 1] = <<>>
    <3>1. \A ws \in Seq(Words(delim)) : \A pre \in Seq(Nat) :
            /\ J(ws) \in Seq(Nat)
            /\ PartsFrom(pre \o J(ws), delim, TRUE)[Len(pre) + 1] = ws
      <4>1. JoinsAndSplits(delim, c)
        BY JoinAndSplit, Zenon
      <4>. QED BY <4>1, Zenon DEF JoinsAndSplits
    <3> HIDE DEF J
    <3>. QED BY <2>1, <3>1, Zenon
  <2>3. J(<<>>) = <<>>
    BY JoinNone, Zenon
  <2>4. some[1] = <<>>
    BY <1>6, <2>1, <2>2, <2>3, Zenon
  <2>. QED BY <2>3, <2>4, Zenon DEF Trimmed
<1>7. CASE t # <<>>
  <2>1. 1 \in 1..Len(t) /\ 1 \in Nat
    BY <1>1, <1>7
  <2>2. Good(J(some[1]))
    <3> HIDE DEF Good, J, some
    <3>. QED BY <1>5, <2>1
  <2>3. J(some[1])[1] = t[1]
    <3> DEFINE p == PartOf(t, delim, 1)
               at == FindFirstOf(t, delim, 1)
               r == Later(t, delim, TRUE, 1)
    <3> HIDE DEF J
    <3>1. /\ p \in Seq(Nat) /\ r \in Seq(Seq(Nat))
          /\ at \in 1..Len(t) + 1 /\ (at <= Len(t) => t[at] \in delim)
          /\ at # 1 => p # <<>> /\ p[1] = t[1]
          /\ some[1] = (IF at # 1 THEN <<p>> ELSE <<>>) \o r
          /\ J(r) \in Seq(Nat)
          /\ J(<<p>> \o r) = IF r = <<>> THEN p ELSE (p \o <<c>>) \o J(r)
      <4> HIDE DEF some
      <4>. QED BY <1>3, <2>1, Zenon DEF p, at, r
    <3> HIDE DEF p, at, r, some
    <3>2. at # 1
      BY <1>2, <1>7, <2>1, <3>1
    <3>3. some[1] = <<p>> \o r
      BY <3>1, <3>2, Zenon
    <3>4. CASE r = <<>>
      <4>1. J(some[1]) = p
        BY <3>1, <3>3, <3>4, Zenon
      <4>. QED BY <3>1, <3>2, <4>1
    <3>5. CASE r # <<>>
      <4> DEFINE b == p \o <<c>>
                 j == J(r)
      <4>1. b \in Seq(Nat) /\ b # <<>> /\ b[1] = p[1]
        <5>1. b \in Seq(Nat)
          BY <1>1, <3>1, ConcatProperties, Zenon
        <5>2. b # <<>> /\ b[1] = p[1]
          BY <1>1, <3>1, <3>2, Ends
        <5>. QED BY <5>1, <5>2
      <4>2. J(some[1]) = b \o j
        BY <3>1, <3>3, <3>5, Zenon
      <4> HIDE DEF b
      <4>3. j \in Seq(Nat)
        BY <3>1
      <4> HIDE DEF j
      <4>4. (b \o j)[1] = b[1]
        BY <4>1, <4>3, Ends
      <4>. QED BY <3>1, <3>2, <4>1, <4>2, <4>4
    <3>. QED BY <3>4, <3>5
  <2> HIDE DEF J, some
  <2>4. Last(t) = t[Len(t)] /\ Last(J(some[1])) = J(some[1])[Len(J(some[1]))]
    BY Zenon DEF Last
  <2>5. t[1] \notin Whitespace /\ t[Len(t)] \notin Whitespace
    BY <1>7, Zenon DEF Trimmed
  <2>6. Trimmed(J(some[1]))
    BY <2>2, <2>3, <2>4, <2>5, Zenon DEF Good, Trimmed
  <2>. QED BY <2>6 DEF J, some
<1>. QED BY <1>6, <1>7

-----------------------------------------------------------------------------
(* Texts: TextsStayWhole.                                                  *)

\* PartsMakeTheWhole of every text.
LEMMA TextIsItsParts == ASSUME NEW str \in Seq(Nat) PROVE PartsMakeTheWhole(str)
<1> DEFINE D == {Space, Tab}
           parts == SplitStringToVector(str, {Space}, FALSE)
           words == SplitString(str)
           again == JoinString(<<Space>>, words)
           t == Trim(str)
<1>1. Space \in Nat /\ Space \in D /\ D \subseteq Whitespace /\ D = {Space, Tab}
  BY DEF Space, Tab, Whitespace
<1>2. t \in Seq(Nat) /\ Trimmed(t)
  BY Trims, Zenon
<1>3. words = PartsFrom(t, D, TRUE)[1]
  <2>1. words = SplitStringToVector(t, D, TRUE)
    BY DEF SplitString
  <2> HIDE DEF words, t, D
  <2>. QED BY <1>2, <2>1, PartsWalk, Zenon
<1> HIDE DEF words, t, D
<1>4. words \in Seq(Words(D))
  <2>1. 1 \in 1..Len(t) + 1
    BY <1>2, LenProperties
  <2>. QED BY <1>2, <1>3, <2>1, PartsAreWords, Zenon
<1>5. \A w \in ToSet(words) : w # <<>> /\ ToSet(w) \cap {Space, Tab} = {}
  <2>1. \A w \in ToSet(words) : w \in Words(D)
    BY <1>4, LenProperties DEF ToSet
  <2>. QED BY <1>1, <2>1 DEF Words
<1>6. \A pre \in Seq(Nat) :
        again \in Seq(Nat) /\ PartsFrom(pre \o again, D, TRUE)[Len(pre) + 1] = words
  <2>0. Space \in Nat /\ Space \in D
    BY <1>1
  <2>1. \A ws \in Seq(Words(D)) : \A pre \in Seq(Nat) :
          /\ JoinString(<<Space>>, ws) \in Seq(Nat)
          /\ PartsFrom(pre \o JoinString(<<Space>>, ws), D, TRUE)[Len(pre) + 1] = ws
    <3>1. JoinsAndSplits(D, Space)
      BY <2>0, JoinAndSplit, Zenon
    <3>. QED BY <3>1, Zenon DEF JoinsAndSplits
  <2>. QED BY <1>4, <2>1, Zenon
<1>7. Trimmed(again)
  BY <1>1, <1>2, <1>3, WordsJoined, Zenon
<1> HIDE DEF again
<1>8. SplitString(again) = words
  <2>1. <<>> \in Seq(Nat) /\ Len(<<>>) + 1 = 1
    OBVIOUS
  <2>2. again \in Seq(Nat) /\ PartsFrom(<<>> \o again, D, TRUE)[1] = words
    BY <1>6, <2>1, Zenon
  <2>3. <<>> \o again = again
    BY <2>2, ConcatEmptySeq
  <2>4. Trim(again) = again
    BY <1>7, <2>2, Trims, Zenon
  <2>5. SplitStringToVector(again, D, TRUE) = PartsFrom(again, D, TRUE)[1]
    BY <2>2, PartsWalk, Zenon
  <2>6. SplitString(again) = SplitStringToVector(Trim(again), D, TRUE)
    BY Zenon DEF SplitString, D
  <2>. QED BY <2>2, <2>3, <2>4, <2>5, <2>6, Zenon
<1>9. JoinString(<<Space>>, parts) = str
  BY <1>1, SplitAndJoin, Zenon
<1>10. SplitStringToVector(str, {Space}, TRUE) = NonEmpty(parts)
  BY SplitWithoutEmpty, Zenon
<1>11. \A a, b, c \in ToSet(parts) : JoinPath(JoinPath(a, b), c) = JoinPath(a, JoinPath(b, c))
  <2>1. parts \in Seq(Seq(Nat))
    <3>1. parts = PartsFrom(str, {Space}, FALSE)[1]
      BY PartsWalk, Zenon
    <3>2. PartsFrom(str, {Space}, FALSE) \in [Starts -> Seq(Seq(Nat))]
      BY PartsWalk, Zenon
    <3>3. 1 \in Starts
      BY DEF Starts
    <3> HIDE DEF parts
    <3>. QED BY <3>1, <3>2, <3>3
  <2> HIDE DEF parts
  <2>2. \A a \in ToSet(parts) : a \in Seq(Nat)
    BY <2>1, LenProperties DEF ToSet
  <2>. QED BY <2>2, PathsInAnyOrder, Zenon
<1>. QED BY <1>5, <1>8, <1>9, <1>10, <1>11, Zenon DEF PartsMakeTheWhole, again, words

\* StringUtil: splitting, joining and cutting into characters lose nothing, of
\* every text.
THEOREM TextsStayWholeAlways == LibrarySpec => []TextsStayWhole
<1>1. CallInv => TextsStayWhole
  <2> SUFFICES ASSUME CallInv, call.fn = "text"
               PROVE  CharactersAreWhole(call.str) /\ PartsMakeTheWhole(call.str)
    BY DEF TextsStayWhole
  <2>1. PICK s \in Texts : call = [fn |-> "text", str |-> s]
    BY DEF CallInv, NoCall
  <2>2. call.str = s
    BY <2>1
  <2>3. s \in Seq(Nat)
    <3>1. s \in Seq(0..255)
      BY LibrariesAssumption
    <3>2. 0..255 \subseteq Nat
      OBVIOUS
    <3>. QED BY <3>1, <3>2, SeqMonotonic, Zenon
  <2>. QED BY <2>2, <2>3, TextIsItsCharacters, TextIsItsParts, Zenon
<1>. QED BY <1>1, CallsHaveArguments, PTL

-----------------------------------------------------------------------------
(* The ring. CircleQueue implements a FIFO of Capacity values, for every   *)
(* capacity, type of values and sequence of calls.                         *)

\* Used with the other libraries, the ring does what it does alone.
THEOREM RingIsUsedAlone == LibrarySpec => Spec
<1>1. LibraryInit => Init
  BY DEF LibraryInit
<1>2. [LibraryNext]_libraryVars => [Next]_vars
  BY DEF LibraryNext, libraryVars
<1>. QED BY <1>1, <1>2, PTL DEF LibrarySpec, Spec

USE QueueAssumption

Inv == TypeOK /\ SizeMatchesIndices

\* The next slot of the ring, without a remainder.
LEMMA NextSlot ==
  ASSUME NEW i \in 0..Capacity
  PROVE  (i + 1) % Slots = IF i = Capacity THEN 0 ELSE i + 1
BY DEF Slots

\* Remainders of the sums and differences of slots.
LEMMA Offset ==
  ASSUME NEW i \in 0..Capacity, NEW k \in 0..Capacity
  PROVE  (i + k) % Slots = IF i + k > Capacity THEN i + k - Slots ELSE i + k
BY DEF Slots

\* The counter formula of size(): the distance from head_ to tail_.
LEMMA Distance ==
  ASSUME NEW i \in 0..Capacity, NEW j \in 0..Capacity
  PROVE  (j - i) % Slots = IF j < i THEN j - i + Slots ELSE j - i
BY DEF Slots
-----------------------------------------------------------------------------

\* The constructor establishes the invariant.
LEMMA InitInv == Init => Inv
<1> SUFFICES ASSUME Init PROVE Inv
  OBVIOUS
<1>1. Full <=> Capacity = 0
  BY NextSlot DEF Init, Full
<1>2. (tail - head) % Slots = 0
  BY Distance DEF Init
<1>. QED BY <1>1, <1>2 DEF Init, Inv, TypeOK, SizeMatchesIndices, Empty

\* push keeps the invariant, whether it is refused or not.
LEMMA PushInv ==
  ASSUME Inv, NEW v \in Values, Push(v)
  PROVE  Inv'
<1>1. CASE Full
  BY <1>1 DEF Push, Inv, TypeOK, SizeMatchesIndices, Empty, Full, Slots
<1>2. CASE ~Full
  <2>1. tail' = IF tail = Capacity THEN 0 ELSE tail + 1
    BY <1>2, NextSlot DEF Push, Inv, TypeOK
  <2>2. head' = head /\ size' = size + 1 /\ tail' # head
    BY <1>2 DEF Push, Full
  <2>3. size = IF tail < head THEN tail - head + Slots ELSE tail - head
    BY Distance DEF Inv, TypeOK, SizeMatchesIndices
  <2>4. TypeOK'
    <3>1. size' \in 0..Capacity /\ tail' \in 0..Capacity
      BY <2>1, <2>2, <2>3 DEF Inv, TypeOK, Slots
    <3>2. data' \in [0..Capacity -> Values] /\ ok' \in BOOLEAN
      BY <1>2 DEF Push, Inv, TypeOK
    <3>. QED BY <3>1, <3>2, <2>2 DEF Inv, TypeOK
  <2>5. (tail' - head') % Slots =
          IF tail' < head' THEN tail' - head' + Slots ELSE tail' - head'
    BY <2>4, Distance DEF TypeOK
  <2>6. Full' <=> (IF tail' = Capacity THEN 0 ELSE tail' + 1) = head'
    BY <2>4, NextSlot DEF TypeOK, Full
  <2>7. SizeMatchesIndices'
    BY <2>1, <2>2, <2>3, <2>4, <2>5, <2>6
       DEF Inv, TypeOK, SizeMatchesIndices, Empty, Slots
  <2>. QED BY <2>4, <2>7 DEF Inv
<1>. QED BY <1>1, <1>2

\* pop keeps the invariant, whether it is refused or not.
LEMMA PopInv ==
  ASSUME Inv, Pop
  PROVE  Inv'
<1>1. CASE Empty
  BY <1>1 DEF Pop, Inv, TypeOK, SizeMatchesIndices, Empty, Full, Slots
<1>2. CASE ~Empty
  <2>1. head' = IF head = Capacity THEN 0 ELSE head + 1
    BY <1>2, NextSlot DEF Pop, Inv, TypeOK
  <2>2. tail' = tail /\ size' = size - 1 /\ tail # head
    BY <1>2 DEF Pop, Empty
  <2>3. size = IF tail < head THEN tail - head + Slots ELSE tail - head
    BY Distance DEF Inv, TypeOK, SizeMatchesIndices
  <2>4. TypeOK'
    <3>1. size' \in 0..Capacity /\ head' \in 0..Capacity
      BY <2>1, <2>2, <2>3 DEF Inv, TypeOK, Slots
    <3>2. data' = data /\ ok' \in BOOLEAN
      BY <1>2 DEF Pop
    <3>. QED BY <3>1, <3>2, <2>2 DEF Inv, TypeOK
  <2>5. (tail' - head') % Slots =
          IF tail' < head' THEN tail' - head' + Slots ELSE tail' - head'
    BY <2>4, Distance DEF TypeOK
  <2>6. Full' <=> (IF tail' = Capacity THEN 0 ELSE tail' + 1) = head'
    BY <2>4, NextSlot DEF TypeOK, Full
  <2>7. SizeMatchesIndices'
    BY <2>1, <2>2, <2>3, <2>4, <2>5, <2>6
       DEF Inv, TypeOK, SizeMatchesIndices, Empty, Slots
  <2>. QED BY <2>4, <2>7 DEF Inv
<1>. QED BY <1>1, <1>2

\* Every step keeps the invariant.
LEMMA NextInv == Inv /\ [Next]_vars => Inv'
<1>1. CASE UNCHANGED vars
  BY <1>1 DEF vars, Inv, TypeOK, SizeMatchesIndices, Empty, Full
<1>. QED BY <1>1, PushInv, PopInv DEF Next

\* The invariant holds of every reachable ring.
THEOREM Invariance == Spec => []Inv
BY InitInv, NextInv, PTL DEF Spec

\* Indices stay in the ring and size_ in 0..capacity_.
THEOREM TypeCorrect == Spec => []TypeOK
<1>1. Inv => TypeOK
  BY DEF Inv
<1>. QED BY <1>1, Invariance, PTL

\* size(), empty() and full() never disagree.
THEOREM SizeIsRight == Spec => []SizeMatchesIndices
<1>1. Inv => SizeMatchesIndices
  BY DEF Inv
<1>. QED BY <1>1, Invariance, PTL

-----------------------------------------------------------------------------
(* The refinement.                                                         *)

\* Where the i-th oldest value of a ring that starts at h is.
LEMMA SlotOf ==
  ASSUME NEW h \in 0..Capacity, NEW i \in 1..Capacity
  PROVE  /\ (h + i - 1) % Slots \in 0..Capacity
         /\ (h + i - 1) % Slots = IF h + i - 1 > Capacity
                                  THEN h + i - 1 - Slots
                                  ELSE h + i - 1
<1>1. i - 1 \in 0..Capacity /\ h + (i - 1) = h + i - 1
  OBVIOUS
<1>2. (h + i - 1) % Slots = IF h + i - 1 > Capacity
                            THEN h + i - 1 - Slots ELSE h + i - 1
  BY <1>1, Offset
<1>. QED BY <1>1, <1>2 DEF Slots

\* ... and in a ring of the right type it is a slot.
LEMMA Slot ==
  ASSUME TypeOK, NEW i \in 1..size
  PROVE  /\ (head + i - 1) % Slots \in 0..Capacity
         /\ (head + i - 1) % Slots = IF head + i - 1 > Capacity
                                     THEN head + i - 1 - Slots
                                     ELSE head + i - 1
<1>1. head \in 0..Capacity /\ i \in 1..Capacity
  BY DEF TypeOK
<1>. QED BY <1>1, SlotOf

\* The contents are a sequence of values as long as the counter says.
LEMMA ContentsIsSeq ==
  ASSUME TypeOK
  PROVE  /\ Contents \in Seq(Values)
         /\ Len(Contents) = size
         /\ \A i \in 1..size : Contents[i] = data[(head + i - 1) % Slots]
<1>1. \A i \in 1..size : data[(head + i - 1) % Slots] \in Values
  BY Slot DEF TypeOK
<1>. QED BY <1>1 DEF Contents, TypeOK

\* The same after a step.
LEMMA ContentsIsSeqNext ==
  ASSUME TypeOK'
  PROVE  Contents' \in Seq(Values) /\ Len(Contents') = size'
<1>1. ASSUME NEW i \in 1..size'
      PROVE  data'[(head' + i - 1) % Slots] \in Values
  <2>1. head' \in 0..Capacity /\ i \in 1..Capacity
    BY DEF TypeOK
  <2>2. (head' + i - 1) % Slots \in 0..Capacity
    BY <2>1, SlotOf
  <2>. QED BY <2>2 DEF TypeOK
<1>. QED BY <1>1 DEF Contents, TypeOK

\* An empty ring is an empty FIFO.
LEMMA InitRefines == Init => Fifo!Init
<1>1. Init => size = 0 /\ ok = TRUE
  BY DEF Init
<1>. QED BY <1>1 DEF Fifo!Init, Contents

\* A push appends to the contents, or is refused when the ring is full.
LEMMA PushRefines ==
  ASSUME Inv, Inv', NEW v \in Values, Push(v)
  PROVE  Fifo!Push(v)
<1>1. Len(Contents) = size /\ Contents \in Seq(Values)
  BY ContentsIsSeq DEF Inv
<1>2. CASE Full
  <2>1. Contents' = Contents
    BY <1>2 DEF Push, Contents
  <2>2. ~(Len(Contents) < Capacity)
    BY <1>1, <1>2 DEF Inv, TypeOK, SizeMatchesIndices
  <2>3. ok' = (Len(Contents) < Capacity)
    <3>1. ~ok' /\ ok' \in BOOLEAN
      BY <1>2 DEF Push
    <3>. QED BY <2>2, <3>1
  <2>. QED BY <2>1, <2>2, <2>3, Zenon DEF Fifo!Push
<1>3. CASE ~Full
  <2>1. size < Capacity
    BY <1>3 DEF Inv, TypeOK, SizeMatchesIndices
  <2>2. /\ size' = size + 1 /\ head' = head
        /\ data' = [data EXCEPT ![tail] = v]
        /\ ok' = TRUE
    BY <1>3 DEF Push
  <2>3. tail = IF head + size > Capacity THEN head + size - Slots
                                         ELSE head + size
    <3>1. size = IF tail < head THEN tail - head + Slots ELSE tail - head
      BY Distance DEF Inv, TypeOK, SizeMatchesIndices
    <3>. QED BY <3>1 DEF Inv, TypeOK, Slots
  <2>4. (head + (size + 1) - 1) % Slots = tail
    <3>1. head + (size + 1) - 1 = head + size
      BY DEF Inv, TypeOK
    <3>. QED BY <2>3, <3>1, Offset DEF Inv, TypeOK
  <2>5. \A i \in 1..size : (head + i - 1) % Slots # tail
    BY <2>1, <2>3, Slot DEF Inv, TypeOK, Slots
  <2>6. Contents' \in Seq(Values) /\ Len(Contents') = size + 1
    BY <2>2, ContentsIsSeqNext DEF Inv
  <2>7. ASSUME NEW i \in 1..(size + 1)
        PROVE  Contents'[i] = Append(Contents, v)[i]
    <3>1. Contents'[i] = data'[(head + i - 1) % Slots]
      BY <2>2 DEF Contents
    <3>2. CASE i = size + 1
      <4>1. data'[tail] = v
        BY <2>2 DEF Inv, TypeOK
      <4>2. Append(Contents, v)[size + 1] = v
        BY <1>1
      <4>. QED BY <3>1, <3>2, <2>4, <4>1, <4>2
    <3>3. CASE i # size + 1
      <4>1. i \in 1..size
        BY <3>3 DEF Inv, TypeOK
      <4>2. data'[(head + i - 1) % Slots] = data[(head + i - 1) % Slots]
        BY <4>1, <2>2, <2>5, Slot DEF Inv, TypeOK
      <4>. QED BY <3>1, <4>1, <4>2, <1>1, ContentsIsSeq DEF Inv
    <3>. QED BY <3>2, <3>3
  <2>8. Append(Contents, v) \in Seq(Values) /\ Len(Append(Contents, v)) = size + 1
    BY <1>1
  <2>9. Contents' = Append(Contents, v)
    BY <2>6, <2>7, <2>8
  <2>. QED BY <1>1, <2>1, <2>2, <2>9 DEF Fifo!Push
<1>. QED BY <1>2, <1>3

\* A pop removes the oldest value, or is refused when the ring is empty.
LEMMA PopRefines ==
  ASSUME Inv, Inv', Pop
  PROVE  Fifo!Pop
<1>1. Len(Contents) = size /\ Contents \in Seq(Values)
  BY ContentsIsSeq DEF Inv
<1>2. CASE Empty
  <2>1. Contents' = Contents /\ ok' = FALSE
    BY <1>2 DEF Pop, Contents
  <2>2. Contents = <<>>
    BY <1>1, <1>2 DEF Inv, SizeMatchesIndices
  <2>. QED BY <2>1, <2>2 DEF Fifo!Pop
<1>3. CASE ~Empty
  <2>1. size > 0 /\ Contents # <<>>
    BY <1>1, <1>3 DEF Inv, TypeOK, SizeMatchesIndices
  <2>2. /\ size' = size - 1 /\ data' = data /\ ok' = TRUE
        /\ head' = IF head = Capacity THEN 0 ELSE head + 1
    BY <1>3, NextSlot DEF Pop, Inv, TypeOK
  <2>3. Contents' \in Seq(Values) /\ Len(Contents') = size - 1
    BY <2>2, ContentsIsSeqNext DEF Inv
  <2>4. ASSUME NEW i \in 1..(size - 1)
        PROVE  Contents'[i] = Tail(Contents)[i]
    <3>1. i \in 1..size /\ i + 1 \in 1..size /\ i \in 1..size'
      BY <2>2 DEF Inv, TypeOK
    <3>2. (head' + i - 1) % Slots = IF head' + i - 1 > Capacity
                                    THEN head' + i - 1 - Slots
                                    ELSE head' + i - 1
      <4>1. i - 1 \in 0..Capacity /\ head' \in 0..Capacity
        BY <3>1 DEF Inv, TypeOK
      <4>2. head' + (i - 1) = head' + i - 1
        BY <4>1
      <4>. QED BY <4>1, <4>2, Offset
    <3>3. (head + (i + 1) - 1) % Slots = IF head + (i + 1) - 1 > Capacity
                                         THEN head + (i + 1) - 1 - Slots
                                         ELSE head + (i + 1) - 1
      BY <3>1, Slot DEF Inv
    <3>4. (head' + i - 1) % Slots = (head + (i + 1) - 1) % Slots
      BY <3>1, <3>2, <3>3, <2>2 DEF Inv, TypeOK, Slots
    <3>5. Contents'[i] = data[(head' + i - 1) % Slots]
      BY <3>1, <2>2 DEF Contents
    <3>6. Tail(Contents)[i] = Contents[i + 1]
      BY <1>1, <2>1
    <3>. QED BY <3>1, <3>4, <3>5, <3>6, ContentsIsSeq DEF Inv
  <2>5. Tail(Contents) \in Seq(Values) /\ Len(Tail(Contents)) = size - 1
    BY <1>1, <2>1
  <2>6. Contents' = Tail(Contents)
    BY <2>3, <2>4, <2>5
  <2>. QED BY <2>1, <2>2, <2>6 DEF Fifo!Pop
<1>. QED BY <1>2, <1>3

\* For every capacity the ring is a bounded FIFO with honest return values.
THEOREM Refinement == Spec => ImplementsFifo
<1>1. Inv /\ Inv' /\ [Next]_vars => [Fifo!Next]_<<Contents, ok>>
  <2> SUFFICES ASSUME Inv, Inv', [Next]_vars
               PROVE  [Fifo!Next]_<<Contents, ok>>
    OBVIOUS
  <2>1. CASE UNCHANGED vars
    BY <2>1 DEF vars, Contents
  <2>. QED BY <2>1, PushRefines, PopRefines DEF Next, Fifo!Next
<1>. QED BY <1>1, InitRefines, Invariance, PTL DEF Spec, ImplementsFifo, Fifo!Spec

-----------------------------------------------------------------------------
(* The operations that read. That 2^WordBits is a multiple of the slots is *)
(* a hypothesis about PowerMod: what the recursion computes is left to TLC. *)

\* The newest value is in the slot before tail_.
LEMMA LastSlot ==
  ASSUME Inv, size > 0
  PROVE  (head + size - 1) % Slots = IF tail = 0 THEN Capacity ELSE tail - 1
<1>1. size = IF tail < head THEN tail - head + Slots ELSE tail - head
  BY Distance DEF Inv, TypeOK, SizeMatchesIndices
<1>2. (head + size - 1) % Slots = IF head + size - 1 > Capacity
                                  THEN head + size - 1 - Slots
                                  ELSE head + size - 1
  <2>1. size \in 1..size
    BY DEF Inv, TypeOK
  <2>. QED BY <2>1, Slot DEF Inv
<1>. QED BY <1>1, <1>2 DEF Inv, TypeOK, Slots

\* The remainder that rear() takes is that slot, unless tail_ is 0 and the
\* conversion to size_t does harm.
LEMMA RearSlot ==
  ASSUME Inv, tail > 0 \/ PowerMod[WordBits] = 0
  PROVE  WordMod(tail - 1) = IF tail = 0 THEN Capacity ELSE tail - 1
<1>1. CASE tail > 0
  BY <1>1 DEF Inv, TypeOK, WordMod, Slots
<1>2. CASE ~(tail > 0)
  <2>1. tail = 0 /\ PowerMod[WordBits] = 0
    BY <1>2 DEF Inv, TypeOK
  <2>2. (0 + (-1)) % Slots = Capacity
    BY DEF Slots
  <2>3. tail - 1 = -1 /\ -1 < 0
    BY <2>1
  <2>. QED BY <2>1, <2>2, <2>3 DEF WordMod
<1>. QED BY <1>1, <1>2

\* front() is the oldest value and rear() the newest, for every capacity and
\* whatever was pushed and popped; also when tail_ is 0, if capacity_ + 1
\* divides 2^WordBits.
THEOREM EndsAreAlwaysRight == Spec => []EndsAreRight
<1>1. Inv => EndsAreRight
  <2> SUFFICES ASSUME Inv, size > 0
               PROVE  /\ front = Contents[1]
                      /\ tail > 0 \/ PowerMod[WordBits] = 0 => rear = Contents[size]
    BY DEF EndsAreRight
  <2>1. \A i \in 1..size : Contents[i] = data[(head + i - 1) % Slots]
    BY ContentsIsSeq DEF Inv
  <2>2. 1 \in 1..size /\ size \in 1..size /\ head \in 0..Capacity
    BY DEF Inv, TypeOK
  <2>3. (head + 1 - 1) % Slots = head
    BY <2>2, Slot DEF Inv
  <2>4. front = Contents[1]
    BY <2>1, <2>2, <2>3 DEF front
  <2>5. ASSUME tail > 0 \/ PowerMod[WordBits] = 0 PROVE rear = Contents[size]
    BY <2>1, <2>2, <2>5, LastSlot, RearSlot DEF rear
  <2>. QED BY <2>4, <2>5
<1>. QED BY <1>1, Invariance, PTL

=============================================================================
