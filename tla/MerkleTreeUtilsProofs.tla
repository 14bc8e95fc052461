------------------------ MODULE MerkleTreeUtilsProofs ------------------------
(***************************************************************************)
(* Facts about the operators of the off-chain tree, for every height and   *)
(* every number of leaves:                                                 *)
(*   - powers of two and the columns of a leaf's ancestors (the leaf's     *)
(*     index, shifted), and the loop of getFrontierSlot, which finds the   *)
(*     level of the first ancestor that is a left child;                   *)
(*   - the reference tree, row by row, and the frontier it has after m     *)
(*     leaves (FrontierOf);                                                *)
(*   - updateNodes: a plan on the right frontier is the reference          *)
(*     (PlanUpdateIsReference) and takes as many hashes as                 *)
(*     getNumberOfHashes says;                                             *)
(*   - the stored array: storing such a plan keeps it the reference tree,  *)
(*     the range read finds the leaves, and a proof made from it verifies  *)
(*     for its own leaf only (ProofOfLeaf).                                *)
(* Loops are recursive functions.  That such a function exists, and that   *)
(* it meets its own equation, is proved once per loop (the ...Exist        *)
(* lemmas), by induction over the natural numbers (InductionOver).         *)
(***************************************************************************)
EXTENDS MerkleTreeUtils, FiniteSetTheorems, WellFoundedInduction, TLAPS

---------------------------------------------------------------------------
(* The natural numbers: the least element of a set, induction, and division  *)
(* by a number that is not a constant.                                       *)

LEMMA NatMinimum ==
   ASSUME NEW T \in SUBSET Nat, T # {}
   PROVE  \E m \in T : \A k \in T : m <= k
<1> DEFINE R == {ss \in Nat \X Nat : ss[1] < ss[2]}
<1>1. IsWellFoundedOn(R, Nat)
  BY NatLessThanWellFounded DEF OpToRel
<1> HIDE DEF R
<1>2. PICK m \in T : \A k \in T : ~ <<k, m>> \in R
  BY <1>1, WFMin
<1>3. \A k \in T : k \in Nat /\ m \in Nat
  OBVIOUS
<1>4. \A k \in T : ~(k < m)
  <2> TAKE k \in T
  <2>1. ~ <<k, m>> \in R /\ k \in Nat /\ m \in Nat
     BY <1>2, <1>3
  <2>2. <<k, m>> \in Nat \X Nat
    BY <2>1
  <2> QED BY <2>1, <2>2 DEF R
<1> QED BY <1>3, <1>4

\* Induction, for the set of the numbers that have a property.
LEMMA InductionOver ==
   ASSUME NEW S, 0 \in S, \A n \in Nat : n \in S => n + 1 \in S
   PROVE  Nat \subseteq S
<1> DEFINE T == Nat \ S
<1>1. SUFFICES ASSUME T # {} PROVE FALSE
  OBVIOUS
<1>2. PICK m \in T : \A k \in T : m <= k
  BY <1>1, NatMinimum
<1>3. m # 0 /\ m \in Nat
  BY <1>2
<1>4. m - 1 \in Nat /\ ~(m <= m - 1)
  BY <1>3
<1>5. m - 1 \in S
  BY <1>2, <1>4
<1> QED BY <1>3, <1>4, <1>5

---------------------------------------------------------------------------
(* Division. *)

LEMMA DivMod ==
  ASSUME NEW x \in Int, NEW m \in Nat \ {0}
  PROVE  /\ x = m * (x \div m) + (x % m)
         /\ x % m \in 0..(m - 1)
         /\ x \div m \in Int
OBVIOUS

LEMMA MultipleIsLarge ==
  ASSUME NEW m \in Nat \ {0}, NEW k \in Int, k >= 1
  PROVE  m * k >= m
<1>1. m * k = m * (k - 1) + m
  OBVIOUS
<1>2. m * (k - 1) >= 0
  OBVIOUS
<1> QED BY <1>1, <1>2

LEMMA QuotientIs ==
  ASSUME NEW x \in Int, NEW m \in Nat \ {0}, NEW q \in Int, NEW r \in 0..(m - 1),
         x = m * q + r
  PROVE  x \div m = q /\ x % m = r
<1> DEFINE d == x \div m
           e == x % m
<1>1. x = m * d + e /\ e \in 0..(m - 1) /\ d \in Int
  BY DivMod
<1> HIDE DEF d, e
<1>2. m * (d - q) = r - e /\ m * (q - d) = e - r
  BY <1>1
<1>3. ~(d - q >= 1)
  BY <1>1, <1>2, MultipleIsLarge
<1>4. ~(q - d >= 1)
  BY <1>1, <1>2, MultipleIsLarge
<1>5. d = q
  BY <1>1, <1>3, <1>4
<1> QED BY <1>1, <1>5 DEF d, e

---------------------------------------------------------------------------
(* The tree.                                                                *)

\* The powers of two, up to m.
Powers(g, m) == g = [n \in 0..m |-> IF n = 0 THEN 1 ELSE 2 * g[n - 1]]

LEMMA PowersExist ==
  ASSUME NEW m \in Nat
  PROVE  \E g : Powers(g, m)
<1> DEFINE S == {j \in Nat : \E g : Powers(g, j)}
<1>1. 0 \in S
  <2>1. Powers([n \in 0..0 |-> 1], 0)
    BY DEF Powers
  <2> QED BY <2>1
<1>2. ASSUME NEW j \in Nat, j \in S PROVE j + 1 \in S
  <2>1. PICK g : Powers(g, j)
    BY <1>2
  <2> DEFINE k == [n \in 0..(j + 1) |-> IF n = j + 1 THEN 2 * g[j] ELSE g[n]]
  <2>2. Powers(k, j + 1)
    BY <2>1 DEF Powers
  <2>3. \E e : Powers(e, j + 1)
    BY <2>2
  <2> QED BY <2>3
<1> QED BY <1>1, <1>2, InductionOver

LEMMA PowersAgree ==
  ASSUME NEW a \in Nat, NEW b \in Nat, NEW f, NEW g, Powers(f, a), Powers(g, b),
         NEW n \in Nat, n <= a, n <= b
  PROVE  f[n] = g[n]
<1> DEFINE S == {j \in Nat : j <= a /\ j <= b => f[j] = g[j]}
<1>1. 0 \in S
  BY DEF Powers
<1>2. ASSUME NEW j \in Nat, j \in S PROVE j + 1 \in S
  <2> SUFFICES ASSUME j + 1 <= a, j + 1 <= b PROVE f[j + 1] = g[j + 1]
    OBVIOUS
  <2>1. f[j] = g[j]
    BY <1>2
  <2>2. f[j + 1] = 2 * f[j] /\ g[j + 1] = 2 * g[j]
    BY DEF Powers
  <2> QED BY <2>1, <2>2
<1> QED BY <1>1, <1>2, InductionOver

LEMMA TwoToDef == TwoTo = [n \in Nat |-> IF n = 0 THEN 1 ELSE 2 * TwoTo[n - 1]]
<1> DEFINE P(m) == CHOOSE g : Powers(g, m)
           F == [n \in Nat |-> P(n)[n]]
<1>1. \A m \in Nat : Powers(P(m), m)
  BY PowersExist
<1> HIDE DEF P
<1>2. ASSUME NEW n \in Nat PROVE F[n] = IF n = 0 THEN 1 ELSE 2 * F[n - 1]
  <2>1. CASE n = 0
    BY <1>1, <2>1 DEF Powers
  <2>2. CASE n # 0
    <3>1. P(n)[n] = 2 * P(n)[n - 1]
      BY <1>1, <2>2 DEF Powers
    <3>2. P(n)[n - 1] = P(n - 1)[n - 1]
      BY <1>1, <2>2, PowersAgree
    <3> QED BY <2>2, <3>1, <3>2
  <2> QED BY <2>1, <2>2
<1>3. F = [n \in Nat |-> IF n = 0 THEN 1 ELSE 2 * F[n - 1]]
  BY <1>2
<1> HIDE DEF F
<1>4. \E f : f = [n \in Nat |-> IF n = 0 THEN 1 ELSE 2 * f[n - 1]]
  BY <1>3
<1> QED BY <1>4 DEF TwoTo

LEMMA TwoToZero == TwoTo[0] = 1
  BY TwoToDef

LEMMA TwoToNext ==
  ASSUME NEW n \in Nat
  PROVE  TwoTo[n + 1] = 2 * TwoTo[n]
<1>1. n + 1 \in Nat /\ n + 1 # 0 /\ (n + 1) - 1 = n
  OBVIOUS
<1> QED BY <1>1, TwoToDef

LEMMA TwoToIsLarge ==
  ASSUME NEW n \in Nat
  PROVE  TwoTo[n] \in Nat \ {0} /\ n < TwoTo[n]
<1> DEFINE S == {m \in Nat : TwoTo[m] \in Nat \ {0} /\ m < TwoTo[m]}
<1>1. 0 \in S
  BY TwoToZero
<1>2. ASSUME NEW m \in Nat, m \in S PROVE m + 1 \in S
  BY <1>2, TwoToNext
<1> QED BY <1>1, <1>2, InductionOver

---------------------------------------------------------------------------
(* The column of a leaf's ancestor on level l is the leaf's index shifted. *)

LEMMA ShiftZero ==
  ASSUME NEW n \in Int
  PROVE  RightShift(n, 0) = n
<1>1. n = 1 * n + 0
  OBVIOUS
<1> QED BY <1>1, QuotientIs, TwoToZero DEF RightShift

LEMMA ShiftType ==
  ASSUME NEW n \in Int, NEW l \in Nat
  PROVE  RightShift(n, l) \in Int
  BY DivMod, TwoToIsLarge DEF RightShift

LEMMA ShiftNext ==
  ASSUME NEW n \in Int, NEW l \in Nat
  PROVE  RightShift(n, l + 1) = RightShift(n, l) \div 2
<1> DEFINE m == TwoTo[l]
           d == n \div m
           e == n % m
           q == d \div 2
           b == d % 2
<1>1. m \in Nat \ {0} /\ TwoTo[l + 1] = 2 * m
  BY TwoToIsLarge, TwoToNext
<1> HIDE DEF m
<1>2. n = m * d + e /\ e \in 0..(m - 1) /\ d \in Int
  BY <1>1, DivMod
<1> HIDE DEF d, e
<1>3. d = 2 * q + b /\ b \in 0..1 /\ q \in Int
  BY <1>2
<1> HIDE DEF q, b
<1>4. n = (2 * m) * q + (m * b + e)
  <2>1. m * d = m * (2 * q) + m * b
    BY <1>1, <1>3
  <2>2. m * (2 * q) = (2 * m) * q
    BY <1>1, <1>3
  <2> QED BY <1>1, <1>2, <1>3, <2>1, <2>2
<1>5. m * b + e \in 0..(2 * m - 1)
  <2>1. b = 0 \/ b = 1
    BY <1>3
  <2> QED BY <1>1, <1>2, <2>1
<1>6. n \div (2 * m) = q
  BY <1>1, <1>3, <1>4, <1>5, QuotientIs
<1> QED BY <1>1, <1>6 DEF RightShift, m, d, q

LEMMA ShiftMonotone ==
  ASSUME NEW a \in Int, NEW b \in Int, a <= b, NEW l \in Nat
  PROVE  RightShift(a, l) <= RightShift(b, l)
<1> DEFINE S == {k \in Nat : RightShift(a, k) <= RightShift(b, k)}
<1>1. 0 \in S
  BY ShiftZero
<1>2. ASSUME NEW k \in Nat, k \in S PROVE k + 1 \in S
  <2>1. RightShift(a, k) \in Int /\ RightShift(b, k) \in Int
    BY ShiftType
  <2>2. RightShift(a, k) \div 2 <= RightShift(b, k) \div 2
    BY <1>2, <2>1
  <2> QED BY <2>2, ShiftNext
<1> QED BY <1>1, <1>2, InductionOver

\* A step of one moves a column by one at most.
LEMMA ShiftOfNeighbour ==
  ASSUME NEW a \in Int, NEW l \in Nat
  PROVE  RightShift(a + 1, l) <= RightShift(a, l) + 1
<1> DEFINE S == {k \in Nat : RightShift(a + 1, k) <= RightShift(a, k) + 1}
<1>1. 0 \in S
  BY ShiftZero
<1>2. ASSUME NEW k \in Nat, k \in S PROVE k + 1 \in S
  <2>1. RightShift(a, k) \in Int /\ RightShift(a + 1, k) \in Int
    BY ShiftType
  <2>2. RightShift(a + 1, k) \div 2 <= (RightShift(a, k) \div 2) + 1
    BY <1>2, <2>1
  <2> QED BY <2>2, ShiftNext
<1> QED BY <1>1, <1>2, InductionOver

LEMMA ShiftIsNat ==
  ASSUME NEW n \in Nat, NEW l \in Nat
  PROVE  RightShift(n, l) \in Nat
<1> DEFINE S == {k \in Nat : RightShift(n, k) \in Nat}
<1>1. 0 \in S
  BY ShiftZero
<1>2. ASSUME NEW k \in Nat, k \in S PROVE k + 1 \in S
  <2>1. RightShift(n, k) \div 2 \in Nat
    BY <1>2
  <2> QED BY <2>1, ShiftNext
<1> QED BY <1>1, <1>2, InductionOver

\* Level l of a tree of height h has TwoTo[h - l] columns.
LEMMA ShiftInRow ==
  ASSUME NEW h \in Nat, NEW l \in 0..h, NEW n \in Int
  PROVE  /\ n < TwoTo[h] => RightShift(n, l) < TwoTo[h - l]
         /\ n = TwoTo[h] => RightShift(n, l) = TwoTo[h - l]
<1> DEFINE S == {k \in Nat : k <= h =>
                    /\ n < TwoTo[h] => RightShift(n, k) < TwoTo[h - k]
                    /\ n = TwoTo[h] => RightShift(n, k) = TwoTo[h - k]}
<1>1. 0 \in S
  BY ShiftZero
<1>2. ASSUME NEW k \in Nat, k \in S PROVE k + 1 \in S
  <2> SUFFICES ASSUME k + 1 <= h
               PROVE  /\ n < TwoTo[h] => RightShift(n, k + 1) < TwoTo[h - (k + 1)]
                      /\ n = TwoTo[h] => RightShift(n, k + 1) = TwoTo[h - (k + 1)]
    OBVIOUS
  <2>1. h - (k + 1) \in Nat /\ (h - (k + 1)) + 1 = h - k
    OBVIOUS
  <2>2. TwoTo[h - k] = 2 * TwoTo[h - (k + 1)] /\ TwoTo[h - (k + 1)] \in Nat
    BY <2>1, TwoToNext, TwoToIsLarge
  <2>3. RightShift(n, k) \in Int /\ RightShift(n, k + 1) = RightShift(n, k) \div 2
    BY ShiftType, ShiftNext
  <2>4. /\ n < TwoTo[h] => RightShift(n, k) < TwoTo[h - k]
        /\ n = TwoTo[h] => RightShift(n, k) = TwoTo[h - k]
    BY <1>2
  <2> QED BY <2>2, <2>3, <2>4
<1>3. Nat \subseteq S
  <2> HIDE DEF S
  <2> QED BY <1>1, <1>2, InductionOver
<1>4. l \in S
  BY <1>3
<1> QED BY <1>4

---------------------------------------------------------------------------
(* The frontier slot of a leaf: the number of levels on which its path     *)
(* comes from a right child before it first comes from a left one.         *)

\* On the levels below l, the path of leaf n runs through right children.
RightBelow(n, l) == \A k \in 0..(l - 1) : RightShift(n, k) % 2 = 1

LEMMA RightBelowNext ==
  ASSUME NEW n, NEW l \in Nat
  PROVE  RightBelow(n, l + 1) <=> RightBelow(n, l) /\ RightShift(n, l) % 2 = 1
<1>1. 0..((l + 1) - 1) = 0..(l - 1) \cup {l}
  OBVIOUS
<1> QED BY <1>1 DEF RightBelow

\* Adding one to n carries through the right children and stops at the first left one.
LEMMA Carry ==
  ASSUME NEW n \in Nat, NEW l \in Nat
  PROVE  /\ RightBelow(n, l) => /\ RightShift(n + 1, l) = RightShift(n, l) + 1
                                /\ n + 1 = TwoTo[l] * (RightShift(n, l) + 1)
         /\ ~RightBelow(n, l) => RightShift(n + 1, l) = RightShift(n, l)
<1> DEFINE S == {k \in Nat :
                    /\ RightBelow(n, k) => /\ RightShift(n + 1, k) = RightShift(n, k) + 1
                                           /\ n + 1 = TwoTo[k] * (RightShift(n, k) + 1)
                    /\ ~RightBelow(n, k) => RightShift(n + 1, k) = RightShift(n, k)}
<1>1. 0 \in S
  BY ShiftZero, TwoToZero DEF RightBelow
<1>2. ASSUME NEW k \in Nat, k \in S PROVE k + 1 \in S
  <2> DEFINE c == RightShift(n, k)
             d == RightShift(n + 1, k)
             t == TwoTo[k]
  <2>1. c \in Nat /\ d \in Nat /\ t \in Nat
    <3>1. n + 1 \in Nat
      OBVIOUS
    <3> QED BY <3>1, ShiftIsNat, TwoToIsLarge
  <2>2. RightShift(n, k + 1) = c \div 2 /\ RightShift(n + 1, k + 1) = d \div 2
        /\ TwoTo[k + 1] = 2 * t
    BY ShiftNext, TwoToNext
  <2>3. RightBelow(n, k + 1) <=> RightBelow(n, k) /\ c % 2 = 1
    BY RightBelowNext
  <2>4. /\ RightBelow(n, k) => d = c + 1 /\ n + 1 = t * (c + 1)
        /\ ~RightBelow(n, k) => d = c
    BY <1>2
  <2> HIDE DEF c, d, t
  <2>5. CASE RightBelow(n, k) /\ c % 2 = 1
    <3>1. d \div 2 = (c \div 2) + 1 /\ c + 1 = 2 * ((c \div 2) + 1)
      BY <2>1, <2>4, <2>5
    <3>2. t * (c + 1) = (2 * t) * ((c \div 2) + 1)
      BY <2>1, <3>1
    <3> QED BY <2>2, <2>3, <2>4, <2>5, <3>1, <3>2
  <2>6. CASE RightBelow(n, k) /\ c % 2 # 1
    <3>1. d \div 2 = c \div 2
      BY <2>1, <2>4, <2>6
    <3> QED BY <2>2, <2>3, <2>6, <3>1
  <2>7. CASE ~RightBelow(n, k)
    BY <2>2, <2>3, <2>4, <2>7
  <2> QED BY <2>5, <2>6, <2>7
<1>3. Nat \subseteq S
  <2> HIDE DEF S
  <2> QED BY <1>1, <1>2, InductionOver
<1>4. l \in S
  BY <1>3
<1> QED BY <1>4

\* The test of getFrontierSlot's loop.
Completes(n, e) == (n + 1 - TwoTo[e]) % TwoTo[e + 1] = 0

LEMMA CompletesIsLeft ==
  ASSUME NEW n \in Nat, NEW e \in Nat, RightBelow(n, e)
  PROVE  Completes(n, e) <=> RightShift(n, e) % 2 = 0
<1> DEFINE c == RightShift(n, e)
           t == TwoTo[e]
           q == c \div 2
           b == c % 2
<1>1. c \in Nat /\ t \in Nat \ {0} /\ TwoTo[e + 1] = 2 * t
  BY ShiftIsNat, TwoToIsLarge, TwoToNext
<1>2. n + 1 = t * (c + 1)
  BY Carry
<1>3. c = 2 * q + b /\ b \in 0..1 /\ q \in Int
  BY <1>1
<1> HIDE DEF c, t
<1>4. n + 1 - t = (2 * t) * q + t * b
  <2> HIDE DEF q, b
  <2>1. t * (c + 1) = t * c + t
    BY <1>1
  <2>2. t * c = t * (2 * q) + t * b
    BY <1>1, <1>3
  <2>3. t * (2 * q) = (2 * t) * q
    BY <1>1, <1>3
  <2> QED BY <1>1, <1>2, <1>3, <2>1, <2>2, <2>3
<1>5. t * b \in 0..(2 * t - 1) /\ (t * b = 0 <=> b = 0)
  BY <1>1, <1>3
<1>6. (n + 1 - t) % (2 * t) = t * b
  <2> HIDE DEF q, b
  <2> DEFINE r == t * b
             m == 2 * t
  <2>1. m \in Nat \ {0} /\ q \in Int /\ r \in 0..(m - 1) /\ n + 1 - t = m * q + r
        /\ n + 1 - t \in Int
    BY <1>1, <1>3, <1>4, <1>5
  <2> HIDE DEF m, r
  <2>2. (n + 1 - t) % m = r
    BY <2>1, QuotientIs
  <2> QED BY <2>2 DEF m, r
<1> QED BY <1>1, <1>5, <1>6 DEF Completes, c, t

\* The loop of getFrontierSlot ends, on the first level where the path of the leaf
\* comes from a left child.
LEMMA FrontierSlot ==
  ASSUME NEW n \in Nat
  PROVE  /\ GetFrontierSlot(n) \in Nat
         /\ RightBelow(n, GetFrontierSlot(n))
         /\ RightShift(n, GetFrontierSlot(n)) % 2 = 0
<1>1. CASE n % 2 = 0
  <2>1. GetFrontierSlot(n) = 0
    BY <1>1 DEF GetFrontierSlot
  <2> QED BY <1>1, <2>1, ShiftZero DEF RightBelow
<1>2. CASE n % 2 # 0
  <2> DEFINE T == {e \in 1..(n + 1) : Completes(n, e)}
             First(e) == Completes(n, e) /\ \A d \in 1..(e - 1) : ~Completes(n, d)
             slot == CHOOSE e \in 1..(n + 1) : First(e)
  <2>1. RightBelow(n, 1)
    BY <1>2, ShiftZero DEF RightBelow
  <2>2. ASSUME NEW m \in 1..(n + 1), \A d \in 1..(m - 1) : ~Completes(n, d)
        PROVE  RightBelow(n, m)
    <3> DEFINE S == {k \in Nat : k + 1 <= m => RightBelow(n, k + 1)}
    <3>1. 0 \in S
      BY <2>1
    <3>2. ASSUME NEW k \in Nat, k \in S PROVE k + 1 \in S
      <4> SUFFICES ASSUME k + 2 <= m PROVE RightBelow(n, (k + 1) + 1)
        OBVIOUS
      <4>1. RightBelow(n, k + 1)
        BY <3>2
      <4>2. k + 1 \in 1..(m - 1)
        OBVIOUS
      <4>3. ~Completes(n, k + 1)
        BY <2>2, <4>2
      <4>4. RightShift(n, k + 1) \in Nat /\ RightShift(n, k + 1) % 2 # 0
        BY <4>1, <4>3, CompletesIsLeft, ShiftIsNat
      <4> QED BY <4>1, <4>4, RightBelowNext
    <3>3. Nat \subseteq S
      <4> HIDE DEF S
      <4> QED BY <3>1, <3>2, InductionOver
    <3>4. m - 1 \in S /\ (m - 1) + 1 = m
      BY <3>3
    <3> QED BY <3>4
  <2>3. T # {}
    <3>1. SUFFICES ASSUME \A e \in 1..(n + 1) : ~Completes(n, e) PROVE FALSE
      OBVIOUS
    <3>2. RightBelow(n, n + 1)
      BY <2>2, <3>1
    <3> DEFINE c == RightShift(n, n + 1)
               t == TwoTo[n + 1]
    <3>3. n + 1 = t * (c + 1) /\ c \in Nat /\ t \in Nat \ {0} /\ n + 1 < t
      <4>1. n + 1 \in Nat
        OBVIOUS
      <4> QED BY <3>2, <4>1, Carry, ShiftIsNat, TwoToIsLarge
    <3> HIDE DEF c, t
    <3>4. t * (c + 1) >= t
      BY <3>3, MultipleIsLarge
    <3> QED BY <3>3, <3>4
  <2>4. \E e \in 1..(n + 1) : First(e)
    <3>1. PICK e \in T : \A d \in T : e <= d
      <4>1. T \in SUBSET Nat
        OBVIOUS
      <4> QED BY <2>3, <4>1, NatMinimum
    <3>2. \A d \in 1..(e - 1) : ~Completes(n, d)
      BY <3>1
    <3> QED BY <3>1, <3>2
  <2>5. slot \in 1..(n + 1) /\ First(slot)
    BY <2>4
  <2>6. GetFrontierSlot(n) = slot
    BY <1>2 DEF GetFrontierSlot, Completes
  <2> HIDE DEF slot
  <2>7. RightBelow(n, slot)
    BY <2>2, <2>5
  <2>8. RightShift(n, slot) % 2 = 0
    BY <2>5, <2>7, CompletesIsLeft
  <2> QED BY <2>5, <2>6, <2>7, <2>8
<1> QED BY <1>1, <1>2

\* The slot is a level of the tree.
LEMMA SlotInTree ==
  ASSUME NEW h \in Nat, NEW n \in Nat, n < TwoTo[h]
  PROVE  GetFrontierSlot(n) <= h
<1> SUFFICES ASSUME ~(GetFrontierSlot(n) <= h) PROVE FALSE
  OBVIOUS
<1>1. GetFrontierSlot(n) \in Nat /\ RightBelow(n, GetFrontierSlot(n))
  BY FrontierSlot
<1>2. RightShift(n, h) % 2 = 1
  BY <1>1 DEF RightBelow
<1>3. RightShift(n, h) < TwoTo[0]
  <2>1. h \in 0..h /\ h - h = 0
    OBVIOUS
  <2> QED BY <2>1, ShiftInRow
<1>4. RightShift(n, h) \in Nat
  BY ShiftIsNat
<1> QED BY <1>2, <1>3, <1>4, TwoToZero

---------------------------------------------------------------------------
(* The reference tree exists and is what its definition says.              *)

\* Level l, from the level below.
RowOver(below, h, values, l) ==
    [i \in 0..(TwoTo[h - l] - 1) |->
        IF i > RightShift(Len(values) - 1, l) THEN <<>>
        ELSE IF l = 0 THEN values[i + 1].term
        ELSE <<below[2 * i], below[2 * i + 1]>>]

\* g holds the levels up to m.
Rows(g, h, values, m) == g = [l \in 0..m |-> RowOver(g[l - 1], h, values, l)]

LEMMA RowsExist ==
  ASSUME NEW h, NEW values, NEW m \in Nat
  PROVE  \E g : Rows(g, h, values, m)
<1> DEFINE S == {j \in Nat : \E g : Rows(g, h, values, j)}
<1>1. 0 \in S
  <2> DEFINE k == [l \in 0..0 |-> RowOver(<<>>, h, values, l)]
  <2>1. RowOver(k[0 - 1], h, values, 0) = RowOver(<<>>, h, values, 0)
    BY DEF RowOver
  <2>2. \A l \in 0..0 : l = 0
    OBVIOUS
  <2>3. Rows(k, h, values, 0)
    BY <2>1, <2>2 DEF Rows
  <2> QED BY <2>3
<1>2. ASSUME NEW j \in Nat, j \in S PROVE j + 1 \in S
  <2>1. PICK g : Rows(g, h, values, j)
    BY <1>2
  <2> DEFINE k == [l \in 0..(j + 1) |-> IF l = j + 1 THEN RowOver(g[j], h, values, j + 1)
                                                     ELSE g[l]]
  <2>2. ASSUME NEW l \in 0..(j + 1) PROVE k[l] = RowOver(k[l - 1], h, values, l)
    <3>1. CASE l = j + 1
      BY <3>1
    <3>2. CASE l # j + 1 /\ l # 0
      <4>1. l \in 0..j /\ l - 1 \in 0..(j + 1) /\ l - 1 # j + 1
        BY <3>2
      <4>2. k[l - 1] = g[l - 1] /\ k[l] = g[l]
        BY <3>2, <4>1
      <4>3. g[l] = RowOver(g[l - 1], h, values, l)
        BY <2>1, <4>1 DEF Rows
      <4> QED BY <4>2, <4>3
    <3>3. CASE l = 0
      <4>1. 0 \in 0..j /\ 0 # j + 1
        OBVIOUS
      <4>2. k[0] = RowOver(g[0 - 1], h, values, 0)
        BY <2>1, <3>3, <4>1 DEF Rows
      <4>3. RowOver(g[0 - 1], h, values, 0) = RowOver(k[0 - 1], h, values, 0)
        BY DEF RowOver
      <4> QED BY <3>3, <4>2, <4>3
    <3> QED BY <3>1, <3>2, <3>3
  <2>3. Rows(k, h, values, j + 1)
    BY <2>2 DEF Rows
  <2>4. \E e : Rows(e, h, values, j + 1)
    BY <2>3
  <2> QED BY <2>4
<1> QED BY <1>1, <1>2, InductionOver

LEMMA RowsOfReference ==
  ASSUME NEW h \in Nat, NEW values
  PROVE  Rows(ReferenceRow(h, values), h, values, h)
<1> DEFINE Def(g) == g = [l \in 0..h |->
                            [i \in 0..(TwoTo[h - l] - 1) |->
                               IF i > RightShift(Len(values) - 1, l) THEN <<>>
                               ELSE IF l = 0 THEN values[i + 1].term
                               ELSE <<g[l - 1][2 * i], g[l - 1][2 * i + 1]>>]]
<1>1. \A g : Rows(g, h, values, h) <=> Def(g)
  BY DEF Rows, RowOver
<1>2. \E g : Def(g)
  BY <1>1, RowsExist
<1>3. ReferenceRow(h, values) = CHOOSE g : Def(g)
  BY DEF ReferenceRow
<1>4. Def(ReferenceRow(h, values))
  <2> HIDE DEF Def
  <2> QED BY <1>2, <1>3
<1> QED BY <1>1, <1>4

\* What the reference tree holds: ZERO where there is no leaf below, ...
LEMMA ReferenceZero ==
  ASSUME NEW h \in Nat, NEW values, NEW l \in 0..h, NEW i \in 0..(TwoTo[h - l] - 1),
         i > RightShift(Len(values) - 1, l)
  PROVE  ReferenceRow(h, values)[l][i] = <<>>
<1>1. ReferenceRow(h, values)[l] = RowOver(ReferenceRow(h, values)[l - 1], h, values, l)
  BY RowsOfReference DEF Rows
<1> QED BY <1>1 DEF RowOver

\* ... the leaves, ...
LEMMA ReferenceLeaf ==
  ASSUME NEW h \in Nat, NEW values, NEW i \in 0..(TwoTo[h] - 1),
         ~(i > RightShift(Len(values) - 1, 0))
  PROVE  ReferenceRow(h, values)[0][i] = values[i + 1].term
<1>1. 0 \in 0..h /\ h - 0 = h
  OBVIOUS
<1>2. ReferenceRow(h, values)[0] = RowOver(ReferenceRow(h, values)[0 - 1], h, values, 0)
  BY <1>1, RowsOfReference DEF Rows
<1> QED BY <1>1, <1>2 DEF RowOver

\* ... and the hash of the two children.
LEMMA ReferenceParent ==
  ASSUME NEW h \in Nat, NEW values, NEW l \in 0..(h - 1),
         NEW i \in 0..(TwoTo[h - (l + 1)] - 1),
         ~(i > RightShift(Len(values) - 1, l + 1))
  PROVE  ReferenceRow(h, values)[l + 1][i] =
            <<ReferenceRow(h, values)[l][2 * i], ReferenceRow(h, values)[l][2 * i + 1]>>
<1>1. l + 1 \in 0..h /\ l + 1 # 0 /\ (l + 1) - 1 = l
  OBVIOUS
<1>2. ReferenceRow(h, values)[l + 1] = RowOver(ReferenceRow(h, values)[l], h, values, l + 1)
  BY <1>1, RowsOfReference DEF Rows
<1> QED BY <1>1, <1>2 DEF RowOver

\* A subtree that is full does not depend on the leaves that come after it.
LEMMA FullSubtree ==
  ASSUME NEW h \in Nat, NEW a, NEW b, Len(a) \in Nat, Len(b) \in Nat,
         NEW m \in Nat, m <= Len(a), m <= Len(b), m <= TwoTo[h],
         \A k \in 1..m : a[k] = b[k],
         NEW l \in 0..h, NEW i \in Nat, i < RightShift(m, l)
  PROVE  ReferenceRow(h, a)[l][i] = ReferenceRow(h, b)[l][i]
<1> DEFINE Same(k, j) == ReferenceRow(h, a)[k][j] = ReferenceRow(h, b)[k][j]
           S == {k \in Nat : k <= h => \A j \in Nat : j < RightShift(m, k) => Same(k, j)}
<1>1. ASSUME NEW k \in 0..h, NEW j \in Nat, j < RightShift(m, k)
      PROVE  /\ j \in 0..(TwoTo[h - k] - 1)
             /\ ~(j > RightShift(Len(a) - 1, k))
             /\ ~(j > RightShift(Len(b) - 1, k))
  <2>1. RightShift(m, k) <= TwoTo[h - k] /\ RightShift(m, k) \in Int
    <3>1. (m < TwoTo[h] \/ m = TwoTo[h]) /\ m \in Int /\ k \in Nat /\ h - k \in Nat
      BY TwoToIsLarge
    <3>2. RightShift(m, k) \in Int
      BY <3>1, ShiftType
    <3>3. TwoTo[h - k] \in Nat
      BY <3>1, TwoToIsLarge
    <3>4. /\ m < TwoTo[h] => RightShift(m, k) < TwoTo[h - k]
          /\ m = TwoTo[h] => RightShift(m, k) = TwoTo[h - k]
      BY <3>1, ShiftInRow
    <3> QED BY <3>1, <3>2, <3>3, <3>4
  <2>2. j \in 0..(TwoTo[h - k] - 1)
    <3>1. TwoTo[h - k] \in Nat
      BY TwoToIsLarge
    <3> QED BY <1>1, <2>1, <3>1
  <2>3. ASSUME NEW n \in Nat, m <= n PROVE ~(j > RightShift(n - 1, k))
    <3>1. n - 1 \in Int /\ (n - 1) + 1 = n /\ n \in Int /\ k \in Nat
      OBVIOUS
    <3>2. RightShift(m, k) <= RightShift(n, k)
      BY <2>3, <3>1, ShiftMonotone
    <3>3. RightShift(n, k) <= RightShift(n - 1, k) + 1
      BY <3>1, ShiftOfNeighbour
    <3>4. RightShift(n, k) \in Int /\ RightShift(n - 1, k) \in Int
      BY <3>1, ShiftType
    <3> QED BY <1>1, <2>1, <3>2, <3>3, <3>4
  <2> QED BY <2>2, <2>3
<1>2. 0 \in S
  <2> SUFFICES ASSUME 0 <= h, NEW j \in Nat, j < RightShift(m, 0) PROVE Same(0, j)
    OBVIOUS
  <2>1. j < m /\ 0 \in 0..h
    BY ShiftZero
  <2>2. a[j + 1] = b[j + 1]
    BY <2>1
  <2>3. /\ j \in 0..(TwoTo[h] - 1)
        /\ ~(j > RightShift(Len(a) - 1, 0)) /\ ~(j > RightShift(Len(b) - 1, 0))
    <3>1. h - 0 = h
      OBVIOUS
    <3> QED BY <1>1, <2>1, <3>1
  <2>4. ReferenceRow(h, a)[0][j] = a[j + 1].term
    BY <2>3, ReferenceLeaf
  <2>5. ReferenceRow(h, b)[0][j] = b[j + 1].term
    BY <2>3, ReferenceLeaf
  <2> QED BY <2>2, <2>4, <2>5
<1>3. ASSUME NEW k \in Nat, k \in S PROVE k + 1 \in S
  <2> SUFFICES ASSUME k + 1 <= h, NEW j \in Nat, j < RightShift(m, k + 1)
               PROVE  Same(k + 1, j)
    OBVIOUS
  <2>1. k + 1 \in 0..h /\ k \in 0..(h - 1)
    OBVIOUS
  <2>2. 2 * j < RightShift(m, k) /\ 2 * j + 1 < RightShift(m, k)
    <3>1. RightShift(m, k + 1) = RightShift(m, k) \div 2
      BY ShiftNext
    <3>2. RightShift(m, k) \in Int
      BY ShiftType
    <3> QED BY <3>1, <3>2
  <2>3. Same(k, 2 * j) /\ Same(k, 2 * j + 1)
    BY <1>3, <2>2
  <2>4. ReferenceRow(h, a)[k + 1][j] = <<ReferenceRow(h, a)[k][2 * j],
                                         ReferenceRow(h, a)[k][2 * j + 1]>>
    BY SMTT(30), <1>1, <2>1, ReferenceParent
  <2>5. ReferenceRow(h, b)[k + 1][j] = <<ReferenceRow(h, b)[k][2 * j],
                                         ReferenceRow(h, b)[k][2 * j + 1]>>
    BY SMTT(30), <1>1, <2>1, ReferenceParent
  <2> QED BY <2>3, <2>4, <2>5
<1>4. Nat \subseteq S
  <2> HIDE DEF S
  <2> QED BY <1>2, <1>3, InductionOver
<1>5. l \in S
  BY <1>4
<1> QED BY <1>5

\* The nodes on the way up from leaf n: from a right child the parent has both children,
\* from a left child of the last leaf the right one is ZERO.
LEMMA NodesOnPath ==
  ASSUME NEW h \in Nat, NEW values, Len(values) \in Nat, Len(values) <= TwoTo[h],
         NEW n \in 0..(Len(values) - 1), NEW l \in 0..(h - 1)
  PROVE  LET c == RightShift(n, l)
             row == ReferenceRow(h, values) IN
         /\ c % 2 = 1 => row[l + 1][RightShift(n, l + 1)] = <<row[l][c - 1], row[l][c]>>
         /\ (c % 2 = 0 /\ n = Len(values) - 1) =>
              row[l + 1][RightShift(n, l + 1)] = <<row[l][c], <<>>>>
<1> DEFINE c == RightShift(n, l)
           p == RightShift(n, l + 1)
           row == ReferenceRow(h, values)
<1>1. n \in Nat /\ n < TwoTo[h] /\ l \in 0..h /\ l + 1 \in 0..h /\ l \in Nat
      /\ l + 1 \in Nat /\ n <= Len(values) - 1
  BY TwoToIsLarge
<1>2. c \in Nat /\ p \in Nat /\ p = c \div 2
  <2>1. c \in Nat /\ p \in Nat
    BY <1>1, ShiftIsNat
  <2>2. p = c \div 2
    BY <1>1, ShiftNext
  <2> QED BY <2>1, <2>2
<1>3. p \in 0..(TwoTo[h - (l + 1)] - 1)
  <2>1. p < TwoTo[h - (l + 1)]
    BY <1>1, ShiftInRow
  <2>2. h - (l + 1) \in Nat
    OBVIOUS
  <2>3. TwoTo[h - (l + 1)] \in Nat
    BY <2>2, TwoToIsLarge
  <2> QED BY <1>2, <2>1, <2>3
<1>4. ~(p > RightShift(Len(values) - 1, l + 1))
  <2>1. p <= RightShift(Len(values) - 1, l + 1)
    BY <1>1, ShiftMonotone
  <2>2. RightShift(Len(values) - 1, l + 1) \in Int
    BY <1>1, ShiftType
  <2> QED BY <1>2, <2>1, <2>2
<1>5. row[l + 1][p] = <<row[l][2 * p], row[l][2 * p + 1]>>
  BY <1>3, <1>4, ReferenceParent
<1>6. CASE c % 2 = 1
  <2>1. 2 * p = c - 1 /\ 2 * p + 1 = c
    BY <1>2, <1>6
  <2> QED BY <1>5, <1>6, <2>1
<1>7. CASE c % 2 = 0
  <2>1. 2 * p = c /\ 2 * p + 1 = c + 1
    BY SMTT(30), <1>2, <1>7
  <2>2. SUFFICES ASSUME n = Len(values) - 1 PROVE row[l][c + 1] = <<>>
    BY <1>5, <1>7, <2>1
  <2>3. c + 1 \in 0..(TwoTo[h - l] - 1)
    <3>1. h - l \in Nat /\ h - (l + 1) \in Nat /\ h - l = (h - (l + 1)) + 1
      OBVIOUS
    <3>2. TwoTo[h - l] = 2 * TwoTo[h - (l + 1)] /\ TwoTo[h - (l + 1)] \in Nat
      BY <3>1, TwoToNext, TwoToIsLarge
    <3> DEFINE t == TwoTo[h - (l + 1)]
    <3>3. p < t /\ TwoTo[h - l] = 2 * t /\ t \in Nat
      BY <1>3, <3>2
    <3> HIDE DEF t, c, p
    <3> QED BY <1>2, <2>1, <3>3
  <2>4. c + 1 > RightShift(Len(values) - 1, l)
    BY <1>2, <2>2
  <2> QED BY <1>1, <2>3, <2>4, ReferenceZero
<1> QED BY <1>2, <1>6, <1>7

---------------------------------------------------------------------------
(* The frontier, and hashing up along the path of a leaf.                  *)

\* With m leaves in, the frontier holds the left sibling that the next leaf's path
\* meets on each level where it comes from a right child.
FrontierOf(h, values, m, frontier) ==
    \A l \in 0..(h - 1) :
        RightShift(m, l) % 2 = 1 =>
            /\ l \in DOMAIN frontier
            /\ frontier[l].term = ReferenceRow(h, values)[l][RightShift(m, l) - 1]

\* s stands on level l of the path of leaf n.
AtNode(s, h, values, n, l) ==
    /\ s.ok = TRUE
    /\ s.index = TwoTo[h - l] - 1 + RightShift(n, l)
    /\ s.value = [term |-> ReferenceRow(h, values)[l][RightShift(n, l)], full |-> TRUE]

\* The frontier depends on the leaves that are in, not on those that come later.
LEMMA FrontierOfMore ==
  ASSUME NEW h \in Nat, NEW a, NEW b, Len(a) \in Nat, Len(b) \in Nat,
         NEW m \in Nat, m <= Len(a), m <= Len(b), m <= TwoTo[h],
         \A k \in 1..m : a[k] = b[k],
         NEW frontier, FrontierOf(h, a, m, frontier)
  PROVE  FrontierOf(h, b, m, frontier)
<1> SUFFICES ASSUME NEW l \in 0..(h - 1), RightShift(m, l) % 2 = 1
             PROVE  /\ l \in DOMAIN frontier
                    /\ frontier[l].term = ReferenceRow(h, b)[l][RightShift(m, l) - 1]
  BY DEF FrontierOf
<1>1. /\ l \in DOMAIN frontier
      /\ frontier[l].term = ReferenceRow(h, a)[l][RightShift(m, l) - 1]
  BY DEF FrontierOf
<1>2. RightShift(m, l) \in Nat /\ l \in 0..h
  <2>1. l \in Nat /\ l \in 0..h
    OBVIOUS
  <2> QED BY <2>1, ShiftIsNat
<1>3. RightShift(m, l) - 1 \in Nat /\ RightShift(m, l) - 1 < RightShift(m, l)
  BY <1>2
<1>4. ReferenceRow(h, a)[l][RightShift(m, l) - 1] = ReferenceRow(h, b)[l][RightShift(m, l) - 1]
  BY SMTT(30), <1>2, <1>3, FullSubtree
<1> QED BY <1>1, <1>4

LEMMA ShiftOne ==
  ASSUME NEW k \in Int
  PROVE  RightShift(k, 1) = k \div 2
<1>1. TwoTo[1] = 2 * TwoTo[0]
  <2>1. 0 + 1 = 1 /\ 0 \in Nat
    OBVIOUS
  <2> QED BY <2>1, TwoToNext
<1> QED BY <1>1, TwoToZero DEF RightShift

\* Heap indices: parity tells left from right, the parent is one level up.
LEMMA HeapIndex ==
  ASSUME NEW h \in Nat, NEW n \in Nat, NEW l \in 0..(h - 1)
  PROVE  LET c == RightShift(n, l)
             index == TwoTo[h - l] - 1 + c IN
         /\ index % 2 = 0 <=> c % 2 = 1
         /\ ParentNodeIndex(index) = TwoTo[h - (l + 1)] - 1 + RightShift(n, l + 1)
<1> DEFINE c == RightShift(n, l)
           t == TwoTo[h - (l + 1)]
           index == TwoTo[h - l] - 1 + c
<1>1. h - l \in Nat /\ h - (l + 1) \in Nat /\ h - l = (h - (l + 1)) + 1 /\ l \in Nat
  OBVIOUS
<1>2. TwoTo[h - l] = 2 * t /\ t \in Nat \ {0}
  BY <1>1, TwoToNext, TwoToIsLarge
<1>3. c \in Nat
  BY <1>1, ShiftIsNat
<1>4. RightShift(n, l + 1) = c \div 2
  BY <1>1, ShiftNext
<1>5. index = 2 * t - 1 + c
  BY <1>2
<1>6. \A k \in Int : RightShift(k, 1) = k \div 2
  BY ShiftOne
<1> HIDE DEF c, t, index
<1>7. index % 2 = 0 <=> c % 2 = 1
  BY <1>2, <1>3, <1>5
<1>8. ParentNodeIndex(index) = t - 1 + (c \div 2)
  <2>1. index \in Int /\ index - 1 \in Int
    BY <1>2, <1>3, <1>5
  <2>2. CASE c % 2 = 1
    <3>1. index % 2 # 1
      BY <1>7, <2>2
    <3>2. ParentNodeIndex(index) = (index - 1) \div 2
      BY <1>6, <2>1, <3>1 DEF ParentNodeIndex
    <3> QED BY <1>2, <1>3, <1>5, <2>2, <3>2
  <2>3. CASE c % 2 # 1
    <3>1. index % 2 = 1
      BY <1>7, <2>1, <2>3
    <3>2. ParentNodeIndex(index) = index \div 2
      BY <1>6, <2>1, <3>1 DEF ParentNodeIndex
    <3> QED BY <1>2, <1>3, <1>5, <2>3, <3>2
  <2> QED BY <2>2, <2>3
<1> QED BY <1>4, <1>7, <1>8 DEF c, t, index

\* The node that HashUp writes.
Write(s, keepFull) ==
    [index |-> s.index,
     hash |-> IF keepFull /\ s.index = 0 THEN s.value ELSE Truncate(s.value)]

\* One turn of hashing goes from the path's node on one level to that on the next.
LEMMA HashUpStep ==
  ASSUME NEW h \in Nat, NEW values, Len(values) \in Nat, Len(values) <= TwoTo[h],
         NEW n \in 0..(Len(values) - 1), NEW l \in 0..(h - 1), NEW s, NEW keepFull,
         AtNode(s, h, values, n, l),
         RightShift(n, l) % 2 = 1 =>
            /\ l \in DOMAIN s.frontier
            /\ s.frontier[l].term = ReferenceRow(h, values)[l][RightShift(n, l) - 1],
         RightShift(n, l) % 2 = 0 => n = Len(values) - 1
  PROVE  LET r == HashUp(s, l + 1, keepFull) IN
         /\ AtNode(r, h, values, n, l + 1)
         /\ r.frontier = s.frontier
         /\ r.slot = s.slot
         /\ r.writes = Append(s.writes, Write(r, keepFull))
<1> DEFINE c == RightShift(n, l)
           row == ReferenceRow(h, values)
           parent == ParentNodeIndex(s.index)
           value == IF s.index % 2 = 0
                    THEN ConcatenateThenHash(s.frontier[l], s.value)
                    ELSE ConcatenateThenHash(s.value, Zero)
           stored == IF keepFull /\ parent = 0 THEN value ELSE Truncate(value)
<1>1. n \in Nat /\ l \in Nat /\ (l + 1) - 1 = l
  OBVIOUS
<1>2. c \in Nat
  BY <1>1, ShiftIsNat
<1>3. (s.index % 2 = 0 <=> c % 2 = 1)
      /\ parent = TwoTo[h - (l + 1)] - 1 + RightShift(n, l + 1)
  <2> DEFINE index == TwoTo[h - l] - 1 + RightShift(n, l)
  <2>1. s.index = index
    BY DEF AtNode
  <2>2. /\ index % 2 = 0 <=> RightShift(n, l) % 2 = 1
        /\ ParentNodeIndex(index) = TwoTo[h - (l + 1)] - 1 + RightShift(n, l + 1)
    BY <1>1, HeapIndex
  <2> HIDE DEF index
  <2> QED BY <2>1, <2>2
<1>4. s.value = [term |-> row[l][c], full |-> TRUE]
  BY DEF AtNode
<1>5. value = [term |-> row[l + 1][RightShift(n, l + 1)], full |-> TRUE]
  <2>1. CASE c % 2 = 1
    <3>1. row[l + 1][RightShift(n, l + 1)] = <<row[l][c - 1], row[l][c]>>
      BY <2>1, NodesOnPath
    <3>2. s.value.term = row[l][c] /\ s.frontier[l].term = row[l][c - 1]
      BY <1>4, <2>1
    <3>3. value = ConcatenateThenHash(s.frontier[l], s.value)
      BY <1>3, <2>1
    <3> HIDE DEF row, c, value
    <3> QED BY <3>1, <3>2, <3>3 DEF ConcatenateThenHash
  <2>2. CASE c % 2 # 1
    <3>1. c % 2 = 0
      BY <1>2, <2>2
    <3>2. row[l + 1][RightShift(n, l + 1)] = <<row[l][c], <<>>>>
      BY <3>1, NodesOnPath
    <3>3. s.value.term = row[l][c] /\ Zero.term = <<>>
      BY <1>4 DEF Zero
    <3>4. value = ConcatenateThenHash(s.value, Zero)
      BY <1>3, <2>2
    <3> HIDE DEF row, c, value
    <3> QED BY <3>2, <3>3, <3>4 DEF ConcatenateThenHash
  <2> QED BY <2>1, <2>2
<1>6. HashUp(s, l + 1, keepFull) =
        [frontier |-> s.frontier, slot |-> s.slot, ok |-> TRUE,
         value |-> value, index |-> parent,
         writes |-> Append(s.writes, [index |-> parent, hash |-> stored])]
  <2>1. ~(~s.ok \/ (s.index % 2 = 0 /\ l \notin DOMAIN s.frontier))
    BY <1>3 DEF AtNode
  <2> QED BY <1>1, <2>1 DEF HashUp
<1> DEFINE r == HashUp(s, l + 1, keepFull)
<1>7. r.index = parent /\ r.value = value /\ r.ok = TRUE /\ r.frontier = s.frontier
      /\ r.slot = s.slot
      /\ r.writes = Append(s.writes, [index |-> parent, hash |-> stored])
  <2> HIDE DEF parent, value, stored
  <2> QED BY <1>6
<1>8. Write(r, keepFull) = [index |-> parent, hash |-> stored]
  <2> HIDE DEF parent, value, r
  <2> QED BY <1>7 DEF Write
<1>9. AtNode(r, h, values, n, l + 1)
  <2> HIDE DEF parent, value, r
  <2> QED BY <1>3, <1>5, <1>7 DEF AtNode
<1> HIDE DEF stored, parent, r
<1> QED BY <1>7, <1>8, <1>9 DEF r

---------------------------------------------------------------------------
(* Climbing, level by level.                                               *)

\* g holds the states after the levels from..m.
Turns(g, s, from, keepFull, m) ==
    g = [level \in (from - 1)..m |->
            IF level = from - 1 THEN s ELSE HashUp(g[level - 1], level, keepFull)]

LEMMA TurnsExist ==
  ASSUME NEW s, NEW from \in Int, NEW keepFull, NEW j \in Nat
  PROVE  \E g : Turns(g, s, from, keepFull, from - 1 + j)
<1> DEFINE S == {i \in Nat : \E g : Turns(g, s, from, keepFull, from - 1 + i)}
<1>1. 0 \in S
  <2> DEFINE k == [level \in (from - 1)..(from - 1 + 0) |-> s]
  <2>1. Turns(k, s, from, keepFull, from - 1 + 0)
    BY DEF Turns
  <2> QED BY <2>1
<1>2. ASSUME NEW i \in Nat, i \in S PROVE i + 1 \in S
  <2>1. PICK g : Turns(g, s, from, keepFull, from - 1 + i)
    BY <1>2
  <2> DEFINE m == from - 1 + i
             k == [level \in (from - 1)..(m + 1) |->
                      IF level = m + 1 THEN HashUp(g[m], m + 1, keepFull) ELSE g[level]]
  <2>2. ASSUME NEW level \in (from - 1)..(m + 1)
        PROVE  k[level] = IF level = from - 1 THEN s ELSE HashUp(k[level - 1], level, keepFull)
    <3>1. CASE level = m + 1
      <4>1. level - 1 = m /\ m \in (from - 1)..(m + 1) /\ m # m + 1 /\ level # from - 1
        BY <3>1
      <4> HIDE DEF m
      <4> QED BY <3>1, <4>1
    <3>2. CASE level # m + 1 /\ level # from - 1
      <4>1. level \in (from - 1)..m /\ level - 1 \in (from - 1)..(m + 1) /\ level - 1 # m + 1
        BY <3>2
      <4>2. k[level - 1] = g[level - 1] /\ k[level] = g[level]
        BY <3>2, <4>1
      <4>3. g[level] = HashUp(g[level - 1], level, keepFull)
        BY <2>1, <3>2, <4>1 DEF Turns
      <4> QED BY <3>2, <4>2, <4>3
    <3>3. CASE level = from - 1
      <4>1. level \in (from - 1)..m /\ level # m + 1
        BY <3>3
      <4>2. g[level] = s
        BY <2>1, <3>3, <4>1 DEF Turns
      <4> QED BY <3>3, <4>1, <4>2
    <3> QED BY <3>1, <3>2, <3>3
  <2>3. Turns(k, s, from, keepFull, m + 1)
    BY <2>2 DEF Turns
  <2>4. \E e : Turns(e, s, from, keepFull, from - 1 + (i + 1))
    <3>1. m + 1 = from - 1 + (i + 1)
      OBVIOUS
    <3> HIDE DEF k, m
    <3> QED BY <2>3, <3>1
  <2> QED BY <2>4
<1> QED BY <1>1, <1>2, InductionOver

\* turn holds the states of climbing from level `from` - 1 to level `to`.
ClimbedBy(turn, s, from, to, keepFull) ==
    /\ turn[from - 1] = s
    /\ \A level \in from..to : turn[level] = HashUp(turn[level - 1], level, keepFull)
    /\ Climb(s, from, to, keepFull) = turn[to]

LEMMA ClimbTurns ==
  ASSUME NEW s, NEW from \in Int, NEW to \in Int, from - 1 <= to, NEW keepFull
  PROVE  \E turn : ClimbedBy(turn, s, from, to, keepFull)
<1> DEFINE Def(g) == g = [level \in (from - 1)..to |->
                            IF level = from - 1 THEN s ELSE HashUp(g[level - 1], level, keepFull)]
           turn == CHOOSE g : Def(g)
<1>1. \E g : Def(g)
  <2>1. to - (from - 1) \in Nat /\ from - 1 + (to - (from - 1)) = to
    OBVIOUS
  <2>2. \E g : Turns(g, s, from, keepFull, to)
    BY <2>1, TurnsExist
  <2> QED BY <2>2 DEF Turns
<1>2. Climb(s, from, to, keepFull) = turn[to]
  BY DEF Climb
<1>3. Def(turn)
  <2> HIDE DEF Def
  <2> QED BY <1>1
<1> HIDE DEF turn
<1>4. turn[from - 1] = s
  BY <1>3
<1>5. ASSUME NEW level \in from..to
      PROVE  turn[level] = HashUp(turn[level - 1], level, keepFull)
  <2>1. level \in (from - 1)..to /\ level # from - 1
    OBVIOUS
  <2> HIDE DEF Def
  <2>2. turn[level] = IF level = from - 1 THEN s
                      ELSE HashUp(turn[level - 1], level, keepFull)
    BY <1>3, <2>1 DEF Def
  <2> QED BY <2>1, <2>2
<1> QED BY <1>2, <1>4, <1>5 DEF ClimbedBy

\* Appending to a sequence, whatever its elements are.
IsSequence(w) == \E S : w \in Seq(S)

LEMMA AppendToSequence ==
  ASSUME NEW w, IsSequence(w), NEW e
  PROVE  /\ IsSequence(Append(w, e))
         /\ Len(w) \in Nat
         /\ Len(Append(w, e)) = Len(w) + 1
         /\ Append(w, e)[Len(w) + 1] = e
         /\ \A k \in 1..Len(w) : Append(w, e)[k] = w[k]
<1>1. PICK S : w \in Seq(S)
  BY DEF IsSequence
<1> DEFINE R == S \cup {e}
<1>2. w \in Seq(R)
  BY <1>1
<1>3. e \in R
  OBVIOUS
<1> HIDE DEF R
<1>4. Append(w, e) \in Seq(R) /\ Len(w) \in Nat /\ Len(Append(w, e)) = Len(w) + 1
  BY <1>2, <1>3
<1>5. Append(w, e)[Len(w) + 1] = e
  BY <1>2, <1>3
<1>6. \A k \in 1..Len(w) : Append(w, e)[k] = w[k]
  BY <1>2, <1>3
<1> QED BY <1>4, <1>5, <1>6 DEF IsSequence

\* The node that hashing up the path of leaf n writes on level l.
PathWrite(h, values, n, l, keepFull) ==
    Write([index |-> TwoTo[h - l] - 1 + RightShift(n, l),
           value |-> [term |-> ReferenceRow(h, values)[l][RightShift(n, l)], full |-> TRUE]],
          keepFull)

\* After `old`, w holds the writes of the path of leaf n on the levels a + 1..b.
WritesOfPath(w, old, h, values, n, a, b, keepFull) ==
    /\ IsSequence(w)
    /\ Len(old) \in Nat
    /\ Len(w) = Len(old) + (b - a)
    /\ \A k \in 1..Len(old) : w[k] = old[k]
    /\ \A l \in (a + 1)..b : w[Len(old) + (l - a)] = PathWrite(h, values, n, l, keepFull)

LEMMA WriteOfNode ==
  ASSUME NEW s, NEW h, NEW values, NEW n, NEW l, NEW keepFull, AtNode(s, h, values, n, l)
  PROVE  Write(s, keepFull) = PathWrite(h, values, n, l, keepFull)
  BY DEF AtNode, Write, PathWrite

LEMMA WritesOfPathNext ==
  ASSUME NEW w, NEW old, NEW h, NEW values, NEW n, NEW a \in Nat, NEW b \in Nat, a <= b,
         NEW keepFull, WritesOfPath(w, old, h, values, n, a, b, keepFull)
  PROVE  WritesOfPath(Append(w, PathWrite(h, values, n, b + 1, keepFull)), old,
                      h, values, n, a, b + 1, keepFull)
<1> DEFINE e == PathWrite(h, values, n, b + 1, keepFull)
           u == Append(w, e)
<1>1. /\ IsSequence(w) /\ Len(old) \in Nat /\ Len(w) = Len(old) + (b - a)
      /\ \A k \in 1..Len(old) : w[k] = old[k]
      /\ \A l \in (a + 1)..b : w[Len(old) + (l - a)] = PathWrite(h, values, n, l, keepFull)
  BY DEF WritesOfPath
<1> HIDE DEF e
<1>2. /\ IsSequence(u) /\ Len(u) = Len(w) + 1 /\ u[Len(w) + 1] = e
      /\ \A k \in 1..Len(w) : u[k] = w[k]
  BY <1>1, AppendToSequence
<1> HIDE DEF u
<1>3. \A k \in 1..Len(old) : u[k] = old[k]
  <2> TAKE k \in 1..Len(old)
  <2>1. k \in 1..Len(w)
    BY <1>1
  <2> QED BY <1>1, <1>2, <2>1
<1>4. ASSUME NEW l \in (a + 1)..(b + 1)
      PROVE  u[Len(old) + (l - a)] = PathWrite(h, values, n, l, keepFull)
  <2>1. CASE l = b + 1
    <3>1. Len(old) + (l - a) = Len(w) + 1
      BY <1>1, <2>1
    <3> QED BY <1>2, <2>1, <3>1 DEF e
  <2>2. CASE l # b + 1
    <3>1. l \in (a + 1)..b /\ Len(old) + (l - a) \in 1..Len(w)
      BY <1>1, <2>2
    <3> QED BY <1>1, <1>2, <3>1
  <2> QED BY <2>1, <2>2
<1>5. Len(u) = Len(old) + ((b + 1) - a)
  BY <1>1, <1>2
<1> QED BY <1>1, <1>2, <1>3, <1>4, <1>5 DEF WritesOfPath, u, e

\* Hashing up from level a to level b of a leaf's path, where the frontier holds every
\* left sibling that is met and a right sibling is missing only for the last leaf.
LEMMA ClimbPath ==
  ASSUME NEW h \in Nat, NEW values, Len(values) \in Nat, Len(values) <= TwoTo[h],
         NEW n \in 0..(Len(values) - 1), NEW a \in Nat, NEW b \in Nat, a <= b, b <= h,
         NEW s, NEW keepFull, AtNode(s, h, values, n, a), IsSequence(s.writes),
         \A l \in a..(b - 1) :
            /\ RightShift(n, l) % 2 = 1 =>
                 /\ l \in DOMAIN s.frontier
                 /\ s.frontier[l].term = ReferenceRow(h, values)[l][RightShift(n, l) - 1]
            /\ RightShift(n, l) % 2 = 0 => n = Len(values) - 1
  PROVE  LET r == Climb(s, a + 1, b, keepFull) IN
         /\ AtNode(r, h, values, n, b)
         /\ r.frontier = s.frontier
         /\ r.slot = s.slot
         /\ WritesOfPath(r.writes, s.writes, h, values, n, a, b, keepFull)
<1>1. PICK turn : ClimbedBy(turn, s, a + 1, b, keepFull)
  <2>1. a + 1 \in Int /\ b \in Int /\ (a + 1) - 1 <= b
    OBVIOUS
  <2> QED BY <2>1, ClimbTurns
<1> DEFINE Good(l) == /\ AtNode(turn[l], h, values, n, l)
                      /\ turn[l].frontier = s.frontier
                      /\ turn[l].slot = s.slot
                      /\ WritesOfPath(turn[l].writes, s.writes, h, values, n, a, l, keepFull)
           S == {k \in Nat : a + k <= b => Good(a + k)}
<1>2. 0 \in S
  <2>1. a + 0 = a /\ (a + 1) - 1 = a /\ (a + 1)..a = {} /\ a - a = 0
    OBVIOUS
  <2>2. Len(s.writes) \in Nat
    BY AppendToSequence
  <2>3. WritesOfPath(s.writes, s.writes, h, values, n, a, a, keepFull)
    BY <2>1, <2>2 DEF WritesOfPath
  <2>4. turn[a] = s
    BY <1>1, <2>1 DEF ClimbedBy
  <2>5. Good(a)
    BY <2>3, <2>4
  <2> HIDE DEF Good
  <2> QED BY <2>1, <2>5
<1>3. ASSUME NEW k \in Nat, k \in S PROVE k + 1 \in S
  <2> DEFINE l == a + k
             r == turn[l + 1]
  <2> SUFFICES ASSUME l + 1 <= b PROVE Good(l + 1)
    <3>1. a + (k + 1) = l + 1
      OBVIOUS
    <3> HIDE DEF Good, l
    <3> QED BY <3>1
  <2>1. l \in a..(b - 1) /\ l + 1 \in (a + 1)..b /\ (l + 1) - 1 = l /\ l \in 0..(h - 1)
        /\ l \in Nat /\ a <= l
    OBVIOUS
  <2> DEFINE t == turn[l]
  <2>2. /\ AtNode(t, h, values, n, l) /\ t.frontier = s.frontier /\ t.slot = s.slot
        /\ WritesOfPath(t.writes, s.writes, h, values, n, a, l, keepFull)
    BY <1>3
  <2> HIDE DEF l
  <2>3. r = HashUp(t, l + 1, keepFull)
    BY <1>1, <2>1 DEF ClimbedBy
  <2> HIDE DEF r, t
  <2>4. /\ RightShift(n, l) % 2 = 1 =>
             /\ l \in DOMAIN t.frontier
             /\ t.frontier[l].term = ReferenceRow(h, values)[l][RightShift(n, l) - 1]
        /\ RightShift(n, l) % 2 = 0 => n = Len(values) - 1
    BY <2>1, <2>2
  <2>5. /\ AtNode(r, h, values, n, l + 1)
        /\ r.frontier = t.frontier
        /\ r.slot = t.slot
        /\ r.writes = Append(t.writes, Write(r, keepFull))
    BY <2>1, <2>2, <2>3, <2>4, HashUpStep
  <2>6. Write(r, keepFull) = PathWrite(h, values, n, l + 1, keepFull)
    BY <2>5, WriteOfNode
  <2>7. WritesOfPath(r.writes, s.writes, h, values, n, a, l + 1, keepFull)
    BY <2>1, <2>2, <2>5, <2>6, WritesOfPathNext
  <2> QED BY <2>2, <2>5, <2>7 DEF r
<1>4. Nat \subseteq S
  <2> HIDE DEF S
  <2> QED BY <1>2, <1>3, InductionOver
<1>5. Good(b)
  <2>1. b - a \in Nat /\ a + (b - a) = b
    OBVIOUS
  <2>2. b - a \in S
    BY <1>4, <2>1
  <2> HIDE DEF Good
  <2> QED BY <2>1, <2>2
<1> QED BY <1>1, <1>5 DEF ClimbedBy

---------------------------------------------------------------------------
(* Adding leaves.                                                          *)

\* The leaves are in the tree as they were pushed: 32 bytes each.
LeafValues(values) ==
    \A k \in 1..Len(values) : values[k] = [term |-> values[k].term, full |-> TRUE]

\* A leaf's path starts at the leaf.
LEMMA LeafOnPath ==
  ASSUME NEW h \in Nat, NEW values, Len(values) \in Nat, Len(values) <= TwoTo[h],
         NEW n \in 0..(Len(values) - 1)
  PROVE  /\ ReferenceRow(h, values)[0][RightShift(n, 0)] = values[n + 1].term
         /\ TwoTo[h - 0] - 1 + RightShift(n, 0) = LeafIndexToNodeIndex(h, n)
<1>1. n \in Int /\ h - 0 = h /\ TwoTo[h] \in Nat /\ Len(values) - 1 \in Int
  BY TwoToIsLarge
<1>2. RightShift(n, 0) = n /\ RightShift(Len(values) - 1, 0) = Len(values) - 1
  BY <1>1, ShiftZero
<1>3. n \in 0..(TwoTo[h] - 1) /\ ~(n > Len(values) - 1)
  BY <1>1
<1>4. ReferenceRow(h, values)[0][n] = values[n + 1].term
  BY <1>2, <1>3, ReferenceLeaf
<1>5. TwoTo[h] - 1 + n = LeafIndexToNodeIndex(h, n)
  BY <1>1 DEF LeafIndexToNodeIndex
<1> QED BY <1>1, <1>2, <1>4, <1>5

\* Storing the node that a leaf completes makes the frontier that of the next leaf.
LEMMA FrontierNext ==
  ASSUME NEW h \in Nat, NEW values, NEW n \in Nat,
         NEW frontier, FrontierOf(h, values, n, frontier), NEW new,
         \A l \in 0..(h - 1) : (l # GetFrontierSlot(n) /\ l \in DOMAIN frontier) =>
            l \in DOMAIN new /\ new[l].term = frontier[l].term,
         GetFrontierSlot(n) < h =>
            /\ GetFrontierSlot(n) \in DOMAIN new
            /\ new[GetFrontierSlot(n)].term =
                 ReferenceRow(h, values)[GetFrontierSlot(n)]
                                        [RightShift(n, GetFrontierSlot(n))]
  PROVE  FrontierOf(h, values, n + 1, new)
<1> DEFINE slot == GetFrontierSlot(n)
           row == ReferenceRow(h, values)
<1>1. slot \in Nat /\ RightBelow(n, slot) /\ RightShift(n, slot) % 2 = 0
  BY FrontierSlot
<1>2. /\ \A l \in 0..(h - 1) : (l # slot /\ l \in DOMAIN frontier) =>
            l \in DOMAIN new /\ new[l].term = frontier[l].term
      /\ slot < h => slot \in DOMAIN new /\ new[slot].term = row[slot][RightShift(n, slot)]
  OBVIOUS
<1> HIDE DEF slot
<1>3. SUFFICES ASSUME NEW l \in 0..(h - 1), RightShift(n + 1, l) % 2 = 1
               PROVE  l \in DOMAIN new /\ new[l].term = row[l][RightShift(n + 1, l) - 1]
  BY DEF FrontierOf
<1>4. l \in Nat /\ RightShift(n, l) \in Nat
  <2>1. l \in Nat
    OBVIOUS
  <2> QED BY <2>1, ShiftIsNat
<1>5. CASE l < slot
  <2>1. RightBelow(n, l) /\ RightShift(n, l) % 2 = 1
    BY <1>1, <1>4, <1>5 DEF RightBelow
  <2>2. RightShift(n + 1, l) = RightShift(n, l) + 1
    BY <1>4, <2>1, Carry
  <2> QED BY <1>3, <1>4, <2>1, <2>2
<1>6. CASE l = slot
  <2>1. RightShift(n + 1, l) = RightShift(n, l) + 1
    BY <1>1, <1>4, <1>6, Carry
  <2>2. RightShift(n + 1, l) - 1 = RightShift(n, l)
    BY <1>4, <2>1
  <2>3. slot < h
    BY <1>6
  <2> QED BY <1>2, <1>6, <2>2, <2>3
<1>7. CASE l > slot
  <2>1. ~RightBelow(n, l)
    <3>1. slot \in 0..(l - 1)
      BY <1>1, <1>4, <1>7
    <3> QED BY <1>1, <3>1 DEF RightBelow
  <2>2. RightShift(n + 1, l) = RightShift(n, l)
    BY <1>4, <2>1, Carry
  <2>3. l \in DOMAIN frontier /\ frontier[l].term = row[l][RightShift(n, l) - 1]
    BY <1>3, <2>2 DEF FrontierOf
  <2>4. l # slot
    BY <1>7, <1>1, <1>4
  <2> QED BY <1>2, <2>2, <2>3, <2>4
<1> QED BY <1>1, <1>4, <1>5, <1>6, <1>7

\* The leaf loop's body.
LEMMA AddLeafStep ==
  ASSUME NEW h \in Nat, NEW values, Len(values) \in Nat, Len(values) <= TwoTo[h],
         LeafValues(values), NEW n \in 0..(Len(values) - 1), NEW s, s.ok = TRUE,
         FrontierOf(h, values, n, s.frontier), IsSequence(s.writes)
  PROVE  LET slot == GetFrontierSlot(n)
             r    == AddLeaf(s, h, n, values[n + 1]) IN
         /\ AtNode(r, h, values, n, slot)
         /\ r.slot = slot
         /\ FrontierOf(h, values, n + 1, r.frontier)
         /\ DOMAIN r.frontier = DOMAIN s.frontier \cup {slot}
         /\ WritesOfPath(r.writes, s.writes, h, values, n, 0, slot, FALSE)
<1> DEFINE slot  == GetFrontierSlot(n)
           start == [frontier |-> s.frontier, slot |-> slot, ok |-> s.ok,
                     value |-> values[n + 1],
                     index |-> LeafIndexToNodeIndex(h, n), writes |-> s.writes]
           top   == Climb(start, 1, slot, FALSE)
           r     == AddLeaf(s, h, n, values[n + 1])
<1>1. n \in Nat /\ n < TwoTo[h] /\ n + 1 \in 1..Len(values)
  BY TwoToIsLarge
<1>2. slot \in Nat /\ slot <= h /\ RightBelow(n, slot)
  BY <1>1, FrontierSlot, SlotInTree
<1>3. AtNode(start, h, values, n, 0)
  <2>1. values[n + 1] = [term |-> ReferenceRow(h, values)[0][RightShift(n, 0)], full |-> TRUE]
    BY <1>1, LeafOnPath DEF LeafValues
  <2>2. LeafIndexToNodeIndex(h, n) = TwoTo[h - 0] - 1 + RightShift(n, 0)
    BY LeafOnPath
  <2> QED BY <2>1, <2>2 DEF AtNode
<1>4. start.frontier = s.frontier /\ start.slot = slot /\ start.writes = s.writes
  OBVIOUS
<1> HIDE DEF start, slot
<1>5. \A l \in 0..(slot - 1) :
        /\ RightShift(n, l) % 2 = 1 =>
             /\ l \in DOMAIN start.frontier
             /\ start.frontier[l].term = ReferenceRow(h, values)[l][RightShift(n, l) - 1]
        /\ RightShift(n, l) % 2 = 0 => n = Len(values) - 1
  <2> TAKE l \in 0..(slot - 1)
  <2>1. RightShift(n, l) % 2 = 1 /\ l \in 0..(h - 1)
    BY <1>2 DEF RightBelow
  <2> QED BY <1>4, <2>1 DEF FrontierOf
<1>6. /\ AtNode(top, h, values, n, slot)
      /\ top.frontier = s.frontier
      /\ WritesOfPath(top.writes, s.writes, h, values, n, 0, slot, FALSE)
  <2> DEFINE z == 0
  <2>1. z \in Nat /\ z <= slot /\ top = Climb(start, z + 1, slot, FALSE)
    BY <1>2
  <2>2. AtNode(start, h, values, n, z) /\ IsSequence(start.writes)
    BY <1>3, <1>4
  <2>3. \A l \in z..(slot - 1) :
          /\ RightShift(n, l) % 2 = 1 =>
               /\ l \in DOMAIN start.frontier
               /\ start.frontier[l].term = ReferenceRow(h, values)[l][RightShift(n, l) - 1]
          /\ RightShift(n, l) % 2 = 0 => n = Len(values) - 1
    BY <1>5
  <2> HIDE DEF z, top
  <2>4. LET e == Climb(start, z + 1, slot, FALSE) IN
        /\ AtNode(e, h, values, n, slot)
        /\ e.frontier = start.frontier
        /\ e.slot = start.slot
        /\ WritesOfPath(e.writes, start.writes, h, values, n, z, slot, FALSE)
    BY <1>2, <2>1, <2>2, <2>3, ClimbPath
  <2> QED BY <1>4, <2>1, <2>4 DEF z
<1>7. r = [frontier |-> IF top.ok THEN SetNode(top.frontier, slot, Truncate(top.value))
                                  ELSE top.frontier,
           slot |-> slot, ok |-> top.ok, value |-> top.value, index |-> top.index,
           writes |-> top.writes]
  BY DEF AddLeaf, start, slot
<1> HIDE DEF top, r
<1>8. /\ r.frontier = SetNode(s.frontier, slot, Truncate(top.value))
      /\ r.slot = slot /\ r.ok = TRUE /\ r.value = top.value /\ r.index = top.index
      /\ r.writes = top.writes
  BY <1>6, <1>7 DEF AtNode
<1>9. Truncate(top.value).term = ReferenceRow(h, values)[slot][RightShift(n, slot)]
  BY <1>6 DEF AtNode, Truncate
<1>10. DOMAIN r.frontier = DOMAIN s.frontier \cup {slot}
  BY <1>8 DEF SetNode
<1>11. FrontierOf(h, values, n + 1, r.frontier)
  <2>1. r.frontier[slot].term = ReferenceRow(h, values)[slot][RightShift(n, slot)]
    BY <1>8, <1>9 DEF SetNode
  <2>2. \A l \in 0..(h - 1) : (l # slot /\ l \in DOMAIN s.frontier) =>
          l \in DOMAIN r.frontier /\ r.frontier[l].term = s.frontier[l].term
    BY <1>8 DEF SetNode
  <2> QED BY <1>1, <1>10, <2>1, <2>2, FrontierNext DEF slot
<1> QED BY <1>6, <1>8, <1>10, <1>11 DEF AtNode, r, slot

---------------------------------------------------------------------------
(* What a recalculation writes.                                            *)

\* A write of the reference tree's node, at its place in the heap.  The root node keeps
\* all 32 bytes, unless the tree is full.
ReferenceWrite(w, h, values) ==
    \E l \in 1..h : \E i \in 0..(TwoTo[h - l] - 1) :
        /\ w.index = TwoTo[h - l] - 1 + i
        /\ w.hash.term = ReferenceRow(h, values)[l][i]
        /\ (l = h /\ Len(values) < TwoTo[h]) => w.hash = ReferenceRoot(h, values)

AllReference(writes, h, values) ==
    \A k \in 1..Len(writes) : ReferenceWrite(writes[k], h, values)

HasWrite(writes, index) == \E k \in 1..Len(writes) : writes[k].index = index

\* Every inner node whose subtree fills up between the m-th and the n-th leaf is written.
CoversFull(writes, h, m, n) ==
    \A l \in 1..h : \A i \in RightShift(m, l)..(RightShift(n, l) - 1) :
        HasWrite(writes, TwoTo[h - l] - 1 + i)

\* Every inner node on the path of one of the leaves m..n is written.
CoversPaths(writes, h, m, n) ==
    \A l \in 1..h : \A i \in RightShift(m, l)..RightShift(n, l) :
        HasWrite(writes, TwoTo[h - l] - 1 + i)

\* On the top level there is one node.
LEMMA TopColumn ==
  ASSUME NEW h \in Nat, NEW n \in Nat, n < TwoTo[h]
  PROVE  RightShift(n, h) = 0
<1>1. RightShift(n, h) < TwoTo[0]
  <2>1. h \in 0..h /\ h - h = 0
    OBVIOUS
  <2> QED BY <2>1, ShiftInRow
<1>2. RightShift(n, h) \in Nat
  BY ShiftIsNat
<1> QED BY <1>1, <1>2, TwoToZero

LEMMA ColumnInRow ==
  ASSUME NEW h \in Nat, NEW n \in Nat, n < TwoTo[h], NEW l \in 0..h
  PROVE  RightShift(n, l) \in 0..(TwoTo[h - l] - 1)
<1>1. l \in Nat /\ h - l \in Nat
  OBVIOUS
<1>2. RightShift(n, l) \in Nat /\ TwoTo[h - l] \in Nat
  BY <1>1, ShiftIsNat, TwoToIsLarge
<1>3. RightShift(n, l) < TwoTo[h - l]
  BY ShiftInRow
<1> QED BY <1>2, <1>3

LEMMA PathWriteIsReference ==
  ASSUME NEW h \in Nat, NEW values, Len(values) \in Nat, Len(values) <= TwoTo[h],
         NEW n \in 0..(Len(values) - 1), NEW l \in 1..h,
         NEW keepFull \in BOOLEAN, keepFull \/ RightBelow(n, l)
  PROVE  ReferenceWrite(PathWrite(h, values, n, l, keepFull), h, values)
<1> DEFINE w == PathWrite(h, values, n, l, keepFull)
           i == RightShift(n, l)
           v == [term |-> ReferenceRow(h, values)[l][i], full |-> TRUE]
<1>1. n \in Nat /\ n < TwoTo[h] /\ l \in 0..h /\ l \in Nat /\ l >= 1
  BY TwoToIsLarge
<1>2. i \in 0..(TwoTo[h - l] - 1)
  BY <1>1, ColumnInRow
<1>3. w.index = TwoTo[h - l] - 1 + i
      /\ w.hash = (IF keepFull /\ TwoTo[h - l] - 1 + i = 0 THEN v ELSE Truncate(v))
  BY DEF PathWrite, Write
<1>4. w.hash.term = ReferenceRow(h, values)[l][i]
  BY <1>3 DEF Truncate
<1>5. ASSUME l = h, Len(values) < TwoTo[h] PROVE w.hash = ReferenceRoot(h, values)
  <2>1. i = 0 /\ h - l = 0
    BY <1>1, <1>5, TopColumn
  <2>2. keepFull
    <3>1. SUFFICES ASSUME RightBelow(n, h) PROVE FALSE
      BY <1>5
    <3>2. n + 1 = TwoTo[h] * (RightShift(n, h) + 1)
      BY <1>1, <3>1, Carry
    <3>3. n + 1 = TwoTo[h]
      BY <1>5, <2>1, <3>2, TwoToIsLarge
    <3> QED BY <1>5, <3>3, TwoToIsLarge
  <2>3. TwoTo[h - l] - 1 + i = 0
    BY <2>1, TwoToZero
  <2>4. w.hash = v
    BY <1>3, <2>2, <2>3
  <2> HIDE DEF w
  <2> QED BY <1>5, <2>1, <2>4 DEF ReferenceRoot
<1> HIDE DEF w, i
<1> QED BY <1>2, <1>3, <1>4, <1>5 DEF ReferenceWrite, w

\* The writes of a path keep the writes before them, and add the path's own.
LEMMA PathKeepsReference ==
  ASSUME NEW h \in Nat, NEW values, Len(values) \in Nat, Len(values) <= TwoTo[h],
         NEW n \in 0..(Len(values) - 1), NEW a \in Nat, NEW b \in Nat, a <= b, b <= h,
         NEW keepFull \in BOOLEAN, keepFull \/ RightBelow(n, b), NEW w, NEW old,
         WritesOfPath(w, old, h, values, n, a, b, keepFull), AllReference(old, h, values)
  PROVE  /\ AllReference(w, h, values)
         /\ \A index : HasWrite(old, index) => HasWrite(w, index)
         /\ \A l \in (a + 1)..b : HasWrite(w, TwoTo[h - l] - 1 + RightShift(n, l))
<1>1. /\ Len(old) \in Nat /\ Len(w) = Len(old) + (b - a)
      /\ \A k \in 1..Len(old) : w[k] = old[k]
      /\ \A l \in (a + 1)..b : w[Len(old) + (l - a)] = PathWrite(h, values, n, l, keepFull)
  BY DEF WritesOfPath
<1>2. AllReference(w, h, values)
  <2> SUFFICES ASSUME NEW k \in 1..Len(w) PROVE ReferenceWrite(w[k], h, values)
    BY DEF AllReference
  <2>1. CASE k <= Len(old)
    <3>1. k \in 1..Len(old)
      BY <1>1, <2>1
    <3> QED BY <1>1, <3>1 DEF AllReference
  <2>2. CASE ~(k <= Len(old))
    <3> DEFINE l == k - Len(old) + a
    <3>1. l \in (a + 1)..b /\ Len(old) + (l - a) = k /\ l \in 1..h /\ l <= b
      <4> DEFINE len == Len(old)
      <4>1. len \in Nat /\ k \in Nat /\ k <= len + (b - a) /\ ~(k <= len)
        BY <1>1, <2>2
      <4> HIDE DEF len
      <4>2. k - len + a \in (a + 1)..b /\ len + ((k - len + a) - a) = k
        BY <4>1
      <4>3. k - len + a \in 1..h /\ k - len + a <= b
        BY <4>2
      <4> QED BY <4>2, <4>3 DEF len
    <3> HIDE DEF l
    <3>2. w[k] = PathWrite(h, values, n, l, keepFull)
      BY <1>1, <3>1
    <3>3. keepFull \/ RightBelow(n, l)
      BY <3>1 DEF RightBelow
    <3> QED BY <3>1, <3>2, <3>3, PathWriteIsReference
  <2> QED BY <2>1, <2>2
<1>3. ASSUME NEW index, HasWrite(old, index) PROVE HasWrite(w, index)
  <2>1. PICK k \in 1..Len(old) : old[k].index = index
    BY <1>3 DEF HasWrite
  <2>2. k \in 1..Len(w) /\ w[k].index = index
    BY <1>1, <2>1
  <2> QED BY <2>2 DEF HasWrite
<1>4. ASSUME NEW l \in (a + 1)..b
      PROVE  HasWrite(w, TwoTo[h - l] - 1 + RightShift(n, l))
  <2>1. Len(old) + (l - a) \in 1..Len(w)
    BY <1>1
  <2>2. PathWrite(h, values, n, l, keepFull).index = TwoTo[h - l] - 1 + RightShift(n, l)
    BY DEF PathWrite, Write
  <2> QED BY <1>1, <2>1, <2>2 DEF HasWrite
<1> QED BY <1>2, <1>3, <1>4

---------------------------------------------------------------------------
(* The leaf loop of updateNodes, and the whole recalculation.              *)

\* The state in which the leaf loop starts.
PlanStart(h, frontier) ==
    [frontier |-> frontier, value |-> Undefined, index |-> 0,
     slot |-> h, writes |-> <<>>, ok |-> TRUE]

\* g holds the states after 0..m leaves of the batch.
Additions(g, h, frontier, batch, leafCount, m) ==
    g = [k \in 0..m |->
            IF k = 0 THEN PlanStart(h, frontier)
            ELSE AddLeaf(g[k - 1], h, leafCount + k - 1, batch[k])]

LEMMA AdditionsExist ==
  ASSUME NEW h, NEW frontier, NEW batch, NEW leafCount, NEW m \in Nat
  PROVE  \E g : Additions(g, h, frontier, batch, leafCount, m)
<1> DEFINE S == {j \in Nat : \E g : Additions(g, h, frontier, batch, leafCount, j)}
<1>1. 0 \in S
  <2> DEFINE k == [i \in 0..0 |-> PlanStart(h, frontier)]
  <2>1. Additions(k, h, frontier, batch, leafCount, 0)
    BY DEF Additions
  <2> QED BY <2>1
<1>2. ASSUME NEW j \in Nat, j \in S PROVE j + 1 \in S
  <2>1. PICK g : Additions(g, h, frontier, batch, leafCount, j)
    BY <1>2
  <2> DEFINE next == AddLeaf(g[j], h, leafCount + (j + 1) - 1, batch[j + 1])
             k == [i \in 0..(j + 1) |-> IF i = j + 1 THEN next ELSE g[i]]
  <2>2. ASSUME NEW i \in 0..(j + 1)
        PROVE  k[i] = IF i = 0 THEN PlanStart(h, frontier)
                      ELSE AddLeaf(k[i - 1], h, leafCount + i - 1, batch[i])
    <3>1. CASE i = j + 1
      <4>1. i - 1 = j /\ j \in 0..(j + 1) /\ j # j + 1 /\ i # 0
        BY <3>1
      <4> QED BY <3>1, <4>1
    <3>2. CASE i # j + 1 /\ i # 0
      <4>1. i \in 0..j /\ i - 1 \in 0..(j + 1) /\ i - 1 # j + 1
        BY <3>2
      <4>2. k[i - 1] = g[i - 1] /\ k[i] = g[i]
        BY <3>2, <4>1
      <4>3. g[i] = AddLeaf(g[i - 1], h, leafCount + i - 1, batch[i])
        BY <2>1, <3>2, <4>1 DEF Additions
      <4> QED BY <3>2, <4>2, <4>3
    <3>3. CASE i = 0
      <4>1. i \in 0..j /\ i # j + 1
        BY <3>3
      <4>2. g[i] = PlanStart(h, frontier)
        BY <2>1, <3>3, <4>1 DEF Additions
      <4> QED BY <3>3, <4>1, <4>2
    <3> QED BY <3>1, <3>2, <3>3
  <2>3. Additions(k, h, frontier, batch, leafCount, j + 1)
    BY <2>2 DEF Additions
  <2>4. \E e : Additions(e, h, frontier, batch, leafCount, j + 1)
    <3> HIDE DEF k
    <3> QED BY <2>3
  <2> QED BY <2>4
<1> QED BY <1>1, <1>2, InductionOver

\* added holds the states of the leaf loop, and the plan hashes on from the last of them.
PlannedBy(added, h, frontier, batch, leafCount) ==
    /\ added[0] = PlanStart(h, frontier)
    /\ \A k \in 1..Len(batch) :
          added[k] = AddLeaf(added[k - 1], h, leafCount + k - 1, batch[k])
    /\ LET last == added[LeavesThatFit(h, batch, leafCount)] IN
       PlanUpdate(h, frontier, batch, leafCount) = Climb(last, last.slot + 1, h, TRUE)

LEMMA PlanSteps ==
  ASSUME NEW h, NEW frontier, NEW batch, NEW leafCount, Len(batch) \in Nat
  PROVE  \E added : PlannedBy(added, h, frontier, batch, leafCount)
<1> DEFINE Def(g) == g = [k \in 0..Len(batch) |->
                            IF k = 0 THEN [frontier |-> frontier, value |-> Undefined,
                                           index |-> 0, slot |-> h, writes |-> <<>>,
                                           ok |-> TRUE]
                            ELSE AddLeaf(g[k - 1], h, leafCount + k - 1, batch[k])]
           added == CHOOSE g : Def(g)
           last == added[LeavesThatFit(h, batch, leafCount)]
<1>1. \E g : Def(g)
  <2>1. \E g : Additions(g, h, frontier, batch, leafCount, Len(batch))
    BY AdditionsExist
  <2> QED BY <2>1 DEF Additions, PlanStart
<1>2. PlanUpdate(h, frontier, batch, leafCount) = Climb(last, last.slot + 1, h, TRUE)
  BY DEF PlanUpdate
<1>3. Def(added)
  <2> HIDE DEF Def
  <2> QED BY <1>1
<1> HIDE DEF added
<1>4. added[0] = PlanStart(h, frontier)
  BY <1>3 DEF PlanStart
<1>5. ASSUME NEW k \in 1..Len(batch)
      PROVE  added[k] = AddLeaf(added[k - 1], h, leafCount + k - 1, batch[k])
  <2>1. k \in 0..Len(batch) /\ k # 0
    OBVIOUS
  <2> QED BY <1>3, <2>1
<1> QED BY <1>2, <1>4, <1>5 DEF PlannedBy

---------------------------------------------------------------------------
(* The number of hashes.                                                   *)

\* The loop of getNumberOfHashes over k levels, for the leaves lo..hi.
Edges(hi, lo, k) ==
    LET count[j \in 0..k] ==
            IF j = 0 THEN 0 ELSE count[j - 1] + RightShift(hi, j - 1) - RightShift(lo, j - 1)
    IN  count[k]

\* g holds the counts after each of the first k levels.
Counts(g, hi, lo, k) ==
    g = [j \in 0..k |-> IF j = 0 THEN 0
                        ELSE g[j - 1] + RightShift(hi, j - 1) - RightShift(lo, j - 1)]

LEMMA CountsExist ==
  ASSUME NEW hi, NEW lo, NEW k \in Nat
  PROVE  \E g : Counts(g, hi, lo, k)
<1> DEFINE S == {j \in Nat : \E g : Counts(g, hi, lo, j)}
           W(j, old) == old + RightShift(hi, j - 1) - RightShift(lo, j - 1)
<1>1. 0 \in S
  <2> DEFINE f == [j \in 0..0 |-> 0]
  <2>1. Counts(f, hi, lo, 0)
    BY DEF Counts
  <2> QED BY <2>1
<1>2. ASSUME NEW j \in Nat, j \in S PROVE j + 1 \in S
  <2>1. PICK g : Counts(g, hi, lo, j)
    BY <1>2
  <2> DEFINE f == [i \in 0..(j + 1) |-> IF i = j + 1 THEN W(j + 1, g[j]) ELSE g[i]]
  <2>2. ASSUME NEW i \in 0..(j + 1)
        PROVE  f[i] = IF i = 0 THEN 0 ELSE W(i, f[i - 1])
    <3>1. CASE i = j + 1
      <4>1. i - 1 = j /\ j \in 0..(j + 1) /\ j # j + 1 /\ i # 0
        BY <3>1
      <4> HIDE DEF W
      <4> QED BY <3>1, <4>1
    <3>2. CASE i # j + 1 /\ i # 0
      <4>1. i \in 0..j /\ i - 1 \in 0..(j + 1) /\ i - 1 # j + 1
        BY <3>2
      <4>2. f[i - 1] = g[i - 1] /\ f[i] = g[i]
        BY <3>2, <4>1
      <4>3. g[i] = W(i, g[i - 1])
        BY <2>1, <3>2, <4>1 DEF Counts
      <4> HIDE DEF W
      <4> QED BY <3>2, <4>2, <4>3
    <3>3. CASE i = 0
      <4>1. i \in 0..j /\ i # j + 1
        BY <3>3
      <4>2. g[i] = 0
        BY <2>1, <3>3, <4>1 DEF Counts
      <4> QED BY <3>3, <4>1, <4>2
    <3> QED BY <3>1, <3>2, <3>3
  <2>3. Counts(f, hi, lo, j + 1)
    BY <2>2 DEF Counts
  <2>4. \E e : Counts(e, hi, lo, j + 1)
    <3> HIDE DEF f
    <3> QED BY <2>3
  <2> QED BY <2>4
<1> QED BY <1>1, <1>2, InductionOver

LEMMA EdgesOf ==
  ASSUME NEW hi, NEW lo, NEW k \in Nat
  PROVE  \E g : Counts(g, hi, lo, k) /\ Edges(hi, lo, k) = g[k]
<1> DEFINE g == CHOOSE f : Counts(f, hi, lo, k)
<1>1. Counts(g, hi, lo, k)
  BY CountsExist
<1>2. Edges(hi, lo, k) = g[k]
  BY DEF Edges, Counts
<1> HIDE DEF g
<1> QED BY <1>1, <1>2

LEMMA EdgesZero ==
  ASSUME NEW hi, NEW lo
  PROVE  Edges(hi, lo, 0) = 0
<1>1. PICK g : Counts(g, hi, lo, 0) /\ Edges(hi, lo, 0) = g[0]
  BY EdgesOf
<1> QED BY <1>1 DEF Counts

LEMMA CountsAgree ==
  ASSUME NEW hi, NEW lo, NEW a \in Nat, NEW b \in Nat, NEW f, NEW g,
         Counts(f, hi, lo, a), Counts(g, hi, lo, b), NEW n \in Nat, n <= a, n <= b
  PROVE  f[n] = g[n]
<1> DEFINE S == {j \in Nat : j <= a /\ j <= b => f[j] = g[j]}
           W(j, old) == old + RightShift(hi, j - 1) - RightShift(lo, j - 1)
<1>1. 0 \in S
  BY DEF Counts
<1>2. ASSUME NEW j \in Nat, j \in S PROVE j + 1 \in S
  <2> SUFFICES ASSUME j + 1 <= a, j + 1 <= b PROVE f[j + 1] = g[j + 1]
    OBVIOUS
  <2>1. f[j] = g[j]
    BY <1>2
  <2>2. j + 1 \in 0..a /\ j + 1 \in 0..b /\ j + 1 # 0 /\ (j + 1) - 1 = j
    OBVIOUS
  <2>3. f[j + 1] = W(j + 1, f[(j + 1) - 1])
    BY <2>2 DEF Counts
  <2>4. g[j + 1] = W(j + 1, g[(j + 1) - 1])
    BY <2>2 DEF Counts
  <2> HIDE DEF W
  <2> QED BY <2>1, <2>2, <2>3, <2>4
<1> QED BY <1>1, <1>2, InductionOver

LEMMA EdgesNext ==
  ASSUME NEW hi, NEW lo, NEW k \in Nat
  PROVE  Edges(hi, lo, k + 1) = Edges(hi, lo, k) + RightShift(hi, k) - RightShift(lo, k)
<1>1. PICK g : Counts(g, hi, lo, k + 1) /\ Edges(hi, lo, k + 1) = g[k + 1]
  BY EdgesOf
<1>2. PICK f : Counts(f, hi, lo, k) /\ Edges(hi, lo, k) = f[k]
  BY EdgesOf
<1>3. f[k] = g[k]
  BY <1>1, <1>2, CountsAgree
<1>4. k + 1 \in 0..(k + 1) /\ k + 1 # 0 /\ (k + 1) - 1 = k
  OBVIOUS
<1>5. g[k + 1] = g[k] + RightShift(hi, k) - RightShift(lo, k)
  BY <1>1, <1>4 DEF Counts
<1> QED BY <1>1, <1>2, <1>3, <1>5

LEMMA EdgesType ==
  ASSUME NEW hi \in Nat, NEW lo \in Nat, NEW k \in Nat
  PROVE  /\ Edges(hi, lo, k) \in Int
         /\ Edges(lo, lo, k) = 0
<1> DEFINE S == {j \in Nat : Edges(hi, lo, j) \in Int /\ Edges(lo, lo, j) = 0}
<1>1. 0 \in S
  BY EdgesZero
<1>2. ASSUME NEW j \in Nat, j \in S PROVE j + 1 \in S
  <2>1. RightShift(hi, j) \in Int /\ RightShift(lo, j) \in Int
    BY ShiftType
  <2> QED BY <1>2, <2>1, EdgesNext
<1>3. Nat \subseteq S
  <2> HIDE DEF S
  <2> QED BY <1>1, <1>2, InductionOver
<1> QED BY <1>3

\* Levels above both leaves' common root add nothing.
LEMMA EdgesAbove ==
  ASSUME NEW hi \in Nat, NEW lo \in Nat, lo <= hi, NEW a \in Nat, hi < TwoTo[a],
         NEW d \in Nat
  PROVE  Edges(hi, lo, a + d) = Edges(hi, lo, a)
<1> DEFINE S == {j \in Nat : /\ Edges(hi, lo, a + j) = Edges(hi, lo, a)
                             /\ RightShift(hi, a + j) = 0
                             /\ RightShift(lo, a + j) = 0}
<1>1. 0 \in S
  <2>1. a + 0 = a /\ lo < TwoTo[a]
    BY TwoToIsLarge
  <2> QED BY <2>1, TopColumn
<1>2. ASSUME NEW j \in Nat, j \in S PROVE j + 1 \in S
  <2>1. a + j \in Nat /\ a + (j + 1) = (a + j) + 1
    OBVIOUS
  <2>2. Edges(hi, lo, a + j) \in Int
    BY <2>1, EdgesType
  <2>3. Edges(hi, lo, (a + j) + 1) = Edges(hi, lo, a + j)
    BY <1>2, <2>1, <2>2, EdgesNext
  <2>4. RightShift(hi, (a + j) + 1) = 0 /\ RightShift(lo, (a + j) + 1) = 0
    <3>1. RightShift(hi, (a + j) + 1) = RightShift(hi, a + j) \div 2
          /\ RightShift(lo, (a + j) + 1) = RightShift(lo, a + j) \div 2
      BY <2>1, ShiftNext
    <3> QED BY <1>2, <3>1
  <2> QED BY <1>2, <2>1, <2>3, <2>4
<1>3. Nat \subseteq S
  <2> HIDE DEF S
  <2> QED BY <1>1, <1>2, InductionOver
<1> QED BY <1>3

\* One more leaf: the levels up to its predecessor's slot, and the leaf itself.
LEMMA EdgesOfNext ==
  ASSUME NEW n \in Nat, NEW lo \in Nat, NEW k \in Nat, n + 1 < TwoTo[k]
  PROVE  Edges(n + 1, lo, k) = Edges(n, lo, k) + GetFrontierSlot(n) + 1
<1> DEFINE slot == GetFrontierSlot(n)
           S == {j \in Nat : Edges(n + 1, lo, j) =
                               Edges(n, lo, j) + (IF j <= slot THEN j ELSE slot + 1)}
<1>1. slot \in Nat /\ RightBelow(n, slot) /\ RightShift(n, slot) % 2 = 0
  BY FrontierSlot
<1> HIDE DEF slot
<1>2. 0 \in S
  BY <1>1, EdgesZero
<1>3. ASSUME NEW j \in Nat, j \in S PROVE j + 1 \in S
  <2>1. RightShift(n, j) \in Int /\ RightShift(n + 1, j) \in Int /\ RightShift(lo, j) \in Int
    BY ShiftType
  <2>2. Edges(n, lo, j) \in Int /\ Edges(n + 1, lo, j) \in Int
    BY EdgesType
  <2>3. /\ Edges(n, lo, j + 1) = Edges(n, lo, j) + RightShift(n, j) - RightShift(lo, j)
        /\ Edges(n + 1, lo, j + 1) =
             Edges(n + 1, lo, j) + RightShift(n + 1, j) - RightShift(lo, j)
    BY EdgesNext
  <2>4. CASE j <= slot
    <3>1. RightBelow(n, j)
      BY <1>1, <2>4 DEF RightBelow
    <3>2. RightShift(n + 1, j) = RightShift(n, j) + 1
      BY <3>1, Carry
    <3>3. Edges(n + 1, lo, j) = Edges(n, lo, j) + j
      BY <1>3, <2>4
    <3>4. Edges(n + 1, lo, j + 1) = Edges(n, lo, j + 1) + (j + 1)
      BY <2>1, <2>2, <2>3, <3>2, <3>3
    <3>5. (IF j + 1 <= slot THEN j + 1 ELSE slot + 1) = j + 1
      BY <1>1, <2>4
    <3> QED BY <3>4, <3>5
  <2>5. CASE ~(j <= slot)
    <3>1. ~RightBelow(n, j)
      <4>1. slot \in 0..(j - 1)
        BY <1>1, <2>5
      <4> QED BY <1>1, <4>1 DEF RightBelow
    <3>2. RightShift(n + 1, j) = RightShift(n, j)
      BY <3>1, Carry
    <3>3. Edges(n + 1, lo, j) = Edges(n, lo, j) + (slot + 1)
      BY <1>3, <2>5
    <3>4. Edges(n + 1, lo, j + 1) = Edges(n, lo, j + 1) + (slot + 1)
      BY <1>1, <2>1, <2>2, <2>3, <3>2, <3>3
    <3>5. ~(j + 1 <= slot)
      BY <1>1, <2>5
    <3> QED BY <3>4, <3>5
  <2> QED BY <2>4, <2>5
<1>4. Nat \subseteq S
  <2> HIDE DEF S
  <2> QED BY <1>2, <1>3, InductionOver
<1>5. ~(k <= slot)
  <2>1. SUFFICES ASSUME k <= slot PROVE FALSE
    OBVIOUS
  <2>2. RightBelow(n, k)
    BY <1>1, <2>1 DEF RightBelow
  <2>3. n + 1 = TwoTo[k] * (RightShift(n, k) + 1)
    BY <2>2, Carry
  <2>4. TwoTo[k] \in Nat \ {0} /\ RightShift(n, k) \in Nat
    BY TwoToIsLarge, ShiftIsNat
  <2> DEFINE t == TwoTo[k]
             c == RightShift(n, k) + 1
  <2>5. t * c >= t
    <3>1. t \in Nat \ {0} /\ c \in Int /\ c >= 1
      BY <2>4
    <3> HIDE DEF t, c
    <3> QED BY <3>1, MultipleIsLarge
  <2> QED BY <2>3, <2>4, <2>5
<1>6. Edges(n + 1, lo, k) = Edges(n, lo, k) + (slot + 1)
  BY <1>4, <1>5
<1> QED BY <1>1, <1>6, EdgesType DEF slot

LEMMA BitLengthOf ==
  ASSUME NEW hi \in Nat
  PROVE  BitLength(hi) \in Nat /\ hi < TwoTo[BitLength(hi)]
<1> DEFINE T == {b \in Nat : b >= 1 /\ RightShift(hi, b) = 0}
           Is(b) == RightShift(hi, b) = 0 /\ (b = 1 \/ RightShift(hi, b - 1) # 0)
<1>1. hi + 1 \in T
  <2>1. hi + 1 \in Nat /\ hi + 1 >= 1 /\ hi + 1 < TwoTo[hi + 1]
    BY TwoToIsLarge
  <2>2. hi < TwoTo[hi + 1]
    BY <2>1, TwoToIsLarge
  <2> QED BY <2>1, <2>2, TopColumn
<1>2. PICK m \in T : \A b \in T : m <= b
  BY <1>1, NatMinimum
<1>3. m \in 1..(hi + 1) /\ Is(m)
  <2>1. m \in 1..(hi + 1)
    BY <1>1, <1>2
  <2>2. m = 1 \/ RightShift(hi, m - 1) # 0
    <3>1. SUFFICES ASSUME m # 1, RightShift(hi, m - 1) = 0 PROVE FALSE
      OBVIOUS
    <3>2. m - 1 \in T /\ ~(m <= m - 1)
      BY <2>1, <3>1
    <3> QED BY <1>2, <3>2
  <2> QED BY <1>2, <2>1, <2>2
<1>4. BitLength(hi) = CHOOSE b \in 1..(hi + 1) : Is(b)
  BY DEF BitLength
<1>5. BitLength(hi) \in 1..(hi + 1) /\ Is(BitLength(hi))
  <2> HIDE DEF Is
  <2> QED BY <1>3, <1>4
<1> DEFINE b == BitLength(hi)
<1>6. b \in Nat /\ RightShift(hi, b) = 0
  BY <1>5
<1> HIDE DEF b
<1>7. hi < TwoTo[b]
  <2>1. TwoTo[b] \in Nat \ {0}
    BY <1>6, TwoToIsLarge
  <2> DEFINE t == TwoTo[b]
  <2>2. hi = t * (hi \div t) + (hi % t) /\ hi % t \in 0..(t - 1) /\ hi \div t = 0
    <3>1. hi \div t = 0
      BY <1>6 DEF RightShift
    <3>2. t \in Nat \ {0}
      BY <2>1
    <3> HIDE DEF t
    <3> QED BY <3>1, <3>2, DivMod
  <2> HIDE DEF t
  <2>3. t * 0 = 0
    BY <2>1 DEF t
  <2>4. hi = hi % t
    BY <2>1, <2>2, <2>3
  <2> QED BY <2>1, <2>2, <2>4 DEF t
<1> QED BY <1>6, <1>7 DEF b

\* getNumberOfHashes may as well count over all levels of the tree.
LEMMA NumberOfHashes ==
  ASSUME NEW h \in Nat, NEW hi \in Nat, NEW lo \in Nat, lo <= hi, hi < TwoTo[h]
  PROVE  GetNumberOfHashes(hi, lo, h) = Edges(hi, lo, h) + h - (hi - lo)
<1> DEFINE b == BitLength(hi)
<1>1. b \in Nat /\ hi < TwoTo[b]
  BY BitLengthOf
<1>2. GetNumberOfHashes(hi, lo, h) = Edges(hi, lo, b) + h - (hi - lo)
  BY DEF GetNumberOfHashes, Edges
<1> HIDE DEF b
<1>3. Edges(hi, lo, b + h) = Edges(hi, lo, b) /\ Edges(hi, lo, h + b) = Edges(hi, lo, h)
  BY <1>1, EdgesAbove
<1>4. b + h = h + b
  BY <1>1
<1> QED BY <1>2, <1>3, <1>4

---------------------------------------------------------------------------
(* The leaf loop and the last climb.                                       *)

\* The state after the leaves below n are in, of which those from m on were added.
Added(s, h, values, frontier, m, n) ==
    /\ s.ok = TRUE
    /\ FrontierOf(h, values, n, s.frontier)
    /\ DOMAIN frontier \subseteq DOMAIN s.frontier
    /\ DOMAIN s.frontier \subseteq DOMAIN frontier \cup 0..h
    /\ IsSequence(s.writes)
    /\ AllReference(s.writes, h, values)
    /\ CoversFull(s.writes, h, m, n)
    /\ n = m => Len(s.writes) = 0
    /\ n > m => /\ s.slot = GetFrontierSlot(n - 1)
                /\ AtNode(s, h, values, n - 1, s.slot)
                /\ Len(s.writes) = Edges(n - 1, m, h) + s.slot - (n - 1 - m)

LEMMA AddedStart ==
  ASSUME NEW h \in Nat, NEW values, NEW frontier, NEW m \in Nat,
         FrontierOf(h, values, m, frontier)
  PROVE  Added(PlanStart(h, frontier), h, values, frontier, m, m)
<1> DEFINE s == PlanStart(h, frontier)
<1>1. s.ok = TRUE /\ s.frontier = frontier /\ s.writes = <<>>
  BY DEF PlanStart
<1> HIDE DEF s
<1>2. IsSequence(<<>>) /\ Len(<<>>) = 0
  BY DEF IsSequence
<1>3. AllReference(s.writes, h, values)
  BY <1>1, <1>2 DEF AllReference
<1>4. CoversFull(s.writes, h, m, m)
  <2> SUFFICES ASSUME NEW l \in 1..h, NEW i \in RightShift(m, l)..(RightShift(m, l) - 1)
               PROVE  FALSE
    BY DEF CoversFull
  <2>1. RightShift(m, l) \in Nat
    BY ShiftIsNat
  <2> QED BY <2>1
<1>5. ~(m > m) /\ Len(s.writes) = 0
  BY <1>1, <1>2
<1> QED BY <1>1, <1>2, <1>3, <1>4, <1>5 DEF Added, s

LEMMA AddedNext ==
  ASSUME NEW h \in Nat, NEW values, Len(values) \in Nat, Len(values) <= TwoTo[h],
         LeafValues(values), NEW frontier, NEW m \in Nat, NEW n \in 0..(Len(values) - 1),
         m <= n, NEW s, Added(s, h, values, frontier, m, n)
  PROVE  Added(AddLeaf(s, h, n, values[n + 1]), h, values, frontier, m, n + 1)
<1> DEFINE slot == GetFrontierSlot(n)
           r == AddLeaf(s, h, n, values[n + 1])
<1>1. n \in Nat /\ n < TwoTo[h] /\ (n + 1) - 1 = n /\ n + 1 \in Nat
  BY TwoToIsLarge
<1>2. slot \in Nat /\ slot <= h /\ RightBelow(n, slot) /\ RightShift(n, slot) % 2 = 0
  BY <1>1, FrontierSlot, SlotInTree
<1>3. /\ AtNode(r, h, values, n, slot)
      /\ r.slot = slot
      /\ FrontierOf(h, values, n + 1, r.frontier)
      /\ DOMAIN r.frontier = DOMAIN s.frontier \cup {slot}
      /\ WritesOfPath(r.writes, s.writes, h, values, n, 0, slot, FALSE)
  BY AddLeafStep DEF Added
<1>4. AllReference(s.writes, h, values) /\ CoversFull(s.writes, h, m, n)
      /\ DOMAIN frontier \subseteq DOMAIN s.frontier
      /\ DOMAIN s.frontier \subseteq DOMAIN frontier \cup 0..h
  BY DEF Added
<1> HIDE DEF r, slot
<1>5. /\ AllReference(r.writes, h, values)
      /\ \A index : HasWrite(s.writes, index) => HasWrite(r.writes, index)
      /\ \A l \in 1..slot : HasWrite(r.writes, TwoTo[h - l] - 1 + RightShift(n, l))
  <2> DEFINE z == 0
             kf == FALSE
  <2>1. z \in Nat /\ z <= slot /\ kf \in BOOLEAN /\ (kf \/ RightBelow(n, slot))
    BY <1>2
  <2>3. WritesOfPath(r.writes, s.writes, h, values, n, z, slot, kf)
    BY <1>3, Zenon
  <2> HIDE DEF z, kf
  <2>2. /\ AllReference(r.writes, h, values)
        /\ \A index : HasWrite(s.writes, index) => HasWrite(r.writes, index)
        /\ \A l \in (z + 1)..slot : HasWrite(r.writes, TwoTo[h - l] - 1 + RightShift(n, l))
    BY <1>2, <1>4, <2>1, <2>3, PathKeepsReference
  <2> QED BY <2>2 DEF z
<1>6. CoversFull(r.writes, h, m, n + 1)
  <2> SUFFICES ASSUME NEW l \in 1..h, NEW i \in RightShift(m, l)..(RightShift(n + 1, l) - 1)
               PROVE  HasWrite(r.writes, TwoTo[h - l] - 1 + i)
    BY DEF CoversFull
  <2>1. l \in Nat /\ l >= 1
    OBVIOUS
  <2>2. RightShift(m, l) \in Nat /\ RightShift(n, l) \in Nat /\ RightShift(n + 1, l) \in Nat
    BY <1>1, <2>1, ShiftIsNat
  <2>3. CASE i \in RightShift(m, l)..(RightShift(n, l) - 1)
    BY <1>4, <1>5, <2>3 DEF CoversFull
  <2>4. CASE i \notin RightShift(m, l)..(RightShift(n, l) - 1)
    <3>1. RightShift(n + 1, l) # RightShift(n, l)
      BY <2>4
    <3>2. RightBelow(n, l) /\ RightShift(n + 1, l) = RightShift(n, l) + 1
      BY <1>1, <2>1, <3>1, Carry
    <3>3. i = RightShift(n, l)
      BY <2>2, <2>4, <3>2
    <3>4. l <= slot
      <4>1. SUFFICES ASSUME slot < l PROVE FALSE
        BY <1>2, <2>1
      <4>2. slot \in 0..(l - 1)
        BY <1>2, <2>1, <4>1
      <4> QED BY <1>2, <3>2, <4>2 DEF RightBelow
    <3>5. l \in 1..slot
      BY <1>2, <2>1, <3>4
    <3> QED BY <1>5, <3>3, <3>5
  <2> QED BY <2>3, <2>4
<1>7. DOMAIN frontier \subseteq DOMAIN r.frontier
      /\ DOMAIN r.frontier \subseteq DOMAIN frontier \cup 0..h
  BY <1>2, <1>3, <1>4
<1>8. IsSequence(r.writes)
  BY <1>3 DEF WritesOfPath
<1>9. r.ok = TRUE /\ r.slot = GetFrontierSlot((n + 1) - 1)
      /\ AtNode(r, h, values, (n + 1) - 1, r.slot)
  BY <1>1, <1>3 DEF AtNode, slot
<1>10. ~(n + 1 = m) /\ (n + 1) - 1 - m = n - m
  OBVIOUS
<1>11. Len(r.writes) = Edges(n, m, h) + r.slot - (n - m)
  <2>1. Len(r.writes) = Len(s.writes) + slot
    BY <1>2, <1>3 DEF WritesOfPath
  <2>2. CASE n = m
    <3>1. Edges(n, m, h) = 0 /\ Len(s.writes) = 0
      BY <2>2, EdgesType DEF Added
    <3> QED BY <1>2, <1>3, <2>1, <2>2, <3>1
  <2>3. CASE n # m
    <3>1. n > m /\ n - 1 \in Nat /\ (n - 1) + 1 = n
      BY <2>3
    <3>2. s.slot = GetFrontierSlot(n - 1)
          /\ Len(s.writes) = Edges(n - 1, m, h) + s.slot - (n - 1 - m)
      BY <3>1 DEF Added
    <3>3. Edges(n, m, h) = Edges(n - 1, m, h) + s.slot + 1
      <4>1. Edges((n - 1) + 1, m, h) = Edges(n - 1, m, h) + GetFrontierSlot(n - 1) + 1
        BY <1>1, <3>1, EdgesOfNext
      <4> QED BY <3>1, <3>2, <4>1
    <3>4. Edges(n - 1, m, h) \in Int /\ s.slot \in Nat
      BY <3>1, <3>2, EdgesType, FrontierSlot
    <3> QED BY SMTT(30), <1>2, <1>3, <2>1, <3>2, <3>3, <3>4
  <2> QED BY <2>2, <2>3
<1>12. Len(r.writes) = Edges((n + 1) - 1, m, h) + r.slot - ((n + 1) - 1 - m)
  BY <1>1, <1>10, <1>11
<1> QED BY <1>3, <1>5, <1>6, <1>7, <1>8, <1>9, <1>10, <1>12 DEF Added, r

\* Above the slot of the last leaf the frontier, which is that of the next leaf already,
\* still holds what the last leaf's path needs.
LEMMA FrontierAboveSlot ==
  ASSUME NEW h \in Nat, NEW values, NEW n \in Nat, NEW frontier,
         FrontierOf(h, values, n + 1, frontier),
         NEW l \in GetFrontierSlot(n)..(h - 1), RightShift(n, l) % 2 = 1
  PROVE  /\ l \in DOMAIN frontier
         /\ frontier[l].term = ReferenceRow(h, values)[l][RightShift(n, l) - 1]
<1> DEFINE slot == GetFrontierSlot(n)
<1>1. slot \in Nat /\ RightShift(n, slot) % 2 = 0
  BY FrontierSlot
<1>2. l \in Nat /\ slot <= l
  BY <1>1
<1>3. l # slot
  BY <1>1
<1>4. ~RightBelow(n, l)
  <2>1. slot \in 0..(l - 1)
    BY <1>1, <1>2, <1>3
  <2> QED BY <1>1, <2>1 DEF RightBelow
<1>5. RightShift(n + 1, l) = RightShift(n, l)
  BY <1>2, <1>4, Carry
<1>6. l \in 0..(h - 1)
  BY <1>2
<1> QED BY <1>5, <1>6 DEF FrontierOf

\* What a plan has to be, for leaves m.. of `values` on a frontier that is right for m.
PlanOK(plan, h, values, frontier, m) ==
    /\ plan.ok = TRUE
    /\ FrontierOf(h, values, Len(values), plan.frontier)
    /\ DOMAIN frontier \subseteq DOMAIN plan.frontier
    /\ DOMAIN plan.frontier \subseteq DOMAIN frontier \cup 0..h
    /\ IsSequence(plan.writes)
    /\ AllReference(plan.writes, h, values)
    /\ m < Len(values) => /\ plan.value = ReferenceRoot(h, values)
                          /\ Len(plan.writes) = GetNumberOfHashes(Len(values) - 1, m, h)
                          /\ CoversPaths(plan.writes, h, m, Len(values) - 1)

\* From the last leaf's slot up to the root.
LEMMA LastClimb ==
  ASSUME NEW h \in Nat, NEW values, Len(values) \in Nat, Len(values) <= TwoTo[h],
         NEW frontier, NEW m \in Nat, m < Len(values),
         NEW s, Added(s, h, values, frontier, m, Len(values))
  PROVE  PlanOK(Climb(s, s.slot + 1, h, TRUE), h, values, frontier, m)
<1> DEFINE n == Len(values) - 1
           slot == GetFrontierSlot(n)
           r == Climb(s, slot + 1, h, TRUE)
<1>1. n \in Nat /\ n \in 0..(Len(values) - 1) /\ n < TwoTo[h] /\ n + 1 = Len(values)
      /\ m <= n
  BY TwoToIsLarge
<1>2. slot \in Nat /\ slot <= h /\ RightShift(n, slot) % 2 = 0
  BY <1>1, FrontierSlot, SlotInTree
<1>3. /\ s.slot = slot /\ AtNode(s, h, values, n, slot) /\ IsSequence(s.writes)
      /\ FrontierOf(h, values, n + 1, s.frontier)
      /\ AllReference(s.writes, h, values) /\ CoversFull(s.writes, h, m, n + 1)
      /\ DOMAIN frontier \subseteq DOMAIN s.frontier
      /\ DOMAIN s.frontier \subseteq DOMAIN frontier \cup 0..h
  BY <1>1 DEF Added
<1>4. n = Len(values) - 1
  OBVIOUS
<1> HIDE DEF n
<1>5. \A l \in slot..(h - 1) :
        /\ RightShift(n, l) % 2 = 1 =>
             /\ l \in DOMAIN s.frontier
             /\ s.frontier[l].term = ReferenceRow(h, values)[l][RightShift(n, l) - 1]
        /\ RightShift(n, l) % 2 = 0 => n = Len(values) - 1
  BY <1>1, <1>3, <1>4, FrontierAboveSlot
<1> HIDE DEF slot
<1>6. /\ AtNode(r, h, values, n, h)
      /\ r.frontier = s.frontier
      /\ WritesOfPath(r.writes, s.writes, h, values, n, slot, h, TRUE)
  <2> DEFINE b == h
             kf == TRUE
  <2>1. b \in Nat /\ b <= h /\ slot <= b /\ r = Climb(s, slot + 1, b, kf)
    BY <1>2
  <2>2. \A l \in slot..(b - 1) :
          /\ RightShift(n, l) % 2 = 1 =>
               /\ l \in DOMAIN s.frontier
               /\ s.frontier[l].term = ReferenceRow(h, values)[l][RightShift(n, l) - 1]
          /\ RightShift(n, l) % 2 = 0 => n = Len(values) - 1
    BY <1>5
  <2> HIDE DEF b, kf, r
  <2>3. LET e == Climb(s, slot + 1, b, kf) IN
        /\ AtNode(e, h, values, n, b)
        /\ e.frontier = s.frontier
        /\ e.slot = s.slot
        /\ WritesOfPath(e.writes, s.writes, h, values, n, slot, b, kf)
    <3>1. n \in 0..(Len(values) - 1) /\ slot \in Nat /\ b \in Nat /\ slot <= b /\ b <= h
          /\ AtNode(s, h, values, n, slot) /\ IsSequence(s.writes)
      BY <1>1, <1>2, <1>3, <2>1
    <3> QED BY <2>2, <3>1, ClimbPath
  <2>4. /\ AtNode(r, h, values, n, b) /\ r.frontier = s.frontier
        /\ WritesOfPath(r.writes, s.writes, h, values, n, slot, b, kf)
    BY <2>1, <2>3
  <2> QED BY <2>4, Zenon DEF b, kf
<1> HIDE DEF r
<1>7. /\ AllReference(r.writes, h, values)
      /\ \A index : HasWrite(s.writes, index) => HasWrite(r.writes, index)
      /\ \A l \in (slot + 1)..h : HasWrite(r.writes, TwoTo[h - l] - 1 + RightShift(n, l))
  <2> DEFINE b == h
             kf == TRUE
  <2>1. kf \in BOOLEAN /\ (kf \/ RightBelow(n, b)) /\ b \in Nat /\ b <= h /\ slot <= b
    BY <1>2
  <2>2. WritesOfPath(r.writes, s.writes, h, values, n, slot, b, kf)
    BY <1>6, Zenon
  <2> HIDE DEF b, kf
  <2>3. /\ AllReference(r.writes, h, values)
        /\ \A index : HasWrite(s.writes, index) => HasWrite(r.writes, index)
        /\ \A l \in (slot + 1)..b : HasWrite(r.writes, TwoTo[h - l] - 1 + RightShift(n, l))
    BY <1>1, <1>2, <1>3, <2>1, <2>2, PathKeepsReference
  <2> QED BY <2>3 DEF b
<1>8. CoversPaths(r.writes, h, m, n)
  <2> SUFFICES ASSUME NEW l \in 1..h, NEW i \in RightShift(m, l)..RightShift(n, l)
               PROVE  HasWrite(r.writes, TwoTo[h - l] - 1 + i)
    BY DEF CoversPaths
  <2>1. l \in Nat /\ l >= 1 /\ l <= h
    OBVIOUS
  <2>2. RightShift(m, l) \in Nat /\ RightShift(n, l) \in Nat /\ RightShift(n + 1, l) \in Nat
    <3>1. n + 1 \in Nat
      BY <1>1
    <3> QED BY <1>1, <2>1, <3>1, ShiftIsNat
  <2>3. CASE i \in RightShift(m, l)..(RightShift(n + 1, l) - 1)
    BY <1>3, <1>7, <2>3 DEF CoversFull
  <2>4. CASE i \notin RightShift(m, l)..(RightShift(n + 1, l) - 1)
    <3>1. RightShift(n + 1, l) # RightShift(n, l) + 1
      BY <2>2, <2>4
    <3>2. ~RightBelow(n, l)
      BY <1>1, <2>1, <3>1, Carry
    <3>3. RightShift(n + 1, l) = RightShift(n, l)
      BY <1>1, <2>1, <3>2, Carry
    <3>4. i = RightShift(n, l)
      BY <2>2, <2>4, <3>3
    <3>5. ~(l <= slot)
      <4>1. SUFFICES ASSUME l <= slot PROVE FALSE
        OBVIOUS
      <4>2. RightBelow(n, slot)
        BY <1>1, FrontierSlot DEF slot
      <4>3. RightBelow(n, l)
        BY <1>2, <2>1, <4>1, <4>2 DEF RightBelow
      <4> QED BY <3>2, <4>3
    <3>6. l \in (slot + 1)..h
      BY <1>2, <2>1, <3>5
    <3> QED BY <1>7, <3>4, <3>6
  <2> QED BY <2>3, <2>4
<1>9. r.value = ReferenceRoot(h, values)
  <2>1. RightShift(n, h) = 0
    BY <1>1, TopColumn
  <2> QED BY <1>6, <2>1 DEF AtNode, ReferenceRoot
<1>10. r.ok = TRUE
  BY <1>6 DEF AtNode
<1>11. FrontierOf(h, values, Len(values), r.frontier)
  BY <1>1, <1>3, <1>6
<1>12. Len(r.writes) = GetNumberOfHashes(Len(values) - 1, m, h) /\ IsSequence(r.writes)
  <2>1. Len(r.writes) = Len(s.writes) + (h - slot) /\ IsSequence(r.writes)
    BY <1>6 DEF WritesOfPath
  <2>2. Len(s.writes) = Edges(n, m, h) + slot - (n - m)
    <3>1. Len(values) > m
      OBVIOUS
    <3>2. Len(s.writes) = Edges(Len(values) - 1, m, h) + s.slot - (Len(values) - 1 - m)
      BY <3>1 DEF Added
    <3> QED BY <1>3, <1>4, <3>2
  <2>3. GetNumberOfHashes(n, m, h) = Edges(n, m, h) + h - (n - m)
    BY <1>1, NumberOfHashes
  <2>4. Edges(n, m, h) \in Int
    BY <1>1, EdgesType
  <2> QED BY <1>1, <1>2, <1>4, <2>1, <2>2, <2>3, <2>4
<1>13. PlanOK(r, h, values, frontier, m)
  BY <1>3, <1>4, <1>6, <1>7, <1>8, <1>9, <1>10, <1>11, <1>12 DEF PlanOK
<1> QED BY <1>3, <1>13 DEF r

\* The recalculation is right: on a frontier that is right for the first m leaves, it
\* meets no unfilled slot, ends with the root of the whole tree and the frontier of all
\* the leaves, and writes the reference tree's nodes, all those above the new leaves.
THEOREM PlanUpdateIsReference ==
  ASSUME NEW h \in Nat, NEW values, Len(values) \in Nat, Len(values) <= TwoTo[h],
         LeafValues(values), NEW m \in 0..Len(values),
         NEW batch, Len(batch) = Len(values) - m,
         \A k \in 1..Len(batch) : batch[k] = values[m + k],
         NEW frontier, FrontierOf(h, values, m, frontier)
  PROVE  PlanOK(PlanUpdate(h, frontier, batch, m), h, values, frontier, m)
<1>1. Len(batch) \in Nat /\ m \in Nat /\ m + Len(batch) = Len(values)
  OBVIOUS
<1>2. PICK added : PlannedBy(added, h, frontier, batch, m)
  BY <1>1, PlanSteps
<1> DEFINE S == {k \in Nat : k <= Len(batch) =>
                    Added(added[k], h, values, frontier, m, m + k)}
<1>3. 0 \in S
  <2>1. Added(added[0], h, values, frontier, m, m)
    BY <1>1, <1>2, AddedStart DEF PlannedBy
  <2>2. m + 0 = m
    OBVIOUS
  <2> QED BY <2>1, <2>2
<1>4. ASSUME NEW k \in Nat, k \in S PROVE k + 1 \in S
  <2> DEFINE n == m + k
  <2>1. SUFFICES ASSUME k + 1 <= Len(batch)
                 PROVE  Added(added[k + 1], h, values, frontier, m, m + (k + 1))
    OBVIOUS
  <2>2. k + 1 \in 1..Len(batch) /\ m + (k + 1) - 1 = n /\ m + (k + 1) = n + 1
        /\ n \in 0..(Len(values) - 1) /\ m <= n
    BY <1>1, <2>1
  <2>3. Added(added[k], h, values, frontier, m, n)
    BY <1>4, <2>1
  <2>4. batch[k + 1] = values[n + 1]
    BY <2>2
  <2>5. added[k + 1] = AddLeaf(added[k], h, n, values[n + 1])
    <3>1. added[k + 1] = AddLeaf(added[(k + 1) - 1], h, m + (k + 1) - 1, batch[k + 1])
      BY <1>2, <2>2 DEF PlannedBy
    <3>2. (k + 1) - 1 = k
      OBVIOUS
    <3> HIDE DEF n
    <3> QED BY <2>2, <2>4, <3>1, <3>2
  <2> DEFINE t == added[k]
             u == added[k + 1]
  <2> HIDE DEF n, t, u
  <2>6. Added(u, h, values, frontier, m, n + 1)
    <3>1. u = AddLeaf(t, h, n, values[n + 1]) /\ Added(t, h, values, frontier, m, n)
      BY <2>3, <2>5 DEF t, u
    <3>2. Added(AddLeaf(t, h, n, values[n + 1]), h, values, frontier, m, n + 1)
      BY <1>1, <2>2, <3>1, AddedNext
    <3> QED BY <3>1, <3>2
  <2> QED BY <2>2, <2>6 DEF u
<1>5. Nat \subseteq S
  <2> HIDE DEF S
  <2> QED BY <1>3, <1>4, InductionOver
<1> DEFINE last == added[Len(batch)]
<1>6. Added(last, h, values, frontier, m, Len(values))
  BY <1>1, <1>5
<1>7. PlanUpdate(h, frontier, batch, m) = Climb(last, last.slot + 1, h, TRUE)
  <2>1. LeavesThatFit(h, batch, m) = Len(batch)
    BY <1>1, TwoToIsLarge DEF LeavesThatFit
  <2> QED BY <1>2, <2>1 DEF PlannedBy
<1>8. CASE m < Len(values)
  <2> HIDE DEF last
  <2> QED BY <1>1, <1>6, <1>7, <1>8, LastClimb
<1>9. CASE ~(m < Len(values))
  <2>1. Len(batch) = 0
    BY <1>1, <1>9
  <2>2. last = PlanStart(h, frontier)
    BY <1>2, <2>1 DEF PlannedBy
  <2> HIDE DEF last
  <2>3. last.slot = h
    BY <2>2 DEF PlanStart
  <2>4. Climb(last, h + 1, h, TRUE) = last
    <3>1. h + 1 \in Int /\ h \in Int /\ (h + 1) - 1 <= h /\ (h + 1) - 1 = h
      OBVIOUS
    <3>2. PICK turn : ClimbedBy(turn, last, h + 1, h, TRUE)
      BY <3>1, ClimbTurns
    <3> QED BY <3>1, <3>2 DEF ClimbedBy
  <2>5. PlanUpdate(h, frontier, batch, m) = last
    BY <1>7, <2>3, <2>4
  <2> QED BY <1>6, <1>9, <2>5 DEF Added, PlanOK
<1> QED BY <1>8, <1>9

---------------------------------------------------------------------------
(* The stored tree: the nodes of a document, by their place in the tree.   *)

LEMMA TwoToMonotone ==
  ASSUME NEW a \in Nat, NEW b \in Nat, a <= b
  PROVE  TwoTo[a] <= TwoTo[b]
<1> DEFINE S == {d \in Nat : TwoTo[a] <= TwoTo[a + d]}
<1>1. 0 \in S
  <2>1. a + 0 = a
    OBVIOUS
  <2> QED BY <2>1, TwoToIsLarge
<1>2. ASSUME NEW d \in Nat, d \in S PROVE d + 1 \in S
  <2>1. a + d \in Nat /\ (a + d) + 1 = a + (d + 1)
    OBVIOUS
  <2>2. TwoTo[a + (d + 1)] = 2 * TwoTo[a + d]
    BY <2>1, TwoToNext
  <2>3. TwoTo[a] \in Nat /\ TwoTo[a + d] \in Nat
    BY <2>1, TwoToIsLarge
  <2> QED BY <1>2, <2>2, <2>3
<1>3. b - a \in S
  <2> HIDE DEF S
  <2> QED BY <1>1, <1>2, InductionOver
<1>4. a + (b - a) = b
  OBVIOUS
<1> QED BY <1>3, <1>4

\* The index of the node in column i of level l.
Place(h, l, i) == TwoTo[h - l] - 1 + i

\* The columns of level l.
Columns(h, l) == 0..(TwoTo[h - l] - 1)

LEMMA PlaceIsNat ==
  ASSUME NEW h \in Nat, NEW l \in 0..h, NEW i \in Nat
  PROVE  Place(h, l, i) \in Nat
<1>1. TwoTo[h - l] \in Nat \ {0}
  BY TwoToIsLarge
<1> QED BY <1>1 DEF Place

\* A level ends before the one below begins.
LEMMA PlaceBelow ==
  ASSUME NEW h \in Nat, NEW l \in 0..h, NEW k \in 0..h, l < k,
         NEW i \in Columns(h, l), NEW j \in Columns(h, k)
  PROVE  Place(h, k, j) < Place(h, l, i)
<1>1. h - k \in Nat /\ h - l \in Nat /\ (h - k) + 1 \in Nat /\ (h - k) + 1 <= h - l
  OBVIOUS
<1>2. TwoTo[(h - k) + 1] <= TwoTo[h - l]
  BY <1>1, TwoToMonotone
<1>3. TwoTo[(h - k) + 1] = 2 * TwoTo[h - k]
  BY <1>1, TwoToNext
<1>4. TwoTo[h - k] \in Nat /\ TwoTo[h - l] \in Nat
  BY <1>1, TwoToIsLarge
<1> QED BY <1>2, <1>3, <1>4 DEF Place, Columns

\* No two nodes have the same place.
LEMMA PlaceDistinct ==
  ASSUME NEW h \in Nat, NEW l \in 0..h, NEW k \in 0..h,
         NEW i \in Columns(h, l), NEW j \in Columns(h, k),
         Place(h, l, i) = Place(h, k, j)
  PROVE  l = k /\ i = j
<1>1. Place(h, l, i) \in Nat /\ Place(h, k, j) \in Nat
  <2>1. i \in Nat /\ j \in Nat
    BY DEF Columns
  <2> QED BY <2>1, PlaceIsNat
<1>2. ~(l < k)
  BY <1>1, PlaceBelow
<1>3. ~(k < l)
  BY <1>1, PlaceBelow
<1>4. l = k
  BY <1>2, <1>3
<1>5. TwoTo[h - l] \in Nat
  BY TwoToIsLarge
<1> QED BY <1>4, <1>5 DEF Place, Columns

---------------------------------------------------------------------------
(* Storing the writes of a plan.                                           *)

\* g holds the array after each of the first m writes.
Stores(g, nodes, writes, m) ==
    g = [k \in 0..m |-> IF k = 0 THEN nodes
                        ELSE SetNode(g[k - 1], writes[k].index, InnerNode(writes[k].hash))]

LEMMA StoresExist ==
  ASSUME NEW nodes, NEW writes, NEW m \in Nat
  PROVE  \E g : Stores(g, nodes, writes, m)
<1> DEFINE S == {j \in Nat : \E g : Stores(g, nodes, writes, j)}
           W(k, old) == SetNode(old, writes[k].index, InnerNode(writes[k].hash))
<1>1. 0 \in S
  <2> DEFINE k == [j \in 0..0 |-> nodes]
  <2>1. Stores(k, nodes, writes, 0)
    BY DEF Stores
  <2> QED BY <2>1
<1>2. ASSUME NEW j \in Nat, j \in S PROVE j + 1 \in S
  <2>1. PICK g : Stores(g, nodes, writes, j)
    BY <1>2
  <2> DEFINE f == [k \in 0..(j + 1) |-> IF k = j + 1 THEN W(j + 1, g[j]) ELSE g[k]]
  <2>2. ASSUME NEW k \in 0..(j + 1)
        PROVE  f[k] = IF k = 0 THEN nodes ELSE W(k, f[k - 1])
    <3>1. CASE k = j + 1
      <4>1. k - 1 = j /\ j \in 0..(j + 1) /\ j # j + 1 /\ k # 0
        BY <3>1
      <4> HIDE DEF W
      <4> QED BY <3>1, <4>1
    <3>2. CASE k # j + 1 /\ k # 0
      <4>1. k \in 0..j /\ k - 1 \in 0..(j + 1) /\ k - 1 # j + 1
        BY <3>2
      <4>2. f[k - 1] = g[k - 1] /\ f[k] = g[k]
        BY <3>2, <4>1
      <4>3. g[k] = W(k, g[k - 1])
        BY <2>1, <3>2, <4>1 DEF Stores
      <4> HIDE DEF W
      <4> QED BY <3>2, <4>2, <4>3
    <3>3. CASE k = 0
      <4>1. k \in 0..j /\ k # j + 1
        BY <3>3
      <4>2. g[k] = nodes
        BY <2>1, <3>3, <4>1 DEF Stores
      <4> QED BY <3>3, <4>1, <4>2
    <3> QED BY <3>1, <3>2, <3>3
  <2>3. Stores(f, nodes, writes, j + 1)
    BY <2>2 DEF Stores
  <2>4. \E e : Stores(e, nodes, writes, j + 1)
    <3> HIDE DEF f
    <3> QED BY <2>3
  <2> QED BY <2>4
<1> QED BY <1>1, <1>2, InductionOver

\* r is the array after some writes: every node of it was there before and is not
\* written, or is what one of the writes stores.
StoredBy(r, nodes, writes, m) ==
    /\ \A n \in DOMAIN nodes : n \in DOMAIN r
    /\ \A k \in 1..m : writes[k].index \in DOMAIN r
    /\ \A n \in DOMAIN r :
          \/ \E k \in 1..m : writes[k].index = n /\ r[n] = InnerNode(writes[k].hash)
          \/ /\ n \in DOMAIN nodes
             /\ r[n] = nodes[n]
             /\ \A k \in 1..m : writes[k].index # n

LEMMA WriteNodesStores ==
  ASSUME NEW nodes, NEW writes, Len(writes) \in Nat
  PROVE  StoredBy(WriteNodes(nodes, writes), nodes, writes, Len(writes))
<1> DEFINE len == Len(writes)
           after == CHOOSE g : Stores(g, nodes, writes, len)
           Good(k) == StoredBy(after[k], nodes, writes, k)
           S == {k \in Nat : k <= len => Good(k)}
<1>1. Stores(after, nodes, writes, len)
  BY StoresExist
<1>2. WriteNodes(nodes, writes) = after[len]
  BY DEF WriteNodes, Stores
<1> HIDE DEF after, len
<1>0. len \in Nat
  BY DEF len
<1>3. Good(0)
  <2>1. after[0] = nodes
    BY <1>0, <1>1 DEF Stores
  <2>2. 1..0 = {}
    OBVIOUS
  <2> QED BY <2>1, <2>2 DEF StoredBy
<1>4. ASSUME NEW k \in Nat, k \in S PROVE k + 1 \in S
  <2> SUFFICES ASSUME k + 1 <= len PROVE Good(k + 1)
    OBVIOUS
  <2> DEFINE old == after[k]
             new == after[k + 1]
             w   == writes[k + 1]
  <2>1. StoredBy(old, nodes, writes, k)
    BY <1>0, <1>4
  <2>2. new = SetNode(old, w.index, InnerNode(w.hash))
    <3>1. k + 1 \in 0..len /\ k + 1 # 0 /\ (k + 1) - 1 = k
      BY <1>0
    <3> QED BY <1>1, <3>1 DEF Stores
  <2>3. 1..(k + 1) = 1..k \cup {k + 1}
    OBVIOUS
  <2> HIDE DEF old, new
  <2>4. DOMAIN new = DOMAIN old \cup {w.index} /\ new[w.index] = InnerNode(w.hash)
        /\ \A n \in DOMAIN old : n # w.index => new[n] = old[n]
    BY <2>2 DEF SetNode
  <2>5. ASSUME NEW n \in DOMAIN new
        PROVE  \/ \E e \in 1..(k + 1) : writes[e].index = n
                                        /\ new[n] = InnerNode(writes[e].hash)
               \/ /\ n \in DOMAIN nodes
                  /\ new[n] = nodes[n]
                  /\ \A e \in 1..(k + 1) : writes[e].index # n
    <3>1. CASE n = w.index
      BY <2>3, <2>4, <3>1
    <3>2. CASE n # w.index
      <4>1. n \in DOMAIN old /\ new[n] = old[n]
        BY <2>4, <3>2
      <4> QED BY <2>1, <2>3, <3>2, <4>1 DEF StoredBy
    <3> QED BY <3>1, <3>2
  <2>6. \A n \in DOMAIN nodes : n \in DOMAIN new
    BY <2>1, <2>4 DEF StoredBy
  <2>7. \A e \in 1..(k + 1) : writes[e].index \in DOMAIN new
    BY <2>1, <2>3, <2>4 DEF StoredBy
  <2>8. StoredBy(new, nodes, writes, k + 1)
    BY <2>5, <2>6, <2>7 DEF StoredBy
  <2> QED BY <2>8 DEF new
<1>5. Nat \subseteq S
  <2>1. 0 \in S
    BY <1>3
  <2> HIDE DEF S
  <2> QED BY <1>4, <2>1, InductionOver
<1>6. Good(len)
  BY <1>0, <1>5
<1> QED BY <1>2, <1>6 DEF len

\* No write, and one write more.
LEMMA WriteNothing ==
  ASSUME NEW nodes
  PROVE  WriteNodes(nodes, <<>>) = nodes
<1> DEFINE after == CHOOSE g : Stores(g, nodes, <<>>, 0)
<1>1. Stores(after, nodes, <<>>, 0)
  BY StoresExist
<1>2. WriteNodes(nodes, <<>>) = after[0]
  <2>1. Len(<<>>) = 0
    OBVIOUS
  <2> QED BY <2>1 DEF WriteNodes, Stores
<1> HIDE DEF after
<1> QED BY <1>1, <1>2 DEF Stores

LEMMA WriteFirst ==
  ASSUME NEW nodes, NEW writes, IsSequence(writes), writes # <<>>
  PROVE  WriteNodes(SetNode(nodes, Head(writes).index, InnerNode(Head(writes).hash)),
                    Tail(writes))
            = WriteNodes(nodes, writes)
<1> DEFINE len == Len(writes)
           rest == Tail(writes)
           one == SetNode(nodes, Head(writes).index, InnerNode(Head(writes).hash))
           all == CHOOSE g : Stores(g, nodes, writes, len)
           others == CHOOSE g : Stores(g, one, rest, len - 1)
           S == {k \in Nat : k <= len - 1 => others[k] = all[k + 1]}
<1>1. /\ len \in Nat /\ len > 0 /\ Len(rest) = len - 1 /\ Head(writes) = writes[1]
      /\ \A k \in 1..(len - 1) : rest[k] = writes[k + 1]
  <2>1. PICK T : writes \in Seq(T)
    BY DEF IsSequence
  <2> QED BY <2>1
<1>2. Stores(all, nodes, writes, len) /\ Stores(others, one, rest, len - 1)
  <2>1. len - 1 \in Nat
    BY <1>1
  <2> HIDE DEF len, rest, one
  <2> QED BY <1>1, <2>1, StoresExist
<1>3. WriteNodes(nodes, writes) = all[len]
  BY DEF WriteNodes, Stores
<1>4. WriteNodes(one, rest) = others[len - 1]
  <2> DEFINE o == CHOOSE g : Stores(g, one, rest, Len(rest))
  <2>1. WriteNodes(one, rest) = o[Len(rest)]
    <3> HIDE DEF one, rest
    <3> QED BY DEF WriteNodes, Stores
  <2> HIDE DEF one, rest, len
  <2> QED BY <1>1, <2>1
<1> HIDE DEF all, others
<1>5. 0 \in S
  <2>1. 0 \in 0..(len - 1) /\ 0 \in 0..len /\ 1 \in 0..len /\ 1 # 0 /\ 1 - 1 = 0
    BY <1>1
  <2>2. others[0] = one
    <3> HIDE DEF one, rest, len
    <3> QED BY <1>2, <2>1 DEF Stores
  <2>3. all[0] = nodes /\ all[1] = SetNode(all[0], writes[1].index, InnerNode(writes[1].hash))
    <3> HIDE DEF len
    <3> QED BY <1>2, <2>1 DEF Stores
  <2>4. all[1] = one
    BY <1>1, <2>3
  <2> HIDE DEF one
  <2> QED BY <2>2, <2>4
<1>6. ASSUME NEW k \in Nat, k \in S PROVE k + 1 \in S
  <2> SUFFICES ASSUME k + 1 <= len - 1 PROVE others[k + 1] = all[(k + 1) + 1]
    OBVIOUS
  <2> HIDE DEF one, rest, len
  <2>1. /\ k + 1 \in 0..(len - 1) /\ k + 1 # 0 /\ (k + 1) - 1 = k
        /\ (k + 1) + 1 \in 0..len /\ (k + 1) + 1 # 0 /\ ((k + 1) + 1) - 1 = k + 1
        /\ k + 1 \in 1..(len - 1)
    BY <1>1
  <2>2. others[k] = all[k + 1]
    BY <1>1, <1>6
  <2>3. others[k + 1] = SetNode(others[k], rest[k + 1].index, InnerNode(rest[k + 1].hash))
    BY <1>2, <2>1 DEF Stores
  <2>4. all[(k + 1) + 1] = SetNode(all[k + 1], writes[(k + 1) + 1].index,
                                   InnerNode(writes[(k + 1) + 1].hash))
    BY <1>2, <2>1 DEF Stores
  <2>5. rest[k + 1] = writes[(k + 1) + 1]
    BY <1>1, <2>1
  <2> QED BY <2>2, <2>3, <2>4, <2>5
<1>7. len - 1 \in S
  <2>1. Nat \subseteq S
    <3> HIDE DEF S
    <3> QED BY <1>5, <1>6, InductionOver
  <2> HIDE DEF S
  <2> QED BY <1>1, <2>1
<1>8. others[len - 1] = all[(len - 1) + 1] /\ (len - 1) + 1 = len
  BY <1>1, <1>7
<1> QED BY <1>3, <1>4, <1>8

---------------------------------------------------------------------------
(* The document of a tree: its inner nodes are those of the whole tree over *)
(* the leaves that are hashed, and its leaves are the first s commitments.  *)

\* The node on level l, column i is the one of the whole tree over these values, if it
\* is there at all, and it is there if one of the values is under it.
InnerReference(h, nodes, values) ==
    /\ \A l \in 1..h : \A i \in Columns(h, l) :
          /\ i <= RightShift(Len(values) - 1, l) => Place(h, l, i) \in DOMAIN nodes
          /\ Place(h, l, i) \in DOMAIN nodes =>
                nodes[Place(h, l, i)].hash.term = ReferenceRow(h, values)[l][i]
    /\ (Len(values) > 0 /\ Len(values) < TwoTo[h]) =>
          nodes[0].hash = ReferenceRoot(h, values)

\* The first s leaves are stored, and nothing else looks like a leaf.
LeavesStored(h, nodes, s) ==
    /\ \A i \in 0..(s - 1) : /\ Place(h, 0, i) \in DOMAIN nodes
                             /\ nodes[Place(h, 0, i)] = LeafNode(i)
    /\ \A i \in Columns(h, 0) : Place(h, 0, i) \in DOMAIN nodes => i < s
    /\ \A n \in DOMAIN nodes :
          nodes[n].leafIndex = NotALeaf \/ \E i \in 0..(s - 1) : n = Place(h, 0, i)

\* The root node is there as soon as there is a value.
LEMMA InnerReferenceHasRoot ==
  ASSUME NEW h \in Nat, h > 0, NEW nodes, NEW values, Len(values) \in Nat,
         Len(values) > 0, Len(values) <= TwoTo[h], InnerReference(h, nodes, values)
  PROVE  0 \in DOMAIN nodes
<1>1. TwoTo[h] \in Nat /\ h - h = 0
  BY TwoToIsLarge
<1>2. Len(values) - 1 \in Nat /\ Len(values) - 1 < TwoTo[h]
  BY <1>1
<1>3. 0 <= RightShift(Len(values) - 1, h)
  BY <1>2, TopColumn
<1>4. Place(h, h, 0) = 0 /\ 0 \in Columns(h, h) /\ h \in 1..h
  BY <1>1, TwoToZero DEF Place, Columns
<1> QED BY <1>3, <1>4 DEF InnerReference

\* The place of a write of a plan, and what is written there.
LEMMA ReferenceWriteAt ==
  ASSUME NEW h \in Nat, NEW values, NEW w, ReferenceWrite(w, h, values),
         NEW l \in 0..h, NEW i \in Columns(h, l), w.index = Place(h, l, i)
  PROVE  /\ l # 0
         /\ InnerNode(w.hash).hash.term = ReferenceRow(h, values)[l][i]
         /\ (l = h /\ Len(values) < TwoTo[h]) =>
               InnerNode(w.hash).hash = ReferenceRoot(h, values)
<1>0. PICK k \in 1..h : \E j \in 0..(TwoTo[h - k] - 1) :
        /\ w.index = TwoTo[h - k] - 1 + j
        /\ w.hash.term = ReferenceRow(h, values)[k][j]
        /\ (k = h /\ Len(values) < TwoTo[h]) => w.hash = ReferenceRoot(h, values)
  BY DEF ReferenceWrite
<1>1. PICK j \in 0..(TwoTo[h - k] - 1) :
        /\ w.index = TwoTo[h - k] - 1 + j
        /\ w.hash.term = ReferenceRow(h, values)[k][j]
        /\ (k = h /\ Len(values) < TwoTo[h]) => w.hash = ReferenceRoot(h, values)
  BY <1>0
<1>2. k \in 0..h /\ j \in Columns(h, k) /\ w.index = Place(h, k, j)
  BY <1>1 DEF Place, Columns
<1>3. l = k /\ i = j
  BY <1>2, PlaceDistinct
<1>4. InnerNode(w.hash).hash = w.hash
  BY DEF InnerNode
<1> QED BY <1>1, <1>3, <1>4

\* The columns up to the one of leaf m - 1 are those before the one of leaf m and that
\* one at most.
LEMMA ColumnsBefore ==
  ASSUME NEW m \in Nat, NEW l \in Nat
  PROVE  /\ RightShift(m, l) \in Nat
         /\ RightShift(m - 1, l) \in Int
         /\ RightShift(m - 1, l) <= RightShift(m, l)
         /\ RightShift(m, l) <= RightShift(m - 1, l) + 1
<1>1. m - 1 \in Int /\ (m - 1) + 1 = m /\ m - 1 <= m /\ m \in Int
  OBVIOUS
<1>2. RightShift((m - 1) + 1, l) <= RightShift(m - 1, l) + 1
  BY <1>1, ShiftOfNeighbour
<1>3. RightShift(m - 1, l) <= RightShift(m, l)
  BY <1>1, ShiftMonotone
<1> QED BY <1>1, <1>2, <1>3, ShiftIsNat, ShiftType

\* A node all of whose leaves are in a is the same in a tree over more leaves.
LEMMA SameBefore ==
  ASSUME NEW h \in Nat, NEW a, NEW b, Len(a) \in Nat, Len(b) \in Nat,
         Len(a) < Len(b), Len(b) <= TwoTo[h], \A k \in 1..Len(a) : a[k] = b[k],
         NEW l \in 0..h, NEW i \in Nat, i < RightShift(Len(a), l)
  PROVE  ReferenceRow(h, a)[l][i] = ReferenceRow(h, b)[l][i]
<1> DEFINE m == Len(a)
<1>1. TwoTo[h] \in Nat
  BY TwoToIsLarge
<1>2. m \in Nat /\ m <= Len(a) /\ m <= Len(b) /\ m <= TwoTo[h]
  BY <1>1
<1>3. \A k \in 1..m : a[k] = b[k]
  OBVIOUS
<1>4. i < RightShift(m, l)
  OBVIOUS
<1> HIDE DEF m
<1> QED BY SMTT(30), <1>2, <1>3, <1>4, FullSubtree

\* What a recalculation of b finds that was begun after the one of a, and may have been cut
\* off: the nodes that a fills are right, and what no leaf of b is under is empty.
PartReference(h, nodes, a, b) ==
    \A l \in 1..h : \A i \in Columns(h, l) :
        /\ i < RightShift(Len(a), l) =>
              /\ Place(h, l, i) \in DOMAIN nodes
              /\ nodes[Place(h, l, i)].hash.term = ReferenceRow(h, a)[l][i]
        /\ (i > RightShift(Len(b) - 1, l) /\ Place(h, l, i) \in DOMAIN nodes) =>
              nodes[Place(h, l, i)].hash.term = <<>>

LEMMA ReferenceIsPart ==
  ASSUME NEW h \in Nat, NEW a, NEW b, Len(a) \in Nat, Len(b) \in Nat, Len(a) <= Len(b),
         NEW nodes, InnerReference(h, nodes, a)
  PROVE  PartReference(h, nodes, a, b)
<1> SUFFICES ASSUME NEW l \in 1..h, NEW i \in Columns(h, l)
             PROVE  /\ i < RightShift(Len(a), l) =>
                          /\ Place(h, l, i) \in DOMAIN nodes
                          /\ nodes[Place(h, l, i)].hash.term = ReferenceRow(h, a)[l][i]
                    /\ (i > RightShift(Len(b) - 1, l) /\ Place(h, l, i) \in DOMAIN nodes) =>
                          nodes[Place(h, l, i)].hash.term = <<>>
  BY DEF PartReference
<1>1. l \in Nat /\ l \in 0..h /\ i \in Nat /\ Len(a) - 1 \in Int /\ Len(b) - 1 \in Int
      /\ Len(a) - 1 <= Len(b) - 1
  BY DEF Columns
<1>2. /\ RightShift(Len(a), l) \in Nat /\ RightShift(Len(a) - 1, l) \in Int
      /\ RightShift(Len(a), l) <= RightShift(Len(a) - 1, l) + 1
  BY <1>1, ColumnsBefore
<1>3. RightShift(Len(a) - 1, l) <= RightShift(Len(b) - 1, l)
      /\ RightShift(Len(b) - 1, l) \in Int
  BY <1>1, ShiftMonotone, ShiftType
<1>4. i < RightShift(Len(a), l) => i <= RightShift(Len(a) - 1, l)
  BY <1>1, <1>2
<1>5. ASSUME i > RightShift(Len(b) - 1, l), Place(h, l, i) \in DOMAIN nodes
      PROVE  nodes[Place(h, l, i)].hash.term = <<>>
  <2>1. i > RightShift(Len(a) - 1, l)
    BY <1>1, <1>2, <1>3, <1>5
  <2>2. ReferenceRow(h, a)[l][i] = <<>>
    BY <1>1, <2>1, ReferenceZero DEF Columns
  <2> QED BY <1>5, <2>2 DEF InnerReference
<1> QED BY <1>4, <1>5 DEF InnerReference

\* A leaf more is not an obstacle.
LEMMA PartOfMore ==
  ASSUME NEW h \in Nat, NEW a, NEW b, NEW c, Len(b) \in Nat, Len(c) \in Nat,
         Len(b) <= Len(c), NEW nodes, PartReference(h, nodes, a, b)
  PROVE  PartReference(h, nodes, a, c)
<1>1. ASSUME NEW l \in 1..h, NEW i \in Columns(h, l), i > RightShift(Len(c) - 1, l)
      PROVE  i > RightShift(Len(b) - 1, l)
  <2>1. l \in Nat /\ i \in Nat /\ Len(b) - 1 \in Int /\ Len(c) - 1 \in Int
        /\ Len(b) - 1 <= Len(c) - 1
    BY DEF Columns
  <2>2. RightShift(Len(b) - 1, l) <= RightShift(Len(c) - 1, l)
        /\ RightShift(Len(b) - 1, l) \in Int /\ RightShift(Len(c) - 1, l) \in Int
    BY <2>1, ShiftMonotone, ShiftType
  <2> QED BY <1>1, <2>1, <2>2
<1> QED BY <1>1 DEF PartReference

\* The node of a write is right for every tree of fewer leaves that fills it.
LEMMA PartWrite ==
  ASSUME NEW h \in Nat, NEW a, NEW b, Len(a) \in Nat, Len(b) \in Nat,
         Len(a) < Len(b), Len(b) <= TwoTo[h], \A k \in 1..Len(a) : a[k] = b[k],
         NEW nodes, PartReference(h, nodes, a, b), NEW w, ReferenceWrite(w, h, b)
  PROVE  PartReference(h, SetNode(nodes, w.index, InnerNode(w.hash)), a, b)
<1> DEFINE new == SetNode(nodes, w.index, InnerNode(w.hash))
<1>1. /\ DOMAIN new = DOMAIN nodes \cup {w.index} /\ new[w.index] = InnerNode(w.hash)
      /\ \A e \in DOMAIN nodes : e # w.index => new[e] = nodes[e]
  BY DEF SetNode
<1> HIDE DEF new
<1>2. ASSUME NEW l \in 1..h, NEW i \in Columns(h, l)
      PROVE  /\ i < RightShift(Len(a), l) =>
                   /\ Place(h, l, i) \in DOMAIN new
                   /\ new[Place(h, l, i)].hash.term = ReferenceRow(h, a)[l][i]
             /\ (i > RightShift(Len(b) - 1, l) /\ Place(h, l, i) \in DOMAIN new) =>
                   new[Place(h, l, i)].hash.term = <<>>
  <2>1. l \in 0..h /\ i \in Nat
    BY DEF Columns
  <2>2. CASE Place(h, l, i) = w.index
    <3>1. InnerNode(w.hash).hash.term = ReferenceRow(h, b)[l][i]
      BY <2>1, <2>2, ReferenceWriteAt
    <3>2. i < RightShift(Len(a), l) => ReferenceRow(h, a)[l][i] = ReferenceRow(h, b)[l][i]
      BY <2>1, SameBefore
    <3>3. i > RightShift(Len(b) - 1, l) => ReferenceRow(h, b)[l][i] = <<>>
      BY <2>1, ReferenceZero DEF Columns
    <3> QED BY <1>1, <2>2, <3>1, <3>2, <3>3
  <2>3. CASE Place(h, l, i) # w.index
    BY <1>1, <2>3 DEF PartReference
  <2> QED BY <2>2, <2>3
<1>3. PartReference(h, new, a, b)
  BY <1>2 DEF PartReference
<1> QED BY <1>3 DEF new

\* Storing a plan for the leaves from Len(a) on, also after a plan that was cut off.
LEMMA WritingCompletes ==
  ASSUME NEW h \in Nat, NEW a, NEW b, Len(a) \in Nat, Len(b) \in Nat,
         Len(a) < Len(b), Len(b) <= TwoTo[h], \A k \in 1..Len(a) : a[k] = b[k],
         NEW nodes, PartReference(h, nodes, a, b),
         NEW writes, Len(writes) \in Nat, AllReference(writes, h, b),
         CoversPaths(writes, h, Len(a), Len(b) - 1), h > 0
  PROVE  InnerReference(h, WriteNodes(nodes, writes), b)
<1>0. \A l \in 0..h : \A i \in Nat :
         i < RightShift(Len(a), l) => ReferenceRow(h, a)[l][i] = ReferenceRow(h, b)[l][i]
  <2> SUFFICES ASSUME NEW l \in 0..h, NEW i \in Nat, i < RightShift(Len(a), l)
               PROVE  ReferenceRow(h, a)[l][i] = ReferenceRow(h, b)[l][i]
    OBVIOUS
  <2>1. /\ h \in Nat /\ Len(a) \in Nat /\ Len(b) \in Nat /\ Len(a) < Len(b)
        /\ Len(b) <= TwoTo[h] /\ \A k \in 1..Len(a) : a[k] = b[k]
        /\ l \in 0..h /\ i \in Nat /\ i < RightShift(Len(a), l)
    OBVIOUS
  <2> QED BY ONLY <2>1, SameBefore
<1> DEFINE new == WriteNodes(nodes, writes)
           m == Len(a)
           s == Len(b)
<1>1. StoredBy(new, nodes, writes, Len(writes))
  BY WriteNodesStores
<1> HIDE DEF new
<1>2. ASSUME NEW l \in 1..h, NEW i \in Columns(h, l)
      PROVE  /\ i <= RightShift(s - 1, l) => Place(h, l, i) \in DOMAIN new
             /\ Place(h, l, i) \in DOMAIN new =>
                   new[Place(h, l, i)].hash.term = ReferenceRow(h, b)[l][i]
             /\ l = h /\ i = 0 /\ Len(b) < TwoTo[h] =>
                   new[Place(h, l, i)].hash = ReferenceRoot(h, b)
  <2> DEFINE n == Place(h, l, i)
             c == RightShift(m, l)
  <2>1. l \in Nat /\ i \in Nat /\ m \in Nat /\ s - 1 \in Nat /\ m <= s - 1 /\ l \in 0..h
    BY DEF Columns
  <2>2. c \in Nat /\ RightShift(s - 1, l) \in Nat /\ c <= RightShift(s - 1, l)
    BY <2>1, ShiftMonotone, ShiftIsNat
  <2>3. CASE i \in c..RightShift(s - 1, l)
    <3>1. PICK k \in 1..Len(writes) : writes[k].index = n
      BY <2>3 DEF CoversPaths, HasWrite, Place
    <3>2. n \in DOMAIN new
      BY <1>1, <3>1 DEF StoredBy
    <3>3. PICK e \in 1..Len(writes) : writes[e].index = n
                                      /\ new[n] = InnerNode(writes[e].hash)
      BY <1>1, <3>1, <3>2 DEF StoredBy
    <3>4. ReferenceWrite(writes[e], h, b)
      BY DEF AllReference
    <3> DEFINE w == writes[e]
    <3>5. w.index = Place(h, l, i) /\ new[n] = InnerNode(w.hash) /\ ReferenceWrite(w, h, b)
      BY <3>3, <3>4
    <3> HIDE DEF w
    <3>6. /\ InnerNode(w.hash).hash.term = ReferenceRow(h, b)[l][i]
          /\ (l = h /\ Len(b) < TwoTo[h]) => InnerNode(w.hash).hash = ReferenceRoot(h, b)
      BY <2>1, <3>5, ReferenceWriteAt
    <3> QED BY <3>2, <3>5, <3>6
  <2>4. CASE i \notin c..RightShift(s - 1, l)
    <3>1. i < c \/ i > RightShift(s - 1, l)
      BY <2>1, <2>2, <2>4
    <3>2. n \in DOMAIN nodes => nodes[n].hash.term = ReferenceRow(h, b)[l][i]
      <4>1. CASE i < c
        <5>1. ReferenceRow(h, a)[l][i] = ReferenceRow(h, b)[l][i]
          BY <1>0, <2>1, <4>1
        <5> QED BY <4>1, <5>1 DEF PartReference
      <4>2. CASE i > RightShift(s - 1, l)
        <5>1. ReferenceRow(h, b)[l][i] = <<>>
          BY <2>1, <4>2, ReferenceZero DEF Columns
        <5> QED BY <4>2, <5>1 DEF PartReference
      <4> QED BY <3>1, <4>1, <4>2
    <3>3. i <= RightShift(s - 1, l) => n \in DOMAIN new
      <4>1. SUFFICES ASSUME i < c PROVE n \in DOMAIN new
        BY <2>1, <2>2, <3>1
      <4>2. n \in DOMAIN nodes
        BY <4>1 DEF PartReference
      <4> QED BY <1>1, <4>2 DEF StoredBy
    <3>4. n \in DOMAIN new => new[n].hash.term = ReferenceRow(h, b)[l][i]
      <4> SUFFICES ASSUME n \in DOMAIN new
                   PROVE  new[n].hash.term = ReferenceRow(h, b)[l][i]
        OBVIOUS
      <4>1. CASE \E e \in 1..Len(writes) : writes[e].index = n
                                           /\ new[n] = InnerNode(writes[e].hash)
        <5>1. PICK e \in 1..Len(writes) : writes[e].index = n
                                          /\ new[n] = InnerNode(writes[e].hash)
          BY <4>1
        <5> DEFINE w == writes[e]
        <5>2. w.index = Place(h, l, i) /\ new[n] = InnerNode(w.hash)
              /\ ReferenceWrite(w, h, b)
          BY <5>1 DEF AllReference
        <5> HIDE DEF w
        <5>3. InnerNode(w.hash).hash.term = ReferenceRow(h, b)[l][i]
          BY <2>1, <5>2, ReferenceWriteAt
        <5> QED BY <5>2, <5>3
      <4>2. CASE n \in DOMAIN nodes /\ new[n] = nodes[n]
        BY <3>2, <4>2
      <4> QED BY <1>1, <4>1, <4>2 DEF StoredBy
    <3>5. ~(l = h /\ i = 0)
      <4>1. m < TwoTo[h] /\ s - 1 < TwoTo[h]
        <5>1. TwoTo[h] \in Nat
          BY TwoToIsLarge
        <5> QED BY <5>1
      <4>2. RightShift(m, h) = 0 /\ RightShift(s - 1, h) = 0
        BY <2>1, <4>1, TopColumn
      <4> QED BY <2>4, <4>2
    <3> QED BY <3>3, <3>4, <3>5
  <2> QED BY <2>3, <2>4
<1>3. Place(h, h, 0) = 0 /\ h \in 1..h /\ 0 \in Columns(h, h)
  <2>1. h - h = 0
    OBVIOUS
  <2> QED BY <2>1, TwoToZero DEF Place, Columns
<1>4. s > 0 /\ s < TwoTo[h] => new[0].hash = ReferenceRoot(h, b)
  BY <1>2, <1>3
<1>5. InnerReference(h, new, b)
  BY <1>2, <1>4 DEF InnerReference
<1> QED BY <1>5 DEF new

\* Storing the plan for the leaves from Len(a) on, in the whole tree of a.
LEMMA WritingKeepsReference ==
  ASSUME NEW h \in Nat, NEW a, NEW b, Len(a) \in Nat, Len(b) \in Nat,
         Len(a) < Len(b), Len(b) <= TwoTo[h], \A k \in 1..Len(a) : a[k] = b[k],
         NEW nodes, InnerReference(h, nodes, a),
         NEW writes, Len(writes) \in Nat, AllReference(writes, h, b),
         CoversPaths(writes, h, Len(a), Len(b) - 1), h > 0
  PROVE  InnerReference(h, WriteNodes(nodes, writes), b)
<1>1. PartReference(h, nodes, a, b)
  BY ReferenceIsPart
<1> QED BY <1>1, WritingCompletes

\* Storing a plan leaves the leaves alone.
LEMMA WritingKeepsLeaves ==
  ASSUME NEW h \in Nat, NEW values, NEW s \in Nat, s <= TwoTo[h],
         NEW nodes, LeavesStored(h, nodes, s),
         NEW writes, Len(writes) \in Nat, AllReference(writes, h, values)
  PROVE  LeavesStored(h, WriteNodes(nodes, writes), s)
<1> DEFINE new == WriteNodes(nodes, writes)
<1>1. StoredBy(new, nodes, writes, Len(writes))
  BY WriteNodesStores
<1> HIDE DEF new
<1>2. ASSUME NEW i \in Columns(h, 0), NEW e \in 1..Len(writes),
             writes[e].index = Place(h, 0, i)
      PROVE  FALSE
  <2> DEFINE w == writes[e]
  <2>1. w.index = Place(h, 0, i) /\ ReferenceWrite(w, h, values) /\ 0 \in 0..h
    BY <1>2 DEF AllReference
  <2> HIDE DEF w
  <2> QED BY <2>1, ReferenceWriteAt
<1>3. ASSUME NEW i \in 0..(s - 1)
      PROVE  Place(h, 0, i) \in DOMAIN new /\ new[Place(h, 0, i)] = LeafNode(i)
  <2>1. i \in Columns(h, 0)
    <3>1. TwoTo[h] \in Nat /\ h - 0 = h
      BY TwoToIsLarge
    <3> QED BY <3>1 DEF Columns
  <2>2. Place(h, 0, i) \in DOMAIN nodes /\ nodes[Place(h, 0, i)] = LeafNode(i)
    BY DEF LeavesStored
  <2>3. Place(h, 0, i) \in DOMAIN new
    BY <1>1, <2>2 DEF StoredBy
  <2> QED BY <1>1, <1>2, <2>1, <2>2, <2>3 DEF StoredBy
<1>4. ASSUME NEW i \in Columns(h, 0), Place(h, 0, i) \in DOMAIN new
      PROVE  i < s
  <2>1. Place(h, 0, i) \in DOMAIN nodes
    BY <1>1, <1>2, <1>4 DEF StoredBy
  <2> QED BY <2>1 DEF LeavesStored
<1>5. ASSUME NEW n \in DOMAIN new
      PROVE  new[n].leafIndex = NotALeaf \/ \E i \in 0..(s - 1) : n = Place(h, 0, i)
  <2>1. CASE \E e \in 1..Len(writes) : new[n] = InnerNode(writes[e].hash)
    BY <2>1 DEF InnerNode
  <2>2. CASE n \in DOMAIN nodes /\ new[n] = nodes[n]
    BY <2>2 DEF LeavesStored
  <2> QED BY <1>1, <2>1, <2>2 DEF StoredBy
<1>6. LeavesStored(h, new, s)
  BY <1>3, <1>4, <1>5 DEF LeavesStored
<1> QED BY <1>6 DEF new

\* The range read finds the leaves from `from` to `max`, in order, whatever else is stored.
LEMMA SegmentOfLeaves ==
  ASSUME NEW h \in Nat, NEW s \in Nat, NEW nodes, LeavesStored(h, nodes, s),
         NEW max \in Int, -1 <= max, max < s, NEW from \in Nat, from <= max + 1
  PROVE  LET found == LeavesOfSegment(nodes, from, max) IN
         /\ DOMAIN found = 1..(max + 1 - from)
         /\ Len(found) = max + 1 - from
         /\ \A k \in 1..(max + 1 - from) : found[k] = LeafNode(from + k - 1)
<1> DEFINE hits == {n \in DOMAIN nodes : nodes[n].leafIndex \in from..max
                                          /\ nodes[n].leafIndex # NotALeaf}
           before(n) == {m \in hits : m < n}
           found == LeavesOfSegment(nodes, from, max)
           lo == Place(h, 0, from)
           len == max + 1 - from
<1>1. lo \in Nat /\ len \in Nat
  <2>1. 0 \in 0..h /\ from \in Nat /\ len \in Nat
    OBVIOUS
  <2>2. Place(h, 0, from) \in Nat
    BY <2>1, PlaceIsNat
  <2> QED BY <2>1, <2>2
<1>2. \A i \in Nat : Place(h, 0, i) = lo + (i - from)
  <2>1. TwoTo[h - 0] \in Nat
    BY TwoToIsLarge
  <2> QED BY <2>1 DEF Place
<1>3. \A n : n \in hits <=> n \in lo..(lo + len - 1)
  <2> SUFFICES ASSUME NEW n PROVE n \in hits <=> n \in lo..(lo + len - 1)
    OBVIOUS
  <2>1. ASSUME n \in hits PROVE n \in lo..(lo + len - 1)
    <3>1. PICK i \in 0..(s - 1) : n = Place(h, 0, i)
      BY <2>1 DEF LeavesStored
    <3>2. nodes[n].leafIndex = i
      <4>1. nodes[n] = LeafNode(i)
        BY <3>1 DEF LeavesStored
      <4> QED BY <4>1 DEF LeafNode
    <3>3. i \in from..max /\ n = lo + (i - from)
      BY <1>2, <2>1, <3>1, <3>2
    <3> HIDE DEF lo
    <3> QED BY <1>1, <3>3
  <2>2. ASSUME n \in lo..(lo + len - 1) PROVE n \in hits
    <3> DEFINE i == from + (n - lo)
    <3>1. i \in 0..(s - 1) /\ i \in from..max /\ n = lo + (i - from) /\ i \in Nat
      <4> HIDE DEF lo
      <4> QED BY <1>1, <2>2
    <3> HIDE DEF i
    <3>2. n = Place(h, 0, i)
      BY <1>2, <3>1
    <3>3. n \in DOMAIN nodes /\ nodes[n].leafIndex = i
      <4>1. n \in DOMAIN nodes /\ nodes[n] = LeafNode(i)
        BY <3>1, <3>2 DEF LeavesStored
      <4> QED BY <4>1 DEF LeafNode
    <3>4. i # NotALeaf
      BY <3>1 DEF NotALeaf
    <3> QED BY <3>1, <3>3, <3>4
  <2> QED BY <2>1, <2>2
<1>4. hits = lo..(lo + len - 1)
  <2> HIDE DEF hits, lo
  <2> QED BY <1>3
<1>5. found = [k \in 1..Cardinality(hits) |->
                  nodes[CHOOSE n \in hits : Cardinality(before(n)) = k - 1]]
  BY DEF LeavesOfSegment
<1> HIDE DEF hits, found, lo, len
<1>6. Cardinality(hits) = len
  <2>1. lo \in Int /\ lo + len - 1 \in Int
    BY <1>1
  <2>2. Cardinality(lo..(lo + len - 1)) =
           IF lo > lo + len - 1 THEN 0 ELSE (lo + len - 1) - lo + 1
    BY <2>1, FS_Interval
  <2> QED BY <1>1, <1>4, <2>2
<1>7. \A n \in hits : Cardinality(before(n)) = n - lo
  <2> SUFFICES ASSUME NEW n \in hits PROVE Cardinality(before(n)) = n - lo
    OBVIOUS
  <2>1. n \in lo..(lo + len - 1) /\ n \in Int /\ n - 1 \in Int /\ lo \in Int
    BY <1>1, <1>4
  <2>2. before(n) = lo..(n - 1)
    BY <1>1, <1>4, <2>1
  <2>3. Cardinality(lo..(n - 1)) = IF lo > n - 1 THEN 0 ELSE (n - 1) - lo + 1
    BY <2>1, FS_Interval
  <2> HIDE DEF before
  <2> QED BY <2>1, <2>2, <2>3
<1> HIDE DEF before
<1>8. ASSUME NEW k \in 1..len PROVE found[k] = LeafNode(from + k - 1)
  <2> DEFINE n == CHOOSE e \in hits : Cardinality(before(e)) = k - 1
             i == from + k - 1
  <2>1. lo + (k - 1) \in hits
    BY <1>1, <1>4
  <2>2. Cardinality(before(lo + (k - 1))) = k - 1
    <3>1. (lo + (k - 1)) - lo = k - 1
      BY <1>1
    <3> QED BY <1>7, <2>1, <3>1
  <2>3. n \in hits /\ Cardinality(before(n)) = k - 1
    BY <2>1, <2>2
  <2>4. found[k] = nodes[n]
    BY <1>5, <1>6
  <2> HIDE DEF n
  <2>5. n = lo + (k - 1)
    <3>1. n - lo = k - 1 /\ n \in lo..(lo + len - 1)
      BY <1>4, <1>7, <2>3
    <3> QED BY <1>1, <3>1
  <2>6. i \in 0..(s - 1) /\ i \in Nat /\ i - from = k - 1
    BY DEF len
  <2> HIDE DEF i
  <2>7. n = Place(h, 0, i)
    BY <1>2, <2>5, <2>6
  <2>8. nodes[n] = LeafNode(i)
    BY <2>6, <2>7 DEF LeavesStored
  <2> QED BY <2>4, <2>8 DEF i
<1>9. DOMAIN found = 1..len
  BY <1>5, <1>6
<1>10. Len(found) = len
  BY <1>1, <1>5, <1>6
<1> QED BY <1>8, <1>9, <1>10 DEF found, len

\* A new leaf, after the s that are stored.
LEMMA LeafKeepsTree ==
  ASSUME NEW h \in Nat, NEW s \in Nat, s < TwoTo[h], NEW nodes, LeavesStored(h, nodes, s),
         NEW values, Len(values) \in Nat, InnerReference(h, nodes, values), h > 0
  PROVE  LET new == SetNode(nodes, LeafIndexToNodeIndex(h, s), LeafNode(s)) IN
         /\ LeavesStored(h, new, s + 1)
         /\ InnerReference(h, new, values)
<1> DEFINE n == Place(h, 0, s)
           new == SetNode(nodes, LeafIndexToNodeIndex(h, s), LeafNode(s))
<1>1. n = LeafIndexToNodeIndex(h, s) /\ 0 \in 0..h /\ s \in Columns(h, 0)
  <2>1. TwoTo[h] \in Nat /\ h - 0 = h
    BY TwoToIsLarge
  <2> QED BY <2>1 DEF Place, LeafIndexToNodeIndex, Columns
<1>2. DOMAIN new = DOMAIN nodes \cup {n} /\ new[n] = LeafNode(s)
      /\ \A e \in DOMAIN nodes : e # n => new[e] = nodes[e]
  BY <1>1 DEF SetNode
<1> HIDE DEF new
<1>3. \A l \in 0..h : \A i \in Columns(h, l) : Place(h, l, i) = n => l = 0 /\ i = s
  <2> HIDE DEF n
  <2> SUFFICES ASSUME NEW l \in 0..h, NEW i \in Columns(h, l), Place(h, l, i) = n
               PROVE  l = 0 /\ i = s
    OBVIOUS
  <2> QED BY <1>1, PlaceDistinct DEF n
<1> HIDE DEF n
<1>4. LeavesStored(h, new, s + 1)
  <2>1. ASSUME NEW i \in 0..((s + 1) - 1)
        PROVE  Place(h, 0, i) \in DOMAIN new /\ new[Place(h, 0, i)] = LeafNode(i)
    <3>1. CASE i = s
      BY <1>2, <3>1 DEF n
    <3>2. CASE i # s
      <4>1. i \in 0..(s - 1) /\ i \in Columns(h, 0)
        <5>1. TwoTo[h] \in Nat /\ h - 0 = h
          BY TwoToIsLarge
        <5> QED BY <3>2, <5>1 DEF Columns
      <4>2. Place(h, 0, i) \in DOMAIN nodes /\ nodes[Place(h, 0, i)] = LeafNode(i)
        BY <4>1 DEF LeavesStored
      <4>3. Place(h, 0, i) # n
        BY <1>1, <1>3, <3>2, <4>1
      <4> QED BY <1>2, <4>2, <4>3
    <3> QED BY <3>1, <3>2
  <2>2. ASSUME NEW i \in Columns(h, 0), Place(h, 0, i) \in DOMAIN new
        PROVE  i < s + 1
    <3>1. i \in Nat
      BY DEF Columns
    <3>2. CASE i = s
      BY <3>2
    <3>3. CASE i # s
      <4>1. Place(h, 0, i) # n
        BY <1>1, <1>3, <3>3
      <4>2. i < s
        BY <1>2, <2>2, <4>1 DEF LeavesStored
      <4> QED BY <3>1, <4>2
    <3> QED BY <3>2, <3>3
  <2>3. ASSUME NEW e \in DOMAIN new
        PROVE  new[e].leafIndex = NotALeaf
               \/ \E i \in 0..((s + 1) - 1) : e = Place(h, 0, i)
    <3>1. CASE e = n
      BY <3>1 DEF n
    <3>2. CASE e # n
      <4>1. e \in DOMAIN nodes /\ new[e] = nodes[e]
        BY <1>2, <3>2
      <4>2. \A i \in 0..(s - 1) : i \in 0..((s + 1) - 1)
        OBVIOUS
      <4> QED BY <4>1, <4>2 DEF LeavesStored
    <3> QED BY <3>1, <3>2
  <2> QED BY <2>1, <2>2, <2>3 DEF LeavesStored
<1>5. InnerReference(h, new, values)
  <2>1. ASSUME NEW l \in 1..h, NEW i \in Columns(h, l)
        PROVE  /\ i <= RightShift(Len(values) - 1, l) => Place(h, l, i) \in DOMAIN new
               /\ Place(h, l, i) \in DOMAIN new =>
                     new[Place(h, l, i)].hash.term = ReferenceRow(h, values)[l][i]
    <3>1. l \in 0..h /\ l # 0
      OBVIOUS
    <3>2. Place(h, l, i) # n
      BY <1>3, <3>1
    <3> QED BY <1>2, <3>2 DEF InnerReference
  <2>2. (Len(values) > 0 /\ Len(values) < TwoTo[h]) => new[0].hash = ReferenceRoot(h, values)
    <3> SUFFICES ASSUME Len(values) > 0, Len(values) < TwoTo[h]
                 PROVE  new[0].hash = ReferenceRoot(h, values)
      OBVIOUS
    <3>2. 0 \in DOMAIN nodes
      <4>1. Len(values) <= TwoTo[h]
        BY TwoToIsLarge
      <4> QED BY <4>1, InnerReferenceHasRoot
    <3>1. 0 # n
      <4>1. 0 = Place(h, h, 0) /\ 0 \in Columns(h, h) /\ h \in 0..h /\ h # 0
        <5>1. h - h = 0
          OBVIOUS
        <5> QED BY <5>1, TwoToZero DEF Place, Columns
      <4> QED BY <1>3, <4>1
    <3> QED BY <1>2, <3>1, <3>2 DEF InnerReference
  <2> QED BY <2>1, <2>2 DEF InnerReference
<1> QED BY <1>4, <1>5 DEF new

\* The first n commitments, as leaf values.
LEMMA CommitmentsOf ==
  ASSUME NEW n \in Nat
  PROVE  /\ Len(Commitments(n)) = n
         /\ \A k \in 1..n : Commitments(n)[k] = Commitment(k - 1)
         /\ LeafValues(Commitments(n))
<1>1. Len(Commitments(n)) = n
  BY DEF Commitments
<1>2. \A k \in 1..n : Commitments(n)[k] = Commitment(k - 1)
  BY DEF Commitments
<1>3. ASSUME NEW k \in 1..n
      PROVE  Commitments(n)[k] = [term |-> Commitments(n)[k].term, full |-> TRUE]
  <2>1. Commitments(n)[k] = [term |-> <<k - 1>>, full |-> TRUE]
    BY <1>2 DEF Commitment
  <2> QED BY <2>1
<1> QED BY <1>1, <1>2, <1>3 DEF LeafValues

LEMMA LenOfSequence ==
  ASSUME NEW w, IsSequence(w)
  PROVE  Len(w) \in Nat
BY DEF IsSequence

\* The plan for the leaves that a range read finds, from leaf m to leaf s - 1.
LEMMA PlanOfLeaves ==
  ASSUME NEW h \in Nat, NEW s \in Nat, s <= TwoTo[h], NEW m \in 0..s,
         NEW frontier, FrontierOf(h, Commitments(m), m, frontier),
         NEW found, DOMAIN found = 1..(s - m),
         \A k \in 1..(s - m) : found[k] = LeafNode(m + k - 1)
  PROVE  PlanOK(PlanUpdate(h, frontier, [k \in DOMAIN found |-> found[k].hash], m),
                h, Commitments(s), frontier, m)
<1> DEFINE batch == [k \in DOMAIN found |-> found[k].hash]
           values == Commitments(s)
<1>1. TwoTo[h] \in Nat /\ m \in Nat
  BY TwoToIsLarge
<1>5. Len(batch) = s - m
  OBVIOUS
<1>6. /\ Len(values) = s /\ LeafValues(values)
      /\ \A k \in 1..s : values[k] = Commitment(k - 1)
  BY CommitmentsOf
<1>7. \A k \in 1..(s - m) : batch[k] = values[m + k]
  <2> SUFFICES ASSUME NEW k \in 1..(s - m) PROVE batch[k] = values[m + k]
    OBVIOUS
  <2>1. found[k] = LeafNode(m + k - 1) /\ batch[k] = found[k].hash
    OBVIOUS
  <2>2. m + k \in 1..s /\ (m + k) - 1 = m + k - 1
    BY <1>1
  <2> HIDE DEF values
  <2>3. values[m + k] = Commitment(m + k - 1)
    BY <1>6, <2>2
  <2> HIDE DEF batch
  <2> QED BY <2>1, <2>3 DEF LeafNode
<1>8. FrontierOf(h, values, m, frontier)
  <2>1. Len(Commitments(m)) = m /\ \A k \in 1..m : Commitments(m)[k] = Commitment(k - 1)
    BY <1>1, CommitmentsOf
  <2> DEFINE old == Commitments(m)
  <2>2. \A k \in 1..m : old[k] = values[k]
    <3> HIDE DEF values
    <3> QED BY <1>1, <1>6, <2>1
  <2>3. Len(old) \in Nat /\ Len(values) \in Nat /\ m <= Len(old) /\ m <= Len(values)
        /\ m <= TwoTo[h] /\ FrontierOf(h, old, m, frontier)
    <3> HIDE DEF values
    <3> QED BY <1>1, <1>6, <2>1
  <2> HIDE DEF old, values
  <2> QED BY <1>1, <2>2, <2>3, FrontierOfMore
<1>9. Len(values) \in Nat /\ Len(values) <= TwoTo[h] /\ m \in 0..Len(values)
      /\ Len(batch) = Len(values) - m /\ \A k \in 1..Len(batch) : batch[k] = values[m + k]
  <2> HIDE DEF values, batch
  <2> QED BY <1>1, <1>5, <1>6, <1>7
<1> HIDE DEF batch, values
<1>10. PlanOK(PlanUpdate(h, frontier, batch, m), h, values, frontier, m)
  BY <1>6, <1>8, <1>9, PlanUpdateIsReference
<1> QED BY <1>10 DEF batch, values

---------------------------------------------------------------------------
(* Membership proofs.                                                      *)

\* g holds the paths of the nodes up to n.
PathsUp(g, n) ==
    g = [m \in 0..n |-> IF m = 0 THEN <<>>
                        ELSE <<ParentNodeIndex(m)>> \o g[ParentNodeIndex(m)]]

LEMMA ParentBefore ==
  ASSUME NEW m \in Nat, m # 0
  PROVE  ParentNodeIndex(m) \in 0..(m - 1)
<1>1. RightShift(m, 1) = m \div 2 /\ RightShift(m - 1, 1) = (m - 1) \div 2
  <2>1. m \in Int /\ m - 1 \in Int
    OBVIOUS
  <2> QED BY <2>1, ShiftOne
<1> QED BY <1>1 DEF ParentNodeIndex

LEMMA PathsExist ==
  ASSUME NEW n \in Nat
  PROVE  \E g : PathsUp(g, n)
<1> DEFINE S == {j \in Nat : \E g : PathsUp(g, j)}
           P(j) == ParentNodeIndex(j)
<1>1. 0 \in S
  <2> DEFINE f == [j \in 0..0 |-> <<>>]
  <2>1. PathsUp(f, 0)
    BY DEF PathsUp
  <2> QED BY <2>1
<1>2. ASSUME NEW j \in Nat, j \in S PROVE j + 1 \in S
  <2>1. PICK g : PathsUp(g, j)
    BY <1>2
  <2> DEFINE f == [m \in 0..(j + 1) |->
                      IF m = j + 1 THEN <<P(j + 1)>> \o g[P(j + 1)] ELSE g[m]]
  <2>2. ASSUME NEW m \in 0..(j + 1)
        PROVE  f[m] = IF m = 0 THEN <<>> ELSE <<P(m)>> \o f[P(m)]
    <3>1. CASE m = j + 1
      <4>1. P(m) \in 0..j /\ P(m) \in 0..(j + 1) /\ P(m) # j + 1 /\ m # 0
        <5>1. m \in Nat /\ m # 0 /\ m - 1 = j
          BY <3>1
        <5>2. P(m) \in 0..j
          BY <5>1, ParentBefore
        <5> HIDE DEF P
        <5> QED BY <5>1, <5>2
      <4> HIDE DEF P
      <4> QED BY <3>1, <4>1
    <3>2. CASE m # j + 1 /\ m # 0
      <4>1. m \in 0..j /\ m \in Nat
        BY <3>2
      <4>2. P(m) \in 0..(m - 1)
        BY <3>2, <4>1, ParentBefore
      <4>3. g[m] = <<P(m)>> \o g[P(m)]
        BY <2>1, <3>2, <4>1 DEF PathsUp
      <4> HIDE DEF P
      <4>4. P(m) \in 0..(j + 1) /\ P(m) # j + 1
        BY <4>1, <4>2
      <4> QED BY <3>2, <4>3, <4>4
    <3>3. CASE m = 0
      <4>1. m \in 0..j /\ m # j + 1
        BY <3>3
      <4>2. g[m] = <<>>
        BY <2>1, <3>3, <4>1 DEF PathsUp
      <4> QED BY <3>3, <4>1, <4>2
    <3> QED BY <3>1, <3>2, <3>3
  <2>3. PathsUp(f, j + 1)
    BY <2>2 DEF PathsUp
  <2>4. \E e : PathsUp(e, j + 1)
    <3> HIDE DEF f
    <3> QED BY <2>3
  <2> QED BY <2>4
<1> QED BY <1>1, <1>2, InductionOver

\* The place on level l of the ancestor of a leaf.
Ancestor(h, leaf, l) == Place(h, l, RightShift(leaf, l))

LEMMA AncestorIsNat ==
  ASSUME NEW h \in Nat, NEW leaf \in Nat, NEW l \in 0..h
  PROVE  Ancestor(h, leaf, l) \in Nat
<1> DEFINE c == RightShift(leaf, l)
<1>1. c \in Nat
  <2>1. l \in Nat
    OBVIOUS
  <2> QED BY <2>1, ShiftIsNat
<1> HIDE DEF c
<1>2. Place(h, l, c) \in Nat
  BY <1>1, PlaceIsNat
<1> QED BY <1>2 DEF Ancestor, c

LEMMA AncestorNext ==
  ASSUME NEW h \in Nat, NEW leaf \in Nat, leaf < TwoTo[h], NEW l \in 0..(h - 1)
  PROVE  /\ Ancestor(h, leaf, l) \in Nat \ {0}
         /\ ParentNodeIndex(Ancestor(h, leaf, l)) = Ancestor(h, leaf, l + 1)
         /\ Ancestor(h, leaf, l + 1) < Ancestor(h, leaf, l)
<1>1. l \in 0..h /\ l + 1 \in 0..h /\ l < l + 1
  OBVIOUS
<1>2. RightShift(leaf, l) \in Columns(h, l) /\ RightShift(leaf, l + 1) \in Columns(h, l + 1)
  BY <1>1, ColumnInRow DEF Columns
<1>3. Ancestor(h, leaf, l + 1) < Ancestor(h, leaf, l)
  BY <1>1, <1>2, PlaceBelow DEF Ancestor
<1>4. Ancestor(h, leaf, l) \in Nat /\ Ancestor(h, leaf, l + 1) \in Nat
  BY <1>1, AncestorIsNat
<1>5. ParentNodeIndex(Ancestor(h, leaf, l)) = Ancestor(h, leaf, l + 1)
  BY HeapIndex DEF Ancestor, Place
<1> QED BY <1>3, <1>4, <1>5

\* The ancestors of a leaf, from level 1 to the root.
LEMMA PathOfLeaf ==
  ASSUME NEW h \in Nat, NEW leaf \in Nat, leaf < TwoTo[h]
  PROVE  LET path == GetPathIndices(LeafIndexToNodeIndex(h, leaf)) IN
         /\ path \in Seq(Nat)
         /\ Len(path) = h
         /\ \A k \in 1..h : path[k] = Ancestor(h, leaf, k)
<1> DEFINE n == LeafIndexToNodeIndex(h, leaf)
           up == CHOOSE g : PathsUp(g, n)
           Good(l) == /\ Ancestor(h, leaf, l) <= n
                      /\ up[Ancestor(h, leaf, l)] \in Seq(Nat)
                      /\ Len(up[Ancestor(h, leaf, l)]) = h - l
                      /\ \A k \in 1..(h - l) :
                            up[Ancestor(h, leaf, l)][k] = Ancestor(h, leaf, l + k)
<1>1. n = Ancestor(h, leaf, 0) /\ n \in Nat
  <2>1. h - 0 = h /\ RightShift(leaf, 0) = leaf /\ TwoTo[h] \in Nat \ {0}
    BY ShiftZero, TwoToIsLarge
  <2> QED BY <2>1 DEF LeafIndexToNodeIndex, Ancestor, Place
<1>2. PathsUp(up, n)
  <2> HIDE DEF n
  <2> QED BY <1>1, PathsExist
<1>3. GetPathIndices(n) = up[n]
  BY DEF GetPathIndices, PathsUp
<1> HIDE DEF up
<1>4. \A l \in 0..h : Ancestor(h, leaf, l) \in Nat /\ Ancestor(h, leaf, l) <= n
  <2> DEFINE S == {l \in Nat : l <= h => /\ Ancestor(h, leaf, l) \in Nat
                                          /\ Ancestor(h, leaf, l) <= n}
  <2>1. 0 \in S
    BY <1>1
  <2>2. ASSUME NEW l \in Nat, l \in S PROVE l + 1 \in S
    <3> SUFFICES ASSUME l + 1 <= h
                 PROVE  Ancestor(h, leaf, l + 1) \in Nat /\ Ancestor(h, leaf, l + 1) <= n
      OBVIOUS
    <3>1. l \in 0..(h - 1) /\ l + 1 \in 0..h
      OBVIOUS
    <3>2. Ancestor(h, leaf, l + 1) < Ancestor(h, leaf, l)
      BY <3>1, AncestorNext
    <3>3. Ancestor(h, leaf, l + 1) \in Nat
      BY <3>1, AncestorIsNat
    <3>4. Ancestor(h, leaf, l) \in Nat /\ Ancestor(h, leaf, l) <= n
      BY <2>2
    <3> HIDE DEF n
    <3> QED BY <1>1, <3>2, <3>3, <3>4
  <2>3. Nat \subseteq S
    <3> HIDE DEF S
    <3> QED BY <2>1, <2>2, InductionOver
  <2> QED BY <2>3
<1> DEFINE D == {d \in Nat : d <= h => Good(h - d)}
<1>5. 0 \in D
  <2>1. Ancestor(h, leaf, h) = 0
    <3>1. h - h = 0 /\ RightShift(leaf, h) = 0
      BY TopColumn
    <3> QED BY <3>1, TwoToZero DEF Ancestor, Place
  <2>2. up[0] = <<>>
    <3> HIDE DEF n
    <3>1. 0 \in 0..n
      BY <1>1
    <3> QED BY <1>2, <3>1 DEF PathsUp
  <2>3. Good(h)
    <3> HIDE DEF n
    <3> QED BY <1>1, <2>1, <2>2
  <2>4. h - 0 = h
    OBVIOUS
  <2> HIDE DEF Good
  <2> QED BY <2>3, <2>4
<1>6. ASSUME NEW d \in Nat, d \in D PROVE d + 1 \in D
  <2> SUFFICES ASSUME d + 1 <= h PROVE Good(h - (d + 1))
    OBVIOUS
  <2> DEFINE l == h - (d + 1)
             x == Ancestor(h, leaf, l)
             y == Ancestor(h, leaf, l + 1)
             q == up[y]
  <2>1. l \in 0..(h - 1) /\ l + 1 = h - d /\ l \in Nat /\ l + 1 \in 0..h /\ l \in 0..h
    OBVIOUS
  <2>2. Good(l + 1)
    <3> HIDE DEF Good
    <3> QED BY <1>6, <2>1
  <2> HIDE DEF l
  <2>3. x \in Nat /\ x # 0 /\ x <= n /\ ParentNodeIndex(x) = y
    BY <1>4, <2>1, AncestorNext
  <2>4. up[x] = <<y>> \o q
    <3> HIDE DEF n, x, y
    <3>1. x \in 0..n
      BY <1>1, <2>3
    <3> QED BY <1>2, <2>3, <3>1 DEF PathsUp
  <2>5. q \in Seq(Nat) /\ Len(q) = h - (l + 1) /\ y \in Nat
        /\ \A k \in 1..(h - (l + 1)) : q[k] = Ancestor(h, leaf, (l + 1) + k)
    BY <1>4, <2>1, <2>2
  <2> DEFINE r == <<y>> \o q
  <2>6. r \in Seq(Nat) /\ Len(r) = h - l /\ r[1] = y
        /\ \A k \in 2..(h - l) : r[k] = q[k - 1]
    <3> HIDE DEF y, q
    <3>1. <<y>> \in Seq(Nat) /\ Len(<<y>>) = 1 /\ <<y>>[1] = y
      BY <2>5
    <3>2. r \in Seq(Nat) /\ Len(r) = 1 + Len(q)
      BY <2>5, <3>1
    <3>3. \A k \in 1..(1 + Len(q)) : r[k] = IF k <= 1 THEN <<y>>[k] ELSE q[k - 1]
      BY <2>5, <3>1
    <3> HIDE DEF r
    <3> QED BY <2>1, <2>5, <3>1, <3>2, <3>3
  <2>7. \A k \in 1..(h - l) : r[k] = Ancestor(h, leaf, l + k)
    <3> SUFFICES ASSUME NEW k \in 1..(h - l) PROVE r[k] = Ancestor(h, leaf, l + k)
      OBVIOUS
    <3> HIDE DEF r, q
    <3>1. CASE k = 1
      BY <2>6, <3>1
    <3>2. CASE k # 1
      <4>1. k \in 2..(h - l) /\ k - 1 \in 1..(h - (l + 1)) /\ (l + 1) + (k - 1) = l + k
        BY <2>1, <3>2
      <4>2. r[k] = q[k - 1]
        BY <2>6, <4>1
      <4>3. q[k - 1] = Ancestor(h, leaf, (l + 1) + (k - 1))
        BY <2>5, <4>1
      <4> QED BY <4>1, <4>2, <4>3
    <3> QED BY <3>1, <3>2
  <2>8. Good(l)
    <3> HIDE DEF r, q, y
    <3>1. up[x] = r
      BY <2>4 DEF r
    <3>2. x <= n
      BY <2>3
    <3> QED BY <2>6, <2>7, <3>1, <3>2
  <2> HIDE DEF Good
  <2> QED BY <2>8 DEF l
<1>7. Good(0)
  <2>1. h \in D
    <3> HIDE DEF D
    <3> QED BY <1>5, <1>6, InductionOver
  <2>2. h - h = 0
    OBVIOUS
  <2> HIDE DEF Good
  <2> QED BY <2>1, <2>2
<1>8. /\ up[n] \in Seq(Nat) /\ Len(up[n]) = h
      /\ \A k \in 1..h : up[n][k] = Ancestor(h, leaf, k)
  <2> HIDE DEF n
  <2>1. h - 0 = h /\ \A k \in 1..h : 0 + k = k
    OBVIOUS
  <2> QED BY <1>1, <1>7, <2>1
<1> QED BY <1>3, <1>8

\* The sibling of a leaf's ancestor is the column next to it; a right sibling has an even
\* index.
LEMMA SiblingOfAncestor ==
  ASSUME NEW h \in Nat, NEW leaf \in Nat, leaf < TwoTo[h], NEW l \in 0..(h - 1)
  PROVE  LET c == RightShift(leaf, l)
             n == SiblingNodeIndex(Ancestor(h, leaf, l)) IN
         /\ c % 2 = 0 => c + 1 \in Columns(h, l) /\ n = Place(h, l, c + 1) /\ n % 2 = 0
         /\ c % 2 = 1 => c - 1 \in Columns(h, l) /\ n = Place(h, l, c - 1) /\ n % 2 = 1
<1> DEFINE c == RightShift(leaf, l)
           t == TwoTo[h - (l + 1)]
           w == TwoTo[h - l]
<1>1. w = 2 * t /\ t \in Nat \ {0}
  <2>1. h - (l + 1) \in Nat /\ (h - (l + 1)) + 1 = h - l
    OBVIOUS
  <2> QED BY <2>1, TwoToNext, TwoToIsLarge
<1>2. c \in 0..(w - 1)
  <2>1. l \in 0..h
    OBVIOUS
  <2> QED BY <2>1, ColumnInRow
<1>3. Ancestor(h, leaf, l) = w - 1 + c
      /\ Place(h, l, c + 1) = w - 1 + (c + 1) /\ Place(h, l, c - 1) = w - 1 + (c - 1)
      /\ Columns(h, l) = 0..(w - 1)
  BY DEF Ancestor, Place, Columns
<1> HIDE DEF c, t, w
<1>4. CASE c % 2 = 0
  <2>1. (w - 1 + c) % 2 = 1 /\ c + 1 \in 0..(w - 1) /\ (w - 1 + (c + 1)) % 2 = 0
        /\ ~(w - 1 + (c + 1) < 0) /\ w - 1 + c + 1 = w - 1 + (c + 1)
    BY <1>1, <1>2, <1>4
  <2>2. SiblingNodeIndex(w - 1 + c) = w - 1 + (c + 1)
    BY <2>1 DEF SiblingNodeIndex
  <2> QED BY <1>3, <1>4, <2>1, <2>2 DEF c
<1>5. CASE c % 2 = 1
  <2>1. (w - 1 + c) % 2 # 1 /\ c - 1 \in 0..(w - 1) /\ (w - 1 + (c - 1)) % 2 = 1
        /\ ~(w - 1 + (c - 1) < 0) /\ w - 1 + c - 1 = w - 1 + (c - 1)
    BY <1>1, <1>2, <1>5
  <2>2. SiblingNodeIndex(w - 1 + c) = w - 1 + (c - 1)
    <3> DEFINE x == w - 1 + c
               y == w - 1 + (c - 1)
    <3>1. x % 2 # 1 /\ x - 1 = y /\ ~(y < 0)
      BY <1>1, <1>2, <1>5
    <3> HIDE DEF x, y
    <3>2. SiblingNodeIndex(x) = y
      BY <3>1 DEF SiblingNodeIndex
    <3> QED BY <3>2 DEF x, y
  <2> QED BY <1>3, <1>5, <2>1, <2>2 DEF c
<1> QED BY <1>2, <1>4, <1>5 DEF c

LEMMA Prepended ==
  ASSUME NEW x \in Int, NEW q \in Seq(Int)
  PROVE  /\ <<x>> \o q \in Seq(Int)
         /\ Len(<<x>> \o q) = 1 + Len(q)
         /\ \A k \in 1..(1 + Len(q)) : (<<x>> \o q)[k] = IF k <= 1 THEN x ELSE q[k - 1]
<1>1. <<x>> \in Seq(Int) /\ Len(<<x>>) = 1 /\ <<x>>[1] = x
  OBVIOUS
<1> QED BY <1>1

\* What the sibling path takes for the node at an index.
StoredHash(nodes, n) == IF n \in DOMAIN nodes THEN nodes[n].hash ELSE Zero

LEMMA SiblingPathOf ==
  ASSUME NEW h \in Nat, NEW leaf \in Nat, leaf < TwoTo[h], NEW nodes
  PROVE  LET path == SiblingPath(h, nodes, leaf) IN
         /\ Len(path) = h + 1
         /\ \A l \in 0..h :
               LET n == SiblingNodeIndex(Ancestor(h, leaf, l)) IN
               path[l + 1] = [nodeIndex |-> n, hash |-> StoredHash(nodes, n)]
<1> DEFINE start == LeafIndexToNodeIndex(h, leaf)
           up == GetPathIndices(start)
           over == [k \in DOMAIN up |-> SiblingNodeIndex(up[k])]
           indices == GetSiblingPathIndices(start)
           path == SiblingPath(h, nodes, leaf)
           n(l) == SiblingNodeIndex(Ancestor(h, leaf, l))
<1>1. up \in Seq(Nat) /\ Len(up) = h /\ \A k \in 1..h : up[k] = Ancestor(h, leaf, k)
  BY PathOfLeaf
<1>2. start = Ancestor(h, leaf, 0)
  <2>1. h - 0 = h /\ RightShift(leaf, 0) = leaf /\ TwoTo[h] \in Nat \ {0}
    BY ShiftZero, TwoToIsLarge
  <2> QED BY <2>1 DEF LeafIndexToNodeIndex, Ancestor, Place
<1>3. indices = <<SiblingNodeIndex(start)>> \o over
  BY DEF GetSiblingPathIndices
<1> HIDE DEF start, up, indices
<1>4. \A i \in Nat : SiblingNodeIndex(i) \in Int
  BY DEF SiblingNodeIndex
<1>5. over \in Seq(Int) /\ Len(over) = h /\ \A k \in 1..h : over[k] = n(k)
  <2>1. DOMAIN up = 1..h
    BY <1>1
  <2>2. over = [k \in 1..h |-> SiblingNodeIndex(up[k])]
    BY <2>1
  <2>3. \A k \in 1..h : SiblingNodeIndex(up[k]) \in Int
    <3>1. \A k \in 1..h : up[k] \in Nat
      BY <1>1
    <3> QED BY <1>4, <3>1
  <2> HIDE DEF over
  <2>4. over \in Seq(Int) /\ Len(over) = h
    BY <2>2, <2>3
  <2> QED BY <1>1, <2>2, <2>4
<1>6. SiblingNodeIndex(start) = n(0) /\ n(0) \in Int
  <2>1. Ancestor(h, leaf, 0) \in Nat
    BY AncestorIsNat
  <2> QED BY <1>2, <1>4, <2>1
<1> HIDE DEF over, n
<1>7. indices \in Seq(Int) /\ Len(indices) = h + 1
      /\ \A l \in 0..h : indices[l + 1] = n(l)
  <2> DEFINE one == <<n(0)>>
  <2>1. one \in Seq(Int) /\ Len(one) = 1 /\ one[1] = n(0)
    BY <1>6
  <2> HIDE DEF one
  <2>2. indices = one \o over
    BY <1>3, <1>6 DEF one
  <2>3. one \o over \in Seq(Int) /\ Len(one \o over) = 1 + h
        /\ \A k \in 1..(1 + h) : (one \o over)[k] = IF k <= 1 THEN one[k] ELSE over[k - 1]
    <3>1. /\ one \o over \in Seq(Int) /\ Len(one \o over) = 1 + Len(over)
          /\ \A k \in 1..(1 + Len(over)) :
                (one \o over)[k] = IF k <= 1 THEN n(0) ELSE over[k - 1]
      BY <1>5, <1>6, Prepended DEF one
    <3> QED BY <1>5, <2>1, <3>1
  <2>4. ASSUME NEW l \in 0..h PROVE indices[l + 1] = n(l)
    <3>1. l + 1 \in 1..(1 + h) /\ (l + 1) - 1 = l /\ (l + 1 <= 1 <=> l = 0)
      OBVIOUS
    <3>2. indices[l + 1] = IF l + 1 <= 1 THEN one[l + 1] ELSE over[(l + 1) - 1]
      BY <2>2, <2>3, <3>1
    <3>3. CASE l = 0
      BY <2>1, <3>1, <3>2, <3>3
    <3>4. CASE l # 0
      <4>1. l \in 1..h
        BY <3>4
      <4> QED BY <1>5, <3>1, <3>2, <3>4, <4>1
    <3> QED BY <3>3, <3>4
  <2> QED BY <2>2, <2>3, <2>4
<1>8. path = [k \in DOMAIN indices |->
                [nodeIndex |-> indices[k], hash |-> StoredHash(nodes, indices[k])]]
  BY DEF SiblingPath, StoredHash, indices, start
<1>9. DOMAIN indices = 1..(h + 1)
  BY <1>7
<1> HIDE DEF path
<1>10. Len(path) = h + 1
  BY <1>8, <1>9
<1>11. ASSUME NEW l \in 0..h
       PROVE  path[l + 1] = [nodeIndex |-> n(l), hash |-> StoredHash(nodes, n(l))]
  <2>1. l + 1 \in 1..(h + 1)
    OBVIOUS
  <2> QED BY <1>7, <1>8, <1>9, <2>1
<1> QED BY <1>10, <1>11 DEF path, n

\* The values of the first s leaves.
CommittedLeaves(values, s) ==
    Len(values) = s /\ \A k \in 1..s : values[k] = Commitment(k - 1)

\* What the sibling path takes for a node is the node of the whole tree.
LEMMA StoredIsReference ==
  ASSUME NEW h \in Nat, NEW s \in Nat, s > 0, s <= TwoTo[h],
         NEW values, CommittedLeaves(values, s),
         NEW nodes, LeavesStored(h, nodes, s), InnerReference(h, nodes, values),
         NEW l \in 0..h, NEW i \in Columns(h, l)
  PROVE  StoredHash(nodes, Place(h, l, i)).term = ReferenceRow(h, values)[l][i]
<1> DEFINE n == Place(h, l, i)
<1>0. i \in Nat /\ i \in 0..(TwoTo[h - l] - 1)
      /\ Len(values) = s /\ \A k \in 1..s : values[k] = Commitment(k - 1)
  BY DEF Columns, CommittedLeaves
<1>1. CASE l = 0
  <2>1. i \in Columns(h, 0) /\ n = Place(h, 0, i) /\ i \in 0..(TwoTo[h] - 1)
    <3>1. h - 0 = h
      OBVIOUS
    <3> QED BY <1>0, <1>1, <3>1
  <2>2. RightShift(s - 1, 0) = s - 1
    BY ShiftZero
  <2>3. CASE i < s
    <3>1. n \in DOMAIN nodes /\ nodes[n] = LeafNode(i)
      BY <1>0, <2>1, <2>3 DEF LeavesStored
    <3>2. StoredHash(nodes, n).term = <<i>>
      BY <3>1 DEF StoredHash, LeafNode, Commitment
    <3>3. ReferenceRow(h, values)[0][i] = values[i + 1].term
      <4>1. ~(i > RightShift(Len(values) - 1, 0))
        BY <1>0, <2>2, <2>3
      <4> QED BY <2>1, <4>1, ReferenceLeaf
    <3>4. i + 1 \in 1..s /\ (i + 1) - 1 = i
      BY <1>0, <2>3
    <3>5. values[i + 1] = Commitment(i)
      BY <1>0, <3>4
    <3>6. values[i + 1].term = <<i>>
      BY <3>5 DEF Commitment
    <3> QED BY <1>1, <3>2, <3>3, <3>6
  <2>4. CASE ~(i < s)
    <3>1. n \notin DOMAIN nodes
      BY <2>1, <2>4 DEF LeavesStored
    <3>2. i > RightShift(Len(values) - 1, 0)
      BY <1>0, <2>2, <2>4
    <3>3. ReferenceRow(h, values)[l][i] = <<>>
      BY <1>0, <1>1, <3>2, ReferenceZero
    <3> QED BY <3>1, <3>3 DEF StoredHash, Zero
  <2> QED BY <2>3, <2>4
<1>2. CASE l # 0
  <2>1. l \in 1..h
    BY <1>2
  <2>2. CASE n \in DOMAIN nodes
    BY <2>1, <2>2 DEF InnerReference, StoredHash
  <2>3. CASE n \notin DOMAIN nodes
    <3>1. ~(i <= RightShift(Len(values) - 1, l))
      BY <2>1, <2>3 DEF InnerReference
    <3>2. RightShift(Len(values) - 1, l) \in Int
      BY ShiftType
    <3>3. i > RightShift(Len(values) - 1, l)
      BY <1>0, <3>1, <3>2
    <3>4. ReferenceRow(h, values)[l][i] = <<>>
      BY <1>0, <3>3, ReferenceZero
    <3> QED BY <2>3, <3>4 DEF StoredHash, Zero
  <2> QED BY <2>2, <2>3
<1> QED BY <1>1, <1>2

\* g holds the values that folding m siblings of a path passes through.
Folds(g, value, path, m) ==
    g = [k \in 0..m |-> IF k = 0 THEN value ELSE FoldSibling(g[k - 1], path[k])]

LEMMA FoldsExist ==
  ASSUME NEW value, NEW path, NEW m \in Nat
  PROVE  \E g : Folds(g, value, path, m)
<1> DEFINE S == {j \in Nat : \E g : Folds(g, value, path, j)}
<1>1. 0 \in S
  <2> DEFINE f == [k \in 0..0 |-> value]
  <2>1. Folds(f, value, path, 0)
    BY DEF Folds
  <2> QED BY <2>1
<1>2. ASSUME NEW j \in Nat, j \in S PROVE j + 1 \in S
  <2>1. PICK g : Folds(g, value, path, j)
    BY <1>2
  <2> DEFINE f == [k \in 0..(j + 1) |->
                      IF k = j + 1 THEN FoldSibling(g[j], path[j + 1]) ELSE g[k]]
  <2>2. ASSUME NEW k \in 0..(j + 1)
        PROVE  f[k] = IF k = 0 THEN value ELSE FoldSibling(f[k - 1], path[k])
    <3>1. CASE k = j + 1
      <4>1. k - 1 = j /\ j \in 0..(j + 1) /\ j # j + 1 /\ k # 0
        BY <3>1
      <4> QED BY <3>1, <4>1
    <3>2. CASE k # j + 1 /\ k # 0
      <4>1. k \in 0..j /\ k - 1 \in 0..(j + 1) /\ k - 1 # j + 1
        BY <3>2
      <4>2. f[k - 1] = g[k - 1] /\ f[k] = g[k]
        BY <3>2, <4>1
      <4>3. g[k] = FoldSibling(g[k - 1], path[k])
        BY <2>1, <3>2, <4>1 DEF Folds
      <4> QED BY <3>2, <4>2, <4>3
    <3>3. CASE k = 0
      <4>1. k \in 0..j /\ k # j + 1
        BY <3>3
      <4>2. g[k] = value
        BY <2>1, <3>3, <4>1 DEF Folds
      <4> QED BY <3>3, <4>1, <4>2
    <3> QED BY <3>1, <3>2, <3>3
  <2>3. Folds(f, value, path, j + 1)
    BY <2>2 DEF Folds
  <2>4. \E e : Folds(e, value, path, j + 1)
    <3> HIDE DEF f
    <3> QED BY <2>3
  <2> QED BY <2>4
<1> QED BY <1>1, <1>2, InductionOver

\* g holds the values that folding a path of h siblings and the root passes through.
FoldedBy(g, value, path, h) ==
    /\ g[0] = value
    /\ \A l \in 0..(h - 1) : g[l + 1] = FoldSibling(g[l], path[l + 1])
    /\ FoldPath(value, path) = g[h]

LEMMA FoldPathTurns ==
  ASSUME NEW value, NEW path, NEW h \in Nat, Len(path) = h + 1
  PROVE  \E g : FoldedBy(g, value, path, h)
<1> DEFINE g == CHOOSE f : Folds(f, value, path, h)
<1>1. Folds(g, value, path, h)
  BY FoldsExist
<1>2. Len(path) - 1 = h
  OBVIOUS
<1>3. FoldPath(value, path) = g[h]
  BY <1>2 DEF FoldPath, Folds
<1> HIDE DEF g
<1>4. g[0] = value
  BY <1>1 DEF Folds
<1>5. ASSUME NEW l \in 0..(h - 1) PROVE g[l + 1] = FoldSibling(g[l], path[l + 1])
  <2>1. l + 1 \in 0..h /\ l + 1 # 0 /\ (l + 1) - 1 = l
    OBVIOUS
  <2>2. g[l + 1] = FoldSibling(g[(l + 1) - 1], path[l + 1])
    BY <1>1, <2>1 DEF Folds
  <2> QED BY <2>1, <2>2
<1>6. FoldedBy(g, value, path, h)
  BY <1>3, <1>4, <1>5 DEF FoldedBy
<1> QED BY <1>6

\* One turn of baseline_verify: the value is the reference node of the next level just if
\* it was the one of this level, because no other two children hash to the same node.
LEMMA FoldSiblingStep ==
  ASSUME NEW h \in Nat, NEW s \in Nat, s > 0, s <= TwoTo[h],
         NEW values, CommittedLeaves(values, s),
         NEW nodes, LeavesStored(h, nodes, s), InnerReference(h, nodes, values),
         NEW leaf \in 0..(s - 1), NEW l \in 0..(h - 1), NEW value
  PROVE  LET n == SiblingNodeIndex(Ancestor(h, leaf, l))
             row == ReferenceRow(h, values)
             r == FoldSibling(value, [nodeIndex |-> n, hash |-> StoredHash(nodes, n)]) IN
         /\ r = [term |-> r.term, full |-> TRUE]
         /\ r.term = row[l + 1][RightShift(leaf, l + 1)]
               <=> value.term = row[l][RightShift(leaf, l)]
<1> DEFINE n == SiblingNodeIndex(Ancestor(h, leaf, l))
           row == ReferenceRow(h, values)
           c == RightShift(leaf, l)
           d == RightShift(leaf, l + 1)
           sib == StoredHash(nodes, n)
           r == FoldSibling(value, [nodeIndex |-> n, hash |-> sib])
<1>1. leaf \in Nat /\ leaf < TwoTo[h] /\ l \in Nat /\ l \in 0..h /\ l + 1 \in 0..h
      /\ leaf <= s - 1 /\ Len(values) = s
  BY TwoToIsLarge DEF CommittedLeaves
<1>2. c \in Nat /\ d \in Nat /\ d = c \div 2
  <2>1. c \in Nat
    BY <1>1, ShiftIsNat
  <2>2. d = c \div 2
    BY <1>1, ShiftNext
  <2> HIDE DEF c, d
  <2> QED BY <2>1, <2>2
<1>3. row[l + 1][d] = <<row[l][2 * d], row[l][2 * d + 1]>>
  <2>1. d \in 0..(TwoTo[h - (l + 1)] - 1)
    BY <1>1, ColumnInRow
  <2>2. d <= RightShift(s - 1, l + 1) /\ RightShift(s - 1, l + 1) \in Int
    <3>1. leaf \in Int /\ s - 1 \in Int /\ l + 1 \in Nat
      BY <1>1
    <3> QED BY <1>1, <3>1, ShiftMonotone, ShiftType
  <2>3. ~(d > RightShift(Len(values) - 1, l + 1))
    BY <1>1, <1>2, <2>2
  <2> QED BY SMTT(30), <1>1, <2>1, <2>3, ReferenceParent
<1>4. CASE c % 2 = 0
  <2>1. c + 1 \in Columns(h, l) /\ n = Place(h, l, c + 1) /\ n % 2 = 0
    BY <1>1, <1>4, SiblingOfAncestor
  <2>2. sib.term = row[l][c + 1]
    <3> DEFINE e == c + 1
    <3>1. e \in Columns(h, l) /\ n = Place(h, l, e)
      BY <2>1
    <3> HIDE DEF e, n
    <3>2. StoredHash(nodes, Place(h, l, e)).term = ReferenceRow(h, values)[l][e]
      BY <1>1, <3>1, StoredIsReference
    <3> QED BY <3>1, <3>2 DEF e
  <2>3. 2 * d = c /\ 2 * d + 1 = c + 1
    <3> HIDE DEF c, d
    <3> QED BY <1>2, <1>4
  <2>4. r = ConcatenateThenHash(value, sib)
    BY <2>1 DEF FoldSibling
  <2> HIDE DEF r, sib, row, c, d
  <2>5. r = [term |-> <<value.term, sib.term>>, full |-> TRUE]
    BY <2>4 DEF ConcatenateThenHash
  <2>6. r.term = <<value.term, row[l][c + 1]>>
    BY <2>2, <2>5
  <2>7. row[l + 1][d] = <<row[l][c], row[l][c + 1]>>
    BY <1>3, <2>3
  <2>8. r.term = row[l + 1][d] <=> value.term = row[l][c]
    BY <2>6, <2>7
  <2>9. r = [term |-> r.term, full |-> TRUE]
    BY <2>5
  <2> QED BY <2>8, <2>9 DEF r, sib, row, c, d
<1>5. CASE c % 2 = 1
  <2>1. c - 1 \in Columns(h, l) /\ n = Place(h, l, c - 1) /\ n % 2 = 1
    BY <1>1, <1>5, SiblingOfAncestor
  <2>2. sib.term = row[l][c - 1]
    <3> DEFINE e == c - 1
    <3>1. e \in Columns(h, l) /\ n = Place(h, l, e)
      BY <2>1
    <3> HIDE DEF e, n
    <3>2. StoredHash(nodes, Place(h, l, e)).term = ReferenceRow(h, values)[l][e]
      BY <1>1, <3>1, StoredIsReference
    <3> QED BY <3>1, <3>2 DEF e
  <2>3. 2 * d = c - 1 /\ 2 * d + 1 = c
    <3> HIDE DEF c, d
    <3> QED BY <1>2, <1>5
  <2>4. r = ConcatenateThenHash(sib, value)
    BY <2>1 DEF FoldSibling
  <2> HIDE DEF r, sib, row, c, d
  <2>5. r = [term |-> <<sib.term, value.term>>, full |-> TRUE]
    BY <2>4 DEF ConcatenateThenHash
  <2>6. r.term = <<row[l][c - 1], value.term>>
    BY <2>2, <2>5
  <2>7. row[l + 1][d] = <<row[l][c - 1], row[l][c]>>
    BY <1>3, <2>3
  <2>8. r.term = row[l + 1][d] <=> value.term = row[l][c]
    BY <2>6, <2>7
  <2>9. r = [term |-> r.term, full |-> TRUE]
    BY <2>5
  <2> QED BY <2>8, <2>9 DEF r, sib, row, c, d
<1> QED BY <1>2, <1>4, <1>5

\* The proof made from the document leads to the root from its own leaf and from no other.
THEOREM ProofOfLeaf ==
  ASSUME NEW h \in Nat, h > 0, NEW s \in Nat, s > 0, s < TwoTo[h],
         NEW values, CommittedLeaves(values, s),
         NEW nodes, LeavesStored(h, nodes, s), InnerReference(h, nodes, values),
         NEW i \in 0..(s - 1), NEW j \in 0..(s - 1)
  PROVE  VerifyPath(Commitment(j), SiblingPath(h, nodes, i), ReferenceRoot(h, values))
            <=> i = j
<1> DEFINE row == ReferenceRow(h, values)
           path == SiblingPath(h, nodes, i)
           n(l) == SiblingNodeIndex(Ancestor(h, i, l))
           col(l) == RightShift(i, l)
<1>1. i \in Nat /\ i < TwoTo[h] /\ s <= TwoTo[h]
      /\ Len(values) = s /\ \A k \in 1..s : values[k] = Commitment(k - 1)
  BY TwoToIsLarge DEF CommittedLeaves
<1>2. /\ Len(path) = h + 1
      /\ \A l \in 0..h : path[l + 1] = [nodeIndex |-> n(l), hash |-> StoredHash(nodes, n(l))]
  BY <1>1, SiblingPathOf
<1> HIDE DEF path
<1>3. PICK g : FoldedBy(g, Commitment(j), path, h)
  BY <1>2, FoldPathTurns
<1> DEFINE Good(l) == /\ g[l] = [term |-> g[l].term, full |-> TRUE]
                      /\ g[l].term = row[l][col(l)] <=> i = j
           S == {l \in Nat : l <= h => Good(l)}
<1>4. Good(0)
  <2>1. col(0) = i
    BY <1>1, ShiftZero
  <2>2. row[0][i] = <<i>>
    <3>1. RightShift(Len(values) - 1, 0) = s - 1 /\ ~(i > s - 1) /\ i \in 0..(TwoTo[h] - 1)
      <4>1. RightShift(s - 1, 0) = s - 1
        BY ShiftZero
      <4> QED BY <1>1, <4>1, TwoToIsLarge
    <3>2. row[0][i] = values[i + 1].term
      BY <3>1, ReferenceLeaf
    <3>3. i + 1 \in 1..s /\ (i + 1) - 1 = i
      BY <1>1
    <3>4. values[i + 1] = Commitment(i)
      BY <1>1, <3>3
    <3> HIDE DEF row
    <3> QED BY <3>2, <3>4 DEF Commitment
  <2>3. g[0] = [term |-> <<j>>, full |-> TRUE]
    BY <1>3 DEF FoldedBy, Commitment
  <2>4. g[0].term = <<j>> /\ (<<j>> = <<i>> <=> i = j)
    BY <2>3
  <2> HIDE DEF row, col
  <2> QED BY <2>1, <2>2, <2>3, <2>4
<1>5. ASSUME NEW l \in Nat, l \in S PROVE l + 1 \in S
  <2> SUFFICES ASSUME l + 1 <= h PROVE Good(l + 1)
    OBVIOUS
  <2>1. l \in 0..(h - 1) /\ l \in 0..h
    OBVIOUS
  <2>2. Good(l)
    BY <1>5
  <2> DEFINE r == FoldSibling(g[l], [nodeIndex |-> n(l), hash |-> StoredHash(nodes, n(l))])
  <2>3. g[l + 1] = r
    <3>1. g[l + 1] = FoldSibling(g[l], path[l + 1])
      BY <1>3, <2>1 DEF FoldedBy
    <3>2. path[l + 1] = [nodeIndex |-> n(l), hash |-> StoredHash(nodes, n(l))]
      BY <1>2, <2>1
    <3> HIDE DEF n
    <3> QED BY <3>1, <3>2
  <2>4. /\ r = [term |-> r.term, full |-> TRUE]
        /\ r.term = row[l + 1][col(l + 1)] <=> g[l].term = row[l][col(l)]
    <3> DEFINE v == g[l]
    <3> HIDE DEF v
    <3>0. i \in 0..(s - 1) /\ l \in 0..(h - 1) /\ s <= TwoTo[h] /\ s > 0
      BY <1>1, <2>1
    <3>1. LET e == FoldSibling(v, [nodeIndex |-> n(l), hash |-> StoredHash(nodes, n(l))]) IN
          /\ e = [term |-> e.term, full |-> TRUE]
          /\ e.term = row[l + 1][col(l + 1)] <=> v.term = row[l][col(l)]
      BY <3>0, FoldSiblingStep
    <3> QED BY <3>1 DEF v
  <2> HIDE DEF r, row, col
  <2> QED BY <2>2, <2>3, <2>4
<1>6. Good(h)
  <2>1. h \in S
    <3>1. 0 \in S
      BY <1>4
    <3> HIDE DEF S
    <3> QED BY <1>5, <3>1, InductionOver
  <2> QED BY <2>1
<1>7. path[Len(path)].hash = ReferenceRoot(h, values)
  <2>1. h - h = 0 /\ RightShift(i, h) = 0 /\ h \in 0..h
    BY <1>1, TopColumn
  <2>2. Ancestor(h, i, h) = 0
    BY <2>1, TwoToZero DEF Ancestor, Place
  <2>3. SiblingNodeIndex(0) = 0
    BY DEF SiblingNodeIndex
  <2>4. path[h + 1].hash = StoredHash(nodes, 0)
    <3>1. n(h) = 0
      BY <2>2, <2>3
    <3>2. path[h + 1] = [nodeIndex |-> n(h), hash |-> StoredHash(nodes, n(h))]
      BY <1>2, <2>1
    <3> HIDE DEF n
    <3> QED BY <3>1, <3>2
  <2>5. 0 \in DOMAIN nodes /\ nodes[0].hash = ReferenceRoot(h, values)
    BY <1>1, InnerReferenceHasRoot DEF InnerReference
  <2> QED BY <1>2, <2>4, <2>5 DEF StoredHash
<1>8. ReferenceRoot(h, values) = [term |-> row[h][col(h)], full |-> TRUE]
  <2>1. col(h) = 0
    BY <1>1, TopColumn
  <2> QED BY <2>1 DEF ReferenceRoot
<1>9. ReferenceRoot(h, values) = FoldPath(Commitment(j), path) <=> i = j
  <2> HIDE DEF row, col
  <2>1. g[h] = [term |-> g[h].term, full |-> TRUE]
        /\ (g[h].term = row[h][col(h)] <=> i = j)
    BY <1>6
  <2>2. [term |-> row[h][col(h)], full |-> TRUE] = [term |-> g[h].term, full |-> TRUE]
           <=> g[h].term = row[h][col(h)]
    <3>1. [term |-> row[h][col(h)], full |-> TRUE].term = row[h][col(h)]
          /\ [term |-> g[h].term, full |-> TRUE].term = g[h].term
      OBVIOUS
    <3> QED BY <3>1
  <2>3. FoldPath(Commitment(j), path) = g[h]
    BY <1>3 DEF FoldedBy
  <2> QED BY <1>8, <2>1, <2>2, <2>3
<1> QED BY <1>7, <1>9 DEF VerifyPath, path
=============================================================================
