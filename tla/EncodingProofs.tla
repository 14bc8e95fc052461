---------------------------- MODULE EncodingProofs ----------------------------
(***************************************************************************)
(* The conversions and the wire format for every width, every limb size,   *)
(* every length of the numbers and texts and every byte: numbers are kept, *)
(* text and messages come back.                                            *)
(* The loops are recursive functions.  The value of an array of digits is  *)
(* described by its high parts: what the digits above each place stand     *)
(* for, without the powers of the base.                                    *)
(***************************************************************************)
EXTENDS Encoding, SequenceTheorems, WellFoundedInduction, TLAPS

---------------------------------------------------------------------------
(* Induction, and the functions defined by a start and a step.             *)

LEMMA LeastNumber ==
  ASSUME NEW T \in SUBSET Nat, T # {}
  PROVE  \E m \in T : \A k \in T : m <= k
<1> DEFINE R == {ss \in Nat \X Nat : ss[1] < ss[2]}
<1>1. IsWellFoundedOn(R, Nat)
  BY NatLessThanWellFounded DEF OpToRel
<1> HIDE DEF R
<1>2. PICK m \in T : \A k \in T : <<k, m>> \notin R
  BY <1>1, WFMin
<1>3. ASSUME NEW k \in T PROVE m <= k
  <2>1. k \in Nat /\ m \in Nat /\ <<k, m>> \notin R
    BY <1>2
  <2> QED BY <2>1 DEF R
<1> QED BY <1>3

\* Induction, for the set of the numbers that have a property.
LEMMA InductionOver ==
  ASSUME NEW S, 0 \in S, \A n \in Nat : n \in S => n + 1 \in S
  PROVE  Nat \subseteq S
<1> DEFINE T == Nat \ S
<1>1. SUFFICES ASSUME T # {} PROVE FALSE
  OBVIOUS
<1>2. PICK m \in T : \A k \in T : m <= k
  BY <1>1, LeastNumber
<1>3. m - 1 \in Nat /\ ~(m <= m - 1)
  BY <1>2
<1>4. m - 1 \in S
  BY <1>2, <1>3
<1> QED BY <1>2, <1>3, <1>4

\* r is the run of m steps from start.
Run(r, A, start, step, m) ==
    /\ r \in [0..m -> A]
    /\ r[0] = start
    /\ \A k \in 0..m : k # 0 => r[k] = step[<<k, r[k - 1]>>]

LEMMA RunExists ==
  ASSUME NEW A, NEW start \in A, NEW step \in [Nat \X A -> A], NEW m \in Nat
  PROVE  \E r : Run(r, A, start, step, m)
<1> DEFINE S == {j \in Nat : \E r : Run(r, A, start, step, j)}
<1>1. 0 \in S
  <2> DEFINE r == [k \in 0..0 |-> start]
  <2>1. Run(r, A, start, step, 0)
    BY DEF Run
  <2> QED BY <2>1
<1>2. ASSUME NEW j \in Nat, j \in S PROVE j + 1 \in S
  <2>1. PICK r : Run(r, A, start, step, j)
    BY <1>2
  <2> DEFINE new == step[<<j + 1, r[j]>>]
             s == [k \in 0..(j + 1) |-> IF k = j + 1 THEN new ELSE r[k]]
  <2>2. new \in A
    <3>1. r[j] \in A /\ j + 1 \in Nat
      BY <2>1 DEF Run
    <3> QED BY <3>1
  <2> HIDE DEF new
  <2>3. s[j + 1] = new /\ \A k \in 0..j : s[k] = r[k] /\ s[k] \in A
    BY <2>1 DEF Run
  <2>4. s \in [0..(j + 1) -> A]
    <3>1. ASSUME NEW k \in 0..(j + 1) PROVE (IF k = j + 1 THEN new ELSE r[k]) \in A
      <4>1. k = j + 1 \/ k \in 0..j
        OBVIOUS
      <4> QED BY <2>1, <2>2, <4>1 DEF Run
    <3> QED BY <3>1
  <2> HIDE DEF s
  <2>5. ASSUME NEW k \in 0..(j + 1), k # 0 PROVE s[k] = step[<<k, s[k - 1]>>]
    <3>1. CASE k = j + 1
      <4>1. k - 1 = j /\ j \in 0..j
        BY <3>1
      <4> QED BY <2>3, <3>1, <4>1 DEF new
    <3>2. CASE k # j + 1
      <4>1. k \in 0..j /\ k - 1 \in 0..j
        BY <2>5, <3>2
      <4> QED BY <2>1, <2>3, <2>5, <4>1 DEF Run
    <3> QED BY <3>1, <3>2
  <2>6. s[0] = start
    <3>1. 0 \in 0..j
      OBVIOUS
    <3> QED BY <2>1, <2>3, <3>1 DEF Run
  <2>7. Run(s, A, start, step, j + 1)
    BY <2>4, <2>5, <2>6 DEF Run
  <2> QED BY <2>7
<1> QED BY <1>1, <1>2, InductionOver

\* A function on the natural numbers that follows the step.
Chain(c, A, start, step) ==
    /\ c \in [Nat -> A]
    /\ c[0] = start
    /\ \A k \in Nat : k # 0 => c[k] = step[<<k, c[k - 1]>>]

LEMMA ChainExists ==
  ASSUME NEW A, NEW start \in A, NEW step \in [Nat \X A -> A]
  PROVE  \E c : Chain(c, A, start, step)
<1> DEFINE run(m) == CHOOSE r : Run(r, A, start, step, m)
           c == [k \in Nat |-> run(k)[k]]
<1>1. ASSUME NEW m \in Nat PROVE Run(run(m), A, start, step, m)
  BY RunExists
<1> HIDE DEF run
<1>2. ASSUME NEW m \in Nat, NEW n \in Nat, m <= n PROVE run(n)[m] = run(m)[m]
  <2> DEFINE S == {k \in Nat : k <= m => run(n)[k] = run(m)[k]}
  <2>1. 0 \in S
    BY <1>1 DEF Run
  <2>2. ASSUME NEW k \in Nat, k \in S PROVE k + 1 \in S
    <3> SUFFICES ASSUME k + 1 <= m PROVE run(n)[k + 1] = run(m)[k + 1]
      OBVIOUS
    <3>1. k + 1 \in 0..m /\ k + 1 \in 0..n /\ k + 1 # 0 /\ (k + 1) - 1 = k
      BY <1>2
    <3>2. run(n)[k] = run(m)[k]
      BY <2>2
    <3>3. run(n)[k + 1] = step[<<k + 1, run(n)[k]>>]
      BY <1>1, <3>1 DEF Run
    <3>4. run(m)[k + 1] = step[<<k + 1, run(m)[k]>>]
      BY <1>1, <3>1 DEF Run
    <3> QED BY <3>2, <3>3, <3>4
  <2>3. m \in S
    BY <2>1, <2>2, InductionOver
  <2> QED BY <2>3
<1>3. c \in [Nat -> A]
  <2>1. ASSUME NEW k \in Nat PROVE run(k)[k] \in A
    BY <1>1 DEF Run
  <2> QED BY <2>1
<1>4. c[0] = start
  BY <1>1 DEF Run
<1>5. ASSUME NEW k \in Nat, k # 0 PROVE c[k] = step[<<k, c[k - 1]>>]
  <2>1. k - 1 \in Nat /\ k - 1 <= k /\ k \in 0..k
    BY <1>5
  <2>2. run(k)[k - 1] = run(k - 1)[k - 1]
    BY <1>2, <2>1
  <2>3. run(k)[k] = step[<<k, run(k)[k - 1]>>]
    BY <1>1, <1>5, <2>1 DEF Run
  <2> QED BY <2>1, <2>2, <2>3
<1> HIDE DEF c
<1>6. Chain(c, A, start, step)
  BY <1>3, <1>4, <1>5 DEF Chain
<1> QED BY <1>6

LEMMA DivMod ==
  ASSUME NEW x \in Int, NEW m \in Nat \ {0}
  PROVE  /\ x = m * (x \div m) + (x % m)
         /\ x % m \in 0..(m - 1)
         /\ x \div m \in Int
  OBVIOUS

LEMMA MultipleIsLarge ==
  ASSUME NEW m \in Nat \ {0}, NEW k \in Int, k >= 1
  PROVE  m * k >= m
<1>1. m * k = m * (k - 1) + m
  OBVIOUS
<1>2. m * (k - 1) >= 0
  OBVIOUS
<1> QED BY <1>1, <1>2

LEMMA QuotientIs ==
  ASSUME NEW x \in Int, NEW m \in Nat \ {0}, NEW q \in Int, NEW r \in 0..(m - 1),
         x = m * q + r
  PROVE  x \div m = q /\ x % m = r
<1> DEFINE d == x \div m
           e == x % m
<1>1. x = m * d + e /\ e \in 0..(m - 1) /\ d \in Int
  BY DivMod
<1> HIDE DEF d, e
<1>2. m * (d - q) = r - e /\ m * (q - d) = e - r
  BY <1>1
<1>3. ~(d - q >= 1)
  BY <1>1, <1>2, MultipleIsLarge
<1>4. ~(q - d >= 1)
  BY <1>1, <1>2, MultipleIsLarge
<1>5. d = q
  BY <1>1, <1>3, <1>4
<1> QED BY <1>1, <1>5 DEF d, e

---------------------------------------------------------------------------
(* Text.                                                                   *)

LEMMA Nibbles ==
  ASSUME NEW b \in 0..255
  PROVE  /\ b \div 16 \in 0..15 /\ b % 16 \in 0..15
         /\ b = 16 * (b \div 16) + (b % 16)
         /\ b \div 16 = 0 <=> b < 16
<1>1. b \div 16 \in 0..15
  OBVIOUS
<1>2. b % 16 \in 0..15
  OBVIOUS
<1>3. b = 16 * (b \div 16) + (b % 16)
  <2>1. b \in Int /\ 16 \in Nat \ {0}
    OBVIOUS
  <2> QED BY <2>1, DivMod
<1>4. b \div 16 = 0 <=> b < 16
  OBVIOUS
<1> QED BY <1>1, <1>2, <1>3, <1>4

\* g holds the first pairs of digits put in a row, up to m.
Joins(g, seqs, m) ==
    g = [i \in 1..m |-> IF i = 1 THEN seqs[i] ELSE g[i - 1] \o seqs[i]]

LEMMA JoinsExist ==
  ASSUME NEW A, NEW m \in Nat, NEW seqs \in [1..m -> Seq(A)]
  PROVE  \E g : Joins(g, seqs, m)
<1> DEFINE step == [p \in Nat \X Seq(A) |-> IF p[1] \in 1..m THEN p[2] \o seqs[p[1]] ELSE <<>>]
<1>1. step \in [Nat \X Seq(A) -> Seq(A)]
  <2>1. ASSUME NEW k \in 1..m, NEW s \in Seq(A) PROVE s \o seqs[k] \in Seq(A)
    <3>1. seqs[k] \in Seq(A)
      OBVIOUS
    <3> QED BY <3>1
  <2>2. <<>> \in Seq(A)
    OBVIOUS
  <2> QED BY <2>1, <2>2
<1>2. ASSUME NEW k \in 1..m, NEW s \in Seq(A) PROVE step[<<k, s>>] = s \o seqs[k]
  <2>1. <<k, s>> \in Nat \X Seq(A)
    OBVIOUS
  <2> QED BY <2>1
<1> HIDE DEF step
<1>3. PICK r : Run(r, Seq(A), <<>>, step, m)
  <2>1. <<>> \in Seq(A)
    OBVIOUS
  <2> QED BY <1>1, <2>1, RunExists
<1> DEFINE g == [k \in 1..m |-> r[k]]
<1>4. ASSUME NEW k \in 1..m
      PROVE  g[k] = IF k = 1 THEN seqs[k] ELSE g[k - 1] \o seqs[k]
  <2>1. k \in 0..m /\ k # 0 /\ k - 1 \in 0..m
    OBVIOUS
  <2>2. r[k] = r[k - 1] \o seqs[k]
    <3>1. r[k - 1] \in Seq(A) /\ r[k] = step[<<k, r[k - 1]>>]
      BY <1>3, <2>1 DEF Run
    <3> QED BY <1>2, <3>1
  <2>3. CASE k = 1
    <3>1. r[k - 1] = <<>>
      BY <1>3, <2>3 DEF Run
    <3>2. seqs[k] \in Seq(A)
      OBVIOUS
    <3>3. <<>> \o seqs[k] = seqs[k]
      BY <3>2
    <3> QED BY <2>2, <2>3, <3>1, <3>3
  <2>4. CASE k # 1
    <3>1. k - 1 \in 1..m
      BY <2>4
    <3> QED BY <2>2, <2>4, <3>1
  <2> QED BY <2>3, <2>4
<1> HIDE DEF g
<1>5. Joins(g, seqs, m)
  <2>1. g = [k \in 1..m |-> g[k]]
    BY DEF g
  <2> QED BY <1>4, <2>1 DEF Joins
<1> QED BY <1>5

HexOf(bytes) == FlattenSeq([k \in DOMAIN bytes |-> <<bytes[k] \div 16, bytes[k] % 16>>])

\* hex spells the bytes.
Spells(hex, bytes, n) ==
    /\ hex \in Seq(0..15)
    /\ Len(hex) = 2 * n
    /\ \A k \in 1..n : hex[2 * k - 1] = bytes[k] \div 16 /\ hex[2 * k] = bytes[k] % 16

LEMMA HexSpells ==
  ASSUME NEW n \in Nat, NEW bytes \in [1..n -> 0..255]
  PROVE  Spells(HexOf(bytes), bytes, n)
<1> DEFINE pairs == [k \in 1..n |-> <<bytes[k] \div 16, bytes[k] % 16>>]
           g == CHOOSE h : Joins(h, pairs, n)
           S == {k \in Nat : k + 1 <= n => Spells(g[k + 1], bytes, k + 1)}
<1>1. DOMAIN bytes = 1..n /\ Len(pairs) = n
  OBVIOUS
<1>2. ASSUME NEW k \in 1..n
      PROVE  /\ pairs[k] \in Seq(0..15) /\ Len(pairs[k]) = 2
             /\ pairs[k][1] = bytes[k] \div 16 /\ pairs[k][2] = bytes[k] % 16
  <2>1. bytes[k] \div 16 \in 0..15 /\ bytes[k] % 16 \in 0..15
    BY Nibbles
  <2> QED BY <2>1
<1>3. pairs \in [1..n -> Seq(0..15)]
  BY <1>2
<1>4. Joins(g, pairs, n)
  BY <1>3, JoinsExist
<1>5. HexOf(bytes) = IF n = 0 THEN pairs ELSE g[n]
  BY <1>1 DEF HexOf, FlattenSeq, Joins
<1> HIDE DEF pairs, g
<1>6. 0 \in S
  <2> SUFFICES ASSUME 1 <= n PROVE Spells(g[1], bytes, 1)
    OBVIOUS
  <2>1. 1 \in 1..n
    OBVIOUS
  <2>2. g[1] = pairs[1]
    BY <1>4, <2>1 DEF Joins
  <2> QED BY <1>2, <2>1, <2>2 DEF Spells
<1>7. ASSUME NEW k \in Nat, k \in S PROVE k + 1 \in S
  <2> SUFFICES ASSUME k + 2 <= n PROVE Spells(g[k + 2], bytes, k + 2)
    OBVIOUS
  <2> DEFINE old == g[k + 1]
             new == g[k + 2]
             pair == pairs[k + 2]
  <2>1. Spells(old, bytes, k + 1)
    BY <1>7
  <2>2. k + 2 \in 1..n /\ k + 2 # 1 /\ (k + 2) - 1 = k + 1
    OBVIOUS
  <2>3. new = old \o pair
    BY <1>4, <2>2 DEF Joins
  <2>4. pair \in Seq(0..15) /\ Len(pair) = 2 /\ pair[1] = bytes[k + 2] \div 16
        /\ pair[2] = bytes[k + 2] % 16
    BY <1>2, <2>2
  <2> HIDE DEF old, new, pair
  <2> HIDE DEF S
  <2>5. /\ new \in Seq(0..15) /\ Len(new) = 2 * (k + 2)
        /\ \A i \in 1..(2 * (k + 1)) : new[i] = old[i]
        /\ new[2 * k + 3] = pair[1] /\ new[2 * k + 4] = pair[2]
    <3>1. old \in Seq(0..15) /\ Len(old) = 2 * (k + 1)
      BY <2>1 DEF Spells
    <3>2. /\ new \in Seq(0..15) /\ Len(new) = 2 * (k + 1) + 2
          /\ \A i \in 1..(2 * (k + 1) + 2) :
                new[i] = IF i <= 2 * (k + 1) THEN old[i] ELSE pair[i - 2 * (k + 1)]
      <4>1. /\ old \o pair \in Seq(0..15)
            /\ Len(old \o pair) = Len(old) + Len(pair)
            /\ \A i \in 1..(Len(old) + Len(pair)) :
                  (old \o pair)[i] = IF i <= Len(old) THEN old[i] ELSE pair[i - Len(old)]
        <5>1. pair \in Seq(0..15)
          BY <2>4
        <5> QED BY <3>1, <5>1, ConcatProperties
      <4> QED BY <2>3, <2>4, <3>1, <4>1
    <3>3. 2 * k + 3 \in 1..(2 * (k + 1) + 2) /\ 2 * k + 4 \in 1..(2 * (k + 1) + 2)
          /\ ~(2 * k + 3 <= 2 * (k + 1)) /\ ~(2 * k + 4 <= 2 * (k + 1))
          /\ 2 * k + 3 - 2 * (k + 1) = 1 /\ 2 * k + 4 - 2 * (k + 1) = 2
      OBVIOUS
    <3> QED BY <3>2, <3>3
  <2>6. ASSUME NEW j \in 1..(k + 2)
        PROVE  new[2 * j - 1] = bytes[j] \div 16 /\ new[2 * j] = bytes[j] % 16
    <3>1. CASE j = k + 2
      <4>1. new[2 * j - 1] = pair[1] /\ new[2 * j] = pair[2]
        BY <2>5, <3>1
      <4> QED BY <2>4, <3>1, <4>1
    <3>2. CASE j # k + 2
      <4>1. j \in 1..(k + 1) /\ 2 * j - 1 \in 1..(2 * (k + 1)) /\ 2 * j \in 1..(2 * (k + 1))
        BY <3>2
      <4>2. new[2 * j - 1] = old[2 * j - 1] /\ new[2 * j] = old[2 * j]
        BY <2>5, <4>1
      <4> QED BY <2>1, <4>1, <4>2 DEF Spells
    <3> QED BY <3>1, <3>2
  <2>7. Spells(new, bytes, k + 2)
    BY <2>5, <2>6 DEF Spells
  <2> QED BY <2>7 DEF new
<1>8. CASE n = 0
  <2>1. HexOf(bytes) = <<>>
    BY <1>5, <1>8 DEF pairs
  <2> QED BY <1>8, <2>1 DEF Spells
<1>9. CASE n # 0
  <2> HIDE DEF S
  <2>1. Nat \subseteq S
    BY <1>6, <1>7, InductionOver
  <2>2. n - 1 \in Nat /\ (n - 1) + 1 = n
    BY <1>9
  <2>3. n - 1 \in S
    BY <2>1, <2>2
  <2> QED BY <1>5, <1>9, <2>2, <2>3 DEF S
<1> QED BY <1>8, <1>9

\* What PadStart puts in front is zeros.
LEMMA PadStartIs ==
  ASSUME NEW A, 0 \in A, NEW str \in Seq(A), NEW n \in Nat, NEW z \in Nat,
         n <= z + Len(str), z = 0 \/ z + Len(str) = n
  PROVE  /\ PadStart(str, n) \in Seq(A)
         /\ Len(PadStart(str, n)) = z + Len(str)
         /\ \A k \in 1..z : PadStart(str, n)[k] = 0
         /\ \A k \in 1..Len(str) : PadStart(str, n)[z + k] = str[k]
<1> DEFINE pad == PadStart(str, n)
           l == Len(str)
<1>1. l \in Nat
  OBVIOUS
<1>2. CASE l >= n
  <2>1. pad = str /\ z = 0
    BY <1>1, <1>2 DEF PadStart
  <2> HIDE DEF pad, l
  <2>2. \A k \in 1..l : z + k = k
    BY <1>1, <2>1
  <2>3. \A k \in 1..z : pad[k] = 0
    BY <2>1
  <2>4. \A k \in 1..l : pad[z + k] = str[k]
    BY <2>1, <2>2
  <2>5. Len(pad) = z + l /\ pad \in Seq(A)
    BY <1>1, <2>1 DEF l
  <2> QED BY <2>3, <2>4, <2>5 DEF pad, l
<1>3. CASE ~(l >= n)
  <2> DEFINE zeros == Zeros(z)
  <2>1. z = n - l
    BY <1>1, <1>3
  <2>2. zeros = [k \in 1..z |-> 0]
    BY DEF Zeros
  <2>3. pad = zeros \o str
    BY <1>3, <2>1 DEF PadStart
  <2> HIDE DEF pad, zeros
  <2>4. zeros \in Seq(A) /\ Len(zeros) = z /\ \A k \in 1..z : zeros[k] = 0
    BY <2>1, <2>2
  <2>5. /\ pad \in Seq(A) /\ Len(pad) = z + l
        /\ \A k \in 1..(z + l) : pad[k] = IF k <= z THEN zeros[k] ELSE str[k - z]
    BY <2>3, <2>4, ConcatProperties
  <2> HIDE DEF l
  <2>6. ASSUME NEW k \in 1..z PROVE pad[k] = 0
    <3>1. k \in 1..(z + l) /\ k <= z
      BY <1>1
    <3> QED BY <2>4, <2>5, <3>1
  <2>7. ASSUME NEW k \in 1..l PROVE pad[z + k] = str[k]
    <3>1. z + k \in 1..(z + l)
      BY <1>1, <2>1
    <3>2. ~(z + k <= z)
      OBVIOUS
    <3>3. z + k - z = k
      OBVIOUS
    <3>4. pad[z + k] = IF z + k <= z THEN zeros[z + k] ELSE str[z + k - z]
      BY <2>5, <3>1
    <3> QED BY <3>2, <3>3, <3>4
  <2> QED BY <2>5, <2>6, <2>7 DEF pad, l
<1> QED BY <1>2, <1>3

\* f holds what is left of the digits, from each place on.
ZerosOut(f, hex) ==
    f = [k \in 1..Len(hex) + 2 |->
            IF k > Len(hex) THEN <<>>
            ELSE IF k < Len(hex) /\ hex[k] = 0 /\ hex[k + 1] = 0 THEN f[k + 2]
            ELSE <<hex[k]>> \o f[k + 1]]

LEMMA ZerosOutExist ==
  ASSUME NEW D, NEW hex \in Seq(D)
  PROVE  \E f : ZerosOut(f, hex)
<1> DEFINE n == Len(hex)
           A == Seq(D) \X Seq(D)
           start == <<<<>>, <<>>>>
           new(k, p) == IF k \notin 1..n THEN <<>>
                        ELSE IF k < n /\ hex[k] = 0 /\ hex[k + 1] = 0 THEN p[2]
                        ELSE <<hex[k]>> \o p[1]
           step == [q \in Nat \X A |-> <<new(n + 2 - q[1], q[2]), q[2][1]>>]
<1>1. n \in Nat /\ \A k \in 1..n : hex[k] \in D
  OBVIOUS
<1> HIDE DEF n
<1>2. ASSUME NEW k, NEW p \in A PROVE new(k, p) \in Seq(D)
  <2>1. p[1] \in Seq(D) /\ p[2] \in Seq(D)
    OBVIOUS
  <2>2. k \in 1..n => <<hex[k]>> \o p[1] \in Seq(D)
    BY <1>1, <2>1
  <2>3. <<>> \in Seq(D)
    OBVIOUS
  <2> QED BY <2>1, <2>2, <2>3
<1> HIDE DEF new
<1>3. start \in A
  <2>1. <<>> \in Seq(D)
    OBVIOUS
  <2> QED BY <2>1
<1>4. step \in [Nat \X A -> A]
  BY <1>2
<1>5. ASSUME NEW j \in Nat, NEW p \in A
      PROVE  step[<<j, p>>] = <<new(n + 2 - j, p), p[1]>>
  <2>1. <<j, p>> \in Nat \X A
    BY <1>5
  <2> QED BY <2>1
<1> HIDE DEF step, A, start
<1>6. PICK r : Run(r, A, start, step, n + 1)
  <2>1. n + 1 \in Nat
    BY <1>1
  <2> QED BY <1>3, <1>4, <2>1, RunExists
<1> DEFINE f == [k \in 1..n + 2 |-> r[n + 2 - k][1]]
<1>7. ASSUME NEW k \in 1..n
      PROVE  f[k] = IF k < n /\ hex[k] = 0 /\ hex[k + 1] = 0 THEN f[k + 2]
                    ELSE <<hex[k]>> \o f[k + 1]
  <2> DEFINE j == n + 2 - k
  <2>1. /\ j \in 0..(n + 1) /\ j # 0 /\ j - 1 \in 0..(n + 1) /\ j - 1 # 0 /\ j - 1 - 1 \in 0..(n + 1)
        /\ j \in Nat /\ j - 1 \in Nat /\ n + 2 - j = k /\ k \in 1..n + 2
        /\ k + 1 \in 1..n + 2 /\ k + 2 \in 1..n + 2
        /\ j - 1 = n + 2 - (k + 1) /\ j - 1 - 1 = n + 2 - (k + 2)
    BY <1>1
  <2>2. f[k] = r[j][1] /\ f[k + 1] = r[j - 1][1] /\ f[k + 2] = r[j - 1 - 1][1]
    BY <2>1
  <2> HIDE DEF j, f
  <2>3. r[j - 1] \in A /\ r[j - 1 - 1] \in A
    BY <1>6, <2>1 DEF Run
  <2>4. r[j] = <<new(k, r[j - 1]), r[j - 1][1]>>
    <3>1. r[j] = step[<<j, r[j - 1]>>]
      BY <1>6, <2>1 DEF Run
    <3> QED BY <1>5, <2>1, <2>3, <3>1
  <2>5. r[j - 1][2] = r[j - 1 - 1][1]
    <3>1. r[j - 1] = step[<<j - 1, r[j - 1 - 1]>>]
      BY <1>6, <2>1 DEF Run
    <3>2. r[j - 1] = <<new(n + 2 - (j - 1), r[j - 1 - 1]), r[j - 1 - 1][1]>>
      BY <1>5, <2>1, <2>3, <3>1
    <3> QED BY <3>2
  <2> QED BY <2>2, <2>4, <2>5 DEF new
<1>8. ASSUME NEW k \in 1..n + 2, k > n PROVE f[k] = <<>>
  <2>1. CASE k = n + 2
    <3>1. n + 2 - k = 0
      BY <1>1, <2>1
    <3> QED BY <1>6, <3>1 DEF Run, start
  <2>2. CASE k = n + 1
    <3>1. n + 2 - k = 1 /\ 1 \in 0..(n + 1) /\ 1 # 0 /\ 0 \in 0..(n + 1) /\ 1 - 1 = 0
          /\ n + 2 - 1 \notin 1..n /\ 1 \in Nat
      BY <1>1, <2>2
    <3>2. r[0] \in A /\ r[1] = step[<<1, r[0]>>]
      BY <1>6, <3>1 DEF Run
    <3>3. r[1] = <<new(n + 2 - 1, r[0]), r[0][1]>>
      BY <1>5, <3>1, <3>2
    <3> QED BY <3>1, <3>3 DEF new
  <2> QED BY <1>1, <1>8, <2>1, <2>2
<1> HIDE DEF f
<1>9. f = [k \in 1..n + 2 |-> f[k]]
  BY DEF f
<1>10. ASSUME NEW k \in 1..n + 2
       PROVE  f[k] = IF k > n THEN <<>>
                     ELSE IF k < n /\ hex[k] = 0 /\ hex[k + 1] = 0 THEN f[k + 2]
                     ELSE <<hex[k]>> \o f[k + 1]
  <2>1. CASE k > n
    BY <1>8, <2>1
  <2>2. CASE ~(k > n)
    <3>1. k \in 1..n
      BY <1>1, <2>2
    <3> QED BY <1>7, <2>2, <3>1
  <2> QED BY <2>1, <2>2
<1>11. ZerosOut(f, hex)
  BY <1>9, <1>10 DEF ZerosOut, n
<1> QED BY <1>11

\* Digits of which no two neighbours are zeros stay.
LEMMA SuffixStays ==
  ASSUME NEW D, NEW hex \in Seq(D), NEW f, ZerosOut(f, hex), NEW from \in 1..Len(hex) + 1,
         \A k \in from..Len(hex) - 1 : ~(hex[k] = 0 /\ hex[k + 1] = 0)
  PROVE  f[from] = SubSeq(hex, from, Len(hex))
<1> DEFINE n == Len(hex)
           S == {i \in Nat : i <= n + 1 - from => f[n + 1 - i] = SubSeq(hex, n + 1 - i, n)}
<1>1. n \in Nat
  OBVIOUS
<1>2. 0 \in S
  <2>1. n + 1 \in 1..n + 2 /\ n + 1 > n /\ n + 1 - 0 = n + 1
    BY <1>1
  <2>2. f[n + 1] = <<>>
    BY <2>1 DEF ZerosOut
  <2>3. SubSeq(hex, n + 1, n) = <<>>
    BY <1>1, SubSeqEmpty
  <2> QED BY <2>1, <2>2, <2>3
<1>3. ASSUME NEW i \in Nat, i \in S PROVE i + 1 \in S
  <2> SUFFICES ASSUME i + 1 <= n + 1 - from
               PROVE  f[n + 1 - (i + 1)] = SubSeq(hex, n + 1 - (i + 1), n)
    OBVIOUS
  <2> DEFINE k == n + 1 - (i + 1)
  <2>1. k \in 1..n /\ k \in from..n /\ k + 1 = n + 1 - i /\ k \in 1..n + 2 /\ ~(k > n) /\ n \in k..n
    BY <1>1
  <2>2. f[k + 1] = SubSeq(hex, k + 1, n)
    BY <1>3, <2>1
  <2> HIDE DEF k
  <2>3. ~(k < n /\ hex[k] = 0 /\ hex[k + 1] = 0)
    <3>1. CASE k < n
      <4>1. k \in from..n - 1
        BY <1>1, <2>1, <3>1
      <4> QED BY <4>1
    <3> QED BY <3>1
  <2>4. f[k] = <<hex[k]>> \o f[k + 1]
    BY <2>1, <2>3 DEF ZerosOut
  <2>5. SubSeq(hex, k, n) = <<hex[k]>> \o SubSeq(hex, k + 1, n)
    BY <2>1, SubSeqRecursiveFirst
  <2> QED BY <2>2, <2>4, <2>5 DEF k
<1> HIDE DEF S
<1>4. Nat \subseteq S
  BY <1>2, <1>3, InductionOver
<1>5. n + 1 - from \in Nat /\ n + 1 - (n + 1 - from) = from
  BY <1>1
<1>6. n + 1 - from \in S
  BY <1>4, <1>5
<1> QED BY <1>5, <1>6 DEF S

\* Pairs of zeros in front go.
LEMMA LeadingZerosGo ==
  ASSUME NEW D, NEW hex \in Seq(D), NEW f, ZerosOut(f, hex), NEW z \in Nat,
         2 * z <= Len(hex), \A k \in 1..2 * z : hex[k] = 0
  PROVE  f[1] = f[2 * z + 1]
<1> DEFINE n == Len(hex)
           S == {j \in Nat : j <= z => f[1] = f[2 * j + 1]}
<1>1. n \in Nat
  OBVIOUS
<1>2. 0 \in S
  OBVIOUS
<1>3. ASSUME NEW j \in Nat, j \in S PROVE j + 1 \in S
  <2> SUFFICES ASSUME j + 1 <= z PROVE f[1] = f[2 * (j + 1) + 1]
    OBVIOUS
  <2> DEFINE k == 2 * j + 1
  <2>1. f[1] = f[k]
    BY <1>3
  <2>2. k \in 1..n + 2 /\ ~(k > n) /\ k < n /\ k \in 1..2 * z /\ k + 1 \in 1..2 * z
        /\ k + 2 = 2 * (j + 1) + 1
    BY <1>1
  <2> HIDE DEF k
  <2>3. f[k] = f[k + 2]
    BY <2>2 DEF ZerosOut
  <2> QED BY <2>1, <2>2, <2>3
<1> HIDE DEF S
<1>4. Nat \subseteq S
  BY <1>2, <1>3, InductionOver
<1> QED BY <1>4 DEF S

\* Text without NULs, and without bytes that meet in two zero digits, comes back.
LEMMA TextReturns ==
  ASSUME NEW m \in Nat, NEW n \in 0..m, NEW text \in [1..n -> 0..255],
         \A k \in 1..n : text[k] # 0,
         \A k \in 1..n - 1 : ~(text[k] % 16 = 0 /\ text[k + 1] < 16)
  PROVE  HexToUtf8(Utf8ToHex(text, m)) = text
<1> DEFINE hex == HexOf(text)
           pad == Utf8ToHex(text, m)
           z == m - n
           f == CHOOSE g : ZerosOut(g, pad)
           clean == WithoutZeros(pad)
<1>1. Spells(hex, text, n)
  BY HexSpells
<1>2. n \in Nat /\ z \in Nat /\ Len(hex) = 2 * n /\ hex \in Seq(0..15) /\ m * 2 = 2 * z + 2 * n
  BY <1>1 DEF Spells
<1>3. pad = PadStart(hex, m * 2)
  BY <1>2 DEF Utf8ToHex, HexOf
<1> HIDE DEF hex, pad, z
<1>4. /\ pad \in Seq(0..15) /\ Len(pad) = 2 * z + 2 * n
      /\ \A k \in 1..2 * z : pad[k] = 0
      /\ \A k \in 1..2 * n : pad[2 * z + k] = hex[k]
  <2> DEFINE y == 2 * z
             w == m * 2
  <2>1. 0 \in 0..15 /\ w \in Nat /\ y \in Nat
    BY <1>2
  <2>2. w <= y + Len(hex) /\ y + Len(hex) = w /\ hex \in Seq(0..15)
    BY <1>2
  <2>3. y + Len(hex) = 2 * z + 2 * n
    BY <1>2
  <2> HIDE DEF y, w
  <2>4. /\ PadStart(hex, w) \in Seq(0..15)
        /\ Len(PadStart(hex, w)) = y + Len(hex)
        /\ \A k \in 1..y : PadStart(hex, w)[k] = 0
        /\ \A k \in 1..Len(hex) : PadStart(hex, w)[y + k] = hex[k]
    BY <2>1, <2>2, PadStartIs
  <2> QED BY <1>2, <1>3, <2>3, <2>4 DEF y, w
<1>5. ZerosOut(f, pad)
  BY <1>4, ZerosOutExist
<1>6. clean = f[1]
  BY DEF WithoutZeros, ZerosOut
<1> HIDE DEF f, clean
<1>7. f[1] = f[2 * z + 1]
  <2>1. pad \in Seq(0..15) /\ ZerosOut(f, pad) /\ z \in Nat
    BY <1>2, <1>4, <1>5
  <2>2. 2 * z <= Len(pad)
    BY <1>2, <1>4
  <2>3. \A k \in 1..2 * z : pad[k] = 0
    BY <1>4
  <2> QED BY <2>1, <2>2, <2>3, LeadingZerosGo
<1>8. ASSUME NEW k \in 2 * z + 1..Len(pad) - 1 PROVE ~(pad[k] = 0 /\ pad[k + 1] = 0)
  <2> DEFINE j == k - 2 * z
             i == (j + 1) \div 2
  <2>1. j \in 1..2 * n /\ j + 1 \in 1..2 * n /\ k = 2 * z + j /\ k + 1 = 2 * z + (j + 1)
    BY <1>2, <1>4
  <2>2. i \in 1..n /\ (j = 2 * i - 1 \/ (j = 2 * i /\ i \in 1..n - 1 /\ i + 1 \in 1..n))
    BY <1>2, <2>1
  <2>3. pad[k] = hex[j] /\ pad[k + 1] = hex[j + 1]
    BY <1>4, <2>1
  <2> HIDE DEF j, i
  <2>4. CASE j = 2 * i - 1
    <3>1. hex[j] = text[i] \div 16 /\ hex[j + 1] = text[i] % 16
      <4>1. j + 1 = 2 * i
        BY <2>2, <2>4
      <4> QED BY <1>1, <2>2, <2>4, <4>1 DEF Spells
    <3>2. text[i] \in 0..255 /\ text[i] # 0
      BY <2>2
    <3>3. text[i] = 16 * (text[i] \div 16) + (text[i] % 16)
      BY <3>2, Nibbles
    <3>4. ~(text[i] \div 16 = 0 /\ text[i] % 16 = 0)
      <4> SUFFICES ASSUME text[i] \div 16 = 0, text[i] % 16 = 0 PROVE FALSE
        OBVIOUS
      <4>1. text[i] = 16 * 0 + 0
        BY <3>3
      <4> QED BY <3>2, <4>1
    <3> QED BY <2>3, <3>1, <3>4
  <2>5. CASE j = 2 * i /\ i \in 1..n - 1 /\ i + 1 \in 1..n
    <3>1. hex[j] = text[i] % 16 /\ hex[j + 1] = text[i + 1] \div 16
      <4>1. j + 1 = 2 * (i + 1) - 1
        BY <2>2, <2>5
      <4> QED BY <1>1, <2>2, <2>5, <4>1 DEF Spells
    <3>2. text[i + 1] \div 16 = 0 <=> text[i + 1] < 16
      <4>1. text[i + 1] \in 0..255
        BY <2>5
      <4> QED BY <4>1, Nibbles
    <3>3. ~(text[i] % 16 = 0 /\ text[i + 1] < 16)
      BY <2>5
    <3> QED BY <2>3, <3>1, <3>2, <3>3
  <2> QED BY <2>2, <2>4, <2>5
<1>9. clean = SubSeq(pad, 2 * z + 1, Len(pad))
  <2>1. 2 * z + 1 \in 1..Len(pad) + 1
    BY <1>2, <1>4
  <2>2. f[2 * z + 1] = SubSeq(pad, 2 * z + 1, Len(pad))
    BY <1>4, <1>5, <1>8, <2>1, SuffixStays
  <2> QED BY <1>6, <1>7, <2>2
<1>10. Len(clean) = 2 * n /\ \A k \in 1..2 * n : clean[k] = hex[k]
  <2> DEFINE a == 2 * z + 1
             b == Len(pad)
  <2>1. a \in Int /\ b \in Int
    <3>1. a \in Int
      BY <1>2
    <3>2. b \in Int
      BY <1>4
    <3> QED BY <3>1, <3>2
  <2>4. \A k \in a..b : pad[k] \in 0..15
    <3> TAKE k \in a..b
    <3>1. k \in 1..Len(pad)
      BY <1>2, <1>4
    <3>2. pad \in Seq(0..15)
      BY <1>4
    <3> QED BY <3>1, <3>2
  <2>2. b - a + 1 = 2 * n /\ (IF a <= b THEN b - a + 1 ELSE 0) = 2 * n
        /\ \A k \in 1..2 * n : a + k - 1 = 2 * z + k
    BY <1>2, <1>4
  <2> HIDE DEF a, b
  <2>3. Len(SubSeq(pad, a, b)) = (IF a <= b THEN b - a + 1 ELSE 0)
        /\ \A k \in 1..b - a + 1 : SubSeq(pad, a, b)[k] = pad[a + k - 1]
    BY <2>1, <2>4, SubSeqProperties
  <2> QED BY <1>4, <1>9, <2>2, <2>3 DEF a, b
<1>11. Len(clean) \div 2 = n
  BY <1>2, <1>10
<1>12. ASSUME NEW k \in 1..n PROVE 16 * clean[2 * k - 1] + clean[2 * k] = text[k]
  <2>1. 2 * k - 1 \in 1..2 * n /\ 2 * k \in 1..2 * n
    BY <1>2
  <2>2. clean[2 * k - 1] = text[k] \div 16 /\ clean[2 * k] = text[k] % 16
    BY <1>1, <1>10, <2>1 DEF Spells
  <2>3. text[k] \in 0..255
    OBVIOUS
  <2> QED BY <2>2, <2>3, Nibbles
<1>13. HexToUtf8(pad) = [k \in 1..n |-> 16 * clean[2 * k - 1] + clean[2 * k]]
  BY <1>11 DEF HexToUtf8, clean
<1>14. text = [k \in 1..n |-> text[k]]
  OBVIOUS
<1> QED BY <1>12, <1>13, <1>14 DEF pad

---------------------------------------------------------------------------
(* The wire format.                                                        *)

Width(k) == Widths[Layout[k]]

LEMMA LayoutFields ==
  /\ Len(Layout) = 8
  /\ Layout[1] = "opcode" /\ Layout[2] = "sender" /\ Layout[3] = "recipient"
  /\ Layout[4] = "shield" /\ Layout[5] = "identifier" /\ Layout[6] = "reserved"
  /\ Layout[7] = "signature" /\ Layout[8] = "type"
  BY DEF Layout

LEMMA WidthType ==
  ASSUME NEW k \in 1..8
  PROVE  Width(k) \in Nat \ {0}
<1>1. Layout[k] \in {"opcode", "sender", "recipient", "shield", "identifier", "reserved",
                     "signature", "type"}
  <2>1. k = 1 \/ k = 2 \/ k = 3 \/ k = 4 \/ k = 5 \/ k = 6 \/ k = 7 \/ k = 8
    OBVIOUS
  <2> QED BY <2>1, LayoutFields
<1> QED BY <1>1, WidthsAssumption DEF Width

\* s holds the sums of the widths in front of the first fields, up to the m-th.
Sums(s, m) ==
    s = [j \in 1..m |-> IF j = 1 THEN 0 ELSE s[j - 1] + Widths[Layout[j - 1]]]

LEMMA SumsExist ==
  ASSUME NEW m \in 1..9
  PROVE  \E s : Sums(s, m)
<1> DEFINE step == [p \in Nat \X Nat |-> IF p[1] \in 1..8 THEN p[2] + Width(p[1]) ELSE 0]
<1>1. step \in [Nat \X Nat -> Nat]
  <2>1. ASSUME NEW p \in Nat \X Nat, p[1] \in 1..8 PROVE p[2] + Width(p[1]) \in Nat
    <3>1. Width(p[1]) \in Nat
      BY <2>1, WidthType
    <3> QED BY <3>1
  <2> QED BY <2>1
<1>2. ASSUME NEW k \in 1..8, NEW n \in Nat PROVE step[<<k, n>>] = n + Width(k)
  <2>1. <<k, n>> \in Nat \X Nat
    OBVIOUS
  <2> QED BY <2>1
<1> HIDE DEF step
<1>3. PICK r : Run(r, Nat, 0, step, m)
  <2>1. 0 \in Nat /\ m \in Nat
    OBVIOUS
  <2> QED BY <1>1, <2>1, RunExists
<1> DEFINE s == [j \in 1..m |-> r[j - 1]]
<1>4. ASSUME NEW j \in 1..m
      PROVE  s[j] = IF j = 1 THEN 0 ELSE s[j - 1] + Widths[Layout[j - 1]]
  <2>1. CASE j = 1
    BY <1>3, <2>1 DEF Run
  <2>2. CASE j # 1
    <3>1. j - 1 \in 1..8 /\ j - 1 \in 0..m /\ j - 1 # 0 /\ j - 1 - 1 \in 0..m /\ j - 1 \in 1..m
      BY <2>2
    <3>2. r[j - 1] = r[j - 1 - 1] + Width(j - 1)
      <4>1. r[j - 1 - 1] \in Nat /\ r[j - 1] = step[<<j - 1, r[j - 1 - 1]>>]
        BY <1>3, <3>1 DEF Run
      <4> QED BY <1>2, <3>1, <4>1
    <3> QED BY <2>2, <3>1, <3>2 DEF Width
  <2> QED BY <2>1, <2>2
<1> HIDE DEF s
<1>5. Sums(s, m)
  <2>1. s = [j \in 1..m |-> s[j]]
    BY DEF s
  <2> QED BY <1>4, <2>1 DEF Sums
<1> QED BY <1>5

LEMMA Offsets ==
  /\ Offset(1) = 0
  /\ \A k \in 1..8 : Offset(k + 1) = Offset(k) + Width(k)
  /\ \A k \in 1..9 : Offset(k) \in Nat
<1> DEFINE s(m) == CHOOSE g : Sums(g, m)
<1>1. ASSUME NEW m \in 1..9 PROVE Sums(s(m), m) /\ Offset(m) = s(m)[m]
  BY SumsExist DEF Offset, Sums
<1> HIDE DEF s
<1>2. ASSUME NEW m \in 1..9, NEW n \in 1..9, m <= n PROVE s(n)[m] = s(m)[m]
  <2> DEFINE S == {k \in Nat : k + 1 <= m => s(n)[k + 1] = s(m)[k + 1]}
  <2>1. 0 \in S
    <3>1. 1 \in 1..n /\ 1 \in 1..m
      OBVIOUS
    <3>2. s(n)[1] = 0 /\ s(m)[1] = 0
      BY <1>1, <3>1 DEF Sums
    <3> QED BY <3>2
  <2>2. ASSUME NEW k \in Nat, k \in S PROVE k + 1 \in S
    <3> SUFFICES ASSUME k + 2 <= m PROVE s(n)[k + 2] = s(m)[k + 2]
      OBVIOUS
    <3>1. k + 2 \in 1..m /\ k + 2 \in 1..n /\ k + 2 # 1 /\ (k + 2) - 1 = k + 1
      BY <1>2
    <3>2. s(n)[k + 1] = s(m)[k + 1]
      BY <2>2
    <3>3. s(n)[k + 2] = s(n)[k + 1] + Widths[Layout[k + 1]]
      BY <1>1, <3>1 DEF Sums
    <3>4. s(m)[k + 2] = s(m)[k + 1] + Widths[Layout[k + 1]]
      BY <1>1, <3>1 DEF Sums
    <3> QED BY <3>2, <3>3, <3>4
  <2> HIDE DEF S
  <2>3. Nat \subseteq S
    BY <2>1, <2>2, InductionOver
  <2>4. m - 1 \in Nat /\ (m - 1) + 1 = m
    OBVIOUS
  <2>5. m - 1 \in S
    BY <2>3, <2>4
  <2> QED BY <2>4, <2>5 DEF S
<1>3. Offset(1) = 0
  BY <1>1 DEF Sums
<1>4. ASSUME NEW k \in 1..8 PROVE Offset(k + 1) = Offset(k) + Width(k)
  <2>1. k \in 1..9 /\ k + 1 \in 1..9 /\ k + 1 \in 1..k + 1 /\ k + 1 # 1 /\ (k + 1) - 1 = k
    OBVIOUS
  <2>2. s(k + 1)[k + 1] = s(k + 1)[k] + Width(k)
    BY <1>1, <2>1 DEF Sums, Width
  <2>3. s(k + 1)[k] = s(k)[k]
    BY <1>2, <2>1
  <2> QED BY <1>1, <2>1, <2>2, <2>3
<1>5. ASSUME NEW k \in 1..9 PROVE Offset(k) \in Nat
  <2> DEFINE S == {j \in Nat : j + 1 <= 9 => Offset(j + 1) \in Nat}
  <2>1. 0 \in S
    BY <1>3
  <2>2. ASSUME NEW j \in Nat, j \in S PROVE j + 1 \in S
    <3> SUFFICES ASSUME (j + 1) + 1 <= 9 PROVE Offset((j + 1) + 1) \in Nat
      OBVIOUS
    <3>1. j + 1 \in 1..8
      OBVIOUS
    <3>2. Offset(j + 1) \in Nat /\ Width(j + 1) \in Nat
      BY <2>2, <3>1, WidthType
    <3> QED BY <1>4, <3>1, <3>2
  <2> HIDE DEF S
  <2>3. Nat \subseteq S
    BY <2>1, <2>2, InductionOver
  <2>4. k - 1 \in Nat /\ (k - 1) + 1 = k
    OBVIOUS
  <2>5. k - 1 \in S
    BY <2>3, <2>4
  <2> QED BY <2>4, <2>5 DEF S
<1> QED BY <1>3, <1>4, <1>5

LEMMA OffsetType ==
  ASSUME NEW k \in 1..9
  PROVE  Offset(k) \in Nat
  BY Offsets

\* A field ends where a later one begins, or in front of it.
LEMMA FieldsInOrder ==
  ASSUME NEW j \in 1..9, NEW k \in 1..9, j < k
  PROVE  Offset(j) + Width(j) <= Offset(k)
<1> DEFINE S == {i \in Nat : j + 1 + i <= 9 => Offset(j) + Width(j) <= Offset(j + 1 + i)}
<1>1. j \in 1..8 /\ Offset(j) \in Nat /\ Width(j) \in Nat
  BY Offsets, WidthType
<1>2. 0 \in S
  <2>1. Offset(j + 1) = Offset(j) + Width(j) /\ j + 1 + 0 = j + 1
    BY <1>1, Offsets
  <2> QED BY <1>1, <2>1
<1>3. ASSUME NEW i \in Nat, i \in S PROVE i + 1 \in S
  <2> SUFFICES ASSUME j + 1 + (i + 1) <= 9
               PROVE  Offset(j) + Width(j) <= Offset(j + 1 + (i + 1))
    OBVIOUS
  <2>1. j + 1 + i \in 1..8 /\ j + 1 + i \in 1..9 /\ j + 1 + (i + 1) = (j + 1 + i) + 1
    OBVIOUS
  <2>2. Offset((j + 1 + i) + 1) = Offset(j + 1 + i) + Width(j + 1 + i)
    BY <2>1, Offsets
  <2>3. Width(j + 1 + i) \in Nat /\ Offset(j + 1 + i) \in Nat
    BY <2>1, WidthType, Offsets
  <2>4. Offset(j) + Width(j) <= Offset(j + 1 + i)
    BY <1>3, <2>1
  <2> QED BY <1>1, <2>1, <2>2, <2>3, <2>4
<1> HIDE DEF S
<1>4. Nat \subseteq S
  BY <1>2, <1>3, InductionOver
<1>5. k - j - 1 \in Nat /\ j + 1 + (k - j - 1) = k
  OBVIOUS
<1>6. k - j - 1 \in S
  BY <1>4, <1>5
<1> QED BY <1>5, <1>6 DEF S

LEMMA WriteIs ==
  ASSUME NEW t \in Nat, NEW buffer \in [1..t -> Nat], NEW bytes \in Seq(Nat), NEW offset \in Nat
  PROVE  /\ Write(buffer, bytes, offset) \in [1..t -> Nat]
         /\ \A p \in 1..t :
               /\ p > offset /\ p <= offset + Len(bytes) =>
                     Write(buffer, bytes, offset)[p] = bytes[p - offset]
               /\ ~(p > offset /\ p <= offset + Len(bytes)) =>
                     Write(buffer, bytes, offset)[p] = buffer[p]
<1> DEFINE new(p) == IF p > offset /\ p <= offset + Len(bytes) THEN bytes[p - offset]
                     ELSE buffer[p]
<1>1. Write(buffer, bytes, offset) = [p \in 1..t |-> new(p)]
  BY DEF Write
<1>2. ASSUME NEW p \in 1..t PROVE new(p) \in Nat
  <2>1. CASE p > offset /\ p <= offset + Len(bytes)
    <3>1. p - offset \in 1..Len(bytes)
      BY <2>1
    <3> QED BY <2>1, <3>1, ElementOfSeq
  <2>2. CASE ~(p > offset /\ p <= offset + Len(bytes))
    <3>1. buffer[p] \in Nat
      OBVIOUS
    <3> QED BY <2>2, <3>1
  <2> QED BY <2>1, <2>2
<1>3. Write(buffer, bytes, offset) \in [1..t -> Nat]
  <2> HIDE DEF new
  <2> QED BY <1>1, <1>2
<1>4. ASSUME NEW p \in 1..t PROVE Write(buffer, bytes, offset)[p] = new(p)
  BY <1>1
<1> QED BY <1>3, <1>4

LEMMA WriteType ==
  ASSUME NEW t \in Nat, NEW buffer \in [1..t -> Nat], NEW bytes \in Seq(Nat), NEW offset \in Nat
  PROVE  Write(buffer, bytes, offset) \in [1..t -> Nat]
BY WriteIs

LEMMA WritePlaces ==
  ASSUME NEW t \in Nat, NEW buffer \in [1..t -> Nat], NEW bytes \in Seq(Nat), NEW offset \in Nat,
         NEW p \in 1..t
  PROVE  /\ p > offset /\ p <= offset + Len(bytes) =>
               Write(buffer, bytes, offset)[p] = bytes[p - offset]
         /\ ~(p > offset /\ p <= offset + Len(bytes)) =>
               Write(buffer, bytes, offset)[p] = buffer[p]
BY ZenonT(30), WriteIs

Field(msg, k) == FieldBytes(msg, Layout[k])
Full(msg, k) == Len(Field(msg, k)) >= Width(k)

\* The fields hold bytes, and none is long enough to reach one that is too short.
Settled(msg) ==
    /\ msg.payload \in Seq(Nat)
    /\ \A k \in 1..8 : Field(msg, k) \in Seq(Nat)
    /\ \A j, k \in 1..8 :
          j < k /\ ~Full(msg, k) => Offset(j) + Len(Field(msg, j)) <= Offset(k)

Empty(msg) == [p \in 1..HeaderSize + Len(msg.payload) |-> NUL]

\* w holds the buffer after each of the fields.
Writes(w, msg) ==
    w = [k \in 0..Len(Layout) |->
            IF k = 0 THEN Empty(msg)
            ELSE Write(w[k - 1], FieldBytes(msg, Layout[k]), Offset(k))]

LEMMA HeaderIs == HeaderSize = Offset(9) /\ HeaderSize \in Nat
  BY LayoutFields, Offsets DEF HeaderSize

LEMMA WritesExist ==
  ASSUME NEW msg, Settled(msg)
  PROVE  \E w : /\ Writes(w, msg)
                /\ w \in [0..8 -> [1..HeaderSize + Len(msg.payload) -> Nat]]
<1> DEFINE t == HeaderSize + Len(msg.payload)
           A == [1..t -> Nat]
           step == [q \in Nat \X A |->
                       IF q[1] \in 1..8 THEN Write(q[2], Field(msg, q[1]), Offset(q[1])) ELSE q[2]]
<1>1. t \in Nat
  <2>1. Len(msg.payload) \in Nat
    BY DEF Settled
  <2> QED BY <2>1, HeaderIs
<1>2. Empty(msg) \in A
  BY DEF Empty, NUL
<1> HIDE DEF t
<1>3. ASSUME NEW k \in 1..8, NEW b \in A PROVE Write(b, Field(msg, k), Offset(k)) \in A
  <2>1. Field(msg, k) \in Seq(Nat)
    BY DEF Settled
  <2>2. Offset(k) \in Nat
    BY SMTT(30), OffsetType
  <2> DEFINE f == Field(msg, k)
             o == Offset(k)
  <2>3. b \in [1..t -> Nat] /\ f \in Seq(Nat) /\ o \in Nat
    BY <2>1, <2>2 DEF A
  <2> HIDE DEF f, o
  <2>4. Write(b, f, o) \in [1..t -> Nat]
    BY <1>1, <2>3, WriteType
  <2> QED BY <2>4 DEF A, f, o
<1> HIDE DEF A
<1>4. step \in [Nat \X A -> A]
  BY <1>3
<1>5. ASSUME NEW k \in 1..8, NEW b \in A
      PROVE  step[<<k, b>>] = Write(b, Field(msg, k), Offset(k))
  <2>1. <<k, b>> \in Nat \X A
    BY <1>5
  <2> QED BY <2>1
<1> HIDE DEF step
<1>6. PICK w : Run(w, A, Empty(msg), step, 8)
  <2>1. 8 \in Nat
    OBVIOUS
  <2> QED BY <1>2, <1>4, <2>1, RunExists
<1>7. ASSUME NEW k \in 0..8
      PROVE  w[k] = IF k = 0 THEN Empty(msg)
                    ELSE Write(w[k - 1], FieldBytes(msg, Layout[k]), Offset(k))
  <2>1. CASE k = 0
    BY <1>6, <2>1 DEF Run
  <2>2. CASE k # 0
    <3>1. k \in 1..8 /\ k - 1 \in 0..8
      BY <2>2
    <3>2. w[k - 1] \in A /\ w[k] = step[<<k, w[k - 1]>>]
      BY <1>6, <2>2, <3>1 DEF Run
    <3> QED BY <1>5, <2>2, <3>1, <3>2 DEF Field
  <2> QED BY <2>1, <2>2
<1>8. w \in [0..8 -> A]
  BY <1>6 DEF Run
<1>9. w = [k \in 0..8 |-> w[k]]
  BY <1>8
<1>10. Writes(w, msg)
  <2>1. Len(Layout) = 8
    BY LayoutFields
  <2> QED BY <1>7, <1>9, <2>1 DEF Writes
<1> QED BY <1>8, <1>10 DEF A, t

\* After the first fields, each of them stands in its place, and the place of a later
\* one that is too short is empty.
Placed(b, msg, j) ==
    /\ \A k \in 1..j : \A i \in 1..Width(k) : b[Offset(k) + i] = Fitted(Field(msg, k), Width(k))[i]
    /\ \A k \in j + 1..8 : ~Full(msg, k) => \A i \in 1..Width(k) : b[Offset(k) + i] = NUL

LEMMA PlaceInBuffer ==
  ASSUME NEW k \in 1..8, NEW i \in 1..Width(k), NEW n \in Nat
  PROVE  Offset(k) + i \in 1..HeaderSize /\ Offset(k) + i \in 1..HeaderSize + n
<1>1. Offset(k) \in Nat /\ Width(k) \in Nat /\ Offset(k) + Width(k) <= Offset(9)
  BY Offsets, WidthType, FieldsInOrder
<1>2. HeaderSize = Offset(9) /\ HeaderSize \in Nat
  BY HeaderIs
<1> QED BY <1>1, <1>2

LEMMA FieldsPlaced ==
  ASSUME NEW msg, Settled(msg), NEW w, Writes(w, msg),
         w \in [0..8 -> [1..HeaderSize + Len(msg.payload) -> Nat]]
  PROVE  Placed(w[8], msg, 8)
<1> DEFINE n == Len(msg.payload)
           t == HeaderSize + n
           S == {j \in Nat : j <= 8 => Placed(w[j], msg, j)}
<1>1. n \in Nat /\ t \in Nat
  <2>1. n \in Nat
    BY DEF Settled
  <2> QED BY <2>1, HeaderIs
<1>2. \A k \in 1..8 : Offset(k) \in Nat /\ Width(k) \in Nat /\ Field(msg, k) \in Seq(Nat)
  <2> TAKE k \in 1..8
  <2>1. Field(msg, k) \in Seq(Nat)
    BY DEF Settled
  <2>2. k \in 1..9
    OBVIOUS
  <2>3. Offset(k) \in Nat
    BY <2>2, OffsetType
  <2>4. Width(k) \in Nat
    BY WidthType
  <2> QED BY <2>1, <2>3, <2>4
<1> HIDE DEF n
<1>3. 0 \in S
  <2>1. w[0] = Empty(msg)
    BY DEF Writes
  <2>2. ASSUME NEW k \in 1..8, NEW i \in 1..Width(k) PROVE w[0][Offset(k) + i] = NUL
    <3>1. Offset(k) + i \in 1..t
      BY <1>1, PlaceInBuffer
    <3> QED BY <2>1, <3>1 DEF Empty, n
  <2>3. \A k \in 1..0 : FALSE
    OBVIOUS
  <2>4. Placed(w[0], msg, 0)
    BY <2>2, <2>3 DEF Placed
  <2> QED BY <2>4
<1>4. ASSUME NEW j \in Nat, j \in S PROVE j + 1 \in S
  <2> SUFFICES ASSUME j + 1 <= 8 PROVE Placed(w[j + 1], msg, j + 1)
    OBVIOUS
  <2> DEFINE old == w[j]
             new == w[j + 1]
             m == j + 1
             bytes == Field(msg, m)
  <2>1. m \in 1..8 /\ m \in 0..8 /\ m - 1 = j /\ m # 0 /\ j \in 0..8 /\ m = j + 1
    OBVIOUS
  <2>2. new = Write(old, bytes, Offset(m))
    <3>1. m \in 0..Len(Layout)
      BY <2>1, LayoutFields
    <3> QED BY <2>1, <3>1 DEF Writes, Field
  <2>3. Placed(old, msg, j)
    BY <1>4
  <2>4. old \in [1..t -> Nat]
    BY <2>1 DEF n
  <2> HIDE DEF old, new, bytes, t, m
  <2>5. \A p \in 1..t :
           /\ p > Offset(m) /\ p <= Offset(m) + Len(bytes) => new[p] = bytes[p - Offset(m)]
           /\ ~(p > Offset(m) /\ p <= Offset(m) + Len(bytes)) => new[p] = old[p]
    <3>1. bytes \in Seq(Nat) /\ Offset(m) \in Nat
      BY <1>2, <2>1 DEF bytes
    <3>2. t \in Nat
      BY <1>1 DEF t
    <3>3. \A p \in 1..t :
             /\ p > Offset(m) /\ p <= Offset(m) + Len(bytes) =>
                   Write(old, bytes, Offset(m))[p] = bytes[p - Offset(m)]
             /\ ~(p > Offset(m) /\ p <= Offset(m) + Len(bytes)) =>
                   Write(old, bytes, Offset(m))[p] = old[p]
      <4> DEFINE o == Offset(m)
      <4>1. o \in Nat
        BY <3>1
      <4> HIDE DEF o
      <4>2. ASSUME NEW p \in 1..t
            PROVE  /\ p > o /\ p <= o + Len(bytes) => Write(old, bytes, o)[p] = bytes[p - o]
                   /\ ~(p > o /\ p <= o + Len(bytes)) => Write(old, bytes, o)[p] = old[p]
        BY ZenonT(30), <2>4, <3>1, <3>2, <4>1, WritePlaces
      <4> QED BY <4>2 DEF o
    <3> QED BY <2>2, <3>3
  <2>6. \A k \in 1..8 : \A i \in 1..Width(k) : Offset(k) + i \in 1..t
    BY <1>1, PlaceInBuffer DEF t
  <2>7. Len(bytes) \in Nat
    BY <1>2, <2>1 DEF bytes
  <2>8. ASSUME NEW k \in 1..m, NEW i \in 1..Width(k)
        PROVE  new[Offset(k) + i] = Fitted(Field(msg, k), Width(k))[i]
    <3>1. k \in 1..8 /\ Offset(k) \in Nat /\ Width(k) \in Nat /\ Offset(m) \in Nat /\ i \in Nat
      <4>1. k \in 1..8
        BY <2>1
      <4>2. Width(k) \in Nat
        BY <1>2, <4>1
      <4>3. i \in Nat
        BY <4>2
      <4> QED BY <1>2, <2>1, <4>1, <4>2, <4>3
    <3>2. CASE k < m
      <4>1. Offset(k) + Width(k) <= Offset(m)
        <5>1. k \in 1..9 /\ m \in 1..9
          BY <2>1, <3>1
        <5> QED BY <3>2, <5>1, FieldsInOrder
      <4>2. ~(Offset(k) + i > Offset(m))
        BY <3>1, <4>1
      <4>3. new[Offset(k) + i] = old[Offset(k) + i]
        BY <2>5, <2>6, <3>1, <4>2
      <4>4. k \in 1..j
        BY <2>1, <3>2
      <4> QED BY <2>3, <4>3, <4>4 DEF Placed
    <3>3. CASE k = m
      <4>1. Offset(m) + i \in 1..t /\ Offset(m) + i > Offset(m) /\ Offset(m) + i - Offset(m) = i
        BY SMTT(30), <2>6, <3>1, <3>3
      <4>2. Fitted(bytes, Width(m))[i] = IF i <= Len(bytes) THEN bytes[i] ELSE NUL
        BY <3>3 DEF Fitted
      <4>3. CASE i <= Len(bytes)
        <5>1. Offset(m) + i <= Offset(m) + Len(bytes)
          <6> DEFINE o == Offset(m)
                     l == Len(bytes)
          <6>1. o \in Nat /\ l \in Nat /\ i \in Nat /\ i <= l
            BY <2>7, <3>1, <4>3
          <6> HIDE DEF o, l
          <6>2. o + i <= o + l
            BY <6>1
          <6> QED BY <6>2 DEF o, l
        <5>2. new[Offset(m) + i] = bytes[i]
          <6> DEFINE p == Offset(m) + i
          <6>1. p \in 1..t /\ p > Offset(m) /\ p <= Offset(m) + Len(bytes)
            BY <4>1, <5>1
          <6>2. p - Offset(m) = i
            BY <3>1
          <6> HIDE DEF p
          <6>3. new[p] = bytes[p - Offset(m)]
            BY <2>5, <6>1
          <6> QED BY <6>2, <6>3 DEF p
        <5> QED BY <3>3, <4>2, <4>3, <5>2 DEF bytes
      <4>4. CASE ~(i <= Len(bytes))
        <5>1. ~(Offset(m) + i <= Offset(m) + Len(bytes))
          BY <2>7, <3>1, <4>4
        <5>2. new[Offset(m) + i] = old[Offset(m) + i]
          BY <2>5, <4>1, <5>1
        <5>3. ~Full(msg, m)
          <6>1. i <= Width(m)
            BY <3>1, <3>3
          <6> QED BY <2>7, <3>1, <3>3, <4>4, <6>1 DEF Full, bytes
        <5>4. m \in j + 1..8
          BY <2>1
        <5>5. old[Offset(m) + i] = NUL
          BY <2>3, <3>3, <5>3, <5>4 DEF Placed
        <5> QED BY <3>3, <4>2, <4>4, <5>2, <5>5 DEF bytes
      <4> QED BY <4>3, <4>4
    <3> QED BY <2>1, <3>2, <3>3
  <2>9. ASSUME NEW k \in m + 1..8, ~Full(msg, k), NEW i \in 1..Width(k)
        PROVE  new[Offset(k) + i] = NUL
    <3>1. k \in 1..8 /\ k \in j + 1..8 /\ m < k /\ Offset(k) \in Nat /\ Width(k) \in Nat
          /\ Offset(m) \in Nat /\ i \in Nat /\ i >= 1
      <4>1. k \in 1..8 /\ k \in j + 1..8 /\ m < k
        BY <2>1
      <4>2. Width(k) \in Nat
        BY <1>2, <4>1
      <4>3. i \in Nat /\ i >= 1
        BY <4>2
      <4> QED BY <1>2, <2>1, <4>1, <4>2, <4>3
    <3>2. Offset(m) + Len(bytes) <= Offset(k)
      BY <2>1, <2>9, <3>1 DEF Settled, bytes
    <3>3. ~(Offset(k) + i <= Offset(m) + Len(bytes))
      BY <2>7, <3>1, <3>2
    <3>4. new[Offset(k) + i] = old[Offset(k) + i]
      BY <2>5, <2>6, <3>1, <3>3
    <3>5. old[Offset(k) + i] = NUL
      BY <2>3, <2>9, <3>1 DEF Placed
    <3> QED BY <3>4, <3>5
  <2>10. Placed(new, msg, m)
    BY <2>8, <2>9 DEF Placed
  <2> QED BY <2>10 DEF new, m
<1> HIDE DEF S
<1>5. Nat \subseteq S
  BY <1>3, <1>4, InductionOver
<1>6. 8 \in S
  BY <1>5
<1> QED BY <1>6 DEF S

LEMMA FittedIs ==
  ASSUME NEW bytes \in Seq(Nat), NEW n \in Nat
  PROVE  /\ Fitted(bytes, n) \in Seq(Nat) /\ Len(Fitted(bytes, n)) = n
         /\ \A i \in 1..n : Fitted(bytes, n)[i] = IF i <= Len(bytes) THEN bytes[i] ELSE NUL
<1> DEFINE at(i) == IF i <= Len(bytes) THEN bytes[i] ELSE NUL
<1>1. ASSUME NEW i \in 1..n PROVE at(i) \in Nat
  <2>1. CASE i <= Len(bytes)
    <3>1. i \in 1..Len(bytes)
      BY <2>1
    <3> QED BY <2>1, <3>1
  <2>2. CASE ~(i <= Len(bytes))
    BY <2>2 DEF NUL
  <2> QED BY <2>1, <2>2
<1>2. Fitted(bytes, n) = [i \in 1..n |-> at(i)]
  BY DEF Fitted
<1> HIDE DEF at
<1>3. Fitted(bytes, n) \in Seq(Nat) /\ Len(Fitted(bytes, n)) = n
  BY <1>1, <1>2
<1>4. \A i \in 1..n : Fitted(bytes, n)[i] = at(i)
  BY <1>2
<1> QED BY <1>3, <1>4 DEF at

LEMMA MarshalPlaces ==
  ASSUME NEW msg, Settled(msg)
  PROVE  \E b \in [1..HeaderSize + Len(msg.payload) -> Nat] :
            /\ Placed(b, msg, 8)
            /\ MarshalProtocolMessage(msg) = Write(b, PayloadBytes(msg), HeaderSize)
<1> DEFINE w == CHOOSE g : Writes(g, msg)
<1>1. Writes(w, msg)
  BY WritesExist
<1>2. MarshalProtocolMessage(msg) = Write(w[Len(Layout)], PayloadBytes(msg), HeaderSize)
  BY DEF MarshalProtocolMessage, Writes, Empty
<1> HIDE DEF w
<1>3. w \in [0..8 -> [1..HeaderSize + Len(msg.payload) -> Nat]]
  <2>1. PICK v : Writes(v, msg) /\ v \in [0..8 -> [1..HeaderSize + Len(msg.payload) -> Nat]]
    BY WritesExist
  <2> DEFINE S == {j \in Nat : j <= 8 => w[j] = v[j]}
  <2>2. Len(Layout) = 8
    BY LayoutFields
  <2>3. 0 \in S
    BY <1>1, <2>1, <2>2 DEF Writes
  <2>4. ASSUME NEW j \in Nat, j \in S PROVE j + 1 \in S
    <3> SUFFICES ASSUME j + 1 <= 8 PROVE w[j + 1] = v[j + 1]
      OBVIOUS
    <3>1. j + 1 \in 0..Len(Layout) /\ j + 1 # 0 /\ (j + 1) - 1 = j /\ w[j] = v[j]
      BY <2>2, <2>4
    <3>2. w[j + 1] = Write(w[j], FieldBytes(msg, Layout[j + 1]), Offset(j + 1))
      BY <1>1, <3>1 DEF Writes
    <3>3. v[j + 1] = Write(v[j], FieldBytes(msg, Layout[j + 1]), Offset(j + 1))
      BY <2>1, <3>1 DEF Writes
    <3> QED BY <3>1, <3>2, <3>3
  <2> HIDE DEF S
  <2>5. Nat \subseteq S
    BY <2>3, <2>4, InductionOver
  <2>6. \A j \in 0..8 : w[j] = v[j]
    BY <2>5 DEF S
  <2>7. w = [j \in 0..8 |-> w[j]]
    BY <1>1, <2>2 DEF Writes
  <2> QED BY <2>1, <2>6, <2>7
<1>4. Placed(w[8], msg, 8)
  BY <1>1, <1>3, FieldsPlaced
<1>5. w[8] \in [1..HeaderSize + Len(msg.payload) -> Nat] /\ Len(Layout) = 8
  BY <1>3, LayoutFields
<1> QED BY <1>2, <1>4, <1>5

\* Each field is read as it was written, cut or filled up to its width.
LEMMA FieldReturns ==
  ASSUME NEW msg, Settled(msg), NEW k \in 1..8
  PROVE  SubSeq(MarshalProtocolMessage(msg), Offset(k) + 1, Offset(k) + Width(k))
            = Fitted(Field(msg, k), Width(k))
<1> DEFINE buffer == MarshalProtocolMessage(msg)
           t == HeaderSize + Len(msg.payload)
           o == Offset(k)
           n == Width(k)
           fitted == Fitted(Field(msg, k), n)
           read == SubSeq(buffer, o + 1, o + n)
<1>1. PICK b \in [1..t -> Nat] :
         Placed(b, msg, 8) /\ buffer = Write(b, PayloadBytes(msg), HeaderSize)
  BY MarshalPlaces
<1>2. o \in Nat /\ n \in Nat /\ Field(msg, k) \in Seq(Nat)
  <2>1. k \in 1..9
    OBVIOUS
  <2>2. Field(msg, k) \in Seq(Nat)
    BY DEF Settled
  <2> QED BY <2>1, <2>2, OffsetType, WidthType
<1>3. fitted \in Seq(Nat) /\ Len(fitted) = n
  BY <1>2, FittedIs
<1>4. ASSUME NEW i \in 1..n PROVE buffer[o + i] = fitted[i] /\ fitted[i] \in Nat
  <2>1. o + i \in 1..HeaderSize /\ o + i \in 1..t
    <3>1. Len(msg.payload) \in Nat
      BY DEF Settled
    <3> QED BY <3>1, PlaceInBuffer
  <2>2. ~(o + i > HeaderSize)
    BY <2>1, HeaderIs
  <2>3. buffer[o + i] = b[o + i]
    BY <1>1, <2>1, <2>2 DEF Write
  <2>4. b[o + i] = fitted[i]
    BY <1>1 DEF Placed
  <2>5. b[o + i] \in Nat
    BY <1>1, <2>1
  <2> QED BY <2>3, <2>4, <2>5
<1> HIDE DEF buffer, o, n, fitted, t
<1>5. ASSUME NEW p \in o + 1..o + n PROVE buffer[p] \in Nat
  <2>1. p - o \in 1..n /\ o + (p - o) = p
    BY <1>2
  <2> QED BY <1>4, <2>1
<1>6. read \in Seq(Nat) /\ Len(read) = n /\ \A i \in 1..n : read[i] = buffer[o + i]
  <2> DEFINE a == o + 1
             e == o + n
  <2>1. read = SubSeq(buffer, a, e)
    OBVIOUS
  <2>2. a \in Int /\ e \in Int
    BY <1>2
  <2>3. \A p \in a..e : buffer[p] \in Nat
    BY <1>2, <1>5
  <2>4. e - a + 1 = n /\ (a <= e \/ n = 0) /\ \A i \in 1..n : a + i - 1 = o + i
    BY <1>2
  <2> HIDE DEF a, e, read
  <2>5. /\ SubSeq(buffer, a, e) \in Seq(Nat)
        /\ Len(SubSeq(buffer, a, e)) = IF a <= e THEN e - a + 1 ELSE 0
        /\ \A i \in 1..e - a + 1 : SubSeq(buffer, a, e)[i] = buffer[a + i - 1]
    BY <2>2, <2>3, SubSeqProperties
  <2>6. Len(read) = n
    BY <2>1, <2>4, <2>5
  <2>7. ASSUME NEW i \in 1..n PROVE read[i] = buffer[o + i]
    <3>1. read[i] = buffer[a + i - 1]
      BY <2>1, <2>4, <2>5
    <3> QED BY <2>4, <3>1
  <2> QED BY <2>1, <2>5, <2>6, <2>7
<1>7. Len(read) = n
  BY <1>6
<1>8. ASSUME NEW i \in 1..n PROVE read[i] = fitted[i]
  BY <1>4, <1>6
<1>9. read = fitted
  <2> HIDE DEF read
  <2>1. \A i \in 1..Len(read) : read[i] = fitted[i]
    BY <1>7, <1>8
  <2>2. read \in Seq(Nat) /\ fitted \in Seq(Nat) /\ Len(read) = Len(fitted)
    BY <1>3, <1>6, <1>7
  <2> QED BY <2>1, <2>2, SeqEqual
<1> QED BY <1>9 DEF buffer, o, n, fitted

\* What follows the header is the payload, when as many bytes of it are written.
LEMMA PayloadReturns ==
  ASSUME NEW msg, Settled(msg), PayloadBytes(msg) = msg.payload
  PROVE  SubSeq(MarshalProtocolMessage(msg), HeaderSize + 1, Len(MarshalProtocolMessage(msg)))
            = msg.payload
<1> DEFINE buffer == MarshalProtocolMessage(msg)
           payload == msg.payload
           h == HeaderSize
           l == Len(payload)
           read == SubSeq(buffer, h + 1, Len(buffer))
<1>1. PICK b \in [1..h + l -> Nat] : buffer = Write(b, payload, h)
  BY MarshalPlaces
<1>2. h \in Nat /\ payload \in Seq(Nat) /\ l \in Nat
  <2>1. h \in Nat
    BY HeaderIs
  <2>2. payload \in Seq(Nat)
    BY DEF Settled
  <2> HIDE DEF payload
  <2>3. l \in Nat
    BY <2>2
  <2> QED BY <2>1, <2>2, <2>3
<1> HIDE DEF buffer, payload, h
<1>3. /\ buffer \in [1..h + l -> Nat]
      /\ \A p \in 1..h + l : p > h /\ p <= h + l => buffer[p] = payload[p - h]
  <2> DEFINE t == h + l
  <2>1. t \in Nat /\ t = h + Len(payload)
    BY <1>2
  <2>2. b \in [1..t -> Nat]
    BY <1>1
  <2> HIDE DEF t
  <2>3. Write(b, payload, h) \in [1..t -> Nat]
    BY <1>2, <2>1, <2>2, WriteType
  <2>4. ASSUME NEW p \in 1..t, p > h, p <= t PROVE Write(b, payload, h)[p] = payload[p - h]
    BY ZenonT(30), <1>2, <2>1, <2>2, <2>4, WritePlaces
  <2> QED BY <1>1, <2>3, <2>4 DEF t
<1>4. Len(buffer) = h + l
  <2>1. buffer = [p \in 1..h + l |-> buffer[p]] /\ \A p \in 1..h + l : buffer[p] \in Nat
    BY <1>3
  <2>2. h + l \in Nat
    BY <1>2
  <2>3. buffer \in Seq(Nat) /\ DOMAIN buffer = 1..h + l
    BY <1>3, <2>2
  <2> QED BY <2>2, <2>3
<1> HIDE DEF l
<1>5. ASSUME NEW i \in 1..l PROVE buffer[h + i] = payload[i]
  <2> DEFINE p == h + i
  <2>1. p \in 1..h + l /\ p > h /\ p <= h + l /\ p - h = i
    BY <1>2
  <2> HIDE DEF p
  <2>2. buffer[p] = payload[p - h]
    BY <1>3, <2>1
  <2> QED BY <2>1, <2>2 DEF p
<1>6. read \in Seq(Nat) /\ Len(read) = l /\ \A i \in 1..l : read[i] = buffer[h + i]
  <2> DEFINE a == h + 1
             e == h + l
  <2>1. read = SubSeq(buffer, a, e)
    BY <1>4
  <2>2. a \in Int /\ e \in Int
    BY <1>2
  <2>3. \A p \in a..e : buffer[p] \in Nat
    BY <1>2, <1>3
  <2>4. e - a + 1 = l /\ (a <= e \/ l = 0) /\ \A i \in 1..l : a + i - 1 = h + i
    BY <1>2
  <2> HIDE DEF a, e, read
  <2>5. /\ SubSeq(buffer, a, e) \in Seq(Nat)
        /\ Len(SubSeq(buffer, a, e)) = IF a <= e THEN e - a + 1 ELSE 0
        /\ \A i \in 1..e - a + 1 : SubSeq(buffer, a, e)[i] = buffer[a + i - 1]
    BY <2>2, <2>3, SubSeqProperties
  <2>6. Len(read) = l
    BY <2>1, <2>4, <2>5
  <2>7. ASSUME NEW i \in 1..l PROVE read[i] = buffer[h + i]
    <3>1. read[i] = buffer[a + i - 1]
      BY <2>1, <2>4, <2>5
    <3> QED BY <2>4, <3>1
  <2> QED BY <2>1, <2>5, <2>6, <2>7
<1>7. Len(read) = l
  BY <1>6
<1>8. ASSUME NEW i \in 1..l PROVE read[i] = payload[i]
  BY <1>5, <1>6
<1>9. read = payload
  <2> HIDE DEF read
  <2>1. \A i \in 1..Len(read) : read[i] = payload[i]
    BY <1>7, <1>8
  <2>2. read \in Seq(Nat) /\ payload \in Seq(Nat) /\ Len(read) = Len(payload)
    BY <1>2, <1>6, <1>7 DEF l
  <2> QED BY <2>1, <2>2, SeqEqual
<1> QED BY <1>9 DEF buffer, payload, h

\* g holds what is kept of the first bytes.
Kept(g, bytes) ==
    g = [k \in 0..Len(bytes) |->
            IF k = 0 THEN <<>>
            ELSE IF bytes[k] = NUL THEN g[k - 1] ELSE Append(g[k - 1], bytes[k])]

LEMMA KeptExist ==
  ASSUME NEW bytes \in Seq(Nat)
  PROVE  \E g : Kept(g, bytes)
<1> DEFINE n == Len(bytes)
           A == Seq(Nat)
           step == [q \in Nat \X A |->
                       IF q[1] \notin 1..n \/ bytes[q[1]] = NUL THEN q[2]
                       ELSE Append(q[2], bytes[q[1]])]
<1>1. n \in Nat /\ \A k \in 1..n : bytes[k] \in Nat
  OBVIOUS
<1> HIDE DEF n
<1>2. step \in [Nat \X A -> A]
  <2>1. ASSUME NEW k \in 1..n, NEW s \in A PROVE Append(s, bytes[k]) \in A
    <3>1. bytes[k] \in Nat
      BY <1>1
    <3> QED BY <3>1
  <2> HIDE DEF A
  <2> QED BY <2>1
<1>3. ASSUME NEW k \in 1..n, NEW s \in A
      PROVE  step[<<k, s>>] = IF bytes[k] = NUL THEN s ELSE Append(s, bytes[k])
  <2>1. <<k, s>> \in Nat \X A
    BY <1>3
  <2> QED BY <2>1
<1> HIDE DEF step
<1>4. PICK g : Run(g, A, <<>>, step, n)
  <2>1. <<>> \in A
    OBVIOUS
  <2> QED BY <1>1, <1>2, <2>1, RunExists
<1> HIDE DEF A
<1>5. ASSUME NEW k \in 0..n
      PROVE  g[k] = IF k = 0 THEN <<>>
                    ELSE IF bytes[k] = NUL THEN g[k - 1] ELSE Append(g[k - 1], bytes[k])
  <2>1. CASE k = 0
    BY <1>4, <2>1 DEF Run
  <2>2. CASE k # 0
    <3>1. k \in 1..n /\ k - 1 \in 0..n
      BY <1>1, <2>2
    <3>2. g[k - 1] \in A /\ g[k] = step[<<k, g[k - 1]>>]
      BY <1>4, <2>2, <3>1 DEF Run
    <3> QED BY <1>3, <2>2, <3>1, <3>2
  <2> QED BY <2>1, <2>2
<1>6. g = [k \in 0..n |-> g[k]]
  BY <1>4 DEF Run
<1>7. Kept(g, bytes)
  BY <1>5, <1>6 DEF Kept, n
<1> QED BY <1>7

LEMMA OpcodeReturns ==
  ASSUME NEW s \in Seq(Nat), NEW n \in Nat, Len(s) <= n, \A k \in DOMAIN s : s[k] # NUL
  PROVE  WithoutNULs(Fitted(s, n)) = s
<1> DEFINE bytes == Fitted(s, n)
           g == CHOOSE h : Kept(h, bytes)
           l == Len(s)
           first(k) == SubSeq(s, 1, IF k <= l THEN k ELSE l)
           S == {k \in Nat : k <= n => g[k] = first(k)}
<1>1. /\ bytes \in Seq(Nat) /\ Len(bytes) = n
      /\ \A i \in 1..n : bytes[i] = IF i <= Len(s) THEN s[i] ELSE NUL
  BY FittedIs
<1>2. l \in Nat /\ l <= n /\ DOMAIN s = 1..l
  OBVIOUS
<1> HIDE DEF bytes
<1>3. Kept(g, bytes)
  BY <1>1, KeptExist
<1>4. WithoutNULs(bytes) = g[n]
  BY <1>1 DEF WithoutNULs, Kept
<1> HIDE DEF g
<1>5. 0 \in S
  <2>1. g[0] = <<>>
    BY <1>1, <1>3 DEF Kept
  <2>2. SubSeq(s, 1, 0) = <<>>
    BY SubSeqEmpty
  <2>3. first(0) = <<>>
    BY <1>2, <2>2
  <2> HIDE DEF first
  <2> QED BY <2>1, <2>3
<1>6. ASSUME NEW k \in Nat, k \in S PROVE k + 1 \in S
  <2> SUFFICES ASSUME k + 1 <= n PROVE g[k + 1] = first(k + 1)
    OBVIOUS
  <2>1. k + 1 \in 0..n /\ k + 1 # 0 /\ (k + 1) - 1 = k /\ k + 1 \in 1..n /\ k <= n
    OBVIOUS
  <2>2. g[k] = first(k)
    BY <1>6, <2>1
  <2>3. g[k + 1] = IF bytes[k + 1] = NUL THEN g[k] ELSE Append(g[k], bytes[k + 1])
    BY <1>1, <1>3, <2>1 DEF Kept
  <2>4. CASE k + 1 <= l
    <3>1. k + 1 \in 1..l /\ k <= l
      BY <1>2, <2>4
    <3>2. bytes[k + 1] = s[k + 1] /\ s[k + 1] # NUL
      BY <1>1, <1>2, <2>1, <3>1
    <3>3. first(k) = SubSeq(s, 1, k) /\ first(k + 1) = SubSeq(s, 1, k + 1)
      BY <2>4, <3>1
    <3> HIDE DEF first
    <3>4. SubSeq(s, 1, k + 1) = SubSeq(s, 1, (k + 1) - 1) \o <<s[k + 1]>>
      <4>1. 1 \in 1..Len(s) /\ k + 1 \in 1..Len(s)
        BY <1>2, <3>1 DEF l
      <4> QED BY <4>1, SubSeqRecursiveSecond
    <3>5. SubSeq(s, 1, k) \in Seq(Nat) /\ s[k + 1] \in Nat
      BY <1>2, <3>1
    <3>6. Append(SubSeq(s, 1, k), s[k + 1]) = SubSeq(s, 1, k) \o <<s[k + 1]>>
      BY <3>5
    <3>7. g[k + 1] = Append(g[k], s[k + 1])
      BY <2>3, <3>2
    <3> QED BY <2>1, <2>2, <3>3, <3>4, <3>6, <3>7
  <2>5. CASE ~(k + 1 <= l)
    <3>1. bytes[k + 1] = NUL
      BY <1>1, <2>1, <2>5 DEF l
    <3>2. k + 1 > l /\ (k <= l => k = l)
      <4>1. l \in Nat /\ ~(k + 1 <= l)
        BY <1>2, <2>5
      <4> HIDE DEF l
      <4> QED BY <4>1
    <3>3. first(k + 1) = SubSeq(s, 1, l) /\ first(k) = SubSeq(s, 1, l)
      <4> HIDE DEF l
      <4> QED BY <2>5, <3>2
    <3> HIDE DEF first
    <3> QED BY <2>2, <2>3, <3>1, <3>3
  <2> QED BY <2>4, <2>5
<1> HIDE DEF S
<1>7. Nat \subseteq S
  BY <1>5, <1>6, InductionOver
<1>8. g[n] = first(n)
  BY <1>7 DEF S
<1>9. first(n) = SubSeq(s, 1, l)
  <2>1. n <= l => n = l
    <3>1. l \in Nat /\ l <= n
      BY <1>2
    <3> HIDE DEF l
    <3> QED BY <3>1
  <2> HIDE DEF l
  <2> QED BY <2>1
<1>10. SubSeq(s, 1, l) = s
  BY SubSeqFull DEF l
<1> QED BY <1>4, <1>8, <1>9, <1>10 DEF bytes

Encoded(b) == IF High(b) THEN <<194 + (b \div 192), 128 + (b % 64)>> ELSE <<b>>

\* g holds what is written of the first bytes, as long as there is room.
Encodes(g, bytes, room) ==
    g = [k \in 0..Len(bytes) |->
            IF k = 0 THEN [out |-> <<>>, full |-> FALSE]
            ELSE LET old == g[k - 1]
                     new == old.out \o Encoded(bytes[k])
                 IN  IF old.full \/ Len(new) > room THEN [out |-> old.out, full |-> TRUE]
                     ELSE [out |-> new, full |-> FALSE]]

\* One-byte characters below 128 are written as they are.
LEMMA Utf8OfLow ==
  ASSUME NEW bytes \in Seq(Nat), \A k \in DOMAIN bytes : ~High(bytes[k])
  PROVE  Utf8(bytes, Len(bytes)) = bytes
<1> DEFINE n == Len(bytes)
           state(k) == [out |-> SubSeq(bytes, 1, k), full |-> FALSE]
           h == [k \in 0..n |-> state(k)]
           g == CHOOSE f : Encodes(f, bytes, n)
           S == {k \in Nat : k <= n => g[k] = state(k)}
           turn(k, old) == LET new == old.out \o Encoded(bytes[k])
                           IN  IF old.full \/ Len(new) > n THEN [out |-> old.out, full |-> TRUE]
                               ELSE [out |-> new, full |-> FALSE]
<1>1. n \in Nat /\ DOMAIN bytes = 1..n
  OBVIOUS
<1>2. ASSUME NEW k \in 1..n PROVE turn(k, state(k - 1)) = state(k)
  <2>1. Encoded(bytes[k]) = <<bytes[k]>>
    BY <1>1 DEF Encoded
  <2>2. SubSeq(bytes, 1, k) = SubSeq(bytes, 1, k - 1) \o <<bytes[k]>>
    <3>1. 1 \in 1..Len(bytes) /\ k \in 1..Len(bytes)
      BY <1>1
    <3> QED BY <3>1, SubSeqRecursiveSecond
  <2>3. Len(SubSeq(bytes, 1, k)) = k
    OBVIOUS
  <2>4. ~(k > n)
    BY <1>1
  <2>5. state(k - 1).out = SubSeq(bytes, 1, k - 1) /\ state(k - 1).full = FALSE
    OBVIOUS
  <2> QED BY <2>1, <2>2, <2>3, <2>4, <2>5
<1>3. state(0) = [out |-> <<>>, full |-> FALSE]
  <2>1. SubSeq(bytes, 1, 0) = <<>>
    BY SubSeqEmpty
  <2> QED BY <2>1
<1> HIDE DEF state
<1>4. Encodes(h, bytes, n)
  <2>1. ASSUME NEW k \in 0..n
        PROVE  h[k] = IF k = 0 THEN [out |-> <<>>, full |-> FALSE] ELSE turn(k, h[k - 1])
    <3>1. CASE k = 0
      BY <1>3, <3>1
    <3>2. CASE k # 0
      <4>1. k \in 1..n /\ k - 1 \in 0..n
        BY <1>1, <3>2
      <4>2. h[k - 1] = state(k - 1) /\ h[k] = state(k)
        BY <4>1
      <4> HIDE DEF h, turn
      <4> QED BY <1>2, <3>2, <4>1, <4>2
    <3> QED BY <3>1, <3>2
  <2>2. h = [k \in 0..n |-> h[k]]
    OBVIOUS
  <2> HIDE DEF h
  <2> QED BY <2>1, <2>2 DEF Encodes
<1>5. Encodes(g, bytes, n)
  <2> HIDE DEF h
  <2> QED BY <1>4
<1>6. Utf8(bytes, n) = g[n].out
  BY DEF Utf8, Encodes, Encoded
<1> HIDE DEF g, h, n
<1>7. 0 \in S
  <2>1. g[0] = [out |-> <<>>, full |-> FALSE]
    BY <1>1, <1>5 DEF Encodes, n
  <2> QED BY <1>3, <2>1
<1>8. ASSUME NEW k \in Nat, k \in S PROVE k + 1 \in S
  <2> SUFFICES ASSUME k + 1 <= n PROVE g[k + 1] = state(k + 1)
    OBVIOUS
  <2>1. k + 1 \in 0..n /\ k + 1 # 0 /\ (k + 1) - 1 = k /\ k + 1 \in 1..n
    BY <1>1
  <2>2. g[k] = state(k)
    BY <1>1, <1>8, <2>1
  <2>3. g[k + 1] = turn(k + 1, g[k])
    BY <1>5, <2>1 DEF Encodes, n
  <2> HIDE DEF turn
  <2>4. turn(k + 1, state(k)) = state(k + 1)
    BY <1>2, <2>1
  <2> QED BY <2>2, <2>3, <2>4
<1> HIDE DEF S
<1>9. Nat \subseteq S
  BY <1>7, <1>8, InductionOver
<1>10. g[n] = state(n)
  BY <1>1, <1>9 DEF S
<1>11. SubSeq(bytes, 1, n) = bytes
  BY SubSeqFull DEF n
<1> QED BY <1>6, <1>10, <1>11 DEF state, n

\* The strings of the messages to send, and how long they may be.
LEMMA MessageFields ==
  ASSUME NEW msg \in Messages
  PROVE  /\ \A k \in 1..8 : Field(msg, k) \in Seq(Nat) /\ Len(Field(msg, k)) \in Nat
         /\ Field(msg, 1) = msg.opcode /\ Field(msg, 2) = msg.sender
         /\ Field(msg, 3) = msg.recipient /\ Field(msg, 4) = msg.shield
         /\ Field(msg, 5) = msg.identifier /\ Field(msg, 7) = msg.signature
         /\ Field(msg, 8) = IF msg.type = Text THEN <<49>> ELSE <<48>>
         /\ msg.type \in {Text, Binary}
         /\ msg.payload \in Seq(Nat)
         /\ \A k \in DOMAIN msg.opcode : msg.opcode[k] # NUL
         /\ Len(Field(msg, 1)) <= Width(1)
         /\ Len(Field(msg, 2)) <= Width(2) + Width(3)
         /\ Len(Field(msg, 3)) = Width(3)
         /\ Len(Field(msg, 4)) <= Width(4) + Width(5)
         /\ Len(Field(msg, 5)) = Width(5)
         /\ Len(Field(msg, 6)) = Width(6)
         /\ Len(Field(msg, 8)) = Width(8)
<1>1. /\ msg.opcode \in Content["opcode"] /\ msg.sender \in Content["sender"]
      /\ msg.recipient \in Content["recipient"] /\ msg.shield \in Content["shield"]
      /\ msg.identifier \in Content["identifier"] /\ msg.signature \in Content["signature"]
      /\ msg.type \in {Text, Binary} /\ msg.payload \in BinaryPayloads \cup TextPayloads
  BY DEF Messages, MessagesOf
<1>2. ASSUME NEW s \in Seq(0..255) PROVE s \in Seq(Nat)
  <2>1. 0..255 \subseteq Nat
    OBVIOUS
  <2> QED BY <2>1, SeqMonotonic
<1>3. /\ msg.opcode \in Seq(Nat) /\ msg.sender \in Seq(Nat) /\ msg.recipient \in Seq(Nat)
      /\ msg.shield \in Seq(Nat) /\ msg.identifier \in Seq(Nat)
      /\ msg.signature \in Seq(Nat) /\ msg.payload \in Seq(Nat)
  <2>1. /\ msg.opcode \in Seq(0..255) /\ msg.sender \in Seq(0..255)
        /\ msg.recipient \in Seq(0..255) /\ msg.shield \in Seq(0..255)
        /\ msg.identifier \in Seq(0..255) /\ msg.signature \in Seq(0..255)
    BY <1>1, ContentAssumption
  <2>2. msg.payload \in Seq(0..255)
    BY <1>1, PayloadsAssumption
  <2> QED BY <1>2, <2>1, <2>2
<1>4. /\ Len(msg.opcode) <= Widths["opcode"] /\ \A k \in DOMAIN msg.opcode : msg.opcode[k] # NUL
      /\ Len(msg.sender) <= Widths["sender"] + Widths["recipient"]
      /\ Len(msg.recipient) = Widths["recipient"]
      /\ Len(msg.shield) <= Widths["shield"] + Widths["identifier"]
      /\ Len(msg.identifier) = Widths["identifier"]
  BY <1>1, ContentAssumption
<1>5. /\ Width(1) = Widths["opcode"]
      /\ Width(2) = Widths["sender"] /\ Width(3) = Widths["recipient"]
      /\ Width(4) = Widths["shield"] /\ Width(5) = Widths["identifier"]
      /\ Width(6) = Widths["reserved"] /\ Width(8) = 1
  BY WidthsAssumption, LayoutFields DEF Width
<1> DEFINE reserved == [k \in 1..Widths["reserved"] |-> NUL]
<1>6. reserved \in Seq(Nat) /\ Len(reserved) = Widths["reserved"]
  <2>1. Widths["reserved"] \in Nat
    BY WidthsAssumption
  <2> QED BY <2>1 DEF NUL
<1>7. /\ Field(msg, 1) = msg.opcode /\ Field(msg, 2) = msg.sender
      /\ Field(msg, 3) = msg.recipient /\ Field(msg, 4) = msg.shield
      /\ Field(msg, 5) = msg.identifier /\ Field(msg, 7) = msg.signature
      /\ Field(msg, 6) = reserved
      /\ Field(msg, 8) = IF msg.type = Text THEN <<49>> ELSE <<48>>
  <2>1. \A f \in {"opcode", "sender", "recipient", "shield", "identifier", "signature"} :
           f # "reserved" /\ f # "type"
    OBVIOUS
  <2>2. /\ FieldBytes(msg, "opcode") = msg.opcode /\ FieldBytes(msg, "sender") = msg.sender
        /\ FieldBytes(msg, "recipient") = msg.recipient /\ FieldBytes(msg, "shield") = msg.shield
        /\ FieldBytes(msg, "identifier") = msg.identifier
        /\ FieldBytes(msg, "signature") = msg.signature
    BY <2>1 DEF FieldBytes
  <2>3. FieldBytes(msg, "reserved") = reserved
    BY DEF FieldBytes
  <2>4. FieldBytes(msg, "type") = IF msg.type = Text THEN <<49>> ELSE <<48>>
    BY DEF FieldBytes
  <2> HIDE DEF reserved
  <2> QED BY <2>2, <2>3, <2>4, LayoutFields DEF Field
<1> HIDE DEF reserved
<1>8. Field(msg, 8) \in Seq(Nat) /\ Len(Field(msg, 8)) = Width(8)
  <2>1. /\ Len(<<49>>) = 1 /\ Len(<<48>>) = 1
        /\ <<49>> \in Seq(Nat) /\ <<48>> \in Seq(Nat)
    OBVIOUS
  <2>2. Field(msg, 8) = <<49>> \/ Field(msg, 8) = <<48>>
    BY <1>7
  <2> QED BY <1>5, <2>1, <2>2
<1>9. ASSUME NEW k \in 1..8 PROVE Field(msg, k) \in Seq(Nat) /\ Len(Field(msg, k)) \in Nat
  <2>1. k = 1 \/ k = 2 \/ k = 3 \/ k = 4 \/ k = 5 \/ k = 6 \/ k = 7 \/ k = 8
    OBVIOUS
  <2>2. Field(msg, k) \in Seq(Nat)
    BY <1>3, <1>6, <1>7, <1>8, <2>1
  <2> QED BY <2>2
<1>10. /\ Len(Field(msg, 1)) <= Width(1)
       /\ Len(Field(msg, 2)) <= Width(2) + Width(3)
       /\ Len(Field(msg, 3)) = Width(3)
       /\ Len(Field(msg, 4)) <= Width(4) + Width(5)
       /\ Len(Field(msg, 5)) = Width(5)
       /\ Len(Field(msg, 6)) = Width(6)
  BY <1>4, <1>5, <1>6, <1>7
<1> QED BY <1>1, <1>3, <1>4, <1>7, <1>8, <1>9, <1>10

LEMMA MessageSettled ==
  ASSUME NEW msg \in Messages
  PROVE  Settled(msg)
<1> DEFINE len(k) == Len(Field(msg, k))
<1>1. \A k \in 1..8 : Width(k) \in Nat /\ Width(k) >= 1 /\ Offset(k) \in Nat /\ len(k) \in Nat
  <2> TAKE k \in 1..8
  <2>1. k \in 1..9
    OBVIOUS
  <2>2. Offset(k) \in Nat
    BY <2>1, OffsetType
  <2>3. len(k) \in Nat
    BY MessageFields
  <2>4. Width(k) \in Nat \ {0}
    BY WidthType
  <2> QED BY <2>2, <2>3, <2>4
<1>2. Full(msg, 3) /\ Full(msg, 5) /\ Full(msg, 6) /\ Full(msg, 8)
  <2>1. /\ len(3) = Width(3) /\ len(5) = Width(5)
        /\ len(6) = Width(6) /\ len(8) = Width(8)
    BY MessageFields
  <2> HIDE DEF len
  <2>2. len(3) >= Width(3) /\ len(5) >= Width(5) /\ len(6) >= Width(6) /\ len(8) >= Width(8)
    BY <1>1, <2>1
  <2> QED BY <2>2 DEF Full, len
<1>3. ASSUME NEW j \in 1..8, NEW k \in 1..8, j < k, ~Full(msg, k)
      PROVE  Offset(j) + len(j) <= Offset(k)
  <2>1. k \in {2, 4, 7} /\ j \in 1..6 /\ j \in 1..9 /\ k \in 1..9
    BY <1>2, <1>3
  <2>2. Offset(j) + Width(j) <= Offset(k)
    BY <1>3, <2>1, FieldsInOrder
  <2>3. CASE len(j) <= Width(j)
    <3>1. Width(j) \in Nat /\ Offset(j) \in Nat /\ Offset(k) \in Nat /\ len(j) \in Nat
      BY <1>1
    <3> HIDE DEF len
    <3> QED BY <2>2, <2>3, <3>1
  <2>4. CASE ~(len(j) <= Width(j))
    <3>1. j \in {2, 4} /\ len(j) <= Width(j) + Width(j + 1)
      <4>1. /\ len(1) <= Width(1) /\ len(2) <= Width(2) + Width(2 + 1) /\ len(3) = Width(3)
            /\ len(4) <= Width(4) + Width(4 + 1) /\ len(5) = Width(5) /\ len(6) = Width(6)
        <5>1. 2 + 1 = 3 /\ 4 + 1 = 5
          OBVIOUS
        <5> QED BY <5>1, MessageFields
      <4>2. j = 1 \/ j = 2 \/ j = 3 \/ j = 4 \/ j = 5 \/ j = 6
        BY <2>1
      <4> HIDE DEF len
      <4> QED BY <1>1, <2>4, <4>1, <4>2
    <3>2. j + 1 < k /\ j + 1 \in 1..9 /\ j + 1 \in 1..8
      BY <1>3, <2>1, <3>1
    <3>3. Offset(j + 1) + Width(j + 1) <= Offset(k)
      BY <2>1, <3>2, FieldsInOrder
    <3>4. Offset(j + 1) = Offset(j) + Width(j)
      BY Offsets
    <3>5. Width(j + 1) \in Nat /\ Offset(j + 1) \in Nat
      BY <1>1, <3>2
    <3> HIDE DEF len
    <3> QED BY <1>1, <3>1, <3>3, <3>4, <3>5
  <2> QED BY <2>3, <2>4
<1> QED BY <1>3, MessageFields DEF Settled

LEMMA MessageReturns ==
  ASSUME NEW msg \in Messages
  PROVE  LET read == UnmarshalProtocolMessage(MarshalProtocolMessage(msg)) IN
         /\ \A f \in {"sender", "recipient", "shield", "identifier", "signature"} :
               read[f] = Fitted(msg[f], Widths[f])
         /\ read.opcode = msg.opcode
         /\ read.type = msg.type
         /\ msg.type = Text \/ (\A k \in DOMAIN msg.payload : ~High(msg.payload[k]))
               => read.payload = msg.payload
<1> DEFINE buffer == MarshalProtocolMessage(msg)
           read == UnmarshalProtocolMessage(buffer)
           field(k) == SubSeq(buffer, Offset(k) + 1, Offset(k) + Widths[Layout[k]])
<1>1. Settled(msg)
  BY MessageSettled
<1>2. ASSUME NEW k \in 1..8 PROVE field(k) = Fitted(Field(msg, k), Width(k))
  BY <1>1, FieldReturns DEF Width
<1>3. read = [opcode     |-> WithoutNULs(field(1)),
              sender     |-> field(2),
              recipient  |-> field(3),
              shield     |-> field(4),
              identifier |-> field(5),
              signature  |-> field(7),
              type       |-> IF field(8) = <<48>> THEN Binary
                             ELSE IF field(8) = <<49>> THEN Text ELSE "null",
              payload    |-> SubSeq(buffer, HeaderSize + 1, Len(buffer))]
  BY DEF UnmarshalProtocolMessage
<1> HIDE DEF field, buffer, read
<1>4. /\ field(2) = Fitted(msg.sender, Widths["sender"])
      /\ field(3) = Fitted(msg.recipient, Widths["recipient"])
      /\ field(4) = Fitted(msg.shield, Widths["shield"])
      /\ field(5) = Fitted(msg.identifier, Widths["identifier"])
      /\ field(7) = Fitted(msg.signature, Widths["signature"])
  <2>1. 2 \in 1..8 /\ 3 \in 1..8 /\ 4 \in 1..8 /\ 5 \in 1..8 /\ 7 \in 1..8
    OBVIOUS
  <2>2. /\ Width(2) = Widths["sender"] /\ Width(3) = Widths["recipient"]
        /\ Width(4) = Widths["shield"] /\ Width(5) = Widths["identifier"]
        /\ Width(7) = Widths["signature"]
    BY LayoutFields DEF Width
  <2>3. /\ Field(msg, 2) = msg.sender /\ Field(msg, 3) = msg.recipient
        /\ Field(msg, 4) = msg.shield /\ Field(msg, 5) = msg.identifier
        /\ Field(msg, 7) = msg.signature
    BY MessageFields
  <2> QED BY <1>2, <2>1, <2>2, <2>3
<1>5. WithoutNULs(field(1)) = msg.opcode
  <2>1. 1 \in 1..8 /\ Width(1) \in Nat
    BY WidthType
  <2>2. /\ Field(msg, 1) = msg.opcode /\ msg.opcode \in Seq(Nat)
        /\ Len(msg.opcode) <= Width(1) /\ \A k \in DOMAIN msg.opcode : msg.opcode[k] # NUL
    BY <2>1, MessageFields
  <2>3. field(1) = Fitted(msg.opcode, Width(1))
    BY <1>2, <2>1, <2>2
  <2> QED BY <2>1, <2>2, <2>3, OpcodeReturns
<1>6. field(8) = IF msg.type = Text THEN <<49>> ELSE <<48>>
  <2>1. 8 \in 1..8 /\ Width(8) = 1
    BY LayoutFields, WidthsAssumption DEF Width
  <2>2. Field(msg, 8) = IF msg.type = Text THEN <<49>> ELSE <<48>>
    BY MessageFields
  <2>3. ASSUME NEW b \in Nat PROVE Fitted(<<b>>, 1) = <<b>>
    <3>1. <<b>> \in Seq(Nat) /\ Len(<<b>>) = 1 /\ 1 \in Nat
      OBVIOUS
    <3>2. /\ Fitted(<<b>>, 1) \in Seq(Nat) /\ Len(Fitted(<<b>>, 1)) = 1
          /\ \A i \in 1..1 : Fitted(<<b>>, 1)[i] = IF i <= Len(<<b>>) THEN <<b>>[i] ELSE NUL
      BY <3>1, FittedIs
    <3>3. \A i \in 1..Len(Fitted(<<b>>, 1)) : Fitted(<<b>>, 1)[i] = <<b>>[i]
      BY <3>1, <3>2
    <3> QED BY <3>1, <3>2, <3>3, SeqEqual
  <2>4. Fitted(<<49>>, 1) = <<49>> /\ Fitted(<<48>>, 1) = <<48>>
    BY <2>3
  <2> QED BY <1>2, <2>1, <2>2, <2>4
<1>7. read.type = msg.type
  <2>1. msg.type \in {Text, Binary} /\ Text # Binary
    BY MessageFields DEF Text, Binary
  <2>2. <<49>> # <<48>>
    OBVIOUS
  <2> QED BY <1>3, <1>6, <2>1, <2>2
<1>8. ASSUME msg.type = Text \/ (\A k \in DOMAIN msg.payload : ~High(msg.payload[k]))
      PROVE  read.payload = msg.payload
  <2>1. PayloadBytes(msg) = msg.payload
    <3>1. CASE msg.type = Text
      BY <3>1 DEF PayloadBytes
    <3>2. CASE msg.type # Text
      <4>1. msg.payload \in Seq(Nat)
        BY MessageFields
      <4>2. Utf8(msg.payload, Len(msg.payload)) = msg.payload
        BY <1>8, <3>2, <4>1, Utf8OfLow
      <4> QED BY <3>2, <4>2 DEF PayloadBytes
    <3> QED BY <3>1, <3>2
  <2>2. SubSeq(buffer, HeaderSize + 1, Len(buffer)) = msg.payload
    BY <1>1, <2>1, PayloadReturns DEF buffer
  <2> QED BY <1>3, <2>2
<1>9. \A f \in {"sender", "recipient", "shield", "identifier", "signature"} :
         read[f] = Fitted(msg[f], Widths[f])
  BY <1>3, <1>4
<1>10. read.opcode = msg.opcode
  BY <1>3, <1>5
<1> QED BY <1>7, <1>8, <1>9, <1>10 DEF read, buffer

---------------------------------------------------------------------------
(* The number a string of digits stands for.                               *)

\* v holds the numbers of the first digits, most significant first.
PrefixNumbers(v, str, base) ==
    /\ v \in [0..Len(str) -> Nat]
    /\ v[0] = 0
    /\ \A k \in 1..Len(str) : v[k] = base * v[k - 1] + str[k]

Values(v, str, base) ==
    v = [k \in 0..Len(str) |-> IF k = 0 THEN 0 ELSE base * v[k - 1] + str[k]]

LEMMA PrefixesExist ==
  ASSUME NEW str \in Seq(Nat), NEW base \in Nat
  PROVE  \E v : PrefixNumbers(v, str, base)
<1> DEFINE n == Len(str)
           step == [q \in Nat \X Nat |-> IF q[1] \in 1..n THEN base * q[2] + str[q[1]] ELSE 0]
<1>1. n \in Nat /\ \A k \in 1..n : str[k] \in Nat
  OBVIOUS
<1> HIDE DEF n
<1>2. step \in [Nat \X Nat -> Nat]
  <2>1. ASSUME NEW k \in 1..n, NEW m \in Nat PROVE base * m + str[k] \in Nat
    <3>1. str[k] \in Nat /\ base * m \in Nat
      BY <1>1
    <3> QED BY <3>1
  <2> QED BY <2>1
<1>3. ASSUME NEW k \in 1..n, NEW m \in Nat PROVE step[<<k, m>>] = base * m + str[k]
  <2>1. <<k, m>> \in Nat \X Nat
    OBVIOUS
  <2> QED BY <2>1
<1> HIDE DEF step
<1>4. PICK v : Run(v, Nat, 0, step, n)
  <2>1. 0 \in Nat
    OBVIOUS
  <2> QED BY <1>1, <1>2, <2>1, RunExists
<1>5. ASSUME NEW k \in 1..n PROVE v[k] = base * v[k - 1] + str[k]
  <2>1. k \in 0..n /\ k # 0 /\ k - 1 \in 0..n
    BY <1>1
  <2>2. v[k - 1] \in Nat /\ v[k] = step[<<k, v[k - 1]>>]
    BY <1>4, <2>1 DEF Run
  <2> QED BY <1>3, <2>2
<1>6. PrefixNumbers(v, str, base)
  BY <1>4, <1>5 DEF Run, PrefixNumbers, n
<1> QED BY <1>6

LEMMA ValueByPrefixes ==
  ASSUME NEW str \in Seq(Nat), NEW base \in Nat, NEW v, PrefixNumbers(v, str, base)
  PROVE  ValueIn(str, base) = v[Len(str)] /\ ValueIn(str, base) \in Nat
<1> DEFINE n == Len(str)
           w == CHOOSE u : Values(u, str, base)
           S == {k \in Nat : k <= n => w[k] = v[k]}
<1>1. n \in Nat
  OBVIOUS
<1>2. Values(v, str, base)
  <2>1. v = [k \in 0..n |-> v[k]]
    BY DEF PrefixNumbers
  <2>2. ASSUME NEW k \in 0..n
        PROVE  v[k] = IF k = 0 THEN 0 ELSE base * v[k - 1] + str[k]
    <3>1. CASE k = 0
      BY <3>1 DEF PrefixNumbers
    <3>2. CASE k # 0
      <4>1. k \in 1..n
        BY <3>2
      <4> QED BY <3>2, <4>1 DEF PrefixNumbers
    <3> QED BY <3>1, <3>2
  <2> QED BY <2>1, <2>2 DEF Values
<1>3. Values(w, str, base)
  BY <1>2
<1>4. ValueIn(str, base) = w[n]
  BY DEF ValueIn, Values
<1> HIDE DEF w, n
<1>5. 0 \in S
  <2>1. v[0] = 0 /\ w[0] = 0
    BY <1>1, <1>3 DEF PrefixNumbers, Values, n
  <2> QED BY <2>1
<1>6. ASSUME NEW k \in Nat, k \in S PROVE k + 1 \in S
  <2> SUFFICES ASSUME k + 1 <= n PROVE w[k + 1] = v[k + 1]
    OBVIOUS
  <2>1. k + 1 \in 0..n /\ k + 1 # 0 /\ (k + 1) - 1 = k /\ k + 1 \in 1..n
    BY <1>1
  <2>2. w[k] = v[k]
    BY <1>1, <1>6, <2>1
  <2>3. w[k + 1] = base * w[k] + str[k + 1]
    BY <1>3, <2>1 DEF Values, n
  <2>4. v[k + 1] = base * v[k] + str[k + 1]
    BY <2>1 DEF PrefixNumbers, n
  <2> QED BY <2>2, <2>3, <2>4
<1> HIDE DEF S
<1>7. Nat \subseteq S
  BY <1>5, <1>6, InductionOver
<1>8. w[n] = v[n] /\ v[n] \in Nat
  BY <1>1, <1>7 DEF S, PrefixNumbers, n
<1> QED BY <1>4, <1>8 DEF n

\* The number of an array of digits, least significant first.
NumberOf(x, base) == ValueIn(Reverse(x), base)

\* h holds what the digits above each place stand for.
Aboves(h, x, base) ==
    /\ h \in [0..Len(x) -> Nat]
    /\ h[Len(x)] = 0
    /\ \A i \in 1..Len(x) : h[i - 1] = x[i] + base * h[i]

LEMMA ReverseIs ==
  ASSUME NEW A, NEW x \in Seq(A)
  PROVE  /\ Reverse(x) \in Seq(A) /\ Len(Reverse(x)) = Len(x)
         /\ \A i \in 1..Len(x) : Reverse(x)[i] = x[Len(x) - i + 1]
<1> DEFINE n == Len(x)
<1>1. n \in Nat /\ \A i \in 1..n : n - i + 1 \in 1..n
  OBVIOUS
<1>2. Reverse(x) = [i \in 1..n |-> x[n - i + 1]]
  BY DEF Reverse
<1>3. \A i \in 1..n : x[n - i + 1] \in A
  BY <1>1
<1> HIDE DEF n
<1>4. Reverse(x) \in Seq(A) /\ Len(Reverse(x)) = n
  BY <1>1, <1>2, <1>3
<1> QED BY <1>2, <1>4 DEF n

LEMMA ReverseTwice ==
  ASSUME NEW A, NEW x \in Seq(A)
  PROVE  Reverse(Reverse(x)) = x
<1> DEFINE n == Len(x)
           y == Reverse(x)
           z == Reverse(y)
<1>1. n \in Nat /\ \A i \in 1..n : n - i + 1 \in 1..n /\ n - (n - i + 1) + 1 = i
  OBVIOUS
<1>2. y \in Seq(A) /\ Len(y) = n /\ \A i \in 1..n : y[i] = x[n - i + 1]
  BY ReverseIs
<1> HIDE DEF n, y
<1>3. z \in Seq(A) /\ Len(z) = n /\ \A i \in 1..n : z[i] = y[n - i + 1]
  BY <1>2, ReverseIs
<1> HIDE DEF z
<1>4. ASSUME NEW i \in 1..n PROVE z[i] = x[i]
  <2>1. y[n - i + 1] = x[n - (n - i + 1) + 1]
    BY <1>1, <1>2
  <2> QED BY <1>1, <1>3, <2>1
<1>5. z = x
  BY <1>3, <1>4, SeqEqual DEF n
<1> QED BY <1>5 DEF y, z

LEMMA AbovesExist ==
  ASSUME NEW x \in Seq(Nat), NEW base \in Nat
  PROVE  \E h : Aboves(h, x, base) /\ h[0] = NumberOf(x, base)
<1> DEFINE n == Len(x)
           y == Reverse(x)
<1>1. n \in Nat
  OBVIOUS
<1>2. y \in Seq(Nat) /\ Len(y) = n /\ \A i \in 1..n : y[i] = x[n - i + 1]
  BY ReverseIs
<1> HIDE DEF n, y
<1>3. PICK v : PrefixNumbers(v, y, base)
  BY <1>2, PrefixesExist
<1>4. NumberOf(x, base) = v[n]
  BY <1>2, <1>3, ValueByPrefixes DEF NumberOf, y
<1> DEFINE h == [i \in 0..n |-> v[n - i]]
<1>5. h \in [0..n -> Nat]
  <2>1. ASSUME NEW i \in 0..n PROVE v[n - i] \in Nat
    <3>1. n - i \in 0..n
      BY <1>1
    <3> QED BY <1>2, <1>3, <3>1 DEF PrefixNumbers
  <2> QED BY <2>1
<1>6. h[n] = 0
  <2>1. n \in 0..n /\ n - n = 0
    BY <1>1
  <2> QED BY <1>3, <2>1 DEF PrefixNumbers
<1>7. ASSUME NEW i \in 1..n PROVE h[i - 1] = x[i] + base * h[i]
  <2> DEFINE k == n - i + 1
  <2>1. k \in 1..n /\ n - (i - 1) = k /\ n - i = k - 1 /\ n - k + 1 = i /\ i \in 0..n /\ i - 1 \in 0..n
        /\ k - 1 \in 0..n
    BY <1>1
  <2>2. h[i - 1] = v[k] /\ h[i] = v[k - 1]
    BY <2>1
  <2> HIDE DEF k, h
  <2>3. v[k] = base * v[k - 1] + y[k]
    BY <1>2, <1>3, <2>1 DEF PrefixNumbers
  <2>4. y[k] = x[i]
    BY <1>2, <2>1
  <2>5. v[k - 1] \in Nat /\ x[i] \in Nat
    <3>1. v \in [0..n -> Nat]
      BY <1>2, <1>3 DEF PrefixNumbers
    <3>2. i \in 1..Len(x)
      BY DEF n
    <3> QED BY <2>1, <3>1, <3>2
  <2> QED BY <2>2, <2>3, <2>4, <2>5
<1>8. h[0] = v[n]
  BY <1>1
<1> HIDE DEF h
<1>9. Aboves(h, x, base)
  BY <1>5, <1>6, <1>7 DEF Aboves, n
<1> QED BY <1>4, <1>8, <1>9

LEMMA NumberByAboves ==
  ASSUME NEW x \in Seq(Nat), NEW base \in Nat, NEW h, Aboves(h, x, base)
  PROVE  NumberOf(x, base) = h[0] /\ NumberOf(x, base) \in Nat
<1> DEFINE n == Len(x)
           y == Reverse(x)
           v == [k \in 0..n |-> h[n - k]]
<1>1. n \in Nat
  OBVIOUS
<1>2. y \in Seq(Nat) /\ Len(y) = n /\ \A i \in 1..n : y[i] = x[n - i + 1]
  BY ReverseIs
<1>3. h \in [0..n -> Nat] /\ h[n] = 0 /\ \A i \in 1..n : h[i - 1] = x[i] + base * h[i]
  BY DEF Aboves
<1>4. \A i \in 1..n : x[i] \in Nat
  OBVIOUS
<1> HIDE DEF n, y
<1>5. v \in [0..n -> Nat]
  <2>1. ASSUME NEW k \in 0..n PROVE h[n - k] \in Nat
    <3>1. n - k \in 0..n
      BY <1>1
    <3> QED BY <1>3, <3>1
  <2> QED BY <2>1
<1>6. v[0] = 0
  <2>1. 0 \in 0..n /\ n - 0 = n
    BY <1>1
  <2> QED BY <1>3, <2>1
<1>7. ASSUME NEW k \in 1..n PROVE v[k] = base * v[k - 1] + y[k]
  <2> DEFINE i == n - k + 1
  <2>1. i \in 1..n /\ n - k = i - 1 /\ n - (k - 1) = i /\ k \in 0..n /\ k - 1 \in 0..n /\ i \in 0..n
    BY <1>1
  <2>2. v[k] = h[i - 1] /\ v[k - 1] = h[i] /\ y[k] = x[i]
    BY <1>2, <2>1
  <2> HIDE DEF i, v
  <2>3. h[i - 1] = x[i] + base * h[i] /\ h[i] \in Nat /\ x[i] \in Nat
    BY <1>3, <1>4, <2>1
  <2> QED BY <2>2, <2>3
<1>8. v[n] = h[0]
  <2>1. n \in 0..n /\ n - n = 0
    BY <1>1
  <2> QED BY <2>1
<1> HIDE DEF v
<1>9. PrefixNumbers(v, y, base)
  BY <1>2, <1>5, <1>6, <1>7 DEF PrefixNumbers
<1>10. ValueIn(y, base) = v[n] /\ ValueIn(y, base) \in Nat
  BY <1>2, <1>9, ValueByPrefixes
<1> QED BY <1>8, <1>10 DEF NumberOf, y

---------------------------------------------------------------------------
(* Adding and multiplying.                                                 *)

Digits(base) == 0..base - 1
Longer(x, y) == IF Len(x) >= Len(y) THEN Len(x) ELSE Len(y)
Digit(z, i) == IF i <= Len(z) THEN z[i] ELSE 0

\* g holds the sum of the first places and what it carries.
Sum(g, x, y, base) ==
    g = [i \in 0..Longer(x, y) |->
            IF i = 0 THEN [z |-> <<>>, carry |-> 0]
            ELSE LET old == g[i - 1]
                     zi == old.carry + Digit(x, i) + Digit(y, i)
                 IN  [z |-> Append(old.z, zi % base), carry |-> zi \div base]]

LEMMA DigitType ==
  ASSUME NEW base \in Nat \ {0}, NEW x \in Seq(Digits(base)), NEW i \in Nat \ {0}
  PROVE  Digit(x, i) \in Digits(base)
<1>1. CASE i <= Len(x)
  <2>1. i \in 1..Len(x)
    BY <1>1
  <2>2. x[i] \in Digits(base)
    BY <2>1, ElementOfSeq
  <2> QED BY <1>1, <2>2 DEF Digit
<1>2. CASE ~(i <= Len(x))
  <2>1. 0 \in Digits(base)
    BY DEF Digits
  <2> QED BY <1>2, <2>1 DEF Digit
<1> QED BY <1>1, <1>2

LEMMA PlaceSum ==
  ASSUME NEW base \in Nat \ {0}, NEW c \in 0..1, NEW d \in Digits(base), NEW e \in Digits(base)
  PROVE  /\ (c + d + e) % base \in Digits(base)
         /\ (c + d + e) \div base \in 0..1
         /\ ((c + d + e) % base) + base * ((c + d + e) \div base) = c + d + e
<1> DEFINE s == c + d + e
           q == s \div base
           r == s % base
<1>1. s \in Nat /\ s <= 2 * base - 1
  BY DEF Digits
<1>2. s = base * q + r /\ r \in 0..base - 1 /\ q \in Int
  <2>1. s \in Int
    BY <1>1
  <2> HIDE DEF s
  <2>2. s = base * (s \div base) + (s % base) /\ s % base \in 0..base - 1 /\ s \div base \in Int
    BY <2>1, DivMod
  <2> QED BY <2>2
<1> HIDE DEF s, q, r
<1>3. ~(q >= 2)
  <2> SUFFICES ASSUME q >= 2 PROVE FALSE
    OBVIOUS
  <2>1. q - 1 \in Int /\ q - 1 >= 1
    BY <1>2
  <2>2. base * (q - 1) >= base
    BY <2>1, MultipleIsLarge
  <2>3. base * q = base * (q - 1) + base
    BY <1>2
  <2> QED BY <1>1, <1>2, <2>2, <2>3
<1>4. ~(q <= -1)
  <2> SUFFICES ASSUME q <= -1 PROVE FALSE
    OBVIOUS
  <2>1. -q \in Int /\ -q >= 1
    BY <1>2
  <2>2. base * (-q) >= base
    BY <2>1, MultipleIsLarge
  <2>3. base * q = -(base * (-q))
    BY <1>2
  <2> QED BY <1>1, <1>2, <2>2, <2>3
<1>5. q \in 0..1
  BY <1>2, <1>3, <1>4
<1>6. r + base * q = s
  BY <1>1, <1>2
<1> QED BY <1>2, <1>5, <1>6 DEF s, q, r, Digits

LEMMA LongerIs ==
  ASSUME NEW A, NEW x \in Seq(A), NEW y \in Seq(A)
  PROVE  /\ Longer(x, y) \in Nat /\ Len(x) \in Nat /\ Len(y) \in Nat
         /\ Len(x) <= Longer(x, y) /\ Len(y) <= Longer(x, y)
         /\ Longer(x, y) = Len(x) \/ Longer(x, y) = Len(y)
<1>1. Len(x) \in Nat /\ Len(y) \in Nat
  OBVIOUS
<1> QED BY <1>1 DEF Longer

LEMMA SumDigits ==
  ASSUME NEW base \in Nat \ {0}, NEW x \in Seq(Digits(base)), NEW y \in Seq(Digits(base))
  PROVE  \E c \in [0..Longer(x, y) -> 0..1] :
            /\ c[0] = 0
            /\ SumOf(x, y, base).carry = c[Longer(x, y)]
            /\ SumOf(x, y, base).z \in Seq(Digits(base))
            /\ Len(SumOf(x, y, base).z) = Longer(x, y)
            /\ \A j \in 1..Longer(x, y) :
                  SumOf(x, y, base).z[j] + base * c[j] = c[j - 1] + Digit(x, j) + Digit(y, j)
<1> DEFINE n == Longer(x, y)
           D == Digits(base)
           A == [z : Seq(D), carry : 0..1]
           zi(i, old) == old.carry + Digit(x, i) + Digit(y, i)
           turn(i, old) == [z |-> Append(old.z, zi(i, old) % base), carry |-> zi(i, old) \div base]
           start == [z |-> <<>>, carry |-> 0]
           step == [q \in Nat \X A |-> IF q[1] = 0 THEN start ELSE turn(q[1], q[2])]
           g == CHOOSE h : Sum(h, x, y, base)
<1>1. n \in Nat
  BY LongerIs
<1> HIDE DEF n
<1>2. ASSUME NEW i \in Nat \ {0}, NEW old \in A
      PROVE  /\ turn(i, old) \in A
             /\ zi(i, old) % base \in D /\ zi(i, old) \div base \in 0..1
             /\ (zi(i, old) % base) + base * (zi(i, old) \div base) = zi(i, old)
  <2>1. Digit(x, i) \in D /\ Digit(y, i) \in D
    BY DigitType
  <2>2. old.z \in Seq(D) /\ old.carry \in 0..1
    OBVIOUS
  <2>3. /\ zi(i, old) % base \in D /\ zi(i, old) \div base \in 0..1
        /\ (zi(i, old) % base) + base * (zi(i, old) \div base) = zi(i, old)
    BY <2>1, <2>2, PlaceSum
  <2> HIDE DEF zi, D
  <2>4. Append(old.z, zi(i, old) % base) \in Seq(D)
    BY <2>2, <2>3
  <2> QED BY <2>3, <2>4
<1> HIDE DEF turn
<1>3. start \in A
  <2>1. <<>> \in Seq(D)
    OBVIOUS
  <2> HIDE DEF D
  <2> QED BY <2>1
<1> HIDE DEF D, start
<1>4. step \in [Nat \X A -> A]
  <2>1. ASSUME NEW q \in Nat \X A PROVE (IF q[1] = 0 THEN start ELSE turn(q[1], q[2])) \in A
    <3>1. q[1] \in Nat /\ q[2] \in A
      BY <2>1
    <3> HIDE DEF A
    <3> QED BY <1>2, <1>3, <3>1
  <2> HIDE DEF A
  <2> QED BY <2>1
<1>5. ASSUME NEW k \in Nat \ {0}, NEW old \in A PROVE step[<<k, old>>] = turn(k, old)
  <2> HIDE DEF A
  <2>1. <<k, old>> \in Nat \X A
    BY <1>5
  <2> QED BY <2>1
<1> HIDE DEF step
<1>6. \E h : Sum(h, x, y, base)
  <2> HIDE DEF A
  <2>1. PICK r : Run(r, A, start, step, n)
    BY <1>1, <1>3, <1>4, RunExists
  <2>2. ASSUME NEW i \in 0..n PROVE r[i] = IF i = 0 THEN start ELSE turn(i, r[i - 1])
    <3>1. CASE i = 0
      BY <2>1, <3>1 DEF Run
    <3>2. CASE i # 0
      <4>1. i \in Nat \ {0} /\ i - 1 \in 0..n
        BY <1>1, <3>2
      <4>2. r[i - 1] \in A /\ r[i] = step[<<i, r[i - 1]>>]
        BY <2>1, <3>2, <4>1 DEF Run
      <4> QED BY <1>5, <3>2, <4>1, <4>2
    <3> QED BY <3>1, <3>2
  <2>3. r = [i \in 0..n |-> r[i]]
    BY <2>1 DEF Run
  <2>4. Sum(r, x, y, base)
    BY <2>2, <2>3 DEF Sum, n, start, turn
  <2> QED BY <2>4
<1>7. Sum(g, x, y, base)
  BY <1>6
<1>8. SumOf(x, y, base) = g[n]
  BY DEF SumOf, Sum, n, Longer, Digit
<1> HIDE DEF g
<1>9. \A i \in 0..n : g[i] = IF i = 0 THEN start ELSE turn(i, g[i - 1])
  BY <1>7 DEF Sum, n, start, turn
<1> DEFINE Meets(k) ==
              /\ g[k] \in A
              /\ Len(g[k].z) = k
              /\ \A j \in 1..k : g[k].z[j] + base * g[j].carry
                                   = g[j - 1].carry + Digit(x, j) + Digit(y, j)
           S == {k \in Nat : k <= n => Meets(k)}
<1>10. 0 \in S
  <2>1. g[0] = start
    BY <1>1, <1>9
  <2>2. g[0].z = <<>>
    BY <2>1 DEF start
  <2>3. Meets(0)
    <3> HIDE DEF A
    <3> QED BY <1>3, <2>1, <2>2
  <2> QED BY <2>3
<1>11. ASSUME NEW k \in Nat, k \in S PROVE k + 1 \in S
  <2> SUFFICES ASSUME k + 1 <= n PROVE Meets(k + 1)
    OBVIOUS
  <2> DEFINE old == g[k]
             new == g[k + 1]
             m == k + 1
  <2>1. m \in Nat \ {0} /\ m \in 0..n /\ m - 1 = k /\ k \in Nat
    BY <1>1
  <2>2. Meets(k)
    BY <1>1, <1>11, <2>1
  <2>3. new = turn(m, old)
    BY <1>9, <2>1
  <2>4. old \in A /\ Len(old.z) = k /\ old.z \in Seq(D)
    BY <2>2
  <2> HIDE DEF m, A
  <2>5. /\ new \in A
        /\ zi(m, old) % base \in D
        /\ (zi(m, old) % base) + base * (zi(m, old) \div base) = zi(m, old)
    BY <1>2, <2>1, <2>3, <2>4
  <2>6. new.z = Append(old.z, zi(m, old) % base) /\ new.carry = zi(m, old) \div base
    BY <2>3 DEF turn
  <2> HIDE DEF zi, old, new
  <2>7. Len(new.z) = m /\ new.z[m] = zi(m, old) % base /\ \A j \in 1..k : new.z[j] = old.z[j]
    BY <2>1, <2>4, <2>5, <2>6
  <2>8. ASSUME NEW j \in 1..m
        PROVE  new.z[j] + base * g[j].carry = g[j - 1].carry + Digit(x, j) + Digit(y, j)
    <3>1. CASE j = m
      <4>1. new.z[m] + base * new.carry = zi(m, old)
        BY <2>5, <2>6, <2>7
      <4> QED BY <2>1, <3>1, <4>1 DEF zi, old, new, m
    <3>2. CASE j # m
      <4>1. j \in 1..k
        BY <2>1, <3>2
      <4> QED BY <2>2, <2>7, <4>1 DEF old
    <3> QED BY <3>1, <3>2
  <2> QED BY <2>5, <2>7, <2>8 DEF new, m
<1> HIDE DEF S, Meets
<1>12. Nat \subseteq S
  BY <1>10, <1>11, InductionOver
<1>13. ASSUME NEW k \in 0..n PROVE Meets(k)
  BY <1>1, <1>12 DEF S
<1> DEFINE c == [k \in 0..n |-> g[k].carry]
<1>14. c \in [0..n -> 0..1]
  <2>1. ASSUME NEW k \in 0..n PROVE g[k].carry \in 0..1
    BY <1>13 DEF Meets
  <2> QED BY <2>1
<1>15. c[0] = 0
  BY <1>1, <1>9 DEF start
<1>16. Meets(n)
  BY <1>1, <1>13
<1>17. g[n].z \in Seq(D) /\ Len(g[n].z) = n /\ c[n] = g[n].carry
  BY <1>1, <1>16 DEF Meets
<1>18. ASSUME NEW j \in 1..n
       PROVE  g[n].z[j] + base * c[j] = c[j - 1] + Digit(x, j) + Digit(y, j)
  <2>1. j \in 0..n /\ j - 1 \in 0..n
    BY <1>1
  <2>2. c[j] = g[j].carry /\ c[j - 1] = g[j - 1].carry
    BY <2>1
  <2> HIDE DEF c
  <2> QED BY <1>16, <2>2 DEF Meets
<1> HIDE DEF c
<1> QED BY <1>8, <1>14, <1>15, <1>17, <1>18 DEF n, D

\* An array of digits has no zero in front.
Plain(x) == Len(x) = 0 \/ x[Len(x)] # 0

LEMMA DigitsAreNat ==
  ASSUME NEW base \in Nat \ {0}, NEW x \in Seq(Digits(base))
  PROVE  x \in Seq(Nat)
<1>1. Digits(base) \subseteq Nat
  BY DEF Digits
<1> QED BY <1>1, SeqMonotonic

\* What the digits above a place stand for, zero behind the array.
Onward(e, h, x, base, n) ==
    /\ e \in [0..n -> Nat] /\ e[0] = h[0] /\ e[n] = 0
    /\ \A i \in 1..n : e[i - 1] = Digit(x, i) + base * e[i]

LEMMA AbovesOnward ==
  ASSUME NEW x \in Seq(Nat), NEW base \in Nat, NEW h, Aboves(h, x, base),
         NEW n \in Nat, Len(x) <= n
  PROVE  \E e : Onward(e, h, x, base, n)
<1> DEFINE l == Len(x)
           e == [i \in 0..n |-> IF i <= l THEN h[i] ELSE 0]
<1>1. l \in Nat /\ l <= n /\ h \in [0..l -> Nat] /\ h[l] = 0
      /\ \A i \in 1..l : h[i - 1] = x[i] + base * h[i]
  BY DEF Aboves
<1> HIDE DEF l
<1>2. e \in [0..n -> Nat]
  <2>1. ASSUME NEW i \in 0..n PROVE (IF i <= l THEN h[i] ELSE 0) \in Nat
    <3>1. i <= l => i \in 0..l
      OBVIOUS
    <3> QED BY <1>1, <3>1
  <2> QED BY <2>1
<1>3. e[0] = h[0]
  BY <1>1
<1>4. e[n] = 0
  BY <1>1
<1>5. ASSUME NEW i \in 1..n PROVE e[i - 1] = Digit(x, i) + base * e[i]
  <2>1. i \in 0..n /\ i - 1 \in 0..n
    OBVIOUS
  <2>2. CASE i <= l
    <3>1. i \in 1..l /\ i - 1 <= l
      BY <1>1, <2>2
    <3>2. e[i] = h[i] /\ e[i - 1] = h[i - 1] /\ Digit(x, i) = x[i]
      BY <2>1, <2>2, <3>1 DEF Digit, l
    <3> HIDE DEF e
    <3> QED BY <1>1, <3>1, <3>2
  <2>3. CASE ~(i <= l)
    <3>1. e[i] = 0 /\ Digit(x, i) = 0
      BY <2>1, <2>3 DEF Digit, l
    <3>2. e[i - 1] = 0
      <4>1. CASE i - 1 <= l
        <5>1. i - 1 = l
          BY <1>1, <2>3, <4>1
        <5> QED BY <1>1, <2>1, <4>1, <5>1
      <4>2. CASE ~(i - 1 <= l)
        BY <2>1, <4>2
      <4> QED BY <4>1, <4>2
    <3> HIDE DEF e
    <3> QED BY <3>1, <3>2
  <2> QED BY <2>2, <2>3
<1> HIDE DEF e
<1>6. Onward(e, h, x, base, n)
  BY <1>2, <1>3, <1>4, <1>5 DEF Onward
<1> QED BY <1>6

LEMMA AddIs ==
  ASSUME NEW base \in Nat, base >= 2, NEW x \in Seq(Digits(base)), NEW y \in Seq(Digits(base))
  PROVE  /\ Add(x, y, base) \in Seq(Digits(base))
         /\ NumberOf(Add(x, y, base), base) = NumberOf(x, base) + NumberOf(y, base)
         /\ NumberOf(x, base) \in Nat /\ NumberOf(y, base) \in Nat
         /\ Plain(x) /\ Plain(y) => Plain(Add(x, y, base))
<1> DEFINE n == Longer(x, y)
           D == Digits(base)
           z == SumOf(x, y, base).z
           carry == SumOf(x, y, base).carry
           r == Add(x, y, base)
<1>1. /\ n \in Nat /\ Len(x) \in Nat /\ Len(y) \in Nat /\ Len(x) <= n /\ Len(y) <= n
      /\ n = Len(x) \/ n = Len(y)
  BY LongerIs
<1>2. base \in Nat \ {0} /\ 0 \in D /\ 1 \in D /\ \A d \in D : d \in Nat
  BY DEF Digits
<1>3. PICK c \in [0..n -> 0..1] :
         /\ c[0] = 0 /\ carry = c[n] /\ z \in Seq(D) /\ Len(z) = n
         /\ \A j \in 1..n : z[j] + base * c[j] = c[j - 1] + Digit(x, j) + Digit(y, j)
  BY <1>2, SumDigits
<1>4. r = IF carry = 0 THEN z ELSE Append(z, carry)
  BY DEF Add
<1> HIDE DEF n, z, carry, r, D
<1>5. x \in Seq(Nat) /\ y \in Seq(Nat)
  BY <1>2, DigitsAreNat
<1>6. carry \in 0..1 /\ carry \in D /\ carry \in Nat
  <2>1. carry \in 0..1
    BY <1>1, <1>3
  <2>2. carry = 0 \/ carry = 1
    BY <2>1
  <2> QED BY <1>2, <2>1, <2>2
<1>7. r \in Seq(D)
  BY <1>3, <1>4, <1>6
<1>8. \A j \in 1..n : r[j] = z[j] /\ z[j] \in Nat
  <2>1. \A j \in 1..n : z[j] \in D
    BY <1>3
  <2>2. \A j \in 1..n : z[j] \in Nat
    BY <1>2, <2>1
  <2>3. z \in Seq(D) /\ Len(z) = n
    BY <1>3
  <2>4. \A j \in 1..n : Append(z, carry)[j] = z[j]
    BY <1>6, <2>3
  <2> QED BY <1>4, <2>2, <2>4
<1>9. PICK hx : Aboves(hx, x, base) /\ hx[0] = NumberOf(x, base)
  BY <1>5, AbovesExist
<1>10. PICK hy : Aboves(hy, y, base) /\ hy[0] = NumberOf(y, base)
  BY <1>5, AbovesExist
<1>11. PICK ex : Onward(ex, hx, x, base, n)
  <2>1. x \in Seq(Nat) /\ Aboves(hx, x, base) /\ n \in Nat /\ Len(x) <= n
    BY <1>1, <1>5, <1>9
  <2> QED BY <2>1, AbovesOnward
<1>12. PICK ey : Onward(ey, hy, y, base, n)
  <2>1. y \in Seq(Nat) /\ Aboves(hy, y, base) /\ n \in Nat /\ Len(y) <= n
    BY <1>1, <1>5, <1>10
  <2> QED BY <2>1, AbovesOnward
<1>22. /\ ex \in [0..n -> Nat] /\ ex[0] = hx[0] /\ ex[n] = 0
      /\ \A i \in 1..n : ex[i - 1] = Digit(x, i) + base * ex[i]
  BY <1>11 DEF Onward
<1>23. /\ ey \in [0..n -> Nat] /\ ey[0] = hy[0] /\ ey[n] = 0
      /\ \A i \in 1..n : ey[i - 1] = Digit(y, i) + base * ey[i]
  BY <1>12 DEF Onward
<1> DEFINE l == Len(r)
           h == [i \in 0..l |-> IF i <= n THEN ex[i] + ey[i] + c[i] ELSE 0]
<1>13. /\ carry = 0 => l = n
       /\ carry = 1 => l = n + 1 /\ r[n + 1] = 1
       /\ l \in Nat
  <2>1. z \in Seq(D) /\ Len(z) = n
    BY <1>3
  <2>2. Len(Append(z, carry)) = n + 1 /\ Append(z, carry)[n + 1] = carry
    BY <1>6, <2>1
  <2>3. l \in Nat
    BY <1>7
  <2> QED BY <1>4, <2>1, <2>2, <2>3
<1>14. n <= l /\ l <= n + 1
  BY <1>1, <1>6, <1>13
<1> HIDE DEF l
<1>15. \A i \in 0..n : ex[i] \in Nat /\ ey[i] \in Nat /\ c[i] \in Nat
  <2> TAKE i \in 0..n
  <2>1. c[i] \in 0..1
    BY <1>3
  <2>2. ex[i] \in Nat /\ ey[i] \in Nat
    BY <1>22, <1>23
  <2> QED BY <2>1, <2>2
<1>16. h \in [0..l -> Nat]
  <2>1. ASSUME NEW i \in 0..l PROVE (IF i <= n THEN ex[i] + ey[i] + c[i] ELSE 0) \in Nat
    <3>1. CASE i <= n
      <4>1. i \in 0..n
        BY <1>13, <3>1
      <4> QED BY <1>15, <3>1, <4>1
    <3>2. CASE ~(i <= n)
      BY <3>2
    <3> QED BY <3>1, <3>2
  <2> QED BY <2>1
<1>17. h[l] = 0
  <2>1. CASE carry = 0
    <3>1. l = n /\ c[n] = 0 /\ l \in 0..l
      BY <1>3, <1>13, <2>1
    <3> QED BY <1>22, <1>23, <3>1
  <2>2. CASE carry = 1
    <3>1. l = n + 1 /\ ~(l <= n) /\ l \in 0..l
      BY <1>1, <1>13, <2>2
    <3> QED BY <3>1
  <2> QED BY <1>6, <2>1, <2>2
<1>18. ASSUME NEW i \in 1..l PROVE h[i - 1] = r[i] + base * h[i]
  <2>1. i \in 0..l /\ i - 1 \in 0..l
    BY <1>13
  <2>2. CASE i <= n
    <3>1. i \in 1..n /\ i \in 0..n /\ i - 1 \in 0..n /\ i - 1 <= n
      BY <1>1, <2>2
    <3>2. h[i] = ex[i] + ey[i] + c[i] /\ h[i - 1] = ex[i - 1] + ey[i - 1] + c[i - 1]
      BY <2>1, <2>2, <3>1
    <3> DEFINE a == ex[i]
               b == ey[i]
               d == c[i]
               a1 == ex[i - 1]
               b1 == ey[i - 1]
               d1 == c[i - 1]
               dx == Digit(x, i)
               dy == Digit(y, i)
    <3>3. a1 = dx + base * a /\ b1 = dy + base * b /\ r[i] + base * d = d1 + dx + dy
      BY <1>3, <1>8, <1>22, <1>23, <3>1
    <3>4. a \in Nat /\ b \in Nat /\ d \in Nat /\ a1 \in Nat /\ b1 \in Nat /\ d1 \in Nat
          /\ r[i] \in Nat
      BY <1>8, <1>15, <3>1
    <3>5. dx \in Nat /\ dy \in Nat
      <4>1. i \in Nat \ {0}
        BY <3>1
      <4>2. dx \in Digits(base) /\ dy \in Digits(base)
        BY <1>2, <4>1, DigitType
      <4> QED BY <1>2, <4>2 DEF D
    <3> HIDE DEF h, a, b, d, a1, b1, d1, dx, dy
    <3>6. base * (a + b + d) = base * a + base * b + base * d
      BY <3>4
    <3>7. a1 + b1 + d1 = r[i] + base * (a + b + d)
      <4> DEFINE pa == base * a
                 pb == base * b
                 pd == base * d
      <4>1. pa \in Nat /\ pb \in Nat /\ pd \in Nat
        BY <3>4
      <4>2. a1 = dx + pa /\ b1 = dy + pb /\ r[i] + pd = d1 + dx + dy
        BY <3>3
      <4>3. base * (a + b + d) = pa + pb + pd
        BY <3>6
      <4> DEFINE ri == r[i]
      <4>4. ri \in Nat /\ ri + pd = d1 + dx + dy
        BY <3>4, <4>2
      <4> HIDE DEF pa, pb, pd, ri
      <4>5. a1 + b1 + d1 = ri + (pa + pb + pd)
        BY <3>4, <3>5, <4>1, <4>2, <4>4
      <4> QED BY <4>3, <4>5 DEF ri
    <3> QED BY <3>2, <3>7 DEF a, b, d, a1, b1, d1
  <2>3. CASE ~(i <= n)
    <3>1. i = n + 1 /\ l = n + 1 /\ carry = 1 /\ i - 1 = n
      BY <1>1, <1>6, <1>13, <1>14, <2>3
    <3>2. h[i] = 0
      BY <2>1, <2>3
    <3>3. h[i - 1] = 1
      <4>1. h[i - 1] = ex[n] + ey[n] + c[n]
        BY <1>1, <2>1, <3>1
      <4> HIDE DEF h
      <4>2. ex[n] = 0 /\ ey[n] = 0 /\ c[n] = 1
        BY <1>3, <1>22, <1>23, <3>1
      <4> QED BY <4>1, <4>2
    <3>4. r[i] = 1
      BY <1>13, <3>1
    <3> HIDE DEF h
    <3> QED BY <3>2, <3>3, <3>4
  <2> QED BY <2>2, <2>3
<1>19. Aboves(h, r, base)
  <2> HIDE DEF h
  <2> QED BY <1>16, <1>17, <1>18 DEF Aboves, l
<1>20. NumberOf(r, base) = NumberOf(x, base) + NumberOf(y, base)
  <2>1. r \in Seq(Nat)
    BY <1>2, <1>7, DigitsAreNat DEF D
  <2>2. NumberOf(r, base) = h[0]
    <3> HIDE DEF h
    <3> QED BY <1>19, <2>1, NumberByAboves
  <2>3. h[0] = ex[0] + ey[0] + c[0]
    BY <1>1, <1>13
  <2> HIDE DEF h
  <2>4. ex[0] \in Nat /\ ey[0] \in Nat
    BY <1>1, <1>15
  <2> QED BY <1>3, <1>9, <1>10, <1>22, <1>23, <2>2, <2>3, <2>4
<1>21. NumberOf(x, base) \in Nat /\ NumberOf(y, base) \in Nat
  BY <1>5, <1>9, <1>10, NumberByAboves
<1>24. ASSUME Plain(x), Plain(y) PROVE Plain(r)
  <2>1. CASE carry = 1
    BY <1>13, <2>1 DEF Plain, l
  <2>2. CASE carry = 0 /\ n = 0
    BY <1>13, <2>2 DEF Plain, l
  <2>3. CASE carry = 0 /\ n # 0
    <3>1. n \in 1..n /\ n \in Nat \ {0} /\ n - 1 \in 0..n /\ n \in 0..n
      BY <1>1, <2>3
    <3> DEFINE dx == Digit(x, n)
               dy == Digit(y, n)
    <3>2. dx \in Nat /\ dy \in Nat
      <4>1. dx \in Digits(base) /\ dy \in Digits(base)
        BY <1>2, <3>1, DigitType
      <4> QED BY <1>2, <4>1 DEF D
    <3>3. dx # 0 \/ dy # 0
      <4>1. CASE n = Len(x)
        <5>1. dx = x[Len(x)] /\ Len(x) # 0
          BY <1>1, <2>3, <4>1 DEF Digit
        <5> QED BY <1>24, <5>1 DEF Plain
      <4>2. CASE n = Len(y)
        <5>1. dy = y[Len(y)] /\ Len(y) # 0
          BY <1>1, <2>3, <4>2 DEF Digit
        <5> QED BY <1>24, <5>1 DEF Plain
      <4> QED BY <1>1, <4>1, <4>2
    <3>4. z[n] + base * c[n] = c[n - 1] + dx + dy /\ c[n] = 0
      BY <1>3, <2>3, <3>1
    <3>5. z[n] \in Nat /\ c[n - 1] \in Nat /\ r[n] = z[n]
      BY <1>8, <1>15, <3>1
    <3> HIDE DEF dx, dy
    <3>6. base * c[n] = 0
      BY <3>4
    <3>7. z[n] = c[n - 1] + dx + dy
      BY <3>4, <3>5, <3>6
    <3>8. r[n] # 0
      BY <3>2, <3>3, <3>5, <3>7
    <3> QED BY <1>13, <2>3, <3>8 DEF Plain, l
  <2> QED BY <1>6, <2>1, <2>2, <2>3
<1> QED BY <1>7, <1>20, <1>21, <1>24 DEF r, D

\* g holds the number still to multiply by, the result and the doubled power.
Doubles(g, num, x, base) ==
    g = [k \in 0..num |->
            IF k = 0 THEN [num |-> num, result |-> <<>>, power |-> x]
            ELSE LET old == g[k - 1] IN
                 IF old.num = 0 THEN old
                 ELSE [num    |-> old.num \div 2,
                       result |-> IF old.num % 2 = 1 THEN Add(old.result, old.power, base)
                                  ELSE old.result,
                       power  |-> Add(old.power, old.power, base)]]

LEMMA Halves ==
  ASSUME NEW m \in Nat
  PROVE  /\ m \div 2 \in Nat /\ m % 2 \in {0, 1}
         /\ m = 2 * (m \div 2) + (m % 2)
         /\ m # 0 => m \div 2 <= m - 1
  OBVIOUS

LEMMA EmptyIsZero ==
  ASSUME NEW base \in Nat
  PROVE  NumberOf(<<>>, base) = 0
<1> DEFINE h == [i \in 0..0 |-> 0]
<1>1. <<>> \in Seq(Nat) /\ Len(<<>>) = 0
  OBVIOUS
<1>2. Aboves(h, <<>>, base)
  BY <1>1 DEF Aboves
<1> HIDE DEF h
<1>3. NumberOf(<<>>, base) = h[0]
  BY <1>1, <1>2, NumberByAboves
<1> QED BY <1>3 DEF h

LEMMA MultiplyIs ==
  ASSUME NEW base \in Nat, base >= 2, NEW num \in Nat, NEW x \in Seq(Digits(base))
  PROVE  /\ MultiplyByNumber(num, x, base) \in Seq(Digits(base))
         /\ NumberOf(MultiplyByNumber(num, x, base), base) = num * NumberOf(x, base)
         /\ Plain(x) => Plain(MultiplyByNumber(num, x, base))
<1> DEFINE D == Digits(base)
           A == [num : Nat, result : Seq(D), power : Seq(D)]
           start == [num |-> num, result |-> <<>>, power |-> x]
           turn(old) == IF old.num = 0 THEN old
                        ELSE [num    |-> old.num \div 2,
                              result |-> IF old.num % 2 = 1
                                         THEN Add(old.result, old.power, base) ELSE old.result,
                              power  |-> Add(old.power, old.power, base)]
           step == [q \in Nat \X A |-> turn(q[2])]
           g == CHOOSE h : Doubles(h, num, x, base)
           Of(s) == NumberOf(s, base)
<1>1. ASSUME NEW s \in Seq(D), NEW t \in Seq(D)
      PROVE  /\ Add(s, t, base) \in Seq(D) /\ Of(Add(s, t, base)) = Of(s) + Of(t)
             /\ Of(s) \in Nat /\ Of(t) \in Nat
             /\ Plain(s) /\ Plain(t) => Plain(Add(s, t, base))
  BY AddIs
<1>2. <<>> \in Seq(D) /\ Of(<<>>) = 0 /\ Plain(<<>>)
  <2>1. Of(<<>>) = 0
    BY EmptyIsZero
  <2>2. <<>> \in Seq(D) /\ Len(<<>>) = 0
    OBVIOUS
  <2> QED BY <2>1, <2>2 DEF Plain
<1>3. x \in Seq(D)
  OBVIOUS
<1> HIDE DEF D, Of
<1>4. start \in A
  BY <1>2, <1>3
<1>5. ASSUME NEW old \in A PROVE turn(old) \in A
  <2>1. old.num \in Nat /\ old.result \in Seq(D) /\ old.power \in Seq(D)
    OBVIOUS
  <2>2. old.num \div 2 \in Nat
    BY <2>1, Halves
  <2>3. Add(old.result, old.power, base) \in Seq(D) /\ Add(old.power, old.power, base) \in Seq(D)
    BY <1>1, <2>1
  <2> QED BY <2>1, <2>2, <2>3
<1> HIDE DEF turn, A
<1>6. step \in [Nat \X A -> A]
  BY <1>5
<1>7. ASSUME NEW k \in Nat, NEW old \in A PROVE step[<<k, old>>] = turn(old)
  <2>1. <<k, old>> \in Nat \X A
    BY <1>7
  <2> QED BY <2>1
<1> HIDE DEF step, start
<1>8. \E h : Doubles(h, num, x, base)
  <2>1. PICK r : Run(r, A, start, step, num)
    BY <1>4, <1>6, RunExists
  <2>2. ASSUME NEW k \in 0..num PROVE r[k] = IF k = 0 THEN start ELSE turn(r[k - 1])
    <3>1. CASE k = 0
      BY <2>1, <3>1 DEF Run
    <3>2. CASE k # 0
      <4>1. k \in Nat /\ k - 1 \in 0..num
        BY <3>2
      <4>2. r[k - 1] \in A /\ r[k] = step[<<k, r[k - 1]>>]
        BY <2>1, <3>2, <4>1 DEF Run
      <4> QED BY <1>7, <3>2, <4>1, <4>2
    <3> QED BY <3>1, <3>2
  <2>3. r = [k \in 0..num |-> r[k]]
    BY <2>1 DEF Run
  <2>4. Doubles(r, num, x, base)
    BY <2>2, <2>3 DEF Doubles, start, turn
  <2> QED BY <2>4
<1>9. Doubles(g, num, x, base)
  BY <1>8
<1>10. MultiplyByNumber(num, x, base) = g[num].result
  BY DEF MultiplyByNumber, Doubles
<1> HIDE DEF g
<1>11. \A k \in 0..num : g[k] = IF k = 0 THEN start ELSE turn(g[k - 1])
  BY <1>9 DEF Doubles, start, turn
<1> DEFINE Meets(k) ==
              /\ g[k] \in A
              /\ g[k].num <= num - k
              /\ Of(g[k].result) + g[k].num * Of(g[k].power) = num * Of(x)
              /\ Plain(x) => Plain(g[k].result) /\ Plain(g[k].power)
           S == {k \in Nat : k <= num => Meets(k)}
<1>12. 0 \in S
  <2>1. g[0] = start
    BY <1>11
  <2>2. start.num = num /\ start.result = <<>> /\ start.power = x
    BY DEF start
  <2>3. Of(x) \in Nat
    BY <1>1, <1>3
  <2>4. 0 + num * Of(x) = num * Of(x)
    BY <2>3
  <2>5. Meets(0)
    BY <1>2, <1>4, <2>1, <2>2, <2>4
  <2> QED BY <2>5
<1>13. ASSUME NEW k \in Nat, k \in S PROVE k + 1 \in S
  <2> SUFFICES ASSUME k + 1 <= num PROVE Meets(k + 1)
    OBVIOUS
  <2> DEFINE old == g[k]
             new == g[k + 1]
             m == old.num
             q == m \div 2
             b == m % 2
             res == Of(old.result)
             pow == Of(old.power)
  <2>1. k + 1 \in 0..num /\ k + 1 # 0 /\ (k + 1) - 1 = k
    OBVIOUS
  <2>2. /\ old \in A /\ m <= num - k /\ res + m * pow = num * Of(x)
        /\ Plain(x) => Plain(old.result) /\ Plain(old.power)
    BY <1>13
  <2>3. new = turn(old)
    BY <1>11, <2>1
  <2>4. new \in A
    BY <1>5, <2>2, <2>3
  <2>5. m \in Nat /\ old.result \in Seq(D) /\ old.power \in Seq(D)
    BY <2>2 DEF A
  <2>6. CASE m = 0
    <3>1. new = old
      BY <2>3, <2>6 DEF turn
    <3>2. m <= num - (k + 1)
      BY <2>6
    <3> QED BY <2>2, <3>1, <3>2
  <2>7. CASE m # 0
    <3>1. q \in Nat /\ b \in {0, 1} /\ m = 2 * q + b /\ q <= m - 1
      BY <2>5, <2>7, Halves
    <3>2. /\ new.num = q /\ new.power = Add(old.power, old.power, base)
          /\ b = 1 => new.result = Add(old.result, old.power, base)
          /\ b = 0 => new.result = old.result
      BY <2>3, <2>7 DEF turn
    <3>3. res \in Nat /\ pow \in Nat
      BY <1>1, <2>5
    <3>4. Of(new.power) = pow + pow
      BY <1>1, <2>5, <3>2
    <3>5. Of(new.result) = res + b * pow
      <4>1. CASE b = 0
        <5>1. Of(new.result) = res
          BY <3>2, <4>1
        <5> HIDE DEF b, res, pow
        <5> QED BY <3>3, <4>1, <5>1
      <4>2. CASE b = 1
        <5>1. Of(new.result) = res + pow
          BY <1>1, <2>5, <3>2, <4>2
        <5> HIDE DEF b, res, pow
        <5> QED BY <3>3, <4>2, <5>1
      <4> QED BY <3>1, <4>1, <4>2
    <3>6. Plain(x) => Plain(new.result) /\ Plain(new.power)
      BY <1>1, <2>2, <2>5, <3>1, <3>2
    <3>7. q <= num - (k + 1)
      <4> HIDE DEF q, m
      <4> QED BY <2>2, <2>5, <3>1
    <3>8. (res + b * pow) + q * (pow + pow) = res + m * pow
      <4> HIDE DEF q, m, b, res, pow
      <4>1. m * pow = 2 * (q * pow) + b * pow
        BY <3>1, <3>3
      <4>2. q * (pow + pow) = 2 * (q * pow)
        BY <3>1, <3>3
      <4> DEFINE u == q * pow
                 w == b * pow
      <4>3. u \in Nat /\ w \in Nat
        BY <3>1, <3>3
      <4> HIDE DEF u, w
      <4>4. (res + w) + 2 * u = res + (2 * u + w)
        BY <3>3, <4>3
      <4> QED BY <4>1, <4>2, <4>4 DEF u, w
    <3>9. Of(new.result) + new.num * Of(new.power) = num * Of(x)
      BY <2>2, <3>2, <3>4, <3>5, <3>8
    <3> QED BY <2>4, <3>2, <3>6, <3>7, <3>9
  <2> QED BY <2>6, <2>7
<1> HIDE DEF S, Meets
<1>14. Nat \subseteq S
  BY <1>12, <1>13, InductionOver
<1>15. Meets(num)
  BY <1>14 DEF S
<1>16. g[num].num = 0 /\ g[num].result \in Seq(D) /\ g[num].power \in Seq(D)
  <2>1. g[num].num \in Nat /\ g[num].num <= num - num
    BY <1>15 DEF Meets, A
  <2> QED BY <1>15, <2>1 DEF Meets, A
<1>17. Of(g[num].result) = num * Of(x)
  <2>1. Of(g[num].result) \in Nat /\ Of(g[num].power) \in Nat
    BY <1>1, <1>16
  <2>2. Of(g[num].result) + 0 * Of(g[num].power) = num * Of(x)
    BY <1>15, <1>16 DEF Meets
  <2> QED BY <2>1, <2>2
<1> QED BY <1>10, <1>15, <1>16, <1>17 DEF Meets, D, Of

---------------------------------------------------------------------------
(* Converting.                                                             *)

\* g holds what the first digits stand for, and the power of the next one.
Turns(g, digits, from, to) ==
    g = [i \in 0..Len(digits) |->
            IF i = 0 THEN [out |-> <<>>, power |-> <<1>>]
            ELSE LET old == g[i - 1] IN
                 [out   |-> IF digits[i] = 0 THEN old.out
                            ELSE Add(old.out, MultiplyByNumber(digits[i], old.power, to), to),
                  power |-> MultiplyByNumber(from, old.power, to)]]

LEMMA OneIsOne ==
  ASSUME NEW base \in Nat, base >= 2
  PROVE  <<1>> \in Seq(Digits(base)) /\ NumberOf(<<1>>, base) = 1 /\ Plain(<<1>>)
<1> DEFINE h == [i \in 0..1 |-> 1 - i]
<1>1. <<1>> \in Seq(Nat) /\ Len(<<1>>) = 1
  OBVIOUS
<1>2. Aboves(h, <<1>>, base)
  <2>1. h \in [0..1 -> Nat] /\ h[1] = 0 /\ h[0] = 1
    OBVIOUS
  <2> HIDE DEF h
  <2>2. ASSUME NEW i \in 1..1 PROVE h[i - 1] = <<1>>[i] + base * h[i]
    <3>1. i = 1
      OBVIOUS
    <3>2. base * 0 = 0
      OBVIOUS
    <3> QED BY <2>1, <3>1, <3>2
  <2> QED BY <1>1, <2>1, <2>2 DEF Aboves
<1>3. h[0] = 1
  OBVIOUS
<1> HIDE DEF h
<1>4. NumberOf(<<1>>, base) = 1
  BY <1>1, <1>2, <1>3, NumberByAboves
<1>5. 1 \in Digits(base)
  BY DEF Digits
<1>6. <<1>> \in Seq(Digits(base))
  BY <1>5
<1> QED BY <1>4, <1>6 DEF Plain

\* One place further, the digit at it has moved into what is out.
LEMMA PlaceMoves ==
  ASSUME NEW o \in Nat, NEW p \in Nat, NEW d \in Nat, NEW f \in Nat, NEW a \in Nat
  PROVE  (o + d * p) + (f * p) * a = o + p * (d + f * a)
<1>1. p * (d + f * a) = p * d + p * (f * a)
  OBVIOUS
<1>2. p * (f * a) = (f * p) * a
  OBVIOUS
<1>3. p * d = d * p
  OBVIOUS
<1> DEFINE u == d * p
           w == (f * p) * a
<1>4. u \in Nat /\ w \in Nat
  OBVIOUS
<1>5. p * (d + f * a) = u + w
  BY <1>1, <1>2, <1>3
<1> HIDE DEF u, w
<1>6. (o + u) + w = o + (u + w)
  BY <1>4
<1> QED BY <1>5, <1>6 DEF u, w

LEMMA ConvertRefuses ==
  ASSUME NEW str, NEW from, NEW to, \E k \in DOMAIN str : str[k] >= from
  PROVE  ConvertBase(str, from, to) = Failure
<1>1. ParseToDigitsArray(str, from) = Failure
  BY DEF ParseToDigitsArray
<1> QED BY <1>1 DEF ConvertBase

LEMMA ConvertIs ==
  ASSUME NEW from \in Nat, NEW to \in Nat, from >= 2, to >= 2, NEW str \in Seq(Digits(from))
  PROVE  /\ ConvertBase(str, from, to) \in Seq(Digits(to))
         /\ ValueIn(ConvertBase(str, from, to), to) = ValueIn(str, from)
         /\ Len(ConvertBase(str, from, to)) >= 1
         /\ Len(ConvertBase(str, from, to)) > 1 => ConvertBase(str, from, to)[1] # 0
<1> DEFINE x == Reverse(str)
           n == Len(x)
           D == Digits(to)
           A == [out : Seq(D), power : Seq(D)]
           start == [out |-> <<>>, power |-> <<1>>]
           turn(d, old) == [out   |-> IF d = 0 THEN old.out
                                      ELSE Add(old.out, MultiplyByNumber(d, old.power, to), to),
                            power |-> MultiplyByNumber(from, old.power, to)]
           step == [q \in Nat \X A |-> IF q[1] \in 1..n THEN turn(x[q[1]], q[2]) ELSE start]
           g == CHOOSE h : Turns(h, x, from, to)
           Of(s) == NumberOf(s, to)
<1>1. x \in Seq(Digits(from)) /\ n = Len(str) /\ n \in Nat
  BY ReverseIs
<1>2. ParseToDigitsArray(str, from) = x /\ x # Failure
  <2>1. ASSUME NEW k \in DOMAIN str PROVE ~(str[k] >= from)
    <3>1. k \in 1..Len(str)
      BY <2>1
    <3>2. str[k] \in Digits(from)
      BY <3>1, ElementOfSeq
    <3> QED BY <3>2 DEF Digits
  <2>2. x # Failure
    <3> SUFFICES ASSUME x = <<-1>> PROVE FALSE
      BY DEF Failure
    <3> HIDE DEF x
    <3>1. 1 \in 1..Len(x) /\ x[1] = -1
      OBVIOUS
    <3>2. x[1] \in Digits(from)
      BY <1>1, <3>1, ElementOfSeq
    <3> QED BY <3>1, <3>2 DEF Digits
  <2> QED BY <2>1, <2>2 DEF ParseToDigitsArray
<1>3. x \in Seq(Nat)
  <2> HIDE DEF x
  <2> QED BY <1>1, DigitsAreNat
<1>4. NumberOf(x, from) = ValueIn(str, from)
  BY ReverseTwice DEF NumberOf
<1> HIDE DEF x, n
<1>5. \A k \in 1..n : x[k] \in Nat
  BY <1>3 DEF n
<1>6. PICK hd : Aboves(hd, x, from) /\ hd[0] = NumberOf(x, from)
  BY <1>3, AbovesExist
<1>7. hd \in [0..n -> Nat] /\ hd[n] = 0 /\ \A i \in 1..n : hd[i - 1] = x[i] + from * hd[i]
  BY <1>6 DEF Aboves, n
<1>8. ASSUME NEW s \in Seq(D), NEW t \in Seq(D)
      PROVE  /\ Add(s, t, to) \in Seq(D) /\ Of(Add(s, t, to)) = Of(s) + Of(t)
             /\ Of(s) \in Nat /\ Of(t) \in Nat
             /\ Plain(s) /\ Plain(t) => Plain(Add(s, t, to))
  BY AddIs
<1>9. ASSUME NEW m \in Nat, NEW s \in Seq(D)
      PROVE  /\ MultiplyByNumber(m, s, to) \in Seq(D)
             /\ Of(MultiplyByNumber(m, s, to)) = m * Of(s)
             /\ Plain(s) => Plain(MultiplyByNumber(m, s, to))
  BY MultiplyIs
<1>10. <<1>> \in Seq(D) /\ Of(<<1>>) = 1 /\ Plain(<<1>>)
  BY OneIsOne
<1>11. <<>> \in Seq(D) /\ Of(<<>>) = 0 /\ Plain(<<>>)
  <2>1. Of(<<>>) = 0
    BY EmptyIsZero
  <2>2. <<>> \in Seq(D) /\ Len(<<>>) = 0
    OBVIOUS
  <2> QED BY <2>1, <2>2 DEF Plain
<1> HIDE DEF D, Of
<1>12. start \in A
  BY <1>10, <1>11
<1>13. ASSUME NEW d \in Nat, NEW old \in A
       PROVE  /\ turn(d, old) \in A
              /\ Of(turn(d, old).out) = Of(old.out) + d * Of(old.power)
              /\ Of(turn(d, old).power) = from * Of(old.power)
              /\ Plain(old.out) /\ Plain(old.power)
                    => Plain(turn(d, old).out) /\ Plain(turn(d, old).power)
  <2> DEFINE p == MultiplyByNumber(d, old.power, to)
             s == Add(old.out, p, to)
             q == MultiplyByNumber(from, old.power, to)
             new == turn(d, old)
  <2>1. old.out \in Seq(D) /\ old.power \in Seq(D)
    OBVIOUS
  <2>2. p \in Seq(D) /\ Of(p) = d * Of(old.power) /\ (Plain(old.power) => Plain(p))
    BY <1>9, <2>1
  <2>3. q \in Seq(D) /\ Of(q) = from * Of(old.power) /\ (Plain(old.power) => Plain(q))
    BY <1>9, <2>1
  <2>4. s \in Seq(D) /\ Of(s) = Of(old.out) + Of(p)
        /\ (Plain(old.out) /\ Plain(p) => Plain(s)) /\ Of(old.out) \in Nat /\ Of(old.power) \in Nat
    <3> HIDE DEF p
    <3> QED BY <1>8, <2>1, <2>2
  <2>5. new.power = q /\ (d = 0 => new.out = old.out) /\ (d # 0 => new.out = s)
        /\ new = [out |-> new.out, power |-> new.power]
    OBVIOUS
  <2> HIDE DEF turn, p, s, q, new
  <2>6. new.out \in Seq(D) /\ (Plain(old.out) /\ Plain(old.power) => Plain(new.out))
    BY <2>1, <2>2, <2>4, <2>5
  <2>7. Of(new.out) = Of(old.out) + d * Of(old.power)
    <3>1. CASE d = 0
      <4>1. d * Of(old.power) = 0
        BY <2>4, <3>1
      <4> QED BY <2>4, <2>5, <3>1, <4>1
    <3>2. CASE d # 0
      BY <2>2, <2>4, <2>5, <3>2
    <3> QED BY <3>1, <3>2
  <2>8. new \in A
    BY <2>3, <2>5, <2>6
  <2> QED BY <2>3, <2>5, <2>6, <2>7, <2>8 DEF new
<1> HIDE DEF turn, A
<1>14. step \in [Nat \X A -> A]
  <2>1. ASSUME NEW q \in Nat \X A
        PROVE  (IF q[1] \in 1..n THEN turn(x[q[1]], q[2]) ELSE start) \in A
    <3>1. q[1] \in Nat /\ q[2] \in A
      BY <2>1
    <3>2. CASE q[1] \in 1..n
      <4>1. x[q[1]] \in Nat
        BY <1>5, <3>2
      <4> QED BY <1>13, <3>1, <3>2, <4>1
    <3>3. CASE q[1] \notin 1..n
      BY <1>12, <3>3
    <3> QED BY <3>2, <3>3
  <2> QED BY <2>1
<1>15. ASSUME NEW k \in 1..n, NEW old \in A PROVE step[<<k, old>>] = turn(x[k], old)
  <2>1. <<k, old>> \in Nat \X A
    BY <1>15
  <2> QED BY <2>1
<1> HIDE DEF step, start
<1>16. \E h : Turns(h, x, from, to)
  <2>1. PICK r : Run(r, A, start, step, n)
    BY <1>1, <1>12, <1>14, RunExists
  <2>2. ASSUME NEW k \in 0..n PROVE r[k] = IF k = 0 THEN start ELSE turn(x[k], r[k - 1])
    <3>1. CASE k = 0
      BY <2>1, <3>1 DEF Run
    <3>2. CASE k # 0
      <4>1. k \in 1..n /\ k - 1 \in 0..n
        BY <1>1, <3>2
      <4>2. r[k - 1] \in A /\ r[k] = step[<<k, r[k - 1]>>]
        BY <2>1, <3>2, <4>1 DEF Run
      <4> QED BY <1>15, <3>2, <4>1, <4>2
    <3> QED BY <3>1, <3>2
  <2>3. r = [k \in 0..n |-> r[k]]
    BY <2>1 DEF Run
  <2>4. Turns(r, x, from, to)
    BY <2>2, <2>3 DEF Turns, start, turn, n
  <2> QED BY <2>4
<1>17. Turns(g, x, from, to)
  BY <1>16
<1>18. ConvertBase(str, from, to) = IF g[n].out = <<>> THEN <<0>> ELSE Reverse(g[n].out)
  BY <1>2 DEF ConvertBase, Turns, n
<1> HIDE DEF g
<1>19. \A k \in 0..n : g[k] = IF k = 0 THEN start ELSE turn(x[k], g[k - 1])
  BY <1>17 DEF Turns, start, turn, n
<1> DEFINE Meets(k) ==
              /\ g[k] \in A
              /\ Of(g[k].out) + Of(g[k].power) * hd[k] = hd[0]
              /\ Plain(g[k].out) /\ Plain(g[k].power)
           S == {k \in Nat : k <= n => Meets(k)}
<1>20. 0 \in S
  <2>1. g[0] = start
    BY <1>1, <1>19
  <2>2. start.out = <<>> /\ start.power = <<1>>
    BY DEF start
  <2>3. hd[0] \in Nat
    BY <1>1, <1>7
  <2>4. 0 + 1 * hd[0] = hd[0]
    BY <2>3
  <2>5. Meets(0)
    BY <1>10, <1>11, <1>12, <2>1, <2>2, <2>4
  <2> QED BY <2>5
<1>21. ASSUME NEW k \in Nat, k \in S PROVE k + 1 \in S
  <2> SUFFICES ASSUME k + 1 <= n PROVE Meets(k + 1)
    OBVIOUS
  <2> DEFINE m == k + 1
             old == g[k]
             new == g[m]
             d == x[m]
             o == Of(old.out)
             p == Of(old.power)
             a == hd[m]
  <2>1. m \in 1..n /\ m \in 0..n /\ m # 0 /\ m - 1 = k /\ k \in 0..n
    BY <1>1
  <2>2. old \in A /\ o + p * hd[k] = hd[0] /\ Plain(old.out) /\ Plain(old.power)
    BY <1>1, <1>21, <2>1
  <2> HIDE DEF m
  <2>3. new = turn(d, old) /\ d \in Nat
    BY <1>5, <1>19, <2>1
  <2>4. hd[k] = d + from * a /\ a \in Nat
    BY <1>7, <2>1
  <2>5. o \in Nat /\ p \in Nat
    <3>1. old.out \in Seq(D) /\ old.power \in Seq(D)
      BY <2>2 DEF A
    <3> QED BY <1>8, <3>1
  <2>6. /\ new \in A /\ Of(new.out) = o + d * p /\ Of(new.power) = from * p
        /\ Plain(new.out) /\ Plain(new.power)
    BY <1>13, <2>2, <2>3
  <2> HIDE DEF old, new, d, o, p, a
  <2>7. (o + d * p) + (from * p) * a = o + p * (d + from * a)
    BY <2>3, <2>4, <2>5, PlaceMoves
  <2>8. Of(new.out) + Of(new.power) * a = hd[0]
    BY <2>2, <2>4, <2>6, <2>7
  <2> QED BY <2>6, <2>8 DEF new, m, a
<1> HIDE DEF S, Meets
<1>22. Nat \subseteq S
  BY <1>20, <1>21, InductionOver
<1> DEFINE out == g[n].out
           answer == ConvertBase(str, from, to)
<1>23. out \in Seq(D) /\ Of(out) = hd[0] /\ Plain(out)
  <2>1. Meets(n)
    BY <1>1, <1>22 DEF S
  <2>2. g[n].out \in Seq(D) /\ g[n].power \in Seq(D)
    BY <2>1 DEF Meets, A
  <2>3. Of(g[n].out) \in Nat /\ Of(g[n].power) \in Nat
    BY <1>8, <2>2
  <2>4. Of(g[n].power) * 0 = 0
    BY <2>3
  <2>5. Of(g[n].out) + 0 = hd[0]
    BY <1>7, <2>1, <2>4 DEF Meets
  <2> QED BY <2>1, <2>2, <2>3, <2>5 DEF Meets
<1>24. answer = IF out = <<>> THEN <<0>> ELSE Reverse(out)
  BY <1>18
<1>25. hd[0] = ValueIn(str, from)
  BY <1>4, <1>6
<1> HIDE DEF out, answer
<1>26. CASE out = <<>>
  <2>1. answer = <<0>> /\ 0 \in D
    BY <1>24, <1>26 DEF D, Digits
  <2>2. answer \in Seq(D) /\ Len(answer) = 1
    BY <2>1
  <2>3. ValueIn(<<0>>, to) = 0
    <3> DEFINE v == [k \in 0..1 |-> 0]
    <3>1. PrefixNumbers(v, <<0>>, to)
      <4>1. v \in [0..1 -> Nat] /\ v[0] = 0
        OBVIOUS
      <4>2. ASSUME NEW k \in 1..1 PROVE v[k] = to * v[k - 1] + <<0>>[k]
        <5>1. k = 1 /\ to * 0 = 0
          OBVIOUS
        <5> QED BY <5>1
      <4> HIDE DEF v
      <4>3. Len(<<0>>) = 1
        OBVIOUS
      <4> QED BY <4>1, <4>2, <4>3 DEF PrefixNumbers
    <3>2. v[1] = 0 /\ Len(<<0>>) = 1 /\ <<0>> \in Seq(Nat)
      OBVIOUS
    <3> HIDE DEF v
    <3> QED BY <3>1, <3>2, ValueByPrefixes
  <2>4. Of(<<>>) = hd[0]
    BY <1>23, <1>26
  <2> QED BY <1>11, <1>25, <2>1, <2>2, <2>3, <2>4 DEF D, answer
<1>27. CASE out # <<>>
  <2>1. answer = Reverse(out)
    BY <1>24, <1>27
  <2>2. /\ answer \in Seq(D) /\ Len(answer) = Len(out)
        /\ \A i \in 1..Len(out) : answer[i] = out[Len(out) - i + 1]
    BY <1>23, <2>1, ReverseIs
  <2>3. Len(out) \in Nat /\ Len(out) >= 1
    BY <1>23, <1>27
  <2>4. answer[1] # 0
    <3>1. 1 \in 1..Len(out) /\ Len(out) - 1 + 1 = Len(out)
      BY <2>3
    <3>2. answer[1] = out[Len(out)]
      BY <2>2, <3>1
    <3> QED BY <1>23, <2>3, <3>2 DEF Plain
  <2>5. ValueIn(answer, to) = hd[0]
    BY <1>23, <2>1 DEF Of, NumberOf
  <2> QED BY <1>25, <2>2, <2>3, <2>4, <2>5 DEF D, answer
<1> QED BY <1>26, <1>27

---------------------------------------------------------------------------
(* Powers, and how large a number is.                                      *)

Powers(c, base) ==
    /\ c \in [Nat -> Nat]
    /\ c[0] = 1
    /\ \A k \in Nat : c[k + 1] = base * c[k]

LEMMA PowersExist ==
  ASSUME NEW base \in Nat
  PROVE  \E c : Powers(c, base)
<1> DEFINE step == [q \in Nat \X Nat |-> base * q[2]]
<1>1. step \in [Nat \X Nat -> Nat]
  <2>1. ASSUME NEW q \in Nat \X Nat PROVE base * q[2] \in Nat
    <3>1. q[2] \in Nat
      OBVIOUS
    <3> QED BY <3>1
  <2> QED BY <2>1
<1>2. ASSUME NEW k \in Nat, NEW m \in Nat PROVE step[<<k, m>>] = base * m
  <2>1. <<k, m>> \in Nat \X Nat
    OBVIOUS
  <2> QED BY <2>1
<1> HIDE DEF step
<1>3. PICK c : Chain(c, Nat, 1, step)
  <2>1. 1 \in Nat
    OBVIOUS
  <2> QED BY <1>1, <2>1, ChainExists
<1>4. ASSUME NEW k \in Nat PROVE c[k + 1] = base * c[k]
  <2>1. k + 1 \in Nat /\ k + 1 # 0 /\ (k + 1) - 1 = k
    OBVIOUS
  <2>2. c[k] \in Nat /\ c[k + 1] = step[<<k + 1, c[k]>>]
    BY <1>3, <2>1 DEF Chain
  <2> QED BY <1>2, <2>1, <2>2
<1>5. Powers(c, base)
  BY <1>3, <1>4 DEF Powers, Chain
<1> QED BY <1>5

LEMMA PowersPositive ==
  ASSUME NEW base \in Nat \ {0}, NEW c, Powers(c, base), NEW n \in Nat
  PROVE  c[n] \in Nat /\ c[n] >= 1
<1> DEFINE S == {k \in Nat : c[k] \in Nat /\ c[k] >= 1}
<1>1. 0 \in S
  BY DEF Powers
<1>2. ASSUME NEW k \in Nat, k \in S PROVE k + 1 \in S
  <2> DEFINE a == c[k]
  <2>1. c[k + 1] = base * a /\ a \in Nat /\ a >= 1
    BY <1>2 DEF Powers
  <2> HIDE DEF a
  <2>2. base * a >= base /\ base * a \in Nat
    BY <2>1, MultipleIsLarge
  <2> QED BY <2>1, <2>2
<1>3. n \in S
  BY <1>1, <1>2, InductionOver
<1> QED BY <1>3

LEMMA PowersAdd ==
  ASSUME NEW base \in Nat, NEW c, Powers(c, base), NEW m \in Nat, NEW n \in Nat
  PROVE  c[m + n] = c[m] * c[n]
<1> DEFINE S == {k \in Nat : c[m + k] = c[m] * c[k]}
<1>1. 0 \in S
  <2>1. m + 0 = m /\ c[m] \in Nat /\ c[0] = 1
    BY DEF Powers
  <2>2. c[m] * 1 = c[m]
    BY <2>1
  <2> QED BY <2>1, <2>2
<1>2. ASSUME NEW k \in Nat, k \in S PROVE k + 1 \in S
  <2> DEFINE a == c[m]
             b == c[k]
  <2>1. a \in Nat /\ b \in Nat /\ c[k + 1] = base * b
    BY DEF Powers
  <2>2. c[m + k] = a * b
    BY <1>2
  <2>3. c[(m + k) + 1] = base * c[m + k]
    <3> DEFINE j == m + k
    <3>1. j \in Nat
      OBVIOUS
    <3> HIDE DEF j
    <3>2. c[j + 1] = base * c[j]
      BY <3>1 DEF Powers
    <3> QED BY <3>2 DEF j
  <2>4. (m + k) + 1 = m + (k + 1)
    OBVIOUS
  <2> HIDE DEF a, b
  <2>5. base * (a * b) = a * (base * b)
    BY <2>1
  <2>6. c[m + (k + 1)] = a * c[k + 1]
    BY <2>1, <2>2, <2>3, <2>4, <2>5
  <2> QED BY <2>6 DEF a
<1>3. n \in S
  BY <1>1, <1>2, InductionOver
<1> QED BY <1>3

LEMMA ProductIsLarge ==
  ASSUME NEW a \in Nat, NEW b \in Nat, b >= 1
  PROVE  a * b \in Nat /\ a * b >= a
<1>1. CASE a = 0
  BY <1>1
<1>2. CASE a # 0
  BY <1>2, MultipleIsLarge
<1> QED BY <1>1, <1>2

LEMMA PowersGrow ==
  ASSUME NEW base \in Nat \ {0}, NEW c, Powers(c, base), NEW m \in Nat, NEW n \in Nat, m <= n
  PROVE  c[m] <= c[n]
<1> DEFINE d == n - m
           a == c[m]
           b == c[d]
<1>1. d \in Nat /\ m + d = n
  OBVIOUS
<1> HIDE DEF d
<1>2. c[n] = a * b
  BY <1>1, PowersAdd
<1>3. a \in Nat /\ b \in Nat /\ b >= 1
  BY <1>1, PowersPositive
<1> HIDE DEF a, b
<1>4. a * b \in Nat /\ a * b >= a
  BY <1>3, ProductIsLarge
<1> QED BY <1>2, <1>3, <1>4 DEF a

LEMMA ProductsOrdered ==
  ASSUME NEW a \in Nat, NEW b \in Nat, NEW u \in Nat, NEW w \in Nat, a <= b, u <= w
  PROVE  a * u <= b * w
<1> DEFINE e == b - a
           f == w - u
<1>1. e \in Nat /\ f \in Nat /\ b = a + e /\ w = u + f
  OBVIOUS
<1> HIDE DEF e, f
<1>2. b * w = a * u + (a * f + e * u + e * f)
  BY <1>1
<1>3. a * f \in Nat /\ e * u \in Nat /\ e * f \in Nat /\ a * u \in Nat
  BY <1>1
<1> DEFINE p == a * u
           q == a * f
           r == e * u
           s == e * f
<1>4. p <= p + (q + r + s)
  <2>1. p \in Nat /\ q \in Nat /\ r \in Nat /\ s \in Nat
    BY <1>3
  <2> HIDE DEF p, q, r, s
  <2> QED BY <2>1
<1> QED BY <1>2, <1>4

LEMMA PowersOrdered ==
  ASSUME NEW a \in Nat, NEW b \in Nat, a <= b, NEW c, Powers(c, a), NEW d, Powers(d, b),
         NEW n \in Nat
  PROVE  c[n] <= d[n]
<1> DEFINE S == {k \in Nat : c[k] <= d[k]}
<1>1. 0 \in S
  BY DEF Powers
<1>2. ASSUME NEW k \in Nat, k \in S PROVE k + 1 \in S
  <2> DEFINE u == c[k]
             w == d[k]
  <2>1. u \in Nat /\ w \in Nat /\ u <= w /\ c[k + 1] = a * u /\ d[k + 1] = b * w
    BY <1>2 DEF Powers
  <2> HIDE DEF u, w
  <2>2. a * u <= b * w
    BY <2>1, ProductsOrdered
  <2> QED BY <2>1, <2>2
<1>3. n \in S
  BY <1>1, <1>2, InductionOver
<1> QED BY <1>3

\* A number is below the power for its length.
LEMMA ValueBelow ==
  ASSUME NEW base \in Nat \ {0}, NEW c, Powers(c, base), NEW str \in Seq(Digits(base))
  PROVE  ValueIn(str, base) \in Nat /\ ValueIn(str, base) < c[Len(str)]
<1> DEFINE n == Len(str)
<1>1. str \in Seq(Nat) /\ n \in Nat
  BY DigitsAreNat
<1>2. PICK v : PrefixNumbers(v, str, base)
  BY <1>1, PrefixesExist
<1>3. ValueIn(str, base) = v[n]
  BY <1>1, <1>2, ValueByPrefixes
<1>4. v \in [0..n -> Nat] /\ v[0] = 0 /\ \A k \in 1..n : v[k] = base * v[k - 1] + str[k]
  BY <1>2 DEF PrefixNumbers
<1>5. ASSUME NEW k \in 1..n PROVE str[k] \in 0..base - 1
  BY ElementOfSeq DEF Digits
<1> HIDE DEF n
<1> DEFINE S == {k \in Nat : k <= n => v[k] < c[k]}
<1>6. 0 \in S
  BY <1>4 DEF Powers
<1>7. ASSUME NEW k \in Nat, k \in S PROVE k + 1 \in S
  <2> SUFFICES ASSUME k + 1 <= n PROVE v[k + 1] < c[k + 1]
    OBVIOUS
  <2> DEFINE m == k + 1
             d == str[m]
             a == v[k]
             b == c[k]
  <2>1. m \in 1..n /\ m - 1 = k /\ k \in 0..n
    BY <1>1
  <2>2. a < b /\ a \in Nat /\ b \in Nat /\ c[k + 1] = base * b
    <3>1. a < b
      BY <1>1, <1>7, <2>1
    <3>2. a \in Nat
      BY <1>4, <2>1
    <3>3. b \in Nat /\ c[k + 1] = base * b
      BY DEF Powers
    <3> QED BY <3>1, <3>2, <3>3
  <2> HIDE DEF m
  <2>3. v[m] = base * a + d /\ d \in 0..base - 1
    BY <1>4, <1>5, <2>1
  <2> HIDE DEF a, b, d
  <2>4. base * (a + 1) <= base * b
    BY <2>2, ProductsOrdered
  <2>5. base * (a + 1) = base * a + base
    BY <2>2
  <2> DEFINE p == base * a
             q == base * b
  <2>6. p \in Nat /\ q \in Nat /\ p + base <= q
    BY <2>2, <2>4, <2>5
  <2>7. v[m] = p + d
    BY <2>3
  <2> HIDE DEF p, q
  <2>8. p + d < q
    BY <2>3, <2>6
  <2> QED BY <2>2, <2>7, <2>8 DEF m, q
<1> HIDE DEF S
<1>8. n \in S
  BY <1>1, <1>6, <1>7, InductionOver
<1>9. v[n] < c[n] /\ v[n] \in Nat
  BY <1>1, <1>4, <1>8 DEF S
<1> QED BY <1>3, <1>9 DEF n

\* A number that does not begin with zero is not below the power before.
LEMMA ValueAbove ==
  ASSUME NEW base \in Nat \ {0}, NEW c, Powers(c, base), NEW str \in Seq(Nat),
         Len(str) >= 1, str[1] # 0
  PROVE  ValueIn(str, base) >= c[Len(str) - 1]
<1> DEFINE n == Len(str)
<1>1. n \in Nat /\ n >= 1
  OBVIOUS
<1>2. PICK v : PrefixNumbers(v, str, base)
  BY PrefixesExist
<1>3. ValueIn(str, base) = v[n]
  BY <1>2, ValueByPrefixes
<1>4. v \in [0..n -> Nat] /\ v[0] = 0 /\ \A k \in 1..n : v[k] = base * v[k - 1] + str[k]
  BY <1>2 DEF PrefixNumbers
<1>5. \A k \in 1..n : str[k] \in Nat
  OBVIOUS
<1> HIDE DEF n
<1> DEFINE S == {k \in Nat : k + 1 <= n => v[k + 1] >= c[k]}
<1>6. 0 \in S
  <2>1. 1 \in 1..n /\ 1 - 1 = 0
    BY <1>1
  <2>2. v[1] = base * v[0] + str[1]
    BY <1>4, <2>1
  <2>3. base * 0 = 0 /\ str[1] \in Nat /\ str[1] # 0
    BY <1>5, <2>1
  <2>4. v[1] = str[1]
    BY <1>4, <2>2, <2>3
  <2>5. c[0] = 1 /\ 0 + 1 = 1
    BY DEF Powers
  <2>6. v[0 + 1] >= c[0]
    <3>1. v[0 + 1] = v[1]
      BY <2>5
    <3> DEFINE d == str[1]
    <3>2. d \in Nat /\ d # 0 /\ v[0 + 1] = d
      BY <2>3, <2>4, <3>1
    <3> HIDE DEF d
    <3>3. d >= 1
      BY <3>2
    <3> QED BY <2>5, <3>2, <3>3
  <2> QED BY <2>6
<1>7. ASSUME NEW k \in Nat, k \in S PROVE k + 1 \in S
  <2> SUFFICES ASSUME (k + 1) + 1 <= n PROVE v[(k + 1) + 1] >= c[k + 1]
    OBVIOUS
  <2> DEFINE m == (k + 1) + 1
             d == str[m]
             a == v[k + 1]
             b == c[k]
  <2>1. m \in 1..n /\ m - 1 = k + 1 /\ k + 1 \in 0..n
    BY <1>1
  <2>2. a >= b /\ a \in Nat /\ b \in Nat /\ c[k + 1] = base * b
    BY <1>1, <1>4, <1>7, <2>1 DEF Powers
  <2> HIDE DEF m
  <2>3. v[m] = base * a + d /\ d \in Nat
    BY <1>4, <1>5, <2>1
  <2> HIDE DEF a, b, d
  <2>4. base * b <= base * a /\ base * a \in Nat /\ base * b \in Nat
    BY <2>2, ProductsOrdered
  <2> DEFINE u == base * a
             w == base * b
  <2>5. v[m] = u + d /\ c[k + 1] = w /\ w <= u /\ u \in Nat /\ w \in Nat
    BY <2>2, <2>3, <2>4
  <2> HIDE DEF u, w
  <2>6. u + d >= w
    BY <2>3, <2>5
  <2> QED BY <2>5, <2>6 DEF m
<1> HIDE DEF S
<1>8. Nat \subseteq S
  BY <1>6, <1>7, InductionOver
<1> DEFINE j == n - 1
<1>9. j \in Nat /\ j + 1 = n
  BY <1>1
<1> HIDE DEF j
<1>10. v[n] >= c[j]
  BY <1>8, <1>9, <1>1 DEF S
<1> QED BY <1>3, <1>10 DEF j, n

\* The digits behind move those in front by the power for their number.
LEMMA ConcatValue ==
  ASSUME NEW base \in Nat, NEW c, Powers(c, base), NEW s \in Seq(Nat), NEW t \in Seq(Nat)
  PROVE  ValueIn(s \o t, base) = ValueIn(s, base) * c[Len(t)] + ValueIn(t, base)
<1> DEFINE l == Len(s)
           n == Len(t)
           st == s \o t
<1>1. l \in Nat /\ n \in Nat
  OBVIOUS
<1>2. /\ st \in Seq(Nat) /\ Len(st) = l + n
      /\ \A i \in 1..(l + n) : st[i] = IF i <= l THEN s[i] ELSE t[i - l]
  BY ConcatProperties
<1>3. PICK v : PrefixNumbers(v, s, base)
  BY PrefixesExist
<1>4. PICK w : PrefixNumbers(w, t, base)
  BY PrefixesExist
<1>5. v \in [0..l -> Nat] /\ v[0] = 0 /\ \A k \in 1..l : v[k] = base * v[k - 1] + s[k]
  BY <1>3 DEF PrefixNumbers
<1>6. w \in [0..n -> Nat] /\ w[0] = 0 /\ \A k \in 1..n : w[k] = base * w[k - 1] + t[k]
  BY <1>4 DEF PrefixNumbers
<1>7. ValueIn(s, base) = v[l] /\ ValueIn(t, base) = w[n]
  BY <1>3, <1>4, ValueByPrefixes
<1>8. \A k \in 1..n : t[k] \in Nat
  OBVIOUS
<1> HIDE DEF l, n, st
<1> DEFINE u == [k \in 0..(l + n) |-> IF k <= l THEN v[k] ELSE v[l] * c[k - l] + w[k - l]]
<1>9. u \in [0..(l + n) -> Nat]
  <2>1. ASSUME NEW k \in 0..(l + n)
        PROVE  (IF k <= l THEN v[k] ELSE v[l] * c[k - l] + w[k - l]) \in Nat
    <3>1. CASE k <= l
      <4>1. k \in 0..l
        BY <1>1, <3>1
      <4> QED BY <1>5, <3>1, <4>1
    <3>2. CASE ~(k <= l)
      <4>1. k - l \in 0..n /\ k - l \in Nat /\ l \in 0..l
        BY <1>1, <3>2
      <4>2. v[l] \in Nat /\ c[k - l] \in Nat /\ w[k - l] \in Nat
        BY <1>5, <1>6, <4>1 DEF Powers
      <4>3. v[l] * c[k - l] \in Nat
        BY <4>2
      <4> QED BY <3>2, <4>2, <4>3
    <3> QED BY <3>1, <3>2
  <2> QED BY <2>1
<1>10. ASSUME NEW j \in 0..n PROVE u[l + j] = v[l] * c[j] + w[j]
  <2>1. l + j \in 0..(l + n) /\ (l + j) - l = j /\ l \in 0..l
    BY <1>1
  <2>2. CASE j = 0
    <3>1. l + j = l /\ l + j <= l
      BY <1>1, <2>2
    <3>2. u[l + j] = v[l]
      BY <2>1, <3>1
    <3>3. c[j] = 1 /\ w[j] = 0 /\ v[l] \in Nat
      BY <1>5, <1>6, <2>1, <2>2 DEF Powers
    <3>4. v[l] * 1 + 0 = v[l]
      BY <3>3
    <3> QED BY <3>2, <3>3, <3>4
  <2>3. CASE j # 0
    <3>1. ~(l + j <= l)
      BY <1>1, <2>3
    <3> QED BY <2>1, <3>1
  <2> QED BY <2>2, <2>3
<1>11. ASSUME NEW k \in 0..l PROVE u[k] = v[k]
  <2>1. k \in 0..(l + n) /\ k <= l
    BY <1>1
  <2> QED BY <2>1
<1> HIDE DEF u
<1>12. ASSUME NEW k \in 1..(l + n) PROVE u[k] = base * u[k - 1] + st[k]
  <2>1. CASE k <= l
    <3>1. k \in 1..l /\ k \in 0..l /\ k - 1 \in 0..l
      BY <1>1, <2>1
    <3>2. u[k] = v[k] /\ u[k - 1] = v[k - 1]
      BY <1>11, <3>1
    <3>3. st[k] = s[k]
      BY <1>2, <2>1
    <3> QED BY <1>5, <3>1, <3>2, <3>3
  <2>2. CASE ~(k <= l)
    <3> DEFINE j == k - l
               i == j - 1
               a == v[l]
               b == c[i]
               e == w[i]
               d == t[j]
    <3>1. j \in 1..n /\ j \in 0..n /\ i \in 0..n /\ l + j = k /\ l + i = k - 1 /\ i \in Nat
          /\ j = i + 1 /\ l \in 0..l
      BY <1>1, <2>2
    <3> HIDE DEF i
    <3>2. st[k] = d
      BY <1>2, <2>2
    <3> HIDE DEF j
    <3>3. u[k] = a * c[j] + w[j] /\ u[k - 1] = a * b + e
      BY <1>10, <3>1
    <3>4. c[j] = base * b
      BY <3>1 DEF Powers
    <3>5. w[j] = base * e + d
      <4>1. w[j] = base * w[j - 1] + t[j]
        BY <1>6, <3>1
      <4> QED BY <4>1 DEF i
    <3>6. a \in Nat /\ b \in Nat /\ e \in Nat /\ d \in Nat
      BY <1>5, <1>6, <1>8, <3>1 DEF Powers
    <3> HIDE DEF a, b, e, d
    <3>7. a * (base * b) + (base * e + d) = base * (a * b + e) + d
      <4>1. a * (base * b) = base * (a * b)
        BY <3>6
      <4>2. base * (a * b + e) = base * (a * b) + base * e
        BY <3>6
      <4> DEFINE x == base * (a * b)
                 y == base * e
      <4>3. x \in Nat /\ y \in Nat
        BY <3>6
      <4>4. a * (base * b) = x /\ base * (a * b + e) = x + y
        BY <4>1, <4>2
      <4> HIDE DEF x
      <4>5. x + (y + d) = (x + y) + d
        <5> HIDE DEF y
        <5> QED BY <3>6, <4>3
      <4> QED BY <4>4, <4>5
    <3> QED BY <3>2, <3>3, <3>4, <3>5, <3>7
  <2> QED BY <2>1, <2>2
<1>13. u[0] = 0
  <2>1. 0 \in 0..l
    BY <1>1
  <2> QED BY <1>5, <1>11, <2>1
<1>14. PrefixNumbers(u, st, base)
  BY <1>2, <1>9, <1>12, <1>13 DEF PrefixNumbers
<1>15. ValueIn(st, base) = u[l + n]
  BY <1>2, <1>14, ValueByPrefixes
<1>16. u[l + n] = v[l] * c[n] + w[n]
  <2>1. n \in 0..n
    BY <1>1
  <2> QED BY <1>10, <2>1
<1> QED BY <1>7, <1>15, <1>16 DEF l, n, st

LEMMA ZerosValue ==
  ASSUME NEW base \in Nat, NEW n \in Nat, NEW z, z = [k \in 1..n |-> 0]
  PROVE  z \in Seq(Nat) /\ Len(z) = n /\ ValueIn(z, base) = 0
<1> DEFINE v == [k \in 0..n |-> 0]
<1>1. z \in Seq(Nat) /\ Len(z) = n
  OBVIOUS
<1>2. v \in [0..n -> Nat] /\ \A k \in 0..n : v[k] = 0
  OBVIOUS
<1> HIDE DEF v
<1>3. ASSUME NEW k \in 1..n PROVE v[k] = base * v[k - 1] + z[k]
  <2>1. k \in 0..n /\ k - 1 \in 0..n /\ z[k] = 0 /\ base * 0 = 0
    OBVIOUS
  <2>2. v[k] = 0 /\ v[k - 1] = 0
    BY <1>2, <2>1
  <2> QED BY <2>1, <2>2
<1>4. v[0] = 0 /\ v[n] = 0
  BY <1>2
<1>5. PrefixNumbers(v, z, base)
  BY <1>1, <1>2, <1>3, <1>4 DEF PrefixNumbers
<1> QED BY <1>1, <1>4, <1>5, ValueByPrefixes

\* Zeros in front do not change a number.
LEMMA ZerosInFront ==
  ASSUME NEW base \in Nat, NEW n \in Nat, NEW str \in Seq(Nat), NEW z, z = [k \in 1..n |-> 0]
  PROVE  ValueIn(z \o str, base) = ValueIn(str, base)
<1>1. z \in Seq(Nat) /\ ValueIn(z, base) = 0
  BY ZerosValue
<1>2. PICK c : Powers(c, base)
  BY PowersExist
<1>3. ValueIn(z \o str, base) = 0 * c[Len(str)] + ValueIn(str, base)
  <2>1. ValueIn(z \o str, base) = ValueIn(z, base) * c[Len(str)] + ValueIn(str, base)
    BY <1>1, <1>2, ConcatValue
  <2> QED BY <1>1, <2>1
<1>4. c[Len(str)] \in Nat
  BY <1>2 DEF Powers
<1>5. ValueIn(str, base) \in Nat
  <2>1. PICK v : PrefixNumbers(v, str, base)
    BY PrefixesExist
  <2> QED BY <2>1, ValueByPrefixes
<1> QED BY <1>3, <1>4, <1>5

LEMMA PaddedValue ==
  ASSUME NEW base \in Nat, NEW str \in Seq(Nat), NEW n \in Nat
  PROVE  ValueIn(PadStart(str, n), base) = ValueIn(str, base)
<1>1. CASE Len(str) >= n
  BY <1>1 DEF PadStart
<1>2. CASE ~(Len(str) >= n)
  <2> DEFINE m == n - Len(str)
             z == Zeros(m)
  <2>1. m \in Nat
    BY <1>2
  <2>2. PadStart(str, n) = z \o str
    BY <1>2 DEF PadStart
  <2> HIDE DEF m
  <2>3. z = [k \in 1..m |-> 0]
    BY DEF Zeros
  <2> HIDE DEF z
  <2> QED BY <2>1, <2>2, <2>3, ZerosInFront
<1> QED BY <1>1, <1>2

---------------------------------------------------------------------------
(* Buffers.                                                                *)

\* The bytes that pairs of digits spell.
Pairs(hex, n) == [k \in 1..n |-> 16 * hex[2 * k - 1] + hex[2 * k]]

\* A byte stands for its two digits.
LEMMA PairsValue ==
  ASSUME NEW n \in Nat, NEW hex \in Seq(0..15), Len(hex) = 2 * n
  PROVE  /\ Pairs(hex, n) \in Seq(Nat) /\ Len(Pairs(hex, n)) = n
         /\ ValueIn(Pairs(hex, n), 256) = ValueIn(hex, 16)
<1> DEFINE u8 == Pairs(hex, n)
<1>1. ASSUME NEW k \in 1..n
      PROVE  /\ 2 * k - 1 \in 1..2 * n /\ 2 * k \in 1..2 * n
             /\ hex[2 * k - 1] \in Nat /\ hex[2 * k] \in Nat
  <2>1. 2 * k - 1 \in 1..2 * n /\ 2 * k \in 1..2 * n
    OBVIOUS
  <2> DEFINE i == 2 * k - 1
             j == 2 * k
  <2>2. i \in 1..Len(hex) /\ j \in 1..Len(hex)
    BY <2>1
  <2> HIDE DEF i, j
  <2>3. hex[i] \in 0..15 /\ hex[j] \in 0..15
    BY <2>2, ElementOfSeq
  <2>4. hex[i] \in Nat /\ hex[j] \in Nat
    <3>1. 0..15 \subseteq Nat
      OBVIOUS
    <3> QED BY <2>3, <3>1
  <2> QED BY <2>1, <2>4 DEF i, j
<1>2. ASSUME NEW k \in 1..n
      PROVE  u8[k] = 16 * hex[2 * k - 1] + hex[2 * k] /\ u8[k] \in Nat
  <2> DEFINE a == hex[2 * k - 1]
             b == hex[2 * k]
  <2>1. u8[k] = 16 * a + b
    BY DEF Pairs
  <2>2. a \in Nat /\ b \in Nat
    BY <1>1
  <2> HIDE DEF a, b
  <2>3. 16 * a + b \in Nat
    BY <2>2
  <2> QED BY <2>1, <2>3 DEF a, b
<1>3. u8 \in Seq(Nat) /\ Len(u8) = n
  <2>1. DOMAIN u8 = 1..n /\ u8 = [k \in 1..n |-> u8[k]]
    BY DEF Pairs
  <2>2. u8 \in [1..n -> Nat]
    BY <1>2, <2>1
  <2> HIDE DEF u8
  <2> QED BY <2>2
<1> HIDE DEF u8
<1>4. hex \in Seq(Nat)
  <2>1. 0..15 \subseteq Nat
    OBVIOUS
  <2> QED BY <2>1, SeqMonotonic
<1>5. PICK v : PrefixNumbers(v, hex, 16)
  BY <1>4, PrefixesExist
<1>6. v \in [0..2 * n -> Nat] /\ v[0] = 0
      /\ \A k \in 1..2 * n : v[k] = 16 * v[k - 1] + hex[k]
  BY <1>5 DEF PrefixNumbers
<1> DEFINE w == [k \in 0..n |-> v[2 * k]]
<1>7. w \in [0..n -> Nat]
  <2>1. ASSUME NEW k \in 0..n PROVE v[2 * k] \in Nat
    <3>1. 2 * k \in 0..2 * n
      OBVIOUS
    <3> QED BY <1>6, <3>1
  <2> QED BY <2>1
<1>8. ASSUME NEW k \in 1..n PROVE w[k] = 256 * w[k - 1] + u8[k]
  <2> DEFINE i == 2 * k - 1
             j == 2 * k
             e == 2 * (k - 1)
             a == hex[i]
             b == hex[j]
             f == v[e]
             m == v[i]
  <2>1. /\ i \in 1..2 * n /\ j \in 1..2 * n /\ e \in 0..2 * n /\ i \in 0..2 * n
        /\ i - 1 = e /\ j - 1 = i /\ k \in 0..n /\ k - 1 \in 0..n
    OBVIOUS
  <2>2. w[k] = v[j] /\ w[k - 1] = v[e]
    BY <2>1
  <2>3. a \in Nat /\ b \in Nat /\ u8[k] = 16 * a + b
    BY <1>1, <1>2
  <2> HIDE DEF w, i, j, e
  <2>4. m = 16 * f + a
    BY <1>6, <2>1
  <2>5. v[j] = 16 * m + b
    BY <1>6, <2>1
  <2>6. f \in Nat
    BY <1>6, <2>1
  <2> HIDE DEF a, b, f, m
  <2>7. 16 * (16 * f + a) + b = 256 * f + (16 * a + b)
    BY <2>3, <2>6
  <2> QED BY <2>2, <2>3, <2>4, <2>5, <2>7 DEF f
<1>9. w[0] = 0 /\ w[n] = v[2 * n]
  <2>1. 0 \in 0..n /\ n \in 0..n /\ 2 * 0 = 0
    OBVIOUS
  <2> QED BY <1>6, <2>1
<1> HIDE DEF w
<1>10. PrefixNumbers(w, u8, 256)
  BY <1>3, <1>7, <1>8, <1>9 DEF PrefixNumbers
<1>11. ValueIn(u8, 256) = w[n]
  <2>1. 256 \in Nat
    OBVIOUS
  <2>2. ValueIn(u8, 256) = w[Len(u8)]
    BY <1>3, <1>10, <2>1, ValueByPrefixes
  <2> QED BY <1>3, <2>2
<1>12. ValueIn(hex, 16) = v[2 * n]
  BY <1>4, <1>5, ValueByPrefixes
<1> QED BY <1>3, <1>9, <1>11, <1>12 DEF u8

\* Written in a larger base, a number has no more digits.
LEMMA NoLonger ==
  ASSUME NEW str \in Seq(Digits(10)), Len(str) >= 1, NEW hex \in Seq(Digits(16)),
         ValueIn(hex, 16) = ValueIn(str, 10), Len(hex) >= 1, Len(hex) > 1 => hex[1] # 0
  PROVE  Len(hex) <= Len(str)
<1> DEFINE h == Len(hex)
           l == Len(str)
<1>1. h \in Nat /\ l \in Nat
  OBVIOUS
<1>2. PICK c : Powers(c, 10)
  BY PowersExist
<1>3. PICK d : Powers(d, 16)
  BY PowersExist
<1>4. ValueIn(str, 10) \in Nat /\ ValueIn(str, 10) < c[l]
  BY <1>2, ValueBelow
<1>5. c[l] <= d[l]
  <2>1. 10 \in Nat /\ 16 \in Nat /\ 10 <= 16
    OBVIOUS
  <2> QED BY <1>1, <1>2, <1>3, <2>1, PowersOrdered
<1>6. hex \in Seq(Nat)
  BY DigitsAreNat
<1>7. CASE h > 1
  <2>1. ValueIn(hex, 16) >= d[h - 1]
    BY <1>3, <1>6, <1>7, ValueAbove
  <2> SUFFICES ASSUME l <= h - 1 PROVE FALSE
    BY <1>1
  <2> DEFINE j == h - 1
  <2>2. j \in Nat /\ l <= j
    BY <1>1, <1>7
  <2> HIDE DEF j
  <2>3. d[l] <= d[j]
    BY <1>1, <1>3, <2>2, PowersGrow
  <2> DEFINE p == c[l]
             q == d[l]
             r == d[j]
             x == ValueIn(str, 10)
  <2>4. p \in Nat /\ q \in Nat /\ r \in Nat
    BY <1>1, <1>2, <1>3, <2>2 DEF Powers
  <2>5. x \in Nat /\ x < p /\ p <= q /\ q <= r /\ x >= r
    BY <1>4, <1>5, <2>1, <2>3 DEF j
  <2> HIDE DEF p, q, r, x
  <2> QED BY <2>4, <2>5
<1>8. CASE ~(h > 1)
  BY <1>1, <1>8
<1> QED BY <1>7, <1>8

LEMMA BufferIs ==
  ASSUME NEW dec \in Seq(Digits(10)), Len(dec) >= 1, NEW size \in Nat
  PROVE  /\ ValueIn(BnToBuf(dec, size), 256) = ValueIn(dec, 10)
         /\ Len(dec) <= 2 * size => Len(BnToBuf(dec, size)) = size
<1> DEFINE hex == DecToHex(dec)
           h == Len(hex)
           n == (h + 1) \div 2
           even == PadStart(hex, 2 * n)
           u8 == [k \in 1..Len(even) \div 2 |-> 16 * even[2 * k - 1] + even[2 * k]]
<1>1. /\ hex \in Seq(Digits(16)) /\ ValueIn(hex, 16) = ValueIn(dec, 10)
      /\ h >= 1 /\ (h > 1 => hex[1] # 0)
  <2>1. 10 \in Nat /\ 16 \in Nat /\ 10 >= 2 /\ 16 >= 2
    OBVIOUS
  <2> QED BY <2>1, ConvertIs DEF DecToHex
<1>2. BnToBuf(dec, size) = IF Len(dec) <= 2 * size THEN PadStart(u8, size) ELSE u8
  BY DEF BnToBuf
<1> HIDE DEF hex
<1>3. h \in Nat
  BY <1>1
<1> HIDE DEF h
<1>4. n \in Nat /\ h <= 2 * n /\ 2 * n <= h + 1
  BY <1>3
<1> HIDE DEF n
<1>5. Digits(16) = 0..15
  BY DEF Digits
<1>6. even \in Seq(0..15) /\ Len(even) = 2 * n
  <2> DEFINE z == 2 * n - h
             l == 2 * n
  <2>1. z \in Nat /\ z + h = l /\ l \in Nat /\ l <= z + h
    BY <1>3, <1>4
  <2>2. 0 \in 0..15 /\ hex \in Seq(0..15)
    BY <1>1, <1>5
  <2> HIDE DEF z, l, even
  <2>3. even \in Seq(0..15) /\ Len(even) = z + h
    <3>1. even = PadStart(hex, l)
      BY DEF even, l
    <3> QED BY <2>1, <2>2, <3>1, PadStartIs DEF h
  <2> QED BY <2>1, <2>3 DEF l
<1>7. ValueIn(even, 16) = ValueIn(hex, 16)
  <2>1. 2 * n \in Nat /\ hex \in Seq(Nat)
    BY <1>1, <1>4, DigitsAreNat
  <2> QED BY <2>1, PaddedValue
<1> HIDE DEF even
<1>8. u8 = Pairs(even, n)
  <2>1. (2 * n) \div 2 = n
    BY <1>4
  <2>2. Len(even) \div 2 = n
    BY <1>6, <2>1
  <2> QED BY <2>2 DEF Pairs
<1> HIDE DEF u8
<1>9. u8 \in Seq(Nat) /\ Len(u8) = n /\ ValueIn(u8, 256) = ValueIn(even, 16)
  BY <1>4, <1>6, <1>8, PairsValue
<1>10. CASE Len(dec) <= 2 * size
  <2>1. h <= Len(dec)
    BY <1>1, NoLonger DEF h
  <2>2. n <= size
    <3>1. Len(dec) \in Nat
      OBVIOUS
    <3>2. h <= 2 * size
      BY <1>3, <1>10, <2>1, <3>1
    <3> QED BY <1>3, <3>2 DEF n
  <2> DEFINE z == size - n
  <2>3. z \in Nat /\ z + n = size /\ size <= z + n
    BY <1>4, <2>2
  <2> HIDE DEF z
  <2>4. Len(PadStart(u8, size)) = z + n
    <3>1. 0 \in Nat
      OBVIOUS
    <3> QED BY <1>9, <2>3, <3>1, PadStartIs
  <2>5. ValueIn(PadStart(u8, size), 256) = ValueIn(u8, 256)
    BY <1>9, PaddedValue
  <2> QED BY <1>1, <1>2, <1>7, <1>9, <1>10, <2>3, <2>4, <2>5
<1>11. CASE ~(Len(dec) <= 2 * size)
  BY <1>1, <1>2, <1>7, <1>9, <1>11
<1> QED BY <1>10, <1>11

---------------------------------------------------------------------------
(* Chunks.                                                                 *)

LEMMA OneDigit ==
  ASSUME NEW base \in Nat, NEW d \in Nat
  PROVE  <<d>> \in Seq(Nat) /\ Len(<<d>>) = 1 /\ ValueIn(<<d>>, base) = d
<1> DEFINE x == <<d>>
           v == [k \in 0..1 |-> IF k = 0 THEN 0 ELSE d]
<1>1. x \in Seq(Nat) /\ Len(x) = 1 /\ x[1] = d
  OBVIOUS
<1>2. v \in [0..1 -> Nat] /\ v[0] = 0 /\ v[1] = d
  OBVIOUS
<1> HIDE DEF x, v
<1>3. ASSUME NEW k \in 1..1 PROVE v[k] = base * v[k - 1] + x[k]
  <2>1. k = 1 /\ base * 0 = 0 /\ 0 + d = d
    OBVIOUS
  <2> QED BY <1>1, <1>2, <2>1
<1>4. PrefixNumbers(v, x, base)
  BY <1>1, <1>2, <1>3 DEF PrefixNumbers
<1>5. ValueIn(x, base) = v[1]
  BY <1>1, <1>4, ValueByPrefixes
<1> QED BY <1>1, <1>2, <1>5 DEF x

\* f looks back by n places.
LooksBack(f, B, l, n, first, next) ==
    /\ f \in [0..l -> B]
    /\ \A len \in 0..l : f[len] = IF len <= n THEN first[len] ELSE next[<<len, f[len - n]>>]

LEMMA LookingBackExists ==
  ASSUME NEW B, NEW l \in Nat, NEW n \in Nat \ {0},
         NEW first \in [0..l -> B], NEW next \in [(0..l) \X B -> B]
  PROVE  \E f : LooksBack(f, B, l, n, first, next)
<1> DEFINE A == [0..l -> B]
           new(k, s) == IF k <= n THEN first[k] ELSE next[<<k, s[k - n]>>]
           turn(k, s) == [j \in 0..l |-> IF j = k THEN new(k, s) ELSE s[j]]
           step == [q \in Nat \X A |-> IF q[1] \in 0..l THEN turn(q[1], q[2]) ELSE q[2]]
<1>1. ASSUME NEW k \in 0..l, NEW s \in A PROVE new(k, s) \in B
  <2>1. CASE k <= n
    BY <2>1
  <2>2. CASE ~(k <= n)
    <3>1. k - n \in 0..l
      BY <2>2
    <3>2. s[k - n] \in B
      BY <3>1
    <3>3. <<k, s[k - n]>> \in (0..l) \X B
      BY <3>2
    <3> QED BY <2>2, <3>3
  <2> QED BY <2>1, <2>2
<1> HIDE DEF new
<1>2. ASSUME NEW k \in 0..l, NEW s \in A PROVE turn(k, s) \in A
  BY <1>1
<1>3. ASSUME NEW k \in 0..l, NEW s \in A, NEW j \in 0..l
      PROVE  turn(k, s)[j] = IF j = k THEN new(k, s) ELSE s[j]
  OBVIOUS
<1> HIDE DEF turn
<1>4. step \in [Nat \X A -> A]
  <2>1. ASSUME NEW q \in Nat \X A
        PROVE  (IF q[1] \in 0..l THEN turn(q[1], q[2]) ELSE q[2]) \in A
    <3>1. q[2] \in A
      OBVIOUS
    <3> HIDE DEF A
    <3> QED BY <1>2, <3>1
  <2> HIDE DEF A
  <2> QED BY <2>1
<1>5. ASSUME NEW k \in 0..l, NEW s \in A PROVE step[<<k, s>>] = turn(k, s)
  <2> HIDE DEF A
  <2>1. <<k, s>> \in Nat \X A
    BY <1>5
  <2> QED BY <2>1
<1> HIDE DEF step
<1>6. PICK r : Run(r, A, first, step, l)
  <2>1. first \in A
    OBVIOUS
  <2> HIDE DEF A
  <2> QED BY <1>4, <2>1, RunExists
<1>7. \A k \in 0..l : r[k] \in A
  <2> HIDE DEF A
  <2> QED BY <1>6 DEF Run
<1>8. ASSUME NEW k \in 0..l, k # 0
      PROVE  k - 1 \in 0..l /\ r[k] = turn(k, r[k - 1])
  <2>1. k - 1 \in 0..l
    BY <1>8
  <2>2. r[k - 1] \in A /\ r[k] = step[<<k, r[k - 1]>>]
    <3> HIDE DEF A
    <3> QED BY <1>6, <1>7, <1>8, <2>1 DEF Run
  <2> HIDE DEF A
  <2> QED BY <1>5, <2>1, <2>2
<1> DEFINE f == [k \in 0..l |-> r[k][k]]
           S == {k \in Nat : k <= l => \A j \in 0..k : r[k][j] = f[j]}
<1>9. f \in A
  BY <1>7
<1>10. ASSUME NEW k \in 0..l PROVE f[k] = r[k][k]
  OBVIOUS
<1> HIDE DEF f
<1>11. 0 \in S
  <2>1. ASSUME NEW j \in 0..0 PROVE r[0][j] = f[j]
    <3>1. j = 0 /\ j \in 0..l
      OBVIOUS
    <3> QED BY <1>10, <3>1
  <2> QED BY <2>1
<1>12. ASSUME NEW k \in Nat, k \in S PROVE k + 1 \in S
  <2> SUFFICES ASSUME k + 1 <= l, NEW j \in 0..(k + 1) PROVE r[k + 1][j] = f[j]
    OBVIOUS
  <2> DEFINE m == k + 1
  <2>1. m \in 0..l /\ m # 0 /\ m - 1 = k /\ j \in 0..l /\ k \in 0..l
    OBVIOUS
  <2>2. CASE j = m
    BY <1>10, <2>1, <2>2
  <2>3. CASE j # m
    <3>1. j \in 0..k
      BY <2>3
    <3>2. r[k][j] = f[j]
      BY <1>12, <2>1, <3>1
    <3> HIDE DEF m
    <3>3. r[m] = turn(m, r[k]) /\ r[k] \in A
      BY <1>7, <1>8, <2>1
    <3>4. r[m][j] = r[k][j]
      <4> HIDE DEF A
      <4> QED BY <1>3, <2>1, <2>3, <3>3
    <3> QED BY <3>2, <3>4 DEF m
  <2> QED BY <2>2, <2>3
<1> HIDE DEF S
<1>13. ASSUME NEW k \in 0..l, NEW j \in 0..k PROVE r[k][j] = f[j]
  <2>1. k \in S
    BY <1>11, <1>12, InductionOver
  <2> QED BY <2>1 DEF S
<1>14. ASSUME NEW len \in 0..l
       PROVE  f[len] = IF len <= n THEN first[len] ELSE next[<<len, f[len - n]>>]
  <2>1. CASE len = 0
    <3>1. f[len] = first[len]
      BY <1>6, <1>10, <2>1 DEF Run
    <3>2. len <= n
      BY <2>1
    <3> QED BY <3>1, <3>2
  <2>2. CASE len # 0
    <3> DEFINE p == len - 1
    <3>1. p \in 0..l /\ r[len] = turn(len, r[p]) /\ r[p] \in A
      BY <1>7, <1>8, <2>2
    <3>2. f[len] = new(len, r[p])
      <4> HIDE DEF A, p
      <4>1. turn(len, r[p])[len] = new(len, r[p])
        BY <1>3, <3>1
      <4> QED BY <1>10, <3>1, <4>1
    <3>3. CASE len <= n
      BY <3>2, <3>3 DEF new
    <3>4. CASE ~(len <= n)
      <4>1. len - n \in 0..p
        BY <3>4
      <4>2. r[p][len - n] = f[len - n]
        BY <1>13, <3>1, <4>1
      <4> HIDE DEF p
      <4> QED BY <3>2, <3>4, <4>2 DEF new
    <3> QED BY <3>3, <3>4
  <2> QED BY <2>1, <2>2
<1>15. LooksBack(f, B, l, n, first, next)
  BY <1>9, <1>14 DEF LooksBack
<1> QED BY <1>15

\* f holds the chunks of the first digits.
Chunks(f, bits, n) ==
    f = [len \in 0..Len(bits) |->
            IF len <= n THEN <<LeftPadBits(SubSeq(bits, 1, len), n)>>
            ELSE f[len - n] \o <<SubSeq(bits, len - n + 1, len)>>]

LEMMA ChunksExist ==
  ASSUME NEW D, 0 \in D, NEW bits \in Seq(D), NEW n \in Nat \ {0}
  PROVE  \E f : Chunks(f, bits, n)
<1> DEFINE l == Len(bits)
           head(len) == IF len <= n THEN LeftPadBits(SubSeq(bits, 1, len), n) ELSE <<>>
           tail(len) == IF len <= n THEN <<>> ELSE SubSeq(bits, len - n + 1, len)
           B == Seq(Seq(D))
           first == [len \in 0..l |-> <<head(len)>>]
           next == [q \in (0..l) \X B |-> q[2] \o <<tail(q[1])>>]
<1>1. l \in Nat /\ \A i \in 1..l : bits[i] \in D
  OBVIOUS
<1>2. ASSUME NEW len \in 0..l PROVE head(len) \in Seq(D)
  <2>1. CASE len <= n
    <3> DEFINE s == SubSeq(bits, 1, len)
               z == n - len
    <3>1. 1 \in Int /\ len \in Int /\ \A i \in 1..len : bits[i] \in D
      BY <1>1
    <3>2. s \in Seq(D) /\ Len(s) = IF 1 <= len THEN len - 1 + 1 ELSE 0
      BY <3>1, SubSeqProperties
    <3>3. Len(s) = len
      BY <3>2
    <3>4. head(len) = PadStart(s, n)
      BY <2>1, <3>3 DEF LeftPadBits
    <3>5. z \in Nat /\ z + len = n /\ n <= z + len /\ n \in Nat
      BY <2>1
    <3> HIDE DEF s, z, head
    <3>6. PadStart(s, n) \in Seq(D)
      BY <3>2, <3>3, <3>5, PadStartIs
    <3> QED BY <3>4, <3>6
  <2>2. CASE ~(len <= n)
    BY <2>2
  <2> QED BY <2>1, <2>2
<1>3. ASSUME NEW len \in 0..l PROVE tail(len) \in Seq(D)
  <2>1. CASE len <= n
    BY <2>1
  <2>2. CASE ~(len <= n)
    <3> DEFINE a == len - n + 1
    <3>1. a \in Int /\ len \in Int /\ \A i \in a..len : bits[i] \in D
      BY <1>1, <2>2
    <3>2. SubSeq(bits, a, len) \in Seq(D)
      BY <3>1, SubSeqProperties
    <3> QED BY <2>2, <3>2
  <2> QED BY <2>1, <2>2
<1> HIDE DEF l, head, tail
<1>4. first \in [0..l -> B]
  BY <1>2
<1>5. next \in [(0..l) \X B -> B]
  <2>1. ASSUME NEW len \in 0..l, NEW s \in B PROVE s \o <<tail(len)>> \in B
    <3>1. <<tail(len)>> \in B
      BY <1>3
    <3> HIDE DEF B
    <3>2. s \o <<tail(len)>> \in Seq(Seq(D))
      BY <3>1, ConcatProperties DEF B
    <3> QED BY <3>2 DEF B
  <2> HIDE DEF B
  <2> QED BY <2>1
<1>6. ASSUME NEW len \in 0..l, NEW s \in B PROVE next[<<len, s>>] = s \o <<tail(len)>>
  <2> HIDE DEF B
  <2>1. <<len, s>> \in (0..l) \X B
    OBVIOUS
  <2> QED BY <2>1
<1>7. \A len \in 0..l : first[len] = <<head(len)>>
  OBVIOUS
<1> HIDE DEF first, next, B
<1>8. PICK f : LooksBack(f, B, l, n, first, next)
  BY <1>1, <1>4, <1>5, LookingBackExists
<1>9. ASSUME NEW len \in 0..l
      PROVE  f[len] = IF len <= n THEN <<LeftPadBits(SubSeq(bits, 1, len), n)>>
                      ELSE f[len - n] \o <<SubSeq(bits, len - n + 1, len)>>
  <2>1. CASE len <= n
    BY <1>7, <1>8, <2>1 DEF head, LooksBack
  <2>2. CASE ~(len <= n)
    <3>1. len - n \in 0..l
      BY <1>1, <2>2
    <3>2. f[len] = f[len - n] \o <<tail(len)>>
      BY <1>6, <1>8, <2>2, <3>1 DEF LooksBack
    <3> QED BY <2>2, <3>2 DEF tail
  <2> QED BY <2>1, <2>2
<1>10. f = [len \in 0..l |-> f[len]]
  BY <1>8 DEF LooksBack
<1>11. Chunks(f, bits, n)
  BY <1>9, <1>10 DEF Chunks, l
<1> QED BY <1>11

\* The numbers of the strings of a sequence.
Each(s, base) == [k \in DOMAIN s |-> ValueIn(s[k], base)]

\* all holds the chunks of the bits, n in each; base is the number of values of a chunk.
ChunksOf(all, bits, n, base) ==
    /\ all \in Seq(Seq(Digits(2))) /\ Len(all) >= 1
    /\ \A k \in 1..Len(all) : Len(all[k]) = n
    /\ Len(all) * n - n < Len(bits) /\ Len(bits) <= Len(all) * n
    /\ ValueIn(Each(all, 2), base) = ValueIn(bits, 2)

LEMMA ValueType ==
  ASSUME NEW base \in Nat \ {0}, NEW str \in Seq(Digits(base)), NEW b \in Nat
  PROVE  ValueIn(str, b) \in Nat
<1>1. str \in Seq(Nat)
  BY DigitsAreNat
<1>2. PICK v : PrefixNumbers(v, str, b)
  BY <1>1, PrefixesExist
<1> QED BY <1>1, <1>2, ValueByPrefixes

LEMMA EachType ==
  ASSUME NEW base \in Nat \ {0}, NEW all \in Seq(Seq(Digits(base))), NEW b \in Nat
  PROVE  /\ Each(all, b) \in Seq(Nat) /\ Len(Each(all, b)) = Len(all)
         /\ \A k \in 1..Len(all) : Each(all, b)[k] = ValueIn(all[k], b)
<1> DEFINE n == Len(all)
           D == Digits(base)
<1>1. n \in Nat /\ DOMAIN all = 1..n
  OBVIOUS
<1>2. ASSUME NEW k \in 1..n PROVE ValueIn(all[k], b) \in Nat
  <2> HIDE DEF D
  <2>1. all[k] \in Seq(D)
    BY ElementOfSeq DEF D
  <2> QED BY <2>1, ValueType DEF D
<1>3. Each(all, b) = [k \in 1..n |-> ValueIn(all[k], b)]
  BY <1>1 DEF Each
<1> HIDE DEF n
<1>4. Each(all, b) \in [1..n -> Nat]
  BY <1>2, <1>3
<1>5. Each(all, b) \in Seq(Nat) /\ Len(Each(all, b)) = n
  BY <1>1, <1>4
<1> QED BY <1>3, <1>5 DEF n

LEMMA ChunkInFront ==
  ASSUME NEW base \in Nat, NEW n \in Nat \ {0}, NEW bits \in Seq(Digits(2)),
         Len(bits) >= 1, Len(bits) <= n
  PROVE  ChunksOf(<<LeftPadBits(bits, n)>>, bits, n, base)
<1> DEFINE D == Digits(2)
           l == Len(bits)
           z == n - l
           w == LeftPadBits(bits, n)
           all == <<w>>
<1>1. l \in Nat /\ z \in Nat /\ z + l = n /\ n <= z + l /\ n \in Nat
  OBVIOUS
<1>2. w = PadStart(bits, n)
  BY DEF LeftPadBits
<1>3. 0 \in D
  BY DEF Digits
<1> HIDE DEF D, z, w
<1>4. w \in Seq(D) /\ Len(w) = n
  <2>1. bits \in Seq(D)
    BY DEF D
  <2>2. PadStart(bits, n) \in Seq(D) /\ Len(PadStart(bits, n)) = z + l
    BY <1>1, <1>3, <2>1, PadStartIs
  <2> QED BY <1>1, <1>2, <2>2
<1>5. ValueIn(w, 2) = ValueIn(bits, 2)
  <2>1. bits \in Seq(Nat)
    BY DigitsAreNat
  <2>2. 2 \in Nat
    OBVIOUS
  <2> QED BY <1>1, <1>2, <2>1, <2>2, PaddedValue
<1>6. all \in Seq(Seq(D)) /\ Len(all) = 1 /\ all[1] = w /\ \A k \in 1..Len(all) : Len(all[k]) = n
  BY <1>4
<1>7. ValueIn(Each(all, 2), base) = ValueIn(w, 2)
  <2>1. Each(all, 2) \in Seq(Nat) /\ Len(Each(all, 2)) = 1 /\ Each(all, 2)[1] = ValueIn(w, 2)
    <3>1. 2 \in Nat /\ 2 \in Nat \ {0}
      OBVIOUS
    <3> HIDE DEF all
    <3>2. /\ Each(all, 2) \in Seq(Nat) /\ Len(Each(all, 2)) = Len(all)
          /\ \A k \in 1..Len(all) : Each(all, 2)[k] = ValueIn(all[k], 2)
      BY <1>6, <3>1, EachType DEF D
    <3>3. ASSUME NEW k, k = 1 PROVE Each(all, 2)[k] = ValueIn(w, 2)
      <4>1. k \in 1..Len(all)
        BY <1>6, <3>3
      <4> QED BY <1>6, <3>2, <3>3, <4>1
    <3> QED BY <1>6, <3>2, <3>3
  <2> DEFINE x == ValueIn(w, 2)
  <2>2. Each(all, 2) = <<x>> /\ x \in Nat
    <3> HIDE DEF all, x
    <3> DEFINE e == Each(all, 2)
    <3>1. e \in Seq(Nat) /\ Len(e) = 1 /\ e[1] = x
      BY <2>1 DEF x
    <3> HIDE DEF e
    <3>2. x \in Nat
      <4>1. 1 \in 1..Len(e)
        BY <3>1
      <4>2. e[1] \in Nat
        BY <3>1, <4>1, ElementOfSeq
      <4> QED BY <3>1, <4>2
    <3> DEFINE f == <<x>>
    <3>3. f \in Seq(Nat) /\ Len(f) = 1 /\ f[1] = x
      BY <3>2
    <3> HIDE DEF f
    <3>4. ASSUME NEW k \in 1..Len(e) PROVE e[k] = f[k]
      <4>1. k = 1
        BY <3>1
      <4> QED BY <3>1, <3>3, <4>1
    <3>5. e = f
      BY <3>1, <3>3, <3>4, SeqEqual
    <3> QED BY <3>2, <3>5 DEF e, f
  <2> HIDE DEF x
  <2>3. ValueIn(<<x>>, base) = x
    BY <2>2, OneDigit
  <2> QED BY <2>2, <2>3 DEF x
<1>8. 1 * n = n /\ n - n = 0
  OBVIOUS
<1> HIDE DEF all, l
<1>9. Len(all) * n - n < l /\ l <= Len(all) * n
  <2>1. l >= 1 /\ l <= n
    BY DEF l
  <2> QED BY <1>1, <1>6, <1>8, <2>1
<1>10. ChunksOf(all, bits, n, base)
  BY <1>5, <1>6, <1>7, <1>9 DEF ChunksOf, D, l
<1> QED BY <1>10 DEF all, w

LEMMA ChunkBehind ==
  ASSUME NEW c, Powers(c, 2), NEW n \in Nat \ {0}, NEW bits \in Seq(Digits(2)),
         NEW all, ChunksOf(all, bits, n, c[n]), NEW t \in Seq(Digits(2)), Len(t) = n
  PROVE  ChunksOf(all \o <<t>>, bits \o t, n, c[n])
<1> DEFINE D == Digits(2)
           m == Len(all)
           base == c[n]
           new == all \o <<t>>
           x == ValueIn(t, 2)
           y == ValueIn(bits, 2)
<1>1. 2 \in Nat /\ 2 \in Nat \ {0} /\ n \in Nat /\ base \in Nat
  BY DEF Powers
<1> HIDE DEF base, D, m, new, x, y
<1>2. /\ all \in Seq(Seq(D)) /\ m >= 1 /\ m \in Nat
      /\ \A k \in 1..m : Len(all[k]) = n
      /\ m * n - n < Len(bits) /\ Len(bits) <= m * n
      /\ ValueIn(Each(all, 2), base) = y
  <2>1. /\ all \in Seq(Seq(D)) /\ m >= 1
        /\ \A k \in 1..m : Len(all[k]) = n
        /\ m * n - n < Len(bits) /\ Len(bits) <= m * n
        /\ ValueIn(Each(all, 2), base) = y
    BY DEF ChunksOf, D, m, base, y
  <2>2. m \in Nat
    BY <2>1 DEF m
  <2> QED BY <2>1, <2>2
<1>3. /\ new \in Seq(Seq(D)) /\ Len(new) = m + 1
      /\ \A k \in 1..m : new[k] = all[k]
      /\ new[m + 1] = t
  <2>1. <<t>> \in Seq(Seq(D)) /\ Len(<<t>>) = 1 /\ <<t>>[1] = t
    BY DEF D
  <2>2. /\ new \in Seq(Seq(D)) /\ Len(new) = Len(all) + Len(<<t>>)
        /\ \A k \in 1..Len(all) + Len(<<t>>) :
              new[k] = IF k <= Len(all) THEN all[k] ELSE <<t>>[k - Len(all)]
    BY <1>2, <2>1, ConcatProperties DEF new
  <2>3. /\ Len(new) = m + 1
        /\ \A k \in 1..m + 1 : new[k] = IF k <= m THEN all[k] ELSE <<t>>[k - m]
    BY <2>1, <2>2 DEF m
  <2>4. ASSUME NEW k \in 1..m PROVE new[k] = all[k]
    <3>1. k \in 1..m + 1 /\ k <= m
      BY <1>2
    <3> QED BY <2>3, <3>1
  <2>5. ASSUME NEW k \in 1..m + 1, k = m + 1 PROVE new[k] = t
    <3>1. ~(k <= m) /\ k - m = 1
      BY <1>2, <2>5
    <3>2. new[k] = <<t>>[k - m]
      BY <2>3, <3>1
    <3> QED BY <2>1, <3>1, <3>2
  <2>6. m + 1 \in 1..m + 1
    BY <1>2
  <2>7. new[m + 1] = t
    BY <2>5, <2>6
  <2> QED BY <2>2, <2>3, <2>4, <2>7
<1>4. \A k \in 1..m + 1 : Len(new[k]) = n
  <2> TAKE k \in 1..m + 1
  <2>1. CASE k = m + 1
    BY <1>3, <2>1
  <2>2. CASE k # m + 1
    <3>1. k \in 1..m
      BY <1>2, <2>2
    <3> QED BY <1>2, <1>3, <3>1
  <2> QED BY <2>1, <2>2
<1>5. (bits \o t) \in Seq(D) /\ Len(bits \o t) = Len(bits) + n
  BY ConcatProperties DEF D
<1>6. (m + 1) * n - n < Len(bits \o t) /\ Len(bits \o t) <= (m + 1) * n
  <2> DEFINE p == m * n
             l == Len(bits)
  <2>1. p \in Nat /\ (m + 1) * n = p + n
    BY <1>1, <1>2
  <2>2. l \in Nat /\ p - n < l /\ l <= p
    BY <1>2
  <2> HIDE DEF p
  <2>3. (p + n) - n < l + n /\ l + n <= p + n
    <3> HIDE DEF l
    <3> QED BY <1>1, <2>1, <2>2
  <2> QED BY <1>5, <2>1, <2>3
<1>7. t \in Seq(Nat) /\ bits \in Seq(Nat)
  BY <1>1, DigitsAreNat
<1>8. ValueIn(bits \o t, 2) = y * base + x
  <2>1. ValueIn(bits \o t, 2) = ValueIn(bits, 2) * c[Len(t)] + ValueIn(t, 2)
    BY <1>1, <1>7, ConcatValue
  <2> QED BY <2>1 DEF y, base, x
<1>9. x \in Nat /\ y \in Nat
  BY <1>1, ValueType DEF x, y
<1>10. Each(new, 2) = Each(all, 2) \o <<x>>
  <2> DEFINE e == Each(all, 2)
             f == Each(new, 2)
  <2>1. e \in Seq(Nat) /\ Len(e) = m /\ \A k \in 1..m : e[k] = ValueIn(all[k], 2)
    BY <1>1, <1>2, EachType DEF m, D
  <2>2. f \in Seq(Nat) /\ Len(f) = m + 1 /\ \A k \in 1..m + 1 : f[k] = ValueIn(new[k], 2)
    BY <1>1, <1>3, EachType DEF D
  <2> HIDE DEF e, f
  <2>3. <<x>> \in Seq(Nat) /\ Len(<<x>>) = 1 /\ <<x>>[1] = x
    BY <1>9
  <2>4. /\ e \o <<x>> \in Seq(Nat) /\ Len(e \o <<x>>) = m + 1
        /\ \A k \in 1..m + 1 : (e \o <<x>>)[k] = IF k <= m THEN e[k] ELSE <<x>>[k - m]
    <3>1. /\ e \o <<x>> \in Seq(Nat) /\ Len(e \o <<x>>) = Len(e) + Len(<<x>>)
          /\ \A k \in 1..Len(e) + Len(<<x>>) :
                (e \o <<x>>)[k] = IF k <= Len(e) THEN e[k] ELSE <<x>>[k - Len(e)]
      <4> DEFINE w == <<x>>
      <4>1. e \in Seq(Nat) /\ w \in Seq(Nat)
        BY <2>1, <2>3
      <4> HIDE DEF w
      <4>2. /\ e \o w \in Seq(Nat) /\ Len(e \o w) = Len(e) + Len(w)
            /\ \A k \in 1..Len(e) + Len(w) :
                  (e \o w)[k] = IF k <= Len(e) THEN e[k] ELSE w[k - Len(e)]
        BY <4>1, ConcatProperties
      <4> QED BY <4>2 DEF w
    <3> QED BY <2>1, <2>3, <3>1
  <2>5. ASSUME NEW k \in 1..m + 1 PROVE f[k] = (e \o <<x>>)[k]
    <3>1. CASE k = m + 1
      <4>1. ~(k <= m) /\ k - m = 1
        BY <1>2, <3>1
      <4>2. (e \o <<x>>)[k] = <<x>>[k - m]
        BY <2>4, <4>1
      <4>3. (e \o <<x>>)[k] = x
        BY <2>3, <4>1, <4>2
      <4>4. f[k] = ValueIn(t, 2)
        BY <1>3, <2>2, <3>1
      <4> QED BY <4>3, <4>4 DEF x
    <3>2. CASE k # m + 1
      <4>1. k \in 1..m /\ k <= m
        BY <1>2, <3>2
      <4>2. f[k] = ValueIn(all[k], 2)
        BY <1>3, <2>2, <4>1
      <4>3. (e \o <<x>>)[k] = e[k]
        BY <2>4, <4>1
      <4> QED BY <2>1, <4>1, <4>2, <4>3
    <3> QED BY <3>1, <3>2
  <2>6. f = e \o <<x>>
    <3> DEFINE g == e \o <<x>>
    <3>1. g \in Seq(Nat) /\ Len(g) = m + 1 /\ \A k \in 1..m + 1 : f[k] = g[k]
      BY <2>4, <2>5
    <3> HIDE DEF g
    <3>2. f = g
      BY <2>2, <3>1, SeqEqual
    <3> QED BY <3>2 DEF g
  <2> QED BY <2>6 DEF e, f
<1>11. ValueIn(Each(new, 2), base) = y * base + x
  <2>1. PICK d : Powers(d, base)
    BY <1>1, PowersExist
  <2>2. Each(all, 2) \in Seq(Nat)
    BY <1>1, <1>2, EachType DEF D
  <2>3. <<x>> \in Seq(Nat) /\ Len(<<x>>) = 1 /\ ValueIn(<<x>>, base) = x
    BY <1>1, <1>9, OneDigit
  <2>4. ValueIn(Each(all, 2) \o <<x>>, base)
           = ValueIn(Each(all, 2), base) * d[Len(<<x>>)] + ValueIn(<<x>>, base)
    BY <1>1, <2>1, <2>2, <2>3, ConcatValue
  <2>5. d[1] = base
    <3>1. 0 \in Nat /\ 0 + 1 = 1
      OBVIOUS
    <3>2. d[0 + 1] = base * d[0] /\ d[0] = 1
      BY <2>1, <3>1 DEF Powers
    <3>3. base * 1 = base
      BY <1>1
    <3> QED BY <3>1, <3>2, <3>3
  <2> QED BY <1>2, <1>10, <2>3, <2>4, <2>5
<1>12. ChunksOf(new, bits \o t, n, base)
  BY <1>3, <1>4, <1>6, <1>8, <1>11, <1>2 DEF ChunksOf, D
<1> QED BY <1>12 DEF new, base

LEMMA PieceIs ==
  ASSUME NEW D, NEW s \in Seq(D), NEW i \in Nat \ {0}, NEW j \in Nat, i <= j, j <= Len(s)
  PROVE  /\ SubSeq(s, i, j) \in Seq(D) /\ Len(SubSeq(s, i, j)) = j - i + 1
         /\ \A k \in 1..j - i + 1 : SubSeq(s, i, j)[k] = s[i + k - 1]
<1>1. i \in Int /\ j \in Int /\ \A k \in i..j : s[k] \in D
  <2>1. ASSUME NEW k \in i..j PROVE s[k] \in D
    <3>1. k \in 1..Len(s)
      OBVIOUS
    <3> QED BY <3>1, ElementOfSeq
  <2> QED BY <2>1
<1>2. /\ SubSeq(s, i, j) \in Seq(D)
      /\ Len(SubSeq(s, i, j)) = IF i <= j THEN j - i + 1 ELSE 0
      /\ \A k \in 1..j - i + 1 : SubSeq(s, i, j)[k] = s[i + k - 1]
  BY <1>1, SubSeqProperties
<1> QED BY <1>2

LEMMA SplitIs ==
  ASSUME NEW c, Powers(c, 2), NEW n \in Nat \ {0}, NEW bits \in Seq(Digits(2)), Len(bits) >= 1
  PROVE  ChunksOf(SplitAndPadBits(bits, n), bits, n, c[n])
<1> DEFINE D == Digits(2)
           l == Len(bits)
           f == CHOOSE h : Chunks(h, bits, n)
           part(j) == SubSeq(bits, 1, j)
           S == {k \in Nat : \A j \in 1..k : j <= l => ChunksOf(f[j], part(j), n, c[n])}
<1>1. l \in Nat /\ l >= 1 /\ bits \in Seq(D)
  OBVIOUS
<1>2. Chunks(f, bits, n)
  <2>1. 0 \in D
    BY DEF Digits
  <2> HIDE DEF D
  <2> QED BY <1>1, <2>1, ChunksExist
<1>3. SplitAndPadBits(bits, n) = f[l]
  BY DEF SplitAndPadBits, Chunks
<1> HIDE DEF f, l, D
<1>4. \A len \in 0..l : f[len] = IF len <= n THEN <<LeftPadBits(part(len), n)>>
                                 ELSE f[len - n] \o <<SubSeq(bits, len - n + 1, len)>>
  BY <1>2 DEF Chunks, l
<1>5. ASSUME NEW j \in 1..l PROVE part(j) \in Seq(D) /\ Len(part(j)) = j
  <2>1. 1 \in Nat \ {0} /\ j \in Nat /\ 1 <= j /\ j <= Len(bits) /\ j - 1 + 1 = j
    BY <1>1 DEF l
  <2> QED BY <1>1, <2>1, PieceIs
<1> HIDE DEF part
<1>6. 0 \in S
  OBVIOUS
<1>7. ASSUME NEW k \in Nat, k \in S PROVE k + 1 \in S
  <2> SUFFICES ASSUME NEW j \in 1..k + 1, j <= l PROVE ChunksOf(f[j], part(j), n, c[n])
    OBVIOUS
  <2>1. j \in 1..l /\ j \in 0..l /\ j \in Nat /\ j >= 1
    BY <1>1
  <2>2. CASE j <= k
    <3>1. j \in 1..k
      BY <2>2
    <3> QED BY <1>7, <2>1, <3>1
  <2>3. CASE j <= n
    <3>1. f[j] = <<LeftPadBits(part(j), n)>>
      BY <1>4, <2>1, <2>3
    <3>2. part(j) \in Seq(D) /\ Len(part(j)) = j
      BY <1>5, <2>1
    <3>3. c[n] \in Nat
      BY DEF Powers
    <3> QED BY <2>1, <2>3, <3>1, <3>2, <3>3, ChunkInFront DEF D
  <2>4. CASE ~(j <= k) /\ ~(j <= n)
    <3> DEFINE i == j - n
               a == i + 1
               t == SubSeq(bits, a, j)
    <3>1. i \in 1..k /\ i <= l /\ i \in 1..l /\ a \in Nat \ {0} /\ a <= j /\ j - a + 1 = n
      BY <1>1, <2>1, <2>4
    <3>2. f[j] = f[i] \o <<t>>
      BY <1>4, <2>1, <2>4
    <3>3. t \in Seq(D) /\ Len(t) = n
      <4>1. j <= Len(bits)
        BY <2>1 DEF l
      <4> HIDE DEF a
      <4> QED BY <1>1, <2>1, <3>1, <4>1, PieceIs
    <3>4. part(j) = part(i) \o t
      <4> HIDE DEF i
      <4>1. 1 \in 1..Len(bits) + 1 /\ i \in 0..Len(bits) /\ 1 - 1 = 0 /\ j \in i..Len(bits)
        BY <1>1, <2>1, <3>1 DEF l
      <4>2. SubSeq(bits, 1, i) \o SubSeq(bits, i + 1, j) = SubSeq(bits, 1, j)
        BY <1>1, <4>1, ConcatAdjacentSubSeq
      <4> QED BY <4>2 DEF part
    <3>5. ChunksOf(f[i], part(i), n, c[n])
      BY <1>7, <3>1
    <3>6. part(i) \in Seq(D)
      BY <1>5, <3>1
    <3> HIDE DEF t, i
    <3>7. ChunksOf(f[i] \o <<t>>, part(i) \o t, n, c[n])
      BY <3>3, <3>5, <3>6, ChunkBehind DEF D
    <3> QED BY <3>2, <3>4, <3>7
  <2> QED BY <2>2, <2>3, <2>4
<1> HIDE DEF S
<1>8. l \in S
  BY <1>1, <1>6, <1>7, InductionOver
<1>9. ChunksOf(f[l], part(l), n, c[n])
  <2>1. l \in 1..l
    BY <1>1
  <2> QED BY <1>1, <1>8, <2>1 DEF S
<1>10. part(l) = bits
  BY <1>1, SubSeqFull DEF part, l
<1> QED BY <1>3, <1>9, <1>10

\* A power of a power.
LEMMA PowersMultiply ==
  ASSUME NEW base \in Nat, NEW c, Powers(c, base), NEW n \in Nat, NEW d, Powers(d, c[n]),
         NEW m \in Nat
  PROVE  d[m] = c[n * m]
<1> DEFINE S == {k \in Nat : d[k] = c[n * k]}
<1>1. 0 \in S
  <2>1. n * 0 = 0
    OBVIOUS
  <2> QED BY <2>1 DEF Powers
<1>2. ASSUME NEW k \in Nat, k \in S PROVE k + 1 \in S
  <2> DEFINE p == n * k
             a == c[n]
             b == c[p]
  <2>1. p \in Nat /\ n * (k + 1) = p + n
    OBVIOUS
  <2>2. d[k] = b
    BY <1>2
  <2>3. d[k + 1] = a * d[k]
    BY DEF Powers
  <2> HIDE DEF p
  <2>4. c[p + n] = b * a
    BY <2>1, PowersAdd
  <2>5. a \in Nat /\ b \in Nat
    BY <2>1 DEF Powers
  <2> HIDE DEF a, b
  <2>6. a * b = b * a
    BY <2>5
  <2>7. d[k + 1] = c[n * (k + 1)]
    BY <2>1, <2>2, <2>3, <2>4, <2>6
  <2> QED BY <2>7
<1>3. m \in S
  BY <1>1, <1>2, InductionOver
<1> QED BY <1>3

LEMMA TwoToIs == Powers(TwoTo, 2)
<1> DEFINE Is(f) == f = [n \in Nat |-> IF n = 0 THEN 1 ELSE 2 * f[n - 1]]
<1>1. 2 \in Nat
  OBVIOUS
<1>2. PICK c : Powers(c, 2)
  BY <1>1, PowersExist
<1>3. ASSUME NEW n \in Nat PROVE c[n] = IF n = 0 THEN 1 ELSE 2 * c[n - 1]
  <2>1. CASE n = 0
    BY <1>2, <2>1 DEF Powers
  <2>2. CASE n # 0
    <3> DEFINE m == n - 1
    <3>1. m \in Nat /\ m + 1 = n
      BY <2>2
    <3> HIDE DEF m
    <3>2. c[m + 1] = 2 * c[m]
      BY <1>2, <3>1 DEF Powers
    <3>3. c[n] = 2 * c[m]
      BY <3>1, <3>2
    <3> QED BY <2>2, <3>3 DEF m
  <2> QED BY <2>1, <2>2
<1>4. c = [n \in Nat |-> c[n]]
  BY <1>2 DEF Powers
<1>5. Is(c)
  BY <1>3, <1>4
<1>6. TwoTo = CHOOSE f : Is(f)
  BY DEF TwoTo
<1>7. Is(TwoTo)
  <2> HIDE DEF Is
  <2> QED BY <1>5, <1>6
<1>8. \A n \in Nat : TwoTo[n] = IF n = 0 THEN 1 ELSE 2 * TwoTo[n - 1]
  BY <1>7
<1>9. TwoTo = [n \in Nat |-> TwoTo[n]]
  BY <1>7
<1> HIDE DEF Is
<1>10. ASSUME NEW k \in Nat PROVE TwoTo[k + 1] = 2 * TwoTo[k]
  <2> DEFINE m == k + 1
  <2>1. m \in Nat /\ m # 0 /\ m - 1 = k
    OBVIOUS
  <2> HIDE DEF m
  <2>2. TwoTo[m] = 2 * TwoTo[m - 1]
    BY <1>8, <2>1
  <2> QED BY <2>1, <2>2 DEF m
<1>11. TwoTo[0] = 1
  BY <1>8
<1> DEFINE S == {k \in Nat : TwoTo[k] \in Nat}
<1>12. 0 \in S
  BY <1>11
<1>13. ASSUME NEW k \in Nat, k \in S PROVE k + 1 \in S
  BY <1>10, <1>13
<1>14. \A k \in Nat : TwoTo[k] \in Nat
  BY <1>12, <1>13, InductionOver
<1>15. TwoTo \in [Nat -> Nat]
  BY <1>9, <1>14
<1> QED BY <1>10, <1>11, <1>15 DEF Powers

---------------------------------------------------------------------------
(* Limbs.                                                                  *)

\* Limbs, as decimals, each below the base of the field.
LimbsOf(dec, base) ==
    /\ dec \in Seq(Seq(Digits(10)))
    /\ \A k \in 1..Len(dec) : ValueIn(dec[k], 10) \in Digits(base)

LEMMA EachLimb ==
  ASSUME NEW base \in Nat \ {0}, NEW dec, LimbsOf(dec, base)
  PROVE  /\ Each(dec, 10) \in Seq(Digits(base)) /\ Each(dec, 10) \in Seq(Nat)
         /\ Len(Each(dec, 10)) = Len(dec)
         /\ \A k \in 1..Len(dec) : Each(dec, 10)[k] = ValueIn(dec[k], 10)
<1> DEFINE e == Each(dec, 10)
           n == Len(dec)
<1>1. 10 \in Nat /\ 10 \in Nat \ {0}
  OBVIOUS
<1>2. e \in Seq(Nat) /\ Len(e) = n /\ \A k \in 1..n : e[k] = ValueIn(dec[k], 10)
  BY <1>1, EachType DEF LimbsOf
<1> HIDE DEF e
<1>3. \A k \in 1..n : e[k] \in Digits(base)
  BY <1>2 DEF LimbsOf
<1>4. n \in Nat /\ e = [k \in 1..n |-> e[k]]
  BY <1>2
<1> HIDE DEF n
<1>5. e \in Seq(Digits(base))
  BY <1>3, <1>4
<1> QED BY <1>2, <1>5 DEF e, n

LowOf(dec, limbs) == SubSeq(dec, Len(dec) - limbs + 1, Len(dec))

\* The low limbs are what the number leaves when the field is taken off it.
LEMMA LowLimbs ==
  ASSUME NEW base \in Nat \ {0}, NEW d, Powers(d, base), NEW dec, LimbsOf(dec, base),
         NEW limbs \in Nat \ {0}, limbs < Len(dec)
  PROVE  /\ LimbsOf(LowOf(dec, limbs), base) /\ Len(LowOf(dec, limbs)) = limbs
         /\ ValueIn(Each(LowOf(dec, limbs), 10), base)
              = ValueIn(Each(dec, 10), base) % d[limbs]
<1> DEFINE D == Digits(10)
           low == LowOf(dec, limbs)
           m == Len(dec)
           h == m - limbs
           a == h + 1
           e == Each(dec, 10)
           f == Each(low, 10)
           high == SubSeq(e, 1, h)
           rest == SubSeq(e, a, m)
<1>1. dec \in Seq(Seq(D)) /\ m \in Nat
  BY DEF LimbsOf
<1>2. h \in Nat \ {0} /\ a \in Nat \ {0} /\ a <= m /\ m - a + 1 = limbs /\ h <= m /\ h = a - 1
      /\ 1 <= h /\ h \in Nat
  BY <1>1
<1>3. low = SubSeq(dec, a, m)
  BY DEF LowOf
<1> HIDE DEF h, a, low
<1>4. /\ low \in Seq(Seq(D)) /\ Len(low) = limbs
      /\ \A k \in 1..limbs : low[k] = dec[a + k - 1]
  <2>1. m <= Len(dec)
    BY <1>1
  <2>2. /\ SubSeq(dec, a, m) \in Seq(Seq(D)) /\ Len(SubSeq(dec, a, m)) = m - a + 1
        /\ \A k \in 1..m - a + 1 : SubSeq(dec, a, m)[k] = dec[a + k - 1]
    <3> DEFINE T == Seq(D)
    <3> HIDE DEF m, T
    <3>1. dec \in Seq(T) /\ a \in Nat \ {0} /\ m \in Nat /\ a <= m /\ m <= Len(dec)
      BY <1>1, <1>2, <2>1 DEF T
    <3>2. /\ SubSeq(dec, a, m) \in Seq(T) /\ Len(SubSeq(dec, a, m)) = m - a + 1
          /\ \A k \in 1..m - a + 1 : SubSeq(dec, a, m)[k] = dec[a + k - 1]
      BY <3>1, PieceIs
    <3> QED BY <3>2 DEF T
  <2> QED BY <1>2, <1>3, <2>2
<1>5. \A k \in 1..limbs : a + k - 1 \in 1..m
  BY <1>1, <1>2
<1>6. LimbsOf(low, base)
  <2>1. ASSUME NEW k \in 1..limbs PROVE ValueIn(low[k], 10) \in Digits(base)
    <3> DEFINE i == a + k - 1
    <3>1. i \in 1..m /\ low[k] = dec[i]
      BY <1>4, <1>5
    <3> HIDE DEF i
    <3>2. ValueIn(dec[i], 10) \in Digits(base)
      BY <3>1 DEF LimbsOf
    <3> QED BY <3>1, <3>2
  <2> QED BY <1>4, <2>1 DEF LimbsOf
<1>7. /\ e \in Seq(Digits(base)) /\ e \in Seq(Nat) /\ Len(e) = m
      /\ \A k \in 1..m : e[k] = ValueIn(dec[k], 10)
  BY EachLimb
<1>8. f \in Seq(Digits(base)) /\ f \in Seq(Nat) /\ Len(f) = limbs
      /\ \A k \in 1..limbs : f[k] = ValueIn(low[k], 10)
  BY <1>4, <1>6, EachLimb
<1> HIDE DEF e, f
<1>9. /\ rest \in Seq(Nat) /\ Len(rest) = limbs
      /\ \A k \in 1..limbs : rest[k] = e[a + k - 1]
  <2>1. e \in Seq(Nat) /\ a \in Nat \ {0} /\ m \in Nat /\ a <= m /\ m <= Len(e)
    BY <1>1, <1>2, <1>7
  <2>2. /\ SubSeq(e, a, m) \in Seq(Nat) /\ Len(SubSeq(e, a, m)) = m - a + 1
        /\ \A k \in 1..m - a + 1 : SubSeq(e, a, m)[k] = e[a + k - 1]
    <3> HIDE DEF m
    <3> QED BY <2>1, PieceIs
  <2> QED BY <1>2, <2>2
<1>10. high \in Seq(Nat)
  <2>1. 1 \in Nat \ {0}
    OBVIOUS
  <2> QED BY <1>1, <1>2, <1>7, <2>1, PieceIs
<1>11. high \o rest = e
  <2>1. 1 \in 1..Len(e) + 1 /\ h \in 0..Len(e) /\ 1 - 1 = 0 /\ m \in h..Len(e)
    BY <1>1, <1>2, <1>7
  <2>2. SubSeq(e, 1, h) \o SubSeq(e, h + 1, m) = SubSeq(e, 1, m)
    BY <1>7, <2>1, ConcatAdjacentSubSeq
  <2>3. SubSeq(e, 1, m) = e
    BY <1>7, SubSeqFull
  <2> QED BY <2>2, <2>3 DEF a
<1> HIDE DEF high, rest
<1>12. f = rest
  <2>1. ASSUME NEW k \in 1..limbs PROVE f[k] = rest[k]
    <3> DEFINE i == a + k - 1
    <3>1. i \in 1..m /\ low[k] = dec[i] /\ rest[k] = e[i]
      BY <1>4, <1>5, <1>9
    <3> HIDE DEF i
    <3>2. e[i] = ValueIn(dec[i], 10)
      BY <1>7, <3>1
    <3> QED BY <1>8, <3>1, <3>2
  <2> QED BY <1>8, <1>9, <2>1, SeqEqual
<1> DEFINE x == ValueIn(e, base)
           q == ValueIn(high, base)
           r == ValueIn(f, base)
           p == d[limbs]
<1>13. x = q * p + r
  <2>1. ValueIn(high \o rest, base) = q * d[Len(rest)] + ValueIn(rest, base)
    BY <1>9, <1>10, ConcatValue
  <2> QED BY <1>9, <1>11, <1>12, <2>1
<1>14. r \in Nat /\ r < p
  <2>1. ValueIn(f, base) \in Nat /\ ValueIn(f, base) < d[Len(f)]
    BY <1>8, ValueBelow
  <2> QED BY <1>8, <2>1
<1>15. q \in Nat
  <2>1. PICK v : PrefixNumbers(v, high, base)
    BY <1>10, PrefixesExist
  <2> QED BY <1>10, <2>1, ValueByPrefixes
<1>16. p \in Nat /\ p >= 1
  BY PowersPositive
<1> HIDE DEF x, q, r, p
<1>17. x % p = r
  <2>1. x = p * q + r
    BY <1>13, <1>15, <1>16
  <2>2. p \in Nat \ {0} /\ r \in 0..(p - 1)
    BY <1>14, <1>16
  <2>3. p * q \in Nat
    BY <1>15, <1>16
  <2> DEFINE w == p * q
  <2>4. x \in Int
    <3>1. w \in Nat /\ x = w + r
      BY <2>1, <2>3
    <3> HIDE DEF w
    <3> QED BY <1>14, <3>1
  <2>5. q \in Int
    BY <1>15
  <2> QED BY <2>1, <2>2, <2>4, <2>5, QuotientIs
<1> QED BY <1>4, <1>6, <1>17 DEF x, r, p, e, f, low

\* The limbs put in front.
Missing(z) == [k \in 1..z |-> <<0>>]

\* Limbs of zero in front change nothing.
LEMMA MoreLimbs ==
  ASSUME NEW base \in Nat \ {0}, NEW d, Powers(d, base), NEW dec, LimbsOf(dec, base),
         NEW z \in Nat, NEW more, more = Missing(z) \o dec
  PROVE  /\ LimbsOf(more, base) /\ Len(more) = z + Len(dec)
         /\ ValueIn(Each(more, 10), base) = ValueIn(Each(dec, 10), base)
<1> DEFINE D == Digits(10)
           m == Len(dec)
           e == Each(dec, 10)
           f == Each(more, 10)
           front == Missing(z)
           zeros == [k \in 1..z |-> 0]
           ze == zeros \o e
<1>1. dec \in Seq(Seq(D)) /\ m \in Nat
  BY DEF LimbsOf
<1>2. front \in Seq(Seq(D)) /\ Len(front) = z /\ \A k \in 1..z : front[k] = <<0>>
  <2>1. 0 \in D
    BY DEF Digits
  <2> HIDE DEF D
  <2>2. <<0>> \in Seq(D)
    BY <2>1
  <2> QED BY <2>2 DEF Missing
<1>3. more = front \o dec
  OBVIOUS
<1> HIDE DEF front
<1>4. /\ more \in Seq(Seq(D)) /\ Len(more) = z + m
      /\ \A k \in 1..z + m : more[k] = IF k <= z THEN front[k] ELSE dec[k - z]
  <2>1. /\ front \o dec \in Seq(Seq(D)) /\ Len(front \o dec) = Len(front) + Len(dec)
        /\ \A k \in 1..Len(front) + Len(dec) :
              (front \o dec)[k] = IF k <= Len(front) THEN front[k] ELSE dec[k - Len(front)]
    BY <1>1, <1>2, ConcatProperties
  <2> QED BY <1>2, <1>3, <2>1
<1>5. ValueIn(<<0>>, 10) = 0
  <2>1. 10 \in Nat /\ 0 \in Nat
    OBVIOUS
  <2> QED BY <2>1, OneDigit
<1>6. /\ e \in Seq(Digits(base)) /\ e \in Seq(Nat) /\ Len(e) = m
      /\ \A k \in 1..m : e[k] = ValueIn(dec[k], 10)
  BY EachLimb
<1>7. /\ zeros \in Seq(Nat) /\ Len(zeros) = z /\ \A k \in 1..z : zeros[k] = 0
  OBVIOUS
<1>8. ValueIn(ze, base) = ValueIn(e, base)
  <2>1. zeros = [k \in 1..z |-> 0]
    OBVIOUS
  <2> HIDE DEF zeros, e
  <2> QED BY <1>6, <2>1, ZerosInFront
<1> HIDE DEF e, zeros
<1>9. /\ ze \in Seq(Nat) /\ Len(ze) = z + m
      /\ \A k \in 1..z + m : ze[k] = IF k <= z THEN zeros[k] ELSE e[k - z]
  <2>1. /\ ze \in Seq(Nat) /\ Len(ze) = Len(zeros) + Len(e)
        /\ \A k \in 1..Len(zeros) + Len(e) :
              ze[k] = IF k <= Len(zeros) THEN zeros[k] ELSE e[k - Len(zeros)]
    BY <1>6, <1>7, ConcatProperties
  <2> HIDE DEF ze
  <2> QED BY <1>6, <1>7, <2>1
<1> HIDE DEF ze, m
<1>10. ASSUME NEW k \in 1..z + m
       PROVE  ValueIn(more[k], 10) = ze[k] /\ ze[k] \in Digits(base)
  <2>1. CASE k <= z
    <3>1. k \in 1..z
      BY <2>1
    <3>2. more[k] = <<0>> /\ ze[k] = 0
      BY <1>2, <1>4, <1>7, <1>9, <2>1, <3>1
    <3>3. 0 \in Digits(base)
      BY DEF Digits
    <3> QED BY <1>5, <3>2, <3>3
  <2>2. CASE ~(k <= z)
    <3> DEFINE i == k - z
    <3>1. i \in 1..m
      BY <1>1, <2>2
    <3>2. more[k] = dec[i] /\ ze[k] = e[i]
      BY <1>4, <1>9, <2>2
    <3> HIDE DEF i
    <3>3. e[i] = ValueIn(dec[i], 10) /\ e[i] \in Digits(base)
      <4>1. ValueIn(dec[i], 10) \in Digits(base)
        BY <3>1 DEF LimbsOf, m
      <4> QED BY <1>6, <3>1, <4>1
    <3> QED BY <3>2, <3>3
  <2> QED BY <2>1, <2>2
<1>11. LimbsOf(more, base)
  <2>1. \A k \in 1..Len(more) : ValueIn(more[k], 10) \in Digits(base)
    BY <1>4, <1>10
  <2> QED BY <1>4, <2>1 DEF LimbsOf
<1>12. f = ze
  <2>1. f \in Seq(Nat) /\ Len(f) = z + m /\ \A k \in 1..z + m : f[k] = ValueIn(more[k], 10)
    BY <1>4, <1>11, EachLimb
  <2> HIDE DEF f
  <2>2. \A k \in 1..z + m : f[k] = ze[k]
    BY <1>10, <2>1
  <2> QED BY <1>9, <2>1, <2>2, SeqEqual
<1> QED BY <1>4, <1>8, <1>11, <1>12 DEF e, f, m

\* What LimbsStandForElement says of the limbs.
Stands(limb, value, n, limbs, silent) ==
    IF value >= TwoTo[n * limbs] /\ ~silent THEN limb = <<Failure>>
    ELSE /\ Len(limb) = limbs
         /\ \A k \in DOMAIN limb : ValueIn(limb[k], 10) \in 0..TwoTo[n] - 1
         /\ ValueIn(Each(limb, 10), TwoTo[n]) = value % TwoTo[n * limbs]

LEMMA FieldIs ==
  ASSUME NEW hex \in Seq(Digits(16)), NEW n \in Nat \ {0}, NEW limbs \in Nat \ {0},
         NEW silent \in BOOLEAN
  PROVE  Stands(HexToFieldLimbs(hex, n, limbs, silent), ValueIn(hex, 16), n, limbs, silent)
<1> DEFINE bits == HexToBinary(hex)
           all == SplitAndPadBits(bits, n)
           dec == [k \in DOMAIN all |-> BinToDec(all[k])]
           m == Len(all)
           l == Len(bits)
           base == TwoTo[n]
           field == TwoTo[n * limbs]
           x == ValueIn(hex, 16)
           answer == HexToFieldLimbs(hex, n, limbs, silent)
<1>1. /\ bits \in Seq(Digits(2)) /\ ValueIn(bits, 2) = x
      /\ l >= 1 /\ (l > 1 => bits[1] # 0)
  <2>1. 16 \in Nat /\ 2 \in Nat /\ 16 >= 2 /\ 2 >= 2
    OBVIOUS
  <2> QED BY <2>1, ConvertIs DEF HexToBinary
<1>2. answer = IF Len(dec) - limbs > 0
               THEN IF silent THEN SubSeq(dec, (Len(dec) - limbs) + 1, Len(dec)) ELSE <<Failure>>
               ELSE [k \in 1..-(Len(dec) - limbs) |-> <<0>>] \o dec
  BY DEF HexToFieldLimbs, SplitHexToBits
<1> HIDE DEF bits, answer, x
<1>3. Powers(TwoTo, 2)
  BY TwoToIs
<1>4. ChunksOf(all, bits, n, base)
  BY <1>1, <1>3, SplitIs
<1> HIDE DEF all
<1>5. /\ all \in Seq(Seq(Digits(2))) /\ m >= 1 /\ m \in Nat /\ DOMAIN all = 1..m
      /\ \A k \in 1..m : Len(all[k]) = n
      /\ m * n - n < l /\ l <= m * n /\ l \in Nat
      /\ ValueIn(Each(all, 2), base) = x
  <2>1. /\ all \in Seq(Seq(Digits(2))) /\ m >= 1
        /\ \A k \in 1..m : Len(all[k]) = n
        /\ m * n - n < l /\ l <= m * n
        /\ ValueIn(Each(all, 2), base) = x
    BY <1>1, <1>4 DEF ChunksOf
  <2>2. m \in Nat /\ DOMAIN all = 1..m
    BY <2>1
  <2>3. l \in Nat
    BY <1>1
  <2> QED BY <2>1, <2>2, <2>3
<1>6. base \in Nat \ {0} /\ field \in Nat \ {0}
  <2>1. n \in Nat /\ n * limbs \in Nat /\ 2 \in Nat \ {0}
    OBVIOUS
  <2>2. base \in Nat /\ base >= 1
    BY <1>3, <2>1, PowersPositive
  <2> DEFINE p == n * limbs
  <2>3. TwoTo[p] \in Nat /\ TwoTo[p] >= 1
    <3> HIDE DEF p
    <3>1. p \in Nat
      BY <2>1 DEF p
    <3> QED BY <1>3, <2>1, <3>1, PowersPositive
  <2> QED BY <2>2, <2>3
<1> HIDE DEF base, field, m, l
<1>7. PICK d : Powers(d, base)
  BY <1>6, PowersExist
<1>8. d[limbs] = field
  <2>1. 2 \in Nat /\ n \in Nat /\ limbs \in Nat /\ Powers(d, TwoTo[n])
    BY <1>7 DEF base
  <2> QED BY <1>3, <2>1, PowersMultiply DEF field
<1>9. ASSUME NEW k \in 1..m
      PROVE  /\ dec[k] \in Seq(Digits(10))
             /\ ValueIn(dec[k], 10) = ValueIn(all[k], 2)
             /\ ValueIn(all[k], 2) \in Digits(base)
  <2> DEFINE w == all[k]
  <2>1. w \in Seq(Digits(2)) /\ Len(w) = n
    <3>1. k \in 1..Len(all)
      BY DEF m
    <3>2. all[k] \in Seq(Digits(2))
      BY <1>5, <3>1, ElementOfSeq
    <3> QED BY <1>5, <3>2
  <2>2. dec[k] = ConvertBase(w, 2, 10)
    BY <1>5 DEF BinToDec
  <2> HIDE DEF w, dec
  <2>3. ConvertBase(w, 2, 10) \in Seq(Digits(10)) /\ ValueIn(ConvertBase(w, 2, 10), 10) = ValueIn(w, 2)
    <3>1. 10 \in Nat /\ 2 \in Nat /\ 10 >= 2 /\ 2 >= 2
      OBVIOUS
    <3> QED BY <2>1, <3>1, ConvertIs
  <2>4. ValueIn(w, 2) \in Nat /\ ValueIn(w, 2) < TwoTo[Len(w)]
    <3>1. 2 \in Nat \ {0}
      OBVIOUS
    <3> QED BY <1>3, <2>1, <3>1, ValueBelow
  <2>5. ValueIn(w, 2) \in 0..base - 1
    <3>1. ValueIn(w, 2) < base
      BY <2>1, <2>4 DEF base
    <3> QED BY <1>6, <2>4, <3>1
  <2> QED BY <2>2, <2>3, <2>5 DEF w, Digits
<1>10. dec = [k \in 1..m |-> dec[k]]
  BY <1>5
<1> HIDE DEF dec
<1>11. dec \in Seq(Seq(Digits(10))) /\ Len(dec) = m
  <2> DEFINE B == Seq(Digits(10))
  <2>1. \A k \in 1..m : dec[k] \in B
    BY <1>9
  <2> HIDE DEF B
  <2>2. dec \in [1..m -> B]
    BY <1>10, <2>1
  <2>3. dec \in Seq(B) /\ Len(dec) = m
    BY <1>5, <2>2
  <2> QED BY <2>3 DEF B
<1>12. LimbsOf(dec, base)
  <2>1. \A k \in 1..m : ValueIn(dec[k], 10) \in Digits(base)
    BY <1>9
  <2> QED BY <1>11, <2>1 DEF LimbsOf
<1>13. Each(dec, 10) = Each(all, 2)
  <2> DEFINE e == Each(dec, 10)
             f == Each(all, 2)
  <2>1. e \in Seq(Nat) /\ Len(e) = m /\ \A k \in 1..m : e[k] = ValueIn(dec[k], 10)
    BY <1>6, <1>11, <1>12, EachLimb
  <2>2. f \in Seq(Nat) /\ Len(f) = m /\ \A k \in 1..m : f[k] = ValueIn(all[k], 2)
    <3>1. 2 \in Nat /\ 2 \in Nat \ {0}
      OBVIOUS
    <3> QED BY <1>5, <3>1, EachType DEF m
  <2> HIDE DEF e, f
  <2>3. \A k \in 1..m : e[k] = f[k]
    BY <1>9, <2>1, <2>2
  <2>4. e = f
    BY <2>1, <2>2, <2>3, SeqEqual
  <2> QED BY <2>4 DEF e, f
<1>14. ValueIn(Each(dec, 10), base) = x
  BY <1>5, <1>13
<1>15. x \in Nat
  <2>1. 16 \in Nat \ {0} /\ 16 \in Nat
    OBVIOUS
  <2> QED BY <2>1, ValueType DEF x
<1>16. ASSUME m > limbs PROVE x >= field
  <2> DEFINE p == n * limbs
             j == l - 1
  <2>1. p \in Nat /\ p <= j /\ j \in Nat /\ l > 1
    <3> DEFINE u == m - 1
    <3>1. u \in Nat /\ limbs <= u
      BY <1>5, <1>16
    <3>2. n * limbs <= n * u
      <4> HIDE DEF u
      <4>1. n <= n /\ n \in Nat /\ limbs \in Nat
        OBVIOUS
      <4> QED BY <3>1, <4>1, ProductsOrdered
    <3>3. m * n - n = n * u
      BY <1>5
    <3>4. p \in Nat /\ p >= 1
      <4>1. n * limbs >= n
        BY ProductIsLarge
      <4> QED BY <4>1
    <3> DEFINE w == n * u
    <3>5. w \in Nat /\ p <= w
      BY <3>1, <3>2
    <3>6. w < l
      BY <1>5, <3>3
    <3> HIDE DEF p, w
    <3> QED BY <1>5, <3>4, <3>5, <3>6
  <2>2. x >= TwoTo[j]
    <3>1. 2 \in Nat \ {0}
      OBVIOUS
    <3>2. bits \in Seq(Nat) /\ Len(bits) >= 1 /\ bits[1] # 0
      BY <1>1, <2>1, <3>1, DigitsAreNat DEF l
    <3>3. ValueIn(bits, 2) >= TwoTo[Len(bits) - 1]
      BY <1>3, <3>1, <3>2, ValueAbove
    <3> QED BY <1>1, <3>3 DEF l
  <2> HIDE DEF j, p
  <2>3. TwoTo[p] <= TwoTo[j]
    <3>1. 2 \in Nat \ {0}
      OBVIOUS
    <3> QED BY <1>3, <2>1, <3>1, PowersGrow
  <2>4. TwoTo[p] \in Nat /\ TwoTo[j] \in Nat
    BY <1>3, <2>1 DEF Powers
  <2>5. field = TwoTo[p]
    BY DEF p, field
  <2> QED BY <1>15, <2>2, <2>3, <2>4, <2>5
<1>17. ASSUME ~(m > limbs) PROVE x < field
  <2>1. Each(dec, 10) \in Seq(Digits(base)) /\ Len(Each(dec, 10)) = m
    BY <1>6, <1>11, <1>12, EachLimb
  <2>2. x < d[m]
    BY <1>6, <1>7, <1>14, <2>1, ValueBelow
  <2>3. d[m] <= d[limbs]
    <3>1. limbs \in Nat /\ m <= limbs
      BY <1>5, <1>17
    <3> QED BY <1>5, <1>6, <1>7, <3>1, PowersGrow
  <2>4. d[m] \in Nat /\ d[limbs] \in Nat
    BY <1>5, <1>7 DEF Powers
  <2> QED BY <1>8, <1>15, <2>2, <2>3, <2>4
<1>18. ASSUME NEW r, LimbsOf(r, base), Len(r) = limbs,
              ValueIn(Each(r, 10), base) = x % field
       PROVE  /\ Len(r) = limbs
              /\ \A k \in DOMAIN r : ValueIn(r[k], 10) \in 0..base - 1
              /\ ValueIn(Each(r, 10), base) = x % field
  <2>1. r \in Seq(Seq(Digits(10)))
    BY <1>18 DEF LimbsOf
  <2>2. DOMAIN r = 1..Len(r)
    BY <2>1
  <2> QED BY <1>18, <2>2 DEF LimbsOf, Digits
<1>19. CASE m > limbs /\ ~silent
  <2>1. answer = <<Failure>>
    BY <1>2, <1>5, <1>11, <1>19
  <2>2. x >= field
    BY <1>16, <1>19
  <2> QED BY <1>19, <2>1, <2>2 DEF Stands, answer, x, field
<1>20. CASE m > limbs /\ silent
  <2>1. answer = LowOf(dec, limbs)
    BY <1>2, <1>5, <1>11, <1>20 DEF LowOf
  <2>2. limbs < Len(dec)
    BY <1>5, <1>11, <1>20
  <2>3. /\ LimbsOf(answer, base) /\ Len(answer) = limbs
        /\ ValueIn(Each(answer, 10), base) = ValueIn(Each(dec, 10), base) % d[limbs]
    BY <1>6, <1>7, <1>12, <2>1, <2>2, LowLimbs
  <2>4. ValueIn(Each(answer, 10), base) = x % field
    BY <1>8, <1>14, <2>3
  <2> QED BY <1>18, <1>20, <2>3, <2>4 DEF Stands, answer, x, field, base
<1>21. CASE ~(m > limbs)
  <2> DEFINE z == limbs - m
  <2>1. z \in Nat /\ z + m = limbs /\ ~(Len(dec) - limbs > 0) /\ -(Len(dec) - limbs) = z
    BY <1>5, <1>11, <1>21
  <2>2. answer = [k \in 1..z |-> <<0>>] \o dec
    BY <1>2, <2>1
  <2> HIDE DEF z
  <2>3. /\ LimbsOf(answer, base) /\ Len(answer) = z + Len(dec)
        /\ ValueIn(Each(answer, 10), base) = ValueIn(Each(dec, 10), base)
    BY ZenonT(30), <1>6, <1>7, <1>12, <2>1, <2>2, MoreLimbs DEF Missing
  <2>4. x < field
    BY <1>17, <1>21
  <2>5. x % field = x
    <3>1. x = field * 0 + x
      BY <1>6, <1>15
    <3>2. x \in Int /\ 0 \in Int /\ x \in 0..(field - 1)
      BY <1>6, <1>15, <2>4
    <3> QED BY <1>6, <3>1, <3>2, QuotientIs
  <2>6. ~(x >= field)
    BY <1>6, <1>15, <2>4
  <2>7. Len(answer) = limbs
    BY <1>11, <2>1, <2>3
  <2>8. ValueIn(Each(answer, 10), base) = x % field
    BY <1>14, <2>3, <2>5
  <2> QED BY <1>18, <2>3, <2>6, <2>7, <2>8 DEF Stands, answer, x, field, base
<1> QED BY <1>19, <1>20, <1>21

LEMMA ElementIs ==
  ASSUME NEW str \in Seq(Digits(16)), NEW n \in Nat \ {0}, NEW limbs \in Nat \ {0},
         NEW silent \in BOOLEAN, NEW prefixed \in BOOLEAN
  PROVE  Stands(ElementField(str, prefixed, n, limbs, silent),
                ValueIn(str, IF InferType(str, prefixed) = "integer" THEN 10 ELSE 16), n, limbs, silent)
<1> DEFINE hex == ElementHex(str, prefixed)
           base == IF InferType(str, prefixed) = "integer" THEN 10 ELSE 16
<1>1. hex \in Seq(Digits(16)) /\ ValueIn(hex, 16) = ValueIn(str, base)
  <2>1. CASE InferType(str, prefixed) = "integer"
    <3>1. \A k \in DOMAIN str : str[k] < 10
      BY <2>1 DEF InferType
    <3>2. str \in Seq(Digits(10))
      <4>1. ASSUME NEW k \in 1..Len(str) PROVE str[k] \in Digits(10)
        <5>1. str[k] \in Digits(16)
          BY ElementOfSeq
        <5>2. str[k] < 10
          BY <3>1
        <5> QED BY <5>1, <5>2 DEF Digits
      <4>2. Len(str) \in Nat /\ str = [k \in 1..Len(str) |-> str[k]]
        OBVIOUS
      <4> QED BY <4>1, <4>2
    <3>3. 10 \in Nat /\ 16 \in Nat /\ 10 >= 2 /\ 16 >= 2
      OBVIOUS
    <3>4. hex = ConvertBase(str, 10, 16) /\ base = 10
      BY <2>1 DEF ElementHex, DecToHex
    <3> QED BY <3>2, <3>3, <3>4, ConvertIs
  <2>2. CASE InferType(str, prefixed) # "integer"
    BY <2>2 DEF ElementHex
  <2> QED BY <2>1, <2>2
<1>2. ElementField(str, prefixed, n, limbs, silent) = HexToFieldLimbs(hex, n, limbs, silent)
  BY DEF ElementField
<1> HIDE DEF hex, base
<1>3. Stands(HexToFieldLimbs(hex, n, limbs, silent), ValueIn(hex, 16), n, limbs, silent)
  BY <1>1, FieldIs
<1> QED BY <1>1, <1>2, <1>3 DEF base

---------------------------------------------------------------------------
(* The calls.                                                              *)

\* The inductive invariant: what has been returned is what the function called answers.
Answered ==
    /\ call \in Calls
    /\ done \in BOOLEAN
    /\ Returned("convertBase") => result = ConvertBase(call.str, call.from, call.to)
    /\ Returned("field") =>
          result = ElementField(call.str, call.prefixed, LimbBits, call.limbs, call.silent)
    /\ Returned("text") =>
          result = <<Utf8ToHex(call.bytes, MaxBytes),
                     HexToUtf8(Utf8ToHex(call.bytes, MaxBytes))>>
    /\ Returned("bnToBuf") => result = BnToBuf(call.dec, BufferSize)
    /\ Returned("marshal") =>
          result = UnmarshalProtocolMessage(MarshalProtocolMessage(call.msg))

LEMMA InitAnswered == Init => Answered
BY DEF Init, Answered, Returned

LEMMA NextAnswered == Answered /\ [Next]_vars => Answered'
<1> SUFFICES ASSUME Answered, [Next]_vars PROVE Answered'
  OBVIOUS
<1> USE DEF Returned
<1>1. CASE CallConvertBase
  BY <1>1 DEF CallConvertBase, Return, Answered
<1>2. CASE CallField
  BY <1>2 DEF CallField, Return, Answered
<1>3. CASE CallText
  BY <1>3 DEF CallText, Return, Answered
<1>4. CASE CallBnToBuf
  BY <1>4 DEF CallBnToBuf, Return, Answered
<1>5. CASE CallMarshal
  BY <1>5 DEF CallMarshal, Return, Answered
<1>6. CASE UNCHANGED vars
  BY <1>6 DEF vars, Answered
<1> QED BY <1>1, <1>2, <1>3, <1>4, <1>5, <1>6 DEF Next

THEOREM AlwaysAnswered == Spec => []Answered
<1>1. Init => Answered
  BY InitAnswered
<1>2. Answered /\ [Next]_vars => Answered'
  BY NextAnswered
<1> QED BY <1>1, <1>2, PTL DEF Spec

LEMMA StringIs ==
  ASSUME NEW D, NEW n \in Nat, NEW s \in Strings(D, n)
  PROVE  s \in Seq(D) /\ Len(s) \in 0..n /\ s \in [1..Len(s) -> D]
<1>1. PICK len \in 0..n : s \in [1..len -> D]
  BY DEF Strings
<1>2. s \in Seq(D) /\ Len(s) = len
  BY <1>1
<1> QED BY <1>1, <1>2

\* A number is converted to the digits of the other base, or refused.
LEMMA ConvertReturns ==
  ASSUME Answered, Returned("convertBase")
  PROVE  NumberIsKept
<1> DEFINE str == call.str
           from == call.from
           to == call.to
<1>1. str \in Numbers /\ from \in Bases /\ to \in Bases
  BY DEF Answered, Returned, Calls
<1>2. result = ConvertBase(str, from, to)
  BY DEF Answered
<1> HIDE DEF str, from, to
<1>3. from \in Nat /\ to \in Nat /\ from >= 2 /\ to >= 2
  BY <1>1, BasesAssumption
<1>4. str \in Seq(DigitValues)
  BY <1>1, SizesAssumption, StringIs DEF Numbers
<1>5. CASE \E k \in DOMAIN str : str[k] >= from
  <2>1. result = Failure
    BY <1>2, <1>5, ConvertRefuses
  <2> QED BY <1>5, <2>1 DEF NumberIsKept, str, from
<1>6. CASE ~(\E k \in DOMAIN str : str[k] >= from)
  <2>1. str \in Seq(Digits(from))
    <3>1. ASSUME NEW k \in 1..Len(str) PROVE str[k] \in Digits(from)
      <4>1. str[k] \in DigitValues
        BY <1>4, ElementOfSeq
      <4>2. k \in DOMAIN str
        BY <1>4
      <4>3. ~(str[k] >= from)
        BY <1>6, <4>2
      <4> DEFINE d == str[k]
      <4>4. d \in Nat /\ ~(d >= from)
        <5>1. d \in 0..15 /\ ~(d >= from)
          BY <4>1, <4>3, DigitsAssumption
        <5> HIDE DEF d
        <5> QED BY <5>1
      <4> HIDE DEF d
      <4>5. d \in Digits(from)
        BY <1>3, <4>4 DEF Digits
      <4> QED BY <4>5 DEF d
    <3>2. Len(str) \in Nat /\ str = [k \in 1..Len(str) |-> str[k]]
      BY <1>4
    <3> DEFINE D == Digits(from)
               l == Len(str)
    <3>3. str \in [1..l -> D]
      BY <3>1, <3>2
    <3> HIDE DEF D, l
    <3>4. str \in Seq(D)
      BY <3>2, <3>3 DEF l
    <3> QED BY <3>4 DEF D
  <2>2. /\ result \in Seq(Digits(to))
        /\ ValueIn(result, to) = ValueIn(str, from)
        /\ Len(result) > 1 => result[1] # 0
    BY <1>2, <1>3, <2>1, ConvertIs
  <2>3. \A k \in DOMAIN result : result[k] \in 0..to - 1
    <3>1. DOMAIN result = 1..Len(result)
      BY <2>2
    <3>2. \A k \in 1..Len(result) : result[k] \in Digits(to)
      BY <2>2, ElementOfSeq
    <3> QED BY <3>1, <3>2 DEF Digits
  <2> QED BY <1>6, <2>2, <2>3 DEF NumberIsKept, str, from, to
<1> QED BY <1>5, <1>6

LEMMA FieldReturnsElement ==
  ASSUME Answered, Returned("field")
  PROVE  LimbsStandForElement
<1> DEFINE str == call.str
           limbs == call.limbs
           silent == call.silent
           prefixed == call.prefixed
<1>1. str \in Numbers /\ limbs \in 1..MaxLimbs /\ silent \in BOOLEAN /\ prefixed \in BOOLEAN
  BY DEF Answered, Returned, Calls
<1>2. result = ElementField(str, prefixed, LimbBits, limbs, silent)
  BY DEF Answered
<1> HIDE DEF str, limbs, silent, prefixed
<1>3. limbs \in Nat \ {0} /\ LimbBits \in Nat \ {0}
  <2>1. MaxLimbs \in Nat
    BY SizesAssumption
  <2> QED BY <1>1, <2>1, SizesAssumption
<1>4. str \in Seq(Digits(16))
  <2>1. str \in Seq(DigitValues)
    BY <1>1, SizesAssumption, StringIs DEF Numbers
  <2>2. DigitValues \subseteq Digits(16)
    BY DigitsAssumption DEF Digits
  <2> QED BY <2>1, <2>2, SeqMonotonic
<1>5. Stands(result, ValueIn(str, Meant), LimbBits, limbs, silent)
  <2>1. Stands(ElementField(str, prefixed, LimbBits, limbs, silent),
               ValueIn(str, IF InferType(str, prefixed) = "integer" THEN 10 ELSE 16),
               LimbBits, limbs, silent)
    BY <1>1, <1>3, <1>4, ElementIs
  <2>2. Meant = IF InferType(str, prefixed) = "integer" THEN 10 ELSE 16
    <3>1. \A k \in DOMAIN str : str[k] \in Int
      BY <1>4 DEF Digits
    <3>2. (\E k \in DOMAIN str : str[k] > 9) <=> ~(\A k \in DOMAIN str : str[k] < 10)
      BY <3>1
    <3> QED BY <1>1, <3>2 DEF Meant, InferType, str, prefixed
  <2> QED BY <1>2, <2>1, <2>2
<1> QED BY <1>5 DEF LimbsStandForElement, Stands, Each, str, limbs, silent

LEMMA BufferReturns ==
  ASSUME Answered, Returned("bnToBuf")
  PROVE  BufferStandsForNumber
<1> DEFINE dec == call.dec
<1>1. dec \in Decimals
  BY DEF Answered, Returned, Calls
<1>2. result = BnToBuf(dec, BufferSize)
  BY DEF Answered
<1> HIDE DEF dec
<1>3. BufferSize \in Nat
  BY SizesAssumption
<1>4. dec \in Seq(Digits(10)) /\ Len(dec) >= 1
  <2> DEFINE n == 2 * BufferSize + 1
             D == {d \in DigitValues : d < 10}
  <2>1. n \in Nat /\ dec \in Strings(D, n) /\ dec # <<>>
    BY <1>1, <1>3 DEF Decimals
  <2> HIDE DEF n, D
  <2>2. dec \in Seq(D)
    BY <2>1, StringIs
  <2>3. D \subseteq Digits(10)
    <3>1. ASSUME NEW d \in D PROVE d \in 0..10 - 1
      <4>1. d \in 0..15 /\ d < 10
        BY DigitsAssumption DEF D
      <4> QED BY <4>1
    <3> QED BY <3>1 DEF Digits
  <2>4. dec \in Seq(Digits(10))
    BY <2>2, <2>3, SeqMonotonic
  <2>5. Len(dec) >= 1
    BY <2>1, <2>2
  <2> QED BY <2>4, <2>5
<1>5. /\ ValueIn(result, 256) = ValueIn(dec, 10)
      /\ Len(dec) <= 2 * BufferSize => Len(result) = BufferSize
  BY <1>2, <1>3, <1>4, BufferIs
<1> QED BY <1>5 DEF BufferStandsForNumber, dec

LEMMA TextReturned ==
  ASSUME Answered, Returned("text")
  PROVE  TextComesBack
<1> DEFINE text == call.bytes
<1>1. text \in Texts
  BY DEF Answered, Returned, Calls
<1>2. result[2] = HexToUtf8(Utf8ToHex(text, MaxBytes))
  BY DEF Answered
<1> HIDE DEF text
<1> DEFINE n == Len(text)
<1>3. MaxBytes \in Nat
  BY SizesAssumption
<1>4. n \in 0..MaxBytes /\ text \in [1..n -> Bytes]
  BY <1>1, <1>3, StringIs DEF Texts
<1> HIDE DEF n
<1>5. text \in [1..n -> 0..255]
  BY <1>4, BytesAssumption
<1> SUFFICES ASSUME \A k \in DOMAIN text : text[k] # 0,
                    \A k \in 1..Len(text) - 1 : ~(text[k] % 16 = 0 /\ text[k + 1] < 16)
             PROVE  result[2] = text
  BY DEF TextComesBack, text
<1>6. \A k \in 1..n : text[k] # 0
  BY <1>4
<1>7. \A k \in 1..n - 1 : ~(text[k] % 16 = 0 /\ text[k + 1] < 16)
  BY DEF n
<1> QED BY <1>2, <1>3, <1>4, <1>5, <1>6, <1>7, TextReturns

LEMMA MessageReturned ==
  ASSUME Answered, Returned("marshal")
  PROVE  MessageComesBack
<1> DEFINE msg == call.msg
<1>1. msg \in Messages
  BY DEF Answered, Returned, Calls
<1>2. result = UnmarshalProtocolMessage(MarshalProtocolMessage(msg))
  BY DEF Answered
<1> HIDE DEF msg
<1>3. /\ \A f \in {"sender", "recipient", "shield", "identifier", "signature"} :
            result[f] = Fitted(msg[f], Widths[f])
      /\ result.opcode = msg.opcode
      /\ result.type = msg.type
      /\ msg.type = Text \/ (\A k \in DOMAIN msg.payload : ~High(msg.payload[k]))
            => result.payload = msg.payload
  BY <1>1, <1>2, MessageReturns
<1>4. FieldsKeepTheirPlace
  BY <1>3 DEF FieldsKeepTheirPlace, msg
<1>5. PayloadComesBack
  BY <1>3 DEF PayloadComesBack, msg
<1> QED BY <1>4, <1>5 DEF MessageComesBack

\* Whatever number, base, size of limbs and size of buffer: digits, limbs and buffers
\* stand for the number that went in, and a loss is refused unless it was silenced.
THEOREM NumbersAlwaysKept == Spec => []NumbersAreKept
<1>1. Answered => NumberIsKept
  BY ConvertReturns DEF NumberIsKept
<1>2. Answered => LimbsStandForElement
  BY FieldReturnsElement DEF LimbsStandForElement
<1>3. Answered => BufferStandsForNumber
  BY BufferReturns DEF BufferStandsForNumber
<1>4. Answered => NumbersAreKept
  BY <1>1, <1>2, <1>3 DEF NumbersAreKept
<1> QED BY <1>4, AlwaysAnswered, PTL

\* Text of any length comes back from hex, whatever its bytes, unless it holds a NUL or
\* two of its bytes meet in two zero digits.
THEOREM TextAlwaysComesBack == Spec => []TextComesBack
<1>1. Answered => TextComesBack
  BY TextReturned DEF TextComesBack
<1> QED BY <1>1, AlwaysAnswered, PTL

\* Whatever the widths of the fields, a message comes back from the wire field by field,
\* each cut or filled up to its width and no byte of a neighbour in it; and so does the
\* payload of a text message, or a binary one without bytes from 128 up, whole.
THEOREM MessageAlwaysComesBack == Spec => []MessageComesBack
<1>1. Answered => MessageComesBack
  BY MessageReturned DEF MessageComesBack, FieldsKeepTheirPlace, PayloadComesBack
<1> QED BY <1>1, AlwaysAnswered, PTL
=============================================================================
