---------------------------- MODULE RecordsProofs ----------------------------
(***************************************************************************)
(* The records of the bri-1 example, for every length of the calendar, any *)
(* suppliers and calendars, every schedule and every order of the answers: *)
(* the days a supplier offers, the day on which all can start, and the     *)
(* teams to choose from.                                                   *)
(* Loops are recursive functions; that each exists and meets its equation  *)
(* is proved by induction (the ...Exist lemmas).                           *)
(***************************************************************************)
EXTENDS Records, FiniteSetTheorems, WellFoundedInduction, TLAPS

---------------------------------------------------------------------------
(* The natural numbers: least elements, greatest elements, induction.      *)

LEMMA LeastNumber ==
  ASSUME NEW T \in SUBSET Nat, T # {}
  PROVE  \E m \in T : \A k \in T : m <= k
<1> DEFINE R == {ss \in Nat \X Nat : ss[1] < ss[2]}
<1>1. IsWellFoundedOn(R, Nat)
  BY NatLessThanWellFounded DEF OpToRel
<1> HIDE DEF R
<1>2. PICK m \in T : \A k \in T : <<k, m>> \notin R
  BY <1>1, WFMin
<1>3. ASSUME NEW k \in T PROVE m <= k
  <2>1. k \in Nat /\ m \in Nat /\ <<k, m>> \notin R
    BY <1>2
  <2> QED BY <2>1 DEF R
<1> QED BY <1>3

\* Induction, for the set of the numbers that have a property.
LEMMA InductionOver ==
  ASSUME NEW S, 0 \in S, \A n \in Nat : n \in S => n + 1 \in S
  PROVE  Nat \subseteq S
<1> DEFINE T == Nat \ S
<1>1. SUFFICES ASSUME T # {} PROVE FALSE
  OBVIOUS
<1>2. PICK m \in T : \A k \in T : m <= k
  BY <1>1, LeastNumber
<1>3. m - 1 \in Nat /\ ~(m <= m - 1)
  BY <1>2
<1>4. m - 1 \in S
  BY <1>2, <1>3
<1> QED BY <1>2, <1>3, <1>4

\* What Max and Min of FiniteSetsExt choose.
LEMMA MaxIsGreatest ==
  ASSUME NEW n \in Nat, NEW T \in SUBSET (0..n), T # {}
  PROVE  Max(T) \in T /\ \A k \in T : k <= Max(T)
<1> DEFINE Back == {n - k : k \in T}
<1>1. \A k \in T : k \in Nat /\ n - k \in Nat
  OBVIOUS
<1>2. PICK b \in Back : \A c \in Back : b <= c
  <2>1. Back \in SUBSET Nat /\ Back # {}
    BY <1>1
  <2> HIDE DEF Back
  <2> QED BY <2>1, LeastNumber
<1>3. PICK m \in T : b = n - m
  BY <1>2
<1>4. \A k \in T : m >= k
  <2> TAKE k \in T
  <2>1. n - m <= n - k
    BY <1>2, <1>3
  <2> QED BY <1>1, <2>1
<1>5. Max(T) \in T /\ \A k \in T : Max(T) >= k
  BY <1>4 DEF Max
<1> QED BY <1>1, <1>5

LEMMA MinIsLeast ==
  ASSUME NEW T \in SUBSET Nat, T # {}
  PROVE  Min(T) \in T /\ \A k \in T : Min(T) <= k
  BY LeastNumber DEF Min

---------------------------------------------------------------------------
(* Among.                                                                  *)

\* g holds what is kept of the first elements of seq, up to m.
Keeps(g, seq, set, m) ==
    g = [k \in 0..m |->
            IF k = 0 THEN <<>>
            ELSE IF seq[k] \in set THEN Append(g[k - 1], seq[k]) ELSE g[k - 1]]

LEMMA KeepsExist ==
  ASSUME NEW seq, NEW set, NEW m \in Nat
  PROVE  \E g : Keeps(g, seq, set, m)
<1> DEFINE S == {j \in Nat : \E g : Keeps(g, seq, set, j)}
           Turn(k, old) == IF seq[k] \in set THEN Append(old, seq[k]) ELSE old
<1>1. 0 \in S
  <2> DEFINE g == [j \in 0..0 |-> <<>>]
  <2>1. Keeps(g, seq, set, 0)
    BY DEF Keeps
  <2> QED BY <2>1
<1>2. ASSUME NEW j \in Nat, j \in S PROVE j + 1 \in S
  <2>1. PICK g : Keeps(g, seq, set, j)
    BY <1>2
  <2> DEFINE f == [k \in 0..(j + 1) |-> IF k = j + 1 THEN Turn(j + 1, g[j]) ELSE g[k]]
  <2>2. ASSUME NEW k \in 0..(j + 1)
        PROVE  f[k] = IF k = 0 THEN <<>> ELSE Turn(k, f[k - 1])
    <3>1. CASE k = j + 1
      <4>1. k - 1 = j /\ j \in 0..(j + 1) /\ j # j + 1 /\ k # 0
        BY <3>1
      <4> HIDE DEF Turn
      <4> QED BY <3>1, <4>1
    <3>2. CASE k # j + 1 /\ k # 0
      <4>1. k \in 0..j /\ k - 1 \in 0..(j + 1) /\ k - 1 # j + 1
        BY <3>2
      <4>2. f[k - 1] = g[k - 1] /\ f[k] = g[k]
        BY <3>2, <4>1
      <4>3. g[k] = Turn(k, g[k - 1])
        BY <2>1, <3>2, <4>1 DEF Keeps
      <4> HIDE DEF Turn
      <4> QED BY <3>2, <4>2, <4>3
    <3>3. CASE k = 0
      <4>1. k \in 0..j /\ k # j + 1
        BY <3>3
      <4>2. g[k] = <<>>
        BY <2>1, <3>3, <4>1 DEF Keeps
      <4> QED BY <3>3, <4>1, <4>2
    <3> QED BY <3>1, <3>2, <3>3
  <2>3. Keeps(f, seq, set, j + 1)
    BY <2>2 DEF Keeps
  <2> HIDE DEF f
  <2>4. \E e : Keeps(e, seq, set, j + 1)
    BY <2>3
  <2> QED BY <2>4
<1> QED BY <1>1, <1>2, InductionOver

\* f tells where the elements of kept are in seq, and misses none of the first m that
\* are in the set.
PlacesOf(f, kept, seq, set, m) ==
    /\ f \in [1..Len(kept) -> {j \in 1..m : seq[j] \in set}]
    /\ \A a, b \in 1..Len(kept) : f[a] = f[b] => a = b
    /\ \A j \in 1..m : seq[j] \in set => \E a \in 1..Len(kept) : f[a] = j
    /\ \A a \in 1..Len(kept) : kept[a] = seq[f[a]]

LEMMA AmongPlaces ==
  ASSUME NEW X, NEW seq \in Seq(X), NEW set
  PROVE  /\ Among(seq, set) \in Seq(X \cap set)
         /\ \E f : PlacesOf(f, Among(seq, set), seq, set, Len(seq))
<1> DEFINE len == Len(seq)
           kept == CHOOSE g : Keeps(g, seq, set, len)
           Good(k) == /\ kept[k] \in Seq(X \cap set)
                      /\ \E f : PlacesOf(f, kept[k], seq, set, k)
           S == {k \in Nat : k <= len => Good(k)}
<1>1. Keeps(kept, seq, set, len)
  BY SMTT(30), KeepsExist
<1>2. Among(seq, set) = kept[len]
  BY DEF Among, Keeps
<1>3. len \in Nat /\ \A k \in 1..len : seq[k] \in X
  OBVIOUS
<1> HIDE DEF kept, len
<1>4. 0 \in S
  <2>1. kept[0] = <<>>
    BY <1>1, <1>3 DEF Keeps
  <2> DEFINE f == [a \in 1..0 |-> 0]
  <2>2. PlacesOf(f, kept[0], seq, set, 0)
    BY <2>1 DEF PlacesOf
  <2> HIDE DEF f
  <2>3. Good(0)
    BY <2>1, <2>2
  <2> QED BY <2>3
<1>5. ASSUME NEW k \in Nat, k \in S PROVE k + 1 \in S
  <2> SUFFICES ASSUME k + 1 <= len PROVE Good(k + 1)
    OBVIOUS
  <2> DEFINE old == kept[k]
             new == kept[k + 1]
             x == seq[k + 1]
             n == Len(old)
  <2>1. old \in Seq(X \cap set) /\ n \in Nat
    BY <1>3, <1>5
  <2>2. PICK f : PlacesOf(f, old, seq, set, k)
    BY <1>3, <1>5
  <2>3. new = IF x \in set THEN Append(old, x) ELSE old
    <3>1. k + 1 \in 0..len /\ k + 1 # 0 /\ (k + 1) - 1 = k
      BY <1>3
    <3> QED BY <1>1, <3>1 DEF Keeps
  <2>4. x \in X /\ k + 1 \in 1..(k + 1)
    BY <1>3
  <2> HIDE DEF old, new, x
  <2>5. CASE x \notin set
    <3>1. PlacesOf(f, new, seq, set, k + 1)
      <4>1. \A j \in 1..(k + 1) : seq[j] \in set => j \in 1..k
        BY <2>5 DEF x
      <4> QED BY <2>2, <2>3, <2>5, <4>1 DEF PlacesOf
    <3> QED BY <2>1, <2>3, <2>5, <3>1 DEF new
  <2>6. CASE x \in set
    <3> DEFINE g == [a \in 1..(n + 1) |-> IF a = n + 1 THEN k + 1 ELSE f[a]]
    <3>1. new \in Seq(X \cap set) /\ Len(new) = n + 1 /\ new[n + 1] = x
          /\ \A a \in 1..n : new[a] = old[a]
      BY <2>1, <2>3, <2>4, <2>6
    <3>2. \A a \in 1..n : f[a] \in 1..k /\ seq[f[a]] \in set /\ g[a] = f[a]
      <4> TAKE a \in 1..n
      <4>1. f[a] \in {j \in 1..k : seq[j] \in set}
        BY <2>2 DEF PlacesOf
      <4>2. a \in 1..(n + 1) /\ a # n + 1
        BY <2>1
      <4> QED BY <4>1, <4>2
    <3>3. g[n + 1] = k + 1 /\ seq[k + 1] \in set
      BY <2>1, <2>6 DEF x
    <3>4. g \in [1..Len(new) -> {j \in 1..(k + 1) : seq[j] \in set}]
      <4>1. g = [a \in 1..Len(new) |-> g[a]]
        BY <3>1
      <4>2. ASSUME NEW a \in 1..Len(new)
            PROVE  g[a] \in {j \in 1..(k + 1) : seq[j] \in set}
        <5> HIDE DEF g
        <5>1. CASE a = n + 1
          BY <3>3, <5>1
        <5>2. CASE a # n + 1
          <6>1. a \in 1..n
            BY <2>1, <3>1, <5>2
          <6>2. g[a] \in 1..k /\ seq[g[a]] \in set
            BY <3>2, <6>1
          <6> QED BY <6>2
        <5> QED BY <5>1, <5>2
      <4> HIDE DEF g
      <4> QED BY <4>1, <4>2
    <3>5. ASSUME NEW a \in 1..Len(new), NEW b \in 1..Len(new), g[a] = g[b] PROVE a = b
      <4>1. (a \in 1..n \/ a = n + 1) /\ (b \in 1..n \/ b = n + 1)
        BY <2>1, <3>1
      <4> HIDE DEF g
      <4>2. CASE a \in 1..n /\ b \in 1..n
        BY <2>2, <3>2, <3>5, <4>2 DEF PlacesOf
      <4>3. CASE ~(a \in 1..n /\ b \in 1..n)
        BY <3>2, <3>3, <3>5, <4>1, <4>3
      <4> QED BY <4>2, <4>3
    <3>6. ASSUME NEW j \in 1..(k + 1), seq[j] \in set
          PROVE  \E a \in 1..Len(new) : g[a] = j
      <4>1. CASE j = k + 1
        BY <2>1, <3>1, <3>3, <4>1
      <4>2. CASE j # k + 1
        <5>1. j \in 1..k
          BY <4>2
        <5>2. PICK a \in 1..n : f[a] = j
          BY <2>2, <3>6, <5>1 DEF PlacesOf
        <5>3. a \in 1..Len(new) /\ g[a] = j
          BY <2>1, <3>1, <3>2, <5>2
        <5> QED BY <5>3
      <4> QED BY <4>1, <4>2
    <3>7. ASSUME NEW a \in 1..Len(new) PROVE new[a] = seq[g[a]]
      <4>1. CASE a = n + 1
        BY <3>1, <3>3, <4>1 DEF x
      <4>2. CASE a # n + 1
        <5>1. a \in 1..n
          BY <2>1, <3>1, <4>2
        <5>2. new[a] = old[a] /\ g[a] = f[a] /\ old[a] = seq[f[a]]
          BY <2>2, <3>1, <3>2, <5>1 DEF PlacesOf
        <5> QED BY <5>2
      <4> QED BY <4>1, <4>2
    <3> HIDE DEF g
    <3>8. PlacesOf(g, new, seq, set, k + 1)
      BY <3>4, <3>5, <3>6, <3>7 DEF PlacesOf
    <3> QED BY <3>1, <3>8 DEF new
  <2> QED BY <2>5, <2>6
<1>6. Good(len)
  <2> HIDE DEF Good
  <2>1. Nat \subseteq S
    BY <1>4, <1>5, InductionOver
  <2> QED BY <1>3, <2>1
<1> QED BY <1>2, <1>6 DEF len

---------------------------------------------------------------------------
(* The jobs of a schedule.                                                 *)

\* g holds the first sequences put in a row, up to m.
Joins(g, seqs, m) ==
    g = [i \in 1..m |-> IF i = 1 THEN seqs[i] ELSE g[i - 1] \o seqs[i]]

LEMMA JoinsExist ==
  ASSUME NEW seqs, NEW m \in Nat
  PROVE  \E g : Joins(g, seqs, m)
<1> DEFINE S == {j \in Nat : \E g : Joins(g, seqs, j)}
<1>1. 0 \in S
  <2> DEFINE g == [i \in 1..0 |-> <<>>]
  <2>1. Joins(g, seqs, 0)
    BY DEF Joins
  <2> QED BY <2>1
<1>2. ASSUME NEW j \in Nat, j \in S PROVE j + 1 \in S
  <2>1. PICK g : Joins(g, seqs, j)
    BY <1>2
  <2> DEFINE f == [i \in 1..(j + 1) |->
                      IF i = j + 1 THEN IF i = 1 THEN seqs[i] ELSE g[j] \o seqs[i]
                      ELSE g[i]]
  <2>2. ASSUME NEW i \in 1..(j + 1)
        PROVE  f[i] = IF i = 1 THEN seqs[i] ELSE f[i - 1] \o seqs[i]
    <3>1. CASE i = j + 1 /\ i # 1
      <4>1. i - 1 = j /\ j \in 1..(j + 1) /\ j # j + 1
        BY <3>1
      <4>2. f[i - 1] = g[j] /\ f[i] = g[j] \o seqs[i]
        BY <3>1, <4>1
      <4> QED BY <3>1, <4>2
    <3>2. CASE i # j + 1 /\ i # 1
      <4>1. i \in 1..j /\ i - 1 \in 1..(j + 1) /\ i - 1 # j + 1
        BY <3>2
      <4>2. f[i - 1] = g[i - 1] /\ f[i] = g[i]
        BY <3>2, <4>1
      <4>3. g[i] = g[i - 1] \o seqs[i]
        BY <2>1, <3>2, <4>1 DEF Joins
      <4> QED BY <3>2, <4>2, <4>3
    <3>3. CASE i = 1
      <4>1. CASE i = j + 1
        BY <3>3, <4>1
      <4>2. CASE i # j + 1
        <5>1. i \in 1..j
          BY <4>2
        <5>2. g[i] = seqs[i]
          BY <2>1, <3>3, <5>1 DEF Joins
        <5> QED BY <3>3, <4>2, <5>2
      <4> QED BY <4>1, <4>2
    <3> QED BY <3>1, <3>2, <3>3
  <2>3. Joins(f, seqs, j + 1)
    BY <2>2 DEF Joins
  <2> HIDE DEF f
  <2>4. \E e : Joins(e, seqs, j + 1)
    BY <2>3
  <2> QED BY <2>4
<1> QED BY <1>1, <1>2, InductionOver

LEMMA FlattenKeeps ==
  ASSUME NEW X, NEW seqs \in Seq(Seq(X))
  PROVE  FlattenSeq(seqs) \in Seq(X)
<1> DEFINE len == Len(seqs)
           joined == CHOOSE g : Joins(g, seqs, len)
           S == {i \in Nat : i \in 1..len => joined[i] \in Seq(X)}
<1>1. len \in Nat /\ \A i \in 1..len : seqs[i] \in Seq(X)
  OBVIOUS
<1>2. CASE len = 0
  <2>1. FlattenSeq(seqs) = <<>>
    BY <1>2 DEF FlattenSeq
  <2> QED BY <2>1
<1>3. CASE len # 0
  <2>1. Joins(joined, seqs, len)
    BY <1>1, JoinsExist
  <2>2. FlattenSeq(seqs) = joined[len]
    BY <1>3 DEF FlattenSeq, Joins
  <2> HIDE DEF joined, len
  <2>3. 0 \in S
    OBVIOUS
  <2>4. ASSUME NEW i \in Nat, i \in S PROVE i + 1 \in S
    <3> SUFFICES ASSUME i + 1 \in 1..len PROVE joined[i + 1] \in Seq(X)
      OBVIOUS
    <3>1. seqs[i + 1] \in Seq(X)
      BY <1>1
    <3>2. CASE i = 0
      <4>1. joined[i + 1] = seqs[i + 1]
        BY <2>1, <3>2 DEF Joins
      <4> QED BY <3>1, <4>1
    <3>3. CASE i # 0
      <4>1. joined[i] \in Seq(X)
        BY <1>1, <2>4, <3>3
      <4>2. joined[i + 1] = joined[i] \o seqs[i + 1]
        <5>1. i + 1 # 1 /\ (i + 1) - 1 = i
          BY <3>3
        <5> QED BY <2>1, <5>1 DEF Joins
      <4> QED BY <3>1, <4>1, <4>2
    <3> QED BY <3>2, <3>3
  <2>5. joined[len] \in Seq(X)
    <3>1. Nat \subseteq S
      BY <2>3, <2>4, InductionOver
    <3> QED BY <1>1, <1>3, <3>1
  <2> QED BY <2>2, <2>5
<1> QED BY <1>2, <1>3

Jobs == [code : {11, 22, 33, 44}, tw : Int \X Int,
         reqs : [tech : Nat, taskLength : Nat \ {0}]]

LEMMA RetrieveJobsOK ==
  ASSUME NEW files \in Schedules, NEW priority
  PROVE  RetrieveJobs(files, priority) \in Seq(Jobs)
<1> DEFINE read == [k \in DOMAIN files |-> IF files[k].readable THEN files[k].rows ELSE <<>>]
           rows == FlattenSeq(read)
           urgent == Among(rows, {row \in ToSet(rows) : row.priority = priority})
<1>1. files \in Seq([readable : BOOLEAN, rows : Seq(Rows)])
  BY SchedulesAssumption
<1>2. read \in Seq(Seq(Rows))
  <2> DEFINE SR == Seq(Rows)
             F == [readable : BOOLEAN, rows : SR]
             n == Len(files)
  <2>1. n \in Nat /\ DOMAIN files = 1..n /\ \A k \in 1..n : files[k] \in F
    <3>1. files \in Seq(F)
      BY <1>1
    <3> HIDE DEF F
    <3> QED BY <3>1
  <2>2. <<>> \in SR
    OBVIOUS
  <2> HIDE DEF SR, n
  <2>3. \A k \in 1..n : read[k] \in SR
    BY <2>1, <2>2
  <2>4. read = [k \in 1..n |-> read[k]]
    BY <2>1
  <2> HIDE DEF read
  <2>5. read \in Seq(SR)
    BY <2>1, <2>3, <2>4
  <2> QED BY <2>5 DEF SR
<1> HIDE DEF read
<1>3. rows \in Seq(Rows)
  BY <1>2, FlattenKeeps
<1> HIDE DEF rows
<1>4. urgent \in Seq(Rows)
  <2>1. urgent \in Seq(Rows \cap {row \in ToSet(rows) : row.priority = priority})
    BY <1>3, AmongPlaces
  <2> HIDE DEF urgent
  <2> QED BY <2>1
<1> HIDE DEF urgent
<1>5. ASSUME NEW k \in DOMAIN urgent
      PROVE  [code |-> urgent[k].code, tw |-> urgent[k].tw, reqs |-> MJcodes(urgent[k].code)]
             \in Jobs
  <2>1. urgent[k] \in Rows
    BY <1>4
  <2>2. urgent[k].code \in {11, 22, 33, 44} /\ urgent[k].tw \in Int \X Int
    BY <2>1 DEF Rows
  <2>3. MJcodes(urgent[k].code) \in [tech : Nat, taskLength : Nat \ {0}]
    BY <2>2 DEF MJcodes
  <2> QED BY <2>2, <2>3 DEF Jobs
<1>6. RetrieveJobs(files, priority) =
        [k \in DOMAIN urgent |-> [code |-> urgent[k].code, tw |-> urgent[k].tw,
                                  reqs |-> MJcodes(urgent[k].code)]]
  BY DEF RetrieveJobs, urgent, rows, read
<1> QED BY <1>4, <1>5, <1>6

---------------------------------------------------------------------------
(* The days of a supplier.                                                 *)

LEMMA SuitableDays ==
  ASSUME NEW free, NEW tw \in Int \X Int, NEW len \in Nat \ {0}, NEW day \in 1..Days
  PROVE  day \in SuitabilityFinder(free, tw, len) <=>
            /\ day >= tw[1] /\ day + len - 1 < tw[2] /\ day + len - 1 < Days
            /\ \A d \in day..(day + len - 1) : free[d]
<1> DEFINE T == {n \in 0..len : \A d \in day..(day + n - 1) : free[d]}
<1>1. day \in Nat /\ Days \in Nat /\ tw[1] \in Int /\ tw[2] \in Int
  BY DaysAssumption
<1>2. Max(T) = len <=> \A d \in day..(day + len - 1) : free[d]
  <2>1. 0 \in T /\ T \in SUBSET (0..len)
    BY <1>1
  <2>2. Max(T) \in T /\ \A k \in T : k <= Max(T)
    BY <2>1, MaxIsGreatest
  <2>3. ASSUME Max(T) = len PROVE len \in T
    BY <2>2, <2>3
  <2>4. ASSUME len \in T PROVE Max(T) = len
    <3> DEFINE m == Max(T)
    <3>1. m \in 0..len /\ len <= m
      BY <2>2, <2>4
    <3> HIDE DEF m
    <3>2. m = len
      BY <3>1
    <3> QED BY <3>2 DEF m
  <2>5. len \in T <=> \A d \in day..(day + len - 1) : free[d]
    OBVIOUS
  <2> QED BY <2>3, <2>4, <2>5
<1> HIDE DEF T
<1>3. day \in SuitabilityFinder(free, tw, len) <=>
        /\ day - 1 >= tw[1] - 1
        /\ (IF day - 1 + len >= Days \/ day - 1 + len >= tw[2] THEN 0 ELSE Max(T)) = len
  BY DEF SuitabilityFinder, T
<1> QED BY <1>1, <1>2, <1>3

---------------------------------------------------------------------------
(* The odometer.  Its settings are ordered by the first digit in which     *)
(* they differ; an increment leads to the next one in that order.          *)

\* n arrays, none of them empty.
Wheels(arrays, n) ==
    /\ n \in Nat /\ DOMAIN arrays = 1..n
    /\ \A k \in 1..n : Len(arrays[k]) \in Nat \ {0}

Before(o, p) == \E k \in DOMAIN o : o[k] < p[k] /\ \A j \in 1..(k - 1) : o[j] = p[j]

\* The settings that come after one.
Above(o, arrays) == {p \in Odometers(arrays) : Before(o, p)}

IsLast(o, arrays) == \A k \in DOMAIN o : o[k] = Len(arrays[k])

LEMMA OdometerDigits ==
  ASSUME NEW arrays, NEW n, Wheels(arrays, n), NEW o
  PROVE  o \in Odometers(arrays) <=>
            o \in [1..n -> Nat] /\ \A k \in 1..n : o[k] \in 1..Len(arrays[k])
  BY DEF Odometers, Wheels

\* Settings that differ do so in a first digit.
LEMMA FirstDifference ==
  ASSUME NEW n \in Nat, NEW o \in [1..n -> Nat], NEW p \in [1..n -> Nat], o # p
  PROVE  \E k \in 1..n : o[k] # p[k] /\ \A j \in 1..(k - 1) : o[j] = p[j]
<1> DEFINE T == {k \in 1..n : o[k] # p[k]}
<1>1. T \in SUBSET Nat /\ T # {}
  OBVIOUS
<1>2. PICK k \in T : \A j \in T : k <= j
  BY <1>1, LeastNumber
<1>3. ASSUME NEW j \in 1..(k - 1) PROVE o[j] = p[j]
  <2>1. j \in 1..n /\ ~(k <= j)
    BY <1>2
  <2>2. j \notin T
    BY <1>2, <2>1
  <2> QED BY <2>1, <2>2
<1> QED BY <1>2, <1>3

\* The digits after an increment, which is a setting again.
LEMMA IncrementDigits ==
  ASSUME NEW arrays, NEW n, Wheels(arrays, n),
         NEW o \in Odometers(arrays), ~IsLast(o, arrays)
  PROVE  LET q == OdometerIncrement(o, arrays)
         IN  /\ q \in Odometers(arrays)
             /\ \E d \in 1..n : /\ q[d] = o[d] + 1
                                /\ \A k \in 1..(d - 1) : q[k] = o[k]
                                /\ \A k \in (d + 1)..n : q[k] = 1 /\ o[k] = Len(arrays[k])
<1> DEFINE T == {k \in DOMAIN o : o[k] < Len(arrays[k])}
           d == Max(T)
           q == OdometerIncrement(o, arrays)
<1>1. o \in [1..n -> Nat] /\ (\A k \in 1..n : o[k] \in 1..Len(arrays[k])) /\ n \in Nat
      /\ \A k \in 1..n : Len(arrays[k]) \in Nat \ {0}
  BY OdometerDigits DEF Wheels
<1>2. d \in T /\ \A k \in T : k <= d
  <2>1. T \in SUBSET (0..n)
    BY <1>1
  <2>2. PICK k \in DOMAIN o : o[k] # Len(arrays[k])
    BY DEF IsLast
  <2>3. k \in T
    BY <1>1, <2>2
  <2> QED BY <1>1, <2>1, <2>3, MaxIsGreatest
<1>3. q = [k \in DOMAIN o |-> CASE k < d -> o[k] [] k = d -> o[k] + 1 [] OTHER -> 1]
  BY DEF OdometerIncrement
<1> HIDE DEF d, q
<1>4. d \in 1..n /\ o[d] < Len(arrays[d])
  BY <1>1, <1>2
<1>5. \A k \in 1..n : /\ k < d => q[k] = o[k]
                      /\ k = d => q[k] = o[k] + 1
                      /\ k > d => q[k] = 1
  BY <1>1, <1>3, <1>4
<1>6. \A k \in 1..n : q[k] \in 1..Len(arrays[k])
  <2> TAKE k \in 1..n
  <2>1. o[k] \in 1..Len(arrays[k]) /\ Len(arrays[k]) \in Nat \ {0}
    BY <1>1
  <2>2. k < d \/ k = d \/ k > d
    BY <1>4
  <2> QED BY <1>4, <1>5, <2>1, <2>2
<1>7. q \in Odometers(arrays)
  <2>1. DOMAIN q = 1..n /\ q = [k \in 1..n |-> q[k]]
    BY <1>1, <1>3
  <2>2. \A k \in 1..n : q[k] \in Nat
    <3> TAKE k \in 1..n
    <3>1. q[k] \in 1..Len(arrays[k]) /\ Len(arrays[k]) \in Nat
      BY <1>1, <1>6
    <3> QED BY <3>1
  <2>3. q \in [1..n -> Nat]
    BY <2>1, <2>2
  <2> QED BY <1>6, <2>3, OdometerDigits
<1>8. \A k \in (d + 1)..n : q[k] = 1 /\ o[k] = Len(arrays[k])
  <2> TAKE k \in (d + 1)..n
  <2>1. k \in 1..n /\ k > d /\ ~(k <= d)
    BY <1>1, <1>4
  <2>2. k \notin T /\ o[k] \in 1..Len(arrays[k]) /\ Len(arrays[k]) \in Nat
    BY <1>1, <1>2, <2>1
  <2> QED BY <1>1, <1>5, <2>1, <2>2
<1>9. q[d] = o[d] + 1 /\ \A k \in 1..(d - 1) : q[k] = o[k]
  BY <1>1, <1>4, <1>5
<1> QED BY <1>4, <1>7, <1>8, <1>9 DEF q

\* What comes after a setting is its increment and what comes after that.
LEMMA IncrementIsNext ==
  ASSUME NEW arrays, NEW n, Wheels(arrays, n),
         NEW o \in Odometers(arrays), ~IsLast(o, arrays)
  PROVE  LET q == OdometerIncrement(o, arrays)
         IN  /\ q \in Odometers(arrays)
             /\ Above(o, arrays) = {q} \cup Above(q, arrays)
             /\ q \notin Above(q, arrays)
<1> DEFINE q == OdometerIncrement(o, arrays)
<1>1. PICK d \in 1..n : /\ q[d] = o[d] + 1
                        /\ \A k \in 1..(d - 1) : q[k] = o[k]
                        /\ \A k \in (d + 1)..n : q[k] = 1 /\ o[k] = Len(arrays[k])
  BY IncrementDigits
<1>2. q \in Odometers(arrays)
  BY IncrementDigits
<1> HIDE DEF q
<1>3. o \in [1..n -> Nat] /\ q \in [1..n -> Nat] /\ n \in Nat
  BY <1>2, OdometerDigits DEF Wheels
<1>4. Before(o, q)
  BY <1>1, <1>3 DEF Before
<1>5. ~Before(q, q)
  BY <1>3 DEF Before
<1>6. ASSUME NEW p \in Odometers(arrays), Before(q, p) PROVE Before(o, p)
  <2>1. p \in [1..n -> Nat]
    BY OdometerDigits
  <2>2. PICK k \in 1..n : q[k] < p[k] /\ \A j \in 1..(k - 1) : q[j] = p[j]
    BY <1>3, <1>6 DEF Before
  <2>3. CASE k < d
    <3>1. k \in 1..(d - 1) /\ \A j \in 1..(k - 1) : j \in 1..(d - 1)
      BY <1>3, <2>3
    <3> QED BY <1>1, <1>3, <2>2, <3>1 DEF Before
  <2>4. CASE k >= d
    <3>1. o[d] < p[d]
      <4>1. q[d] <= p[d]
        <5>1. CASE k = d
          BY <1>3, <2>1, <2>2, <5>1
        <5>2. CASE k # d
          <6>1. d \in 1..(k - 1)
            BY <2>4, <5>2
          <6> QED BY <1>3, <2>1, <2>2, <6>1
        <5> QED BY <5>1, <5>2
      <4> QED BY <1>1, <1>3, <2>1, <4>1
    <3>2. \A j \in 1..(d - 1) : j \in 1..(k - 1)
      BY <2>4
    <3> QED BY <1>1, <1>3, <2>2, <3>1, <3>2 DEF Before
  <2> QED BY <2>3, <2>4
<1>7. ASSUME NEW p \in Odometers(arrays), Before(o, p), p # q PROVE Before(q, p)
  <2>1. p \in [1..n -> Nat] /\ \A k \in 1..n : p[k] \in 1..Len(arrays[k])
    BY OdometerDigits
  <2>2. PICK k \in 1..n : o[k] < p[k] /\ \A j \in 1..(k - 1) : o[j] = p[j]
    BY <1>3, <1>7 DEF Before
  <2>3. k <= d
    <3>1. ASSUME k > d PROVE FALSE
      <4>1. k \in (d + 1)..n /\ Len(arrays[k]) \in Nat
        BY <3>1 DEF Wheels
      <4>2. o[k] = Len(arrays[k]) /\ p[k] <= Len(arrays[k])
        BY <1>1, <2>1, <4>1
      <4> QED BY <1>3, <2>1, <2>2, <4>2
    <3> QED BY <3>1
  <2>4. PICK i \in 1..n : q[i] # p[i] /\ \A j \in 1..(i - 1) : q[j] = p[j]
    BY <1>3, <1>7, <2>1, FirstDifference
  <2>5. q[i] < p[i]
    <3>1. CASE i > d
      <4>1. q[i] = 1 /\ p[i] \in 1..Len(arrays[i]) /\ Len(arrays[i]) \in Nat
        BY <1>1, <2>1, <3>1 DEF Wheels
      <4> QED BY <2>4, <4>1
    <3>2. CASE i < k
      <4>1. i \in 1..(k - 1) /\ i \in 1..(d - 1)
        BY <2>3, <3>2
      <4> QED BY <1>1, <2>2, <2>4, <4>1
    <3>3. CASE i = d /\ k = d
      <4>1. q[i] = o[i] + 1 /\ o[i] < p[i]
        BY <1>1, <2>2, <3>3
      <4> QED BY <1>3, <2>1, <2>4, <4>1
    <3>4. CASE i = k /\ k < d
      <4>1. k \in 1..(d - 1)
        BY <3>4
      <4>2. q[i] = o[i] /\ o[i] < p[i]
        BY <1>1, <2>2, <3>4, <4>1
      <4> QED BY <4>2
    <3>5. CASE i <= d /\ k < i
      <4>1. k \in 1..(i - 1) /\ k \in 1..(d - 1)
        BY <3>5
      <4>2. q[k] = p[k] /\ q[k] = o[k]
        BY <1>1, <2>4, <4>1
      <4> QED BY <1>3, <2>1, <2>2, <4>2
    <3> QED BY <2>3, <3>1, <3>2, <3>3, <3>4, <3>5
  <2> QED BY <1>3, <2>4, <2>5 DEF Before
<1>8. Above(o, arrays) = {q} \cup Above(q, arrays)
  BY <1>2, <1>4, <1>6, <1>7 DEF Above
<1>9. q \notin Above(q, arrays)
  BY <1>5 DEF Above
<1> QED BY <1>2, <1>8, <1>9 DEF q

LEMMA LastIsLast ==
  ASSUME NEW arrays, NEW n, Wheels(arrays, n),
         NEW o \in Odometers(arrays), IsLast(o, arrays)
  PROVE  Above(o, arrays) = {}
<1> SUFFICES ASSUME NEW p \in Odometers(arrays), Before(o, p) PROVE FALSE
  BY DEF Above
<1>1. o \in [1..n -> Nat] /\ p \in [1..n -> Nat]
      /\ \A k \in 1..n : p[k] \in 1..Len(arrays[k]) /\ Len(arrays[k]) \in Nat
  BY OdometerDigits DEF Wheels
<1>2. PICK k \in 1..n : o[k] < p[k]
  BY <1>1 DEF Before
<1>3. o[k] = Len(arrays[k])
  BY <1>1 DEF IsLast
<1> QED BY <1>1, <1>2, <1>3

LEMMA FirstIsFirst ==
  ASSUME NEW arrays, NEW n, Wheels(arrays, n)
  PROVE  LET o == [k \in DOMAIN arrays |-> 1]
         IN  /\ o \in Odometers(arrays)
             /\ Odometers(arrays) = {o} \cup Above(o, arrays)
<1> DEFINE o == [k \in DOMAIN arrays |-> 1]
<1>1. o \in [1..n -> Nat] /\ n \in Nat /\ \A k \in 1..n : o[k] = 1
  BY DEF Wheels
<1> HIDE DEF o
<1>2. o \in Odometers(arrays)
  <2>1. \A k \in 1..n : o[k] \in 1..Len(arrays[k])
    <3> TAKE k \in 1..n
    <3>1. o[k] = 1 /\ Len(arrays[k]) \in Nat \ {0}
      BY <1>1 DEF Wheels
    <3> QED BY <3>1
  <2> QED BY <1>1, <2>1, OdometerDigits
<1>3. ASSUME NEW p \in Odometers(arrays), p # o PROVE Before(o, p)
  <2>1. p \in [1..n -> Nat]
        /\ \A k \in 1..n : p[k] \in 1..Len(arrays[k]) /\ Len(arrays[k]) \in Nat
    BY OdometerDigits DEF Wheels
  <2>2. PICK k \in 1..n : o[k] # p[k] /\ \A j \in 1..(k - 1) : o[j] = p[j]
    BY ZenonT(30), <1>1, <1>3, <2>1, FirstDifference
  <2>3. o[k] < p[k]
    BY <1>1, <2>1, <2>2
  <2> QED BY <1>1, <2>2, <2>3 DEF Before
<1> QED BY <1>2, <1>3 DEF Above, o
LEMMA FinitelyManySettings ==
  ASSUME NEW arrays, NEW n, Wheels(arrays, n)
  PROVE  IsFiniteSet(Odometers(arrays))
<1> DEFINE Marks == [k \in 1..n |-> {k} \X (1..Len(arrays[k]))]
           All == {Marks[k] : k \in 1..n}
           U == UNION All
           marked == [o \in Odometers(arrays) |-> {<<k, o[k]>> : k \in 1..n}]
<1>1. IsFiniteSet(1..n)
  BY FS_Interval DEF Wheels
<1>2. IsFiniteSet(All)
  <2>1. Marks \in Surjection(1..n, All)
    BY DEF Surjection
  <2> QED BY <1>1, <2>1, FS_Surjection
<1>3. \A T \in All : IsFiniteSet(T)
  <2> SUFFICES ASSUME NEW k \in 1..n PROVE IsFiniteSet({k} \X (1..Len(arrays[k])))
    OBVIOUS
  <2>1. Len(arrays[k]) \in Int /\ 1 \in Int
    BY DEF Wheels
  <2>2. IsFiniteSet({k}) /\ IsFiniteSet(1..Len(arrays[k]))
    BY <2>1, FS_Singleton, FS_Interval
  <2> QED BY <2>2, FS_Product
<1>4. IsFiniteSet(SUBSET U)
  <2>1. IsFiniteSet(U)
    BY <1>2, <1>3, FS_UNION
  <2> QED BY <2>1, FS_SUBSET
<1>5. marked \in Injection(Odometers(arrays), SUBSET U)
  <2>1. ASSUME NEW o \in Odometers(arrays) PROVE {<<k, o[k]>> : k \in 1..n} \in SUBSET U
    <3> SUFFICES ASSUME NEW k \in 1..n PROVE <<k, o[k]>> \in U
      OBVIOUS
    <3>1. o[k] \in 1..Len(arrays[k])
      BY OdometerDigits
    <3>2. <<k, o[k]>> \in Marks[k]
      BY <3>1
    <3> HIDE DEF Marks
    <3> QED BY <3>2
  <2>2. ASSUME NEW o \in Odometers(arrays), NEW p \in Odometers(arrays),
               {<<k, o[k]>> : k \in 1..n} = {<<k, p[k]>> : k \in 1..n}
        PROVE  o = p
    <3>1. ASSUME NEW k \in 1..n PROVE o[k] = p[k]
      <4>1. <<k, o[k]>> \in {<<j, p[j]>> : j \in 1..n}
        BY <2>2
      <4>2. PICK j \in 1..n : <<k, o[k]>> = <<j, p[j]>>
        BY <4>1
      <4> QED BY <4>2
    <3>2. o = [k \in 1..n |-> o[k]] /\ p = [k \in 1..n |-> p[k]]
      BY OdometerDigits
    <3> HIDE DEF Marks, marked
    <3> QED BY <3>1, <3>2
  <2> QED BY <2>1, <2>2 DEF Injection, IsInjective
<1> HIDE DEF marked, U
<1> QED BY <1>4, <1>5, FS_Injection

\* How many settings come after one; an increment leaves one less.
Left(o, arrays) == Cardinality(Above(o, arrays))

LEMMA IncrementLeavesFewer ==
  ASSUME NEW arrays, NEW n, Wheels(arrays, n), NEW o \in Odometers(arrays)
  PROVE  /\ IsFiniteSet(Above(o, arrays)) /\ Left(o, arrays) \in Nat
         /\ ~IsLast(o, arrays) =>
               Left(o, arrays) = Left(OdometerIncrement(o, arrays), arrays) + 1
<1>1. ASSUME NEW p PROVE IsFiniteSet(Above(p, arrays)) /\ Left(p, arrays) \in Nat
  <2>1. Above(p, arrays) \in SUBSET Odometers(arrays)
    BY DEF Above
  <2>2. IsFiniteSet(Above(p, arrays))
    BY <2>1, FinitelyManySettings, FS_Subset
  <2> QED BY <2>2, FS_CardinalityType DEF Left
<1>2. ASSUME ~IsLast(o, arrays)
      PROVE  Left(o, arrays) = Left(OdometerIncrement(o, arrays), arrays) + 1
  <2> DEFINE q == OdometerIncrement(o, arrays)
  <2>1. Above(o, arrays) = Above(q, arrays) \cup {q} /\ q \notin Above(q, arrays)
    BY <1>2, IncrementIsNext
  <2> HIDE DEF q
  <2>2. Cardinality(Above(q, arrays) \cup {q}) = Cardinality(Above(q, arrays)) + 1
    BY <1>1, <2>1, FS_AddElement
  <2> QED BY <2>1, <2>2 DEF Left, q
<1> QED BY <1>1, <1>2

\* The combinations from a setting on, for the settings with at most m after them.
Runs(g, arrays, m) ==
    g = [o \in {p \in Odometers(arrays) : Left(p, arrays) <= m} |->
            <<FormCombination(o, arrays)>> \o
            IF IsLast(o, arrays) THEN <<>> ELSE g[OdometerIncrement(o, arrays)]]

LEMMA RunsExist ==
  ASSUME NEW arrays, NEW n, Wheels(arrays, n), NEW m \in Nat
  PROVE  \E g : Runs(g, arrays, m)
<1> DEFINE S == {j \in Nat : \E g : Runs(g, arrays, j)}
           D(j) == {p \in Odometers(arrays) : Left(p, arrays) <= j}
           Next1(o) == OdometerIncrement(o, arrays)
           Here(o) == <<FormCombination(o, arrays)>>
           Ends(o) == IsLast(o, arrays)
<1>1. \A j \in Nat : \A o \in D(j) : ~Ends(o) => j # 0 /\ Next1(o) \in D(j - 1)
  <2> SUFFICES ASSUME NEW j \in Nat, NEW o \in D(j), ~Ends(o)
               PROVE  j # 0 /\ Next1(o) \in D(j - 1)
    OBVIOUS
  <2>1. Next1(o) \in Odometers(arrays)
    BY IncrementIsNext
  <2>2. Left(o, arrays) = Left(Next1(o), arrays) + 1 /\ Left(o, arrays) <= j
    BY IncrementLeavesFewer
  <2>3. Left(Next1(o), arrays) \in Nat
    BY <2>1, IncrementLeavesFewer
  <2> HIDE DEF Next1
  <2> QED BY <2>1, <2>2, <2>3
<1>2. \A j \in Nat : D(j) \subseteq D(j + 1)
  <2> SUFFICES ASSUME NEW j \in Nat, NEW o \in D(j) PROVE o \in D(j + 1)
    OBVIOUS
  <2>1. Left(o, arrays) \in Nat
    BY IncrementLeavesFewer
  <2> QED BY <2>1
<1>3. ASSUME NEW g, NEW j
      PROVE  Runs(g, arrays, j) <=>
                g = [o \in D(j) |-> Here(o) \o IF Ends(o) THEN <<>> ELSE g[Next1(o)]]
  BY DEF Runs
<1> HIDE DEF D, Next1, Here, Ends
<1>4. 0 \in S
  <2> DEFINE g == [o \in D(0) |-> Here(o) \o <<>>]
  <2>1. \A o \in D(0) : Ends(o)
    BY <1>1
  <2>2. Runs(g, arrays, 0)
    BY <1>3, <2>1
  <2> HIDE DEF g
  <2> QED BY <2>2
<1>5. ASSUME NEW j \in Nat, j \in S PROVE j + 1 \in S
  <2>1. PICK g : Runs(g, arrays, j)
    BY <1>5
  <2> DEFINE f == [o \in D(j + 1) |-> Here(o) \o IF Ends(o) THEN <<>> ELSE g[Next1(o)]]
  <2>2. ASSUME NEW o \in D(j + 1), ~Ends(o) PROVE f[Next1(o)] = g[Next1(o)]
    <3>1. Next1(o) \in D(j)
      <4>1. (j + 1) - 1 = j /\ j + 1 \in Nat
        OBVIOUS
      <4>2. Next1(o) \in D((j + 1) - 1)
        BY <1>1, <2>2, <4>1
      <4> QED BY <4>1, <4>2
    <3> DEFINE q == Next1(o)
    <3>2. g[q] = Here(q) \o IF Ends(q) THEN <<>> ELSE g[Next1(q)]
      BY <1>3, <2>1, <3>1
    <3>3. q \in D(j + 1)
      BY <1>2, <3>1
    <3> HIDE DEF q
    <3>4. f[q] = g[q]
      BY <3>2, <3>3
    <3> QED BY <3>4 DEF q
  <2>3. Runs(f, arrays, j + 1)
    <3>1. f = [o \in D(j + 1) |-> Here(o) \o IF Ends(o) THEN <<>> ELSE f[Next1(o)]]
      BY <2>2
    <3> HIDE DEF f
    <3> QED BY <1>3, <3>1
  <2> HIDE DEF f
  <2>4. \E e : Runs(e, arrays, j + 1)
    BY <2>3
  <2> QED BY <2>4
<1> HIDE DEF S
<1>6. Nat \subseteq S
  BY <1>4, <1>5, InductionOver
<1>7. m \in S
  BY <1>6
<1> QED BY <1>7 DEF S

\* c lists the combinations of the settings of a set, each of them once.
Lists(c, set, arrays) ==
    /\ c \in Seq({FormCombination(o, arrays) : o \in Odometers(arrays)})
    /\ \E e \in Bijection(1..Len(c), set) :
          \A i \in 1..Len(c) : c[i] = FormCombination(e[i], arrays)

LEMMA PrependLists ==
  ASSUME NEW arrays, NEW c, NEW set, Lists(c, set, arrays),
         NEW o \in Odometers(arrays), o \notin set
  PROVE  Lists(<<FormCombination(o, arrays)>> \o c, {o} \cup set, arrays)
<1> DEFINE X == {FormCombination(p, arrays) : p \in Odometers(arrays)}
           x == FormCombination(o, arrays)
           d == <<x>> \o c
           n == Len(c)
<1>1. c \in Seq(X) /\ n \in Nat /\ x \in X
  BY DEF Lists
<1>2. PICK e \in Bijection(1..n, set) : \A i \in 1..n : c[i] = FormCombination(e[i], arrays)
  BY DEF Lists
<1> DEFINE f == [i \in 1..(n + 1) |-> IF i = 1 THEN o ELSE e[i - 1]]
<1> HIDE DEF X, x
<1>3. d \in Seq(X) /\ Len(d) = n + 1 /\ d[1] = x /\ \A i \in 1..n : d[i + 1] = c[i]
  BY <1>1
<1> HIDE DEF d, n
<1>4. e \in [1..n -> set] /\ (\A i, j \in 1..n : e[i] = e[j] => i = j)
      /\ \A t \in set : \E i \in 1..n : e[i] = t
  BY <1>2 DEF Bijection, Injection, Surjection, IsInjective
<1>5. f[1] = o /\ \A i \in 1..n : f[i + 1] = e[i]
  <2>1. \A i \in 1..n : i + 1 \in 1..(n + 1) /\ i + 1 # 1 /\ (i + 1) - 1 = i
    BY <1>1
  <2>2. 1 \in 1..(n + 1)
    BY <1>1
  <2> QED BY <2>1, <2>2
<1>6. DOMAIN f = 1..(n + 1) /\ f = [i \in 1..(n + 1) |-> f[i]]
  OBVIOUS
<1> HIDE DEF f
<1>7. \A i \in 1..(n + 1) : i = 1 \/ \E j \in 1..n : i = j + 1
  <2> SUFFICES ASSUME NEW i \in 1..(n + 1), i # 1 PROVE \E j \in 1..n : i = j + 1
    OBVIOUS
  <2>1. i - 1 \in 1..n /\ i = (i - 1) + 1
    BY <1>1
  <2> QED BY <2>1
<1>8. f \in [1..(n + 1) -> {o} \cup set]
  <2>1. ASSUME NEW i \in 1..(n + 1) PROVE f[i] \in {o} \cup set
    BY <1>4, <1>5, <1>7
  <2> QED BY <1>6, <2>1
<1>9. ASSUME NEW i \in 1..(n + 1), NEW j \in 1..(n + 1), f[i] = f[j] PROVE i = j
  <2>1. CASE i = 1 \/ j = 1
    BY <1>4, <1>5, <1>7, <1>9, <2>1
  <2>2. CASE i # 1 /\ j # 1
    <3>1. PICK a \in 1..n : i = a + 1
      BY <1>7, <2>2
    <3>2. PICK b \in 1..n : j = b + 1
      BY <1>7, <2>2
    <3>3. e[a] = e[b]
      BY <1>5, <1>9, <3>1, <3>2
    <3> QED BY <1>4, <3>1, <3>2, <3>3
  <2> QED BY <2>1, <2>2
<1>10. ASSUME NEW t \in {o} \cup set PROVE \E i \in 1..(n + 1) : f[i] = t
  <2>1. CASE t = o
    <3>1. 1 \in 1..(n + 1)
      BY <1>1
    <3> QED BY <1>5, <2>1, <3>1
  <2>2. CASE t \in set
    <3>1. PICK i \in 1..n : e[i] = t
      BY <1>4, <2>2
    <3>2. i + 1 \in 1..(n + 1)
      BY <1>1
    <3> QED BY <1>5, <3>1, <3>2
  <2> QED BY <2>1, <2>2
<1>11. f \in Bijection(1..Len(d), {o} \cup set)
  BY <1>3, <1>8, <1>9, <1>10 DEF Bijection, Injection, Surjection, IsInjective
<1>12. \A i \in 1..Len(d) : d[i] = FormCombination(f[i], arrays)
  <2> TAKE i \in 1..Len(d)
  <2>1. CASE i = 1
    BY <1>3, <1>5, <2>1 DEF x
  <2>2. CASE i # 1
    <3>1. PICK j \in 1..n : i = j + 1
      BY <1>3, <1>7, <2>2
    <3>2. d[i] = c[j] /\ f[i] = e[j]
      BY <1>3, <1>5, <3>1
    <3> QED BY <1>2, <3>2 DEF n
  <2> QED BY <2>1, <2>2
<1>13. \E g \in Bijection(1..Len(d), {o} \cup set) :
          \A i \in 1..Len(d) : d[i] = FormCombination(g[i], arrays)
  BY <1>11, <1>12
<1>14. d \in Seq({FormCombination(p, arrays) : p \in Odometers(arrays)})
  BY <1>3 DEF X
<1> QED BY <1>13, <1>14 DEF Lists, d, x

\* combineArrays: every setting once.
LEMMA CombineArraysLists ==
  ASSUME NEW arrays, NEW n, Wheels(arrays, n), n # 0
  PROVE  Lists(CombineArrays(arrays), Odometers(arrays), arrays)
<1> DEFINE O == Odometers(arrays)
           Here(o) == <<FormCombination(o, arrays)>>
           Next1(o) == OdometerIncrement(o, arrays)
           from == CHOOSE g : g = [o \in O |->
                       Here(o) \o IF \A k \in DOMAIN o : o[k] = Len(arrays[k]) THEN <<>>
                                  ELSE g[Next1(o)]]
           From(g) == g = [o \in O |->
                       Here(o) \o IF IsLast(o, arrays) THEN <<>> ELSE g[Next1(o)]]
           first == [k \in DOMAIN arrays |-> 1]
<1>1. arrays # <<>> /\ ~\E k \in DOMAIN arrays : arrays[k] = <<>>
  <2>1. 1 \in DOMAIN arrays /\ \A k \in DOMAIN arrays : Len(arrays[k]) # 0
    BY DEF Wheels
  <2> QED BY <2>1
<1>2. CombineArrays(arrays) = from[first]
  BY <1>1 DEF CombineArrays
<1>3. from = CHOOSE g : From(g)
  BY DEF IsLast
<1> HIDE DEF from
<1>4. IsFiniteSet(O) /\ Cardinality(O) \in Nat
  BY FinitelyManySettings, FS_CardinalityType
<1>5. {p \in O : Left(p, arrays) <= Cardinality(O)} = O
  <2> SUFFICES ASSUME NEW p \in O PROVE Left(p, arrays) <= Cardinality(O)
    OBVIOUS
  <2>1. Above(p, arrays) \in SUBSET O
    BY DEF Above
  <2> QED BY <1>4, <2>1, FS_Subset DEF Left
<1>6. From(from)
  <2>1. PICK g : Runs(g, arrays, Cardinality(O))
    BY <1>4, RunsExist
  <2>2. From(g)
    BY <1>5, <2>1 DEF Runs
  <2> HIDE DEF From
  <2> QED BY <1>3, <2>2
<1> DEFINE S == {m \in Nat : \A o \in O :
                    Left(o, arrays) = m => Lists(from[o], {o} \cup Above(o, arrays), arrays)}
<1>7. ASSUME NEW o \in O PROVE o \notin Above(o, arrays)
  <2>1. o \in [1..n -> Nat]
    BY OdometerDigits
  <2> QED BY <2>1 DEF Above, Before
<1>8. ASSUME NEW o \in O, IsLast(o, arrays)
      PROVE  Lists(from[o], {o} \cup Above(o, arrays), arrays)
  <2>1. from[o] = Here(o) \o <<>>
    BY <1>6, <1>8
  <2>2. Above(o, arrays) = {}
    BY <1>8, LastIsLast
  <2>3. Lists(<<>>, {}, arrays)
    <3>1. [i \in 1..0 |-> 0] \in Bijection(1..0, {})
      BY DEF Bijection, Injection, Surjection, IsInjective
    <3> QED BY <3>1 DEF Lists
  <2> QED BY <2>1, <2>2, <2>3, PrependLists
<1>9. ASSUME NEW o \in O, ~IsLast(o, arrays),
             Lists(from[Next1(o)], {Next1(o)} \cup Above(Next1(o), arrays), arrays)
      PROVE  Lists(from[o], {o} \cup Above(o, arrays), arrays)
  <2>1. from[o] = Here(o) \o from[Next1(o)]
    BY <1>6, <1>9
  <2>2. Above(o, arrays) = {Next1(o)} \cup Above(Next1(o), arrays)
    BY <1>9, IncrementIsNext
  <2> QED BY <1>7, <1>9, <2>1, <2>2, PrependLists
<1>10. 0 \in S
  <2> SUFFICES ASSUME NEW o \in O, Left(o, arrays) = 0
               PROVE  Lists(from[o], {o} \cup Above(o, arrays), arrays)
    OBVIOUS
  <2>1. IsLast(o, arrays)
    <3> SUFFICES ASSUME ~IsLast(o, arrays) PROVE FALSE
      OBVIOUS
    <3>1. Next1(o) \in O /\ 0 = Left(Next1(o), arrays) + 1
      BY IncrementIsNext, IncrementLeavesFewer
    <3> HIDE DEF Next1
    <3>2. Left(Next1(o), arrays) \in Nat
      BY <3>1, IncrementLeavesFewer
    <3> QED BY <3>1, <3>2
  <2> QED BY <1>8, <2>1
<1>11. ASSUME NEW m \in Nat, m \in S PROVE m + 1 \in S
  <2> SUFFICES ASSUME NEW o \in O, Left(o, arrays) = m + 1
               PROVE  Lists(from[o], {o} \cup Above(o, arrays), arrays)
    OBVIOUS
  <2>1. CASE IsLast(o, arrays)
    BY <1>8, <2>1
  <2>2. CASE ~IsLast(o, arrays)
    <3>1. Next1(o) \in O /\ m + 1 = Left(Next1(o), arrays) + 1
      BY <2>2, IncrementIsNext, IncrementLeavesFewer
    <3>2. Left(Next1(o), arrays) \in Nat
      BY <3>1, IncrementLeavesFewer
    <3>3. Left(Next1(o), arrays) = m
      <4> HIDE DEF Next1
      <4> QED BY <3>1, <3>2
    <3>4. Lists(from[Next1(o)], {Next1(o)} \cup Above(Next1(o), arrays), arrays)
      BY <1>11, <3>1, <3>3
    <3> QED BY <1>9, <2>2, <3>4
  <2> QED BY <2>1, <2>2
<1> HIDE DEF S
<1>12. Nat \subseteq S
  BY <1>10, <1>11, InductionOver
<1>13. first \in O /\ O = {first} \cup Above(first, arrays)
  BY FirstIsFirst
<1>14. Left(first, arrays) \in S
  BY <1>12, <1>13, IncrementLeavesFewer
<1>15. Lists(from[first], {first} \cup Above(first, arrays), arrays)
  BY <1>13, <1>14 DEF S
<1> QED BY <1>2, <1>13, <1>15

---------------------------------------------------------------------------
(* The invariant, as one predicate for each part of the state.             *)

Distinct(seq) == \A i, j \in DOMAIN seq : seq[i] = seq[j] => i = j

CalendarOK == calendar \in [Suppliers -> Calendars]

AnswersOK == answers \in Seq(Suppliers) /\ Distinct(answers)

JobOK == stage \in {"asking", "selected"} => job \in Jobs

\* Those who answered have a category, or the job could not have been started.
TypesKnown == \A s \in ToSet(answers) : SupplierType[s] \in ToSet(Categories)

SelectionOK ==
    stage = "selected" =>
        LET partition == PartitionSuppliers(answers)
            day == FindOverlappingDay(partition)
            sets == CreateUniqueSets(partition, day)
        IN  /\ answers # <<>> /\ TypesKnown
            /\ selection = [day |-> day, sets |-> sets,
                            chosen |-> FormatUniqueSets(sets, job.reqs)]

IInv == CalendarOK /\ AnswersOK /\ JobOK /\ SelectionOK

---------------------------------------------------------------------------
(* The suppliers of a category, and those of them that are free on a day.  *)

LEMMA AmongSet ==
  ASSUME NEW X, NEW seq \in Seq(X), NEW set
  PROVE  /\ Among(seq, set) \in Seq(X)
         /\ ToSet(Among(seq, set)) = ToSet(seq) \cap set
         /\ Distinct(seq) => Distinct(Among(seq, set))
<1> DEFINE kept == Among(seq, set)
           n == Len(kept)
           m == Len(seq)
<1>1. kept \in Seq(X \cap set)
  BY AmongPlaces
<1>2. PICK f : PlacesOf(f, kept, seq, set, m)
  BY AmongPlaces
<1> HIDE DEF kept
<1>3. n \in Nat /\ DOMAIN kept = 1..n /\ m \in Nat /\ DOMAIN seq = 1..m /\ kept \in Seq(X)
  BY <1>1
<1> HIDE DEF n, m
<1>4. /\ \A a \in 1..n : f[a] \in 1..m /\ seq[f[a]] \in set /\ kept[a] = seq[f[a]]
      /\ \A a, b \in 1..n : f[a] = f[b] => a = b
      /\ \A j \in 1..m : seq[j] \in set => \E a \in 1..n : f[a] = j
  <2>1. f \in [1..n -> {j \in 1..m : seq[j] \in set}]
    BY <1>2 DEF PlacesOf, n
  <2> QED BY <1>2, <2>1 DEF PlacesOf, n
<1>5. ToSet(kept) = ToSet(seq) \cap set
  <2>1. ASSUME NEW a \in 1..n PROVE kept[a] \in ToSet(seq) \cap set
    BY <1>3, <1>4 DEF ToSet
  <2>2. ASSUME NEW j \in 1..m, seq[j] \in set PROVE seq[j] \in ToSet(kept)
    BY SMTT(30), <1>3, <1>4, <2>2 DEF ToSet
  <2> QED BY <1>3, <2>1, <2>2 DEF ToSet
<1>6. Distinct(seq) => Distinct(kept)
  BY <1>3, <1>4 DEF Distinct
<1> QED BY <1>3, <1>5, <1>6 DEF kept

LEMMA FourCategories ==
  /\ DOMAIN Categories = 1..4 /\ Len(Categories) = 4
  /\ ToSet(Categories) = {Categories[k] : k \in 1..4}
  /\ \A j, k \in 1..4 : Categories[j] = Categories[k] => j = k
<1>1. DOMAIN Categories = 1..4 /\ Len(Categories) = 4
  BY DEF Categories
<1>2. \A j \in 1..4 : j = 1 \/ j = 2 \/ j = 3 \/ j = 4
  OBVIOUS
<1>3. /\ Categories[1] = "PORT" /\ Categories[2] = "SPARE"
      /\ Categories[3] = "TECHNICIAN" /\ Categories[4] = "VESSEL"
  BY DEF Categories
<1>4. \A j, k \in 1..4 : Categories[j] = Categories[k] => j = k
  BY <1>2, <1>3
<1> QED BY <1>1, <1>4 DEF ToSet

\* Who could take part on a day, by category.
FreeOn(day) ==
    [k \in DOMAIN Categories |->
        Among(PartitionSuppliers(answers)[Categories[k]],
              {s \in Suppliers : day \in Availability(s)})]

LEMMA PartitionOfAnswers ==
  ASSUME AnswersOK, NEW c \in ToSet(Categories)
  PROVE  LET of == PartitionSuppliers(answers)[c]
         IN  /\ of \in Seq(Suppliers) /\ Distinct(of)
             /\ ToSet(of) = {s \in ToSet(answers) : SupplierType[s] = c}
<1> DEFINE set == {s \in Suppliers : SupplierType[s] = c}
<1>1. PartitionSuppliers(answers)[c] = Among(answers, set)
  BY DEF PartitionSuppliers
<1>2. answers \in Seq(Suppliers) /\ Distinct(answers)
  BY DEF AnswersOK
<1>3. /\ Among(answers, set) \in Seq(Suppliers)
      /\ ToSet(Among(answers, set)) = ToSet(answers) \cap set
      /\ Distinct(Among(answers, set))
  BY <1>2, AmongSet
<1>4. ToSet(answers) \subseteq Suppliers
  BY <1>2 DEF ToSet
<1> QED BY <1>1, <1>3, <1>4

LEMMA FreeOfCategory ==
  ASSUME AnswersOK, NEW day, NEW k \in 1..4
  PROVE  /\ FreeOn(day)[k] \in Seq(Suppliers) /\ Distinct(FreeOn(day)[k])
         /\ ToSet(FreeOn(day)[k]) = {s \in ToSet(answers) :
                SupplierType[s] = Categories[k] /\ day \in Availability(s)}
<1> DEFINE able == {s \in Suppliers : day \in Availability(s)}
           of == PartitionSuppliers(answers)[Categories[k]]
<1>1. FreeOn(day)[k] = Among(of, able)
  BY FourCategories DEF FreeOn
<1>2. /\ of \in Seq(Suppliers) /\ Distinct(of)
      /\ ToSet(of) = {s \in ToSet(answers) : SupplierType[s] = Categories[k]}
  BY FourCategories, PartitionOfAnswers
<1>3. /\ Among(of, able) \in Seq(Suppliers) /\ Distinct(Among(of, able))
      /\ ToSet(Among(of, able)) = ToSet(of) \cap able
  <2> HIDE DEF of, able
  <2> QED BY <1>2, AmongSet
<1>4. ToSet(answers) \subseteq Suppliers
  BY DEF ToSet, AnswersOK
<1> HIDE DEF of
<1> QED BY <1>1, <1>2, <1>3, <1>4

\* The categories of OverlapOn are those with somebody who is free.
Staffed(day) == {k \in 1..4 : FreeOn(day)[k] # <<>>}

LEMMA OverlapPlaces ==
  ASSUME AnswersOK, NEW day
  PROVE  LET arrays == OverlapOn(PartitionSuppliers(answers), day)
         IN  /\ arrays \in Seq(Seq(Suppliers))
             /\ \E f \in Bijection(1..Len(arrays), Staffed(day)) :
                   \A a \in 1..Len(arrays) : arrays[a] = FreeOn(day)[f[a]]
<1> DEFINE free == FreeOn(day)
           set == ToSet(free) \ {<<>>}
           arrays == OverlapOn(PartitionSuppliers(answers), day)
<1>1. arrays = Among(free, set)
  BY DEF OverlapOn, FreeOn
<1>2. DOMAIN free = 1..4 /\ free = [k \in 1..4 |-> free[k]]
  BY FourCategories DEF FreeOn
<1>3. \A k \in 1..4 : free[k] \in Seq(Suppliers)
  BY FreeOfCategory
<1> HIDE DEF free, arrays
<1>4. free \in Seq(Seq(Suppliers)) /\ Len(free) = 4
  BY <1>2, <1>3
<1>5. /\ Among(free, set) \in Seq(Seq(Suppliers) \cap set)
      /\ \E f : PlacesOf(f, Among(free, set), free, set, Len(free))
  <2> DEFINE X == Seq(Suppliers)
  <2>1. free \in Seq(X)
    BY <1>4
  <2> HIDE DEF X, set
  <2> QED BY <2>1, AmongPlaces DEF X
<1>6. PICK f : PlacesOf(f, arrays, free, set, 4)
  BY <1>1, <1>4, <1>5
<1>7. {j \in 1..4 : free[j] \in set} = Staffed(day)
  BY <1>2 DEF ToSet, Staffed, free
<1>8. f \in [1..Len(arrays) -> Staffed(day)]
  BY <1>6, <1>7 DEF PlacesOf
<1>9. \A j \in Staffed(day) : \E a \in 1..Len(arrays) : f[a] = j
  <2> TAKE j \in Staffed(day)
  <2>1. j \in 1..4 /\ free[j] \in set
    BY <1>7
  <2> QED BY <1>6, <2>1 DEF PlacesOf
<1>10. \A a, b \in 1..Len(arrays) : f[a] = f[b] => a = b
  BY <1>6 DEF PlacesOf
<1>11. f \in Bijection(1..Len(arrays), Staffed(day))
  BY <1>8, <1>9, <1>10 DEF Bijection, Injection, Surjection, IsInjective
<1>12. \A a \in 1..Len(arrays) : arrays[a] = free[f[a]]
  BY <1>6 DEF PlacesOf
<1>13. arrays \in Seq(Seq(Suppliers))
  <2> DEFINE X == Seq(Suppliers)
             Y == X \cap set
  <2>1. arrays \in Seq(Y)
    BY <1>1, <1>5
  <2>2. Y \subseteq X
    OBVIOUS
  <2> HIDE DEF X, Y
  <2>3. arrays \in Seq(X)
    BY <2>1, <2>2
  <2> QED BY <2>3 DEF X
<1> QED BY <1>11, <1>12, <1>13 DEF arrays, free

\* The categories that answered.
Asked == {k \in 1..4 : Categories[k] \in Represented}

LEMMA AskedIsFinite ==
  IsFiniteSet(Asked)
<1>1. Asked \in SUBSET Nat /\ \A k \in Asked : k <= 4
  BY DEF Asked
<1>2. 4 \in Nat
  OBVIOUS
<1> QED BY <1>1, <1>2, FS_BoundedSetOfNaturals

LEMMA AskedIsRepresented ==
  ASSUME TypesKnown
  PROVE  Represented = {Categories[k] : k \in Asked}
<1>1. ASSUME NEW c \in Represented PROVE \E k \in Asked : c = Categories[k]
  <2>1. c \in ToSet(Categories)
    BY DEF Represented, TypesKnown
  <2>2. PICK k \in 1..4 : c = Categories[k]
    BY <2>1, FourCategories
  <2> QED BY <2>2 DEF Asked
<1> QED BY <1>1 DEF Asked

LEMMA StaffedAreAsked ==
  ASSUME AnswersOK, NEW day
  PROVE  \A k \in 1..4 : k \in Staffed(day) <=>
            \E s \in ToSet(answers) : SupplierType[s] = Categories[k] /\ day \in Availability(s)
<1> TAKE k \in 1..4
<1> DEFINE of == FreeOn(day)[k]
<1>1. of \in Seq(Suppliers) /\ ToSet(of) = {s \in ToSet(answers) :
          SupplierType[s] = Categories[k] /\ day \in Availability(s)}
  BY FreeOfCategory
<1> HIDE DEF of
<1>2. of # <<>> <=> ToSet(of) # {}
  BY <1>1 DEF ToSet
<1> QED BY <1>1, <1>2 DEF Staffed, of

\* dayReducer counts the categories that answered...
LEMMA MinimumIsAsked ==
  ASSUME AnswersOK
  PROVE  LET partition == PartitionSuppliers(answers)
         IN  Cardinality({c \in DOMAIN partition : partition[c] # <<>>}) = Cardinality(Asked)
<1> DEFINE P == PartitionSuppliers(answers)
           C == {c \in DOMAIN P : P[c] # <<>>}
           f == [k \in Asked |-> Categories[k]]
<1>1. DOMAIN P = ToSet(Categories)
  BY DEF PartitionSuppliers
<1>2. ASSUME NEW c \in ToSet(Categories) PROVE P[c] # <<>> <=> c \in Represented
  <2> DEFINE of == P[c]
  <2>1. of \in Seq(Suppliers) /\ ToSet(of) = {s \in ToSet(answers) : SupplierType[s] = c}
    BY PartitionOfAnswers
  <2> HIDE DEF of
  <2>2. of # <<>> <=> ToSet(of) # {}
    BY <2>1 DEF ToSet
  <2> QED BY <2>1, <2>2 DEF Represented, of
<1> HIDE DEF P
<1>3. C = {c \in ToSet(Categories) : c \in Represented}
  BY <1>1, <1>2
<1>4. f \in Bijection(Asked, C)
  <2>1. \A k \in Asked : Categories[k] \in C
    BY <1>3, FourCategories DEF Asked
  <2>2. \A c \in C : \E k \in Asked : Categories[k] = c
    BY <1>3, FourCategories DEF Asked
  <2>3. \A j, k \in Asked : Categories[j] = Categories[k] => j = k
    BY FourCategories DEF Asked
  <2> QED BY <2>1, <2>2, <2>3 DEF Bijection, Injection, Surjection, IsInjective
<1>5. IsFiniteSet(Asked)
  BY AskedIsFinite
<1>6. Cardinality(C) = Cardinality(Asked)
  <2>1. ExistsBijection(Asked, C)
    BY <1>4 DEF ExistsBijection
  <2> HIDE DEF C
  <2> QED BY <1>5, <2>1, FS_Bijection
<1> QED BY <1>6 DEF P

\* ... and keeps the days on which each of them is staffed.
LEMMA ReducedAreShared ==
  ASSUME AnswersOK, TypesKnown, NEW day
  PROVE  LET partition == PartitionSuppliers(answers)
         IN  /\ Staffed(day) \subseteq Asked
             /\ Shared(day) <=> Staffed(day) = Asked
             /\ Shared(day) <=>
                   Len(OverlapOn(partition, day)) =
                       Cardinality({c \in DOMAIN partition : partition[c] # <<>>})
<1> DEFINE arrays == OverlapOn(PartitionSuppliers(answers), day)
           n == Len(arrays)
<1>1. Staffed(day) \subseteq Asked
  <2> SUFFICES ASSUME NEW k \in Staffed(day) PROVE k \in Asked
    OBVIOUS
  <2>1. k \in 1..4
    BY DEF Staffed
  <2>2. PICK s \in ToSet(answers) : SupplierType[s] = Categories[k]
    BY <2>1, StaffedAreAsked
  <2> QED BY <2>1, <2>2 DEF Asked, Represented
<1>2. Shared(day) <=> Staffed(day) = Asked
  <2>1. ASSUME Shared(day) PROVE Asked \subseteq Staffed(day)
    <3> SUFFICES ASSUME NEW k \in Asked PROVE k \in Staffed(day)
      OBVIOUS
    <3>1. k \in 1..4 /\ Categories[k] \in Represented
      BY DEF Asked
    <3>2. \E s \in ToSet(answers) : SupplierType[s] = Categories[k] /\ day \in Availability(s)
      BY <2>1, <3>1 DEF Shared
    <3> QED BY <3>1, <3>2, StaffedAreAsked
  <2>2. ASSUME Asked \subseteq Staffed(day) PROVE Shared(day)
    <3> SUFFICES ASSUME NEW c \in Represented
                 PROVE  \E s \in ToSet(answers) : SupplierType[s] = c /\ day \in Availability(s)
      BY DEF Shared
    <3>1. PICK k \in Asked : c = Categories[k]
      BY AskedIsRepresented
    <3>2. k \in 1..4 /\ k \in Staffed(day)
      BY <2>2 DEF Asked
    <3> QED BY <3>1, <3>2, StaffedAreAsked
  <2> QED BY <1>1, <2>1, <2>2
<1>3. IsFiniteSet(Asked)
  BY AskedIsFinite
<1>4. Cardinality(Staffed(day)) = n
  <2>1. arrays \in Seq(Seq(Suppliers)) /\ ExistsBijection(1..n, Staffed(day))
    BY OverlapPlaces DEF ExistsBijection
  <2> HIDE DEF arrays
  <2>2. n \in Nat
    BY <2>1
  <2> HIDE DEF n
  <2> QED BY <2>1, <2>2, FS_CountingElements
<1>5. Cardinality(Staffed(day)) = Cardinality(Asked) => Staffed(day) = Asked
  BY <1>1, <1>3, FS_Subset
<1> HIDE DEF arrays, n
<1>6. Shared(day) <=> n = Cardinality(Asked)
  BY <1>2, <1>4, <1>5
<1> QED BY <1>1, <1>2, <1>6, MinimumIsAsked DEF arrays, n

\* The day found is the earliest that is shared.
LEMMA FoundDayIsEarliest ==
  ASSUME AnswersOK, TypesKnown, answers # <<>>
  PROVE  LET day == FindOverlappingDay(PartitionSuppliers(answers))
             shared == {d \in 1..Days : Shared(d)}
         IN  day = IF shared = {} THEN 0 ELSE Min(shared)
<1> DEFINE P == PartitionSuppliers(answers)
           days == UNION {Availability(s) : s \in UNION {ToSet(P[c]) : c \in DOMAIN P}}
           viable == DayReducer(P, days)
           shared == {d \in 1..Days : Shared(d)}
<1>1. viable = {d \in days : Shared(d)}
  BY ReducedAreShared DEF DayReducer
<1>2. days \subseteq 1..Days
  BY DEF Availability, SuitabilityFinder
<1>3. ASSUME NEW d, Shared(d) PROVE d \in days
  <2>1. answers \in Seq(Suppliers) /\ 1 \in DOMAIN answers
    BY DEF AnswersOK
  <2>2. answers[1] \in ToSet(answers)
    BY <2>1 DEF ToSet
  <2>3. SupplierType[answers[1]] \in Represented
    BY <2>2 DEF Represented
  <2>4. PICK s \in ToSet(answers) : d \in Availability(s)
    BY <1>3, <2>3 DEF Shared
  <2>5. SupplierType[s] \in ToSet(Categories)
    BY DEF TypesKnown
  <2>6. s \in ToSet(P[SupplierType[s]])
    BY <2>5, PartitionOfAnswers
  <2>7. SupplierType[s] \in DOMAIN P
    BY <2>5 DEF PartitionSuppliers
  <2> HIDE DEF P
  <2> QED BY <2>4, <2>6, <2>7
<1> HIDE DEF days
<1>4. viable = shared
  BY <1>1, <1>2, <1>3
<1> HIDE DEF viable
<1>5. FindOverlappingDay(P) = IF viable = {} THEN 0 ELSE Min(viable)
  BY DEF FindOverlappingDay, viable, days
<1> QED BY <1>4, <1>5

---------------------------------------------------------------------------
(* The teams: one setting of the odometer for each.                        *)

Teams(free, types) ==
    {team \in SUBSET free : /\ {SupplierType[s] : s \in team} = types
                            /\ Cardinality(team) = Cardinality(types)}

\* The arrays hold, for each type, those who are free and have that type.
ByType(arrays, n, free, typ) ==
    \A a \in 1..n : /\ DOMAIN arrays[a] = 1..Len(arrays[a])
                    /\ Distinct(arrays[a])
                    /\ ToSet(arrays[a]) = {s \in free : SupplierType[s] = typ[a]}

LEMMA SettingsAreTeams ==
  ASSUME NEW arrays, NEW n, Wheels(arrays, n), NEW free, IsFiniteSet(free),
         NEW types, NEW typ \in Bijection(1..n, types), ByType(arrays, n, free, typ)
  PROVE  [o \in Odometers(arrays) |-> ToSet(FormCombination(o, arrays))]
            \in Bijection(Odometers(arrays), Teams(free, types))
<1> DEFINE O == Odometers(arrays)
           Member(o, a) == arrays[a][o[a]]
           Team(o) == ToSet(FormCombination(o, arrays))
<1>1. ASSUME NEW o \in O PROVE Team(o) = {Member(o, a) : a \in 1..n}
  BY DEF FormCombination, ToSet, Wheels
<1>2. ASSUME NEW o \in O, NEW a \in 1..n
      PROVE  /\ Member(o, a) \in free /\ SupplierType[Member(o, a)] = typ[a]
             /\ o[a] \in DOMAIN arrays[a]
  <2>1. o[a] \in DOMAIN arrays[a]
    BY OdometerDigits DEF ByType
  <2>2. Member(o, a) \in ToSet(arrays[a])
    BY <2>1 DEF ToSet
  <2> QED BY <2>1, <2>2 DEF ByType
<1>3. /\ typ \in [1..n -> types]
      /\ \A a, b \in 1..n : typ[a] = typ[b] => a = b
      /\ \A c \in types : \E a \in 1..n : typ[a] = c
  BY DEF Bijection, Injection, Surjection, IsInjective
<1>4. n \in Nat /\ IsFiniteSet(1..n)
  <2>1. n \in Nat /\ 1 \in Int
    BY DEF Wheels
  <2> QED BY <2>1, FS_Interval
<1>5. Cardinality(types) = n /\ IsFiniteSet(types)
  <2>1. ExistsBijection(1..n, types)
    BY DEF ExistsBijection
  <2> QED BY <1>4, <2>1, FS_CountingElements, FS_Bijection
<1> HIDE DEF Team, Member
<1>6. ASSUME NEW o \in O PROVE Team(o) \in Teams(free, types)
  <2> DEFINE h == [a \in 1..n |-> Member(o, a)]
  <2>1. Team(o) \in SUBSET free
    BY <1>1, <1>2
  <2>2. {SupplierType[s] : s \in Team(o)} = types
    BY <1>1, <1>2, <1>3
  <2>3. h \in Bijection(1..n, Team(o))
    <3>1. \A a, b \in 1..n : Member(o, a) = Member(o, b) => a = b
      BY <1>2, <1>3
    <3> QED BY <1>1, <3>1 DEF Bijection, Injection, Surjection, IsInjective
  <2>4. Cardinality(Team(o)) = n
    <3>1. ExistsBijection(1..n, Team(o))
      BY <2>3 DEF ExistsBijection
    <3> QED BY <1>4, <3>1, FS_CountingElements
  <2> QED BY <1>5, <2>1, <2>2, <2>4 DEF Teams
<1>7. ASSUME NEW o \in O, NEW p \in O, Team(o) = Team(p) PROVE o = p
  <2>1. ASSUME NEW a \in 1..n PROVE o[a] = p[a]
    <3>1. PICK b \in 1..n : Member(o, a) = Member(p, b)
      BY <1>1, <1>7
    <3>2. a = b
      BY <1>2, <1>3, <3>1
    <3> QED BY <1>2, <3>1, <3>2 DEF ByType, Distinct, Member
  <2>2. o = [a \in 1..n |-> o[a]] /\ p = [a \in 1..n |-> p[a]]
    BY OdometerDigits
  <2> QED BY <2>1, <2>2
<1>8. ASSUME NEW team \in Teams(free, types) PROVE \E o \in O : Team(o) = team
  <2>1. /\ team \in SUBSET free /\ {SupplierType[s] : s \in team} = types
        /\ Cardinality(team) = Cardinality(types)
    BY DEF Teams
  <2>2. IsFiniteSet(team)
    BY <2>1, FS_Subset
  <2> DEFINE g == [s \in team |-> SupplierType[s]]
  <2>3. g \in Surjection(team, types)
    BY <2>1 DEF Surjection
  <2>4. g \in Injection(team, types)
    <3> HIDE DEF g
    <3> QED BY <1>5, <2>1, <2>2, <2>3, FS_SurjSameCardinalityImpliesInj
  <2>5. \A s, t \in team : SupplierType[s] = SupplierType[t] => s = t
    BY <2>4 DEF Injection, IsInjective
  <2>6. ASSUME NEW a \in 1..n
        PROVE  \E i \in DOMAIN arrays[a] : arrays[a][i] \in team
    <3>1. PICK s \in team : SupplierType[s] = typ[a]
      BY <1>3, <2>1
    <3>2. s \in ToSet(arrays[a])
      BY <2>1, <3>1 DEF ByType
    <3> QED BY <3>1, <3>2 DEF ToSet
  <2> DEFINE o == [a \in 1..n |-> CHOOSE i \in DOMAIN arrays[a] : arrays[a][i] \in team]
  <2>7. \A a \in 1..n : o[a] \in DOMAIN arrays[a] /\ Member(o, a) \in team
    BY <2>6 DEF Member
  <2>8. DOMAIN o = 1..n /\ o = [a \in 1..n |-> o[a]]
    OBVIOUS
  <2> HIDE DEF o
  <2>9. o \in O
    <3>1. \A a \in 1..n : o[a] \in 1..Len(arrays[a]) /\ Len(arrays[a]) \in Nat
      BY <2>7 DEF ByType, Wheels
    <3>2. o \in [1..n -> Nat]
      BY <2>8, <3>1
    <3> QED BY <3>1, <3>2, OdometerDigits
  <2>10. ASSUME NEW s \in team PROVE s \in Team(o)
    <3>1. SupplierType[s] \in types
      BY <2>1
    <3>2. PICK a \in 1..n : typ[a] = SupplierType[s]
      BY <1>3, <3>1
    <3>3. SupplierType[Member(o, a)] = SupplierType[s] /\ Member(o, a) \in team
      BY <1>2, <2>7, <2>9, <3>2
    <3>4. Member(o, a) = s
      BY <2>5, <3>3
    <3> QED BY <1>1, <2>9, <3>4
  <2>11. Team(o) \subseteq team
    BY <1>1, <2>7, <2>9
  <2>12. Team(o) = team
    BY <2>10, <2>11
  <2> QED BY <2>9, <2>12
<1> DEFINE T == [o \in O |-> Team(o)]
<1>9. T \in Bijection(O, Teams(free, types))
  BY <1>6, <1>7, <1>8 DEF Bijection, Injection, Surjection, IsInjective
<1> QED BY <1>9 DEF Team

\* A list of the combinations is a list of the teams.
LEMMA ListedTeams ==
  ASSUME NEW arrays, NEW c, NEW teams, Lists(c, Odometers(arrays), arrays),
         [o \in Odometers(arrays) |-> ToSet(FormCombination(o, arrays))]
            \in Bijection(Odometers(arrays), teams)
  PROVE  {ToSet(c[k]) : k \in DOMAIN c} = teams /\ Len(c) = Cardinality(teams)
<1> DEFINE O == Odometers(arrays)
           Team(o) == ToSet(FormCombination(o, arrays))
           T == [o \in O |-> Team(o)]
           n == Len(c)
<1>1. n \in Nat /\ DOMAIN c = 1..n
  BY DEF Lists
<1>2. PICK e \in Bijection(1..n, O) : \A i \in 1..n : c[i] = FormCombination(e[i], arrays)
  BY DEF Lists
<1>3. /\ e \in [1..n -> O]
      /\ \A i, j \in 1..n : e[i] = e[j] => i = j
      /\ \A o \in O : \E i \in 1..n : e[i] = o
  BY <1>2 DEF Bijection, Injection, Surjection, IsInjective
<1>4. /\ \A o \in O : Team(o) \in teams
      /\ \A o, p \in O : Team(o) = Team(p) => o = p
      /\ \A t \in teams : \E o \in O : Team(o) = t
  <2>1. T \in Injection(O, teams) /\ T \in Surjection(O, teams)
    BY DEF Bijection
  <2>2. T \in [O -> teams] /\ (\A o, p \in O : T[o] = T[p] => o = p)
        /\ \A t \in teams : \E o \in O : T[o] = t
    BY <2>1 DEF Injection, Surjection, IsInjective
  <2> HIDE DEF Team
  <2> QED BY <2>2
<1>5. \A i \in 1..n : ToSet(c[i]) = Team(e[i])
  BY <1>2
<1> HIDE DEF Team, O, n
<1>6. {ToSet(c[k]) : k \in DOMAIN c} = teams
  <2>1. ASSUME NEW i \in 1..n PROVE ToSet(c[i]) \in teams
    BY <1>3, <1>4, <1>5
  <2>2. ASSUME NEW t \in teams PROVE \E i \in 1..n : ToSet(c[i]) = t
    <3>1. PICK o \in O : Team(o) = t
      BY <1>4
    <3>2. PICK i \in 1..n : e[i] = o
      BY <1>3, <3>1
    <3> QED BY <1>5, <3>1, <3>2
  <2> QED BY <1>1, <2>1, <2>2
<1>7. Cardinality(teams) = n
  <2> DEFINE f == [i \in 1..n |-> Team(e[i])]
  <2>1. f \in Bijection(1..n, teams)
    <3>1. \A i \in 1..n : Team(e[i]) \in teams
      BY <1>3, <1>4
    <3>2. \A i, j \in 1..n : Team(e[i]) = Team(e[j]) => i = j
      <4> SUFFICES ASSUME NEW i \in 1..n, NEW j \in 1..n, Team(e[i]) = Team(e[j]) PROVE i = j
        OBVIOUS
      <4>1. e[i] \in O /\ e[j] \in O
        BY <1>3
      <4>2. e[i] = e[j]
        BY <1>4, <4>1
      <4> QED BY <1>3, <4>2
    <3>3. \A t \in teams : \E i \in 1..n : Team(e[i]) = t
      <4> TAKE t \in teams
      <4>1. PICK o \in O : Team(o) = t
        BY <1>4
      <4> QED BY <1>3, <4>1
    <3> QED BY <3>1, <3>2, <3>3 DEF Bijection, Injection, Surjection, IsInjective
  <2>2. ExistsBijection(1..n, teams)
    BY <2>1 DEF ExistsBijection
  <2> QED BY <1>1, <2>2, FS_CountingElements
<1> QED BY <1>6, <1>7 DEF n

\* createUniqueSets of a day that is shared.
LEMMA SharedDayTeams ==
  ASSUME AnswersOK, TypesKnown, answers # <<>>, NEW day, day # 0, Shared(day)
  PROVE  LET free == {s \in ToSet(answers) : day \in Availability(s)}
             sets == CreateUniqueSets(PartitionSuppliers(answers), day)
         IN  /\ {ToSet(sets[k]) : k \in DOMAIN sets} = Teams(free, Represented)
             /\ Len(sets) = Cardinality(Teams(free, Represented))
<1> DEFINE free == {s \in ToSet(answers) : day \in Availability(s)}
           arrays == OverlapOn(PartitionSuppliers(answers), day)
           n == Len(arrays)
<1>1. arrays \in Seq(Seq(Suppliers))
  BY OverlapPlaces
<1>2. PICK f \in Bijection(1..n, Staffed(day)) : \A a \in 1..n : arrays[a] = FreeOn(day)[f[a]]
  BY OverlapPlaces
<1>3. Staffed(day) = Asked
  BY ReducedAreShared
<1> HIDE DEF arrays
<1>4. n \in Nat /\ DOMAIN arrays = 1..n
  BY <1>1
<1> HIDE DEF n
<1>5. /\ f \in [1..n -> Asked]
      /\ \A a, b \in 1..n : f[a] = f[b] => a = b
      /\ \A k \in Asked : \E a \in 1..n : f[a] = k
  BY <1>2, <1>3 DEF Bijection, Injection, Surjection, IsInjective
<1> DEFINE typ == [a \in 1..n |-> Categories[f[a]]]
<1>6. \A a \in 1..n : f[a] \in 1..4 /\ f[a] \in Asked
  BY <1>5 DEF Asked
<1>7. typ \in Bijection(1..n, Represented)
  <2>1. \A a \in 1..n : Categories[f[a]] \in Represented
    BY <1>6 DEF Asked
  <2>2. \A a, b \in 1..n : Categories[f[a]] = Categories[f[b]] => a = b
    BY <1>5, <1>6, FourCategories
  <2>3. \A c \in Represented : \E a \in 1..n : Categories[f[a]] = c
    BY <1>5, AskedIsRepresented
  <2> QED BY <2>1, <2>2, <2>3 DEF Bijection, Injection, Surjection, IsInjective
<1>8. ASSUME NEW a \in 1..n
      PROVE  /\ arrays[a] \in Seq(Suppliers) /\ Distinct(arrays[a]) /\ arrays[a] # <<>>
             /\ ToSet(arrays[a]) = {s \in free : SupplierType[s] = typ[a]}
  <2>1. arrays[a] = FreeOn(day)[f[a]] /\ f[a] \in 1..4 /\ f[a] \in Staffed(day)
    BY <1>2, <1>3, <1>6
  <2>2. arrays[a] \in Seq(Suppliers) /\ Distinct(arrays[a])
        /\ ToSet(arrays[a]) = {s \in ToSet(answers) :
               SupplierType[s] = Categories[f[a]] /\ day \in Availability(s)}
    BY <2>1, FreeOfCategory
  <2>3. arrays[a] # <<>>
    BY <2>1 DEF Staffed
  <2> QED BY <2>2, <2>3
<1>9. ByType(arrays, n, free, typ)
  <2> SUFFICES ASSUME NEW a \in 1..n
               PROVE  /\ DOMAIN arrays[a] = 1..Len(arrays[a])
                      /\ Distinct(arrays[a])
                      /\ ToSet(arrays[a]) = {s \in free : SupplierType[s] = typ[a]}
    BY DEF ByType
  <2>1. arrays[a] \in Seq(Suppliers)
    BY <1>8
  <2>2. DOMAIN arrays[a] = 1..Len(arrays[a])
    BY <2>1
  <2> QED BY <1>8, <2>2
<1>10. Wheels(arrays, n)
  <2> SUFFICES ASSUME NEW a \in 1..n PROVE Len(arrays[a]) \in Nat \ {0}
    BY <1>4 DEF Wheels
  <2> DEFINE of == arrays[a]
  <2>1. of \in Seq(Suppliers) /\ of # <<>>
    BY <1>8
  <2> HIDE DEF of
  <2>2. Len(of) \in Nat \ {0}
    BY <2>1
  <2> QED BY <2>2 DEF of
<1>11. n # 0
  <2>1. answers \in Seq(Suppliers) /\ 1 \in DOMAIN answers
    BY DEF AnswersOK
  <2>2. SupplierType[answers[1]] \in Represented
    BY <2>1 DEF Represented, ToSet
  <2>3. PICK k \in Asked : TRUE
    BY <2>2, AskedIsRepresented
  <2>4. PICK a \in 1..n : TRUE
    BY <1>5, <2>3
  <2> QED BY <1>4, <2>4
<1>12. IsFiniteSet(free)
  <2> DEFINE m == Len(answers)
  <2>1. m \in Nat /\ DOMAIN answers = 1..m
    BY DEF AnswersOK
  <2>2. IsFiniteSet(1..m)
    <3>1. m \in Int /\ 1 \in Int
      BY <2>1
    <3> QED BY <3>1, FS_Interval
  <2>3. answers \in Surjection(1..m, ToSet(answers))
    <3>1. answers \in [1..m -> ToSet(answers)]
      BY <2>1 DEF AnswersOK, ToSet
    <3> QED BY <2>1, <3>1 DEF Surjection, ToSet
  <2>4. IsFiniteSet(ToSet(answers))
    BY <2>2, <2>3, FS_Surjection
  <2> QED BY <2>4, FS_Subset
<1>13. CreateUniqueSets(PartitionSuppliers(answers), day) = CombineArrays(arrays)
  BY DEF CreateUniqueSets, arrays
<1> HIDE DEF typ, free
<1>14. Lists(CombineArrays(arrays), Odometers(arrays), arrays)
  BY <1>10, <1>11, CombineArraysLists
<1>15. [o \in Odometers(arrays) |-> ToSet(FormCombination(o, arrays))]
          \in Bijection(Odometers(arrays), Teams(free, Represented))
  BY <1>7, <1>9, <1>10, <1>12, SettingsAreTeams
<1>16. /\ {ToSet(CombineArrays(arrays)[k]) : k \in DOMAIN CombineArrays(arrays)}
              = Teams(free, Represented)
       /\ Len(CombineArrays(arrays)) = Cardinality(Teams(free, Represented))
  BY <1>14, <1>15, ListedTeams
<1> QED BY <1>13, <1>16 DEF free

---------------------------------------------------------------------------
(* The invariant is inductive, and implies what the runs check.            *)

LEMMA InitIInv ==
  Init => IInv
<1> SUFFICES ASSUME Init PROVE IInv
  OBVIOUS
<1>1. CalendarOK
  BY DEF Init, CalendarOK
<1>2. AnswersOK
  BY DEF Init, AnswersOK, Distinct
<1> QED BY <1>1, <1>2 DEF Init, IInv, JobOK, SelectionOK

\* What is calculated from the job, the calendars and the answers changes with them only.
LEMMA CalculationsStay ==
  ASSUME UNCHANGED <<job, calendar, answers>>
  PROVE  /\ \A p : FindOverlappingDay(p)' = FindOverlappingDay(p)
         /\ \A p, d : CreateUniqueSets(p, d)' = CreateUniqueSets(p, d)
<1>1. \A p : FindOverlappingDay(p)' = FindOverlappingDay(p)
  BY DEF FindOverlappingDay, DayReducer, OverlapOn, Availability
<1>2. \A p, d : CreateUniqueSets(p, d)' = CreateUniqueSets(p, d)
  BY DEF CreateUniqueSets, OverlapOn, Availability
<1> QED BY <1>1, <1>2

LEMMA NextIInv ==
  IInv /\ [Next]_vars => IInv'
<1> SUFFICES ASSUME IInv, [Next]_vars PROVE IInv'
  OBVIOUS
<1> USE DEF IInv
<1>1. CASE Retrieve
  <2>1. CalendarOK' /\ AnswersOK'
    BY <1>1 DEF Retrieve, CalendarOK, AnswersOK
  <2>2. PICK files \in Schedules :
           LET jobs == RetrieveJobs(files, "HIGH") IN
           IF jobs = <<>> THEN stage' = "refused" /\ UNCHANGED job
           ELSE stage' = "asking" /\ job' = Head(jobs)
    BY <1>1 DEF Retrieve
  <2> DEFINE jobs == RetrieveJobs(files, "HIGH")
  <2>3. jobs \in Seq(Jobs)
    BY RetrieveJobsOK
  <2> HIDE DEF jobs
  <2>4. (jobs = <<>> /\ stage' = "refused") \/ (jobs # <<>> /\ stage' = "asking" /\ job' = Head(jobs))
    BY <2>2 DEF jobs
  <2>5. JobOK' /\ SelectionOK'
    BY <2>3, <2>4 DEF JobOK, SelectionOK
  <2> QED BY <2>1, <2>5
<1>2. ASSUME NEW s \in Suppliers, Answer(s) PROVE IInv'
  <2>1. CalendarOK' /\ JobOK' /\ SelectionOK'
    BY <1>2 DEF Answer, CalendarOK, JobOK, SelectionOK
  <2>2. AnswersOK'
    <3> DEFINE n == Len(answers)
    <3>1. answers \in Seq(Suppliers) /\ n \in Nat /\ DOMAIN answers = 1..n
      BY DEF AnswersOK
    <3>2. answers' = Append(answers, s) /\ \A i \in 1..n : answers[i] # s
      BY <1>2, <3>1 DEF Answer, ToSet
    <3> HIDE DEF n
    <3>3. /\ answers' \in Seq(Suppliers) /\ DOMAIN answers' = 1..(n + 1)
          /\ answers'[n + 1] = s /\ \A i \in 1..n : answers'[i] = answers[i]
      BY <3>1, <3>2 DEF n
    <3>4. \A i \in 1..(n + 1) : i \in 1..n \/ i = n + 1
      BY <3>1
    <3>5. Distinct(answers)
      BY DEF AnswersOK
    <3>6. \A i, j \in 1..(n + 1) : answers'[i] = answers'[j] => i = j
      BY <3>1, <3>2, <3>3, <3>4, <3>5 DEF Distinct
    <3> QED BY <3>3, <3>6 DEF AnswersOK, Distinct
  <2> QED BY <2>1, <2>2
<1>3. CASE Start
  <2>1. CalendarOK' /\ AnswersOK' /\ JobOK'
    BY <1>3 DEF Start, CalendarOK, AnswersOK, JobOK
  <2>2. SelectionOK'
    <3> SUFFICES ASSUME stage' = "selected"
                 PROVE  /\ answers # <<>> /\ TypesKnown
                        /\ LET partition == PartitionSuppliers(answers)
                               day == FindOverlappingDay(partition)
                               sets == CreateUniqueSets(partition, day)
                           IN  selection' = [day |-> day, sets |-> sets,
                                             chosen |-> FormatUniqueSets(sets, job.reqs)]
      <4>1. UNCHANGED <<job, calendar, answers>>
        BY <1>3 DEF Start
      <4> QED BY <4>1, CalculationsStay DEF SelectionOK, TypesKnown
    <3>1. answers # <<>> /\ job.code \in Expanded /\ JobCanBeStarted(job, ToSet(answers))
      BY <1>3 DEF Start
    <3>2. TypesKnown
      <4>1. ReqExpander(job.code) \subseteq {"TECHNICIAN", "SPARE", "PORT"}
        BY <3>1 DEF Expanded, ReqExpander
      <4>2. {"TECHNICIAN", "SPARE", "PORT"} \subseteq ToSet(Categories)
        <5>1. /\ Categories[1] = "PORT" /\ Categories[2] = "SPARE"
              /\ Categories[3] = "TECHNICIAN" /\ DOMAIN Categories = 1..4
          BY DEF Categories
        <5> QED BY <5>1 DEF ToSet
      <4> QED BY <3>1, <4>1, <4>2 DEF JobCanBeStarted, TypesKnown
    <3> QED BY <1>3, <3>1, <3>2 DEF Start
  <2> QED BY <2>1, <2>2
<1>4. CASE UNCHANGED vars
  <2>1. UNCHANGED <<stage, job, calendar, answers, selection>>
    BY <1>4 DEF vars
  <2>2. CalendarOK' /\ AnswersOK' /\ JobOK'
    BY <2>1 DEF CalendarOK, AnswersOK, JobOK
  <2>3. SelectionOK'
    <3>1. UNCHANGED <<job, calendar, answers>> /\ stage' = stage /\ selection' = selection
      BY <2>1
    <3> QED BY <3>1, CalculationsStay DEF SelectionOK, TypesKnown
  <2> QED BY <2>2, <2>3
<1> QED BY <1>1, <1>2, <1>3, <1>4 DEF Next

LEMMA SpecIInv ==
  Spec => []IInv
<1>1. Init => IInv
  BY InitIInv
<1>2. IInv /\ [Next]_vars => IInv'
  BY NextIInv
<1> QED BY <1>1, <1>2, PTL DEF Spec

\* suitabilityFinder offers, for whatever job is asked about and whatever calendar, the
\* days on which the whole task can be done before the last day of the window and of the
\* calendar, and no other.
THEOREM OfferedDaysAlwaysWorkable == Spec => []OfferedDaysAreWorkable
<1>1. IInv => OfferedDaysAreWorkable
  <2> SUFFICES ASSUME IInv, stage = "asking", NEW free \in [1..Days -> BOOLEAN]
               PROVE  SuitabilityFinder(free, job.tw, job.reqs.taskLength) =
                        {day \in 1..Days : /\ Workable(free, day)
                                           /\ day + job.reqs.taskLength - 1 < job.tw[2]
                                           /\ day + job.reqs.taskLength - 1 < Days}
    BY DEF OfferedDaysAreWorkable
  <2> DEFINE len == job.reqs.taskLength
             tw == job.tw
             offered == SuitabilityFinder(free, tw, len)
  <2>1. len \in Nat \ {0} /\ tw \in Int \X Int
    BY DEF IInv, JobOK, Jobs
  <2>2. offered \subseteq 1..Days
    BY DEF SuitabilityFinder
  <2>3. \A day : Workable(free, day) <=>
           /\ day >= tw[1] /\ day + len - 1 <= Days /\ day + len - 1 <= tw[2]
           /\ \A d \in day..(day + len - 1) : free[d]
    BY DEF Workable
  <2> HIDE DEF offered, len, tw
  <2>4. ASSUME NEW day \in 1..Days
        PROVE  day \in offered <=>
                 Workable(free, day) /\ day + len - 1 < tw[2] /\ day + len - 1 < Days
    <3>1. day \in offered <=>
             /\ day >= tw[1] /\ day + len - 1 < tw[2] /\ day + len - 1 < Days
             /\ \A d \in day..(day + len - 1) : free[d]
      BY <2>1, SuitableDays DEF offered
    <3>2. day \in Int /\ len \in Int /\ Days \in Int /\ tw[1] \in Int /\ tw[2] \in Int
      BY <2>1, DaysAssumption
    <3>3. (day + len - 1 < Days => day + len - 1 <= Days)
          /\ (day + len - 1 < tw[2] => day + len - 1 <= tw[2])
      BY <3>2
    <3> QED BY <2>3, <3>1, <3>3
  <2>5. offered = {day \in 1..Days : Workable(free, day) /\ day + len - 1 < tw[2]
                                                        /\ day + len - 1 < Days}
    BY <2>2, <2>4
  <2> QED BY <2>5 DEF offered, len, tw
<1> QED BY <1>1, SpecIInv, PTL

\* Whatever order the answers come in, findOverlappingDay and dayReducer select the
\* earliest day that every category that answered shares, and nothing without one.
THEOREM SelectedDayIsEarliest == Spec => []EarliestSharedDay
<1>1. IInv => EarliestSharedDay
  <2> SUFFICES ASSUME IInv, stage = "selected" PROVE EarliestSharedDay
    BY DEF EarliestSharedDay
  <2> DEFINE P == PartitionSuppliers(answers)
             day == FindOverlappingDay(P)
             sets == CreateUniqueSets(P, day)
             shared == {d \in 1..Days : Shared(d)}
  <2>1. /\ AnswersOK /\ TypesKnown /\ answers # <<>>
        /\ selection = [day |-> day, sets |-> sets, chosen |-> FormatUniqueSets(sets, job.reqs)]
    BY DEF IInv, SelectionOK
  <2>2. day = IF shared = {} THEN 0 ELSE Min(shared)
    BY <2>1, FoundDayIsEarliest
  <2> HIDE DEF day, sets
  <2>3. CASE shared = {}
    <3>1. day = 0
      BY <2>2, <2>3
    <3>2. sets = <<>>
      BY <3>1 DEF sets, CreateUniqueSets
    <3>3. selection = NoSelection
      BY <2>1, <3>1, <3>2 DEF FormatUniqueSets, NoSelection
    <3> QED BY <2>3, <3>3 DEF EarliestSharedDay
  <2>4. CASE shared # {}
    <3>1. selection.day = Min(shared)
      BY <2>1, <2>2, <2>4
    <3> QED BY <2>4, <3>1 DEF EarliestSharedDay
  <2> QED BY <2>3, <2>4
<1> QED BY <1>1, SpecIInv, PTL

\* The loop of combineArrays, whatever the number of categories and of suppliers, gives
\* every way to take one free supplier of each category that answered, each once.
THEOREM SetsAlwaysTeams == Spec => []SetsAreThePossibleTeams
<1>1. IInv => SetsAreThePossibleTeams
  <2> SUFFICES ASSUME IInv, stage = "selected", selection.day # 0
               PROVE  SetsAreThePossibleTeams
    BY DEF SetsAreThePossibleTeams
  <2> DEFINE P == PartitionSuppliers(answers)
             day == FindOverlappingDay(P)
             sets == CreateUniqueSets(P, day)
             shared == {d \in 1..Days : Shared(d)}
             free == {s \in ToSet(answers) : day \in Availability(s)}
  <2>1. /\ AnswersOK /\ TypesKnown /\ answers # <<>>
        /\ selection = [day |-> day, sets |-> sets, chosen |-> FormatUniqueSets(sets, job.reqs)]
    BY DEF IInv, SelectionOK
  <2>2. selection.day = day /\ selection.sets = sets
    BY <2>1
  <2>3. day # 0 /\ Shared(day)
    <3>1. day = IF shared = {} THEN 0 ELSE Min(shared)
      BY <2>1, FoundDayIsEarliest
    <3>2. day # 0
      BY <2>2
    <3> HIDE DEF day
    <3>3. shared # {} /\ day = Min(shared)
      BY <3>1, <3>2
    <3>4. shared \in SUBSET Nat
      BY DaysAssumption
    <3>5. Min(shared) \in shared
      <4> HIDE DEF shared
      <4> QED BY <3>3, <3>4, MinIsLeast
    <3> QED BY <3>2, <3>3, <3>5
  <2>4. /\ {ToSet(sets[k]) : k \in DOMAIN sets} = Teams(free, Represented)
        /\ Len(sets) = Cardinality(Teams(free, Represented))
    <3> HIDE DEF day
    <3> QED BY <2>1, <2>3, SharedDayTeams
  <2> HIDE DEF day, sets
  <2> QED BY <2>2, <2>4 DEF SetsAreThePossibleTeams, Teams
<1> QED BY <1>1, SpecIInv, PTL
=============================================================================
