------------------------------ MODULE Induction ------------------------------
(***************************************************************************)
(* Induction over the naturals in terms of sets: what has a property of    *)
(* every number is a set that holds 0 and all successors (SetInduction).   *)
(* It rests on the fact that strict inclusion of finite sets is well-      *)
(* founded.  From it comes what the proofs of the components need of       *)
(* definitions that recurse over a sequence: totals that are added to and  *)
(* joined (Total...), sequences of sequences that are flattened            *)
(* (Flatten...), and the orders of a finite set (Ordered).                 *)
(***************************************************************************)
EXTENDS Totals, SequencesExt, FiniteSetTheorems, SequenceTheorems, TLAPS

(* A set of naturals that is not empty has a least element.                *)
LEMMA Least ==
    ASSUME NEW S, S \subseteq Nat, S # {}
    PROVE  \E m \in S : \A k \in S : m <= k
  <1> DEFINE Upto == {1 .. n : n \in S}
  <1>1. Upto \subseteq FiniteSubsetsOf(Nat)
    <2>1. ASSUME NEW n \in S
          PROVE  1 .. n \in FiniteSubsetsOf(Nat)
      BY <2>1, FS_Interval DEF FiniteSubsetsOf
    <2>2. QED
      BY <2>1
  <1>2. PICK m \in S : \A y \in Upto : <<y, 1 .. m>> \notin StrictSubsetOrdering(Nat)
    <2>1. IsWellFoundedOn(StrictSubsetOrdering(Nat), FiniteSubsetsOf(Nat))
      BY FS_StrictSubsetOrderingWellFounded
    <2>2. Upto # {}
      OBVIOUS
    <2>3. \E x \in Upto : \A y \in Upto : <<y, x>> \notin StrictSubsetOrdering(Nat)
      <3> HIDE DEF Upto
      <3> QED
        BY <1>1, <2>1, <2>2, WFMin
    <2>4. QED
      BY <2>3
  <1>3. ASSUME NEW k \in S, k < m
        PROVE  FALSE
    <2>1. 1 .. k \subseteq 1 .. m /\ m \in 1 .. m /\ m \notin 1 .. k
      BY <1>3
    <2>2. 1 .. k \in SUBSET Nat /\ 1 .. m \in SUBSET Nat
      OBVIOUS
    <2>3. <<1 .. k, 1 .. m>> \in StrictSubsetOrdering(Nat)
      BY <2>1, <2>2 DEF StrictSubsetOrdering
    <2>4. QED
      BY <1>2, <2>3
  <1>4. QED
    BY <1>3

(* Induction: a set that holds 0 and with n its successor holds them all.  *)
THEOREM SetInduction ==
    ASSUME NEW S, 0 \in S, \A n \in Nat : n \in S => n + 1 \in S
    PROVE  \A n \in Nat : n \in S
  <1> SUFFICES ASSUME Nat \ S # {}
               PROVE  FALSE
    OBVIOUS
  <1>1. PICK m \in Nat \ S : \A k \in Nat \ S : m <= k
    BY Least
  <1>2. m # 0 /\ m - 1 \in Nat /\ m - 1 \in S
    BY <1>1
  <1>3. QED
    BY <1>1, <1>2

-----------------------------------------------------------------------------
(* Totals.                                                                 *)

(* The recursion of Total has a solution, and Total is its last value.     *)
Sums(g, c) ==
    /\ g[0] = 0
    /\ \A k \in 1 .. Len(c) : g[k] = g[k - 1] + c[k]
    /\ Total(c) = g[Len(c)]

LEMMA TotalUnfolds == ASSUME NEW c, Len(c) \in Nat PROVE \E g : Sums(g, c)
  <1> DEFINE Solves(g, n) == g = [k \in 0 .. n |-> IF k = 0 THEN 0 ELSE g[k - 1] + c[k]]
             S == {n \in Nat : \E g : Solves(g, n)}
  <1>1. 0 \in S
    <2>1. Solves([k \in 0 .. 0 |-> 0], 0)
      OBVIOUS
    <2>2. QED
      BY <2>1
  <1>2. ASSUME NEW n \in Nat, n \in S
        PROVE  n + 1 \in S
    <2>1. PICK g : Solves(g, n)
      BY <1>2
    <2>2. Solves([k \in 0 .. n + 1 |-> IF k <= n THEN g[k] ELSE g[n] + c[n + 1]], n + 1)
      BY <2>1
    <2> HIDE DEF Solves
    <2>3. QED
      BY <2>2
  <1>3. \A n \in Nat : n \in S
    <2> HIDE DEF S
    <2> QED
      BY <1>1, <1>2, SetInduction
  <1> DEFINE s == CHOOSE g : Solves(g, Len(c))
  <1>4. Solves(s, Len(c))
    <2>1. \E g : Solves(g, Len(c))
      BY <1>3
    <2>2. QED
      BY <2>1
  <1>5. Total(c) = s[Len(c)]
    BY DEF Total
  <1> HIDE DEF s
  <1>6. Sums(s, c)
    BY <1>4, <1>5 DEF Sums
  <1>7. QED
    BY <1>6

LEMMA SumsType ==
    ASSUME NEW c \in Seq(Nat), NEW g, Sums(g, c), NEW k \in 0 .. Len(c)
    PROVE  g[k] \in Nat
  <1> DEFINE S == {n \in Nat : n <= Len(c) => g[n] \in Nat}
  <1>1. 0 \in S
    BY DEF Sums
  <1>2. ASSUME NEW n \in Nat, n \in S
        PROVE  n + 1 \in S
    <2> SUFFICES ASSUME n + 1 <= Len(c)
                 PROVE  g[n + 1] \in Nat
      OBVIOUS
    <2>1. g[n] \in Nat /\ c[n + 1] \in Nat
      BY <1>2
    <2>2. g[n + 1] = g[n] + c[n + 1]
      BY DEF Sums
    <2>3. QED
      BY <2>1, <2>2
  <1>3. \A n \in Nat : n \in S
    <2> HIDE DEF S
    <2> QED
      BY <1>1, <1>2, SetInduction
  <1>4. QED
    BY <1>3

LEMMA TotalType == ASSUME NEW c \in Seq(Nat) PROVE Total(c) \in Nat
  <1>1. PICK g : Sums(g, c)
    BY TotalUnfolds
  <1>2. g[Len(c)] \in Nat
    BY <1>1, SumsType
  <1>3. QED
    BY <1>1, <1>2 DEF Sums

(* The total of no count is zero.                                          *)
LEMMA TotalOfNone == ASSUME NEW c, Len(c) = 0 PROVE Total(c) = 0
  BY TotalUnfolds DEF Sums

(* Counts that start alike have the same partial sums.                     *)
Alike(c, d, n) ==
    n \in Nat /\ n <= Len(c) /\ n <= Len(d) /\ \A k \in 1 .. n : c[k] = d[k]

LEMMA SamePrefix ==
    ASSUME NEW c \in Seq(Nat), NEW d \in Seq(Nat), NEW n, Alike(c, d, n),
           NEW g, Sums(g, c), NEW h, Sums(h, d)
    PROVE  g[n] = h[n]
  <1> DEFINE S == {k \in Nat : k <= n => g[k] = h[k]}
  <1>1. 0 \in S
    BY DEF Sums
  <1>2. ASSUME NEW k \in Nat, k \in S
        PROVE  k + 1 \in S
    <2> SUFFICES ASSUME k + 1 <= n
                 PROVE  g[k + 1] = h[k + 1]
      BY DEF Alike
    <2>1. g[k] = h[k] /\ c[k + 1] = d[k + 1]
      BY <1>2 DEF Alike
    <2>2. g[k + 1] = g[k] + c[k + 1] /\ h[k + 1] = h[k] + d[k + 1]
      BY DEF Sums, Alike
    <2>3. QED
      BY <2>1, <2>2
  <1>3. \A k \in Nat : k \in S
    <2> HIDE DEF S
    <2> QED
      BY <1>1, <1>2, SetInduction
  <1>4. QED
    BY <1>3 DEF Alike

(* One more count adds itself.                                             *)
LEMMA TotalOfAppend ==
    ASSUME NEW c \in Seq(Nat), NEW x \in Nat
    PROVE  Total(Append(c, x)) = Total(c) + x
  <1> DEFINE d == Append(c, x)
  <1>1. /\ d \in Seq(Nat) /\ Len(d) = Len(c) + 1 /\ d[Len(c) + 1] = x
        /\ \A k \in 1 .. Len(c) : c[k] = d[k]
    BY AppendProperties
  <1> HIDE DEF d
  <1>2. PICK g : Sums(g, c)
    BY TotalUnfolds
  <1>3. PICK h : Sums(h, d)
    BY <1>1, TotalUnfolds
  <1>4. g[Len(c)] = h[Len(c)]
    <2>1. Alike(c, d, Len(c))
      BY <1>1 DEF Alike
    <2>2. QED
      BY <1>1, <1>2, <1>3, <2>1, SamePrefix
  <1>5. h[Len(c) + 1] = h[Len(c)] + x
    BY <1>1, <1>3 DEF Sums
  <1>6. Total(d) = Total(c) + x
    BY <1>1, <1>2, <1>3, <1>4, <1>5 DEF Sums
  <1>7. QED
    BY <1>6 DEF d

(* Counts that are all zero add nothing to what comes before them.         *)
LEMMA TotalWithZeros ==
    ASSUME NEW c \in Seq(Nat), NEW d \in Seq(Nat), Len(c) <= Len(d),
           \A k \in 1 .. Len(d) : d[k] = IF k <= Len(c) THEN c[k] ELSE 0
    PROVE  Total(d) = Total(c)
  <1>1. PICK g : Sums(g, c)
    BY TotalUnfolds
  <1>2. PICK h : Sums(h, d)
    BY TotalUnfolds
  <1>3. Len(c) \in Nat /\ Len(d) \in Nat /\ Len(c) <= Len(c)
    OBVIOUS
  <1>4. g[Len(c)] = h[Len(c)]
    <2>1. Alike(c, d, Len(c))
      BY <1>3 DEF Alike
    <2>2. QED
      BY <1>1, <1>2, <2>1, SamePrefix
  <1> DEFINE S == {k \in Nat : Len(c) + k <= Len(d) => h[Len(c) + k] = g[Len(c)]}
  <1>5. 0 \in S
    BY <1>4
  <1>6. ASSUME NEW k \in Nat, k \in S
        PROVE  k + 1 \in S
    <2> SUFFICES ASSUME Len(c) + (k + 1) <= Len(d)
                 PROVE  h[Len(c) + (k + 1)] = g[Len(c)]
      OBVIOUS
    <2>1. h[Len(c) + (k + 1)] = h[Len(c) + k] + d[Len(c) + (k + 1)]
      BY <1>3, <1>2 DEF Sums
    <2>2. d[Len(c) + (k + 1)] = 0
      BY <1>3
    <2>3. h[Len(c) + k] = g[Len(c)]
      BY <1>6
    <2>4. g[Len(c)] \in Nat
      BY <1>1, SumsType
    <2>5. QED
      BY <2>1, <2>2, <2>3, <2>4
  <1>7. \A k \in Nat : k \in S
    <2> HIDE DEF S
    <2> QED
      BY <1>5, <1>6, SetInduction
  <1>8. h[Len(d)] = g[Len(c)]
    <2>1. Len(d) - Len(c) \in S
      BY <1>3, <1>7
    <2>2. QED
      BY <1>3, <2>1
  <1>9. QED
    BY <1>1, <1>2, <1>8 DEF Sums

-----------------------------------------------------------------------------
(* Sequences put one after the other.                                      *)

Joins(g, ss, n) ==
    g = [k \in 1 .. n |-> IF k = 1 THEN ss[k] ELSE g[k - 1] \o ss[k]]

LEMMA JoinsAt ==
    ASSUME NEW g, NEW ss, NEW n \in Nat, Joins(g, ss, n), NEW k \in 1 .. n
    PROVE  g[k] = IF k = 1 THEN ss[k] ELSE g[k - 1] \o ss[k]
  <1> DEFINE body == [j \in 1 .. n |-> IF j = 1 THEN ss[j] ELSE g[j - 1] \o ss[j]]
  <1>1. body[k] = IF k = 1 THEN ss[k] ELSE g[k - 1] \o ss[k]
    OBVIOUS
  <1>2. g = body
    BY DEF Joins
  <1> HIDE DEF body
  <1>3. g[k] = body[k]
    BY <1>2
  <1>4. QED
    BY <1>1, <1>3

LEMMA JoinsExist == ASSUME NEW ss PROVE \A n \in Nat : \E g : Joins(g, ss, n)
  <1> DEFINE S == {n \in Nat : \E g : Joins(g, ss, n)}
  <1>1. 0 \in S
    <2>1. Joins([k \in 1 .. 0 |-> <<>>], ss, 0)
      BY DEF Joins
    <2>2. QED
      BY <2>1
  <1>2. ASSUME NEW n \in Nat, n \in S
        PROVE  n + 1 \in S
    <2>1. PICK g : Joins(g, ss, n)
      BY <1>2
    <2> DEFINE more == IF n = 0 THEN ss[n + 1] ELSE g[n] \o ss[n + 1]
               h == [k \in 1 .. n + 1 |-> IF k <= n THEN g[k] ELSE more]
    <2>2. ASSUME NEW k \in 1 .. n + 1
          PROVE  h[k] = IF k = 1 THEN ss[k] ELSE h[k - 1] \o ss[k]
      <3>1. CASE k <= n
        <4>1. h[k] = g[k] /\ (k # 1 => h[k - 1] = g[k - 1])
          BY <3>1
        <4>2. g[k] = IF k = 1 THEN ss[k] ELSE g[k - 1] \o ss[k]
          <5>1. k \in 1 .. n
            BY <3>1
          <5> HIDE DEF h, more, S
          <5>2. QED
            BY <2>1, <5>1, JoinsAt
        <4> HIDE DEF h
        <4>3. QED
          BY <4>1, <4>2
      <3>2. CASE k = n + 1
        <4> HIDE DEF more
        <4>1. h[k] = more /\ (n # 0 => h[k - 1] = g[n]) /\ (k = 1 <=> n = 0)
          BY <3>2
        <4> HIDE DEF h
        <4>2. QED
          BY <3>2, <4>1 DEF more
      <3>3. QED
        BY <3>1, <3>2
    <2>3. Joins(h, ss, n + 1)
      <3>1. h = [k \in 1 .. n + 1 |-> h[k]]
        OBVIOUS
      <3> HIDE DEF h
      <3>2. QED
        BY <2>2, <3>1 DEF Joins
    <2> HIDE DEF h
    <2>4. QED
      BY <2>3
  <1>3. \A n \in Nat : n \in S
    <2> HIDE DEF S
    <2> QED
      BY <1>1, <1>2, SetInduction
  <1>4. QED
    BY <1>3

LEMMA JoinedSet ==
    ASSUME NEW T, NEW s \in Seq(T), NEW t \in Seq(T)
    PROVE  s \o t \in Seq(T) /\ ToSet(s \o t) = ToSet(s) \cup ToSet(t)
  <1>1. /\ s \o t \in Seq(T) /\ Len(s \o t) = Len(s) + Len(t)
        /\ Len(s) \in Nat /\ Len(t) \in Nat
        /\ \A k \in 1 .. Len(s) : (s \o t)[k] = s[k]
        /\ \A k \in 1 .. Len(t) : (s \o t)[Len(s) + k] = t[k]
    OBVIOUS
  <1>2. ASSUME NEW k \in 1 .. Len(s) + Len(t)
        PROVE  k \in 1 .. Len(s) \/ \E j \in 1 .. Len(t) : k = Len(s) + j
    <2>1. k \in 1 .. Len(s) \/ (k - Len(s) \in 1 .. Len(t) /\ k = Len(s) + (k - Len(s)))
      BY <1>1
    <2>2. QED
      BY <2>1
  <1>3. /\ DOMAIN s = 1 .. Len(s) /\ DOMAIN t = 1 .. Len(t)
        /\ DOMAIN (s \o t) = 1 .. Len(s) + Len(t)
    BY <1>1
  <1>4. /\ \A k \in 1 .. Len(s) : k \in 1 .. Len(s) + Len(t)
        /\ \A k \in 1 .. Len(t) : Len(s) + k \in 1 .. Len(s) + Len(t)
    BY <1>1
  <1> DEFINE both == s \o t
  <1> HIDE DEF both
  <1>5. ToSet(both) = ToSet(s) \cup ToSet(t)
    <2>1. ASSUME NEW y \in ToSet(both)
          PROVE  y \in ToSet(s) \cup ToSet(t)
      <3>1. PICK k \in 1 .. Len(s) + Len(t) : y = both[k]
        BY <1>3 DEF ToSet, both
      <3>2. QED
        BY <1>1, <1>2, <1>3, <3>1 DEF ToSet, both
    <2>2. ASSUME NEW y \in ToSet(s)
          PROVE  y \in ToSet(both)
      BY <1>1, <1>3, <1>4 DEF ToSet, both
    <2>3. ASSUME NEW y \in ToSet(t)
          PROVE  y \in ToSet(both)
      BY <1>1, <1>3, <1>4 DEF ToSet, both
    <2>4. QED
      BY <2>1, <2>2, <2>3
  <1>6. QED
    BY <1>1, <1>5 DEF both

LEMMA FlattenUnfolds ==
    ASSUME NEW ss, Len(ss) \in Nat, Len(ss) # 0
    PROVE  \E g : Joins(g, ss, Len(ss)) /\ FlattenSeq(ss) = g[Len(ss)]
  <1> DEFINE s == CHOOSE g : Joins(g, ss, Len(ss))
  <1>1. Joins(s, ss, Len(ss))
    BY JoinsExist
  <1>2. FlattenSeq(ss) = s[Len(ss)]
    BY DEF FlattenSeq, Joins
  <1>3. QED
    BY <1>1, <1>2

(* What is in it is what is in any of them.                                *)
THEOREM Flattened ==
    ASSUME NEW T, NEW ss \in Seq(Seq(T))
    PROVE  /\ FlattenSeq(ss) \in Seq(T)
           /\ ToSet(FlattenSeq(ss)) = UNION {ToSet(ss[n]) : n \in 1 .. Len(ss)}
  <1>1. CASE Len(ss) = 0
    <2>1. ss = <<>> /\ FlattenSeq(ss) = <<>>
      BY <1>1 DEF FlattenSeq
    <2>2. <<>> \in Seq(T) /\ ToSet(<<>>) = {} /\ 1 .. 0 = {}
      BY DEF ToSet
    <2>3. UNION {ToSet(ss[n]) : n \in 1 .. Len(ss)} = {}
      BY <1>1, <2>2
    <2>4. QED
      BY <2>1, <2>2, <2>3
  <1>2. CASE Len(ss) # 0
    <2>1. PICK g : Joins(g, ss, Len(ss)) /\ FlattenSeq(ss) = g[Len(ss)]
      BY <1>2, FlattenUnfolds
    <2> DEFINE Holds(n) == g[n] \in Seq(T) /\ ToSet(g[n]) = UNION {ToSet(ss[k]) : k \in 1 .. n}
               S == {n \in Nat : n + 1 <= Len(ss) => Holds(n + 1)}
    <2>2. 0 \in S
      <3>1. g[1] = ss[1] /\ ss[1] \in Seq(T)
        BY <1>2, <2>1 DEF Joins
      <3>2. 1 .. 1 = {1}
        OBVIOUS
      <3>3. Holds(1)
        BY <3>1, <3>2
      <3> HIDE DEF Holds
      <3>4. QED
        BY <3>3
    <2>3. ASSUME NEW n \in Nat, n \in S
          PROVE  n + 1 \in S
      <3> SUFFICES ASSUME (n + 1) + 1 <= Len(ss)
                   PROVE  Holds((n + 1) + 1)
        OBVIOUS
      <3>1. PICK m \in Nat : m = n + 1
        OBVIOUS
      <3>2. Holds(m) /\ m # 0 /\ m + 1 \in 1 .. Len(ss)
        BY <2>3, <3>1
      <3>3. g[m + 1] = g[m] \o ss[m + 1] /\ ss[m + 1] \in Seq(T)
        <4>1. m + 1 # 1 /\ (m + 1) - 1 = m
          BY <3>2
        <4>2. g[m + 1] = IF m + 1 = 1 THEN ss[m + 1] ELSE g[(m + 1) - 1] \o ss[m + 1]
          <5> HIDE DEF Holds, S
          <5>1. Len(ss) \in Nat
            OBVIOUS
          <5>2. QED
            BY <2>1, <3>2, <5>1, JoinsAt
        <4>3. ss[m + 1] \in Seq(T)
          BY <3>2
        <4>4. QED
          BY <4>1, <4>2, <4>3
      <3>4. /\ g[m] \o ss[m + 1] \in Seq(T)
            /\ ToSet(g[m] \o ss[m + 1]) = ToSet(g[m]) \cup ToSet(ss[m + 1])
        BY <3>2, <3>3, JoinedSet
      <3>5. 1 .. m + 1 = (1 .. m) \cup {m + 1}
        OBVIOUS
      <3>6. Holds(m + 1)
        BY <3>2, <3>3, <3>4, <3>5
      <3>7. QED
        BY <3>1, <3>6
    <2>4. \A n \in Nat : n \in S
      <3> HIDE DEF S
      <3> QED
        BY <2>2, <2>3, SetInduction
    <2>5. Holds(Len(ss))
      <3>1. Len(ss) - 1 \in Nat /\ Len(ss) - 1 + 1 = Len(ss) /\ Len(ss) <= Len(ss)
        BY <1>2
      <3>2. Len(ss) - 1 \in S
        <4> HIDE DEF S
        <4> QED
          BY <2>4, <3>1
      <3> HIDE DEF Holds
      <3>3. QED
        BY <3>1, <3>2
    <2>6. QED
      BY <2>1, <2>5
  <1>3. QED
    BY <1>1, <1>2

LEMMA JoinsSteps ==
    ASSUME NEW g, NEW ss, NEW n \in Nat, Joins(g, ss, n)
    PROVE  /\ n # 0 => g[1] = ss[1]
           /\ \A k \in Nat : k # 0 /\ k + 1 <= n => g[k + 1] = g[k] \o ss[k + 1]
  <1>1. \A j \in 1 .. n : g[j] = IF j = 1 THEN ss[j] ELSE g[j - 1] \o ss[j]
    BY JoinsAt
  <1>2. ASSUME n # 0
        PROVE  g[1] = ss[1]
    <2>1. 1 \in 1 .. n
      BY <1>2
    <2>2. QED
      BY <1>1, <2>1
  <1>3. ASSUME NEW k \in Nat, k # 0, k + 1 <= n
        PROVE  g[k + 1] = g[k] \o ss[k + 1]
    <2>1. PICK m \in Nat : m = k + 1
      OBVIOUS
    <2>2. m \in 1 .. n /\ m # 1 /\ m - 1 = k
      BY <1>3, <2>1
    <2>3. g[m] = IF m = 1 THEN ss[m] ELSE g[m - 1] \o ss[m]
      BY <1>1, <2>2
    <2>4. QED
      BY <2>1, <2>2, <2>3
  <1>4. QED
    BY <1>2, <1>3

(* One sequence more, at the end and at the start.                         *)
LEMMA JoinsInSeq ==
    ASSUME NEW T, NEW ss \in Seq(Seq(T)), NEW g, NEW n \in Nat, n = Len(ss), Joins(g, ss, n)
    PROVE  \A k \in 1 .. n : g[k] \in Seq(T)
  <1> DEFINE S == {k \in Nat : k # 0 /\ k <= n => g[k] \in Seq(T)}
  <1>1. \A k \in 1 .. n : ss[k] \in Seq(T)
    OBVIOUS
  <1>2. 0 \in S
    OBVIOUS
  <1>3. ASSUME NEW k \in Nat, k \in S
        PROVE  k + 1 \in S
    <2> SUFFICES ASSUME k + 1 <= n
                 PROVE  g[k + 1] \in Seq(T)
      OBVIOUS
    <2>1. ss[k + 1] \in Seq(T)
      BY <1>1
    <2>2. CASE k = 0
      <3>1. n # 0
        BY <2>2
      <3>2. g[1] = ss[1]
        BY <3>1, JoinsSteps
      <3>3. QED
        BY <2>1, <2>2, <3>2
    <2>3. CASE k # 0
      <3>1. g[k + 1] = g[k] \o ss[k + 1]
        BY <2>3, JoinsSteps
      <3>2. g[k] \in Seq(T)
        BY <1>3, <2>3
      <3>3. QED
        BY <2>1, <3>1, <3>2
    <2>4. QED
      BY <2>2, <2>3
  <1>4. \A k \in Nat : k \in S
    <2> HIDE DEF S
    <2> QED
      BY <1>2, <1>3, SetInduction
  <1>5. QED
    BY <1>4

LEMMA FlattenNone == ASSUME NEW T, NEW ss \in Seq(Seq(T)), Len(ss) = 0 PROVE FlattenSeq(ss) = <<>>
  <1>1. ss = <<>>
    OBVIOUS
  <1>2. QED
    BY <1>1 DEF FlattenSeq

THEOREM FlattenLast ==
    ASSUME NEW T, NEW ss \in Seq(Seq(T)), NEW tt \in Seq(Seq(T)), Len(tt) = Len(ss) + 1,
           \A k \in 1 .. Len(ss) : tt[k] = ss[k]
    PROVE  FlattenSeq(tt) = FlattenSeq(ss) \o tt[Len(tt)]
  <1>1. PICK n \in Nat : n = Len(ss) /\ Len(tt) = n + 1 /\ n + 1 \in Nat /\ n + 1 # 0
    OBVIOUS
  <1>2. PICK g : Joins(g, tt, n + 1) /\ FlattenSeq(tt) = g[n + 1]
    BY <1>1, FlattenUnfolds
  <1>3. tt[n + 1] \in Seq(T)
    BY <1>1
  <1>4. /\ g[1] = tt[1]
        /\ \A k \in Nat : k # 0 /\ k <= n => g[k + 1] = g[k] \o tt[k + 1]
    <2>1. PICK m \in Nat : m = n + 1 /\ m # 0
      BY <1>1
    <2>2. g[1] = tt[1] /\ \A k \in Nat : k # 0 /\ k + 1 <= m => g[k + 1] = g[k] \o tt[k + 1]
      <3>1. Joins(g, tt, m)
        BY <1>2, <2>1
      <3>2. QED
        BY <2>1, <3>1, JoinsSteps, ZenonT(60)
    <2>3. \A k \in Nat : k <= n => k + 1 <= m
      BY <2>1
    <2>4. QED
      BY <2>2, <2>3
  <1>5. CASE n = 0
    <2>1. FlattenSeq(ss) = <<>>
      BY <1>1, <1>5, FlattenNone
    <2>2. QED
      BY <1>1, <1>2, <1>3, <1>4, <1>5, <2>1
  <1>6. CASE n # 0
    <2>1. PICK h : Joins(h, ss, n) /\ FlattenSeq(ss) = h[n]
      BY <1>1, <1>6, FlattenUnfolds
    <2> DEFINE S == {k \in Nat : k # 0 /\ k <= n => g[k] = h[k]}
    <2>2. 0 \in S
      OBVIOUS
    <2>3. ASSUME NEW k \in Nat, k \in S
          PROVE  k + 1 \in S
      <3> SUFFICES ASSUME k + 1 <= n
                   PROVE  g[k + 1] = h[k + 1]
        OBVIOUS
      <3>1. tt[k + 1] = ss[k + 1]
        BY <1>1
      <3>2. CASE k = 0
        <4>1. h[1] = ss[1]
          BY <1>6, <2>1, JoinsSteps
        <4>2. QED
          BY <1>4, <3>1, <3>2, <4>1
      <3>3. CASE k # 0
        <4>1. h[k + 1] = h[k] \o ss[k + 1]
          BY <2>1, <3>3, JoinsSteps, ZenonT(60)
        <4>2. k <= n
          OBVIOUS
        <4>3. QED
          BY <1>4, <2>3, <3>1, <3>3, <4>1, <4>2
      <3>4. QED
        BY <3>2, <3>3
    <2>4. \A k \in Nat : k \in S
      <3> HIDE DEF S
      <3> QED
        BY <2>2, <2>3, SetInduction
    <2>5. g[n] = h[n] /\ g[n + 1] = g[n] \o tt[n + 1]
      <3>1. n <= n
        OBVIOUS
      <3>2. g[n] = h[n]
        BY <1>6, <2>4, <3>1
      <3> HIDE DEF S
      <3>3. QED
        BY <1>4, <1>6, <3>1, <3>2
    <2>6. QED
      BY <1>1, <1>2, <2>1, <2>5
  <1>7. QED
    BY <1>5, <1>6

THEOREM FlattenFirst ==
    ASSUME NEW T, NEW ss \in Seq(Seq(T)), NEW tt \in Seq(Seq(T)), Len(tt) = Len(ss) + 1,
           \A k \in 1 .. Len(ss) : tt[k + 1] = ss[k]
    PROVE  FlattenSeq(tt) = tt[1] \o FlattenSeq(ss)
  <1>1. PICK n \in Nat : n = Len(ss) /\ Len(tt) = n + 1 /\ n + 1 \in Nat /\ n + 1 # 0
    OBVIOUS
  <1>2. PICK g : Joins(g, tt, n + 1) /\ FlattenSeq(tt) = g[n + 1]
    BY <1>1, FlattenUnfolds
  <1>3. /\ g[1] = tt[1] /\ tt[1] \in Seq(T)
        /\ \A k \in Nat : k # 0 /\ k <= n => g[k + 1] = g[k] \o tt[k + 1]
    <2>1. PICK m \in Nat : m = n + 1 /\ m # 0
      BY <1>1
    <2>2. g[1] = tt[1] /\ \A k \in Nat : k # 0 /\ k + 1 <= m => g[k + 1] = g[k] \o tt[k + 1]
      <3>1. Joins(g, tt, m)
        BY <1>2, <2>1
      <3>2. QED
        BY <2>1, <3>1, JoinsSteps, ZenonT(60)
    <2>3. \A k \in Nat : k <= n => k + 1 <= m
      BY <2>1
    <2>4. tt[1] \in Seq(T)
      <3>1. 1 \in 1 .. Len(tt)
        BY <1>1
      <3>2. QED
        BY <3>1
    <2>5. QED
      BY <2>2, <2>3, <2>4
  <1>4. CASE n = 0
    <2>1. FlattenSeq(ss) = <<>>
      BY <1>1, <1>4, FlattenNone
    <2>2. FlattenSeq(tt) = tt[1]
      BY <1>2, <1>3, <1>4
    <2>3. QED
      BY <1>3, <2>1, <2>2
  <1>5. CASE n # 0
    <2>1. PICK h : Joins(h, ss, n) /\ FlattenSeq(ss) = h[n]
      BY <1>1, <1>5, FlattenUnfolds
    <2>2. \A k \in 1 .. n : h[k] \in Seq(T) /\ ss[k] \in Seq(T)
      <3>1. \A k \in 1 .. n : ss[k] \in Seq(T)
        BY <1>1
      <3>2. QED
        BY <1>1, <2>1, <3>1, JoinsInSeq
    <2> DEFINE first == tt[1]
               Holds(k) == g[k + 1] = first \o h[k]
               S == {k \in Nat : k # 0 /\ k <= n => Holds(k)}
    <2>3. 0 \in S
      OBVIOUS
    <2>4. ASSUME NEW k \in Nat, k \in S
          PROVE  k + 1 \in S
      <3>1. k # 0 /\ k <= n => Holds(k)
        BY <2>4
      <3>2. PICK m \in Nat : m = k + 1 /\ m # 0
        OBVIOUS
      <3> SUFFICES ASSUME m <= n
                   PROVE  Holds(m)
        <4> HIDE DEF Holds
        <4> QED
          BY <3>2
      <3> HIDE DEF S, first
      <3>3. k <= n /\ m \in 1 .. n
        BY <3>2
      <3>4. g[m + 1] = g[m] \o tt[m + 1] /\ tt[m + 1] = ss[m]
        BY <1>1, <1>3, <3>2, <3>3
      <3>5. CASE k = 0
        <4>1. h[1] = ss[1]
          BY <1>5, <2>1, JoinsSteps
        <4>2. g[1] = first /\ m = 1
          BY <1>3, <3>2, <3>5 DEF first
        <4>3. QED
          BY <3>4, <4>1, <4>2
      <3>6. CASE k # 0
        <4>1. h[k + 1] = h[k] \o ss[k + 1]
          BY <2>1, <3>2, <3>6, JoinsSteps, ZenonT(60)
        <4>2. g[m] = first \o h[k] /\ k \in 1 .. n
          BY <3>1, <3>2, <3>3, <3>6
        <4>3. (first \o h[k]) \o ss[m] = first \o (h[k] \o ss[m])
          <5>1. h[k] \in Seq(T) /\ ss[m] \in Seq(T) /\ first \in Seq(T)
            BY <1>3, <2>2, <3>3, <4>2 DEF first
          <5>2. PICK a \in Seq(T), b \in Seq(T), c \in Seq(T) : a = first /\ b = h[k] /\ c = ss[m]
            BY <5>1
          <5>3. (a \o b) \o c = a \o (b \o c)
            BY ConcatAssociative, SMTT(30)
          <5>4. QED
            BY <5>2, <5>3
        <4>4. QED
          BY <3>2, <3>4, <4>1, <4>2, <4>3
      <3>7. QED
        BY <3>5, <3>6
    <2>5. \A k \in Nat : k \in S
      <3> HIDE DEF S
      <3> QED
        BY <2>3, <2>4, SetInduction
    <2>6. Holds(n)
      <3> HIDE DEF Holds
      <3>1. n <= n
        OBVIOUS
      <3>2. QED
        BY <1>5, <2>5, <3>1
    <2>7. QED
      BY <1>2, <2>1, <2>6
  <1>6. QED
    BY <1>4, <1>5

LEMMA FlattenAppend ==
    ASSUME NEW T, NEW ss \in Seq(Seq(T)), NEW s \in Seq(T)
    PROVE  Append(ss, s) \in Seq(Seq(T)) /\ FlattenSeq(Append(ss, s)) = FlattenSeq(ss) \o s
  <1> DEFINE tt == Append(ss, s)
  <1>1. /\ tt \in Seq(Seq(T)) /\ Len(tt) = Len(ss) + 1 /\ tt[Len(tt)] = s
        /\ \A k \in 1 .. Len(ss) : tt[k] = ss[k]
    OBVIOUS
  <1> HIDE DEF tt
  <1>2. FlattenSeq(tt) = FlattenSeq(ss) \o tt[Len(tt)]
    BY <1>1, FlattenLast
  <1>3. QED
    BY <1>1, <1>2 DEF tt

LEMMA FlattenTail ==
    ASSUME NEW T, NEW ss \in Seq(Seq(T)), ss # <<>>
    PROVE  /\ Head(ss) \in Seq(T) /\ Tail(ss) \in Seq(Seq(T))
           /\ FlattenSeq(ss) = Head(ss) \o FlattenSeq(Tail(ss))
  <1>1. /\ Head(ss) \in Seq(T) /\ Tail(ss) \in Seq(Seq(T)) /\ Len(ss) = Len(Tail(ss)) + 1
        /\ Head(ss) = ss[1] /\ \A k \in 1 .. Len(Tail(ss)) : ss[k + 1] = Tail(ss)[k]
    OBVIOUS
  <1>2. FlattenSeq(ss) = ss[1] \o FlattenSeq(Tail(ss))
    BY <1>1, FlattenFirst
  <1>3. QED
    BY <1>1, <1>2

(* Any order of a finite set runs through all of it.                       *)
THEOREM Ordered ==
    ASSUME NEW S, IsFiniteSet(S), NEW f \in SetToSeqs(S)
    PROVE  f \in Seq(S) /\ DOMAIN f = 1 .. Cardinality(S) /\ ToSet(f) = S
  <1> DEFINE D == 1 .. Cardinality(S)
             R == {f[i] : i \in D}
  <1>1. Cardinality(S) \in Nat
    BY FS_CardinalityType
  <1>2. f \in [D -> S] /\ \A i, j \in D : i # j => f[i] # f[j]
    BY DEF SetToSeqs
  <1>3. IsFiniteSet(D) /\ Cardinality(D) = Cardinality(S)
    BY <1>1, FS_Interval
  <1>4. R \subseteq S /\ f \in [D -> R]
    BY <1>2
  <1> HIDE DEF D
  <1>5. f \in Bijection(D, R)
    BY <1>2, <1>4 DEF Bijection, Injection, Surjection, IsInjective
  <1> HIDE DEF R
  <1>6. Cardinality(R) = Cardinality(D)
    <2>1. ExistsBijection(D, R)
      BY <1>5 DEF ExistsBijection
    <2>2. QED
      BY <1>3, <2>1, FS_Bijection
  <1>7. R = S
    BY <1>3, <1>4, <1>6, FS_Subset
  <1>8. f \in Seq(S) /\ DOMAIN f = D
    BY <1>1, <1>2 DEF D
  <1>9. QED
    BY <1>7, <1>8 DEF ToSet, D, R
=============================================================================
