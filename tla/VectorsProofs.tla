--------------------------- MODULE VectorsProofs ---------------------------
(***************************************************************************)
(* Facts about RetainAt and Retain for sequences of any length.            *)
(*                                                                         *)
(* The provers have no induction over data.  Two facts take its place: a   *)
(* set of naturals that is not empty has a least element, and a recursive  *)
(* function over 0..n exists because the least m without an initial part   *)
(* over 0..m would be the successor of one that has it.                    *)
(***************************************************************************)
EXTENDS Vectors, TLAPS, WellFoundedInduction, NaturalsInduction

\* Every set of naturals that is not empty has a least element.
LEMMA LeastNat ==
    ASSUME NEW S, S \subseteq Nat, S # {}
    PROVE  \E m \in S : \A y \in S : m <= y
<1>1. \E m \in S : \A y \in S : ~(<<y, m>> \in OpToRel(<, Nat))
  BY NatLessThanWellFounded, WFMin, Zenon
<1>2. PICK m \in S : \A y \in S : ~(<<y, m>> \in OpToRel(<, Nat))
  BY <1>1, Zenon
<1>3. ASSUME NEW y \in S PROVE m <= y
  <2>1. ~(<<y, m>> \in OpToRel(<, Nat)) /\ m \in Nat /\ y \in Nat
    BY <1>2
  <2> QED
    BY <2>1 DEF OpToRel
<1> QED
  BY <1>3

\* f is the table of what is kept up to each position, until m.
KeptTo(s, K, m, f) ==
    f = [k \in 0..m |-> IF k = 0 THEN << >>
                        ELSE IF k \in K THEN Append(f[k - 1], s[k]) ELSE f[k - 1]]

\* The table can be extended by one position.
LEMMA KeptOneMore ==
    ASSUME NEW s, NEW K, NEW m \in Nat, m # 0, NEW f, KeptTo(s, K, m - 1, f)
    PROVE  \E g : KeptTo(s, K, m, g)
<1> DEFINE last == IF m \in K THEN Append(f[m - 1], s[m]) ELSE f[m - 1]
           g == [k \in 0..m |-> IF k = m THEN last ELSE f[k]]
           h == [k \in 0..m |-> IF k = 0 THEN << >>
                                ELSE IF k \in K THEN Append(g[k - 1], s[k]) ELSE g[k - 1]]
<1>1. ASSUME NEW k \in 0..(m - 1)
      PROVE  f[k] = IF k = 0 THEN << >>
                    ELSE IF k \in K THEN Append(f[k - 1], s[k]) ELSE f[k - 1]
  <2>1. f = [i \in 0..(m - 1) |-> IF i = 0 THEN << >>
                ELSE IF i \in K THEN Append(f[i - 1], s[i]) ELSE f[i - 1]]
    BY DEF KeptTo
  <2> QED
    BY <2>1
<1>2. ASSUME NEW k \in 0..m PROVE g[k] = h[k]
  <2>1. CASE k = m
    <3>1. g[m - 1] = f[m - 1]
      OBVIOUS
    <3> QED
      BY <2>1, <3>1
  <2>2. CASE k # m
    <3>1. k \in 0..(m - 1)
      BY <2>2
    <3>2. k # 0 => k - 1 \in 0..m /\ k - 1 # m
      BY <3>1
    <3>3. k # 0 => g[k - 1] = f[k - 1]
      BY <3>2
    <3> QED
      BY <1>1, <2>2, <3>1, <3>3
  <2> QED
    BY <2>1, <2>2
<1>3. g = h
  <2> HIDE DEF last
  <2>1. g = [k \in 0..m |-> g[k]] /\ h = [k \in 0..m |-> h[k]]
    OBVIOUS
  <2> HIDE DEF g, h
  <2> QED
    BY <1>2, <2>1
<1>4. KeptTo(s, K, m, g)
  BY <1>3 DEF KeptTo
<1> QED
  BY <1>4

\* The recursive function of RetainAt exists, and RetainAt is its last value.
LEMMA RetainAtDefined ==
    ASSUME NEW s, NEW K, Len(s) \in Nat
    PROVE  \E f : KeptTo(s, K, Len(s), f) /\ RetainAt(s, K) = f[Len(s)]
<1> DEFINE bad == {m \in 0..Len(s) : ~\E f : KeptTo(s, K, m, f)}
<1>1. bad = {}
  <2> SUFFICES ASSUME bad # {} PROVE FALSE
    OBVIOUS
  <2>0. bad \subseteq Nat
    OBVIOUS
  <2>1. PICK m \in bad : \A y \in bad : m <= y
    <3> HIDE DEF bad
    <3> QED
      BY <2>0, LeastNat
  <2>2. m \in 0..Len(s) /\ ~\E f : KeptTo(s, K, m, f)
    BY <2>1
  <2>3. CASE m = 0
    <3>1. KeptTo(s, K, 0, [k \in 0..0 |-> << >>])
      BY DEF KeptTo
    <3> QED
      BY <3>1, <2>2, <2>3
  <2>4. CASE m # 0
    <3>1. m - 1 \in 0..Len(s) /\ m \in Nat /\ ~(m <= m - 1)
      BY <2>2, <2>4
    <3>2. m - 1 \notin bad
      BY <2>1, <3>1
    <3>3. PICK f : KeptTo(s, K, m - 1, f)
      BY <3>1, <3>2
    <3>4. \E g : KeptTo(s, K, m, g)
      BY <2>4, <3>1, <3>3, KeptOneMore
    <3> QED
      BY <2>2, <3>4
  <2> QED
    BY <2>3, <2>4
<1>2. PICK f : KeptTo(s, K, Len(s), f)
  BY <1>1
<1>3. KeptTo(s, K, Len(s), CHOOSE f0 : KeptTo(s, K, Len(s), f0))
  BY <1>2
<1> QED
  BY <1>3 DEF RetainAt, KeptTo

\* What is kept of a sequence over V is a sequence over V.
LEMMA RetainAtType ==
    ASSUME NEW V, NEW s \in Seq(V), NEW K
    PROVE  RetainAt(s, K) \in Seq(V)
<1>0. Len(s) \in Nat
  OBVIOUS
<1>1. PICK f : KeptTo(s, K, Len(s), f) /\ RetainAt(s, K) = f[Len(s)]
  BY <1>0, RetainAtDefined
<1>2. \A k \in 0..Len(s) : f[k] = IF k = 0 THEN << >>
                                  ELSE IF k \in K THEN Append(f[k - 1], s[k]) ELSE f[k - 1]
  <2>1. f = [k \in 0..Len(s) |-> IF k = 0 THEN << >>
                ELSE IF k \in K THEN Append(f[k - 1], s[k]) ELSE f[k - 1]]
    BY <1>1 DEF KeptTo
  <2> QED
    BY <2>1
<1> DEFINE bad == {k \in 0..Len(s) : f[k] \notin Seq(V)}
<1>3. bad = {}
  <2> SUFFICES ASSUME bad # {} PROVE FALSE
    OBVIOUS
  <2>1. PICK m \in bad : \A y \in bad : m <= y
    <3>1. bad \subseteq Nat
      OBVIOUS
    <3> HIDE DEF bad
    <3> QED
      BY <3>1, LeastNat
  <2>2. m \in 0..Len(s) /\ f[m] \notin Seq(V)
    BY <2>1
  <2>3. m # 0
    <3>1. 0 \in 0..Len(s)
      BY <1>0
    <3>2. f[0] = << >>
      BY <1>2, <3>1
    <3>3. f[0] \in Seq(V)
      BY <3>2
    <3> QED
      BY <2>2, <3>3
  <2>4. m - 1 \in 0..Len(s) /\ ~(m <= m - 1) /\ m \in 1..Len(s)
    BY <2>2, <2>3
  <2>5. f[m - 1] \in Seq(V)
    BY <2>1, <2>4
  <2>6. s[m] \in V
    BY <2>4
  <2>7. Append(f[m - 1], s[m]) \in Seq(V)
    BY <2>5, <2>6
  <2> QED
    BY <1>2, <2>2, <2>3, <2>5, <2>7
<1>4. Len(s) \in 0..Len(s)
  BY <1>0
<1> QED
  BY <1>1, <1>3, <1>4

\* Nothing is kept of nothing.
LEMMA RetainAtNothing == \A K : RetainAt(<< >>, K) = << >>
<1> TAKE K
<1>1. Len(<< >>) = 0
  OBVIOUS
<1>2. PICK f : KeptTo(<< >>, K, 0, f) /\ RetainAt(<< >>, K) = f[0]
  BY <1>1, RetainAtDefined
<1>3. f[0] = << >>
  <2>1. f = [k \in 0..0 |-> IF k = 0 THEN << >>
                ELSE IF k \in K THEN Append(f[k - 1], << >>[k]) ELSE f[k - 1]]
    BY <1>2 DEF KeptTo
  <2> QED
    BY <2>1
<1> QED
  BY <1>2, <1>3

\* The elements of r are those of s at the positions of K.
TakesAt(r, s, K) ==
    \A x : (\E k \in DOMAIN r : r[k] = x) <=> \E i \in DOMAIN s : i \in K /\ s[i] = x

\* The elements that are kept are those at the positions of K.
LEMMA RetainAtElements ==
    ASSUME NEW V, NEW s \in Seq(V), NEW K
    PROVE  TakesAt(RetainAt(s, K), s, K)
<1>0. Len(s) \in Nat /\ DOMAIN s = 1..Len(s)
  OBVIOUS
<1>1. PICK f : KeptTo(s, K, Len(s), f) /\ RetainAt(s, K) = f[Len(s)]
  BY <1>0, RetainAtDefined
<1>2. \A k \in 0..Len(s) : f[k] = IF k = 0 THEN << >>
                                  ELSE IF k \in K THEN Append(f[k - 1], s[k]) ELSE f[k - 1]
  <2>1. f = [k \in 0..Len(s) |-> IF k = 0 THEN << >>
                ELSE IF k \in K THEN Append(f[k - 1], s[k]) ELSE f[k - 1]]
    BY <1>1 DEF KeptTo
  <2> QED
    BY <2>1
<1> DEFINE Good(k) == /\ f[k] \in Seq(V)
                      /\ \A x : (\E j \in DOMAIN f[k] : f[k][j] = x)
                                    <=> \E i \in 1..k : i \in K /\ s[i] = x
           bad == {k \in 0..Len(s) : ~Good(k)}
<1>3. bad = {}
  <2> SUFFICES ASSUME bad # {} PROVE FALSE
    OBVIOUS
  <2>1. PICK m \in bad : \A y \in bad : m <= y
    <3>1. bad \subseteq Nat
      OBVIOUS
    <3> HIDE DEF bad
    <3> QED
      BY <3>1, LeastNat
  <2>2. m \in 0..Len(s) /\ ~Good(m)
    BY <2>1
  <2>3. m # 0
    <3>1. 0 \in 0..Len(s)
      BY <1>0
    <3>2. f[0] = << >>
      BY <1>2, <3>1
    <3>3. Good(0)
      BY <3>2
    <3> QED
      BY <2>2, <3>3
  <2>4. m - 1 \in 0..Len(s) /\ ~(m <= m - 1) /\ m \in 1..Len(s) /\ m \in Nat
    BY <2>2, <2>3
  <2>5. Good(m - 1)
    BY <2>1, <2>4
  <2>6. PICK q : q = f[m - 1]
    OBVIOUS
  <2>7. q \in Seq(V) /\ \A x : (\E j \in DOMAIN q : q[j] = x) <=> \E i \in 1..(m - 1) : i \in K /\ s[i] = x
    BY <2>5, <2>6
  <2>8. s[m] \in V /\ f[m] = IF m \in K THEN Append(q, s[m]) ELSE q
    BY <1>2, <2>3, <2>4, <2>6
  <2>9. 1..m = 1..(m - 1) \cup {m}
    BY <2>4
  <2>10. CASE m \in K
    <3>1. PICK r : r = Append(q, s[m])
      OBVIOUS
    <3>2. /\ r \in Seq(V) /\ DOMAIN q = 1..Len(q) /\ DOMAIN r = 1..(Len(q) + 1) /\ Len(q) \in Nat
          /\ \A j \in 1..Len(q) : r[j] = q[j]
          /\ r[Len(q) + 1] = s[m]
      BY <2>7, <2>8, <3>1
    <3>3. ASSUME NEW x PROVE (\E j \in DOMAIN r : r[j] = x) <=> x = s[m] \/ \E j \in DOMAIN q : q[j] = x
      <4>1. DOMAIN r = DOMAIN q \cup {Len(q) + 1}
        BY <3>2
      <4> QED
        BY <3>2, <4>1
    <3>4. ASSUME NEW x
          PROVE  (\E i \in 1..m : i \in K /\ s[i] = x) <=> x = s[m] \/ \E i \in 1..(m - 1) : i \in K /\ s[i] = x
      BY <2>9, <2>10
    <3>5. f[m] = r
      BY <2>8, <2>10, <3>1
    <3>6. \A x : (\E j \in DOMAIN r : r[j] = x) <=> \E i \in 1..m : i \in K /\ s[i] = x
      BY <2>7, <3>3, <3>4
    <3> QED
      BY <2>2, <3>2, <3>5, <3>6
  <2>11. CASE m \notin K
    <3>1. ASSUME NEW x
          PROVE  (\E i \in 1..m : i \in K /\ s[i] = x) <=> \E i \in 1..(m - 1) : i \in K /\ s[i] = x
      BY <2>9, <2>11
    <3>2. f[m] = q
      BY <2>8, <2>11
    <3> QED
      BY <2>2, <2>7, <3>1, <3>2
  <2> QED
    BY <2>10, <2>11
<1>4. Len(s) \in 0..Len(s)
  BY <1>0
<1>5. Good(Len(s))
  BY <1>3, <1>4
<1>6. PICK r : r = RetainAt(s, K)
  OBVIOUS
<1>7. f[Len(s)] = r
  BY <1>1, <1>6
<1>8. \A x : (\E k \in DOMAIN r : r[k] = x) <=> \E i \in 1..Len(s) : i \in K /\ s[i] = x
  BY <1>5, <1>7
<1> HIDE DEF Good, bad
<1> QED
  BY <1>0, <1>6, <1>8 DEF TakesAt

\* The elements of r are those of s that are in S.
TakesIn(r, s, S) ==
    \A x : (\E k \in DOMAIN r : r[k] = x) <=> x \in S /\ \E i \in DOMAIN s : s[i] = x

\* Retain keeps the elements of the set, and no others.
LEMMA RetainElements ==
    ASSUME NEW V, NEW s \in Seq(V), NEW S
    PROVE  Retain(s, S) \in Seq(V) /\ TakesIn(Retain(s, S), s, S)
<1>1. PICK K : K = {i \in DOMAIN s : s[i] \in S}
  OBVIOUS
<1>2. Retain(s, S) = RetainAt(s, K)
  BY <1>1 DEF Retain
<1>3. Retain(s, S) \in Seq(V)
  BY <1>2, RetainAtType
<1>4. PICK r : r = Retain(s, S)
  OBVIOUS
<1>5. \A x : (\E k \in DOMAIN r : r[k] = x) <=> \E i \in DOMAIN s : i \in K /\ s[i] = x
  <2>1. r = RetainAt(s, K)
    BY <1>2, <1>4
  <2>2. TakesAt(RetainAt(s, K), s, K)
    BY RetainAtElements
  <2> QED
    BY <2>1, <2>2 DEF TakesAt
<1>6. \A x : (\E k \in DOMAIN r : r[k] = x) <=> x \in S /\ \E i \in DOMAIN s : s[i] = x
  BY <1>1, <1>5
<1> QED
  BY <1>3, <1>4, <1>6 DEF TakesIn
=============================================================================
