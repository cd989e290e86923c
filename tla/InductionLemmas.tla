-------------------------- MODULE InductionLemmas ---------------------------
(***************************************************************************)
(* Least and greatest elements of sets of numbers, for the CHOOSE that     *)
(* picks the first or last position of a sequence; and, by the least       *)
(* counterexample, what FlattenSeq returns.                                *)
(***************************************************************************)
EXTENDS Integers, SequencesExt, SequenceTheorems, WellFoundedInduction, TLAPS

LEMMA LeastElement ==
    ASSUME NEW S \in SUBSET Nat, S # {}
    PROVE  \E i \in S : \A j \in S : i <= j
<1>1. PICK i \in S : \A j \in S : ~(<<j, i>> \in OpToRel(<, Nat))
  BY NatLessThanWellFounded, WFMin
<1>2. \A j \in S : ~(j < i)
  BY <1>1 DEF OpToRel
<1>3. QED
  BY <1>2

LEMMA GreatestElement ==
    ASSUME NEW n \in Nat, NEW S \in SUBSET (1..n), S # {}
    PROVE  \E i \in S : \A j \in S : i >= j
<1> DEFINE T == {d \in Nat : \E i \in S : d = n - i}
<1>1. \A i \in S : n - i \in T
  OBVIOUS
<1>2. PICK d \in T : \A e \in T : d <= e
  <2>1. T \in SUBSET Nat /\ T # {}
    BY <1>1
  <2> HIDE DEF T
  <2>2. QED
    BY <2>1, LeastElement
<1>3. PICK i \in S : d = n - i
  BY <1>2
<1>4. \A j \in S : n - i <= n - j
  BY <1>1, <1>2, <1>3
<1>5. \A j \in S : i >= j
  BY <1>4
<1>6. QED
  BY <1>5

\* f flattens s up to its n-th sequence
Flattens(f, s, n) ==
    f = [i \in 1..n |-> IF i = 1 THEN s[i] ELSE f[i - 1] \o s[i]]

LEMMA FlattenTypes ==
    ASSUME NEW S, NEW s \in Seq(Seq(S)), NEW n \in 0..Len(s), NEW f, Flattens(f, s, n)
    PROVE  \A i \in 1..n : f[i] \in Seq(S)
<1> DEFINE Bad == {i \in 1..n : f[i] \notin Seq(S)}
<1>1. SUFFICES ASSUME Bad # {} PROVE FALSE
  OBVIOUS
<1>2. PICK i \in Bad : \A j \in Bad : i <= j
  <2>1. Bad \in SUBSET Nat
    OBVIOUS
  <2> HIDE DEF Bad
  <2>2. QED
    BY <1>1, <2>1, LeastElement
<1>3. f[i] = IF i = 1 THEN s[i] ELSE f[i - 1] \o s[i]
  BY DEF Flattens
<1>4. s[i] \in Seq(S)
  OBVIOUS
<1>5. i # 1 => f[i - 1] \in Seq(S)
  BY <1>2
<1>6. i # 1 => f[i - 1] \o s[i] \in Seq(S)
  BY <1>4, <1>5
<1>7. f[i] \notin Seq(S)
  BY <1>2
<1>8. QED
  BY <1>3, <1>4, <1>6, <1>7

LEMMA FlattenAgree ==
    ASSUME NEW S, NEW s \in Seq(Seq(S)), NEW r \in Seq(Seq(S)), NEW n \in Nat,
           Len(s) = n, Len(r) = n + 1, NEW f, NEW g,
           \A i \in 1..n : s[i] = r[i],
           Flattens(f, s, n), Flattens(g, r, n + 1)
    PROVE  \A i \in 1..n : f[i] = g[i]
<1> DEFINE Bad == {i \in 1..n : f[i] # g[i]}
<1>1. SUFFICES ASSUME Bad # {} PROVE FALSE
  OBVIOUS
<1>2. PICK i \in Bad : \A j \in Bad : i <= j
  <2>1. Bad \in SUBSET Nat
    OBVIOUS
  <2> HIDE DEF Bad
  <2>2. QED
    BY <1>1, <2>1, LeastElement
<1>3. f[i] = IF i = 1 THEN s[i] ELSE f[i - 1] \o s[i]
  BY DEF Flattens
<1>4. g[i] = IF i = 1 THEN r[i] ELSE g[i - 1] \o r[i]
  <2>1. i \in 1..(n + 1)
    OBVIOUS
  <2>2. QED
    BY <2>1 DEF Flattens
<1>5. i # 1 => f[i - 1] = g[i - 1]
  BY <1>2
<1>6. QED
  BY <1>3, <1>4, <1>5

LEMMA FlattenExists ==
    ASSUME NEW S, NEW s \in Seq(Seq(S)), NEW n \in 0..Len(s)
    PROVE  \E f : Flattens(f, s, n)
<1> DEFINE Bad == {k \in 0..Len(s) : ~\E f : Flattens(f, s, k)}
<1>1. SUFFICES ASSUME Bad # {} PROVE FALSE
  OBVIOUS
<1>2. PICK k \in Bad : \A j \in Bad : k <= j
  <2>1. Bad \in SUBSET Nat
    OBVIOUS
  <2> HIDE DEF Bad
  <2>2. QED
    BY <1>1, <2>1, LeastElement
<1>3. k # 0
  <2>1. Flattens(<<>>, s, 0)
    BY DEF Flattens
  <2>2. QED
    BY <2>1
<1>4. PICK f : Flattens(f, s, k - 1)
  <2>1. k - 1 \in 0..Len(s) /\ ~(k <= k - 1)
    BY <1>3
  <2>2. QED
    BY <1>2, <2>1
<1> DEFINE g == [i \in 1..k |-> IF i = k THEN (IF i = 1 THEN s[i] ELSE f[k - 1] \o s[i]) ELSE f[i]]
<1>5. Flattens(g, s, k)
  <2>1. \A i \in 1..k : g[i] = IF i = 1 THEN s[i] ELSE g[i - 1] \o s[i]
    <3> SUFFICES ASSUME NEW i \in 1..k
                 PROVE  g[i] = IF i = 1 THEN s[i] ELSE g[i - 1] \o s[i]
      OBVIOUS
    <3>1. CASE i = k
      BY <3>1
    <3>2. CASE i # k
      <4>1. i \in 1..(k - 1)
        BY <3>2
      <4>2. f[i] = IF i = 1 THEN s[i] ELSE f[i - 1] \o s[i]
        BY <1>4, <4>1 DEF Flattens
      <4>3. i # 1 => g[i - 1] = f[i - 1]
        BY <4>1
      <4>4. QED
        BY <3>2, <4>2, <4>3
    <3>3. QED
      BY <3>1, <3>2
  <2>2. QED
    BY <2>1 DEF Flattens
<1>6. QED
  BY <1>5

LEMMA FlattenIs ==
    ASSUME NEW S, NEW s \in Seq(Seq(S)), s # <<>>
    PROVE  \E f : Flattens(f, s, Len(s)) /\ FlattenSeq(s) = f[Len(s)]
<1>1. \E f : f = [i \in 1..Len(s) |-> IF i = 1 THEN s[i] ELSE f[i - 1] \o s[i]]
  <2>1. Len(s) \in 0..Len(s)
    OBVIOUS
  <2>2. \E f : Flattens(f, s, Len(s))
    BY <2>1, FlattenExists
  <2>3. QED
    BY <2>2 DEF Flattens
<1>2. Len(s) # 0
  OBVIOUS
<1>3. QED
  BY <1>1, <1>2 DEF FlattenSeq, Flattens

LEMMA FlattenLonger ==
    ASSUME NEW S, NEW s \in Seq(Seq(S)), NEW r \in Seq(Seq(S)), NEW n \in Nat,
           Len(s) = n, Len(r) = n + 1, \A i \in 1..n : s[i] = r[i]
    PROVE  FlattenSeq(s) \in Seq(S) /\ FlattenSeq(r) = FlattenSeq(s) \o r[n + 1]
<1>1. r # <<>> /\ n + 1 \in 1..(n + 1) /\ (n + 1) - 1 = n
  OBVIOUS
<1>2. PICK g : Flattens(g, r, n + 1) /\ FlattenSeq(r) = g[n + 1]
  BY <1>1, FlattenIs
<1>3. g[n + 1] = IF n + 1 = 1 THEN r[n + 1] ELSE g[n] \o r[n + 1]
  <2>1. g[n + 1] = IF n + 1 = 1 THEN r[n + 1] ELSE g[(n + 1) - 1] \o r[n + 1]
    BY <1>1, <1>2 DEF Flattens
  <2>2. QED
    BY <1>1, <2>1
<1>4. CASE n = 0
  <2>1. s = <<>>
    BY <1>4
  <2>2. FlattenSeq(s) = <<>>
    BY <2>1 DEF FlattenSeq
  <2>3. r[n + 1] \in Seq(S)
    BY <1>1
  <2>4. QED
    BY <1>2, <1>3, <1>4, <2>2, <2>3
<1>5. CASE n # 0
  <2>1. s # <<>> /\ n \in 1..n /\ n \in 0..Len(s)
    BY <1>5
  <2>2. PICK f : Flattens(f, s, n) /\ FlattenSeq(s) = f[n]
    BY <2>1, FlattenIs
  <2>3. \A i \in 1..n : f[i] = g[i]
    BY ONLY <1>2, <2>2, FlattenAgree, s \in Seq(Seq(S)), r \in Seq(Seq(S)), n \in Nat,
            Len(s) = n, Len(r) = n + 1, \A i \in 1..n : s[i] = r[i]
  <2>4. \A i \in 1..n : f[i] \in Seq(S)
    BY <2>1, <2>2, FlattenTypes
  <2>5. FlattenSeq(s) = g[n] /\ FlattenSeq(s) \in Seq(S)
    BY <2>1, <2>2, <2>3, <2>4
  <2>6. n + 1 # 1
    BY <1>5
  <2>7. QED
    BY <1>2, <1>3, <2>5, <2>6
<1>6. QED
  BY <1>4, <1>5

\* The first n of s
Upto(s, n) == [i \in 1..n |-> s[i]]

LEMMA FlattenStep ==
    ASSUME NEW S, NEW s \in Seq(Seq(S)), NEW n \in Nat, n < Len(s)
    PROVE  /\ FlattenSeq(Upto(s, n)) \in Seq(S)
           /\ FlattenSeq(Upto(s, n + 1)) = FlattenSeq(Upto(s, n)) \o s[n + 1]
<1> DEFINE a == Upto(s, n)
           b == Upto(s, n + 1)
<1>1. \A i \in 1..(n + 1) : s[i] \in Seq(S)
  OBVIOUS
<1>2. a \in Seq(Seq(S)) /\ Len(a) = n /\ \A i \in 1..n : a[i] = s[i]
  BY <1>1 DEF Upto
<1>3. b \in Seq(Seq(S)) /\ Len(b) = n + 1 /\ \A i \in 1..(n + 1) : b[i] = s[i]
  BY <1>1 DEF Upto
<1> HIDE DEF a, b
<1>4. \A i \in 1..n : a[i] = b[i]
  <2> TAKE i \in 1..n
  <2>1. i \in 1..(n + 1)
    OBVIOUS
  <2>2. QED
    BY <2>1, <1>2, <1>3
<1>5. FlattenSeq(a) \in Seq(S) /\ FlattenSeq(b) = FlattenSeq(a) \o b[n + 1]
  BY <1>2, <1>3, <1>4, FlattenLonger
<1>6. b[n + 1] = s[n + 1]
  BY <1>3
<1>7. QED
  BY <1>5, <1>6 DEF a, b

LEMMA FlattenNone ==
    ASSUME NEW s
    PROVE  FlattenSeq(Upto(s, 0)) = <<>>
BY DEF FlattenSeq, Upto

LEMMA UptoAll ==
    ASSUME NEW S, NEW s \in Seq(S)
    PROVE  Upto(s, Len(s)) = s
BY DEF Upto

LEMMA FlattenType ==
    ASSUME NEW S, NEW s \in Seq(Seq(S)), NEW n \in 0..Len(s)
    PROVE  FlattenSeq(Upto(s, n)) \in Seq(S)
<1>1. CASE n = 0
  <2>1. FlattenSeq(Upto(s, 0)) = <<>> /\ <<>> \in Seq(S)
    BY FlattenNone
  <2>2. QED
    BY <1>1, <2>1
<1>2. CASE n # 0
  <2>1. PICK k \in Nat : k + 1 = n
    BY <1>2
  <2> DEFINE F == FlattenSeq(Upto(s, k))
  <2>2. F \in Seq(S) /\ FlattenSeq(Upto(s, k + 1)) = F \o s[k + 1]
    BY <2>1, FlattenStep
  <2>3. s[n] \in Seq(S)
    BY <1>2
  <2> HIDE DEF F
  <2>4. F \o s[n] \in Seq(S)
    BY <2>2, <2>3
  <2>5. QED
    BY <2>1, <2>2, <2>4
<1>3. QED
  BY <1>1, <1>2

\* What the sequences behind the n-th add to it, if each holds one element
LEMMA FlattenSegment ==
    ASSUME NEW S, NEW s \in Seq(Seq(S)), NEW w \in Seq(S), NEW n \in Nat,
           n + Len(w) <= Len(s), \A i \in 1..Len(w) : s[n + i] = <<w[i]>>
    PROVE  FlattenSeq(Upto(s, n + Len(w))) = FlattenSeq(Upto(s, n)) \o w
<1> DEFINE F == FlattenSeq(Upto(s, n))
           Part(k) == [i \in 1..k |-> w[i]]
           Bad == {k \in 0..Len(w) : FlattenSeq(Upto(s, n + k)) # F \o Part(k)}
<1>1. F \in Seq(S)
  BY FlattenType
<1>2. SUFFICES ASSUME Bad # {} PROVE FALSE
  <2>1. Len(w) \in 0..Len(w) /\ Part(Len(w)) = w
    OBVIOUS
  <2> HIDE DEF F, Part
  <2>2. Bad = {} => FlattenSeq(Upto(s, n + Len(w))) = F \o Part(Len(w))
    BY <2>1
  <2>3. QED
    BY <2>1, <2>2 DEF F
<1>3. PICK k \in Bad : \A j \in Bad : k <= j
  <2>1. Bad \in SUBSET Nat
    OBVIOUS
  <2> HIDE DEF Bad
  <2>2. QED
    BY <1>2, <2>1, LeastElement
<1>0. k \in 0..Len(w) /\ k \in Nat /\ Len(w) \in Nat
  BY <1>3
<1>4. k # 0
  <2>1. Part(0) = <<>> /\ n + 0 = n
    OBVIOUS
  <2> HIDE DEF Part
  <2>2. F \o Part(0) = F
    BY <1>1, <2>1
  <2>3. FlattenSeq(Upto(s, n + 0)) = F
    BY <2>1
  <2>4. QED
    BY <1>3, <2>2, <2>3
<1>5. FlattenSeq(Upto(s, n + k)) # F \o Part(k)
  BY <1>3
<1>6. \A j \in 0..Len(w) : j < k => FlattenSeq(Upto(s, n + j)) = F \o Part(j)
  <2> SUFFICES ASSUME NEW j \in 0..Len(w), j < k, FlattenSeq(Upto(s, n + j)) # F \o Part(j)
               PROVE  FALSE
    OBVIOUS
  <2>1. j \in Bad
    OBVIOUS
  <2> HIDE DEF Bad, F, Part
  <2>2. QED
    BY <1>0, <1>3, <2>1
<1> HIDE DEF Bad, F
<1>7. PICK j : j \in Nat /\ j + 1 = k /\ j \in 0..Len(w) /\ j < k /\ k \in 1..Len(w)
  <2>1. k - 1 \in Nat /\ (k - 1) + 1 = k /\ k - 1 \in 0..Len(w) /\ k - 1 < k /\ k \in 1..Len(w)
    BY ONLY <1>0, <1>4
  <2>2. QED
    BY ONLY <2>1
<1>8. FlattenSeq(Upto(s, n + k)) = (F \o Part(j)) \o <<w[k]>>
  <2>1. n + j \in Nat /\ n + j < Len(s) /\ (n + j) + 1 = n + k
    <3>1. Len(s) \in Nat
      OBVIOUS
    <3>2. QED
      BY ONLY <1>0, <1>7, <3>1, n \in Nat, n + Len(w) <= Len(s)
  <2> HIDE DEF Part
  <2>2. FlattenSeq(Upto(s, (n + j) + 1)) = FlattenSeq(Upto(s, n + j)) \o s[(n + j) + 1]
    BY <2>1, FlattenStep
  <2>3. s[n + k] = <<w[k]>>
    BY ONLY <1>7, \A i \in 1..Len(w) : s[n + i] = <<w[i]>>
  <2>4. FlattenSeq(Upto(s, n + j)) = F \o Part(j)
    BY ONLY <1>6, <1>7
  <2>5. QED
    BY ONLY <2>1, <2>2, <2>3, <2>4
<1>9. (F \o Part(j)) \o <<w[k]>> = F \o Part(k)
  <2>1. w[k] \in S /\ \A i \in 1..j : w[i] \in S
    <3>1. \A i \in 1..Len(w) : w[i] \in S
      OBVIOUS
    <3>2. QED
      BY ONLY <1>0, <1>7, <3>1
  <2>2. Part(j) \in Seq(S) /\ <<w[k]>> \in Seq(S)
    BY ONLY <1>7, <2>1
  <2>3. Part(k) = Part(j) \o <<w[k]>>
    BY ONLY <1>7
  <2> HIDE DEF Part
  <2>4. (F \o Part(j)) \o <<w[k]>> = F \o (Part(j) \o <<w[k]>>)
    <3>1. \A a, b, c \in Seq(S) : (a \o b) \o c = a \o (b \o c)
      <4> TAKE a, b, c \in Seq(S)
      <4>1. QED
        BY ONLY a \in Seq(S), b \in Seq(S), c \in Seq(S)
    <3>2. QED
      BY ONLY <1>1, <2>2, <3>1, Zenon
  <2>5. QED
    BY ONLY <2>3, <2>4
<1>10. QED
  BY ONLY <1>5, <1>8, <1>9

\* Empty ones add nothing
LEMMA FlattenSkip ==
    ASSUME NEW S, NEW s \in Seq(Seq(S)), NEW n \in Nat, NEW m \in n..Len(s),
           \A i \in (n + 1)..m : s[i] = <<>>
    PROVE  FlattenSeq(Upto(s, m)) = FlattenSeq(Upto(s, n))
<1> DEFINE F == FlattenSeq(Upto(s, n))
           Bad == {k \in n..m : FlattenSeq(Upto(s, k)) # F}
<1>1. F \in Seq(S)
  BY FlattenType
<1>2. SUFFICES ASSUME Bad # {} PROVE FALSE
  OBVIOUS
<1>3. PICK k \in Bad : \A j \in Bad : k <= j
  <2>1. Bad \in SUBSET Nat
    OBVIOUS
  <2> HIDE DEF Bad
  <2>2. QED
    BY <1>2, <2>1, LeastElement
<1>0. k \in n..m /\ m \in n..Len(s)
  BY <1>3
<1>4. k # n
  BY <1>3
<1>5. PICK j \in Nat : j + 1 = k /\ j \in n..m
  BY <1>0, <1>4
<1>6. FlattenSeq(Upto(s, j)) = F
  <2>1. j \notin Bad
    <3> HIDE DEF Bad
    <3>1. QED
      BY <1>0, <1>3, <1>5
  <2>2. QED
    BY <1>5, <2>1
<1>7. FlattenSeq(Upto(s, j + 1)) = FlattenSeq(Upto(s, j)) \o s[j + 1]
  <2>1. j < Len(s)
    BY <1>0, <1>5
  <2>2. QED
    BY <2>1, FlattenStep
<1>8. s[j + 1] = <<>>
  BY <1>0, <1>4, <1>5
<1> HIDE DEF F
<1>9. FlattenSeq(Upto(s, k)) = F
  <2>1. FlattenSeq(Upto(s, k)) = F \o <<>>
    BY <1>5, <1>6, <1>7, <1>8
  <2>2. F \o <<>> = F
    BY <1>1
  <2>3. QED
    BY <2>1, <2>2
<1>10. QED
  BY <1>3, <1>9

LEMMA FlattenConcat ==
    ASSUME NEW S, NEW s \in Seq(Seq(S)), NEW r \in Seq(Seq(S))
    PROVE  /\ FlattenSeq(s) \in Seq(S) /\ FlattenSeq(r) \in Seq(S)
           /\ FlattenSeq(s \o r) = FlattenSeq(s) \o FlattenSeq(r)
<1> DEFINE n == Len(s)
           m == Len(r)
           q == s \o r
           F == FlattenSeq(s)
           G(k) == FlattenSeq(Upto(r, k))
           Bad == {k \in 0..m : FlattenSeq(Upto(q, n + k)) # F \o G(k)}
<1>1. /\ n \in Nat /\ m \in Nat /\ q \in Seq(Seq(S)) /\ Len(q) = n + m
      /\ Upto(s, n) = s /\ Upto(r, m) = r /\ Upto(q, n + m) = q
  <2>1. n \in Nat /\ m \in Nat /\ q \in Seq(Seq(S)) /\ Len(q) = n + m
    BY ConcatProperties
  <2> HIDE DEF q
  <2>2. Upto(q, Len(q)) = q
    BY <2>1, UptoAll
  <2>3. Upto(s, n) = s /\ Upto(r, m) = r
    BY UptoAll
  <2>4. QED
    BY <2>1, <2>2, <2>3
<1>2. /\ \A i \in 1..n : q[i] = s[i]
      /\ \A i \in 1..m : q[n + i] = r[i]
  <2>1. \A i \in 1..(n + m) : q[i] = IF i <= n THEN s[i] ELSE r[i - n]
    BY ConcatProperties
  <2> HIDE DEF q, n, m
  <2>2. \A i \in 1..n : q[i] = s[i]
    BY <1>1, <2>1
  <2>3. ASSUME NEW i \in 1..m PROVE q[n + i] = r[i]
    <3>1. n + i \in 1..(n + m) /\ ~(n + i <= n) /\ (n + i) - n = i
      BY <1>1
    <3>2. QED
      BY <2>1, <3>1
  <2>4. QED
    BY <2>2, <2>3
<1>3. F \in Seq(S) /\ \A k \in 0..m : G(k) \in Seq(S)
  <2>1. n \in 0..n /\ F = FlattenSeq(Upto(s, n))
    BY <1>1
  <2>2. QED
    BY <2>1, FlattenType
<1>4. SUFFICES ASSUME Bad # {} PROVE FALSE
  <2>1. m \in 0..m /\ G(m) = FlattenSeq(r)
    BY <1>1
  <2> HIDE DEF F, G, q
  <2>2. Bad = {} => FlattenSeq(Upto(q, n + m)) = F \o G(m)
    BY <2>1
  <2>3. QED
    BY <1>1, <1>3, <2>1, <2>2 DEF F, q
<1>5. PICK k \in Bad : \A j \in Bad : k <= j
  <2>1. Bad \in SUBSET Nat
    OBVIOUS
  <2> HIDE DEF Bad
  <2>2. QED
    BY <1>4, <2>1, LeastElement
<1>6. k \in 0..m /\ k \in Nat /\ FlattenSeq(Upto(q, n + k)) # F \o G(k)
  BY <1>5
<1> HIDE DEF Bad
<1>7. k # 0
  <2>1. G(0) = <<>>
    BY FlattenNone
  <2>2. Upto(q, n) = s
    <3> HIDE DEF q
    <3>1. \A i \in 1..n : q[i] = s[i]
      BY <1>2
    <3>2. s = [i \in 1..n |-> s[i]]
      OBVIOUS
    <3>3. QED
      BY <3>1, <3>2 DEF Upto
  <2> HIDE DEF F, G, q
  <2>3. F \o G(0) = F
    BY <1>3, <2>1
  <2>4. FlattenSeq(Upto(q, n + 0)) = F
    BY <1>1, <2>2 DEF F
  <2>5. QED
    BY <1>6, <2>3, <2>4
<1>8. PICK j \in Nat : j + 1 = k /\ j \in 0..m
  BY <1>6, <1>7
<1>9. FlattenSeq(Upto(q, n + j)) = F \o G(j)
  <2>1. j \notin Bad
    BY <1>5, <1>8
  <2>2. QED
    BY <1>8, <2>1 DEF Bad
<1>10. G(k) = G(j) \o r[k] /\ r[k] \in Seq(S) /\ G(j) \in Seq(S)
  <2>1. j < Len(r) /\ k \in 1..m
    BY <1>6, <1>8
  <2>2. FlattenSeq(Upto(r, j + 1)) = FlattenSeq(Upto(r, j)) \o r[j + 1]
    BY <2>1, FlattenStep
  <2>3. r[k] \in Seq(S)
    BY <2>1
  <2>4. QED
    BY <1>3, <1>8, <2>2, <2>3
<1>11. FlattenSeq(Upto(q, n + k)) = (F \o G(j)) \o r[k]
  <2> HIDE DEF F, G, q
  <2>1. n + j \in Nat /\ n + j < Len(q) /\ (n + j) + 1 = n + k /\ k \in 1..m
    <3> HIDE DEF n, m
    <3>1. n \in Nat /\ m \in Nat /\ Len(q) = n + m /\ k \in 0..m /\ j \in Nat /\ j + 1 = k
      BY <1>1, <1>6, <1>8
    <3>2. QED
      BY ONLY <3>1
  <2>2. FlattenSeq(Upto(q, (n + j) + 1)) = FlattenSeq(Upto(q, n + j)) \o q[(n + j) + 1]
    BY <1>1, <2>1, FlattenStep
  <2>3. q[n + k] = r[k]
    BY <1>2, <2>1
  <2>4. QED
    BY <1>9, <2>1, <2>2, <2>3
<1>12. (F \o G(j)) \o r[k] = F \o (G(j) \o r[k])
  <2>1. \A a, b, c \in Seq(S) : (a \o b) \o c = a \o (b \o c)
    <3> TAKE a, b, c \in Seq(S)
    <3>1. QED
      BY ONLY a \in Seq(S), b \in Seq(S), c \in Seq(S)
  <2> HIDE DEF F, G
  <2>2. QED
    BY <1>3, <1>10, <2>1, Zenon
<1>13. QED
  <2> HIDE DEF F, G, q
  <2>1. QED
    BY <1>6, <1>10, <1>11, <1>12
==============================================================================
