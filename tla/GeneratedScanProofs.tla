------------------------- MODULE GeneratedScanProofs -------------------------
(***************************************************************************)
(* Theorems of GeneratedScan, for every program, mapping and width of a    *)
(* byte, any number of scans and any steps of the other master.            *)
(***************************************************************************)
EXTENDS GeneratedScan, FiniteSetTheorems, FunctionTheorems, WellFoundedInduction, TLAPS

(***************************************************************************)
(* Numbers.                                                                *)
(***************************************************************************)
\* A set that holds 0 and with every natural the next holds them all: what a loop over the
\* bytes of a number or the parts of a list establishes.
LEMMA AllNaturals ==
  ASSUME NEW T, 0 \in T, \A n \in Nat : n \in T => n + 1 \in T
  PROVE  \A n \in Nat : n \in T
<1> DEFINE Missing == {n \in Nat : n \notin T}
<1>1. SUFFICES ASSUME Missing # {} PROVE FALSE
  OBVIOUS
<1>2. PICK m \in Missing : \A k \in Missing : ~ (<<k, m>> \in OpToRel(<, Nat))
  <2>1. Missing \subseteq Nat
    OBVIOUS
  <2> HIDE DEF Missing
  <2> QED BY <1>1, <2>1, NatLessThanWellFounded, WFMin
<1>3. \A k \in Missing : ~ (k < m)
  BY <1>2 DEF OpToRel
<1>4. m # 0 /\ m - 1 \in Nat
  OBVIOUS
<1>5. m - 1 \in T
  BY <1>3, <1>4
<1> QED BY <1>4, <1>5

\* A bit pattern of n bits is a set of bits: there are 2 ^ n of them, at least one.
LEMMA PowerType == ASSUME NEW n \in Nat PROVE Pow2(n) \in Nat \ {0}
<1>2. IsFiniteSet(1..n) /\ Cardinality(1..n) = n
  BY FS_Interval
<1>3. IsFiniteSet(SUBSET (1..n)) /\ Cardinality(SUBSET (1..n)) = 2 ^ n
  BY <1>2, FS_SUBSET
<1>4. 2 ^ n \in Nat
  BY <1>3, FS_CardinalityType
<1>5. 2 ^ n # 0
  <2>1. {} \in SUBSET (1..n)
    OBVIOUS
  <2> QED BY <2>1, <1>3, FS_EmptySet
<1> QED BY <1>4, <1>5 DEF Pow2

\* Patterns of a + b bits are pairs of patterns (lib.rs: bytes one after the other, a bit in
\* a byte).
LEMMA PowerSum == ASSUME NEW a \in Nat, NEW b \in Nat PROVE Pow2(a + b) = Pow2(a) * Pow2(b)
<1> DEFINE A == SUBSET (1..a)
           B == SUBSET (1..b)
           C == SUBSET (1..(a + b))
           f == [p \in A \X B |-> p[1] \cup {a + i : i \in p[2]}]
<1>1. /\ IsFiniteSet(A) /\ Cardinality(A) = Pow2(a)
      /\ IsFiniteSet(B) /\ Cardinality(B) = Pow2(b)
      /\ IsFiniteSet(C) /\ Cardinality(C) = Pow2(a + b)
  <2>1. a + b \in Nat
    OBVIOUS
  <2>2. \A n \in Nat : IsFiniteSet(1..n) /\ Cardinality(1..n) = n
    BY FS_Interval
  <2>3. \A n \in Nat : IsFiniteSet(SUBSET (1..n)) /\ Cardinality(SUBSET (1..n)) = 2 ^ n
    BY <2>2, FS_SUBSET
  <2> QED BY <2>1, <2>3 DEF Pow2
<1>2. f \in Bijection(A \X B, C)
  <2>1. f \in [A \X B -> C]
    <3>1. SUFFICES ASSUME NEW S \in A, NEW T \in B PROVE S \cup {a + i : i \in T} \in C
      OBVIOUS
    <3>2. \A x \in S \cup {a + i : i \in T} : x \in 1..(a + b)
      OBVIOUS
    <3> QED BY <3>2
  <2>2. \A p, q \in A \X B : f[p] = f[q] => p = q
    <3>1. ASSUME NEW S \in A, NEW T \in B, NEW U \in A, NEW V \in B,
                 S \cup {a + i : i \in T} = U \cup {a + i : i \in V}
          PROVE  S = U /\ T = V
      <4>1. \A x \in 1..a : x \notin {a + i : i \in T} /\ x \notin {a + i : i \in V}
        OBVIOUS
      <4>2. S = U
        BY <3>1, <4>1
      <4>3. \A i \in 1..b : /\ a + i \notin S /\ a + i \notin U
                            /\ a + i \in {a + j : j \in T} <=> i \in T
                            /\ a + i \in {a + j : j \in V} <=> i \in V
        OBVIOUS
      <4>4. T = V
        BY <3>1, <4>3
      <4> QED BY <4>2, <4>4
    <3>2. \A p, q \in A \X B :
            /\ p[1] \in A /\ p[2] \in B /\ q[1] \in A /\ q[2] \in B
            /\ f[p] = p[1] \cup {a + i : i \in p[2]}
            /\ f[q] = q[1] \cup {a + i : i \in q[2]}
            /\ p[1] = q[1] /\ p[2] = q[2] => p = q
      OBVIOUS
    <3> HIDE DEF f, A, B
    <3> QED BY <3>1, <3>2
  <2>3. \A c \in C : \E p \in A \X B : f[p] = c
    <3> SUFFICES ASSUME NEW c \in C
                 PROVE  \E p \in A \X B : f[p] = c
      OBVIOUS
    <3> DEFINE S == c \cap (1..a)
               T == {i \in 1..b : a + i \in c}
    <3>1. c = S \cup {a + i : i \in T}
      <4>1. \A x \in c : x \in S \/ (x - a \in T /\ x = a + (x - a))
        OBVIOUS
      <4>2. \A x \in c : x \in S \/ \E i \in T : x = a + i
        BY <4>1
      <4> QED BY <4>2
    <3>2. <<S, T>> \in A \X B /\ f[<<S, T>>] = c
      BY <3>1
    <3> QED BY <3>2
  <2> QED BY <2>1, <2>2, <2>3, Fun_IsBij
<1>3. ExistsBijection(A \X B, C)
  BY <1>2 DEF ExistsBijection
<1>4. IsFiniteSet(A \X B) /\ Cardinality(A \X B) = Cardinality(A) * Cardinality(B)
  <2> HIDE DEF A, B
  <2> QED BY <1>1, FS_Product
<1>5. Cardinality(C) = Cardinality(A \X B)
  <2> HIDE DEF A, B, C
  <2> QED BY <1>3, <1>4, FS_Bijection
<1> QED BY <1>1, <1>4, <1>5

\* The least powers: one bit has two values.
LEMMA PowerOne == Pow2(0) = 1 /\ Pow2(1) = 2
<1>1. \A n \in Nat : IsFiniteSet(1..n) /\ Cardinality(1..n) = n
  BY FS_Interval
<1>2. Cardinality(SUBSET (1..0)) = 2 ^ 0 /\ Cardinality(SUBSET (1..1)) = 2 ^ 1
  <2>1. \A n \in Nat : Cardinality(SUBSET (1..n)) = 2 ^ n
    BY <1>1, FS_SUBSET
  <2> QED BY <2>1
<1>3. SUBSET (1..0) = {{}} /\ SUBSET (1..1) = {{}} \cup {{1}}
  <2>1. 1..0 = {} /\ 1..1 = {1}
    OBVIOUS
  <2>2. SUBSET {} = {{}} /\ SUBSET {1} = {{}} \cup {{1}}
    OBVIOUS
  <2> QED BY <2>1, <2>2
<1>4. Cardinality({{}}) = 1 /\ IsFiniteSet({{}})
  BY FS_Singleton
<1>5. Cardinality({{}} \cup {{1}}) = 2
  <2>1. {1} \notin {{}}
    OBVIOUS
  <2>2. ASSUME NEW S, NEW x, IsFiniteSet(S), Cardinality(S) = 1, x \notin S
        PROVE  Cardinality(S \cup {x}) = 2
    BY <2>2, FS_AddElement
  <2>3. \A x : x \notin {{}} => Cardinality({{}} \cup {x}) = 2
    BY <1>4, <2>2, Zenon
  <2> QED BY <1>4, <2>1, <2>3, Zenon
<1> QED BY <1>2, <1>3, <1>4, <1>5 DEF Pow2

\* Quotient and remainder are the only ones.
LEMMA Division ==
  ASSUME NEW p \in Nat \ {0}, NEW q \in Int, NEW r \in 0..p - 1, NEW n \in Int, n = p * q + r
  PROVE  n \div p = q /\ n % p = r
<1>1. /\ n = p * (n \div p) + (n % p)
      /\ n % p \in 0..p - 1 /\ n \div p \in Int
  OBVIOUS
<1> DEFINE d == n \div p
           s == n % p
<1>2. p * (d - q) = r - s
  BY <1>1
<1> HIDE DEF d, s
<1>3. d = q
  <2>1. d \in Int /\ s \in 0..p - 1
    BY <1>1 DEF d, s
  <2>2. CASE d > q
    <3>1. d - q >= 1
      BY <2>1, <2>2
    <3>2. p * (d - q) >= p
      BY <2>1, <3>1
    <3> QED BY <1>2, <2>1, <3>2
  <2>3. CASE d < q
    <3>1. d - q <= -1
      BY <2>1, <2>3
    <3>2. p * (d - q) <= -p
      BY <2>1, <3>1
    <3> QED BY <1>2, <2>1, <3>2
  <2> QED BY <2>1, <2>2, <2>3
<1>4. s = r
  BY <1>1, <1>2, <1>3 DEF s
<1> QED BY <1>3, <1>4 DEF d, s

\* Quotient and remainder, as the code shifts and masks.
LEMMA Divided ==
  ASSUME NEW p \in Nat \ {0}, NEW n \in Int
  PROVE  n = p * (n \div p) + (n % p) /\ n % p \in 0..p - 1 /\ n \div p \in Int
OBVIOUS

\* A remainder in two steps: the low digit, then the high one.
LEMMA TwoDigits ==
  ASSUME NEW p \in Nat \ {0}, NEW q \in Nat \ {0}, NEW n \in Int
  PROVE  /\ n % (p * q) = (n % p) + p * ((n \div p) % q)
         /\ n \div (p * q) = (n \div p) \div q
<1> DEFINE d == n \div p
           r == n % p
           e == d \div q
           s == d % q
<1>1. n = p * d + r /\ r \in 0..p - 1 /\ d \in Int
  BY Divided
<1>2. d = q * e + s /\ s \in 0..q - 1 /\ e \in Int
  <2>1. d \in Int
    BY <1>1
  <2> HIDE DEF d
  <2> QED BY <2>1, Divided
<1> HIDE DEF d, r, e, s
<1>3. p * q \in Nat \ {0}
  OBVIOUS
<1>4. n = (p * q) * e + (r + p * s)
  <2>1. p * d = p * (q * e) + p * s
    BY <1>2
  <2>2. p * (q * e) = (p * q) * e
    BY <1>2
  <2> QED BY <1>1, <1>2, <2>1, <2>2
<1>5. r + p * s \in 0..(p * q) - 1
  <2>1. p * s <= p * (q - 1) /\ p * s >= 0 /\ p * s \in Int
    BY <1>2
  <2>2. p * (q - 1) = p * q - p
    OBVIOUS
  <2> QED BY <1>1, <1>3, <2>1, <2>2
<1>6. n \div (p * q) = e /\ n % (p * q) = r + p * s
  <2> DEFINE m == p * q
             t == r + p * s
  <2>1. m \in Nat \ {0} /\ t \in 0..m - 1 /\ n = m * e + t
    BY <1>3, <1>4, <1>5
  <2> HIDE DEF m, t
  <2>2. n \div m = e /\ n % m = t
    BY <1>2, <2>1, Division
  <2> QED BY <2>2 DEF m, t
<1> QED BY <1>6 DEF d, r, e, s

(***************************************************************************)
(* Lists.                                                                  *)
(***************************************************************************)
\* The parts of a table come one after the other, none is lost and nothing is added
\* (state.rs: entries.extend in io_entries_for_program, retain_entries_for_program).
LEMMA FlatShape ==
  ASSUME NEW S, NEW seqs \in Seq(Seq(S))
  PROVE  /\ Flat(seqs) \in Seq(S)
         /\ \A k \in DOMAIN Flat(seqs) :
              \E i \in DOMAIN seqs : \E j \in DOMAIN seqs[i] : Flat(seqs)[k] = seqs[i][j]
         /\ \A i \in DOMAIN seqs : \A j \in DOMAIN seqs[i] :
              \E k \in DOMAIN Flat(seqs) : Flat(seqs)[k] = seqs[i][j]
<1> DEFINE Joined(g, n) == g = [i \in 1..n |-> IF i = 1 THEN seqs[i] ELSE g[i - 1] \o seqs[i]]
<1>1. CASE Len(seqs) = 0
  <2>1. DOMAIN seqs = {} /\ Flat(seqs) = seqs
    BY <1>1 DEF Flat, FlattenSeq
  <2>2. seqs \in Seq(S)
    BY <1>1
  <2> QED BY <2>1, <2>2
<1>2. CASE Len(seqs) # 0
  <2> DEFINE n == Len(seqs)
             f == CHOOSE g : Joined(g, n)
  <2>1. n \in Nat /\ n >= 1 /\ DOMAIN seqs = 1..n /\ \A i \in 1..n : seqs[i] \in Seq(S)
    BY <1>2
  <2>2. Flat(seqs) = f[n]
    BY <1>2 DEF Flat, FlattenSeq
  <2> HIDE DEF n
  <2>3. \E g : Joined(g, n)
    <3> DEFINE T == {m \in Nat : \E g : Joined(g, m)}
    <3>1. 0 \in T
      <4>1. Joined(<<>>, 0)
        OBVIOUS
      <4> QED BY <4>1
    <3>2. ASSUME NEW m \in Nat, m \in T PROVE m + 1 \in T
      <4>1. PICK g : Joined(g, m)
        BY <3>2
      <4> DEFINE h == [i \in 1..m + 1 |->
                         IF i = m + 1 THEN IF i = 1 THEN seqs[i] ELSE g[i - 1] \o seqs[i]
                         ELSE g[i]]
      <4>2. \A i \in 1..m + 1 : i # 1 => i - 1 \in 1..m + 1 /\ i - 1 # m + 1
        OBVIOUS
      <4>3. \A i \in 1..m + 1 : h[i] = IF i = 1 THEN seqs[i] ELSE g[i - 1] \o seqs[i]
        <5>1. \A i \in 1..m : g[i] = IF i = 1 THEN seqs[i] ELSE g[i - 1] \o seqs[i]
          BY <4>1
        <5>2. \A i \in 1..m + 1 : i = m + 1 \/ i \in 1..m
          OBVIOUS
        <5> HIDE DEF Joined
        <5> QED BY <5>1, <5>2
      <4>4. \A i \in 1..m + 1 : i # 1 => h[i - 1] = g[i - 1]
        BY <4>2
      <4>5. DOMAIN h = 1..m + 1 /\ h = [i \in DOMAIN h |-> h[i]]
        OBVIOUS
      <4> HIDE DEF h
      <4>6. Joined(h, m + 1)
        BY <4>3, <4>4, <4>5
      <4>7. \E x : Joined(x, m + 1)
        BY <4>6
      <4>8. m + 1 \in Nat
        OBVIOUS
      <4> HIDE DEF Joined
      <4> QED BY <4>7, <4>8, Zenon
    <3> HIDE DEF T
    <3>3. n \in T
      BY <2>1, <3>1, <3>2, AllNaturals
    <3> QED BY <3>3 DEF T
  <2>4. Joined(f, n)
    <3> HIDE DEF Joined
    <3> QED BY <2>3, Zenon
  <2> HIDE DEF f
  <2>5. f[1] = seqs[1] /\ \A i \in 1..n : i # 1 => f[i] = f[i - 1] \o seqs[i]
    <3>1. \A i \in 1..n : f[i] = IF i = 1 THEN seqs[i] ELSE f[i - 1] \o seqs[i]
      BY <2>4
    <3>2. 1 \in 1..n
      BY <2>1
    <3> HIDE DEF f, Joined
    <3> QED BY <3>1, <3>2
  <2> DEFINE Upto(m) ==
               /\ f[m] \in Seq(S)
               /\ \A k \in DOMAIN f[m] : \E i \in 1..m : \E j \in DOMAIN seqs[i] : f[m][k] = seqs[i][j]
               /\ \A i \in 1..m : \A j \in DOMAIN seqs[i] :
                    \E k \in DOMAIN f[m] : f[m][k] = seqs[i][j]
             T == {m \in Nat : m < n => Upto(m + 1)}
  <2>6. 0 \in T
    <3>1. f[1] \in Seq(S) /\ f[1] = seqs[1]
      BY <2>1, <2>5
    <3>2. 1..1 = {1}
      OBVIOUS
    <3>3. Upto(1)
      BY <3>1, <3>2
    <3> QED BY <3>3
  <2>7. ASSUME NEW m \in Nat, m \in T PROVE m + 1 \in T
    <3>1. SUFFICES ASSUME m + 1 < n PROVE Upto(m + 2)
      <4> HIDE DEF Upto
      <4>1. m + 1 \in Nat /\ (m + 1) + 1 = m + 2
        OBVIOUS
      <4> QED BY <4>1
    <3>2. Upto(m + 1)
      BY <2>1, <2>7, <3>1
    <3> DEFINE a == f[m + 1]
               b == seqs[m + 2]
               c == f[m + 2]
    <3>3. a \in Seq(S) /\ b \in Seq(S) /\ c = a \o b
      <4>1. m + 2 \in 1..n /\ m + 2 # 1 /\ (m + 2) - 1 = m + 1
        BY <2>1, <3>1
      <4> QED BY <2>1, <2>5, <3>2, <4>1
    <3>4. /\ \A k \in DOMAIN a : k \in DOMAIN c /\ c[k] = a[k]
          /\ \A j \in DOMAIN b : Len(a) + j \in DOMAIN c /\ c[Len(a) + j] = b[j]
          /\ \A k \in DOMAIN c : k \in DOMAIN a \/ (k - Len(a) \in DOMAIN b /\ c[k] = b[k - Len(a)])
      <4> HIDE DEF a, b, c
      <4>1. /\ Len(a) \in Nat /\ DOMAIN a = 1..Len(a) /\ Len(b) \in Nat /\ DOMAIN b = 1..Len(b)
            /\ DOMAIN c = 1..(Len(a) + Len(b))
        BY <3>3
      <4> QED BY <3>3, <4>1
    <3>5. c \in Seq(S)
      BY <3>3
    <3>6. \A k \in DOMAIN c : \E i \in 1..(m + 2) : \E j \in DOMAIN seqs[i] : c[k] = seqs[i][j]
      <4> SUFFICES ASSUME NEW k \in DOMAIN c
                   PROVE  \E i \in 1..(m + 2) : \E j \in DOMAIN seqs[i] : c[k] = seqs[i][j]
        OBVIOUS
      <4>1. CASE k \in DOMAIN a
        <5>1. \E i \in 1..(m + 1) : \E j \in DOMAIN seqs[i] : a[k] = seqs[i][j]
          BY <3>2, <4>1
        <5>2. c[k] = a[k]
          BY <3>4, <4>1
        <5>3. \A i \in 1..(m + 1) : i \in 1..(m + 2)
          OBVIOUS
        <5> HIDE DEF a, c
        <5> QED BY <5>1, <5>2, <5>3
      <4>2. CASE k \notin DOMAIN a
        <5>1. k - Len(a) \in DOMAIN b /\ c[k] = b[k - Len(a)]
          BY <3>4, <4>2
        <5>2. m + 2 \in 1..(m + 2)
          OBVIOUS
        <5> HIDE DEF a, c
        <5> QED BY <5>1, <5>2
      <4> QED BY <4>1, <4>2
    <3>7. \A i \in 1..(m + 2) : \A j \in DOMAIN seqs[i] : \E k \in DOMAIN c : c[k] = seqs[i][j]
      <4> SUFFICES ASSUME NEW i \in 1..(m + 2), NEW j \in DOMAIN seqs[i]
                   PROVE  \E k \in DOMAIN c : c[k] = seqs[i][j]
        OBVIOUS
      <4>1. CASE i = m + 2
        <5>1. Len(a) + j \in DOMAIN c /\ c[Len(a) + j] = b[j]
          BY <3>4, <4>1
        <5> HIDE DEF a, c
        <5> QED BY <4>1, <5>1
      <4>2. CASE i # m + 2
        <5>1. i \in 1..(m + 1)
          BY <4>2
        <5>2. PICK k \in DOMAIN a : a[k] = seqs[i][j]
          BY <3>2, <5>1
        <5>3. k \in DOMAIN c /\ c[k] = a[k]
          BY <3>4, <5>2
        <5> HIDE DEF a, c
        <5> QED BY <5>2, <5>3
      <4> QED BY <4>1, <4>2
    <3> QED BY <3>5, <3>6, <3>7
  <2>8. Upto(n)
    <3> HIDE DEF T, Upto
    <3>1. n - 1 \in Nat /\ n - 1 < n /\ (n - 1) + 1 = n
      BY <2>1
    <3>2. n - 1 \in T
      BY <3>1, <2>6, <2>7, AllNaturals
    <3> QED BY <3>1, <3>2 DEF T
  <2>9. /\ f[n] \in Seq(S)
        /\ \A k \in DOMAIN f[n] : \E i \in 1..n : \E j \in DOMAIN seqs[i] : f[n][k] = seqs[i][j]
        /\ \A i \in 1..n : \A j \in DOMAIN seqs[i] : \E k \in DOMAIN f[n] : f[n][k] = seqs[i][j]
    BY <2>8
  <2> HIDE DEF f, T, Upto, Joined
  <2> DEFINE flat == Flat(seqs)
  <2>10. flat = f[n]
    BY <2>2
  <2> HIDE DEF flat
  <2>11. flat \in Seq(S)
    BY <2>9, <2>10
  <2>12. \A k \in DOMAIN flat : \E i \in DOMAIN seqs : \E j \in DOMAIN seqs[i] : flat[k] = seqs[i][j]
    <3>1. SUFFICES ASSUME NEW k \in DOMAIN flat
                   PROVE  \E i \in DOMAIN seqs : \E j \in DOMAIN seqs[i] : flat[k] = seqs[i][j]
      OBVIOUS
    <3>2. k \in DOMAIN f[n]
      BY <2>10
    <3>3. PICK i \in 1..n : \E j \in DOMAIN seqs[i] : f[n][k] = seqs[i][j]
      BY <2>9, <3>2
    <3>4. i \in DOMAIN seqs
      BY <2>1
    <3> QED BY <2>10, <3>3, <3>4
  <2>13. \A i \in DOMAIN seqs : \A j \in DOMAIN seqs[i] : \E k \in DOMAIN flat : flat[k] = seqs[i][j]
    BY <2>1, <2>9, <2>10
  <2> QED BY <2>11, <2>12, <2>13 DEF flat
<1> QED BY <1>1, <1>2

\* Picking some entries of a list keeps those and no others.
LEMMA KeptShape ==
  ASSUME NEW S, NEW seq \in Seq(S), NEW positions
  PROVE  /\ Kept(seq, positions) \in Seq(S)
         /\ \A k \in DOMAIN Kept(seq, positions) :
              \E i \in DOMAIN seq \cap positions : Kept(seq, positions)[k] = seq[i]
         /\ \A i \in DOMAIN seq \cap positions :
              \E k \in DOMAIN Kept(seq, positions) : Kept(seq, positions)[k] = seq[i]
<1> DEFINE parts == [k \in DOMAIN seq |-> IF k \in positions THEN <<seq[k]>> ELSE <<>>]
<1>1. /\ DOMAIN parts = DOMAIN seq
      /\ \A i \in DOMAIN seq : /\ parts[i] \in Seq(S)
                               /\ i \in positions => parts[i] = <<seq[i]>>
                               /\ i \notin positions => parts[i] = <<>>
  OBVIOUS
<1>2. parts \in Seq(Seq(S))
  <2>1. DOMAIN seq = 1..Len(seq) /\ Len(seq) \in Nat
    OBVIOUS
  <2> QED BY <1>1, <2>1
<1>3. Kept(seq, positions) = Flat(parts)
  BY DEF Kept
<1> HIDE DEF parts
<1>4. \A i \in DOMAIN seq : \A j \in DOMAIN parts[i] :
        i \in positions /\ j = 1 /\ parts[i][j] = seq[i]
  BY <1>1
<1>5. \A i \in DOMAIN seq : i \in positions => 1 \in DOMAIN parts[i] /\ parts[i][1] = seq[i]
  BY <1>1
<1>6. /\ Flat(parts) \in Seq(S)
      /\ \A k \in DOMAIN Flat(parts) :
           \E i \in DOMAIN parts : \E j \in DOMAIN parts[i] : Flat(parts)[k] = parts[i][j]
      /\ \A i \in DOMAIN parts : \A j \in DOMAIN parts[i] :
           \E k \in DOMAIN Flat(parts) : Flat(parts)[k] = parts[i][j]
  BY <1>2, FlatShape
<1> QED BY <1>1, <1>3, <1>4, <1>5, <1>6

(***************************************************************************)
(* Bits.                                                                   *)
(***************************************************************************)
\* A number, its bit s over p = 2 ^ i, what is above the bit and what is below.
Splits(n, p, e, s, r) ==
  e \in Int /\ s \in {0, 1} /\ r \in 0..p - 1 /\ n = p * (2 * e + s) + r

\* A bit of a number is the low digit of what is left when the bits below are shifted away
\* (lib.rs: read_bit).
LEMMA BitSplit ==
  ASSUME NEW p \in Nat \ {0}, NEW n \in Int, NEW e, NEW s, NEW r, Splits(n, p, e, s, r)
  PROVE  (n \div p) % 2 = s /\ n \div (p * 2) = e
<1> USE DEF Splits
<1>1. 2 * e + s \in Int /\ n \div p = 2 * e + s
  BY Division
<1>2. (2 * e + s) % 2 = s
  OBVIOUS
<1>3. n \div (p * 2) = (n \div p) \div 2
  <2> DEFINE two == 2
  <2>1. two \in Nat \ {0}
    OBVIOUS
  <2> HIDE DEF two
  <2>2. n \div (p * two) = (n \div p) \div two
    BY <2>1, TwoDigits
  <2> QED BY <2>2 DEF two
<1>4. (2 * e + s) \div 2 = e
  OBVIOUS
<1> QED BY <1>1, <1>2, <1>3, <1>4

\* Every number splits so.
LEMMA HasSplit ==
  ASSUME NEW p \in Nat \ {0}, NEW n \in Int
  PROVE  \E e, s, r : Splits(n, p, e, s, r)
<1> DEFINE d == n \div p
<1>1. d \in Int /\ n = p * d + (n % p) /\ n % p \in 0..p - 1
  BY Divided
<1> HIDE DEF d
<1>2. d = 2 * (d \div 2) + (d % 2) /\ d % 2 \in {0, 1} /\ d \div 2 \in Int
  BY <1>1
<1>3. Splits(n, p, d \div 2, d % 2, n % p)
  BY <1>1, <1>2 DEF Splits
<1> QED BY <1>3

\* write_bit sets the bit it is to set, touches no other bit, and the byte stays a byte
\* (lib.rs: write_bit, read_bit).
LEMMA WithBitSets ==
  ASSUME NEW n \in Nat, NEW byte \in 0..Pow2(n) - 1, NEW i \in 0..n - 1, NEW on \in BOOLEAN
  PROVE  /\ WithBit(byte, i, on) \in 0..Pow2(n) - 1
         /\ BitSet(WithBit(byte, i, on), i) = on
         /\ \A j \in 0..n - 1 : j # i => BitSet(WithBit(byte, i, on), j) = BitSet(byte, j)
<1> DEFINE p  == Pow2(i)
           to == IF on THEN 1 ELSE 0
           b  == WithBit(byte, i, on)
<1>1. p \in Nat \ {0} /\ Pow2(n) \in Nat \ {0} /\ byte \in Int
  BY PowerType
<1>2. PICK e, s, r : Splits(byte, p, e, s, r)
  <2> HIDE DEF p
  <2> QED BY <1>1, HasSplit
<1>20. e \in Int /\ s \in {0, 1} /\ r \in 0..p - 1 /\ byte = p * (2 * e + s) + r
  BY <1>2 DEF Splits
<1>3. BitSet(byte, i) = (s = 1)
  <2>1. (byte \div p) % 2 = s
    <3> HIDE DEF p
    <3> QED BY <1>1, <1>2, BitSplit
  <2> QED BY <2>1 DEF BitSet
<1>4. b = p * (2 * e + to) + r /\ b \in Int
  <2>1. b = byte + (IF on THEN p ELSE 0) - (IF s = 1 THEN p ELSE 0)
    BY <1>3 DEF WithBit
  <2>2. p * (2 * e + to) = p * (2 * e) + (IF on THEN p ELSE 0)
    <3>1. p * (2 * e + 1) = p * (2 * e) + p /\ p * (2 * e + 0) = p * (2 * e) + 0
      <4> HIDE DEF p
      <4> QED BY <1>20, <1>1
    <3> QED BY <3>1
  <2>3. p * (2 * e + s) = p * (2 * e) + (IF s = 1 THEN p ELSE 0)
    BY <1>1, <1>20
  <2>4. p * (2 * e) \in Int
    BY <1>20, <1>1
  <2> HIDE DEF p, b
  <2> QED BY <1>1, <1>20, <2>1, <2>2, <2>3, <2>4
<1>5. to \in {0, 1}
  OBVIOUS
<1> HIDE DEF b
<1>21. Splits(b, p, e, to, r) /\ b \in Int
  BY <1>20, <1>4, <1>5 DEF Splits
<1>6. (b \div p) % 2 = to /\ b \div (p * 2) = e /\ byte \div (p * 2) = e
  <2> HIDE DEF p, to
  <2>1. (b \div p) % 2 = to /\ b \div (p * 2) = e
    BY <1>1, <1>21, BitSplit
  <2>2. byte \div (p * 2) = e
    BY <1>1, <1>2, BitSplit
  <2> QED BY <2>1, <2>2
<1>7. BitSet(b, i) = on
  <2>1. (to = 1) = on
    OBVIOUS
  <2> QED BY <1>6, <2>1 DEF BitSet
<1>8. b \in 0..Pow2(n) - 1
  <2> DEFINE h == Pow2(n - i - 1)
  <2>1. h \in Nat \ {0} /\ Pow2(n) = (p * 2) * h
    <3>1. n - i - 1 \in Nat /\ i \in Nat /\ n = (i + 1) + (n - i - 1)
      OBVIOUS
    <3>2. Pow2(n) = Pow2(i + 1) * h
      BY <3>1, PowerSum
    <3>3. Pow2(i + 1) = p * 2
      BY <3>1, PowerSum, PowerOne
    <3>4. h \in Nat \ {0}
      BY <3>1, PowerType
    <3> QED BY <3>2, <3>3, <3>4
  <2> HIDE DEF h, p, to
  <2>2. /\ p * 2 \in Nat \ {0}
        /\ byte = (p * 2) * e + (p * s + r) /\ p * s + r \in 0..(p * 2) - 1
        /\ b = (p * 2) * e + (p * to + r) /\ p * to + r \in 0..(p * 2) - 1
    <3>1. \A t \in {0, 1} : p * (2 * e + t) = (p * 2) * e + p * t
      BY <1>20, <1>1
    <3>2. \A t \in {0, 1} : p * t + r \in 0..(p * 2) - 1
      BY <1>1, <1>20
    <3> QED BY <1>1, <1>20, <1>4, <1>5, <3>1, <3>2
  <2>3. e >= 0
    <3>1. SUFFICES ASSUME e <= -1 PROVE FALSE
      BY <1>20
    <3>2. (p * 2) * e <= -(p * 2)
      BY <1>20, <2>2, <3>1
    <3> QED BY <1>20, <2>2, <3>2
  <2>4. e < h
    <3>1. SUFFICES ASSUME e >= h PROVE FALSE
      BY <1>20, <2>1
    <3>2. (p * 2) * e >= (p * 2) * h
      BY <1>20, <2>1, <2>2, <3>1
    <3> QED BY <1>20, <2>1, <2>2, <3>2
  <2>5. (p * 2) * e + (p * 2) <= (p * 2) * h
    <3>1. (p * 2) * e + (p * 2) = (p * 2) * (e + 1)
      BY <1>20, <2>2
    <3>2. (p * 2) * (e + 1) <= (p * 2) * h
      BY <1>20, <2>1, <2>2, <2>4
    <3> QED BY <3>1, <3>2
  <2>6. (p * 2) * e >= 0 /\ (p * 2) * e \in Int
    BY <1>20, <2>2, <2>3
  <2> QED BY <1>4, <2>1, <2>2, <2>5, <2>6
<1>9. ASSUME NEW j \in 0..n - 1, j < i PROVE BitSet(b, j) = BitSet(byte, j)
  <2> DEFINE q == Pow2(j)
             g == Pow2(i - j - 1)
  <2>1. q \in Nat \ {0} /\ g \in Nat \ {0} /\ p = q * (2 * g)
    <3>1. i - j - 1 \in Nat /\ j \in Nat /\ i = (j + 1) + (i - j - 1)
      BY <1>9
    <3>2. p = Pow2(j + 1) * g
      BY <3>1, PowerSum
    <3>3. Pow2(j + 1) = q * 2
      BY <3>1, PowerSum, PowerOne
    <3>4. q \in Nat \ {0} /\ g \in Nat \ {0}
      BY <3>1, PowerType
    <3> HIDE DEF p, q, g
    <3> QED BY <3>2, <3>3, <3>4
  <2> HIDE DEF q, g
  <2>2. PICK e2, s2, r2 : Splits(byte, q, e2, s2, r2)
    BY <1>1, <2>1, HasSplit
  <2>20. e2 \in Int /\ s2 \in {0, 1} /\ r2 \in 0..q - 1 /\ byte = q * (2 * e2 + s2) + r2
    BY <2>2 DEF Splits
  <2> HIDE DEF p, to
  <2>3. b = q * (2 * (e2 + g * (to - s)) + s2) + r2
    <3>1. b = byte + p * (to - s)
      <4>1. p * (2 * e + to) = p * (2 * e + s) + p * (to - s)
        BY <1>1, <1>20, <1>5
      <4>2. p * (2 * e + s) \in Int /\ p * (to - s) \in Int
        BY <1>1, <1>20, <1>5
      <4> QED BY <1>20, <1>4, <4>1, <4>2
    <3>2. p * (to - s) = q * (2 * (g * (to - s)))
      <4> DEFINE d == to - s
      <4>1. d \in Int
        BY <1>20, <1>5
      <4> HIDE DEF d
      <4>2. (q * (2 * g)) * d = q * (2 * (g * d))
        BY <2>1, <4>1
      <4> QED BY <2>1, <4>2 DEF d
    <3> DEFINE w == g * (to - s)
    <3>3. w \in Int
      BY <1>20, <1>5, <2>1
    <3> HIDE DEF w
    <3>4. q * (2 * (e2 + w) + s2) = q * (2 * e2 + s2) + q * (2 * w)
      BY <2>1, <2>20, <3>3
    <3>5. q * (2 * e2 + s2) \in Int /\ q * (2 * w) \in Int
      BY <2>1, <2>20, <3>3
    <3>6. b = byte + q * (2 * w)
      BY <3>1, <3>2 DEF w
    <3> QED BY <2>20, <3>4, <3>5, <3>6 DEF w
  <2>4. e2 + g * (to - s) \in Int
    BY <1>20, <1>5, <2>1, <2>20
  <2>5. (b \div q) % 2 = s2
    <3> DEFINE e3 == e2 + g * (to - s)
    <3> HIDE DEF e3
    <3>1. Splits(b, q, e3, s2, r2)
      BY <2>3, <2>4, <2>20 DEF e3, Splits
    <3> QED BY <1>4, <2>1, <3>1, BitSplit
  <2>6. (byte \div q) % 2 = s2
    BY <1>1, <2>1, <2>2, BitSplit
  <2> QED BY <2>5, <2>6 DEF BitSet, q
<1>10. ASSUME NEW j \in 0..n - 1, j > i PROVE BitSet(b, j) = BitSet(byte, j)
  <2> DEFINE h == Pow2(j - i - 1)
  <2>1. h \in Nat \ {0} /\ Pow2(j) = (p * 2) * h
    <3>1. j - i - 1 \in Nat /\ i \in Nat /\ j = (i + 1) + (j - i - 1)
      BY <1>10
    <3>2. Pow2(j) = Pow2(i + 1) * h
      BY <3>1, PowerSum
    <3>3. Pow2(i + 1) = p * 2
      BY <3>1, PowerSum, PowerOne
    <3>4. h \in Nat \ {0}
      BY <3>1, PowerType
    <3> QED BY <3>2, <3>3, <3>4
  <2> HIDE DEF h, p
  <2>2. p * 2 \in Nat \ {0}
    BY <1>20, <1>1
  <2>3. b \div ((p * 2) * h) = e \div h /\ byte \div ((p * 2) * h) = e \div h
    <3> DEFINE pp == p * 2
    <3>1. pp \in Nat \ {0} /\ b \div pp = e /\ byte \div pp = e
      BY <1>6, <2>2
    <3> HIDE DEF pp
    <3>2. \A m \in Int : m \div (pp * h) = (m \div pp) \div h
      BY <2>1, <3>1, TwoDigits
    <3>3. b \div (pp * h) = e \div h /\ byte \div (pp * h) = e \div h
      BY <1>1, <1>4, <3>1, <3>2
    <3> QED BY <3>3 DEF pp
  <2> QED BY <2>1, <2>3 DEF BitSet
<1>11. \A j \in 0..n - 1 : j # i => j < i \/ j > i
  OBVIOUS
<1> QED BY <1>7, <1>8, <1>9, <1>10, <1>11 DEF b

(***************************************************************************)
(* Bytes of a number.                                                      *)
(***************************************************************************)
Byte == 0..Pow2(ByteBits) - 1

\* The weights of the bytes of a number.
LEMMA BitsOfBytes ==
  /\ \A k \in Nat : ByteBits * k \in Nat /\ Pow2(ByteBits * k) \in Nat \ {0}
  /\ \A k \in Nat : Pow2(ByteBits * (k + 1)) = Pow2(ByteBits * k) * Pow2(ByteBits)
  /\ Pow2(ByteBits) \in Nat \ {0}
<1>1. \A k \in Nat : ByteBits * k \in Nat
  BY ByteBitsAssumption
<1>2. \A k \in Nat : ByteBits * (k + 1) = ByteBits * k + ByteBits
  BY ByteBitsAssumption
<1>3. ByteBits \in Nat
  BY ByteBitsAssumption
<1> QED BY <1>1, <1>2, <1>3, PowerType, PowerSum

\* to_le_bytes gives as many bytes as asked for (lib.rs: write_int_bytes).
LEMMA ToBytesShape ==
  ASSUME NEW n \in Int, NEW len \in Nat
  PROVE  ToBytes(n, len) \in Seq(Byte) /\ Len(ToBytes(n, len)) = len
<1>1. \A k \in 1..len : (n \div Pow2(ByteBits * (k - 1))) % Pow2(ByteBits) \in Byte
  <2> SUFFICES ASSUME NEW k \in 1..len
               PROVE  (n \div Pow2(ByteBits * (k - 1))) % Pow2(ByteBits) \in Byte
    OBVIOUS
  <2>1. k - 1 \in Nat
    OBVIOUS
  <2>2. Pow2(ByteBits * (k - 1)) \in Nat \ {0} /\ Pow2(ByteBits) \in Nat \ {0}
    BY <2>1, BitsOfBytes
  <2>3. n \div Pow2(ByteBits * (k - 1)) \in Int
    BY <2>2
  <2> QED BY <2>2, <2>3 DEF Byte
<1> QED BY <1>1 DEF ToBytes

\* A number written byte by byte and read back is the number modulo its width
\* (lib.rs: to_le_bytes in write_int_bytes, from_le_bytes in read_pdo_value).
LEMMA BytesRoundTrip ==
  ASSUME NEW n \in Int, NEW len \in Nat
  PROVE  FromBytes(ToBytes(n, len)) = n % Pow2(ByteBits * len)
<1> DEFINE bytes == ToBytes(n, len)
           Sums(g, m) == g = [k \in 0..m |-> IF k = 0 THEN 0
                                           ELSE g[k - 1] + Pow2(ByteBits * (k - 1)) * bytes[k]]
           f == CHOOSE g : Sums(g, len)
<1>1. FromBytes(bytes) = f[len]
  BY ToBytesShape DEF FromBytes
<1>2. \A k \in 1..len : bytes[k] = (n \div Pow2(ByteBits * (k - 1))) % Pow2(ByteBits)
  BY DEF ToBytes
<1> HIDE DEF bytes
<1>3. \E g : Sums(g, len)
  <2> DEFINE T == {m \in Nat : \E g : Sums(g, m)}
  <2>1. 0 \in T
    <3> DEFINE g == [k \in 0..0 |-> 0]
    <3>1. Sums(g, 0)
      OBVIOUS
    <3>2. \E x : Sums(x, 0)
      BY <3>1
    <3> QED BY <3>2
  <2>2. ASSUME NEW m \in Nat, m \in T PROVE m + 1 \in T
    <3>1. PICK g : Sums(g, m)
      BY <2>2
    <3> DEFINE h == [k \in 0..m + 1 |-> IF k = m + 1 THEN g[m] + Pow2(ByteBits * m) * bytes[m + 1]
                                       ELSE g[k]]
    <3>2. Sums(h, m + 1)
      BY <3>1
    <3>3. \E x : Sums(x, m + 1)
      BY <3>2
    <3> QED BY <3>3
  <2> HIDE DEF T
  <2>3. len \in T
    BY <2>1, <2>2, AllNaturals
  <2> QED BY <2>3 DEF T
<1>4. Sums(f, len)
  BY <1>3
<1> HIDE DEF f
<1>5. \A k \in 0..len : f[k] = IF k = 0 THEN 0 ELSE f[k - 1] + Pow2(ByteBits * (k - 1)) * bytes[k]
  BY <1>4
<1> HIDE DEF Sums
<1> DEFINE T == {m \in Nat : m <= len => f[m] = n % Pow2(ByteBits * m)}
<1>6. 0 \in T
  <2>1. ByteBits * 0 = 0
    BY ByteBitsAssumption
  <2>2. n % Pow2(ByteBits * 0) = 0
    BY <2>1, PowerOne
  <2>3. f[0] = 0
    BY <1>5
  <2> QED BY <2>2, <2>3
<1>7. ASSUME NEW m \in Nat, m \in T PROVE m + 1 \in T
  <2> DEFINE p == Pow2(ByteBits * m)
             q == Pow2(ByteBits)
  <2>1. SUFFICES ASSUME m + 1 <= len PROVE f[m + 1] = n % Pow2(ByteBits * (m + 1))
    OBVIOUS
  <2>2. p \in Nat \ {0} /\ q \in Nat \ {0} /\ Pow2(ByteBits * (m + 1)) = p * q
    BY BitsOfBytes
  <2>3. f[m] = n % p
    BY <1>7, <2>1
  <2>4. m + 1 \in 0..len /\ m + 1 \in 1..len /\ m + 1 # 0 /\ (m + 1) - 1 = m
    BY <2>1
  <2>5. f[m + 1] = f[m] + p * bytes[m + 1]
    BY <1>5, <2>4
  <2>6. bytes[m + 1] = (n \div p) % q
    BY <1>2, <2>4
  <2> HIDE DEF p, q
  <2>7. n % (p * q) = (n % p) + p * ((n \div p) % q)
    BY <2>2, TwoDigits
  <2> QED BY <2>2, <2>3, <2>5, <2>6, <2>7
<1> HIDE DEF T
<1>8. len \in T
  BY <1>6, <1>7, AllNaturals
<1> QED BY <1>1, <1>8 DEF T, bytes

(***************************************************************************)
(* Points of the process image.                                            *)
(***************************************************************************)
\* The fields of a point (lib.rs: EtherCatPdoPoint).
LEMMA PointFields ==
  ASSUME NEW point \in PdoPoint
  PROVE  /\ point.bus = "ethercat" /\ point.area \in {"Input", "Output"}
         /\ point.byte \in Nat /\ point.bit \in 0..ByteBits - 1 /\ point.type \in PdoType
         /\ Local(point).byte = 0 /\ Local(point).bit = point.bit /\ Local(point).type = point.type
         /\ Local(point).area = point.area
BY DEF PdoPoint, Local

\* The widths of the types (lib.rs: EtherCatValueType::byte_len).
LEMMA ByteLenType ==
  /\ \A type \in PdoType : ByteLen(type) \in Nat /\ ByteLen(type) \in {1, 2, 4, 8}
  /\ ByteLen("BOOL") = 1
BY DEF PdoType, ByteLen

\* as_bool and as_i64 give a Boolean and a number, of texts too (iec_ir: Value).
LEMMA ValueType ==
  ASSUME NEW x, IsValue(x)
  PROVE  Truth(x) \in BOOLEAN /\ Number(x) \in Int
<1>1. CASE x \in [kind : {"BOOL"}, v : BOOLEAN]
  BY <1>1 DEF Truth, Number
<1>2. CASE x \in [kind : {"INT"}, v : Int]
  BY <1>2 DEF Truth, Number
<1>3. CASE x = Text(x.v)
  <2>1. x.kind = "TEXT"
    BY <1>3 DEF Text
  <2> QED BY <2>1 DEF Truth, Number
<1> QED BY <1>1, <1>2, <1>3 DEF IsValue

\* A value cut to the type of a point.
Cut(point, x) ==
  IF point.type = "BOOL" THEN Flag(Truth(x))
  ELSE Num(Clamp(Number(x), TypeMin(point.type), TypeMax(point.type)))

\* What read_pdo_value makes of the raw bytes of a number.
Decode(type, raw) ==
  LET two == Pow2(ByteBits * ByteLen(type)) IN
  IF Signed(type) THEN Num(IF 2 * raw >= two THEN raw - two ELSE raw)
  ELSE Num(IF raw > I64Max THEN I64Max ELSE raw)

\* read_pdo_value takes one bit, or the bytes of the point as a number of its type.
LEMMA ReadIsDecode ==
  ASSUME NEW bytes, NEW point, Fits(bytes, point)
  PROVE  ReadPdo(bytes, point) =
           IF point.type = "BOOL" THEN Flag(BitSet(bytes[point.byte + 1], point.bit))
           ELSE Decode(point.type, FromBytes(Segment(bytes, point)))
<1>1. point.type = "BOOL" => ~Signed(point.type)
  BY DEF Signed
<1> QED BY <1>1 DEF ReadPdo, Decode

\* The limits of a type fit into its bytes, so that a number cut to them comes back with
\* its sign (lib.rs: i16::MIN..i16::MAX and the like in write_pdo_value, u64 cut to i64).
LEMMA LimitsFit ==
  ASSUME NEW type \in PdoType, type # "BOOL", NEW n \in Int
  PROVE  LET c == Clamp(n, TypeMin(type), TypeMax(type)) IN
         c \in Int /\ Decode(type, c % Pow2(ByteBits * ByteLen(type))) = Num(c)
<1> DEFINE w   == ByteBits * ByteLen(type)
           h   == Pow2(w - 1)
           two == Pow2(w)
           c   == Clamp(n, TypeMin(type), TypeMax(type))
<1>1. w \in Nat /\ w - 1 \in Nat /\ 8 * ByteBits - 1 \in Nat
  <2>1. ByteLen(type) \in Nat \ {0}
    BY ByteLenType
  <2> QED BY <2>1, ByteBitsAssumption
<1>2. h \in Nat \ {0} /\ two = 2 * h /\ two \in Nat \ {0}
  <2>1. w = 1 + (w - 1)
    BY <1>1
  <2>2. two = Pow2(1) * h
    BY <1>1, <2>1, PowerSum
  <2>3. h \in Nat \ {0}
    BY <1>1, PowerType
  <2> HIDE DEF h, two, w
  <2> QED BY <2>2, <2>3, PowerOne
<1>3. I64Max \in Nat
  <2>1. Pow2(8 * ByteBits - 1) \in Nat \ {0}
    BY <1>1, PowerType
  <2> QED BY <2>1 DEF I64Max
<1>4. CASE Signed(type)
  <2>1. TypeMin(type) = -h /\ TypeMax(type) = h - 1
    <3>1. type # "U64"
      BY <1>4 DEF Signed
    <3> QED BY <1>4, <3>1 DEF TypeMin, TypeMax
  <2> HIDE DEF h, two
  <2>2. c \in -h..h - 1
    BY <1>2, <2>1 DEF Clamp
  <2> HIDE DEF c
  <2>3. CASE c >= 0
    <3>1. c = two * 0 + c /\ c \in 0..two - 1
      BY <1>2, <2>2, <2>3
    <3>2. c % two = c
      BY <1>2, <3>1, Division
    <3>3. ~(2 * c >= two)
      BY <1>2, <2>2
    <3> QED BY <1>4, <2>2, <3>2, <3>3 DEF Decode, two, c, w
  <2>4. CASE c < 0
    <3>1. c = two * (-1) + (c + two) /\ c + two \in 0..two - 1
      BY <1>2, <2>2, <2>4
    <3>2. c % two = c + two
      BY <1>2, <2>2, <3>1, Division
    <3>3. 2 * (c + two) >= two /\ (c + two) - two = c
      BY <1>2, <2>2
    <3> QED BY <1>4, <2>2, <3>2, <3>3 DEF Decode, two, c, w
  <2> QED BY <2>2, <2>3, <2>4
<1>5. CASE ~Signed(type)
  <2>1. TypeMin(type) = 0 /\ TypeMax(type) \in Nat /\ TypeMax(type) <= I64Max
        /\ TypeMax(type) <= two - 1
    <3>1. TypeMin(type) = 0
      BY <1>5 DEF TypeMin
    <3>2. CASE type = "U64"
      <4>1. TypeMax(type) = I64Max
        BY <1>5, <3>2 DEF TypeMax
      <4>2. w - 1 = 8 * ByteBits - 1
        BY <3>2, ByteBitsAssumption DEF ByteLen
      <4>3. I64Max = h - 1
        BY <4>2 DEF I64Max
      <4> HIDE DEF h, two, w
      <4> QED BY <1>2, <1>3, <3>1, <4>1, <4>3
    <3>3. CASE type # "U64"
      <4>1. TypeMax(type) = two - 1
        BY <1>5, <3>3 DEF TypeMax
      <4>2. ByteLen(type) \in {1, 2, 4}
        BY <1>5, <3>3 DEF PdoType, Signed, ByteLen
      <4> DEFINE rest == 8 * ByteBits - 1 - w
      <4>3. rest \in Nat /\ 8 * ByteBits - 1 = w + rest
        BY <1>1, <4>2, ByteBitsAssumption
      <4> HIDE DEF rest, w
      <4>4. Pow2(8 * ByteBits - 1) = two * Pow2(rest) /\ Pow2(rest) \in Nat \ {0}
        BY <1>1, <4>3, PowerSum, PowerType
      <4> DEFINE f == Pow2(rest)
      <4>5. f \in Nat \ {0} /\ I64Max = two * f - 1
        BY <4>4 DEF I64Max
      <4> HIDE DEF two, f
      <4>6. two * f >= two /\ two * f \in Nat
        BY <1>2, <4>5
      <4> QED BY <1>2, <3>1, <4>1, <4>5, <4>6
    <3> QED BY <3>2, <3>3
  <2> HIDE DEF h, two
  <2>2. c \in 0..two - 1 /\ c <= I64Max
    BY <1>2, <1>3, <2>1 DEF Clamp
  <2> HIDE DEF c
  <2>3. c % two = c
    <3>1. c = two * 0 + c
      BY <1>2, <2>2
    <3> QED BY <1>2, <2>2, <3>1, Division
  <2> QED BY <1>3, <1>5, <2>2, <2>3 DEF Decode, two, c, w
<1> QED BY <1>4, <1>5

\* Replacing a part of the bytes puts it there and leaves the others (lib.rs: copy_from_slice).
LEMMA ReplacedShape ==
  ASSUME NEW bytes \in Seq(Byte), NEW at \in Nat, NEW part \in Seq(Byte),
         at + Len(part) <= Len(bytes)
  PROVE  LET out == Replaced(bytes, at, part) IN
         /\ out \in Seq(Byte) /\ Len(out) = Len(bytes)
         /\ \A k \in 1..Len(part) : out[at + k] = part[k]
         /\ \A k \in 1..Len(bytes) : ~(k > at /\ k <= at + Len(part)) => out[k] = bytes[k]
<1> DEFINE out == Replaced(bytes, at, part)
<1>1. \A k \in 1..Len(bytes) :
        /\ k > at /\ k <= at + Len(part) => k - at \in 1..Len(part) /\ out[k] = part[k - at]
        /\ ~(k > at /\ k <= at + Len(part)) => out[k] = bytes[k]
  BY DEF Replaced
<1>2. DOMAIN out = 1..Len(bytes) /\ out = [k \in 1..Len(bytes) |-> out[k]]
  BY DEF Replaced
<1> HIDE DEF out
<1>3. \A k \in 1..Len(bytes) : out[k] \in Byte
  <2>1. \A k \in 1..Len(bytes) : bytes[k] \in Byte
    OBVIOUS
  <2>2. \A k \in 1..Len(part) : part[k] \in Byte
    OBVIOUS
  <2> QED BY <1>1, <2>1, <2>2
<1>4. out \in Seq(Byte) /\ Len(out) = Len(bytes)
  <2>1. Len(bytes) \in Nat
    OBVIOUS
  <2> QED BY <1>2, <1>3, <2>1
<1>5. \A k \in 1..Len(part) : out[at + k] = part[k]
  <2>1. \A k \in 1..Len(part) : /\ at + k \in 1..Len(bytes) /\ at + k > at
                                /\ at + k <= at + Len(part) /\ (at + k) - at = k
    OBVIOUS
  <2> QED BY <1>1, <2>1
<1> QED BY <1>1, <1>4, <1>5 DEF out

\* read_pdo of a transport gives the bytes of the point.
LEMMA SegmentShape ==
  ASSUME NEW bytes \in Seq(Byte), NEW point \in PdoPoint, Fits(bytes, point)
  PROVE  /\ Segment(bytes, point) \in Seq(Byte)
         /\ Len(Segment(bytes, point)) = ByteLen(point.type)
         /\ \A k \in 1..ByteLen(point.type) : Segment(bytes, point)[k] = bytes[point.byte + k]
<1>1. point.byte \in Nat /\ ByteLen(point.type) \in Nat
  BY PointFields, ByteLenType
<1>2. point.byte + ByteLen(point.type) <= Len(bytes)
  BY DEF Fits
<1> DEFINE a == point.byte
           b == ByteLen(point.type)
<1>3. Segment(bytes, point) = SubSeq(bytes, a + 1, a + b)
  BY DEF Segment
<1> HIDE DEF a, b
<1>4. a \in Nat /\ b \in Nat /\ a + b <= Len(bytes)
  BY <1>1, <1>2 DEF a, b
<1>5. SubSeq(bytes, a + 1, a + b) = [i \in 1..b |-> bytes[a + i]]
  BY <1>4
<1>6. \A i \in 1..b : bytes[a + i] \in Byte
  BY <1>4
<1> DEFINE s == Segment(bytes, point)
<1>7. s = [i \in 1..b |-> bytes[a + i]]
  BY <1>3, <1>5
<1> HIDE DEF s
<1>8. s \in Seq(Byte) /\ Len(s) = b /\ \A i \in 1..b : s[i] = bytes[a + i]
  BY <1>4, <1>6, <1>7
<1> QED BY <1>8 DEF a, b, s

\* What the number of a point is written as.
Digits(point, x) ==
  ToBytes(Clamp(Number(x), TypeMin(point.type), TypeMax(point.type)), ByteLen(point.type))

\* The bytes a number is written as read back as the number, cut to its type
\* (lib.rs: write_pdo_value, read_pdo_value).
LEMMA DigitsShape ==
  ASSUME NEW point \in PdoPoint, point.type # "BOOL", NEW x, IsValue(x)
  PROVE  /\ Digits(point, x) \in Seq(Byte) /\ Len(Digits(point, x)) = ByteLen(point.type)
         /\ Decode(point.type, FromBytes(Digits(point, x))) = Cut(point, x)
<1> DEFINE c == Clamp(Number(x), TypeMin(point.type), TypeMax(point.type))
<1>1. Number(x) \in Int /\ point.type \in PdoType /\ ByteLen(point.type) \in Nat
  BY ValueType, PointFields, ByteLenType
<1>2. c \in Int /\ Decode(point.type, c % Pow2(ByteBits * ByteLen(point.type))) = Num(c)
  BY <1>1, LimitsFit
<1>3. Digits(point, x) = ToBytes(c, ByteLen(point.type)) /\ Cut(point, x) = Num(c)
  BY DEF Digits, Cut
<1> HIDE DEF c
<1>4. FromBytes(ToBytes(c, ByteLen(point.type))) = c % Pow2(ByteBits * ByteLen(point.type))
  BY <1>1, <1>2, BytesRoundTrip
<1>5. ToBytes(c, ByteLen(point.type)) \in Seq(Byte) /\ Len(ToBytes(c, ByteLen(point.type))) = ByteLen(point.type)
  BY <1>1, <1>2, ToBytesShape
<1> QED BY <1>2, <1>3, <1>4, <1>5

\* Bytes that hold a value at a point are read as that value.
LEMMA ReadsBack ==
  ASSUME NEW bytes \in Seq(Byte), NEW point \in PdoPoint, Fits(bytes, point), NEW x, IsValue(x),
         point.type = "BOOL" => BitSet(bytes[point.byte + 1], point.bit) = Truth(x),
         point.type # "BOOL" => Segment(bytes, point) = Digits(point, x)
  PROVE  ReadPdo(bytes, point) = Cut(point, x)
<1>1. CASE point.type = "BOOL"
  BY <1>1, ReadIsDecode DEF Cut
<1>2. CASE point.type # "BOOL"
  <2>1. Decode(point.type, FromBytes(Digits(point, x))) = Cut(point, x)
    BY <1>2, DigitsShape
  <2> QED BY <1>2, <2>1, ReadIsDecode
<1> QED BY <1>1, <1>2

\* A reading depends on the bytes of its point, of a bit on that bit alone.
LEMMA ReadsItsOwn ==
  ASSUME NEW a \in Seq(Byte), NEW b \in Seq(Byte), Len(a) = Len(b), NEW point \in PdoPoint,
         Fits(a, point) =>
           \/ \A k \in 1..ByteLen(point.type) : a[point.byte + k] = b[point.byte + k]
           \/ /\ point.type = "BOOL"
              /\ BitSet(a[point.byte + 1], point.bit) = BitSet(b[point.byte + 1], point.bit)
  PROVE  ReadPdo(a, point) = ReadPdo(b, point)
<1>1. CASE ~Fits(a, point)
  <2>1. ~Fits(b, point)
    BY <1>1 DEF Fits
  <2> QED BY <1>1, <2>1 DEF ReadPdo
<1>2. CASE Fits(a, point)
  <2>1. Fits(b, point)
    BY <1>2 DEF Fits
  <2>2. CASE point.type = "BOOL"
    <3>1. BitSet(a[point.byte + 1], point.bit) = BitSet(b[point.byte + 1], point.bit)
      <4>1. 1 \in 1..ByteLen(point.type)
        BY <2>2, ByteLenType
      <4> QED BY <1>2, <4>1
    <3> QED BY <1>2, <2>1, <2>2, <3>1, ReadIsDecode
  <2>3. CASE point.type # "BOOL"
    <3>1. Segment(a, point) = Segment(b, point)
      <4> DEFINE s == Segment(a, point)
                 t == Segment(b, point)
      <4>1. s \in Seq(Byte) /\ Len(s) = ByteLen(point.type)
            /\ \A k \in 1..ByteLen(point.type) : s[k] = a[point.byte + k]
        BY <1>2, SegmentShape
      <4>2. t \in Seq(Byte) /\ Len(t) = ByteLen(point.type)
            /\ \A k \in 1..ByteLen(point.type) : t[k] = b[point.byte + k]
        BY <2>1, SegmentShape
      <4> HIDE DEF s, t
      <4>3. \A k \in 1..Len(s) : s[k] = t[k]
        BY <1>2, <2>3, <4>1, <4>2
      <4>4. s = t
        BY <4>1, <4>2, <4>3
      <4> QED BY <4>4 DEF s, t
    <3> QED BY <1>2, <2>1, <2>3, <3>1, ReadIsDecode
  <2> QED BY <2>2, <2>3
<1> QED BY <1>1, <1>2

\* What write_pdo_value makes of a part of the bytes that starts with the point: it sets the
\* bit, or the bytes of the number.
LEMMA LocalWrite ==
  ASSUME NEW segment \in Seq(Byte), NEW point \in PdoPoint, Len(segment) = ByteLen(point.type),
         NEW x, IsValue(x)
  PROVE  LET out == WritePdo(segment, Local(point), x) IN
         /\ out.done = "Done" /\ out.bytes \in Seq(Byte) /\ Len(out.bytes) = ByteLen(point.type)
         /\ point.type = "BOOL" => out.bytes[1] = WithBit(segment[1], point.bit, Truth(x))
         /\ point.type # "BOOL" => out.bytes = Digits(point, x)
<1> DEFINE here == Local(point)
           out  == WritePdo(segment, here, x)
<1>1. here.byte = 0 /\ here.bit = point.bit /\ here.type = point.type
      /\ point.bit \in 0..ByteBits - 1 /\ point.type \in PdoType
  BY PointFields
<1>2. ByteLen(point.type) \in Nat /\ ByteLen(point.type) >= 1 /\ Truth(x) \in BOOLEAN
  BY <1>1, ByteLenType, ValueType
<1> HIDE DEF here
<1>3. Fits(segment, here)
  BY <1>1, <1>2 DEF Fits
<1>4. out.done = "Done"
  BY <1>3 DEF WritePdo
<1>5. CASE point.type = "BOOL"
  <2>1. out.bytes = [segment EXCEPT ![1] = WithBit(segment[1], point.bit, Truth(x))]
    BY <1>1, <1>3, <1>5 DEF WritePdo
  <2>2. WithBit(segment[1], point.bit, Truth(x)) \in Byte
    <3>1. segment[1] \in Byte /\ ByteBits \in Nat
      BY <1>2, ByteBitsAssumption
    <3> QED BY <1>1, <1>2, <3>1, WithBitSets DEF Byte
  <2> HIDE DEF out
  <2>3. out.bytes \in Seq(Byte) /\ Len(out.bytes) = Len(segment)
        /\ out.bytes[1] = WithBit(segment[1], point.bit, Truth(x))
    BY <1>2, <2>1, <2>2
  <2> QED BY <1>4, <1>5, <2>3 DEF out, here
<1>6. CASE point.type # "BOOL"
  <2>1. out.bytes = Replaced(segment, 0, Digits(point, x))
    BY <1>1, <1>3, <1>6 DEF WritePdo, Digits
  <2> DEFINE d == Digits(point, x)
             o == Replaced(segment, 0, d)
  <2>2. d \in Seq(Byte) /\ Len(d) = ByteLen(point.type)
    BY <1>6, DigitsShape
  <2> HIDE DEF d
  <2>3. o \in Seq(Byte) /\ Len(o) = Len(segment) /\ \A k \in 1..Len(d) : o[0 + k] = d[k]
    BY <1>2, <2>2, ReplacedShape
  <2> HIDE DEF o
  <2>4. o = d
    BY <2>2, <2>3
  <2> QED BY <1>4, <1>6, <2>1, <2>2, <2>4 DEF out, here, d, o
<1> QED BY <1>5, <1>6

\* The output bytes after the segment of a point, changed, was written back.
Back(outputs, point, segment, x) ==
  Replaced(outputs, point.byte, WritePdo(segment, Local(point), x).bytes)

\* The segment of a point, changed and written back: the point reads as what was written, the
\* other bytes are kept, and of its own byte the other bits of the segment come back
\* (lib.rs: EtherCatTransportHal::write_symbol).
LEMMA WrittenBack ==
  ASSUME NEW outputs \in Seq(Byte), NEW point \in PdoPoint, Fits(outputs, point),
         NEW segment \in Seq(Byte), Len(segment) = ByteLen(point.type), NEW x, IsValue(x)
  PROVE  LET out == Back(outputs, point, segment, x) IN
         /\ out \in Seq(Byte) /\ Len(out) = Len(outputs)
         /\ \A k \in 1..Len(outputs) : k - 1 \notin BytesOf(point) => out[k] = outputs[k]
         /\ ReadPdo(out, point) = Cut(point, x)
         /\ point.type = "BOOL" =>
              \A j \in 0..ByteBits - 1 :
                j # point.bit => BitSet(out[point.byte + 1], j) = BitSet(segment[1], j)
<1> DEFINE part == WritePdo(segment, Local(point), x).bytes
           len  == ByteLen(point.type)
           out  == Back(outputs, point, segment, x)
<1>0. out = Replaced(outputs, point.byte, part)
  BY DEF Back
<1>1. point.byte \in Nat /\ point.bit \in 0..ByteBits - 1 /\ len \in Nat /\ len >= 1
  BY PointFields, ByteLenType
<1>2. /\ part \in Seq(Byte) /\ Len(part) = len
      /\ point.type = "BOOL" => part[1] = WithBit(segment[1], point.bit, Truth(x))
      /\ point.type # "BOOL" => part = Digits(point, x)
  BY LocalWrite
<1>3. point.byte + len <= Len(outputs)
  BY DEF Fits
<1> HIDE DEF part, out
<1>4. /\ out \in Seq(Byte) /\ Len(out) = Len(outputs)
      /\ \A k \in 1..len : out[point.byte + k] = part[k]
      /\ \A k \in 1..Len(outputs) : ~(k > point.byte /\ k <= point.byte + len) => out[k] = outputs[k]
  <2>1. point.byte + Len(part) <= Len(outputs)
    BY <1>2, <1>3
  <2>2. /\ out \in Seq(Byte) /\ Len(out) = Len(outputs)
        /\ \A k \in 1..Len(part) : out[point.byte + k] = part[k]
        /\ \A k \in 1..Len(outputs) :
             ~(k > point.byte /\ k <= point.byte + Len(part)) => out[k] = outputs[k]
    BY <1>0, <1>1, <1>2, <2>1, ReplacedShape
  <2> QED BY <1>2, <2>2
<1>5. \A k \in 1..Len(outputs) : k - 1 \notin BytesOf(point) => out[k] = outputs[k]
  <2>1. \A k \in 1..Len(outputs) : k > point.byte /\ k <= point.byte + len => k - 1 \in BytesOf(point)
    BY <1>1 DEF BytesOf
  <2> QED BY <1>4, <2>1
<1>6. Fits(out, point)
  BY <1>3, <1>4 DEF Fits
<1>7. CASE point.type = "BOOL"
  <2> DEFINE byte == segment[1]
             new  == out[point.byte + 1]
  <2>1. new = WithBit(byte, point.bit, Truth(x))
    <3>1. 1 \in 1..len
      BY <1>1
    <3>2. new = part[1]
      BY <1>4, <3>1
    <3> QED BY <1>2, <1>7, <3>2
  <2>2. byte \in Byte /\ ByteBits \in Nat /\ Truth(x) \in BOOLEAN
    BY <1>1, ValueType, ByteBitsAssumption
  <2> HIDE DEF byte, new
  <2>3. BitSet(new, point.bit) = Truth(x)
        /\ \A j \in 0..ByteBits - 1 : j # point.bit => BitSet(new, j) = BitSet(byte, j)
    BY <1>1, <2>1, <2>2, WithBitSets DEF Byte
  <2>4. ReadPdo(out, point) = Cut(point, x)
    BY <1>4, <1>6, <1>7, <2>3, ReadsBack DEF new
  <2> QED BY <1>4, <1>5, <2>3, <2>4 DEF new, byte, out
<1>8. CASE point.type # "BOOL"
  <2>1. Segment(out, point) = part
    <3> DEFINE s == Segment(out, point)
    <3>1. s \in Seq(Byte) /\ Len(s) = len /\ \A k \in 1..len : s[k] = out[point.byte + k]
      BY <1>4, <1>6, SegmentShape
    <3> HIDE DEF s, len
    <3>2. s = part
      BY <1>2, <1>4, <3>1
    <3> QED BY <3>2 DEF s
  <2>2. ReadPdo(out, point) = Cut(point, x)
    BY <1>2, <1>4, <1>6, <1>8, <2>1, ReadsBack
  <2> QED BY <1>4, <1>5, <1>8, <2>2 DEF out
<1> QED BY <1>7, <1>8

\* In memory and over a transport the same bytes are written.
LEMMA WriteIsTransport ==
  ASSUME NEW outputs \in Seq(Byte), NEW point \in PdoPoint, Fits(outputs, point),
         NEW x, IsValue(x)
  PROVE  WritePdo(outputs, point, x).bytes =
           Replaced(outputs, point.byte, WritePdo(Segment(outputs, point), Local(point), x).bytes)
<1> DEFINE segment == Segment(outputs, point)
           part    == WritePdo(segment, Local(point), x).bytes
           len     == ByteLen(point.type)
<1>1. point.byte \in Nat /\ len \in Nat /\ len >= 1 /\ point.byte + len <= Len(outputs)
  BY PointFields, ByteLenType DEF Fits
<1>2. segment \in Seq(Byte) /\ Len(segment) = len
      /\ \A k \in 1..len : segment[k] = outputs[point.byte + k]
  BY SegmentShape
<1> HIDE DEF segment
<1>3. /\ part \in Seq(Byte) /\ Len(part) = len
      /\ point.type = "BOOL" => part[1] = WithBit(segment[1], point.bit, Truth(x))
      /\ point.type # "BOOL" => part = Digits(point, x)
  BY <1>2, LocalWrite
<1> HIDE DEF part
<1>4. CASE point.type = "BOOL"
  <2> DEFINE a == point.byte
             b == WithBit(outputs[a + 1], point.bit, Truth(x))
             out == Replaced(outputs, a, part)
  <2>1. WritePdo(outputs, point, x).bytes = [outputs EXCEPT ![a + 1] = b]
    BY <1>4 DEF WritePdo
  <2>2. len = 1 /\ part[1] = b
    BY <1>1, <1>2, <1>3, <1>4, ByteLenType
  <2>3. /\ out \in Seq(Byte) /\ Len(out) = Len(outputs)
        /\ \A k \in 1..Len(part) : out[a + k] = part[k]
        /\ \A k \in 1..Len(outputs) : ~(k > a /\ k <= a + Len(part)) => out[k] = outputs[k]
    BY <1>1, <1>3, ReplacedShape
  <2>4. a \in Nat
    BY <1>1
  <2> HIDE DEF a, b, out, len
  <2>5. out[a + 1] = b
    BY <1>3, <2>2, <2>3
  <2>6. \A k \in 1..Len(outputs) : k # a + 1 => out[k] = outputs[k]
    BY <1>3, <2>2, <2>3, <2>4
  <2>7. out = [outputs EXCEPT ![a + 1] = b]
    <3>1. DOMAIN out = DOMAIN outputs /\ out = [k \in DOMAIN outputs |-> out[k]]
      BY <2>3
    <3>2. \A k \in DOMAIN outputs : out[k] = IF k = a + 1 THEN b ELSE outputs[k]
      BY <2>5, <2>6
    <3> QED BY <3>1, <3>2
  <2> QED BY <2>1, <2>7 DEF out, a, segment, part
<1>5. CASE point.type # "BOOL"
  BY <1>3, <1>5 DEF WritePdo, Digits, segment, part
<1> QED BY <1>4, <1>5

\* The HAL over a transport and the one over the image write the same bytes and accept the
\* same points (lib.rs: EtherCatTransportHal::write_symbol, PdoImage).
LEMMA TransportDone ==
  ASSUME NEW outputs \in Seq(Byte), NEW point \in PdoPoint, NEW x, IsValue(x)
  PROVE  /\ TransportWrite(outputs, point, x).bytes = ImageWrite(outputs, point, x).bytes
         /\ TransportWrite(outputs, point, x).done = "Done"
              <=> ImageWrite(outputs, point, x).done = "Done"
         /\ ImageWrite(outputs, point, x).done = "Done"
              <=> point.area = "Output" /\ Fits(outputs, point)
         /\ ImageWrite(outputs, point, x).done # "Done" => ImageWrite(outputs, point, x).bytes = outputs
<1>1. CASE point.area # "Output"
  BY <1>1 DEF TransportWrite, ImageWrite
<1>2. CASE point.area = "Output" /\ ~Fits(outputs, point)
  BY <1>2 DEF TransportWrite, ImageWrite, WritePdo
<1>3. CASE point.area = "Output" /\ Fits(outputs, point)
  <2>1. ImageWrite(outputs, point, x) = WritePdo(outputs, point, x)
    BY <1>3 DEF ImageWrite
  <2>2. WritePdo(outputs, point, x).done = "Done"
    BY <1>3 DEF WritePdo
  <2>3. /\ TransportWrite(outputs, point, x).done = "Done"
        /\ TransportWrite(outputs, point, x).bytes =
             Replaced(outputs, point.byte, WritePdo(Segment(outputs, point), Local(point), x).bytes)
    BY <1>3 DEF TransportWrite
  <2> QED BY <1>3, <2>1, <2>2, <2>3, WriteIsTransport
<1> QED BY <1>1, <1>2, <1>3

\* What is read in a segment is what is read in place.
LEMMA TransportReads ==
  ASSUME NEW bytes \in Seq(Byte), NEW point \in PdoPoint, Fits(bytes, point)
  PROVE  TransportRead(bytes, point) = ReadPdo(bytes, point)
<1> DEFINE s    == Segment(bytes, point)
           here == Local(point)
           len  == ByteLen(point.type)
<1>1. /\ s \in Seq(Byte) /\ Len(s) = len
      /\ \A k \in 1..len : s[k] = bytes[point.byte + k]
  BY SegmentShape
<1>2. here \in PdoPoint /\ here.byte = 0 /\ here.bit = point.bit /\ here.type = point.type
  BY DEF PdoPoint, Local
<1>3. len \in Nat /\ len >= 1
  BY PointFields, ByteLenType
<1>4. TransportRead(bytes, point) = ReadPdo(s, here)
  BY DEF TransportRead
<1> HIDE DEF s, here
<1>5. Fits(s, here)
  BY <1>1, <1>2, <1>3 DEF Fits
<1>6. Segment(s, here) = s
  <2> DEFINE t == Segment(s, here)
  <2>1. /\ t \in Seq(Byte) /\ Len(t) = len
        /\ \A k \in 1..len : t[k] = s[0 + k]
    BY <1>1, <1>2, <1>5, SegmentShape
  <2> HIDE DEF t, len
  <2>2. t = s
    BY <1>1, <1>3, <2>1
  <2> QED BY <2>2 DEF t
<1>7. s[here.byte + 1] = bytes[point.byte + 1]
  BY <1>1, <1>2, <1>3
<1> HIDE DEF len
<1>8. ReadPdo(s, here) =
        IF point.type = "BOOL" THEN Flag(BitSet(bytes[point.byte + 1], point.bit))
        ELSE Decode(point.type, FromBytes(Segment(bytes, point)))
  BY <1>2, <1>5, <1>6, <1>7, ReadIsDecode DEF s
<1> QED BY <1>4, <1>8, ReadIsDecode

(***************************************************************************)
(* The mapping and the tables of entries.                                  *)
(***************************************************************************)
\* Of some lines or entries there is a last one (lib.rs: load_mapping, scan's order of writes).
LEMMA GreatestIndex ==
  ASSUME NEW n \in Nat, NEW T, T \subseteq 1..n, T # {}
  PROVE  \E m \in T : \A k \in T : k <= m
<1> DEFINE Tops == {m \in Nat : \A U : U \subseteq 1..m /\ U # {} => \E g \in U : \A k \in U : k <= g}
<1>1. 0 \in Tops
  OBVIOUS
<1>2. ASSUME NEW m \in Nat, m \in Tops PROVE m + 1 \in Tops
  <2>1. SUFFICES ASSUME NEW U, U \subseteq 1..m + 1, U # {}
                 PROVE  \E g \in U : \A k \in U : k <= g
    OBVIOUS
  <2>2. CASE m + 1 \in U
    BY <2>1, <2>2
  <2>3. CASE m + 1 \notin U
    <3>1. U \subseteq 1..m
      BY <2>1, <2>3
    <3> QED BY <1>2, <2>1, <3>1
  <2> QED BY <2>2, <2>3
<1> HIDE DEF Tops
<1>3. n \in Tops
  BY <1>1, <1>2, AllNaturals
<1> QED BY <1>3 DEF Tops

\* Every symbol that is bound is bound to a point of a line (lib.rs: load_mapping).
LEMMA BoundPoint ==
  \A point \in Range(Bindings) : point \in PdoPoint \cup ModbusPoint \cup RosPoint
<1> DEFINE bound == {i \in DOMAIN Lines : Lines[i] # NoValue}
           Latest(key) == CHOOSE i \in bound :
                            Lines[i].key = key /\ \A j \in bound : Lines[j].key = key => j <= i
<1>1. Bindings = [key \in {Lines[i].key : i \in bound} |-> Lines[Latest(key)].point]
  BY DEF Bindings, Loaded
<1>2. LineAssumption
  BY BusAssumption
<1>3. DOMAIN Lines = 1..Len(Lines) /\ Len(Lines) \in Nat
  BY <1>2 DEF LineAssumption
<1>4. \A i \in bound : Lines[i].point \in PdoPoint \cup ModbusPoint \cup RosPoint
  BY <1>2 DEF LineAssumption
<1>5. bound \subseteq 1..Len(Lines)
  BY <1>3
<1> HIDE DEF bound
<1>6. ASSUME NEW key \in {Lines[i].key : i \in bound} PROVE Latest(key) \in bound
  <2> DEFINE T == {i \in bound : Lines[i].key = key}
  <2>1. T \subseteq 1..Len(Lines) /\ T # {}
    BY <1>5, <1>6
  <2> HIDE DEF T
  <2>2. PICK m \in T : \A k \in T : k <= m
    BY <1>3, <2>1, GreatestIndex
  <2>3. m \in bound /\ Lines[m].key = key /\ \A j \in bound : Lines[j].key = key => j <= m
    BY <2>2 DEF T
  <2> QED BY <2>3
<1> HIDE DEF Latest
<1> QED BY <1>1, <1>4, <1>6 DEF Range

\* What a symbol is bound to is a point of a line (lib.rs: binding_for, point_for).
LEMMA BindingPoint ==
  \A entry : Binding(entry) # NoValue =>
    Binding(entry) \in PdoPoint \cup ModbusPoint \cup RosPoint /\ Binding(entry) \in Range(Bindings)
BY BoundPoint DEF Binding, PointFor, Range

\* The points of the three buses differ in kind.
LEMMA BusOfPoint ==
  /\ \A point \in PdoPoint : point.bus = "ethercat"
  /\ \A point \in ModbusPoint : point.bus = "modbus"
  /\ \A point \in RosPoint : point.bus = "ros"
BY DEF PdoPoint, ModbusPoint, RosPoint

\* program_vars_with_retain is a list.
LEMMA VarsShape ==
  /\ VarsWithRetain \in Seq(Range(VarsWithRetain))
  /\ DOMAIN VarsWithRetain = 1..Len(VarsWithRetain) /\ Len(VarsWithRetain) \in Nat
  /\ \A k \in DOMAIN Blocks : Blocks[k].kind \notin {"ACCESS", "EXTERNAL"} =>
       \A j \in DOMAIN Blocks[k].vars :
         \E i \in DOMAIN VarsWithRetain : VarsWithRetain[i].var = Blocks[k].vars[j]
<1> DEFINE list == [k \in DOMAIN Blocks |->
              IF Blocks[k].kind \in {"ACCESS", "EXTERNAL"} THEN <<>>
              ELSE [j \in DOMAIN Blocks[k].vars |-> [var |-> Blocks[k].vars[j], retain |-> Blocks[k].retain]]]
           S == UNION {Range(list[k]) : k \in DOMAIN Blocks}
<1>1. VarsWithRetain = Flat(list)
  BY DEF VarsWithRetain
<1>2. DOMAIN Blocks = 1..Len(Blocks) /\ Len(Blocks) \in Nat
  BY BlocksAssumption DEF WellFormedBlocks
<1>3. \A k \in DOMAIN Blocks : DOMAIN Blocks[k].vars = 1..Len(Blocks[k].vars) /\ Len(Blocks[k].vars) \in Nat
  BY BlocksAssumption DEF WellFormedBlocks
<1>4. \A k \in DOMAIN Blocks : list[k] \in Seq(S)
  <2> SUFFICES ASSUME NEW k \in DOMAIN Blocks PROVE list[k] \in Seq(S)
    OBVIOUS
  <2>1. Range(list[k]) \subseteq S
    OBVIOUS
  <2>2. CASE Blocks[k].kind \in {"ACCESS", "EXTERNAL"}
    <3>1. list[k] = <<>>
      BY <2>2
    <3> HIDE DEF list, S
    <3> QED BY <3>1
  <2>3. CASE Blocks[k].kind \notin {"ACCESS", "EXTERNAL"}
    <3>1. DOMAIN list[k] = 1..Len(Blocks[k].vars) /\ list[k] = [j \in 1..Len(Blocks[k].vars) |-> list[k][j]]
      BY <1>3, <2>3
    <3> HIDE DEF list, S
    <3> QED BY <1>3, <2>1, <3>1 DEF Range
  <2> QED BY <2>2, <2>3
<1>5. list \in Seq(Seq(S))
  <2>1. DOMAIN list = 1..Len(Blocks) /\ list = [k \in 1..Len(Blocks) |-> list[k]]
    BY <1>2
  <2> HIDE DEF list, S
  <2> QED BY <1>2, <1>4, <2>1
<1>20. \A k \in DOMAIN Blocks : Blocks[k].kind \notin {"ACCESS", "EXTERNAL"} =>
        /\ DOMAIN list[k] = DOMAIN Blocks[k].vars
        /\ \A j \in DOMAIN Blocks[k].vars : list[k][j].var = Blocks[k].vars[j]
  OBVIOUS
<1>21. DOMAIN list = DOMAIN Blocks
  OBVIOUS
<1> HIDE DEF list, S
<1>6. /\ VarsWithRetain \in Seq(S)
      /\ \A i \in DOMAIN list : \A j \in DOMAIN list[i] :
           \E k \in DOMAIN VarsWithRetain : VarsWithRetain[k] = list[i][j]
  BY <1>1, <1>5, FlatShape
<1>7. DOMAIN VarsWithRetain = 1..Len(VarsWithRetain) /\ Len(VarsWithRetain) \in Nat
  BY <1>6
<1>8. VarsWithRetain = [k \in DOMAIN VarsWithRetain |-> VarsWithRetain[k]]
  BY <1>6
<1>9. VarsWithRetain \in Seq(Range(VarsWithRetain))
  BY <1>7, <1>8 DEF Range
<1>10. ASSUME NEW k \in DOMAIN Blocks, Blocks[k].kind \notin {"ACCESS", "EXTERNAL"},
              NEW j \in DOMAIN Blocks[k].vars
       PROVE  \E i \in DOMAIN VarsWithRetain : VarsWithRetain[i].var = Blocks[k].vars[j]
  <2>1. j \in DOMAIN list[k] /\ list[k][j].var = Blocks[k].vars[j] /\ k \in DOMAIN list
    BY <1>10, <1>20, <1>21
  <2>2. PICK i \in DOMAIN VarsWithRetain : VarsWithRetain[i] = list[k][j]
    BY <1>6, <2>1
  <2> QED BY <2>1, <2>2
<1> QED BY <1>7, <1>9, <1>10

\* A located variable is a scalar of the struct, a direct location a field of its own: the
\* field of every entry is there (state.rs: io_entries_for_program).
LEMMA EntriesShape ==
  /\ DOMAIN IoEntries = 1..Len(IoEntries) /\ Len(IoEntries) \in Nat
  /\ \A k \in DOMAIN IoEntries : IoEntries[k].leaf \in Leaves
<1> DEFINE V       == VarsWithRetain
           At1     == {k \in DOMAIN V : V[k].var.location # NoValue}
           located == Kept(V, At1)
           a == [k \in DOMAIN located |-> [leaf |-> <<located[k].var.name>>, name |-> located[k].var.name,
                                           location |-> located[k].var.location]]
           b == [k \in DOMAIN DirectRefs |-> [leaf |-> <<DirectRefs[k]>>, name |-> DirectRefs[k],
                                              location |-> DirectRefs[k]]]
<1>1. IoEntries = a \o b
  BY DEF IoEntries
<1>2. V \in Seq(Range(V))
  BY VarsShape
<1>3. /\ located \in Seq(Range(V))
      /\ \A k \in DOMAIN located : \E i \in DOMAIN V \cap At1 : located[k] = V[i]
  <2> HIDE DEF V, At1
  <2> QED BY <1>2, KeptShape
<1>4. \E S : DirectRefs \in Seq(S)
  <2>1. Locations \in Seq(Range(Locations))
    BY BlocksAssumption DEF WellFormedBlocks
  <2>2. \A P : Kept(Locations, P) \in Seq(Range(Locations))
    BY <2>1, KeptShape
  <2> QED BY <2>2 DEF DirectRefs
<1>5. DOMAIN DirectRefs = 1..Len(DirectRefs) /\ Len(DirectRefs) \in Nat
  BY <1>4
<1>6. DOMAIN located = 1..Len(located) /\ Len(located) \in Nat
  BY <1>3
<1>7. \A k \in DOMAIN a : a[k].leaf \in Leaves
  <2> SUFFICES ASSUME NEW k \in DOMAIN located PROVE <<located[k].var.name>> \in Leaves
    OBVIOUS
  <2>1. PICK i \in DOMAIN V \cap At1 : located[k] = V[i]
    BY <1>3
  <2>2. V[i].var \in Declared /\ V[i].var.location # NoValue
    BY DEF Declared
  <2>3. V[i].var.kind = "scalar"
    BY <2>2, BlocksAssumption DEF WellFormedBlocks
  <2>4. <<V[i].var.name>> \in LeavesOf(V[i].var)
    BY <2>3 DEF LeavesOf
  <2>5. <<V[i].var.name>> \in DeclaredLeaves
    BY <2>2, <2>4 DEF DeclaredLeaves
  <2> QED BY <2>1, <2>5 DEF Leaves
<1>8. \A k \in DOMAIN b : b[k].leaf \in Leaves
  BY DEF Leaves, DirectLeaves, Range
<1> DEFINE S == Range(a) \cup Range(b)
<1>9. a \in Seq(S) /\ b \in Seq(S)
  <2>1. DOMAIN a = 1..Len(located) /\ a = [k \in 1..Len(located) |-> a[k]]
    BY <1>6
  <2>2. DOMAIN b = 1..Len(DirectRefs) /\ b = [k \in 1..Len(DirectRefs) |-> b[k]]
    BY <1>5
  <2> HIDE DEF a, b, located
  <2> QED BY <1>5, <1>6, <2>1, <2>2 DEF Range
<1> HIDE DEF a, b, S
<1>10. /\ a \o b \in Seq(S) /\ Len(a \o b) = Len(a) + Len(b)
       /\ \A k \in 1..Len(a) + Len(b) : (a \o b)[k] = IF k <= Len(a) THEN a[k] ELSE b[k - Len(a)]
  BY <1>9
<1>11. \A k \in 1..Len(a) + Len(b) : (a \o b)[k].leaf \in Leaves
  BY <1>7, <1>8, <1>9, <1>10
<1>12. DOMAIN (a \o b) = 1..Len(a \o b) /\ Len(a \o b) \in Nat
  BY <1>10
<1> QED BY <1>1, <1>10, <1>11, <1>12

(***************************************************************************)
(* The adapters that work in memory and those that work over a transport.  *)
(***************************************************************************)
\* An output image has as many bytes as at first.
LEMMA Images ==
  ASSUME NEW bytes \in OutputImages
  PROVE  bytes \in Seq(Byte) /\ Len(bytes) = Len(InitialOutputs)
<1>1. DOMAIN InitialOutputs = 1..Len(InitialOutputs) /\ Len(InitialOutputs) \in Nat
  BY BusAssumption
<1>2. bytes \in [1..Len(InitialOutputs) -> Byte]
  BY <1>1 DEF OutputImages, Byte
<1> QED BY <1>1, <1>2

\* Bytes of the right number are an output image.
LEMMA ImageOf ==
  ASSUME NEW bytes \in Seq(Byte), Len(bytes) = Len(InitialOutputs)
  PROVE  bytes \in OutputImages
<1>1. DOMAIN InitialOutputs = 1..Len(InitialOutputs) /\ Len(InitialOutputs) \in Nat
  BY BusAssumption
<1>2. bytes \in [1..Len(InitialOutputs) -> Byte]
  BY <1>1
<1> QED BY <1>1, <1>2 DEF OutputImages, Byte

\* The points AdaptersAgree ranges over are bits or numbers of the process image.
LEMMA PdoPointsArePoints == PdoPoints \subseteq PdoPoint
<1>1. \A point \in Range(Bindings) : point.bus = "ethercat" => point \in PdoPoint
  BY BoundPoint, BusOfPoint
<1>2. \A point \in Rival : point \in PdoPoint
  BY BusAssumption DEF RivalAssumption
<1> QED BY <1>1, <1>2 DEF PdoPoints

\* So are the values: those of written fields, and a text.
LEMMA PdoValuesAreValues == \A x \in PdoValues : IsValue(x)
<1>1. \A k \in Writes : \A x \in RangeOf[IoEntries[k].leaf] : IsValue(x)
  BY EntriesShape, TypeAssumption DEF WellTyped, Writes
<1>2. IsValue(Text(NoValue))
  BY DEF IsValue, Text
<1>3. \A x \in PdoValues : x = Text(NoValue) \/ \E k \in Writes : x \in RangeOf[IoEntries[k].leaf]
  <2> SUFFICES ASSUME NEW x \in PdoValues
      PROVE  x = Text(NoValue) \/ \E k \in Writes : x \in RangeOf[IoEntries[k].leaf]
    OBVIOUS
  <2> DEFINE ranges == {RangeOf[IoEntries[k].leaf] : k \in Writes}
  <2>1. x \in (UNION ranges) \cup {Text(NoValue)}
    BY DEF PdoValues
  <2>2. CASE x \in UNION ranges
    <3>1. PICK s \in ranges : x \in s
      BY <2>2
    <3> QED BY <3>1
  <2> HIDE DEF ranges
  <2> QED BY <2>1, <2>2
<1> QED BY <1>1, <1>2, <1>3

\* The bit n of the bytes is bit n % ByteBits of byte n \div ByteBits.
LEMMA BitPosition ==
  ASSUME NEW n \in Nat, NEW len \in Nat, n <= ByteBits * len - 1
  PROVE  /\ n \div ByteBits \in 0..len - 1 /\ n % ByteBits \in 0..ByteBits - 1
         /\ n = ByteBits * (n \div ByteBits) + (n % ByteBits)
<1> DEFINE B == ByteBits
           d == n \div B
           r == n % B
<1>1. B \in Nat \ {0}
  BY ByteBitsAssumption
<1> HIDE DEF B
<1>2. n = B * d + r /\ r \in 0..B - 1 /\ d \in Int
  BY <1>1, Divided
<1> HIDE DEF d, r
<1>3. d >= 0
  <2>1. SUFFICES ASSUME d <= -1 PROVE FALSE
    BY <1>2
  <2>2. B * d <= -B
    BY <1>1, <1>2, <2>1
  <2>3. B * d \in Int
    BY <1>1, <1>2
  <2> QED BY <1>1, <1>2, <2>2, <2>3
<1>4. d < len
  <2>1. SUFFICES ASSUME d >= len PROVE FALSE
    BY <1>2
  <2>2. B * d >= B * len
    BY <1>1, <1>2, <2>1
  <2>3. B * d \in Int /\ B * len \in Int
    BY <1>1, <1>2
  <2> QED BY <1>1, <1>2, <2>2, <2>3 DEF B
<1> QED BY <1>2, <1>3, <1>4 DEF B, d, r

\* For every point and value: the bytes are the same, a reading gives the value cut to the
\* type, and no bit of another point is touched.
LEMMA EveryImageExact ==
  ASSUME NEW bytes \in OutputImages
  PROVE  Exact(bytes)
<1> SUFFICES ASSUME NEW point \in PdoPoints, NEW x \in PdoValues
    PROVE  LET image     == ImageWrite(bytes, point, x)
               transport == TransportWrite(bytes, point, x)
               first     == point.byte * ByteBits + (IF point.type = "BOOL" THEN point.bit ELSE 0)
               width     == IF point.type = "BOOL" THEN 1 ELSE ByteBits * ByteLen(point.type)
               bit(b, n) == BitSet(b[n \div ByteBits + 1], n % ByteBits)
           IN  /\ image.bytes = transport.bytes
               /\ image.done = "Done" <=> transport.done = "Done"
               /\ image.done = "Done" =>
                    /\ ReadPdo(image.bytes, point) =
                         IF point.type = "BOOL" THEN Flag(Truth(x))
                         ELSE Num(Clamp(Number(x), TypeMin(point.type), TypeMax(point.type)))
                    /\ TransportRead(image.bytes, point) = ReadPdo(image.bytes, point)
                    /\ \A n \in 0..ByteBits * Len(bytes) - 1 :
                         n \notin first..first + width - 1 => bit(image.bytes, n) = bit(bytes, n)
  BY DEF Exact
<1> DEFINE image == ImageWrite(bytes, point, x)
           first == point.byte * ByteBits + (IF point.type = "BOOL" THEN point.bit ELSE 0)
           width == IF point.type = "BOOL" THEN 1 ELSE ByteBits * ByteLen(point.type)
           out   == Back(bytes, point, Segment(bytes, point), x)
<1>1. bytes \in Seq(Byte) /\ point \in PdoPoint /\ IsValue(x)
  BY Images, PdoPointsArePoints, PdoValuesAreValues
<1>2. /\ image.bytes = TransportWrite(bytes, point, x).bytes
      /\ image.done = "Done" <=> TransportWrite(bytes, point, x).done = "Done"
      /\ image.done = "Done" <=> point.area = "Output" /\ Fits(bytes, point)
  BY <1>1, TransportDone
<1>3. ASSUME image.done = "Done"
      PROVE  /\ ReadPdo(image.bytes, point) = Cut(point, x)
             /\ TransportRead(image.bytes, point) = ReadPdo(image.bytes, point)
             /\ \A n \in 0..ByteBits * Len(bytes) - 1 : n \notin first..first + width - 1 =>
                  BitSet(image.bytes[n \div ByteBits + 1], n % ByteBits)
                    = BitSet(bytes[n \div ByteBits + 1], n % ByteBits)
  <2>1. point.area = "Output" /\ Fits(bytes, point)
    BY <1>2, <1>3
  <2>2. image.bytes = out
    BY <1>1, <2>1, WriteIsTransport DEF ImageWrite, Back
  <2>3. /\ Segment(bytes, point) \in Seq(Byte)
        /\ Len(Segment(bytes, point)) = ByteLen(point.type)
        /\ \A k \in 1..ByteLen(point.type) : Segment(bytes, point)[k] = bytes[point.byte + k]
    BY <1>1, <2>1, SegmentShape
  <2>4. /\ out \in Seq(Byte) /\ Len(out) = Len(bytes)
        /\ \A k \in 1..Len(bytes) : k - 1 \notin BytesOf(point) => out[k] = bytes[k]
        /\ ReadPdo(out, point) = Cut(point, x)
        /\ point.type = "BOOL" =>
             \A j \in 0..ByteBits - 1 : j # point.bit =>
               BitSet(out[point.byte + 1], j) = BitSet(Segment(bytes, point)[1], j)
    <3> DEFINE s == Segment(bytes, point)
    <3>1. s \in Seq(Byte) /\ Len(s) = ByteLen(point.type) /\ out = Back(bytes, point, s, x)
      BY <2>3
    <3> HIDE DEF s, out, image
    <3> QED BY <1>1, <2>1, <3>1, WrittenBack DEF s
  <2> HIDE DEF out
  <2>5. Fits(out, point)
    BY <2>1, <2>4 DEF Fits
  <2>6. TransportRead(out, point) = ReadPdo(out, point)
    BY <1>1, <2>4, <2>5, TransportReads
  <2>7. /\ point.byte \in Nat /\ point.bit \in 0..ByteBits - 1
        /\ ByteLen(point.type) \in Nat /\ ByteLen(point.type) >= 1
        /\ point.type = "BOOL" => ByteLen(point.type) = 1
    BY <1>1, PointFields, ByteLenType
  <2>8. ASSUME NEW n \in 0..ByteBits * Len(bytes) - 1, n \notin first..first + width - 1
        PROVE  BitSet(out[n \div ByteBits + 1], n % ByteBits)
                 = BitSet(bytes[n \div ByteBits + 1], n % ByteBits)
    <3> DEFINE d == n \div ByteBits
               r == n % ByteBits
    <3>1. Len(bytes) \in Nat /\ n \in Nat /\ n <= ByteBits * Len(bytes) - 1
      BY <1>1, ByteBitsAssumption
    <3>2. d \in 0..Len(bytes) - 1 /\ r \in 0..ByteBits - 1 /\ n = ByteBits * d + r
      BY <3>1, BitPosition
    <3> HIDE DEF d, r
    <3>3. CASE d \notin BytesOf(point)
      <4>1. d + 1 \in 1..Len(bytes) /\ (d + 1) - 1 = d
        BY <3>1, <3>2
      <4>2. out[d + 1] = bytes[d + 1]
        BY <2>4, <3>3, <4>1
      <4> QED BY <4>2 DEF d, r
    <3>4. CASE d \in BytesOf(point) /\ point.type = "BOOL"
      <4>1. d = point.byte
        BY <2>7, <3>4 DEF BytesOf
      <4>2. r # point.bit
        <5>1. SUFFICES ASSUME r = point.bit PROVE FALSE
          OBVIOUS
        <5>2. first = point.byte * ByteBits + point.bit /\ width = 1
          BY <3>4
        <5>3. n = first /\ first \in Int
          BY <2>7, <3>2, <4>1, <5>1, <5>2, ByteBitsAssumption
        <5> HIDE DEF first, width
        <5> QED BY <2>8, <5>2, <5>3
      <4>3. Segment(bytes, point)[1] = bytes[point.byte + 1]
        BY <2>3, <2>7
      <4>4. BitSet(out[point.byte + 1], r) = BitSet(bytes[point.byte + 1], r)
        BY <2>4, <3>2, <3>4, <4>2, <4>3
      <4> QED BY <4>1, <4>4 DEF d, r
    <3>5. CASE d \in BytesOf(point) /\ point.type # "BOOL"
      <4> DEFINE a == point.byte
                 len == ByteLen(point.type)
                 B == ByteBits
      <4>1. d \in a..a + len - 1 /\ a \in Nat /\ len \in Nat /\ B \in Nat \ {0}
        BY <2>7, <3>5, ByteBitsAssumption DEF BytesOf
      <4>2. first = a * B /\ width = B * len
        BY <3>5, <4>1
      <4>3. n = B * d + r /\ r \in 0..B - 1
        BY <3>2
      <4> HIDE DEF a, len, B, first, width
      <4>4. B * d >= B * a /\ B * d <= B * (a + len - 1)
        BY <4>1
      <4>5. B * (a + len - 1) = B * a + B * len - B /\ a * B = B * a
        BY <4>1
      <4>6. B * a \in Int /\ B * d \in Int /\ B * len \in Int
        BY <4>1
      <4>7. n \in first..first + width - 1
        BY <4>1, <4>2, <4>3, <4>4, <4>5, <4>6
      <4> QED BY <2>8, <4>7
    <3> QED BY <3>3, <3>4, <3>5
  <2> HIDE DEF first, width, image
  <2> QED BY <2>2, <2>4, <2>6, <2>8
<1> HIDE DEF first, width, image
<1> QED BY <1>2, <1>3 DEF Cut, image, first, width

\* Cutting a number to a register twice is cutting it once (ModbusTransportHal and
\* ModbusImage both do).
LEMMA ClampTwice ==
  ASSUME NEW n \in Int
  PROVE  Register(n) \in Int /\ Register(Register(n)) = Register(n)
<1>1. RegisterMax \in Nat
  <2>1. 2 * ByteBits \in Nat
    BY ByteBitsAssumption
  <2>2. Pow2(2 * ByteBits) \in Nat \ {0}
    BY <2>1, PowerType
  <2> QED BY <2>2 DEF RegisterMax
<1> QED BY <1>1 DEF Register, Clamp

\* A register or coil that is handed through a transport is cut twice, which is as good as once.
LEMMA AlwaysModbus == ModbusAgrees
<1> SUFFICES ASSUME NEW area \in ModbusArea, NEW x \in PdoValues, NEW y \in PdoValues
    PROVE  LET point == [area |-> area, address |-> 0]
               image == ModbusWrite(<<>>, point, y).image
           IN  /\ ModbusWrite(image, point, x) = TransportModbusWrite(image, point, x)
               /\ ModbusRead(image, point) = TransportModbusRead(image, point)
  BY DEF ModbusAgrees
<1> DEFINE point == [area |-> area, address |-> 0]
           image == ModbusWrite(<<>>, point, y).image
<1>1. \A v : IsValue(v) => Truth(v) \in BOOLEAN /\ Number(v) \in Int
  BY ValueType
<1>2. IsValue(x) /\ IsValue(y)
  BY PdoValuesAreValues
<1>3. \A b \in BOOLEAN : Truth(Flag(b)) = b
  BY DEF Truth, Flag
<1>4. \A n \in Int : Number(Num(n)) = n
  BY DEF Number, Num
<1>5. point.area = area
  OBVIOUS
<1> HIDE DEF point
<1>6. ModbusWrite(image, point, x) = TransportModbusWrite(image, point, x)
  <2> HIDE DEF image
  <2>1. CASE area = "Coil"
    <3>1. Truth(Flag(Truth(x))) = Truth(x)
      BY <1>1, <1>2, <1>3
    <3> QED BY <1>5, <2>1, <3>1 DEF ModbusWrite, TransportModbusWrite, Writable, IsBit
  <2>2. CASE area = "HoldingRegister"
    <3>1. Register(Number(Num(Register(Number(x))))) = Register(Number(x))
      BY <1>1, <1>2, <1>4, ClampTwice
    <3> QED BY <1>5, <2>2, <3>1 DEF ModbusWrite, TransportModbusWrite, Writable, IsBit
  <2>3. CASE area \notin {"Coil", "HoldingRegister"}
    BY <1>5, <2>3 DEF ModbusWrite, TransportModbusWrite, Writable
  <2> QED BY <2>1, <2>2, <2>3
<1>7. ModbusRead(image, point) = TransportModbusRead(image, point)
  <2> DEFINE v == IF IsBit(area) THEN Flag(Truth(y)) ELSE Num(Register(Number(y)))
  <2>1. \/ ModbusRead(image, point) = v
        \/ ModbusRead(image, point) = IF IsBit(area) THEN Flag(FALSE) ELSE Num(0)
    <3>1. CASE Writable(area)
      <4>1. image = Stored(<<>>, point, v)
        BY <1>5, <3>1 DEF ModbusWrite
      <4> HIDE DEF image, v
      <4> QED BY <4>1 DEF ModbusRead, Stored
    <3>2. CASE ~Writable(area)
      <4>1. image = <<>>
        BY <1>5, <3>2 DEF ModbusWrite
      <4> HIDE DEF image
      <4>2. point \notin DOMAIN image
        BY <4>1
      <4> QED BY <1>5, <4>2 DEF ModbusRead
    <3> QED BY <3>1, <3>2
  <2>2. CASE IsBit(area)
    <3>1. \E b \in BOOLEAN : ModbusRead(image, point) = Flag(b)
      BY <1>1, <1>2, <2>1, <2>2
    <3> HIDE DEF image
    <3> QED BY <1>3, <1>5, <2>2, <3>1 DEF TransportModbusRead
  <2>3. CASE ~IsBit(area)
    <3>1. Register(0) = 0
      BY ClampTwice, PowerType, ByteBitsAssumption DEF Register, Clamp, RegisterMax
    <3>2. \E n \in Int : ModbusRead(image, point) = Num(n) /\ Register(n) = n
      <4>1. Register(Number(y)) \in Int /\ Register(Register(Number(y))) = Register(Number(y))
        BY <1>1, <1>2, ClampTwice
      <4> HIDE DEF image
      <4> QED BY <2>1, <2>3, <3>1, <4>1
    <3> HIDE DEF image
    <3> QED BY <1>4, <1>5, <2>3, <3>2 DEF TransportModbusRead
  <2> QED BY <2>2, <2>3
<1> QED BY <1>6, <1>7 DEF point, image

\* Ros2Hal and Ros2TransportHal read and write alike.
LEMMA AlwaysRos == RosAgrees
<1> SUFFICES ASSUME NEW direction \in {"Publish", "Subscribe", "Parameter"}, NEW x \in PdoValues
    PROVE  LET point == [direction |-> direction, name |-> "topic"]
               ros   == [values |-> [name \in {"topic"} |-> x], published |-> <<>>]
           IN  /\ RosWrite(ros, point, x) = TransportRosWrite(ros, point, x)
               /\ RosRead(ros.values, point) = TransportRosRead(ros.values, point)
  BY DEF RosAgrees
<1> DEFINE point == [direction |-> direction, name |-> "topic"]
           ros   == [values |-> [name \in {"topic"} |-> x], published |-> <<>>]
<1>1. point.direction = direction /\ ros.published = <<>>
  OBVIOUS
<1> HIDE DEF point, ros
<1>2. RosRead(ros.values, point) = TransportRosRead(ros.values, point)
  BY <1>1 DEF RosRead, TransportRosRead, Readable
<1>3. RosWrite(ros, point, x) = TransportRosWrite(ros, point, x)
  <2>1. CASE direction = "Publish"
    <3> DEFINE m == [topic |-> point.name, value |-> x]
    <3>1. Append(ros.published, m) = ros.published \o <<m>>
      <4> HIDE DEF m
      <4>1. Append(<<>>, m) = <<m>> /\ <<>> \o <<m>> = <<m>>
        OBVIOUS
      <4> QED BY <1>1, <4>1
    <3> HIDE DEF m
    <3>2. [ros EXCEPT !.published = Append(@, m)] = [ros EXCEPT !.published = @ \o <<m>>]
      BY <3>1
    <3> QED BY <1>1, <2>1, <3>2 DEF RosWrite, TransportRosWrite, m
  <2>2. CASE direction # "Publish"
    BY <1>1, <2>2 DEF RosWrite, TransportRosWrite
  <2> QED BY <2>1, <2>2
<1> QED BY <1>2, <1>3 DEF point, ros

\* decode_value gives back of a value what encode_value put into the text of the file.
LEMMA AlwaysFiles == FilesReturn
<1> SUFFICES ASSUME NEW encoding \in Encoding, NEW x \in PdoValues
    PROVE  LET point == [path |-> "file", encoding |-> encoding]
               read  == FileRead(FileWrite(<<>>, point, x).files, point)
           IN  CASE encoding = "Bool01"  -> read = Flag(Truth(x))
                 [] encoding = "Decimal" -> read = Num(Number(x))
                 [] encoding = "Text"    -> read.kind = "TEXT" /\ read.v = x.v
  BY DEF FilesReturn
<1> DEFINE point == [path |-> "file", encoding |-> encoding]
           read  == FileRead(FileWrite(<<>>, point, x).files, point)
<1>1. point # NoValue /\ point.path = "file" /\ point.encoding = encoding
  BY NoneAssumption
<1>2. IsValue(x) /\ Truth(x) \in BOOLEAN /\ Number(x) \in Int
  BY PdoValuesAreValues, ValueType
<1> HIDE DEF point
<1>3. read = Decoded(encoding, Encoded(encoding, x))
  <2> DEFINE files == FileWrite(<<>>, point, x).files
  <2>1. files = Stored(<<>>, "file", Encoded(encoding, x))
    BY <1>1 DEF FileWrite
  <2> DEFINE content == Encoded(encoding, x)
  <2> HIDE DEF files, content
  <2>2. "file" \in DOMAIN files /\ files["file"] = content
    BY <2>1 DEF Stored, content
  <2>3. FileRead(files, point) = Decoded(encoding, content)
    BY <1>1, <2>2 DEF FileRead
  <2> QED BY <2>3 DEF files, content
<1> HIDE DEF read
<1>4. CASE encoding = "Bool01"
  <2>1. Flag(Num(IF Truth(x) THEN 1 ELSE 0) = Num(1) \/ Num(IF Truth(x) THEN 1 ELSE 0) = Flag(TRUE))
          = Flag(Truth(x))
    <3>1. Num(0) # Num(1) /\ Num(0) # Flag(TRUE)
      BY DEF Num, Flag
    <3> QED BY <1>2, <3>1
  <2>2. read = Flag(Truth(x))
    BY <1>3, <1>4, <2>1 DEF Decoded, Encoded
  <2> QED BY <1>4, <2>2 DEF read, point
<1>5. CASE encoding = "Decimal"
  <2>1. read = Num(Number(x))
    BY <1>3, <1>5 DEF Decoded, Encoded, Num
  <2> QED BY <1>5, <2>1 DEF read, point
<1>6. CASE encoding = "Text"
  <2>1. read = [x EXCEPT !.kind = "TEXT"]
    BY <1>3, <1>6 DEF Decoded, Encoded
  <2>2. read.kind = "TEXT" /\ read.v = x.v
    BY <1>2, <2>1 DEF IsValue, Text
  <2> QED BY <1>6, <2>2 DEF read, point
<1> QED BY <1>4, <1>5, <1>6 DEF Encoding

\* In every state of the output bytes the adapters agree, for every point the mapping and the
\* other master have and every value the fields may hold.
LEMMA AlwaysAgree == AllAgree
BY EveryImageExact, AlwaysModbus, AlwaysRos, AlwaysFiles DEF AllAgree, AllExact

(***************************************************************************)
(* Storage.                                                                *)
(***************************************************************************)
\* The leaves of a declared variable are declared leaves.
LEMMA VarsDeclared ==
  \A k \in DOMAIN VarsWithRetain :
    VarsWithRetain[k].var \in Declared /\ LeavesOf(VarsWithRetain[k].var) \subseteq DeclaredLeaves
BY DEF Declared, DeclaredLeaves

\* state_storage_entries_for_var names parts of a variable, together all of them but the edge
\* memories.
LEMMA StorageShape ==
  ASSUME NEW var \in Declared
  PROVE  /\ StorageEntries(var) \in Seq(SUBSET LeavesOf(var))
         /\ \A leaf \in LeavesOf(var) : Len(leaf) < 3 =>
              \E k \in DOMAIN StorageEntries(var) : leaf \in StorageEntries(var)[k]
<1> DEFINE entries == StorageEntries(var)
<1>1. CASE var.kind \in {"standard", "user"}
  <2> DEFINE n == Len(var.fields)
  <2>1. DOMAIN var.fields = 1..n /\ n \in Nat
    BY <1>1, BlocksAssumption DEF WellFormedBlocks
  <2>2. entries = [k \in 1..n |-> {<<var.name, var.fields[k].name>>}]
    BY <1>1, <2>1 DEF StorageEntries
  <2>3. LeavesOf(var) = {<<var.name, var.fields[k].name>> : k \in DOMAIN var.fields}
                        \cup {EdgeMemory(var, var.fields[k]) : k \in {j \in DOMAIN var.fields :
                                var.kind = "user" /\ var.fields[j].edge}}
    BY <1>1 DEF LeavesOf
  <2> HIDE DEF n, entries
  <2>4. \A k \in 1..n : {<<var.name, var.fields[k].name>>} \in SUBSET LeavesOf(var)
    BY <2>1, <2>3
  <2>5. entries \in Seq(SUBSET LeavesOf(var))
    BY <2>1, <2>2, <2>4
  <2>6. ASSUME NEW leaf \in LeavesOf(var), Len(leaf) < 3
        PROVE  \E k \in DOMAIN entries : leaf \in entries[k]
    <3>1. \A field : Len(EdgeMemory(var, field)) = 3
      BY DEF EdgeMemory
    <3>2. PICK k \in DOMAIN var.fields : leaf = <<var.name, var.fields[k].name>>
      BY <2>3, <2>6, <3>1
    <3>3. k \in DOMAIN entries /\ leaf \in entries[k]
      BY <2>1, <2>2, <3>2
    <3> QED BY <3>3
  <2> QED BY <2>5, <2>6 DEF entries
<1>2. CASE var.kind \notin {"standard", "user"}
  <2>1. entries = <<LeavesOf(var)>>
    BY <1>2 DEF StorageEntries
  <2> HIDE DEF entries
  <2>2. entries \in Seq(SUBSET LeavesOf(var))
    BY <2>1
  <2>3. 1 \in DOMAIN entries /\ entries[1] = LeavesOf(var)
    BY <2>1
  <2> QED BY <2>2, <2>3 DEF entries
<1> QED BY <1>1, <1>2

\* retain_entries_for_program lists parts of retained variables, and every field of one but
\* the edge memories.
LEMMA RetainShape ==
  /\ DOMAIN RetainEntries = 1..Len(RetainEntries) /\ Len(RetainEntries) \in Nat
  /\ \A k \in DOMAIN RetainEntries : \E j \in DOMAIN VarsWithRetain :
       VarsWithRetain[j].retain /\ RetainEntries[k] \subseteq LeavesOf(VarsWithRetain[j].var)
  /\ \A j \in DOMAIN VarsWithRetain : VarsWithRetain[j].retain =>
       \A leaf \in LeavesOf(VarsWithRetain[j].var) : Len(leaf) < 3 =>
         \E k \in DOMAIN RetainEntries : leaf \in RetainEntries[k]
  /\ \A k \in DOMAIN RetainEntries : RetainEntries[k] \subseteq DeclaredLeaves
<1> DEFINE V    == VarsWithRetain
           list == [k \in DOMAIN V |-> IF V[k].retain THEN StorageEntries(V[k].var) ELSE <<>>]
           S    == SUBSET DeclaredLeaves
<1>1. RetainEntries = Flat(list)
  BY DEF RetainEntries
<1>2. DOMAIN V = 1..Len(V) /\ Len(V) \in Nat
  BY VarsShape
<1>3. \A k \in DOMAIN V :
        /\ StorageEntries(V[k].var) \in Seq(SUBSET LeavesOf(V[k].var))
        /\ LeavesOf(V[k].var) \subseteq DeclaredLeaves
        /\ \A leaf \in LeavesOf(V[k].var) : Len(leaf) < 3 =>
             \E i \in DOMAIN StorageEntries(V[k].var) : leaf \in StorageEntries(V[k].var)[i]
  BY VarsDeclared, StorageShape
<1>4. \A k \in DOMAIN V : StorageEntries(V[k].var) \in Seq(S)
  <2> SUFFICES ASSUME NEW k \in DOMAIN V PROVE StorageEntries(V[k].var) \in Seq(S)
    OBVIOUS
  <2> DEFINE e == StorageEntries(V[k].var)
             L == SUBSET LeavesOf(V[k].var)
  <2>1. e \in Seq(L) /\ L \subseteq S
    BY <1>3
  <2> HIDE DEF e, L, S
  <2>2. e \in Seq(S)
    BY <2>1
  <2> QED BY <2>2 DEF e
<1>5. \A k \in DOMAIN V : list[k] = IF V[k].retain THEN StorageEntries(V[k].var) ELSE <<>>
  OBVIOUS
<1>6. DOMAIN list = DOMAIN V /\ list = [k \in DOMAIN V |-> list[k]]
  OBVIOUS
<1> HIDE DEF list, V, S
<1>7. list \in Seq(Seq(S))
  <2>1. <<>> \in Seq(S)
    OBVIOUS
  <2>2. \A k \in DOMAIN V : list[k] \in Seq(S)
    BY <1>4, <1>5, <2>1
  <2>3. list = [k \in 1..Len(V) |-> list[k]]
    BY <1>2, <1>6
  <2> QED BY <1>2, <2>2, <2>3
<1>8. /\ RetainEntries \in Seq(S)
      /\ \A k \in DOMAIN RetainEntries :
           \E i \in DOMAIN list : \E j \in DOMAIN list[i] : RetainEntries[k] = list[i][j]
      /\ \A i \in DOMAIN list : \A j \in DOMAIN list[i] :
           \E k \in DOMAIN RetainEntries : RetainEntries[k] = list[i][j]
  BY <1>1, <1>7, FlatShape
<1>9. DOMAIN RetainEntries = 1..Len(RetainEntries) /\ Len(RetainEntries) \in Nat
  BY <1>8
<1>10. \A k \in DOMAIN RetainEntries : RetainEntries[k] \subseteq DeclaredLeaves
  <2>1. \A k \in DOMAIN RetainEntries : RetainEntries[k] \in S
    BY <1>8
  <2> QED BY <2>1 DEF S
<1>11. ASSUME NEW k \in DOMAIN RetainEntries
       PROVE  \E j \in DOMAIN V : V[j].retain /\ RetainEntries[k] \subseteq LeavesOf(V[j].var)
  <2>20. PICK i \in DOMAIN list : \E j \in DOMAIN list[i] : RetainEntries[k] = list[i][j]
    BY <1>8
  <2>1. PICK j \in DOMAIN list[i] : RetainEntries[k] = list[i][j]
    BY <2>20
  <2>2. i \in DOMAIN V
    BY <1>6
  <2>3. V[i].retain /\ list[i] = StorageEntries(V[i].var)
    BY <1>5, <2>2
  <2>4. list[i] \in Seq(SUBSET LeavesOf(V[i].var))
    BY <1>3, <2>2, <2>3
  <2>5. list[i][j] \in SUBSET LeavesOf(V[i].var)
    BY <2>4
  <2> QED BY <2>1, <2>2, <2>3, <2>5
<1>12. ASSUME NEW j \in DOMAIN V, V[j].retain, NEW leaf \in LeavesOf(V[j].var), Len(leaf) < 3
       PROVE  \E k \in DOMAIN RetainEntries : leaf \in RetainEntries[k]
  <2>1. PICK i \in DOMAIN StorageEntries(V[j].var) : leaf \in StorageEntries(V[j].var)[i]
    BY <1>3, <1>12
  <2>2. j \in DOMAIN list /\ list[j] = StorageEntries(V[j].var)
    BY <1>5, <1>6, <1>12
  <2>3. PICK k \in DOMAIN RetainEntries : RetainEntries[k] = list[j][i]
    BY <1>8, <2>1, <2>2
  <2> QED BY <2>1, <2>2, <2>3
<1> QED BY <1>9, <1>10, <1>11, <1>12 DEF V

\* Temporary variables are declared ones.
LEMMA TemporariesDeclared == Temporaries \subseteq DeclaredLeaves
<1>1. ASSUME NEW k \in DOMAIN Blocks, Blocks[k].kind = "TEMP", NEW j \in DOMAIN Blocks[k].vars
      PROVE  \E i \in DOMAIN VarsWithRetain : VarsWithRetain[i].var = Blocks[k].vars[j]
  BY <1>1, VarsShape
<1>2. ASSUME NEW leaf \in Temporaries PROVE leaf \in DeclaredLeaves
  <2>1. PICK k \in DOMAIN Blocks : Blocks[k].kind = "TEMP" /\
          \E j \in DOMAIN Blocks[k].vars : leaf \in LeavesOf(Blocks[k].vars[j])
    <3>1. PICK var \in UNION {Range(Blocks[k].vars) :
                                k \in {j \in DOMAIN Blocks : Blocks[j].kind = "TEMP"}} :
            leaf \in LeavesOf(var)
      BY <1>2 DEF Temporaries
    <3>2. PICK k \in DOMAIN Blocks : Blocks[k].kind = "TEMP" /\ var \in Range(Blocks[k].vars)
      BY <3>1
    <3> QED BY <3>1, <3>2 DEF Range
  <2>2. PICK j \in DOMAIN Blocks[k].vars : leaf \in LeavesOf(Blocks[k].vars[j])
    BY <2>1
  <2>3. PICK i \in DOMAIN VarsWithRetain : VarsWithRetain[i].var = Blocks[k].vars[j]
    BY <1>1, <2>1
  <2> QED BY <2>2, <2>3, VarsDeclared
<1> QED BY <1>2

(***************************************************************************)
(* Types.  The bytes that are written back have to be those of the point   *)
(* they were read for.                                                     *)
(***************************************************************************)
Labels == {"off", "idle", "save", "inputs", "outputs", "modify"}
Message == [topic : STRING, value : Values(Leaves)]

FieldsOK ==
  /\ fields \in [Leaves -> Values(Leaves)]
  /\ \A leaf \in Leaves : fields[leaf] \in RangeOf[leaf]

\* A segment was read for the point of an entry that is written.
Modifying ==
  pc.at = "modify" =>
    /\ pc.k \in Writes
    /\ Binding(IoEntries[pc.k]) \in PdoPoint /\ InOutputs(Binding(IoEntries[pc.k]))
    /\ Fits(InitialOutputs, Binding(IoEntries[pc.k]))
    /\ Len(pc.segment) = ByteLen(Binding(IoEntries[pc.k]).type)

PcOK ==
  /\ pc \in [at : Labels, k : Nat, segment : Seq(Byte)]
  /\ pc.at \in {"save", "inputs", "outputs", "modify"} => pc.k >= 1
  /\ Modifying

BusOK ==
  /\ DOMAIN bus = {"inputs", "outputs", "modbus", "ros"}
  /\ bus.outputs \in OutputImages
  /\ DOMAIN bus.ros = {"values", "published"}
  /\ bus.ros.published \in Seq(Message)

StoreOK ==
  /\ DOMAIN store = DOMAIN RetainEntries
  /\ \A k \in DOMAIN RetainEntries : store[k] # NoValue =>
       \A leaf \in RetainEntries[k] : store[k][leaf] \in RangeOf[leaf]

DoneOK ==
  /\ DOMAIN done = {"saved", "synced", "fresh"}
  /\ done.synced \in BOOLEAN /\ done.fresh \in BOOLEAN

WorkOK ==
  /\ DOMAIN work = {"scans", "steps", "rival", "pending", "overwritten"}
  /\ DOMAIN work.rival \subseteq Rival
  /\ work.pending \subseteq RivalWrite /\ \A p, q \in work.pending : p = q
  /\ \A p \in work.pending : Len(p.segment) = 1

Typed == FieldsOK /\ PcOK /\ BusOK /\ StoreOK /\ DoneOK /\ WorkOK

\* The invariant is at least the type invariant.
LEMMA TypedIsTypeOK == Typed => TypeOK
BY DEF Typed, FieldsOK, PcOK, BusOK, StoreOK, DoneOK, WorkOK, TypeOK, Labels, Byte

\* init and warm_restart write declared leaves, with values of their types.
LEMMA InitialsTyped ==
  /\ \A leaf \in DeclaredLeaves : leaf \in Leaves /\ Initials[leaf] \in RangeOf[leaf]
  /\ WarmLeaves \subseteq DeclaredLeaves
<1>1. \A leaf \in DeclaredLeaves : leaf \in Leaves /\ Initials[leaf] \in RangeOf[leaf]
  BY TypeAssumption DEF WellTyped, Leaves
<1>2. \A leaf \in WarmLeaves : \E k \in DOMAIN VarsWithRetain : leaf \in LeavesOf(VarsWithRetain[k].var)
  BY DEF WarmLeaves
<1>3. WarmLeaves \subseteq DeclaredLeaves
  BY <1>2, VarsDeclared
<1> QED BY <1>1, <1>3

\* Values of their ranges make a state of the struct.
LEMMA FieldsTyped ==
  ASSUME NEW f, DOMAIN f = Leaves, f = [leaf \in Leaves |-> f[leaf]],
         \A leaf \in Leaves : f[leaf] \in RangeOf[leaf]
  PROVE  f \in [Leaves -> Values(Leaves)]
BY DEF Values

\* Memory before init holds values of the types.
LEMMA GarbageTyped ==
  ASSUME NEW f \in Garbage
  PROVE  f \in [Leaves -> Values(Leaves)] /\ \A leaf \in Leaves : f[leaf] \in RangeOf[leaf]
<1> DEFINE direct == {g \in [DirectLeaves -> Values(DirectLeaves)] :
                        \A leaf \in DirectLeaves : g[leaf] \in RangeOf[leaf]}
<1>1. PICK g \in direct :
        f = [leaf \in Leaves |-> IF leaf \in DeclaredLeaves THEN CHOOSE x \in RangeOf[leaf] : TRUE
                                 ELSE g[leaf]]
  BY DEF Garbage
<1>2. \A leaf \in DeclaredLeaves : (CHOOSE x \in RangeOf[leaf] : TRUE) \in RangeOf[leaf]
  BY InitialsTyped
<1>3. \A leaf \in Leaves : f[leaf] \in RangeOf[leaf]
  BY <1>1, <1>2 DEF Leaves
<1>4. DOMAIN f = Leaves /\ f = [leaf \in Leaves |-> f[leaf]]
  BY <1>1
<1> QED BY <1>3, <1>4, FieldsTyped

\* init and warm_restart leave typed fields typed.
LEMMA WithInitialsTyped ==
  ASSUME FieldsOK, NEW leaves, leaves \subseteq DeclaredLeaves
  PROVE  /\ WithInitials(fields, leaves) \in [Leaves -> Values(Leaves)]
         /\ \A leaf \in Leaves : WithInitials(fields, leaves)[leaf] \in RangeOf[leaf]
<1> DEFINE f == WithInitials(fields, leaves)
<1>1. DOMAIN f = Leaves /\ f = [leaf \in Leaves |-> f[leaf]]
      /\ \A leaf \in Leaves : f[leaf] = IF leaf \in leaves THEN Initials[leaf] ELSE fields[leaf]
  BY DEF WithInitials, FieldsOK
<1> HIDE DEF f
<1>2. \A leaf \in Leaves : f[leaf] \in RangeOf[leaf]
  BY <1>1, InitialsTyped DEF FieldsOK
<1>3. f \in [Leaves -> Values(Leaves)]
  BY <1>1, <1>2, FieldsTyped
<1> QED BY <1>2, <1>3 DEF f

\* The state before the first call is typed.
LEMMA InitTyped == Init => Typed
<1> SUFFICES ASSUME Init PROVE Typed
  OBVIOUS
<1>1. FieldsOK
  BY GarbageTyped DEF Init, FieldsOK
<1>2. PcOK
  BY DEF Init, PcOK, Modifying, At, Labels
<1>3. BusOK
  <2>1. InitialOutputs \in OutputImages
    BY BusAssumption, ImageOf DEF Byte
  <2>2. <<>> \in Seq(Message)
    OBVIOUS
  <2> QED BY <2>1, <2>2 DEF Init, BusOK
<1>4. StoreOK
  BY DEF Init, StoreOK
<1>5. DoneOK
  BY DEF Init, DoneOK, NothingDone
<1>6. WorkOK
  BY DEF Init, WorkOK
<1> QED BY <1>1, <1>2, <1>3, <1>4, <1>5, <1>6 DEF Typed

\* A step of the call in progress to where no segment is held.
LEMMA PcMoves ==
  ASSUME NEW label \in Labels \ {"modify"}, NEW n \in Nat,
         label \in {"save", "inputs", "outputs"} => n >= 1, pc' = At(label, n)
  PROVE  PcOK'
<1>1. pc'.at = label /\ pc'.k = n /\ pc'.segment = <<>>
  BY DEF At
<1>2. pc' \in [at : Labels, k : Nat, segment : Seq(Byte)]
  BY DEF At
<1> QED BY <1>1, <1>2 DEF PcOK, Modifying

\* What is called between scans: init, warm_restart, load_retained, the access services.
LEMMA HostTyped == Typed /\ Host => Typed'
<1> SUFFICES ASSUME Typed, Host PROVE Typed'
  OBVIOUS
<1> USE DEF Typed
<1>1. CASE CallInit
  <2>1. FieldsOK'
    BY <1>1, WithInitialsTyped DEF CallInit, FieldsOK
  <2>2. PcOK'
    BY <1>1, PcMoves DEF CallInit, Idle, Labels
  <2>3. DoneOK'
    BY <1>1 DEF CallInit, Changed, DoneOK
  <2> QED BY <1>1, <2>1, <2>2, <2>3 DEF CallInit, BusOK, StoreOK, WorkOK
<1>2. CASE WarmRestart
  <2>1. FieldsOK'
    BY <1>2, WithInitialsTyped, InitialsTyped DEF WarmRestart, FieldsOK
  <2>2. DoneOK'
    BY <1>2 DEF WarmRestart, Changed, DoneOK
  <2> QED BY <1>2, <2>1, <2>2 DEF WarmRestart, BusOK, StoreOK, WorkOK, PcOK, Modifying
<1>3. CASE CallSave
  <2>1. PcOK'
    BY <1>3, PcMoves DEF CallSave, StartSave, Labels
  <2>2. DoneOK'
    BY <1>3 DEF CallSave, DoneOK
  <2> QED BY <1>3, <2>1, <2>2 DEF CallSave, BusOK, StoreOK, WorkOK, FieldsOK
<1>4. CASE CallLoad
  <2> DEFINE from(leaf) == {k \in DOMAIN RetainEntries : leaf \in RetainEntries[k] /\ store[k] # NoValue}
  <2>1. fields' = [leaf \in Leaves |-> IF from(leaf) = {} THEN fields[leaf]
                                       ELSE store[CHOOSE k \in from(leaf) : TRUE][leaf]]
    BY <1>4 DEF CallLoad
  <2>2. ASSUME NEW leaf \in Leaves PROVE fields'[leaf] \in RangeOf[leaf]
    <3>1. CASE from(leaf) = {}
      BY <2>1, <3>1 DEF FieldsOK
    <3>2. CASE from(leaf) # {}
      <4> DEFINE k == CHOOSE k \in from(leaf) : TRUE
      <4>1. k \in from(leaf)
        BY <3>2
      <4>2. k \in DOMAIN RetainEntries /\ leaf \in RetainEntries[k] /\ store[k] # NoValue
        BY <4>1
      <4>3. fields'[leaf] = store[k][leaf]
        BY <2>1, <3>2
      <4> HIDE DEF k
      <4> QED BY <4>2, <4>3 DEF StoreOK
    <3> QED BY <3>1, <3>2
  <2>3. DOMAIN fields' = Leaves /\ fields' = [leaf \in Leaves |-> fields'[leaf]]
    BY <2>1
  <2>4. FieldsOK'
    BY <2>2, <2>3, FieldsTyped DEF FieldsOK
  <2>5. DoneOK'
    BY <1>4 DEF CallLoad, Changed, DoneOK
  <2> QED BY <1>4, <2>4, <2>5 DEF CallLoad, BusOK, StoreOK, WorkOK, PcOK, Modifying
<1>5. ASSUME NEW table \in HookTables, SetTargetHooks(table) PROVE Typed'
  BY <1>5 DEF SetTargetHooks, FieldsOK, PcOK, Modifying, BusOK, StoreOK, DoneOK, WorkOK
<1>6. ASSUME NEW k \in DOMAIN AccessEntries, NEW leaf \in Leaves, NEW x \in RangeOf[leaf],
             WriteAccessPath(k, leaf, x)
      PROVE  Typed'
  <2>1. fields' = [fields EXCEPT ![leaf] = x]
    BY <1>6 DEF WriteAccessPath
  <2>2. FieldsOK'
    <3>1. x \in Values(Leaves)
      BY DEF Values
    <3> QED BY <2>1, <3>1 DEF FieldsOK
  <2>3. DoneOK'
    BY <1>6 DEF WriteAccessPath, Changed, DoneOK
  <2> QED BY <1>6, <2>2, <2>3 DEF WriteAccessPath, BusOK, StoreOK, WorkOK, PcOK, Modifying
<1> QED BY <1>1, <1>2, <1>3, <1>4, <1>5, <1>6 DEF Host

\* save_retained stores what the fields hold.
LEMMA SaveTyped == Typed /\ SaveEntry => Typed'
<1> SUFFICES ASSUME Typed, SaveEntry PROVE Typed'
  OBVIOUS
<1> USE DEF Typed
<1>1. pc.k \in Nat /\ pc.k >= 1
  BY DEF SaveEntry, PcOK
<1>2. CASE pc.k > Len(RetainEntries)
  <2>1. PcOK'
    BY <1>2, PcMoves DEF SaveEntry, Idle, Labels
  <2>2. DoneOK'
    BY <1>2 DEF SaveEntry, DoneOK
  <2> QED BY <1>2, <2>1, <2>2 DEF SaveEntry, FieldsOK, BusOK, StoreOK, WorkOK
<1>3. CASE ~(pc.k > Len(RetainEntries))
  <2>1. PcOK'
    BY <1>1, <1>3, PcMoves DEF SaveEntry, Labels
  <2>2. store' = [store EXCEPT ![pc.k] = [leaf \in RetainEntries[pc.k] |-> fields[leaf]]]
    BY <1>3 DEF SaveEntry
  <2>3. \A k \in DOMAIN RetainEntries : RetainEntries[k] \subseteq Leaves
    BY RetainShape, InitialsTyped
  <2>4. StoreOK'
    BY <2>2, <2>3 DEF StoreOK, FieldsOK
  <2> QED BY <1>3, <2>1, <2>4 DEF SaveEntry, FieldsOK, BusOK, DoneOK, WorkOK
<1> QED BY <1>2, <1>3

\* What a transport HAL does to the output bytes.
LEMMA TransportKeeps ==
  ASSUME NEW bytes \in OutputImages, NEW point \in PdoPoint, NEW x, IsValue(x)
  PROVE  LET out == TransportWrite(bytes, point, x).bytes IN
         /\ out \in OutputImages
         /\ \A k \in 1..Len(bytes) : k - 1 \notin BytesOf(point) => out[k] = bytes[k]
         /\ point.area # "Output" \/ ~Fits(bytes, point) => out = bytes
         /\ point.area = "Output" /\ Fits(bytes, point) => ReadPdo(out, point) = Cut(point, x)
         /\ point.type = "BOOL" /\ Fits(bytes, point) =>
              \A j \in 0..ByteBits - 1 : j # point.bit =>
                BitSet(out[point.byte + 1], j) = BitSet(bytes[point.byte + 1], j)
<1> DEFINE out == TransportWrite(bytes, point, x).bytes
<1>1. bytes \in Seq(Byte) /\ Len(bytes) = Len(InitialOutputs)
  BY Images
<1>2. CASE point.area # "Output" \/ ~Fits(bytes, point)
  <2>1. out = bytes
    BY <1>2 DEF TransportWrite
  <2> QED BY <1>2, <2>1
<1>3. CASE point.area = "Output" /\ Fits(bytes, point)
  <2> DEFINE s == Segment(bytes, point)
  <2>1. /\ s \in Seq(Byte) /\ Len(s) = ByteLen(point.type)
        /\ \A k \in 1..ByteLen(point.type) : s[k] = bytes[point.byte + k]
    BY <1>1, <1>3, SegmentShape
  <2>2. out = Back(bytes, point, s, x)
    BY <1>3 DEF TransportWrite, Back
  <2> HIDE DEF s, out
  <2>3. /\ out \in Seq(Byte) /\ Len(out) = Len(bytes)
        /\ \A k \in 1..Len(bytes) : k - 1 \notin BytesOf(point) => out[k] = bytes[k]
        /\ ReadPdo(out, point) = Cut(point, x)
        /\ point.type = "BOOL" =>
             \A j \in 0..ByteBits - 1 :
               j # point.bit => BitSet(out[point.byte + 1], j) = BitSet(s[1], j)
    BY <1>1, <1>3, <2>1, <2>2, WrittenBack
  <2>4. out \in OutputImages
    BY <1>1, <2>3, ImageOf
  <2>5. point.type = "BOOL" => s[1] = bytes[point.byte + 1]
    BY <2>1, ByteLenType
  <2> QED BY <1>3, <2>3, <2>4, <2>5 DEF out
<1> QED BY <1>2, <1>3

\* The value of the field of an entry is a value.
LEMMA EntryValue ==
  ASSUME FieldsOK, NEW k \in DOMAIN IoEntries
  PROVE  /\ IoEntries[k].leaf \in Leaves /\ IsValue(fields[IoEntries[k].leaf])
         /\ fields[IoEntries[k].leaf] \in Values(Leaves)
<1>1. IoEntries[k].leaf \in Leaves
  BY EntriesShape
<1>2. fields[IoEntries[k].leaf] \in RangeOf[IoEntries[k].leaf]
  BY <1>1 DEF FieldsOK
<1> QED BY <1>1, <1>2, TypeAssumption DEF WellTyped, FieldsOK

\* Writing a symbol keeps the tables of the bus, and of the output bytes all but those of the
\* point.
LEMMA HalWriteTyped ==
  ASSUME BusOK, NEW entry, NEW x, IsValue(x), x \in Values(Leaves), ~ReadsFirst(Binding(entry))
  PROVE  LET b == HalWrite(bus, entry, x) IN
         /\ DOMAIN b = {"inputs", "outputs", "modbus", "ros"}
         /\ b.outputs = bus.outputs
         /\ DOMAIN b.ros = {"values", "published"}
         /\ b.ros.published \in Seq(Message)
<1> DEFINE point == Binding(entry)
           b     == HalWrite(bus, entry, x)
<1>1. CASE point = NoValue
  <2>1. b = bus
    BY <1>1 DEF HalWrite
  <2> QED BY <2>1 DEF BusOK
<1>2. CASE point # NoValue /\ point \in PdoPoint
  <2>1. b = [bus EXCEPT !.outputs = TransportWrite(bus.outputs, point, x).bytes]
    BY <1>2, BusOfPoint DEF HalWrite
  <2>2. ~(point.area = "Output" /\ Fits(bus.outputs, point))
    BY <1>2, BusOfPoint DEF ReadsFirst
  <2>3. TransportWrite(bus.outputs, point, x).bytes = bus.outputs
    BY <1>2, <2>2, TransportKeeps DEF BusOK
  <2> HIDE DEF point, b
  <2>4. b.outputs = bus.outputs /\ b.ros = bus.ros /\ DOMAIN b = DOMAIN bus
    BY <2>1, <2>3 DEF BusOK
  <2> QED BY <2>4 DEF BusOK, b
<1>3. CASE point # NoValue /\ point \in ModbusPoint
  <2>1. b = [bus EXCEPT !.modbus = ModbusWrite(bus.modbus, point, x).image]
    BY <1>3, BusOfPoint DEF HalWrite
  <2> HIDE DEF point, b
  <2>2. b.outputs = bus.outputs /\ b.ros = bus.ros /\ DOMAIN b = DOMAIN bus
    BY <2>1 DEF BusOK
  <2> QED BY <2>2 DEF BusOK, b
<1>4. CASE point # NoValue /\ point \in RosPoint
  <2>1. b = [bus EXCEPT !.ros = RosWrite(bus.ros, point, x).ros]
    BY <1>4, BusOfPoint DEF HalWrite
  <2> DEFINE ros == RosWrite(bus.ros, point, x).ros
  <2>2. DOMAIN ros = {"values", "published"} /\ ros.published \in Seq(Message)
    <3>1. CASE point.direction = "Publish"
      <4> DEFINE m == [topic |-> point.name, value |-> x]
      <4>1. ros = [bus.ros EXCEPT !.published = Append(@, m)]
        BY <3>1 DEF RosWrite
      <4>2. m \in Message
        BY <1>4 DEF RosPoint, Message
      <4> HIDE DEF m, ros
      <4> QED BY <4>1, <4>2 DEF BusOK
    <3>2. CASE point.direction = "Parameter"
      <4>1. ros = [bus.ros EXCEPT !.values = Stored(@, point.name, x)]
        BY <3>2 DEF RosWrite
      <4> HIDE DEF ros
      <4> QED BY <4>1 DEF BusOK
    <3>3. CASE point.direction \notin {"Publish", "Parameter"}
      <4>1. ros = bus.ros
        BY <3>3 DEF RosWrite
      <4> QED BY <4>1 DEF BusOK
    <3> QED BY <3>1, <3>2, <3>3
  <2> HIDE DEF point, b, ros
  <2>3. b.outputs = bus.outputs /\ b.ros = ros /\ DOMAIN b = DOMAIN bus
    BY <2>1 DEF BusOK, ros
  <2> QED BY <2>2, <2>3 DEF BusOK, b
<1> QED BY <1>1, <1>2, <1>3, <1>4, BindingPoint

\* The point of an entry that is written in two steps.
LEMMA ReadsFirstPoint ==
  ASSUME BusOK, NEW k \in DOMAIN IoEntries, ShouldWrite(IoEntries[k]),
         ReadsFirst(Binding(IoEntries[k]))
  PROVE  /\ k \in Writes /\ Binding(IoEntries[k]) \in PdoPoint /\ InOutputs(Binding(IoEntries[k]))
         /\ Fits(bus.outputs, Binding(IoEntries[k])) /\ Fits(InitialOutputs, Binding(IoEntries[k]))
<1> DEFINE point == Binding(IoEntries[k])
<1>1. point # NoValue /\ point.bus = "ethercat" /\ point.area = "Output" /\ Fits(bus.outputs, point)
  BY DEF ReadsFirst
<1>2. point \in PdoPoint
  BY <1>1, BindingPoint, BusOfPoint
<1>3. Fits(InitialOutputs, point)
  BY <1>1, Images DEF BusOK, Fits
<1> QED BY <1>1, <1>2, <1>3 DEF Writes, InOutputs

\* The point of the entry that is being written back.
LEMMA WriteBackPoint ==
  ASSUME Typed, pc.at = "modify"
  PROVE  LET point == Binding(IoEntries[pc.k]) IN
         /\ pc.k \in DOMAIN IoEntries /\ pc.k \in Writes /\ pc.k \in Nat
         /\ point \in PdoPoint /\ InOutputs(point) /\ Fits(bus.outputs, point)
         /\ pc.segment \in Seq(Byte) /\ Len(pc.segment) = ByteLen(point.type)
         /\ IsValue(fields[IoEntries[pc.k].leaf])
         /\ bus.outputs \in Seq(Byte) /\ Len(bus.outputs) = Len(InitialOutputs)
<1>1. pc.k \in Writes /\ pc.k \in DOMAIN IoEntries
  BY DEF Typed, PcOK, Modifying, Writes
<1>2. bus.outputs \in Seq(Byte) /\ Len(bus.outputs) = Len(InitialOutputs)
  BY Images DEF Typed, BusOK
<1>3. Fits(bus.outputs, Binding(IoEntries[pc.k]))
  BY <1>2 DEF Typed, PcOK, Modifying, Fits
<1> QED BY <1>1, <1>2, <1>3, EntryValue DEF Typed, PcOK, Modifying

\* What the write back leaves in the process image.
LEMMA WriteBackWrites ==
  ASSUME Typed, WriteBack
  PROVE  LET p == Binding(IoEntries[pc.k])
             x == fields[IoEntries[pc.k].leaf]
         IN  \E out \in Seq(Byte) :
               /\ bus' = [bus EXCEPT !.outputs = out] /\ Len(out) = Len(bus.outputs)
               /\ \A k \in 1..Len(bus.outputs) : k - 1 \notin BytesOf(p) => out[k] = bus.outputs[k]
               /\ ReadPdo(out, p) = Cut(p, x)
               /\ p.type = "BOOL" => \A j \in 0..ByteBits - 1 :
                    j # p.bit => BitSet(out[p.byte + 1], j) = BitSet(pc.segment[1], j)
<1> DEFINE p   == Binding(IoEntries[pc.k])
           x   == fields[IoEntries[pc.k].leaf]
           out == Back(bus.outputs, p, pc.segment, x)
<1>1. bus' = [bus EXCEPT !.outputs = out]
  BY DEF WriteBack, Back
<1>2. /\ p \in PdoPoint /\ Fits(bus.outputs, p) /\ IsValue(x) /\ bus.outputs \in Seq(Byte)
      /\ pc.segment \in Seq(Byte) /\ Len(pc.segment) = ByteLen(p.type)
  BY WriteBackPoint DEF WriteBack
<1> HIDE DEF p, x
<1>3. /\ out \in Seq(Byte) /\ Len(out) = Len(bus.outputs)
      /\ \A k \in 1..Len(bus.outputs) : k - 1 \notin BytesOf(p) => out[k] = bus.outputs[k]
      /\ ReadPdo(out, p) = Cut(p, x)
      /\ p.type = "BOOL" => \A j \in 0..ByteBits - 1 :
           j # p.bit => BitSet(out[p.byte + 1], j) = BitSet(pc.segment[1], j)
  BY <1>2, WrittenBack
<1> HIDE DEF out
<1>4. \E o \in Seq(Byte) :
        /\ bus' = [bus EXCEPT !.outputs = o] /\ Len(o) = Len(bus.outputs)
        /\ \A k \in 1..Len(bus.outputs) : k - 1 \notin BytesOf(p) => o[k] = bus.outputs[k]
        /\ ReadPdo(o, p) = Cut(p, x)
        /\ p.type = "BOOL" => \A j \in 0..ByteBits - 1 :
             j # p.bit => BitSet(o[p.byte + 1], j) = BitSet(pc.segment[1], j)
  BY <1>1, <1>3
<1> QED BY <1>4 DEF p, x

\* scan: inputs, body, outputs.
LEMMA ScanTyped == Typed /\ Scan => Typed'
<1> SUFFICES ASSUME Typed, Scan PROVE Typed'
  OBVIOUS
<1> USE DEF Typed
<1>0. pc.k \in Nat
  BY DEF PcOK
<1>1. CASE BeginScan
  <2>1. PcOK'
    BY <1>1, PcMoves DEF BeginScan, Labels
  <2>2. DoneOK' /\ WorkOK'
    BY <1>1 DEF BeginScan, Changed, DoneOK, WorkOK
  <2> QED BY <1>1, <2>1, <2>2 DEF BeginScan, FieldsOK, BusOK, StoreOK
<1>2. CASE SyncInput
  <2>1. PcOK'
    BY <1>0, <1>2, PcMoves DEF SyncInput, Labels
  <2>2. pc.k \in DOMAIN IoEntries
    BY <1>0, <1>2, EntriesShape DEF SyncInput, PcOK
  <2> DEFINE entry == IoEntries[pc.k]
             x     == HalRead(entry)
  <2>3. entry.leaf \in Leaves
    BY <2>2, EntryValue
  <2>4. \/ fields' = fields
        \/ x \in RangeOf[entry.leaf] /\ fields' = [fields EXCEPT ![entry.leaf] = x]
    BY <1>2 DEF SyncInput
  <2> HIDE DEF entry, x
  <2>5. FieldsOK'
    <3>1. x \in RangeOf[entry.leaf] => x \in Values(Leaves)
      BY <2>3 DEF Values
    <3> QED BY <2>3, <2>4, <3>1 DEF FieldsOK
  <2> QED BY <1>2, <2>1, <2>5 DEF SyncInput, BusOK, StoreOK, DoneOK, WorkOK
<1>3. CASE Body
  <2>1. PcOK'
    BY <1>3, PcMoves DEF Body, Idle, Labels
  <2>2. PICK result \in Results :
          fields' = [leaf \in Leaves |-> IF leaf \in DOMAIN result THEN result[leaf]
                                         ELSE WithInitials(fields, Temporaries)[leaf]]
    BY <1>3 DEF Body
  <2>3. \A leaf \in Leaves : WithInitials(fields, Temporaries)[leaf] \in RangeOf[leaf]
    BY WithInitialsTyped, TemporariesDeclared
  <2>4. \A leaf \in Leaves \cap DOMAIN result : result[leaf] \in RangeOf[leaf]
    BY TypeAssumption DEF WellTyped
  <2>5. \A leaf \in Leaves : fields'[leaf] \in RangeOf[leaf]
    BY <2>2, <2>3, <2>4
  <2>6. DOMAIN fields' = Leaves /\ fields' = [leaf \in Leaves |-> fields'[leaf]]
    BY <2>2
  <2>7. FieldsOK'
    BY <2>5, <2>6, FieldsTyped DEF FieldsOK
  <2> QED BY <1>3, <2>1, <2>7 DEF Body, BusOK, StoreOK, DoneOK, WorkOK
<1>4. CASE SyncOutput
  <2> DEFINE entry == IoEntries[pc.k]
             point == Binding(entry)
  <2>1. pc.k \in DOMAIN IoEntries
    BY <1>0, <1>4, EntriesShape DEF SyncOutput, PcOK
  <2>2. CASE ShouldWrite(entry) /\ ReadsFirst(point)
    <3>1. /\ pc' = [At("modify", pc.k) EXCEPT !.segment = Segment(bus.outputs, point)]
          /\ UNCHANGED bus
      BY <1>4, <2>2 DEF SyncOutput
    <3>2. /\ pc.k \in Writes /\ point \in PdoPoint /\ InOutputs(point)
          /\ Fits(bus.outputs, point) /\ Fits(InitialOutputs, point)
      BY <2>1, <2>2, ReadsFirstPoint
    <3>3. /\ Segment(bus.outputs, point) \in Seq(Byte)
          /\ Len(Segment(bus.outputs, point)) = ByteLen(point.type)
      BY <3>2, SegmentShape, Images DEF BusOK
    <3>4. /\ pc'.at = "modify" /\ pc'.k = pc.k /\ pc'.segment = Segment(bus.outputs, point)
          /\ pc' \in [at : Labels, k : Nat, segment : Seq(Byte)]
      BY <1>0, <3>1, <3>3 DEF At, Labels
    <3>5. PcOK'
      <4>1. pc.k >= 1
        BY <1>4 DEF SyncOutput, PcOK
      <4> QED BY <3>2, <3>3, <3>4, <4>1 DEF PcOK, Modifying
    <3> QED BY <1>4, <3>1, <3>5 DEF SyncOutput, FieldsOK, BusOK, StoreOK, DoneOK, WorkOK
  <2>3. CASE ~(ShouldWrite(entry) /\ ReadsFirst(point))
    <3>1. /\ pc' = At("outputs", pc.k + 1)
          /\ bus' = IF ShouldWrite(entry) THEN HalWrite(bus, entry, fields[entry.leaf]) ELSE bus
      BY <1>4, <2>3 DEF SyncOutput
    <3>2. PcOK'
      BY <1>0, <3>1, PcMoves DEF Labels
    <3>3. BusOK'
      <4>1. CASE ~ShouldWrite(entry)
        BY <3>1, <4>1 DEF BusOK
      <4>2. CASE ShouldWrite(entry)
        <5> DEFINE b == HalWrite(bus, entry, fields[entry.leaf])
        <5>1. /\ DOMAIN b = {"inputs", "outputs", "modbus", "ros"}
              /\ b.outputs = bus.outputs
              /\ DOMAIN b.ros = {"values", "published"}
              /\ b.ros.published \in Seq(Message)
          BY <2>1, <2>3, <4>2, HalWriteTyped, EntryValue
        <5> HIDE DEF b
        <5>2. bus' = b
          BY <3>1, <4>2 DEF b
        <5> QED BY <5>1, <5>2 DEF BusOK
      <4> QED BY <4>1, <4>2
    <3> QED BY <1>4, <3>2, <3>3 DEF SyncOutput, FieldsOK, StoreOK, DoneOK, WorkOK
  <2> QED BY <2>2, <2>3
<1>5. CASE WriteBack
  <2>1. PcOK'
    BY <1>0, <1>5, PcMoves DEF WriteBack, Labels
  <2>2. PICK out \in Seq(Byte) : bus' = [bus EXCEPT !.outputs = out] /\ Len(out) = Len(bus.outputs)
    BY <1>5, WriteBackWrites
  <2>3. Len(bus.outputs) = Len(InitialOutputs)
    BY <1>5, WriteBackPoint DEF WriteBack
  <2>4. out \in OutputImages
    BY <2>2, <2>3, ImageOf
  <2>5. BusOK'
    BY <2>2, <2>4 DEF BusOK
  <2> QED BY <1>5, <2>1, <2>5 DEF WriteBack, FieldsOK, StoreOK, DoneOK, WorkOK
<1>6. CASE EndScan
  <2>1. PcOK'
    BY <1>6, PcMoves DEF EndScan, Idle, Labels
  <2>2. DoneOK'
    BY <1>6 DEF EndScan, DoneOK
  <2> QED BY <1>6, <2>1, <2>2 DEF EndScan, FieldsOK, BusOK, StoreOK, WorkOK
<1> QED BY <1>1, <1>2, <1>3, <1>4, <1>5, <1>6 DEF Scan

\* A point of the other master.
LEMMA RivalPoint ==
  ASSUME NEW p \in Rival
  PROVE  p \in PdoPoint /\ InOutputs(p) /\ p.area = "Output" /\ p.type = "BOOL" /\ Fits(InitialOutputs, p)
<1>1. p \in PdoPoint /\ p.area = "Output" /\ p.type = "BOOL" /\ p.byte < Len(InitialOutputs)
  BY BusAssumption DEF RivalAssumption
<1>2. p.byte \in Nat /\ ByteLen(p.type) = 1 /\ p.bus = "ethercat"
  BY <1>1, PointFields, ByteLenType
<1>3. Len(InitialOutputs) \in Nat
  BY BusAssumption
<1> QED BY <1>1, <1>2, <1>3 DEF Fits, InOutputs

\* A Boolean of the other master is a value.
LEMMA FlagValue == \A b \in BOOLEAN : IsValue(Flag(b)) /\ Truth(Flag(b)) = b
BY DEF IsValue, Flag, Truth

\* What the other master is going to write back.
LEMMA PendingWrite ==
  ASSUME WorkOK, NEW p \in work.pending
  PROVE  /\ p.point \in Rival /\ p.segment \in Seq(Byte) /\ Len(p.segment) = 1
         /\ IsValue(p.value) /\ Cut(p.point, p.value) = p.value
<1>1. p \in RivalWrite /\ Len(p.segment) = 1
  BY DEF WorkOK
<1>2. p.point \in Rival /\ p.segment \in Seq(Byte) /\ \E on \in BOOLEAN : p.value = Flag(on)
  BY <1>1 DEF RivalWrite, Byte
<1>3. p.point.type = "BOOL"
  BY <1>2, RivalPoint
<1> QED BY <1>1, <1>2, <1>3, FlagValue DEF Cut

\* What its write back leaves in the process image.
LEMMA RivalWritten ==
  ASSUME Typed, NEW p \in work.pending, RivalWritesBack(p)
  PROVE  /\ bus' = [bus EXCEPT !.outputs = bus'.outputs]
         /\ bus.outputs \in Seq(Byte) /\ bus'.outputs \in Seq(Byte)
         /\ Len(bus'.outputs) = Len(bus.outputs) /\ Len(bus.outputs) = Len(InitialOutputs)
         /\ \A k \in 1..Len(bus.outputs) :
              k - 1 \notin BytesOf(p.point) => bus'.outputs[k] = bus.outputs[k]
         /\ ReadPdo(bus'.outputs, p.point) = p.value
         /\ \A j \in 0..ByteBits - 1 : j # p.point.bit =>
              BitSet(bus'.outputs[p.point.byte + 1], j) = BitSet(p.segment[1], j)
<1> DEFINE out == Back(bus.outputs, p.point, p.segment, p.value)
<1>1. bus' = [bus EXCEPT !.outputs = out]
  BY DEF RivalWritesBack, Back
<1>2. /\ p.point \in Rival /\ p.segment \in Seq(Byte) /\ Len(p.segment) = 1
      /\ IsValue(p.value) /\ Cut(p.point, p.value) = p.value
  BY PendingWrite DEF Typed
<1>3. bus.outputs \in Seq(Byte) /\ Len(bus.outputs) = Len(InitialOutputs)
  BY Images DEF Typed, BusOK
<1>4. /\ p.point \in PdoPoint /\ p.point.type = "BOOL" /\ Fits(bus.outputs, p.point)
      /\ ByteLen(p.point.type) = 1
  BY <1>2, <1>3, RivalPoint, ByteLenType DEF Fits
<1>5. /\ out \in Seq(Byte) /\ Len(out) = Len(bus.outputs)
      /\ \A k \in 1..Len(bus.outputs) : k - 1 \notin BytesOf(p.point) => out[k] = bus.outputs[k]
      /\ ReadPdo(out, p.point) = Cut(p.point, p.value)
      /\ \A j \in 0..ByteBits - 1 :
           j # p.point.bit => BitSet(out[p.point.byte + 1], j) = BitSet(p.segment[1], j)
  <2> DEFINE outputs == bus.outputs
             point   == p.point
             segment == p.segment
             x       == p.value
  <2>1. /\ outputs \in Seq(Byte) /\ point \in PdoPoint /\ Fits(outputs, point)
        /\ segment \in Seq(Byte) /\ Len(segment) = ByteLen(point.type) /\ IsValue(x)
        /\ point.type = "BOOL" /\ out = Back(outputs, point, segment, x)
    BY <1>2, <1>3, <1>4
  <2> HIDE DEF outputs, point, segment, x, out
  <2>2. /\ out \in Seq(Byte) /\ Len(out) = Len(outputs)
        /\ \A k \in 1..Len(outputs) : k - 1 \notin BytesOf(point) => out[k] = outputs[k]
        /\ ReadPdo(out, point) = Cut(point, x)
        /\ \A j \in 0..ByteBits - 1 :
             j # point.bit => BitSet(out[point.byte + 1], j) = BitSet(segment[1], j)
    BY <2>1, WrittenBack
  <2> QED BY <2>2 DEF outputs, point, segment, x
<1> HIDE DEF out
<1>6. bus'.outputs = out
  BY <1>1 DEF Typed, BusOK
<1> QED BY <1>1, <1>2, <1>3, <1>5, <1>6

\* The field, the bridge, the loss of power and the other master.
LEMMA WorldTyped ==
  /\ Typed /\ FieldChanges => Typed'
  /\ Typed /\ TakePublished => Typed'
  /\ Typed /\ PowerLoss => Typed'
  /\ \A point \in Rival, on \in BOOLEAN : Typed /\ RivalReads(point, Flag(on)) => Typed'
  /\ \A p \in work.pending : Typed /\ RivalWritesBack(p) => Typed'
<1> USE DEF Typed
<1>1. ASSUME Typed, FieldChanges PROVE Typed'
  <2>1. PICK bytes \in Inputs : bus' = [bus EXCEPT !.inputs = bytes]
    BY <1>1 DEF FieldChanges
  <2>2. BusOK'
    BY <1>1, <2>1 DEF BusOK
  <2> QED BY <1>1, <2>2 DEF FieldChanges, FieldsOK, PcOK, Modifying, StoreOK, DoneOK, WorkOK
<1>2. ASSUME Typed, TakePublished PROVE Typed'
  <2>1. bus' = [bus EXCEPT !.ros.published = <<>>]
    BY <1>2 DEF TakePublished
  <2>2. bus'.ros = [bus.ros EXCEPT !.published = <<>>] /\ bus'.outputs = bus.outputs
        /\ DOMAIN bus' = DOMAIN bus
    BY <1>2, <2>1 DEF BusOK
  <2>3. BusOK'
    BY <1>2, <2>2 DEF BusOK
  <2> QED BY <1>2, <2>3 DEF TakePublished, FieldsOK, PcOK, Modifying, StoreOK, DoneOK, WorkOK
<1>3. ASSUME Typed, PowerLoss PROVE Typed'
  <2>1. FieldsOK'
    BY <1>3, GarbageTyped DEF PowerLoss, FieldsOK
  <2>2. PcOK'
    BY <1>3, PcMoves DEF PowerLoss, Labels
  <2>3. DoneOK' /\ WorkOK'
    BY <1>3 DEF PowerLoss, NothingDone, DoneOK, WorkOK
  <2> QED BY <1>3, <2>1, <2>2, <2>3 DEF PowerLoss, BusOK, StoreOK
<1>4. ASSUME NEW point \in Rival, NEW on \in BOOLEAN, Typed, RivalReads(point, Flag(on)) PROVE Typed'
  <2> DEFINE s == Segment(bus.outputs, point)
             p == [point |-> point, value |-> Flag(on), segment |-> s]
  <2>1. bus.outputs \in Seq(Byte) /\ Len(bus.outputs) = Len(InitialOutputs)
    BY <1>4, Images DEF BusOK
  <2>2. point \in PdoPoint /\ Fits(bus.outputs, point) /\ ByteLen(point.type) = 1
    BY <2>1, RivalPoint, ByteLenType DEF Fits
  <2>3. s \in Seq(Byte) /\ Len(s) = 1
    BY <2>1, <2>2, SegmentShape
  <2> HIDE DEF s
  <2>4. p \in RivalWrite /\ Len(p.segment) = 1
    BY <2>3 DEF RivalWrite, Byte
  <2>5. work' = [work EXCEPT !.steps = @ + 1, !.pending = {p}]
    BY <1>4 DEF RivalReads, s
  <2> HIDE DEF p
  <2>6. WorkOK'
    BY <1>4, <2>4, <2>5 DEF WorkOK
  <2> QED BY <1>4, <2>6 DEF RivalReads, FieldsOK, PcOK, Modifying, BusOK, StoreOK, DoneOK
<1>5. ASSUME NEW p \in work.pending, Typed, RivalWritesBack(p) PROVE Typed'
  <2>1. bus' = [bus EXCEPT !.outputs = bus'.outputs] /\ bus'.outputs \in OutputImages
    BY <1>5, RivalWritten, ImageOf
  <2>2. BusOK'
    BY <1>5, <2>1 DEF BusOK
  <2>3. /\ DOMAIN work' = DOMAIN work /\ work'.pending = {}
        /\ work'.rival = Stored(work.rival, p.point, p.value)
    BY <1>5 DEF RivalWritesBack, WorkOK
  <2>4. WorkOK'
    BY <1>5, <2>3, PendingWrite DEF WorkOK, Stored
  <2> QED BY <1>5, <2>2, <2>4 DEF RivalWritesBack, FieldsOK, PcOK, Modifying, StoreOK, DoneOK
<1> QED BY <1>1, <1>2, <1>3, <1>4, <1>5

\* Typed is inductive.
LEMMA StepTyped == Typed /\ [Next]_vars => Typed'
<1>1. Typed /\ UNCHANGED vars => Typed'
  BY DEF vars, Typed, FieldsOK, PcOK, Modifying, BusOK, StoreOK, DoneOK, WorkOK
<1> QED BY <1>1, HostTyped, SaveTyped, ScanTyped, WorldTyped DEF Next

\* The struct holds a value of its range in every field, from the first content of memory
\* on, and what the adapters leave is an image of bytes; a segment that is written back has
\* the length of its point (iec_c: scan; rbcpp_target: write_symbol).
THEOREM TypeCorrect == Spec => []TypeOK
<1>1. Spec => []Typed
  BY InitTyped, StepTyped, PTL DEF Spec
<1> QED BY <1>1, TypedIsTypeOK, PTL

\* The adapters that work in memory and those that work over a transport do the same in every
\* state of the bytes (lib.rs: EtherCatHal and EtherCatTransportHal, ModbusHal and
\* ModbusTransportHal, Ros2Hal and Ros2TransportHal, FileBackedHal).
THEOREM AdaptersAlwaysAgree == Spec => []AdaptersAgree
<1>1. Typed => AdaptersAgree
  BY AlwaysAgree DEF Typed, BusOK, AdaptersAgree
<1>2. Spec => []Typed
  BY InitTyped, StepTyped, PTL DEF Spec
<1> QED BY <1>1, <1>2, PTL

(***************************************************************************)
(* The bytes of other masters.                                             *)
(***************************************************************************)
\* Two bits of one byte
Shares(p, q) == p.type = "BOOL" /\ q.type = "BOOL" /\ q.byte = p.byte /\ q.bit # p.bit

\* A point that shares no bit with the one that is written reads as before.
LEMMA BesideKeeps ==
  ASSUME NEW bytes \in Seq(Byte), NEW out \in Seq(Byte), Len(out) = Len(bytes),
         NEW p \in PdoPoint, NEW q \in PdoPoint, InOutputs(p), InOutputs(q), Apart(q, p),
         \A k \in 1..Len(bytes) : k - 1 \notin BytesOf(p) => out[k] = bytes[k],
         Shares(p, q) => BitSet(out[q.byte + 1], q.bit) = BitSet(bytes[q.byte + 1], q.bit)
  PROVE  ReadPdo(out, q) = ReadPdo(bytes, q)
<1>1. /\ p.byte \in Nat /\ q.byte \in Nat /\ p.bit \in 0..ByteBits - 1 /\ q.bit \in 0..ByteBits - 1
      /\ ByteLen(q.type) \in Nat /\ Len(bytes) \in Nat
  BY PointFields, ByteLenType
<1>2. CASE BytesOf(q) \cap BytesOf(p) = {}
  <2>1. ASSUME Fits(out, q), NEW k \in 1..ByteLen(q.type)
        PROVE  out[q.byte + k] = bytes[q.byte + k]
    <3>1. q.byte + k \in 1..Len(bytes)
      BY <1>1, <2>1 DEF Fits
    <3>2. (q.byte + k) - 1 \in BytesOf(q)
      BY <1>1 DEF BytesOf
    <3>3. (q.byte + k) - 1 \notin BytesOf(p)
      BY <1>2, <3>2
    <3> QED BY <3>1, <3>3
  <2> QED BY <2>1, ReadsItsOwn
<1>3. CASE BytesOf(q) \cap BytesOf(p) # {}
  <2>1. q.type = "BOOL" /\ p.type = "BOOL" /\ q.bit # p.bit
    BY <1>3 DEF Apart
  <2>2. q.byte = p.byte
    BY <1>1, <1>3, <2>1, ByteLenType DEF BytesOf
  <2> QED BY <2>1, <2>2, ReadsItsOwn DEF Shares
<1> QED BY <1>2, <1>3

\* So it does when another master writes a bit, unless a bit of a byte that was changed since
\* the other master read it.
LEMMA RivalKeeps ==
  ASSUME Typed, NEW p \in work.pending, RivalWritesBack(p),
         NEW q \in PdoPoint, InOutputs(q), Apart(q, p.point),
         Shares(p.point, q) => p.segment = Segment(bus.outputs, p.point)
  PROVE  ReadPdo(bus'.outputs, q) = ReadPdo(bus.outputs, q)
<1>1. /\ bus.outputs \in Seq(Byte) /\ bus'.outputs \in Seq(Byte)
      /\ Len(bus'.outputs) = Len(bus.outputs) /\ Len(bus.outputs) = Len(InitialOutputs)
      /\ \A k \in 1..Len(bus.outputs) :
           k - 1 \notin BytesOf(p.point) => bus'.outputs[k] = bus.outputs[k]
      /\ \A j \in 0..ByteBits - 1 : j # p.point.bit =>
           BitSet(bus'.outputs[p.point.byte + 1], j) = BitSet(p.segment[1], j)
  BY RivalWritten
<1>2. /\ p.point \in PdoPoint /\ InOutputs(p.point) /\ Fits(bus.outputs, p.point)
      /\ ByteLen(p.point.type) = 1
  BY <1>1, PendingWrite, RivalPoint, ByteLenType DEF Typed, Fits
<1>3. Segment(bus.outputs, p.point)[1] = bus.outputs[p.point.byte + 1]
  BY <1>1, <1>2, SegmentShape
<1>4. Shares(p.point, q) =>
        BitSet(bus'.outputs[q.byte + 1], q.bit) = BitSet(bus.outputs[q.byte + 1], q.bit)
  <2>1. q.bit \in 0..ByteBits - 1
    BY PointFields
  <2> QED BY <1>1, <1>3, <2>1 DEF Shares
<1> QED BY <1>1, <1>2, <1>4, BesideKeeps

\* Two bits of the output bytes are the same or lie apart.
LEMMA SameOrApart ==
  \A p, q \in Rival : p = q \/ Apart(p, q)
<1> SUFFICES ASSUME NEW p \in Rival, NEW q \in Rival, ~Apart(p, q) PROVE p = q
  OBVIOUS
<1>1. /\ p \in PdoPoint /\ p.area = "Output" /\ p.type = "BOOL" /\ InOutputs(p)
      /\ q \in PdoPoint /\ q.area = "Output" /\ q.type = "BOOL" /\ InOutputs(q)
  BY RivalPoint
<1>2. p.byte \in Nat /\ q.byte \in Nat
  BY <1>1, PointFields
<1>3. p.bit = q.bit /\ BytesOf(p) \cap BytesOf(q) # {}
  BY <1>1 DEF Apart
<1>4. p.byte = q.byte
  BY <1>1, <1>2, <1>3, ByteLenType DEF BytesOf
<1> QED BY <1>1, <1>3, <1>4 DEF PdoPoint

\* What the steps leave of the output bytes: only the write back of a point and the other
\* master change them (lib.rs: write_symbol).
LEMMA OutputsStay ==
  ASSUME Typed, [Next]_vars, ~WriteBack,
         \A p \in work.pending : ~RivalWritesBack(p)
  PROVE  bus'.outputs = bus.outputs
<1> USE DEF Typed
<1>1. CASE UNCHANGED vars
  BY <1>1 DEF vars
<1>2. CASE Host
  BY <1>2 DEF Host, CallInit, WarmRestart, CallSave, CallLoad, SetTargetHooks, WriteAccessPath
<1>3. CASE SaveEntry
  BY <1>3 DEF SaveEntry
<1>4. CASE FieldChanges
  BY <1>4 DEF FieldChanges, BusOK
<1>5. CASE TakePublished
  BY <1>5 DEF TakePublished, BusOK
<1>6. CASE PowerLoss
  BY <1>6 DEF PowerLoss
<1>7. CASE SyncOutput
  <2> DEFINE entry == IoEntries[pc.k]
             b     == HalWrite(bus, entry, fields[entry.leaf])
  <2>1. pc.k \in DOMAIN IoEntries
    BY <1>7, EntriesShape DEF SyncOutput, PcOK
  <2>2. \/ bus' = bus
        \/ ShouldWrite(entry) /\ ~ReadsFirst(Binding(entry)) /\ bus' = b
    BY <1>7 DEF SyncOutput
  <2>3. ~ReadsFirst(Binding(entry)) => b.outputs = bus.outputs
    BY <2>1, HalWriteTyped, EntryValue
  <2> HIDE DEF b
  <2> QED BY <2>2, <2>3
<1>8. CASE Scan /\ ~SyncOutput
  BY <1>8 DEF Scan, BeginScan, SyncInput, Body, EndScan
<1>9. CASE \E point \in Rival, on \in BOOLEAN : RivalReads(point, Flag(on))
  BY <1>9 DEF RivalReads
<1> QED BY <1>1, <1>2, <1>3, <1>4, <1>5, <1>6, <1>7, <1>8, <1>9 DEF Next

\* No point the program writes has a byte in common with the point.
Untouched(point) ==
  \A k \in Writes : InOutputs(Binding(IoEntries[k])) =>
    BytesOf(Binding(IoEntries[k])) \cap BytesOf(point) = {}

\* Of a byte that only it writes, the other master holds the content of the bus.
Current ==
  \A p \in work.pending : Untouched(p.point) => p.segment = Segment(bus.outputs, p.point)

\* A write back of the program leaves a byte that only the other master writes.
LEMMA WriteBackLeaves ==
  ASSUME Typed, WriteBack, NEW q \in Rival, Untouched(q)
  PROVE  bus'.outputs[q.byte + 1] = bus.outputs[q.byte + 1]
<1> DEFINE p == Binding(IoEntries[pc.k])
<1>1. /\ pc.k \in Writes /\ InOutputs(p)
      /\ bus.outputs \in Seq(Byte) /\ Len(bus.outputs) = Len(InitialOutputs)
  BY WriteBackPoint DEF WriteBack
<1>2. PICK out \in Seq(Byte) :
        /\ bus' = [bus EXCEPT !.outputs = out]
        /\ \A k \in 1..Len(bus.outputs) : k - 1 \notin BytesOf(p) => out[k] = bus.outputs[k]
  BY WriteBackWrites
<1>3. bus' = [bus EXCEPT !.outputs = out]
  BY <1>2
<1>4. bus'.outputs = out
  BY <1>3 DEF Typed, BusOK
<1>5. /\ q \in PdoPoint /\ q.byte \in Nat /\ ByteLen(q.type) = 1 /\ Fits(InitialOutputs, q)
      /\ q.byte \in BytesOf(q)
  BY RivalPoint, PointFields, ByteLenType DEF BytesOf
<1>6. q.byte + 1 \in 1..Len(bus.outputs) /\ (q.byte + 1) - 1 = q.byte
  BY <1>1, <1>5 DEF Fits
<1>7. q.byte \notin BytesOf(p)
  BY <1>1, <1>5 DEF Untouched
<1> QED BY <1>2, <1>4, <1>6, <1>7

\* Every step that is not a step of the other master leaves what it wrote and what it holds.
LEMMA RivalRests ==
  ASSUME Typed, [Next]_vars, \A p \in work.pending : ~RivalWritesBack(p),
         \A point \in Rival, on \in BOOLEAN : ~RivalReads(point, Flag(on))
  PROVE  work'.rival = work.rival /\ work'.pending = work.pending
BY DEF Next, vars, Host, CallInit, WarmRestart, CallSave, CallLoad, SetTargetHooks,
       WriteAccessPath, SaveEntry, Scan, BeginScan, SyncInput, Body, SyncOutput, WriteBack,
       EndScan, FieldChanges, TakePublished, PowerLoss, Typed, WorkOK

\* Current is inductive.
LEMMA StepKeepsCurrent == Typed /\ Current /\ [Next]_vars => Current'
<1> SUFFICES ASSUME Typed, Current, [Next]_vars, NEW p \in work'.pending, Untouched(p.point)
             PROVE  p.segment = Segment(bus'.outputs, p.point)
  BY DEF Current, Untouched
<1>1. CASE \E point \in Rival, on \in BOOLEAN : RivalReads(point, Flag(on))
  BY <1>1 DEF RivalReads, Typed, WorkOK
<1>2. CASE \E r \in work.pending : RivalWritesBack(r)
  BY <1>2 DEF RivalWritesBack, Typed, WorkOK
<1>3. CASE ~(\E point \in Rival, on \in BOOLEAN : RivalReads(point, Flag(on)))
           /\ ~\E r \in work.pending : RivalWritesBack(r)
  <2>1. p \in work.pending /\ p.segment = Segment(bus.outputs, p.point)
    BY <1>3, RivalRests DEF Current
  <2>2. CASE ~WriteBack
    BY <1>3, <2>1, <2>2, OutputsStay
  <2>3. CASE WriteBack
    <3> DEFINE q == p.point
               s == Segment(bus.outputs, q)
               t == Segment(bus'.outputs, q)
    <3>1. q \in Rival
      BY <2>1, PendingWrite DEF Typed
    <3>2. /\ bus.outputs \in Seq(Byte) /\ bus'.outputs \in Seq(Byte)
          /\ Len(bus.outputs) = Len(InitialOutputs) /\ Len(bus'.outputs) = Len(InitialOutputs)
      BY StepTyped, Images DEF Typed, BusOK
    <3>3. /\ q \in PdoPoint /\ ByteLen(q.type) = 1
          /\ Fits(bus.outputs, q) /\ Fits(bus'.outputs, q)
      BY <3>1, <3>2, RivalPoint, ByteLenType DEF Fits
    <3>4. bus'.outputs[q.byte + 1] = bus.outputs[q.byte + 1]
      BY <2>3, <3>1, WriteBackLeaves
    <3>5. /\ s \in Seq(Byte) /\ Len(s) = 1 /\ s[1] = bus.outputs[q.byte + 1]
          /\ t \in Seq(Byte) /\ Len(t) = 1 /\ t[1] = bus'.outputs[q.byte + 1]
      <4> HIDE DEF q
      <4>1. 1 \in 1..ByteLen(q.type)
        BY <3>3
      <4>2. s \in Seq(Byte) /\ Len(s) = 1 /\ s[1] = bus.outputs[q.byte + 1]
        BY <3>2, <3>3, <4>1, SegmentShape
      <4>3. t \in Seq(Byte) /\ Len(t) = 1 /\ t[1] = bus'.outputs[q.byte + 1]
        BY <3>2, <3>3, <4>1, SegmentShape
      <4> QED BY <4>2, <4>3
    <3> HIDE DEF s, t
    <3>6. s = t
      BY <3>4, <3>5
    <3> QED BY <2>1, <3>6 DEF s, t
  <2> QED BY <2>2, <2>3
<1> QED BY <1>1, <1>2, <1>3

\* A write of the other master is seen by its point and by no other of its points; a write
\* back touches only the bytes of its own point (lib.rs: write_symbol).
LEMMA StepKeepsOtherBytes == Typed /\ Current /\ OtherBytesAreKept /\ [Next]_vars => OtherBytesAreKept'
<1> SUFFICES ASSUME Typed, Current, OtherBytesAreKept, [Next]_vars,
                    NEW q \in DOMAIN work'.rival, Untouched(q)
             PROVE  ReadPdo(bus'.outputs, q) = work'.rival[q]
  BY DEF OtherBytesAreKept, Untouched
<1>0. q \in Rival
  BY StepTyped DEF Typed, WorkOK
<1>1. q \in PdoPoint /\ InOutputs(q) /\ q.type = "BOOL" /\ Fits(InitialOutputs, q)
  BY <1>0, RivalPoint
<1>2. CASE \E p \in work.pending : RivalWritesBack(p)
  <2>1. PICK p \in work.pending : RivalWritesBack(p)
    BY <1>2
  <2>2. p.point \in Rival
    BY PendingWrite DEF Typed
  <2>3. work'.rival = Stored(work.rival, p.point, p.value)
    BY <2>1 DEF RivalWritesBack, Typed, WorkOK
  <2>4. ReadPdo(bus'.outputs, p.point) = p.value
    BY <2>1, RivalWritten
  <2>5. CASE q = p.point
    BY <2>3, <2>4, <2>5 DEF Stored
  <2>6. CASE q # p.point
    <3>1. q \in DOMAIN work.rival /\ work'.rival[q] = work.rival[q]
      BY <2>3, <2>6 DEF Stored
    <3>2. Apart(q, p.point)
      BY <1>0, <2>2, <2>6, SameOrApart
    <3>3. Shares(p.point, q) => Untouched(p.point)
      BY DEF Shares, Untouched, BytesOf
    <3>4. ReadPdo(bus'.outputs, q) = ReadPdo(bus.outputs, q)
      BY <1>1, <2>1, <3>2, <3>3, RivalKeeps DEF Current
    <3> QED BY <3>1, <3>4 DEF OtherBytesAreKept, Untouched
  <2> QED BY <2>5, <2>6
<1>3. CASE ~\E p \in work.pending : RivalWritesBack(p)
  <2>1. work'.rival = work.rival
    <3>1. CASE \E point \in Rival, on \in BOOLEAN : RivalReads(point, Flag(on))
      BY <3>1 DEF RivalReads, Typed, WorkOK
    <3> QED BY <1>3, <3>1, RivalRests
  <2>2. CASE ~WriteBack
    <3>1. bus'.outputs = bus.outputs
      BY <1>3, <2>2, OutputsStay
    <3> QED BY <2>1, <3>1 DEF OtherBytesAreKept, Untouched
  <2>3. CASE WriteBack
    <3>1. /\ bus.outputs \in Seq(Byte) /\ bus'.outputs \in Seq(Byte)
          /\ Len(bus'.outputs) = Len(bus.outputs)
      BY StepTyped, Images DEF Typed, BusOK
    <3>2. q.byte \in Nat /\ ByteLen(q.type) = 1
      BY <1>1, PointFields, ByteLenType
    <3>3. bus'.outputs[q.byte + 1] = bus.outputs[q.byte + 1]
      BY <1>0, <2>3, WriteBackLeaves
    <3>4. \A k \in 1..ByteLen(q.type) : bus'.outputs[q.byte + k] = bus.outputs[q.byte + k]
      BY <3>2, <3>3
    <3>5. ReadPdo(bus'.outputs, q) = ReadPdo(bus.outputs, q)
      BY <1>1, <3>1, <3>4, ReadsItsOwn
    <3> QED BY <2>1, <3>5 DEF OtherBytesAreKept, Untouched
  <2> QED BY <2>2, <2>3
<1> QED BY <1>2, <1>3

\* A point that another master wrote into bytes of its own stays what it was, whatever the
\* program writes around it (lib.rs: write_symbol reads and writes the bytes of its point).
THEOREM OtherBytesStay == Spec => []OtherBytesAreKept
<1>1. Init => OtherBytesAreKept /\ Current
  BY DEF Init, OtherBytesAreKept, Current
<1> QED BY <1>1, InitTyped, StepTyped, StepKeepsCurrent, StepKeepsOtherBytes, PTL DEF Spec

(***************************************************************************)
(* Saving and loading.                                                     *)
(***************************************************************************)
\* During a scan the fields are neither fresh nor synced.
Quiet == pc.at \in {"inputs", "outputs", "modify"} => ~done.fresh /\ ~done.synced

NeverStored(leaf) == \A k \in DOMAIN RetainEntries : leaf \notin RetainEntries[k]

\* Until a scan, or an access service, the fields no entry stores have their initial values.
FreshOK ==
  done.fresh => \A leaf \in DeclaredLeaves : NeverStored(leaf) => fields[leaf] = Initials[leaf]

StoredFrom(f, k) == store[k] = [leaf \in RetainEntries[k] |-> f[leaf]]

\* A save in progress has stored the entries before the next one.
Saving ==
  pc.at = "save" =>
    done.saved = NoValue /\ \A k \in DOMAIN RetainEntries : k < pc.k => StoredFrom(fields, k)

\* Only a whole save counts, and then the store holds what it found in the fields.
SavedOK ==
  done.saved # NoValue =>
    /\ \A leaf \in Leaves : done.saved[leaf] \in RangeOf[leaf]
    /\ DOMAIN done.saved = Leaves
    /\ \A k \in DOMAIN RetainEntries : StoredFrom(done.saved, k)

Retaining == Quiet /\ FreshOK /\ Saving /\ SavedOK

\* The leaves of a variable begin with its name.
LEMMA LeafName == \A var : \A leaf \in LeavesOf(var) : leaf[1] = var.name
BY DEF LeavesOf, EdgeMemory

\* What is stored is not written by warm_restart: a variable is in a RETAIN block or not.
LEMMA StoredIsNotWarm ==
  \A k \in DOMAIN RetainEntries : RetainEntries[k] \cap WarmLeaves = {}
<1> SUFFICES ASSUME NEW k \in DOMAIN RetainEntries, NEW leaf \in RetainEntries[k], leaf \in WarmLeaves
             PROVE  FALSE
  OBVIOUS
<1>1. PICK j \in DOMAIN VarsWithRetain :
        VarsWithRetain[j].retain /\ RetainEntries[k] \subseteq LeavesOf(VarsWithRetain[j].var)
  BY RetainShape
<1>2. PICK i \in DOMAIN VarsWithRetain :
        ~VarsWithRetain[i].retain /\ leaf \in LeavesOf(VarsWithRetain[i].var)
  BY DEF WarmLeaves
<1>3. VarsWithRetain[i].var.name = VarsWithRetain[j].var.name
  BY <1>1, <1>2, LeafName
<1>4. i = j
  BY <1>3, BlocksAssumption DEF WellFormedBlocks
<1> QED BY <1>1, <1>2, <1>4

\* What no entry stores is an edge memory or written by warm_restart.
LEMMA NeverStoredIsWarm ==
  \A leaf \in DeclaredLeaves : NeverStored(leaf) /\ Len(leaf) < 3 => leaf \in WarmLeaves
<1> SUFFICES ASSUME NEW leaf \in DeclaredLeaves, NeverStored(leaf), Len(leaf) < 3
             PROVE  leaf \in WarmLeaves
  OBVIOUS
<1>1. PICK var \in Declared : leaf \in LeavesOf(var)
  BY DEF DeclaredLeaves
<1>2. PICK k \in DOMAIN VarsWithRetain : VarsWithRetain[k].var = var
  BY DEF Declared
<1>3. ~VarsWithRetain[k].retain
  BY <1>1, <1>2, RetainShape DEF NeverStored
<1>4. LeavesOf(VarsWithRetain[k].var) \subseteq WarmLeaves
  BY <1>3 DEF WarmLeaves
<1> QED BY <1>1, <1>2, <1>4

\* What is stored of typed fields is not None.
LEMMA StoredIsSome ==
  ASSUME NEW f, \A leaf \in Leaves : f[leaf] \in RangeOf[leaf], NEW k \in DOMAIN RetainEntries
  PROVE  [leaf \in RetainEntries[k] |-> f[leaf]] # NoValue
<1> DEFINE g == [leaf \in RetainEntries[k] |-> f[leaf]]
           U == UNION {RangeOf[leaf] : leaf \in RetainEntries[k]}
<1>1. \A leaf \in RetainEntries[k] : leaf \in Leaves
  BY RetainShape, InitialsTyped
<1>2. \A leaf \in RetainEntries[k] : f[leaf] \in U
  BY <1>1
<1>3. g \in [RetainEntries[k] -> U]
  <2> HIDE DEF U
  <2> QED BY <1>2
<1>4. NoValue \notin [RetainEntries[k] -> U]
  BY TypeAssumption DEF WellTyped
<1> HIDE DEF g, U
<1>5. g # NoValue
  BY <1>3, <1>4
<1> QED BY <1>5 DEF g

\* Loading after a whole save: what is stored comes back, the rest is as init left it.
LEMMA LoadsLikeWarmRestart == Typed /\ Retaining => LoadsAsWarmRestart
<1> SUFFICES ASSUME Typed, Retaining, CallLoad, done.fresh, done.saved # NoValue,
                    NEW leaf \in DeclaredLeaves, Len(leaf) < 3
             PROVE  fields'[leaf] = WithInitials(done.saved, WarmLeaves)[leaf]
  BY DEF LoadsAsWarmRestart
<1> DEFINE from == {k \in DOMAIN RetainEntries : leaf \in RetainEntries[k] /\ store[k] # NoValue}
<1>1. leaf \in Leaves
  BY InitialsTyped
<1>2. fields'[leaf] = IF from = {} THEN fields[leaf] ELSE store[CHOOSE k \in from : TRUE][leaf]
  BY <1>1 DEF CallLoad
<1>3. /\ \A l \in Leaves : done.saved[l] \in RangeOf[l]
      /\ DOMAIN done.saved = Leaves
      /\ \A k \in DOMAIN RetainEntries : store[k] = [l \in RetainEntries[k] |-> done.saved[l]]
  BY DEF Retaining, SavedOK, StoredFrom
<1>4. WithInitials(done.saved, WarmLeaves)[leaf]
        = IF leaf \in WarmLeaves THEN Initials[leaf] ELSE done.saved[leaf]
  BY <1>1, <1>3 DEF WithInitials
<1>5. CASE from = {}
  <2>1. NeverStored(leaf)
    <3>1. ASSUME NEW k \in DOMAIN RetainEntries PROVE store[k] # NoValue
      <4>1. \A l \in Leaves : done.saved[l] \in RangeOf[l]
        BY <1>3
      <4>2. [l \in RetainEntries[k] |-> done.saved[l]] # NoValue
        BY <4>1, StoredIsSome, Zenon
      <4> QED BY <1>3, <4>2
    <3> QED BY <1>5, <3>1 DEF NeverStored
  <2>2. fields[leaf] = Initials[leaf]
    BY <2>1 DEF Retaining, FreshOK
  <2>3. leaf \in WarmLeaves
    BY <2>1, NeverStoredIsWarm
  <2> QED BY <1>2, <1>4, <1>5, <2>2, <2>3
<1>6. CASE from # {}
  <2> DEFINE k == CHOOSE k \in from : TRUE
  <2>1. k \in from
    BY <1>6
  <2>2. k \in DOMAIN RetainEntries /\ leaf \in RetainEntries[k]
    BY <2>1
  <2>3. fields'[leaf] = store[k][leaf]
    BY <1>2, <1>6
  <2> HIDE DEF k
  <2>4. store[k][leaf] = done.saved[leaf]
    BY <1>3, <2>2
  <2>5. leaf \notin WarmLeaves
    BY <2>2, StoredIsNotWarm
  <2> QED BY <1>4, <2>3, <2>4, <2>5
<1> QED BY <1>5, <1>6

\* The calls between scans.
LEMMA HostRetains == Typed /\ Retaining /\ Host => Retaining'
<1> SUFFICES ASSUME Typed, Retaining, Host PROVE Retaining'
  OBVIOUS
<1> USE DEF Retaining
<1>1. CASE CallInit
  <2>1. Quiet' /\ Saving'
    BY <1>1 DEF CallInit, Idle, At, Quiet, Saving
  <2>2. FreshOK'
    <3>1. \A leaf \in DeclaredLeaves : fields'[leaf] = Initials[leaf]
      BY <1>1, InitialsTyped DEF CallInit, WithInitials, Typed, FieldsOK
    <3> QED BY <3>1 DEF FreshOK
  <2>3. SavedOK'
    BY <1>1 DEF CallInit, Changed, Typed, DoneOK, SavedOK, StoredFrom
  <2> QED BY <2>1, <2>2, <2>3
<1>2. CASE WarmRestart
  <2>1. Quiet' /\ Saving'
    BY <1>2 DEF WarmRestart, Idle, At, Quiet, Saving
  <2>2. FreshOK'
    <3>1. done'.fresh = done.fresh
      BY <1>2 DEF WarmRestart, Changed, Typed, DoneOK
    <3>2. \A leaf \in DeclaredLeaves : fields'[leaf] \in {Initials[leaf], fields[leaf]}
      BY <1>2, InitialsTyped DEF WarmRestart, WithInitials, Typed, FieldsOK
    <3> QED BY <3>1, <3>2 DEF FreshOK
  <2>3. SavedOK'
    BY <1>2 DEF WarmRestart, Changed, Typed, DoneOK, SavedOK, StoredFrom
  <2> QED BY <2>1, <2>2, <2>3
<1>3. CASE CallSave
  <2>1. done'.saved = NoValue /\ done'.fresh = done.fresh /\ pc'.at = "save" /\ pc'.k = 1
    BY <1>3 DEF CallSave, StartSave, At, Typed, DoneOK
  <2>2. Saving'
    BY <2>1, RetainShape DEF Saving
  <2> QED BY <1>3, <2>1, <2>2 DEF CallSave, Quiet, FreshOK, SavedOK
<1>4. CASE CallLoad
  <2>1. Quiet' /\ Saving'
    BY <1>4 DEF CallLoad, Idle, At, Quiet, Saving
  <2>2. FreshOK'
    <3>1. done'.fresh = done.fresh
      BY <1>4 DEF CallLoad, Changed, Typed, DoneOK
    <3>2. ASSUME NEW leaf \in DeclaredLeaves, NeverStored(leaf) PROVE fields'[leaf] = fields[leaf]
      <4>1. {k \in DOMAIN RetainEntries : leaf \in RetainEntries[k] /\ store[k] # NoValue} = {}
        BY <3>2 DEF NeverStored
      <4>2. leaf \in Leaves
        BY InitialsTyped
      <4> QED BY <1>4, <4>1, <4>2 DEF CallLoad
    <3> QED BY <3>1, <3>2 DEF FreshOK
  <2>3. SavedOK'
    BY <1>4 DEF CallLoad, Changed, Typed, DoneOK, SavedOK, StoredFrom
  <2> QED BY <2>1, <2>2, <2>3
<1>5. ASSUME NEW table \in HookTables, SetTargetHooks(table) PROVE Retaining'
  BY <1>5 DEF SetTargetHooks, Quiet, FreshOK, Saving, SavedOK, StoredFrom
<1>6. ASSUME NEW k \in DOMAIN AccessEntries, NEW leaf \in Leaves, NEW x \in RangeOf[leaf],
             WriteAccessPath(k, leaf, x)
      PROVE  Retaining'
  <2>1. Quiet' /\ Saving'
    BY <1>6 DEF WriteAccessPath, Idle, At, Quiet, Saving
  <2>2. FreshOK' /\ SavedOK'
    BY <1>6 DEF WriteAccessPath, Changed, Typed, DoneOK, FreshOK, SavedOK, StoredFrom
  <2> QED BY <2>1, <2>2
<1> QED BY <1>1, <1>2, <1>3, <1>4, <1>5, <1>6 DEF Host

\* An entry is stored; after the last one the save is whole.
LEMMA SaveRetains == Typed /\ Retaining /\ SaveEntry => Retaining'
<1> SUFFICES ASSUME Typed, Retaining, SaveEntry PROVE Retaining'
  OBVIOUS
<1> USE DEF Retaining
<1>0. pc.at = "save" /\ pc.k \in Nat /\ pc.k >= 1 /\ fields' = fields
  BY DEF SaveEntry, Typed, PcOK
<1>1. CASE pc.k > Len(RetainEntries)
  <2>1. pc' = Idle /\ done' = [done EXCEPT !.saved = fields] /\ store' = store
    BY <1>1 DEF SaveEntry
  <2>2. done'.saved = fields /\ done'.fresh = done.fresh
    BY <2>1 DEF Typed, DoneOK
  <2>3. \A k \in DOMAIN RetainEntries : StoredFrom(fields, k)
    BY <1>0, <1>1, RetainShape DEF Saving
  <2>4. SavedOK'
    BY <2>1, <2>2, <2>3 DEF SavedOK, StoredFrom, Typed, FieldsOK
  <2>5. Quiet' /\ Saving'
    BY <2>1 DEF Quiet, Saving, Idle, At
  <2> QED BY <1>0, <2>2, <2>4, <2>5 DEF FreshOK
<1>2. CASE ~(pc.k > Len(RetainEntries))
  <2>1. /\ pc' = At("save", pc.k + 1) /\ done' = done
        /\ store' = [store EXCEPT ![pc.k] = [leaf \in RetainEntries[pc.k] |-> fields[leaf]]]
    BY <1>2 DEF SaveEntry
  <2>2. pc'.at = "save" /\ pc'.k = pc.k + 1
    BY <2>1 DEF At
  <2>3. ASSUME NEW k \in DOMAIN RetainEntries, k < pc'.k
        PROVE  store'[k] = [leaf \in RetainEntries[k] |-> fields[leaf]]
    <3>1. k \in Nat /\ (k = pc.k \/ k < pc.k)
      BY <1>0, <2>2, <2>3, RetainShape
    <3>2. k \in DOMAIN store
      BY DEF Typed, StoreOK
    <3> QED BY <1>0, <2>1, <3>1, <3>2 DEF Saving, StoredFrom
  <2>4. Saving'
    BY <1>0, <2>1, <2>3 DEF Saving, StoredFrom
  <2>5. SavedOK'
    BY <1>0, <2>1 DEF Saving, SavedOK
  <2> QED BY <1>0, <2>1, <2>2, <2>4, <2>5 DEF Quiet, FreshOK
<1> QED BY <1>1, <1>2

\* A scan makes the fields neither fresh nor saved.
LEMMA ScanRetains == Typed /\ Retaining /\ Scan => Retaining'
<1> SUFFICES ASSUME Typed, Retaining, Scan PROVE Retaining'
  OBVIOUS
<1>1. store' = store /\ done'.saved = done.saved
  BY DEF Scan, BeginScan, SyncInput, Body, SyncOutput, WriteBack, EndScan, Changed, Typed, DoneOK
<1>2. pc'.at # "save"
  <2>1. CASE SyncOutput
    <3>1. \/ pc' = At("outputs", pc.k + 1)
          \/ pc' = [At("modify", pc.k) EXCEPT !.segment = Segment(bus.outputs, Binding(IoEntries[pc.k]))]
      BY <2>1 DEF SyncOutput
    <3> QED BY <3>1 DEF At
  <2>2. CASE WriteBack
    BY <2>2 DEF WriteBack, At
  <2>3. CASE Body
    BY <2>3 DEF Body, Idle, At
  <2>4. CASE BeginScan
    BY <2>4 DEF BeginScan, At
  <2>5. CASE SyncInput
    BY <2>5 DEF SyncInput, At
  <2>6. CASE EndScan
    BY <2>6 DEF EndScan, Idle, At
  <2> QED BY <2>1, <2>2, <2>3, <2>4, <2>5, <2>6 DEF Scan
<1>3. done'.fresh = FALSE /\ (pc'.at = "idle" \/ done'.synced = FALSE)
  <2>1. CASE BeginScan
    BY <2>1 DEF BeginScan, Changed, Typed, DoneOK
  <2>2. CASE EndScan
    BY <2>2 DEF EndScan, Idle, At, Typed, DoneOK, Retaining, Quiet
  <2>3. CASE SyncInput \/ Body \/ SyncOutput \/ WriteBack
    <3>1. pc.at \in {"inputs", "outputs", "modify"} /\ done' = done
      BY <2>3 DEF SyncInput, Body, SyncOutput, WriteBack
    <3> QED BY <3>1 DEF Retaining, Quiet, Typed, DoneOK
  <2> QED BY <2>1, <2>2, <2>3 DEF Scan
<1> QED BY <1>1, <1>2, <1>3 DEF Retaining, Quiet, FreshOK, Saving, SavedOK, StoredFrom

\* The loss of power keeps what is stored, whole or not.
LEMMA WorldRetains ==
  /\ Typed /\ Retaining /\ FieldChanges => Retaining'
  /\ Typed /\ Retaining /\ TakePublished => Retaining'
  /\ Typed /\ Retaining /\ PowerLoss => Retaining'
  /\ \A point \in Rival, on \in BOOLEAN :
       Typed /\ Retaining /\ RivalReads(point, Flag(on)) => Retaining'
  /\ \A p \in work.pending : Typed /\ Retaining /\ RivalWritesBack(p) => Retaining'
<1>1. ASSUME Typed, Retaining, PowerLoss PROVE Retaining'
  <2>1. pc'.at = "off"
    BY <1>1 DEF PowerLoss, At
  <2>2. store' = store /\ done'.saved = done.saved /\ ~done'.fresh
    BY <1>1 DEF PowerLoss, NothingDone
  <2> QED BY <1>1, <2>1, <2>2 DEF Retaining, Quiet, FreshOK, Saving, SavedOK, StoredFrom
<1>2. Retaining /\ UNCHANGED <<fields, pc, store, done>> => Retaining'
  BY DEF Retaining, Quiet, FreshOK, Saving, SavedOK, StoredFrom
<1>3. FieldChanges => UNCHANGED <<fields, pc, store, done>>
  BY DEF FieldChanges
<1>4. TakePublished => UNCHANGED <<fields, pc, store, done>>
  BY DEF TakePublished
<1>5. \A point, x : RivalReads(point, x) => UNCHANGED <<fields, pc, store, done>>
  BY DEF RivalReads
<1>6. \A p : RivalWritesBack(p) => UNCHANGED <<fields, pc, store, done>>
  BY DEF RivalWritesBack
<1> QED BY <1>1, <1>2, <1>3, <1>4, <1>5, <1>6

\* Retaining is inductive.
LEMMA StepRetains == Typed /\ Retaining /\ [Next]_vars => Retaining'
<1>1. Retaining /\ UNCHANGED vars => Retaining'
  BY DEF vars, Retaining, Quiet, FreshOK, Saving, SavedOK, StoredFrom
<1> QED BY <1>1, HostRetains, SaveRetains, ScanRetains, WorldRetains DEF Next

\* At first nothing is saved and the fields are not fresh.
LEMMA InitRetains == Init => Retaining
BY DEF Init, At, NothingDone, Retaining, Quiet, FreshOK, Saving, SavedOK

\* After a whole save, a loss of power and init, load_retained gives every declared field but
\* the edge memories the value a warm restart in place would have left (state.rs: save_retained,
\* load_retained, warm_restart).
THEOREM RetainedComesBack == Spec => LoadedLikeWarmRestart
<1>1. Typed /\ Retaining /\ [Next]_vars => [LoadsAsWarmRestart]_vars
  BY LoadsLikeWarmRestart
<1> QED
  BY <1>1, InitTyped, InitRetains, StepTyped, StepRetains, PTL DEF Spec, LoadedLikeWarmRestart

(***************************************************************************)
(* What the field shows.                                                   *)
(***************************************************************************)
\* Coils, registers and parameters that were written are in the tables.
Tabled(b, point) ==
  /\ point.bus = "modbus" /\ Writable(point.area) => point \in DOMAIN b.modbus
  /\ point.bus = "ros" /\ point.direction = "Parameter" => point.name \in DOMAIN b.ros.values

Displays(b, point, x) == Tabled(b, point) /\ Shows(b, point, x)

\* What a point shows, bus by bus: the bytes of an EtherCAT point, the coil or register of a
\* Modbus point, the last message or the parameter of a ROS 2 point.
LEMMA DisplaysByBus ==
  ASSUME NEW b, NEW x, NEW point
  PROVE  /\ point \in PdoPoint =>
              (Displays(b, point, x) <=>
                 \/ point.area = "Input" \/ ReadPdo(b.outputs, point) = NoValue
                 \/ point.type = "BOOL" /\ ReadPdo(b.outputs, point) = Flag(Truth(x))
                 \/ /\ point.type # "BOOL"
                    /\ ReadPdo(b.outputs, point).v
                         = Clamp(Number(x), TypeMin(point.type), TypeMax(point.type)))
         /\ point \in ModbusPoint =>
              (Displays(b, point, x) <=>
                 (Writable(point.area) =>
                    /\ point \in DOMAIN b.modbus
                    /\ Number(b.modbus[point]) = IF IsBit(point.area) THEN Number(Flag(Truth(x)))
                                                 ELSE Clamp(Number(x), 0, RegisterMax)))
         /\ point \in RosPoint =>
              (Displays(b, point, x) <=>
                 /\ point.direction = "Publish" =>
                      \A m \in LastOf(b.ros.published, point.name) : b.ros.published[m].value = x
                 /\ point.direction = "Parameter" =>
                      point.name \in DOMAIN b.ros.values /\ b.ros.values[point.name] = x)
<1>1. CASE point \in PdoPoint
  <2>1. point.bus = "ethercat" /\ point \notin ModbusPoint /\ point \notin RosPoint
    BY <1>1, BusOfPoint
  <2> QED BY <2>1 DEF Displays, Tabled, Shows
<1>2. CASE point \in ModbusPoint
  <2>1. point.bus = "modbus" /\ point \notin PdoPoint /\ point \notin RosPoint
    BY <1>2, BusOfPoint
  <2> QED BY <2>1 DEF Displays, Tabled, Shows
<1>3. CASE point \in RosPoint
  <2>1. point.bus = "ros" /\ point \notin PdoPoint /\ point \notin ModbusPoint
    BY <1>3, BusOfPoint
  <2>2. Shows(b, point, x) <=>
          CASE point.direction = "Publish" ->
                 \A m \in LastOf(b.ros.published, point.name) : b.ros.published[m].value = x
            [] point.direction = "Parameter" -> b.ros.values[point.name] = x
            [] OTHER -> TRUE
    BY <2>1 DEF Shows
  <2>3. Tabled(b, point) <=>
          (point.direction = "Parameter" => point.name \in DOMAIN b.ros.values)
    BY <2>1 DEF Tabled
  <2> QED BY <2>1, <2>2, <2>3 DEF Displays
<1> QED BY <1>1, <1>2, <1>3

\* A point shows the same when its own bytes, and the tables, stay.
LEMMA DisplayStays ==
  ASSUME NEW b, NEW c, NEW x, NEW q \in PdoPoint \cup ModbusPoint \cup RosPoint,
         c.modbus = b.modbus, c.ros = b.ros,
         q \in PdoPoint /\ InOutputs(q) => ReadPdo(c.outputs, q) = ReadPdo(b.outputs, q),
         Displays(b, q, x)
  PROVE  Displays(c, q, x)
<1>1. CASE q \in PdoPoint
  <2>1. q.area = "Input" \/ InOutputs(q)
    BY <1>1, PointFields DEF InOutputs
  <2> QED BY <1>1, <2>1, DisplaysByBus
<1>2. CASE q \in ModbusPoint
  BY <1>2, DisplaysByBus
<1>3. CASE q \in RosPoint
  BY <1>3, DisplaysByBus
<1> QED BY <1>1, <1>2, <1>3

\* The last message of a topic after one more was published (lib.rs: Ros2Bridge::publish).
LEMMA Published ==
  ASSUME NEW published \in Seq(Message), NEW m \in Message, NEW topic
  PROVE  /\ m.topic = topic =>
              \A n \in LastOf(Append(published, m), topic) : Append(published, m)[n] = m
         /\ m.topic # topic =>
              /\ LastOf(Append(published, m), topic) = LastOf(published, topic)
              /\ \A n \in LastOf(Append(published, m), topic) :
                   Append(published, m)[n] = published[n]
<1> DEFINE out  == Append(published, m)
           size == Len(published)
<1>1. size \in Nat /\ DOMAIN published = 1..size
  OBVIOUS
<1>2. DOMAIN out = 1..size + 1 /\ out[size + 1] = m /\ \A n \in 1..size : out[n] = published[n]
  BY <1>1
<1> HIDE DEF out, size
<1>3. ASSUME m.topic = topic, NEW n \in LastOf(out, topic) PROVE out[n] = m
  <2>1. n \in 1..size + 1 /\ size + 1 \in 1..size + 1
    BY <1>1, <1>2 DEF LastOf
  <2>2. size + 1 <= n
    BY <1>2, <1>3, <2>1 DEF LastOf
  <2>3. n = size + 1
    BY <1>1, <2>1, <2>2
  <2> QED BY <1>2, <2>3
<1>4. ASSUME m.topic # topic
      PROVE  /\ LastOf(out, topic) = LastOf(published, topic)
             /\ \A n \in LastOf(out, topic) : out[n] = published[n]
  <2>1. \A n \in 1..size + 1 : n \in 1..size \/ n = size + 1
    BY <1>1
  <2>2. \A n \in 1..size : n \in 1..size + 1
    BY <1>1
  <2>3. \A n : n \in DOMAIN out /\ out[n].topic = topic
                 <=> n \in DOMAIN published /\ published[n].topic = topic
    BY <1>1, <1>2, <1>4, <2>1, <2>2
  <2>4. LastOf(out, topic) = LastOf(published, topic)
    BY <2>3 DEF LastOf
  <2>5. \A n \in LastOf(out, topic) : n \in 1..size
    BY <1>1, <2>4 DEF LastOf
  <2> QED BY <1>2, <2>4, <2>5
<1> QED BY <1>3, <1>4 DEF out

\* A point that is written at once shows what was written.
LEMMA WrittenShows ==
  ASSUME BusOK, NEW entry, NEW x, IsValue(x), x \in Values(Leaves),
         Binding(entry) # NoValue, ~ReadsFirst(Binding(entry))
  PROVE  Displays(HalWrite(bus, entry, x), Binding(entry), x)
<1> DEFINE point == Binding(entry)
           b     == HalWrite(bus, entry, x)
<1>1. CASE point \in PdoPoint
  <2>1. b.outputs = bus.outputs
    BY HalWriteTyped
  <2>2. point.area = "Input" \/ ~Fits(bus.outputs, point)
    BY <1>1, BusOfPoint, PointFields DEF ReadsFirst
  <2>3. point.area = "Input" \/ ReadPdo(b.outputs, point) = NoValue
    BY <2>1, <2>2 DEF ReadPdo
  <2> HIDE DEF point, b
  <2>4. Displays(b, point, x)
    BY <1>1, <2>3, DisplaysByBus
  <2> QED BY <2>4 DEF point, b
<1>2. CASE point \in ModbusPoint
  <2> DEFINE image == ModbusWrite(bus.modbus, point, x).image
  <2>1. b = [bus EXCEPT !.modbus = image]
    BY <1>2, BusOfPoint DEF HalWrite
  <2>2. Writable(point.area) =>
          image = Stored(bus.modbus, point, IF IsBit(point.area) THEN Flag(Truth(x))
                                            ELSE Num(Register(Number(x))))
    BY DEF ModbusWrite
  <2> HIDE DEF point, b, image
  <2>3. b.modbus = image
    BY <2>1 DEF BusOK
  <2>4. Writable(point.area) =>
          /\ point \in DOMAIN image
          /\ image[point] = IF IsBit(point.area) THEN Flag(Truth(x)) ELSE Num(Register(Number(x)))
    BY <2>2 DEF Stored
  <2>5. Number(Num(Register(Number(x)))) = Clamp(Number(x), 0, RegisterMax)
    BY DEF Num, Number, Register
  <2>6. Displays(b, point, x)
    BY <1>2, <2>3, <2>4, <2>5, DisplaysByBus
  <2> QED BY <2>6 DEF point, b
<1>3. CASE point \in RosPoint
  <2> DEFINE ros == RosWrite(bus.ros, point, x).ros
             m   == [topic |-> point.name, value |-> x]
  <2>1. b = [bus EXCEPT !.ros = ros]
    BY <1>3, BusOfPoint DEF HalWrite
  <2>2. point.direction = "Publish" => ros = [bus.ros EXCEPT !.published = Append(@, m)]
    BY DEF RosWrite
  <2>3. point.direction = "Parameter" =>
          ros = [bus.ros EXCEPT !.values = Stored(@, point.name, x)]
    BY DEF RosWrite
  <2>4. m \in Message
    BY <1>3 DEF RosPoint, Message
  <2>5. m.topic = point.name /\ m.value = x
    OBVIOUS
  <2> HIDE DEF point, b, ros, m
  <2>6. b.ros = ros
    BY <2>1 DEF BusOK
  <2>7. point.direction = "Publish" =>
          \A n \in LastOf(ros.published, point.name) : ros.published[n].value = x
    <3>1. point.direction = "Publish" => ros.published = Append(bus.ros.published, m)
      BY <2>2 DEF BusOK
    <3>2. bus.ros.published \in Seq(Message)
      BY DEF BusOK
    <3>3. point.direction = "Publish" =>
            \A n \in LastOf(ros.published, point.name) : ros.published[n] = m
      <4>1. \A n \in LastOf(Append(bus.ros.published, m), point.name) :
              Append(bus.ros.published, m)[n] = m
        BY <2>4, <2>5, <3>2, Published
      <4> QED BY <3>1, <4>1
    <3> QED BY <2>5, <3>3
  <2>8. point.direction = "Parameter" =>
          point.name \in DOMAIN ros.values /\ ros.values[point.name] = x
    <3>1. point.direction = "Parameter" => ros.values = Stored(bus.ros.values, point.name, x)
      BY <2>3 DEF BusOK
    <3> QED BY <3>1 DEF Stored
  <2>9. Displays(b, point, x)
    BY <1>3, <2>6, <2>7, <2>8, DisplaysByBus
  <2> QED BY <2>9 DEF point, b
<1> QED BY <1>1, <1>2, <1>3, BindingPoint

\* A point written at once changes no other point.
LEMMA OthersShow ==
  ASSUME BusOK, NEW entry, NEW x, IsValue(x), x \in Values(Leaves), ~ReadsFirst(Binding(entry)),
         NEW q \in PdoPoint \cup ModbusPoint \cup RosPoint, q # Binding(entry),
         NEW y, Displays(bus, q, y)
  PROVE  Displays(HalWrite(bus, entry, x), q, y)
<1> DEFINE point == Binding(entry)
           b     == HalWrite(bus, entry, x)
<1>0. b.outputs = bus.outputs
  BY HalWriteTyped
<1>1. CASE point = NoValue
  <2>1. b = bus
    BY <1>1 DEF HalWrite
  <2> QED BY <2>1
<1>2. CASE point # NoValue /\ point \in PdoPoint
  <2>1. b = [bus EXCEPT !.outputs = TransportWrite(bus.outputs, point, x).bytes]
    BY <1>2, BusOfPoint DEF HalWrite
  <2> HIDE DEF point, b
  <2>2. b.modbus = bus.modbus /\ b.ros = bus.ros
    BY <2>1 DEF BusOK
  <2>3. Displays(b, q, y)
    BY <1>0, <2>2, DisplayStays
  <2> QED BY <2>3 DEF b
<1>3. CASE point # NoValue /\ point \in ModbusPoint
  <2> DEFINE image == ModbusWrite(bus.modbus, point, x).image
  <2>1. b = [bus EXCEPT !.modbus = image]
    BY <1>3, BusOfPoint DEF HalWrite
  <2>2. \/ image = bus.modbus
        \/ \E v : image = Stored(bus.modbus, point, v)
    BY DEF ModbusWrite
  <2>3. q # point
    OBVIOUS
  <2> HIDE DEF point, b, image
  <2>4. b.modbus = image /\ b.ros = bus.ros
    BY <2>1 DEF BusOK
  <2>5. q \in DOMAIN bus.modbus => q \in DOMAIN image /\ image[q] = bus.modbus[q]
    BY <2>2, <2>3 DEF Stored
  <2>6. Displays(b, q, y)
    <3>1. CASE q \in ModbusPoint
      BY <2>4, <2>5, <3>1, DisplaysByBus
    <3>2. CASE q \in PdoPoint
      BY <1>0, <3>2, DisplaysByBus DEF b
    <3>3. CASE q \in RosPoint
      BY <2>4, <3>3, DisplaysByBus
    <3> QED BY <3>1, <3>2, <3>3
  <2> QED BY <2>6 DEF b
<1>4. CASE point # NoValue /\ point \in RosPoint
  <2> DEFINE ros == RosWrite(bus.ros, point, x).ros
             m   == [topic |-> point.name, value |-> x]
  <2>1. b = [bus EXCEPT !.ros = ros]
    BY <1>4, BusOfPoint DEF HalWrite
  <2>2. \/ ros = bus.ros
        \/ point.direction = "Publish" /\ ros = [bus.ros EXCEPT !.published = Append(@, m)]
        \/ point.direction = "Parameter" /\ ros = [bus.ros EXCEPT !.values = Stored(@, point.name, x)]
    BY DEF RosWrite
  <2>3. m \in Message /\ m.topic = point.name
    BY <1>4 DEF RosPoint, Message
  <2>4. q \in RosPoint /\ q.direction = point.direction => q.name # point.name
    BY <1>4 DEF RosPoint
  <2> HIDE DEF point, b, ros, m
  <2>5. b.ros = ros /\ b.modbus = bus.modbus
    BY <2>1 DEF BusOK
  <2>6. \/ ros.values = bus.ros.values
        \/ point.direction = "Parameter" /\ ros.values = Stored(bus.ros.values, point.name, x)
    BY <2>2 DEF BusOK
  <2>7. \/ ros.published = bus.ros.published
        \/ point.direction = "Publish" /\ ros.published = Append(bus.ros.published, m)
    BY <2>2 DEF BusOK
  <2>8. CASE q \in RosPoint
    <3>1. ASSUME q.direction = "Parameter"
          PROVE  q.name \in DOMAIN ros.values /\ ros.values[q.name] = y
      <4>1. q.name \in DOMAIN bus.ros.values /\ bus.ros.values[q.name] = y
        BY <2>8, <3>1, DisplaysByBus
      <4> QED BY <2>4, <2>6, <2>8, <3>1, <4>1 DEF Stored
    <3>2. ASSUME q.direction = "Publish"
          PROVE  \A n \in LastOf(ros.published, q.name) : ros.published[n].value = y
      <4>1. \A n \in LastOf(bus.ros.published, q.name) : bus.ros.published[n].value = y
        BY <2>8, <3>2, DisplaysByBus
      <4>2. CASE ros.published = bus.ros.published
        BY <4>1, <4>2
      <4>3. CASE point.direction = "Publish" /\ ros.published = Append(bus.ros.published, m)
        <5>1. m.topic # q.name
          BY <2>3, <2>4, <2>8, <3>2, <4>3
        <5>2. /\ LastOf(ros.published, q.name) = LastOf(bus.ros.published, q.name)
              /\ \A n \in LastOf(ros.published, q.name) : ros.published[n] = bus.ros.published[n]
          <6>1. bus.ros.published \in Seq(Message)
            BY DEF BusOK
          <6>2. /\ LastOf(Append(bus.ros.published, m), q.name) = LastOf(bus.ros.published, q.name)
                /\ \A n \in LastOf(Append(bus.ros.published, m), q.name) :
                     Append(bus.ros.published, m)[n] = bus.ros.published[n]
            BY <2>3, <5>1, <6>1, Published
          <6> QED BY <4>3, <6>2
        <5> QED BY <4>1, <5>2
      <4> QED BY <2>7, <4>2, <4>3
    <3>3. Displays(b, q, y)
      BY <2>5, <2>8, <3>1, <3>2, DisplaysByBus
    <3> QED BY <3>3 DEF b
  <2>9. CASE q \in PdoPoint
    BY <1>0, <2>9, DisplaysByBus DEF b
  <2>10. CASE q \in ModbusPoint
    <3>1. Displays(b, q, y)
      BY <2>5, <2>10, DisplaysByBus
    <3> QED BY <3>1 DEF b
  <2> QED BY <2>8, <2>9, <2>10
<1> QED BY <1>1, <1>2, <1>3, <1>4, BindingPoint

\* Of the entries before the n-th that are written to one point, k is the last.
LastBefore(n, k) ==
  /\ k < n
  /\ \A j \in Writes : j < n /\ Binding(IoEntries[j]) = Binding(IoEntries[k]) => j <= k

\* Nobody else writes a bit of the point, and none of its bytes, of those given, was written
\* back out of date.
Safe(over, point) == Alone(point) /\ (InOutputs(point) => BytesOf(point) \cap over = {})

\* The entries before the n-th are on the field.
Shown(over, b, f, n) ==
  \A k \in Writes : LastBefore(n, k) /\ Safe(over, Binding(IoEntries[k])) =>
    Displays(b, Binding(IoEntries[k]), f[IoEntries[k].leaf])

ShownOK ==
  /\ pc.at \in {"outputs", "modify"} => Shown(work.overwritten, bus, fields, pc.k)
  /\ done.synced => Shown(work.overwritten, bus, fields, Len(IoEntries) + 1)

\* The segment that is going to be written back still has the bits beside the point that
\* nobody else writes.
Undisturbed ==
  pc.at = "modify" =>
    \A k \in Writes : LET q == Binding(IoEntries[k]) IN
      InOutputs(q) /\ Safe(work.overwritten, q) /\ Shares(Binding(IoEntries[pc.k]), q) =>
        BitSet(pc.segment[1], q.bit) = BitSet(bus.outputs[q.byte + 1], q.bit)

Showing == ShownOK /\ Undisturbed

\* What is written goes to a point.
LEMMA WritesShape ==
  \A k \in Writes :
    /\ k \in 1..Len(IoEntries) /\ k \in DOMAIN IoEntries /\ k \in Nat
    /\ Binding(IoEntries[k]) # NoValue
    /\ Binding(IoEntries[k]) \in PdoPoint \cup ModbusPoint \cup RosPoint
BY EntriesShape, BindingPoint DEF Writes

\* One entry more is on the field when its point shows it and the others show what they did.
LEMMA ShownNext ==
  ASSUME NEW over, NEW b, NEW c, NEW f, NEW n \in Nat, Shown(over, b, f, n),
         n \in Writes => Displays(c, Binding(IoEntries[n]), f[IoEntries[n].leaf]),
         \A k \in Writes :
           /\ Safe(over, Binding(IoEntries[k]))
           /\ n \in Writes => Binding(IoEntries[k]) # Binding(IoEntries[n])
           /\ Displays(b, Binding(IoEntries[k]), f[IoEntries[k].leaf])
           => Displays(c, Binding(IoEntries[k]), f[IoEntries[k].leaf])
  PROVE  Shown(over, c, f, n + 1)
<1> SUFFICES ASSUME NEW k \in Writes, LastBefore(n + 1, k), Safe(over, Binding(IoEntries[k]))
             PROVE  Displays(c, Binding(IoEntries[k]), f[IoEntries[k].leaf])
  BY DEF Shown
<1>1. \A j \in Writes : j \in Nat
  BY WritesShape
<1>2. CASE k = n
  BY <1>2
<1>3. CASE k # n
  <2>1. k < n
    BY <1>1, <1>3 DEF LastBefore
  <2>2. n \in Writes => Binding(IoEntries[k]) # Binding(IoEntries[n])
    <3>1. ASSUME n \in Writes, Binding(IoEntries[k]) = Binding(IoEntries[n]) PROVE FALSE
      <4>1. n <= k
        BY <3>1 DEF LastBefore
      <4> QED BY <1>1, <2>1, <4>1
    <3> QED BY <3>1
  <2>3. LastBefore(n, k)
    BY <1>1, <2>1 DEF LastBefore
  <2>4. Displays(b, Binding(IoEntries[k]), f[IoEntries[k].leaf])
    BY <2>3 DEF Shown
  <2> QED BY <2>2, <2>4
<1> QED BY <1>2, <1>3

\* Every point shows what it did: as many entries are on the field.
LEMMA ShownStays ==
  ASSUME NEW over, NEW more, NEW b, NEW c, NEW f, NEW n, Shown(over, b, f, n), over \subseteq more,
         \A k \in Writes :
           /\ Safe(more, Binding(IoEntries[k]))
           /\ Displays(b, Binding(IoEntries[k]), f[IoEntries[k].leaf])
           => Displays(c, Binding(IoEntries[k]), f[IoEntries[k].leaf])
  PROVE  Shown(more, c, f, n)
<1>1. \A q : Safe(more, q) => Safe(over, q)
  BY DEF Safe
<1> QED BY <1>1 DEF Shown

\* SyncOutput puts an entry on the field, or reads the bytes around its point.
LEMMA SyncOutputShows == Typed /\ Quiet /\ Showing /\ SyncOutput => Showing'
<1> SUFFICES ASSUME Typed, Quiet, Showing, SyncOutput PROVE Showing'
  OBVIOUS
<1> DEFINE entry == IoEntries[pc.k]
           point == Binding(entry)
           x     == fields[entry.leaf]
           b     == HalWrite(bus, entry, x)
<1>1. pc.at = "outputs" /\ pc.k \in Nat /\ pc.k \in DOMAIN IoEntries
  BY EntriesShape DEF SyncOutput, Typed, PcOK
<1>2. fields' = fields /\ done' = done /\ work' = work /\ ~done.synced
  BY <1>1 DEF SyncOutput, Quiet
<1>3. IsValue(x) /\ x \in Values(Leaves)
  BY <1>1, EntryValue DEF Typed
<1>4. Shown(work.overwritten, bus, fields, pc.k)
  BY <1>1 DEF Showing, ShownOK
<1>5. CASE ShouldWrite(entry) /\ ReadsFirst(point)
  <2>1. /\ pc' = [At("modify", pc.k) EXCEPT !.segment = Segment(bus.outputs, point)]
        /\ bus' = bus
    BY <1>5 DEF SyncOutput
  <2>2. pc'.at = "modify" /\ pc'.k = pc.k /\ pc'.segment = Segment(bus.outputs, point)
    BY <2>1 DEF At
  <2>3. ShownOK'
    BY <1>2, <1>4, <2>1, <2>2 DEF ShownOK
  <2>4. point \in PdoPoint /\ Fits(bus.outputs, point) /\ bus.outputs \in Seq(Byte)
    BY <1>1, <1>5, ReadsFirstPoint, Images DEF Typed, BusOK
  <2>5. point.type = "BOOL" => Segment(bus.outputs, point)[1] = bus.outputs[point.byte + 1]
    BY <2>4, SegmentShape, ByteLenType
  <2>6. Undisturbed'
    BY <2>1, <2>2, <2>5 DEF Undisturbed, Shares
  <2> QED BY <2>3, <2>6 DEF Showing
<1>6. CASE ~(ShouldWrite(entry) /\ ReadsFirst(point))
  <2>1. /\ pc' = At("outputs", pc.k + 1)
        /\ bus' = IF ShouldWrite(entry) THEN b ELSE bus
    BY <1>6 DEF SyncOutput
  <2>2. pc'.at = "outputs" /\ pc'.k = pc.k + 1
    BY <2>1 DEF At
  <2>3. Shown(work.overwritten, bus', fields, pc.k + 1)
    <3>1. CASE ~ShouldWrite(entry)
      <4>1. pc.k \notin Writes /\ bus' = bus
        BY <2>1, <3>1 DEF Writes
      <4> QED BY <1>1, <1>4, <4>1, ShownNext
    <3>2. CASE ShouldWrite(entry)
      <4>1. ~ReadsFirst(point) /\ bus' = b
        BY <1>6, <2>1, <3>2
      <4>2. pc.k \in Writes <=> point # NoValue
        BY <1>1, <3>2 DEF Writes
      <4>3. pc.k \in Writes => Displays(b, point, x)
        BY <1>3, <4>1, <4>2, WrittenShows DEF Typed
      <4>4. ASSUME NEW k \in Writes,
                   pc.k \in Writes => Binding(IoEntries[k]) # point,
                   Displays(bus, Binding(IoEntries[k]), fields[IoEntries[k].leaf])
            PROVE  Displays(b, Binding(IoEntries[k]), fields[IoEntries[k].leaf])
        <5> DEFINE q == Binding(IoEntries[k])
        <5>1. q # point /\ q \in PdoPoint \cup ModbusPoint \cup RosPoint
          BY <4>2, <4>4, WritesShape
        <5> QED BY <1>3, <4>1, <4>4, <5>1, OthersShow DEF Typed
      <4> HIDE DEF b
      <4> QED BY <1>1, <1>4, <4>1, <4>3, <4>4, ShownNext
    <3> QED BY <3>1, <3>2
  <2>4. ShownOK'
    BY <1>2, <2>2, <2>3 DEF ShownOK
  <2> QED BY <2>2, <2>4 DEF Showing, Undisturbed
<1> QED BY <1>5, <1>6

\* The write back puts the entry on the field and changes no point that lies apart.
LEMMA WriteBackShows == Typed /\ Quiet /\ Showing /\ WriteBack => Showing'
<1> SUFFICES ASSUME Typed, Quiet, Showing, WriteBack PROVE Showing'
  OBVIOUS
<1> DEFINE p == Binding(IoEntries[pc.k])
           x == fields[IoEntries[pc.k].leaf]
<1>1. pc.at = "modify" /\ pc' = At("outputs", pc.k + 1) /\ fields' = fields /\ done' = done
      /\ work' = work
  BY DEF WriteBack
<1>2. /\ pc.k \in Writes /\ pc.k \in Nat /\ p \in PdoPoint /\ InOutputs(p) /\ Fits(bus.outputs, p)
      /\ pc.segment \in Seq(Byte) /\ Len(pc.segment) = ByteLen(p.type) /\ IsValue(x)
      /\ bus.outputs \in Seq(Byte)
  BY <1>1, WriteBackPoint
<1>3. PICK out \in Seq(Byte) :
        /\ bus' = [bus EXCEPT !.outputs = out] /\ Len(out) = Len(bus.outputs)
        /\ \A k \in 1..Len(bus.outputs) : k - 1 \notin BytesOf(p) => out[k] = bus.outputs[k]
        /\ ReadPdo(out, p) = Cut(p, x)
        /\ p.type = "BOOL" => \A j \in 0..ByteBits - 1 :
             j # p.bit => BitSet(out[p.byte + 1], j) = BitSet(pc.segment[1], j)
  BY WriteBackWrites
<1>4. pc'.at = "outputs" /\ pc'.k = pc.k + 1 /\ ~done.synced
  BY <1>1 DEF At, Quiet
<1>5. bus'.outputs = out /\ bus'.modbus = bus.modbus /\ bus'.ros = bus.ros
  BY <1>3 DEF Typed, BusOK
<1>6. Displays(bus', p, x)
  <2>1. ReadPdo(bus'.outputs, p) = IF p.type = "BOOL" THEN Flag(Truth(x))
          ELSE Num(Clamp(Number(x), TypeMin(p.type), TypeMax(p.type)))
    BY <1>3, <1>5 DEF Cut
  <2> HIDE DEF p, x
  <2>2. p.type # "BOOL" =>
          ReadPdo(bus'.outputs, p).v = Clamp(Number(x), TypeMin(p.type), TypeMax(p.type))
    BY <2>1 DEF Num
  <2> QED BY <1>2, <2>1, <2>2, DisplaysByBus
<1>7. ASSUME NEW k \in Writes, Safe(work.overwritten, Binding(IoEntries[k])),
             Binding(IoEntries[k]) # p,
             NEW y, Displays(bus, Binding(IoEntries[k]), y)
      PROVE  Displays(bus', Binding(IoEntries[k]), y)
  <2> DEFINE q == Binding(IoEntries[k])
  <2>1. q \in PdoPoint \cup ModbusPoint \cup RosPoint
    BY WritesShape
  <2>2. Apart(q, p)
    BY <1>2, <1>7 DEF Safe, Alone
  <2>3. ASSUME q \in PdoPoint, InOutputs(q) PROVE ReadPdo(out, q) = ReadPdo(bus.outputs, q)
    <3>1. q.bit \in 0..ByteBits - 1
      BY <2>3, PointFields
    <3>2. Shares(p, q) => BitSet(pc.segment[1], q.bit) = BitSet(bus.outputs[q.byte + 1], q.bit)
      BY <1>1, <1>7, <2>3 DEF Showing, Undisturbed
    <3>3. Shares(p, q) => BitSet(out[q.byte + 1], q.bit) = BitSet(bus.outputs[q.byte + 1], q.bit)
      BY <1>3, <3>1, <3>2 DEF Shares
    <3> QED BY <1>2, <1>3, <2>2, <2>3, <3>3, BesideKeeps
  <2> QED BY <1>5, <1>7, <2>1, <2>3, DisplayStays
<1>8. Shown(work.overwritten, bus, fields, pc.k)
  BY <1>1 DEF Showing, ShownOK
<1>9. Shown(work.overwritten, bus', fields, pc.k + 1)
  BY <1>2, <1>6, <1>7, <1>8, ShownNext
<1>10. ShownOK'
  BY <1>1, <1>4, <1>9 DEF ShownOK
<1> QED BY <1>4, <1>10 DEF Showing, Undisturbed

\* The steps of the scan.
LEMMA ScanShows == Typed /\ Quiet /\ Showing /\ Scan => Showing'
<1> SUFFICES ASSUME Typed, Quiet, Showing, Scan PROVE Showing'
  OBVIOUS
<1>1. CASE BeginScan
  <2>1. pc'.at = "inputs" /\ ~done'.synced
    BY <1>1 DEF BeginScan, At, Changed, Typed, DoneOK
  <2> QED BY <2>1 DEF Showing, ShownOK, Undisturbed
<1>2. CASE SyncInput
  <2>1. pc'.at = "inputs" /\ ~done'.synced
    BY <1>2 DEF SyncInput, At, Quiet
  <2> QED BY <2>1 DEF Showing, ShownOK, Undisturbed
<1>3. CASE Body
  <2>1. ~done'.synced /\ (pc' = Idle \/ pc' = At("outputs", 1))
    BY <1>3 DEF Body, Quiet
  <2>2. pc'.at # "modify" /\ (pc'.at = "outputs" => pc'.k = 1)
    BY <2>1 DEF Idle, At
  <2>3. \A k \in Writes : ~(k < 1)
    BY WritesShape
  <2>4. Shown(work'.overwritten, bus', fields', 1)
    BY <2>3 DEF Shown, LastBefore
  <2> QED BY <2>1, <2>2, <2>4 DEF Showing, ShownOK, Undisturbed
<1>4. CASE EndScan
  <2>1. /\ pc'.at = "idle" /\ fields' = fields /\ bus' = bus /\ work' = work
        /\ done'.synced => pc.at = "outputs" /\ pc.k > Len(IoEntries)
    BY <1>4 DEF EndScan, Idle, At, Typed, DoneOK
  <2>2. ASSUME done'.synced PROVE Shown(work.overwritten, bus, fields, Len(IoEntries) + 1)
    <3>1. Shown(work.overwritten, bus, fields, pc.k) /\ pc.k \in Nat /\ pc.k > Len(IoEntries)
      BY <2>1, <2>2 DEF Showing, ShownOK, Typed, PcOK
    <3>2. \A k \in Writes : k \in 1..Len(IoEntries) /\ Len(IoEntries) \in Nat
      BY WritesShape, EntriesShape
    <3>3. \A k \in Writes : k < pc.k
      BY <3>1, <3>2
    <3>4. \A k \in Writes : LastBefore(Len(IoEntries) + 1, k) => LastBefore(pc.k, k)
      BY <3>2, <3>3 DEF LastBefore
    <3> QED BY <3>1, <3>4 DEF Shown
  <2> QED BY <2>1, <2>2 DEF Showing, ShownOK, Undisturbed
<1> QED BY <1>1, <1>2, <1>3, <1>4, SyncOutputShows, WriteBackShows DEF Scan

\* Another master writes points that lie apart; what it wrote back out of date is noted.
LEMMA RivalShows ==
  ASSUME Typed, Showing, NEW p \in work.pending, RivalWritesBack(p)
  PROVE  Showing'
<1> DEFINE over  == work.overwritten
           more  == work'.overwritten
<1>1. fields' = fields /\ pc' = pc /\ done' = done
  BY DEF RivalWritesBack
<1>2. /\ bus.outputs \in Seq(Byte) /\ bus'.outputs \in Seq(Byte)
      /\ Len(bus'.outputs) = Len(bus.outputs)
      /\ bus' = [bus EXCEPT !.outputs = bus'.outputs]
  BY RivalWritten
<1>3. bus'.modbus = bus.modbus /\ bus'.ros = bus.ros
  BY <1>2 DEF Typed, BusOK
<1>4. over \subseteq more /\ (p.segment = Segment(bus.outputs, p.point) \/ BytesOf(p.point) \subseteq more)
  BY DEF RivalWritesBack, Typed, WorkOK
<1>5. p.point \in Rival /\ p.point \in PdoPoint /\ ByteLen(p.point.type) = 1
  BY PendingWrite, RivalPoint, ByteLenType DEF Typed
<1>6. ASSUME NEW q \in PdoPoint, InOutputs(q), Safe(more, q)
      PROVE  ReadPdo(bus'.outputs, q) = ReadPdo(bus.outputs, q)
  <2>1. Apart(q, p.point)
    BY <1>5, <1>6 DEF Safe, Alone
  <2>2. ASSUME Shares(p.point, q) PROVE p.segment = Segment(bus.outputs, p.point)
    <3>1. BytesOf(q) = BytesOf(p.point)
      BY <2>2 DEF Shares, BytesOf
    <3>2. p.point.byte \in BytesOf(p.point)
      BY <1>5, PointFields DEF BytesOf
    <3>3. ~(BytesOf(p.point) \subseteq more)
      BY <1>6, <3>1, <3>2 DEF Safe
    <3> QED BY <1>4, <3>3
  <2> QED BY <1>6, <2>1, <2>2, RivalKeeps
<1>7. ASSUME NEW k \in Writes, Safe(more, Binding(IoEntries[k])),
             NEW y, Displays(bus, Binding(IoEntries[k]), y)
      PROVE  Displays(bus', Binding(IoEntries[k]), y)
  <2> DEFINE q == Binding(IoEntries[k])
  <2>1. q \in PdoPoint \cup ModbusPoint \cup RosPoint
    BY WritesShape
  <2>2. q \in PdoPoint /\ InOutputs(q) => ReadPdo(bus'.outputs, q) = ReadPdo(bus.outputs, q)
    BY <1>6, <1>7
  <2> QED BY <1>3, <1>7, <2>1, <2>2, DisplayStays
<1>8. \A n : Shown(over, bus, fields, n) => Shown(more, bus', fields, n)
  BY <1>4, <1>7, ShownStays
<1>9. ShownOK'
  BY <1>1, <1>8 DEF Showing, ShownOK
<1>10. ASSUME pc.at = "modify", NEW k \in Writes, InOutputs(Binding(IoEntries[k])),
              Safe(more, Binding(IoEntries[k])),
              Shares(Binding(IoEntries[pc.k]), Binding(IoEntries[k]))
       PROVE  LET q == Binding(IoEntries[k]) IN
              BitSet(pc.segment[1], q.bit) = BitSet(bus'.outputs[q.byte + 1], q.bit)
  <2> DEFINE q == Binding(IoEntries[k])
             own == Binding(IoEntries[pc.k])
  <2>1. q \in PdoPoint
    BY <1>10, WritesShape, BusOfPoint DEF InOutputs
  <2>2. Fits(bus.outputs, q) /\ Fits(bus'.outputs, q) /\ q.type = "BOOL"
    <3>1. Fits(bus.outputs, own) /\ q.byte = own.byte /\ q.type = own.type /\ q.type = "BOOL"
      BY <1>10, WriteBackPoint DEF Shares
    <3> HIDE DEF q, own
    <3> QED BY <1>2, <3>1 DEF Fits
  <2>3. ReadPdo(bus'.outputs, q) = ReadPdo(bus.outputs, q)
    BY <1>6, <1>10, <2>1
  <2>4. Flag(BitSet(bus'.outputs[q.byte + 1], q.bit)) = Flag(BitSet(bus.outputs[q.byte + 1], q.bit))
    BY <2>2, <2>3, ReadIsDecode
  <2>5. BitSet(bus'.outputs[q.byte + 1], q.bit) = BitSet(bus.outputs[q.byte + 1], q.bit)
    BY <2>4 DEF Flag
  <2>6. Safe(over, q)
    BY <1>4, <1>10 DEF Safe
  <2>7. BitSet(pc.segment[1], q.bit) = BitSet(bus.outputs[q.byte + 1], q.bit)
    BY <1>10, <2>6 DEF Showing, Undisturbed
  <2> QED BY <2>5, <2>7
<1>11. Undisturbed'
  BY <1>1, <1>10 DEF Undisturbed
<1> QED BY <1>9, <1>11 DEF Showing

\* Every other step leaves the points as they are, or ends the promise.
LEMMA RestShows ==
  ASSUME Typed, Quiet, Showing,
         Host \/ SaveEntry \/ FieldChanges \/ TakePublished \/ PowerLoss
           \/ \E point \in Rival, on \in BOOLEAN : RivalReads(point, Flag(on))
  PROVE  Showing'
<1>1. CASE FieldChanges
  <2>1. pc'.at = "inputs" /\ ~done'.synced
    BY <1>1 DEF FieldChanges, Quiet
  <2> QED BY <2>1 DEF Showing, ShownOK, Undisturbed
<1>2. CASE PowerLoss
  <2>1. pc'.at = "off" /\ ~done'.synced
    BY <1>2 DEF PowerLoss, At, NothingDone
  <2> QED BY <2>1 DEF Showing, ShownOK, Undisturbed
<1>3. CASE TakePublished
  <2>1. pc'.at = "idle" /\ fields' = fields /\ done' = done /\ work' = work
        /\ bus' = [bus EXCEPT !.ros.published = <<>>]
    BY <1>3 DEF TakePublished, Idle, At
  <2>2. /\ bus'.outputs = bus.outputs /\ bus'.modbus = bus.modbus
        /\ bus'.ros.values = bus.ros.values /\ bus'.ros.published = <<>>
    BY <2>1 DEF Typed, BusOK
  <2>3. \A topic : LastOf(bus'.ros.published, topic) = {}
    BY <2>2 DEF LastOf
  <2>4. ASSUME NEW k \in Writes, NEW y, Displays(bus, Binding(IoEntries[k]), y)
        PROVE  Displays(bus', Binding(IoEntries[k]), y)
    <3> DEFINE q == Binding(IoEntries[k])
    <3>1. q \in PdoPoint \cup ModbusPoint \cup RosPoint
      BY WritesShape
    <3> HIDE DEF q
    <3>2. CASE q \in PdoPoint
      BY <2>2, <2>4, <3>2, DisplaysByBus DEF q
    <3>3. CASE q \in ModbusPoint
      BY <2>2, <2>4, <3>3, DisplaysByBus DEF q
    <3>4. CASE q \in RosPoint
      <4>1. Displays(bus, q, y)
        BY <2>4 DEF q
      <4>2. Displays(bus', q, y)
        BY <2>2, <2>3, <3>4, <4>1, DisplaysByBus
      <4> QED BY <4>2 DEF q
    <3> QED BY <3>1, <3>2, <3>3, <3>4
  <2>5. \A n : Shown(work.overwritten, bus, fields, n) => Shown(work.overwritten, bus', fields, n)
    BY <2>4, ShownStays
  <2> QED BY <2>1, <2>5 DEF Showing, ShownOK, Undisturbed
<1>4. CASE SaveEntry
  <2>1. /\ pc'.at \in {"idle", "save"} /\ fields' = fields /\ bus' = bus /\ work' = work
        /\ done'.synced = done.synced
    BY <1>4 DEF SaveEntry, Idle, At, Typed, DoneOK
  <2> QED BY <2>1 DEF Showing, ShownOK, Undisturbed
<1>5. CASE CallSave \/ \E table \in HookTables : SetTargetHooks(table)
  <2>1. /\ pc'.at \in {"idle", "save"} /\ fields' = fields /\ bus' = bus /\ work' = work
        /\ done'.synced = done.synced
    BY <1>5 DEF CallSave, StartSave, SetTargetHooks, Idle, At, Typed, DoneOK
  <2> QED BY <2>1 DEF Showing, ShownOK, Undisturbed
<1>6. CASE Host /\ ~(CallSave \/ \E table \in HookTables : SetTargetHooks(table))
  <2>1. pc' = Idle
    BY <1>6 DEF Host, CallInit, WarmRestart, CallLoad, WriteAccessPath
  <2>2. ~done'.synced
    BY <1>6 DEF Host, CallInit, WarmRestart, CallLoad, WriteAccessPath, Changed, Typed, DoneOK
  <2>3. pc'.at = "idle"
    BY <2>1 DEF Idle, At
  <2> QED BY <2>2, <2>3 DEF Showing, ShownOK, Undisturbed
<1>7. CASE \E point \in Rival, on \in BOOLEAN : RivalReads(point, Flag(on))
  <2>1. UNCHANGED <<fields, pc, bus, done>> /\ work'.overwritten = work.overwritten
    BY <1>7 DEF RivalReads, Typed, WorkOK
  <2> QED BY <2>1 DEF Showing, ShownOK, Undisturbed
<1> QED BY <1>1, <1>2, <1>3, <1>4, <1>5, <1>6, <1>7

\* Showing is inductive.
LEMMA StepShows == Typed /\ Quiet /\ Showing /\ [Next]_vars => Showing'
<1>1. Showing /\ UNCHANGED vars => Showing'
  BY DEF vars, Showing, ShownOK, Undisturbed
<1> QED BY <1>1, ScanShows, RivalShows, RestShows DEF Next

\* Before init nothing is promised.
LEMMA InitShows == Init => Showing
BY DEF Init, At, NothingDone, Showing, ShownOK, Undisturbed

\* A whole scan has put every entry on the field.
LEMMA ShownIsShown == Typed /\ Showing => OutputsShowTheScan
<1> SUFFICES ASSUME Typed, Showing, done.synced, NEW k \in Writes, Alone(Binding(IoEntries[k])),
                    ~Overwritten(Binding(IoEntries[k]))
             PROVE  LET point == Binding(IoEntries[k])
                    IN  Shows(bus, point, fields[IoEntries[LastFor(point)].leaf])
  BY DEF OutputsShowTheScan
<1> DEFINE point == Binding(IoEntries[k])
           T     == {j \in Writes : Binding(IoEntries[j]) = point}
<1>1. Len(IoEntries) \in Nat /\ T \subseteq 1..Len(IoEntries) /\ T # {}
  BY WritesShape, EntriesShape
<1>2. \E m \in T : \A j \in T : j <= m
  <2> HIDE DEF T
  <2> QED BY <1>1, GreatestIndex
<1>3. \E m \in Writes : Binding(IoEntries[m]) = point
        /\ \A j \in Writes : Binding(IoEntries[j]) = point => j <= m
  BY <1>2
<1>4. /\ LastFor(point) \in Writes /\ Binding(IoEntries[LastFor(point)]) = point
      /\ \A j \in Writes : Binding(IoEntries[j]) = point => j <= LastFor(point)
  <2> HIDE DEF point
  <2> QED BY <1>3 DEF LastFor
<1>5. LastBefore(Len(IoEntries) + 1, LastFor(point))
  <2>1. LastFor(point) \in 1..Len(IoEntries)
    BY <1>4, WritesShape
  <2>2. LastFor(point) < Len(IoEntries) + 1
    BY <1>1, <2>1
  <2> HIDE DEF point
  <2> QED BY <1>4, <2>2 DEF LastBefore
<1>6. Shown(work.overwritten, bus, fields, Len(IoEntries) + 1)
  BY DEF Showing, ShownOK
<1>7. Displays(bus, Binding(IoEntries[LastFor(point)]), fields[IoEntries[LastFor(point)].leaf])
  BY <1>4, <1>5, <1>6 DEF Shown, Safe, Overwritten
<1> QED BY <1>4, <1>7 DEF Displays

\* From the end of a scan to the next call of the host every point that is nobody else's shows
\* what the scan computed for it: the program's write back of another bit of its byte leaves
\* it alone, and so does another master's, unless the byte was changed since it read it
\* (state.rs: sync_outputs; lib.rs: write_symbol).
THEOREM OutputsAreShown == Spec => []OutputsShowTheScan
<1>1. Typed /\ Retaining /\ Showing /\ [Next]_vars => Showing'
  BY StepShows DEF Retaining
<1>2. Spec => [](Typed /\ Showing)
  BY <1>1, InitTyped, InitRetains, InitShows, StepTyped, StepRetains, PTL DEF Spec
<1> QED BY <1>2, ShownIsShown, PTL
=============================================================================
