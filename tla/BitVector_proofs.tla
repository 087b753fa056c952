-------------------------- MODULE BitVector_proofs --------------------------
(* What the functions of rdfstore_bits.c do to the sets of numbers that      *)
(* their vectors stand for: vectors of any lengths, bytes of any width.      *)
EXTENDS BitVector, FiniteSetTheorems, WellFoundedInduction, TLAPS

USE BitConstants

-----------------------------------------------------------------------------
(* Positions: bit i is bit i % Width of byte i \div Width.                   *)
LEMMA Times ==
  ASSUME NEW w \in Nat \ {0}, NEW j \in Nat, NEW k \in Nat, j < k
  PROVE  w * j + w <= w * k
<1>1. PICK d \in Nat : k = j + 1 + d
  <2>1. k - j - 1 \in Nat /\ k = j + 1 + (k - j - 1)
    OBVIOUS
  <2>. QED  BY <2>1
<1>2. w * k = w * j + w + w * d
  BY <1>1
<1>3. w * d \in Nat
  OBVIOUS
<1>. QED  BY <1>2, <1>3

LEMMA Position ==
  ASSUME NEW i \in Nat
  PROVE  /\ i \div Width \in Nat /\ i % Width \in Bits
         /\ i = Width * (i \div Width) + (i % Width)
BY Z3 DEF Bits

LEMMA InByte ==
  ASSUME NEW i \in Nat, NEW n \in Nat
  PROVE  i < Width * n <=> i \div Width < n
<1>. DEFINE q == i \div Width  r == i % Width
<1>1. q \in Nat /\ r \in Nat /\ r < Width /\ i = Width * q + r
  BY Position DEF Bits
<1>. HIDE DEF q, r
<1>2. CASE q < n
  <2>1. Width * q + Width <= Width * n
    BY <1>1, <1>2, Times
  <2>2. Width * q \in Nat /\ Width * n \in Nat
    BY <1>1
  <2>. QED  BY <1>1, <1>2, <2>1, <2>2 DEF q
<1>3. CASE ~(q < n)
  <2>1. Width * n <= Width * q
    <3>1. CASE q = n
      BY <3>1, <1>1
    <3>2. CASE q # n
      <4>1. Width * n + Width <= Width * q
        BY <1>1, <1>3, <3>2, Times
      <4>. QED  BY <4>1, <1>1
    <3>. QED  BY <3>1, <3>2
  <2>2. Width * q \in Nat /\ Width * n \in Nat
    BY <1>1
  <2>. QED  BY <1>1, <1>3, <2>1, <2>2 DEF q
<1>. QED  BY <1>2, <1>3

(* A position is given by its byte and its bit. *)
LEMMA AtByte ==
  ASSUME NEW q \in Nat, NEW r \in Bits
  PROVE  /\ Width * q + r \in Nat
         /\ (Width * q + r) \div Width = q
         /\ (Width * q + r) % Width = r
<1>. DEFINE i == Width * q + r
<1>1. i \in Nat
  BY DEF Bits
<1>2. i = Width * (i \div Width) + (i % Width) /\ i \div Width \in Nat /\ i % Width \in Nat /\ i % Width < Width
  BY <1>1, Position DEF Bits
<1>. DEFINE k == i \div Width
<1>3. k = q
  <2>0. k \in Nat /\ r \in Nat /\ r < Width /\ Width * k \in Nat /\ Width * q \in Nat
    BY <1>2 DEF Bits
  <2>. HIDE DEF k
  <2>1. ~(k < q)
    <3>1. k < q => Width * k + Width <= Width * q
      BY <2>0, Times
    <3>. QED  BY <3>1, <1>2, <2>0 DEF k
  <2>2. ~(q < k)
    <3>1. q < k => Width * q + Width <= Width * k
      BY <2>0, Times
    <3>. QED  BY <3>1, <1>2, <2>0 DEF k
  <2>. QED  BY <2>0, <2>1, <2>2
<1>. QED  BY <1>1, <1>2, <1>3 DEF Bits

-----------------------------------------------------------------------------
(* A set of numbers below a bound has a greatest one: that above which it has *)
(* the fewest.                                                                *)
LEMMA Greatest ==
  ASSUME NEW n \in Nat, NEW S \in SUBSET (0 .. n - 1), S # {}
  PROVE  \E m \in S : \A j \in S : j <= m
<1>. DEFINE Above(i) == {j \in S : i < j}
            T == {Above(i) : i \in S}
            U == 0 .. n - 1
<1>1. IsFiniteSet(U)
  BY FS_Interval
<1>2. \A i \in S : IsFiniteSet(Above(i)) /\ Above(i) \subseteq U
  BY <1>1, FS_Subset
<1>3. T \subseteq FiniteSubsetsOf(U) /\ T # {}
  BY <1>2 DEF FiniteSubsetsOf
<1>4. PICK A \in T : \A B \in T : ~(<<B, A>> \in StrictSubsetOrdering(U))
  <2>. HIDE DEF T, U
  <2>1. IsWellFoundedOn(StrictSubsetOrdering(U), FiniteSubsetsOf(U))
    BY FS_StrictSubsetOrderingWellFounded
  <2>. QED  BY <1>3, <2>1, WFMin
<1>5. PICK m \in S : A = Above(m)
  OBVIOUS
<1>6. ASSUME NEW k \in S, m < k
      PROVE  FALSE
  <2>1. Above(k) \in T /\ Above(k) \subseteq U /\ Above(m) \subseteq U
    BY <1>2
  <2>2. k \in Above(m) /\ k \notin Above(k)
    BY <1>6
  <2>4. ASSUME NEW j \in S, k < j
        PROVE  m < j
    <3>1. j \in Nat /\ k \in Nat /\ m \in Nat
      OBVIOUS
    <3>. QED  BY <1>6, <2>4, <3>1
  <2>5. Above(k) \subseteq Above(m)
    BY <2>4
  <2>3. <<Above(k), Above(m)>> \in StrictSubsetOrdering(U)
    BY <2>1, <2>2, <2>5 DEF StrictSubsetOrdering
  <2>. QED  BY <1>4, <1>5, <2>1, <2>3
<1>. QED  BY <1>6

(* Least, of numbers. *)
LEMMA LeastOf ==
  ASSUME NEW n \in Nat, NEW S \in SUBSET (0 .. n - 1), S # {}
  PROVE  Least(S) \in S /\ \A y \in S : Least(S) <= y
<1>. DEFINE R == {n - 1 - i : i \in S}
<1>1. R \in SUBSET (0 .. n - 1) /\ R # {}
  <2>1. ASSUME NEW i \in S
        PROVE  n - 1 - i \in 0 .. n - 1
    <3>1. i \in 0 .. n - 1
      OBVIOUS
    <3>. QED  BY <3>1
  <2>2. R \subseteq 0 .. n - 1
    BY <2>1
  <2>3. R # {}
    OBVIOUS
  <2>. QED  BY <2>2, <2>3
<1>2. PICK m \in R : \A j \in R : j <= m
  BY <1>1, Greatest
<1>3. PICK x \in S : m = n - 1 - x
  OBVIOUS
<1>4. \A y \in S : x <= y
  <2>. SUFFICES ASSUME NEW y \in S PROVE x <= y
    OBVIOUS
  <2>1. n - 1 - y <= n - 1 - x
    BY <1>2, <1>3
  <2>. QED  BY <2>1
<1>. QED  BY <1>4 DEF Least

(* Induction over the numbers up to a bound.                                  *)
LEMMA Upwards ==
  ASSUME NEW n \in Nat, NEW G, 0 \in G, \A k \in 1 .. n : k - 1 \in G => k \in G
  PROVE  \A k \in 0 .. n : k \in G
<1>. DEFINE S == {k \in 0 .. n : k \notin G}
<1>. SUFFICES ASSUME S # {} PROVE FALSE
  OBVIOUS
<1>1. S \in SUBSET (0 .. (n + 1) - 1) /\ n + 1 \in Nat
  OBVIOUS
<1>2. Least(S) \in S /\ \A y \in S : Least(S) <= y
  <2>. HIDE DEF S
  <2>. QED  BY <1>1, LeastOf
<1>3. PICK m \in S : \A y \in S : m <= y
  BY <1>2
<1>4. m \in 1 .. n /\ m - 1 \in 0 .. n
  OBVIOUS
<1>5. m - 1 \in G
  BY <1>3, <1>4
<1>. QED  BY <1>4, <1>5

-----------------------------------------------------------------------------
(* Bytes and members.                                                         *)
LEMMA ByteType ==
  ASSUME NEW v, IsVector(v), NEW k \in Nat
  PROVE  Byte(v, k) \subseteq Bits
BY DEF Byte, IsVector

(* Past its end a vector is read as zero, so that no bound is needed. *)
LEMMA InMembers ==
  ASSUME NEW v, IsVector(v), NEW i \in Nat
  PROVE  i \in Members(v) <=> i % Width \in Byte(v, i \div Width)
<1>1. v.size \in Nat /\ i \div Width \in Nat
  BY Position DEF IsVector
<1>2. i < Width * v.size <=> i \div Width < v.size
  BY <1>1, InByte
<1>3. Width * v.size \in Nat
  BY <1>1
<1>. QED  BY <1>1, <1>2, <1>3 DEF Members, Byte

LEMMA MembersAreNumbers ==
  ASSUME NEW v, IsVector(v)
  PROVE  Members(v) \subseteq Nat
<1>1. Width * v.size \in Nat
  BY DEF IsVector
<1>. QED  BY <1>1 DEF Members

(* Length cuts off zero bytes only. *)
LEMMA LengthFacts ==
  ASSUME NEW n \in Nat, NEW f
  PROVE  /\ Length(n, f) \in 0 .. n
         /\ \A i \in 0 .. n - 1 : i >= Length(n, f) => f[i] = {}
<1>1. CASE \A i \in 0 .. n - 1 : f[i] = {}
  BY <1>1 DEF Length
<1>2. CASE ~ \A i \in 0 .. n - 1 : f[i] = {}
  <2>. DEFINE S == {i \in 0 .. n - 1 : f[i] # {}}
              Last(i) == f[i] # {} /\ \A j \in i + 1 .. n - 1 : f[j] = {}
              c == CHOOSE i \in 0 .. n - 1 : Last(i)
  <2>1. S \in SUBSET (0 .. n - 1) /\ S # {}
    BY <1>2
  <2>2. PICK m \in S : \A j \in S : j <= m
    BY <2>1, Greatest
  <2>3. m \in 0 .. n - 1 /\ Last(m)
    <3>1. ASSUME NEW j \in m + 1 .. n - 1
          PROVE  f[j] = {}
      <4>1. j \in 0 .. n - 1 /\ ~(j <= m)
        OBVIOUS
      <4>. QED  BY <4>1, <2>2
    <3>. QED  BY <3>1
  <2>4. c \in 0 .. n - 1 /\ Last(c)
    BY <2>3
  <2>5. Length(n, f) = 1 + c
    BY <1>2 DEF Length
  <2>6. ASSUME NEW i \in 0 .. n - 1, i >= 1 + c
        PROVE  f[i] = {}
    <3>. HIDE DEF c
    <3>1. i \in c + 1 .. n - 1
      BY <2>4, <2>6
    <3>. QED  BY <2>4, <3>1
  <2>. HIDE DEF c, Last
  <2>. QED  BY <2>4, <2>5, <2>6
<1>. QED  BY <1>1, <1>2

LEMMA CutFacts ==
  ASSUME NEW n \in Nat, NEW f, \A i \in 0 .. n - 1 : f[i] \subseteq Bits
  PROVE  /\ IsVector(Cut(n, f))
         /\ Cut(n, f).size <= n
         /\ \A k \in Nat : Byte(Cut(n, f), k) = IF k < n THEN f[k] ELSE {}
<1>. DEFINE l == Length(n, f)
<1>1. l \in 0 .. n /\ \A i \in 0 .. n - 1 : i >= l => f[i] = {}
  BY LengthFacts
<1>. HIDE DEF l
<1>2. Cut(n, f) = [size |-> l, byte |-> [i \in 0 .. l - 1 |-> f[i]]]
  BY DEF Cut, Vector, l
<1>3. [i \in 0 .. l - 1 |-> f[i]] \in [0 .. l - 1 -> SUBSET Bits]
  BY <1>1
<1>4. IsVector(Cut(n, f)) /\ Cut(n, f).size <= n
  BY <1>1, <1>2, <1>3 DEF IsVector
<1>5. ASSUME NEW k \in Nat
      PROVE  Byte(Cut(n, f), k) = IF k < n THEN f[k] ELSE {}
  <2>1. Cut(n, f).size = l /\ Cut(n, f).byte = [i \in 0 .. l - 1 |-> f[i]]
    BY <1>2
  <2>2. Byte(Cut(n, f), k) = IF k < l THEN f[k] ELSE {}
    <3>1. CASE k < l
      <4>1. k \in 0 .. l - 1
        BY <3>1, <1>1
      <4>. QED  BY <2>1, <3>1, <4>1 DEF Byte
    <3>2. CASE ~(k < l)
      BY <2>1, <3>2 DEF Byte
    <3>. QED  BY <3>1, <3>2
  <2>3. k < n /\ ~(k < l) => f[k] = {}
    BY <1>1
  <2>. QED  BY <1>1, <2>2, <2>3
<1>. QED  BY <1>4, <1>5

-----------------------------------------------------------------------------
(* rdfstore_bits_shorten takes no member away. *)
THEOREM ShortenKeeps ==
  ASSUME NEW v, IsVector(v)
  PROVE  IsVector(shorten(v)) /\ Members(shorten(v)) = Members(v)
<1>1. v.size \in Nat /\ \A i \in 0 .. v.size - 1 : v.byte[i] \subseteq Bits
  BY DEF IsVector
<1>2. IsVector(shorten(v)) /\ \A k \in Nat : Byte(shorten(v), k) = Byte(v, k)
  BY <1>1, CutFacts DEF shorten, Byte
<1>3. \A i \in Nat : i \in Members(shorten(v)) <=> i \in Members(v)
  BY <1>2, InMembers, Position
<1>. QED  BY <1>2, <1>3, MembersAreNumbers

(* rdfstore_bits_or is the union, whatever the lengths. *)
THEOREM OrIsUnion ==
  ASSUME NEW a, NEW b, IsVector(a), IsVector(b)
  PROVE  IsVector(or(a, b)) /\ Members(or(a, b)) = Members(a) \cup Members(b)
<1>. DEFINE n == Longer(a, b)
            f == [i \in 0 .. n - 1 |-> Byte(a, i) \cup Byte(b, i)]
<1>1. a.size \in Nat /\ b.size \in Nat /\ n \in Nat /\ a.size <= n /\ b.size <= n
  BY DEF Longer, IsVector
<1>2. \A i \in 0 .. n - 1 : f[i] \subseteq Bits
  BY <1>1, ByteType
<1>3. IsVector(Cut(n, f)) /\ \A k \in Nat : Byte(Cut(n, f), k) = IF k < n THEN f[k] ELSE {}
  <2>. HIDE DEF n, f
  <2>. QED  BY <1>1, <1>2, CutFacts
<1>4. or(a, b) = Cut(n, f)
  BY DEF or
<1>5. ASSUME NEW k \in Nat
      PROVE  Byte(or(a, b), k) = Byte(a, k) \cup Byte(b, k)
  <2>1. Byte(or(a, b), k) = IF k < n THEN f[k] ELSE {}
    BY <1>3, <1>4
  <2>2. CASE k < n
    BY <1>1, <2>1, <2>2
  <2>3. CASE ~(k < n)
    BY <1>1, <2>1, <2>3 DEF Byte
  <2>. QED  BY <2>2, <2>3
<1>6. \A i \in Nat : i \in Members(or(a, b)) <=> i \in Members(a) \cup Members(b)
  BY <1>3, <1>4, <1>5, InMembers, Position
<1>. QED  BY <1>3, <1>4, <1>6, MembersAreNumbers

(* rdfstore_bits_and is the intersection: what the longer vector has beyond   *)
(* the end of the shorter one is dropped.                                     *)
THEOREM AndIsIntersection ==
  ASSUME NEW a, NEW b, IsVector(a), IsVector(b)
  PROVE  IsVector(and(a, b)) /\ Members(and(a, b)) = Members(a) \cap Members(b)
<1>. DEFINE n == Shorter(a, b)
            f == [i \in 0 .. n - 1 |-> Byte(a, i) \cap Byte(b, i)]
<1>1. a.size \in Nat /\ b.size \in Nat /\ n \in Nat /\ (n = a.size \/ n = b.size)
  BY DEF Shorter, IsVector
<1>2. \A i \in 0 .. n - 1 : f[i] \subseteq Bits
  BY <1>1, ByteType
<1>3. IsVector(Cut(n, f)) /\ \A k \in Nat : Byte(Cut(n, f), k) = IF k < n THEN f[k] ELSE {}
  <2>. HIDE DEF n, f
  <2>. QED  BY <1>1, <1>2, CutFacts
<1>4. and(a, b) = Cut(n, f)
  BY DEF and
<1>5. ASSUME NEW k \in Nat
      PROVE  Byte(and(a, b), k) = Byte(a, k) \cap Byte(b, k)
  <2>1. Byte(and(a, b), k) = IF k < n THEN f[k] ELSE {}
    BY <1>3, <1>4
  <2>2. CASE k < n
    BY <1>1, <2>1, <2>2
  <2>3. CASE ~(k < n)
    BY <1>1, <2>1, <2>3 DEF Byte
  <2>. QED  BY <2>2, <2>3
<1>6. \A i \in Nat : i \in Members(and(a, b)) <=> i \in Members(a) \cap Members(b)
  BY <1>3, <1>4, <1>5, InMembers, Position
<1>. QED  BY <1>3, <1>4, <1>6, MembersAreNumbers

(* rdfstore_bits_exor, whose name says otherwise, is the difference.          *)
THEOREM ExorIsDifference ==
  ASSUME NEW a, NEW b, IsVector(a), IsVector(b)
  PROVE  IsVector(exor(a, b)) /\ Members(exor(a, b)) = Members(a) \ Members(b)
<1>. DEFINE n == Longer(a, b)
            f == [i \in 0 .. n - 1 |-> (Byte(a, i) \cup Byte(b, i)) \ Byte(b, i)]
<1>1. a.size \in Nat /\ b.size \in Nat /\ n \in Nat /\ a.size <= n /\ b.size <= n
  BY DEF Longer, IsVector
<1>2. \A i \in 0 .. n - 1 : f[i] \subseteq Bits
  BY <1>1, ByteType
<1>3. IsVector(Cut(n, f)) /\ \A k \in Nat : Byte(Cut(n, f), k) = IF k < n THEN f[k] ELSE {}
  <2>. HIDE DEF n, f
  <2>. QED  BY <1>1, <1>2, CutFacts
<1>4. exor(a, b) = Cut(n, f)
  BY DEF exor
<1>5. ASSUME NEW k \in Nat
      PROVE  Byte(exor(a, b), k) = Byte(a, k) \ Byte(b, k)
  <2>1. Byte(exor(a, b), k) = IF k < n THEN f[k] ELSE {}
    BY <1>3, <1>4
  <2>2. CASE k < n
    BY <1>1, <2>1, <2>2
  <2>3. CASE ~(k < n)
    BY <1>1, <2>1, <2>3 DEF Byte
  <2>. QED  BY <2>2, <2>3
<1>6. ASSUME NEW i \in Nat
      PROVE  i \in Members(exor(a, b)) <=> i \in Members(a) \ Members(b)
  <2>1. Byte(exor(a, b), i \div Width) = Byte(a, i \div Width) \ Byte(b, i \div Width)
    BY <1>5, Position
  <2>2. i \in Members(exor(a, b)) <=> i % Width \in Byte(exor(a, b), i \div Width)
    BY <1>3, <1>4, InMembers
  <2>3. i \in Members(a) <=> i % Width \in Byte(a, i \div Width)
    BY InMembers
  <2>4. i \in Members(b) <=> i % Width \in Byte(b, i \div Width)
    BY InMembers
  <2>. QED  BY <2>1, <2>2, <2>3, <2>4
<1>. QED  BY <1>3, <1>4, <1>6, MembersAreNumbers

(* rdfstore_bits_not is the complement within the bytes of the vector.        *)
THEOREM NotIsComplement ==
  ASSUME NEW a, IsVector(a)
  PROVE  IsVector(not(a)) /\ Members(not(a)) = (0 .. Width * a.size - 1) \ Members(a)
<1>. DEFINE n == a.size
            f == [i \in 0 .. n - 1 |-> Bits \ a.byte[i]]
<1>1. n \in Nat /\ Width * n \in Nat
  BY DEF IsVector
<1>2. \A i \in 0 .. n - 1 : f[i] \subseteq Bits
  OBVIOUS
<1>3. IsVector(Cut(n, f)) /\ \A k \in Nat : Byte(Cut(n, f), k) = IF k < n THEN f[k] ELSE {}
  <2>. HIDE DEF f
  <2>. QED  BY <1>1, <1>2, CutFacts
<1>4. not(a) = Cut(n, f)
  BY DEF not
<1>5. ASSUME NEW i \in Nat
      PROVE  i \in Members(not(a)) <=> i \in (0 .. Width * n - 1) \ Members(a)
  <2>. DEFINE q == i \div Width
  <2>1. q \in Nat /\ i % Width \in Bits /\ (i < Width * n <=> q < n)
    BY <1>1, Position, InByte
  <2>. HIDE DEF q
  <2>2. Byte(not(a), q) = IF q < n THEN f[q] ELSE {}
    BY <1>3, <1>4, <2>1
  <2>3. i \in Members(not(a)) <=> i % Width \in Byte(not(a), q)
    BY <1>3, <1>4, InMembers DEF q
  <2>4. i \in Members(a) <=> i % Width \in Byte(a, q)
    BY InMembers DEF q
  <2>5. q < n => f[q] = Bits \ Byte(a, q)
    BY <1>1, <2>1 DEF Byte
  <2>6. i \in 0 .. Width * n - 1 <=> q < n
    BY <1>1, <2>1
  <2>. QED  BY <2>1, <2>2, <2>3, <2>4, <2>5, <2>6
<1>6. Members(not(a)) \subseteq Nat
  BY <1>3, <1>4, MembersAreNumbers
<1>7. 0 .. Width * n - 1 \subseteq Nat
  BY <1>1
<1>. QED  BY <1>3, <1>4, <1>5, <1>6, <1>7

-----------------------------------------------------------------------------
(* A vector that grows gets zero bytes.                                       *)
LEMMA GrownFacts ==
  ASSUME NEW v, IsVector(v), NEW at \in Nat
  PROVE  /\ IsVector(Grown(v, at))
         /\ at \div Width < Grown(v, at).size
         /\ \A k \in Nat : Byte(Grown(v, at), k) = Byte(v, k)
<1>. DEFINE q == at \div Width
            n == STEP * (1 + q \div STEP)
<1>1. q \in Nat /\ v.size \in Nat
  BY Position DEF IsVector
<1>2. CASE q < v.size
  BY <1>1, <1>2 DEF Grown
<1>3. CASE ~(q < v.size)
  <2>1. n \in Nat /\ q < n
    <3>. DEFINE s == q \div STEP  r == q % STEP
    <3>1. s \in Nat /\ r \in Nat /\ r < STEP /\ q = STEP * s + r
      BY <1>1, Z3
    <3>2. STEP * (1 + s) = STEP + STEP * s /\ STEP * s \in Nat
      BY <3>1
    <3>. HIDE DEF s, r
    <3>3. n = STEP * (1 + s)
      BY DEF s
    <3>. HIDE DEF n, q
    <3>. QED  BY <3>1, <3>2, <3>3
  <2>. DEFINE f == [i \in 0 .. n - 1 |-> Byte(v, i)]
  <2>2. Grown(v, at) = [size |-> n, byte |-> f]
    <3>1. [i \in 0 .. n - 1 |-> f[i]] = f
      OBVIOUS
    <3>. QED  BY <1>3, <3>1 DEF Grown, Vector
  <2>3. f \in [0 .. n - 1 -> SUBSET Bits]
    BY <2>1, ByteType
  <2>4. IsVector(Grown(v, at))
    BY <2>1, <2>2, <2>3 DEF IsVector
  <2>5. ASSUME NEW k \in Nat
        PROVE  Byte(Grown(v, at), k) = Byte(v, k)
    <3>1. CASE k < n
      BY <2>1, <2>2, <3>1 DEF Byte
    <3>2. CASE ~(k < n)
      BY <1>1, <1>3, <2>1, <2>2, <3>2 DEF Byte
    <3>. QED  BY <3>1, <3>2
  <2>. QED  BY <2>1, <2>2, <2>4, <2>5
<1>. QED  BY <1>2, <1>3

LEMMA OneByte ==
  ASSUME NEW s, NEW f, NEW q, NEW b
  PROVE  [[size |-> s, byte |-> f] EXCEPT !.byte[q] = b]
           = [size |-> s, byte |-> [f EXCEPT ![q] = b]]
OBVIOUS

(* rdfstore_bits_setmask, of one bit, adds or removes its position, and tells *)
(* whether it was not there, or was; the vector may grow on the way.          *)
THEOREM SetmaskSets ==
  ASSUME NEW v, IsVector(v), NEW at \in Nat, NEW value \in {0, 1}
  PROVE  LET s == setmask(v, at, value)
         IN  /\ IsVector(s.vector)
             /\ Members(s.vector) = IF value = 1 THEN Members(v) \cup {at} ELSE Members(v) \ {at}
             /\ s.changed <=> (value = 1 <=> at \notin Members(v))
<1>. DEFINE g == Grown(v, at)
            q == at \div Width
            r == at % Width
            b == IF value = 1 THEN g.byte[q] \cup {r} ELSE g.byte[q] \ {r}
            w == [g EXCEPT !.byte[q] = b]
<1>1. IsVector(g) /\ q < g.size /\ \A k \in Nat : Byte(g, k) = Byte(v, k)
  BY GrownFacts
<1>2. q \in Nat /\ r \in Bits
  BY Position
<1>3. setmask(v, at, value) = [vector |-> w, changed |-> (b # g.byte[q])]
  BY DEF setmask
<1>4. g.size \in Nat /\ q \in 0 .. g.size - 1 /\ g.byte \in [0 .. g.size - 1 -> SUBSET Bits]
  BY <1>1, <1>2 DEF IsVector
<1>5. g.byte[q] = Byte(v, q)
  BY <1>1, <1>2 DEF Byte
<1>6. b \subseteq Bits
  BY <1>2, <1>4
<1>7. w.size = g.size /\ w.byte = [g.byte EXCEPT ![q] = b] /\ w = [size |-> w.size, byte |-> w.byte]
  <2>. HIDE DEF b, q, g
  <2>1. g = [size |-> g.size, byte |-> g.byte]
    BY <1>1 DEF IsVector
  <2>2. w = [size |-> g.size, byte |-> [g.byte EXCEPT ![q] = b]]
    BY <2>1, OneByte
  <2>. HIDE DEF w
  <2>. QED  BY <2>2
<1>. HIDE DEF g, w, b, q, r
<1>8. IsVector(w)
  BY <1>4, <1>6, <1>7 DEF IsVector
<1>9. ASSUME NEW k \in Nat
      PROVE  Byte(w, k) = IF k = q THEN b ELSE Byte(v, k)
  <2>1. Byte(w, k) = IF k = q THEN b ELSE Byte(g, k)
    BY <1>4, <1>7 DEF Byte
  <2>. QED  BY <1>1, <2>1
<1>10. ASSUME NEW i \in Nat
       PROVE  i \in Members(w) <=> IF i = at THEN value = 1 ELSE i \in Members(v)
  <2>1. i \in Members(w) <=> i % Width \in Byte(w, i \div Width)
    BY <1>8, InMembers
  <2>2. i \in Members(v) <=> i % Width \in Byte(v, i \div Width)
    BY InMembers
  <2>3. i \div Width \in Nat /\ (i = at <=> i \div Width = q /\ i % Width = r)
    <3>1. i = Width * (i \div Width) + (i % Width) /\ i \div Width \in Nat
      BY Position
    <3>2. at = Width * q + r
      BY Position DEF q, r
    <3>. QED  BY <3>1, <3>2 DEF q, r
  <2>4. i % Width \in b <=> IF i % Width = r THEN value = 1 ELSE i % Width \in Byte(v, q)
    BY <1>5 DEF b
  <2>. QED  BY <1>9, <2>1, <2>2, <2>3, <2>4
<1>11. at \in Members(v) <=> r \in Byte(v, q)
  BY InMembers DEF q, r
<1>12. b # g.byte[q] <=> (value = 1 <=> r \notin Byte(v, q))
  BY <1>5 DEF b
<1>13. Members(w) = IF value = 1 THEN Members(v) \cup {at} ELSE Members(v) \ {at}
  BY <1>8, <1>10, MembersAreNumbers
<1>. DEFINE s == setmask(v, at, value)
<1>14. s.vector = w /\ s.changed = (b # g.byte[q])
  BY <1>3
<1>. HIDE DEF s
<1>15. s.changed <=> (value = 1 <=> at \notin Members(v))
  BY <1>11, <1>12, <1>14
<1>16. IsVector(s.vector) /\ Members(s.vector) = IF value = 1 THEN Members(v) \cup {at} ELSE Members(v) \ {at}
  BY <1>8, <1>13, <1>14
<1>. QED  BY <1>15, <1>16 DEF s

-----------------------------------------------------------------------------
(* Positions are ordered by their bytes first.                                *)
LEMMA Order ==
  ASSUME NEW k \in Nat, NEW q \in Nat, NEW s \in Bits, NEW r \in Bits
  PROVE  Width * k + s <= Width * q + r <=> k < q \/ (k = q /\ s <= r)
<1>. DEFINE wk == Width * k  wq == Width * q
<1>1. wk \in Nat /\ wq \in Nat /\ s \in Nat /\ r \in Nat /\ s < Width /\ r < Width
  BY DEF Bits
<1>2. k < q => wk + Width <= wq
  BY Times
<1>3. q < k => wq + Width <= wk
  BY Times
<1>4. k = q => wk = wq
  OBVIOUS
<1>. HIDE DEF wk, wq
<1>5. wk + s <= wq + r <=> k < q \/ (k = q /\ s <= r)
  BY <1>1, <1>2, <1>3, <1>4
<1>. QED  BY <1>5 DEF wk, wq

(* The same, for two positions given by their bytes and bits. *)
LEMMA OrderOf ==
  ASSUME NEW k \in Nat, NEW q \in Nat, NEW s \in Bits, NEW r \in Bits,
         NEW i, NEW j, i = Width * k + s, j = Width * q + r,
         k < q \/ (k = q /\ s <= r)
  PROVE  i <= j
BY Order

(* rdfstore_bits_getfirstsetafter goes to the next member, from the position  *)
(* on; when it finds something past the end of the vector, whatever is there, *)
(* it tells a position past the end, and there was no further member.         *)
THEOREM NextMember ==
  ASSUME NEW v, IsVector(v), NEW at \in Nat, NEW p \in getfirstsetafter(v, at)
  PROVE  /\ p \in Nat
         /\ p < Width * v.size => p \in Members(v) /\ at <= p
         /\ \A i \in Members(v) : at <= i => p <= i
<1>. DEFINE q == at \div Width
            r == at % Width
            here == {x \in Byte(v, q) : r <= x}
            later == {i \in q + 1 .. v.size - 1 : v.byte[i] # {}}
            k(i) == i \div Width
            s(i) == i % Width
<1>1. q \in Nat /\ r \in Bits /\ at = Width * q + r
  BY Position
<1>2. v.size \in Nat /\ v.byte \in [0 .. v.size - 1 -> SUBSET Bits]
  BY DEF IsVector
<1>3. ASSUME NEW i \in Members(v)
      PROVE  /\ i \in Nat /\ k(i) \in 0 .. v.size - 1 /\ s(i) \in Bits
             /\ i = Width * k(i) + s(i) /\ s(i) \in v.byte[k(i)] /\ Byte(v, k(i)) = v.byte[k(i)]
  <2>1. i \in Nat
    BY MembersAreNumbers
  <2>2. s(i) \in Byte(v, k(i)) /\ k(i) \in Nat /\ s(i) \in Bits /\ i = Width * k(i) + s(i)
    BY <2>1, InMembers, Position
  <2>. HIDE DEF k, s
  <2>3. k(i) < v.size /\ Byte(v, k(i)) = v.byte[k(i)]
    BY <2>2 DEF Byte
  <2>. QED  BY <1>2, <2>1, <2>2, <2>3
<1>. HIDE DEF k, s, q, r
<1>4. ASSUME NEW i \in Members(v), at <= i
      PROVE  (k(i) = q /\ s(i) \in here) \/ (q < k(i) /\ k(i) \in later)
  <2>1. q < k(i) \/ (q = k(i) /\ r <= s(i))
    BY <1>1, <1>3, <1>4, Order
  <2>. QED  BY <1>1, <1>2, <1>3, <2>1
<1>5. here \in SUBSET (0 .. Width - 1) /\ later \in SUBSET (0 .. v.size - 1)
  BY <1>1, <1>2, ByteType DEF Bits
<1>6. CASE here # {}
  <2>. DEFINE x == Least(here)
  <2>1. x \in here /\ \A y \in here : x <= y
    BY <1>5, <1>6, LeastOf
  <2>. HIDE DEF x
  <2>2. p = Width * q + x
    BY <1>6 DEF getfirstsetafter, q, r, x
  <2>3. x \in Bits /\ x \in Byte(v, q) /\ r <= x
    BY <1>5, <2>1 DEF Bits
  <2>4. p \in Nat /\ p \in Members(v) /\ at <= p
    BY <1>1, <2>2, <2>3, AtByte, InMembers, Order
  <2>5. ASSUME NEW i \in Members(v), at <= i
        PROVE  p <= i
    <3>1. q < k(i) \/ (q = k(i) /\ x <= s(i))
      BY <1>4, <2>1, <2>5
    <3>2. k(i) \in Nat /\ s(i) \in Bits /\ i = Width * k(i) + s(i)
      BY <1>3
    <3>. QED  BY <1>1, <2>2, <2>3, <3>1, <3>2, OrderOf
  <2>. QED  BY <2>4, <2>5
<1>7. CASE here = {} /\ later # {}
  <2>. DEFINE m == Least(later)  x == Least(v.byte[m])
  <2>1. m \in later /\ \A y \in later : m <= y
    BY <1>2, <1>5, <1>7, LeastOf
  <2>. HIDE DEF m
  <2>2. m \in 0 .. v.size - 1 /\ q < m /\ v.byte[m] # {} /\ v.byte[m] \in SUBSET (0 .. Width - 1)
    BY <1>1, <1>2, <1>5, <2>1 DEF Bits
  <2>3. x \in v.byte[m] /\ \A y \in v.byte[m] : x <= y
    BY <2>2, LeastOf
  <2>. HIDE DEF x
  <2>4. p = Width * m + x
    BY <1>7 DEF getfirstsetafter, q, r, x, m
  <2>5. x \in Bits /\ m \in Nat /\ x \in Byte(v, m)
    BY <1>2, <2>2, <2>3 DEF Byte, Bits
  <2>6. p \in Nat /\ p \in Members(v) /\ at <= p
    BY <1>1, <2>2, <2>4, <2>5, AtByte, InMembers, Order
  <2>7. ASSUME NEW i \in Members(v), at <= i
        PROVE  p <= i
    <3>1. m <= k(i)
      BY <1>4, <1>7, <2>1, <2>7
    <3>2. m < k(i) \/ (m = k(i) /\ x <= s(i))
      BY <1>3, <2>3, <2>5, <3>1
    <3>3. k(i) \in Nat /\ s(i) \in Bits /\ i = Width * k(i) + s(i)
      BY <1>3
    <3>. QED  BY <2>4, <2>5, <3>2, <3>3, OrderOf
  <2>. QED  BY <2>6, <2>7
<1>8. CASE here = {} /\ later = {}
  <2>1. \/ p = Width * v.size
        \/ v.size <= q /\ \E x \in Bits : p = Width * q + x
    BY <1>1, <1>2, <1>8 DEF getfirstsetafter, q, r
  <2>2. p \in Nat /\ Width * v.size <= p
    <3>1. Width * v.size \in Nat
      BY <1>2
    <3>2. CASE p = Width * v.size
      BY <3>1, <3>2
    <3>3. CASE v.size <= q /\ \E x \in Bits : p = Width * q + x
      <4>1. PICK x \in Bits : p = Width * q + x
        BY <3>3
      <4>2. 0 \in Bits /\ 0 <= x /\ p \in Nat
        BY <1>1, <4>1 DEF Bits
      <4>3. v.size < q \/ (v.size = q /\ 0 <= x)
        BY <1>1, <1>2, <3>3, <4>2
      <4>4. v.size \in Nat /\ q \in Nat /\ x \in Bits /\ 0 \in Bits
        BY <1>1, <1>2, <4>1, <4>2
      <4>5. Width * v.size + 0 <= Width * q + x
        BY <4>3, <4>4, Order
      <4>. QED  BY <3>1, <4>1, <4>2, <4>5
    <3>. QED  BY <2>1, <3>2, <3>3
  <2>3. ASSUME NEW i \in Members(v), at <= i
        PROVE  FALSE
    BY <1>4, <1>8, <2>3
  <2>4. Width * v.size \in Nat
    BY <1>2
  <2>. QED  BY <2>2, <2>3, <2>4
<1>. QED  BY <1>6, <1>7, <1>8
=============================================================================
