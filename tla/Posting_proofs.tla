--------------------------- MODULE Posting_proofs ---------------------------
(* Theorems about Codec and Posting: a run is read back where it was written, *)
(* a vector is read back run by run, and so a posting keeps its statements    *)
(* through any insertions and removals, in each of the codecs.                *)
EXTENDS Posting, BitVector_proofs

USE BitConstants

-----------------------------------------------------------------------------
(* Quotient and remainder. *)
LEMMA Division ==
  ASSUME NEW n \in Nat, NEW m \in Nat \ {0}
  PROVE  /\ n \div m \in Nat /\ n % m \in Nat /\ n % m < m
         /\ n = m * (n \div m) + (n % m)
         /\ n < m => n % m = n
BY Z3

-----------------------------------------------------------------------------
(* Functions defined by recursion exist.                                      *)
Stepwise(base, step, n, r) == r[0] = base /\ \A k \in 1 .. n : r[k] = step[k][r[k - 1]]

LEMMA Recursion ==
  ASSUME NEW n \in Nat, NEW V, NEW base \in V, NEW step \in [1 .. n -> [V -> V]]
  PROVE  \E r \in [0 .. n -> V] : Stepwise(base, step, n, r)
<1>. DEFINE Upto(k) == \E r \in [0 .. k -> V] : Stepwise(base, step, k, r)
            G == {k \in 0 .. n : Upto(k)}
<1>1. Upto(0)
  <2>. DEFINE r == [j \in 0 .. 0 |-> base]
  <2>1. r \in [0 .. 0 -> V] /\ r[0] = base /\ 1 .. 0 = {}
    OBVIOUS
  <2>. HIDE DEF r
  <2>. QED  BY <2>1 DEF Stepwise
<1>2. ASSUME NEW k \in 1 .. n, Upto(k - 1)
      PROVE  Upto(k)
  <2>1. PICK r \in [0 .. k - 1 -> V] : Stepwise(base, step, k - 1, r)
    BY <1>2
  <2>. DEFINE h == [j \in 0 .. k |-> IF j = k THEN step[k][r[k - 1]] ELSE r[j]]
  <2>2. step[k][r[k - 1]] \in V
    BY <2>1
  <2>3. h \in [0 .. k -> V]
    BY <2>1, <2>2
  <2>4. h[0] = base
    BY <2>1 DEF Stepwise
  <2>5. ASSUME NEW j \in 1 .. k
        PROVE  h[j] = step[j][h[j - 1]]
    <3>1. h[j - 1] = r[j - 1]
      OBVIOUS
    <3>2. j # k => h[j] = r[j] /\ r[j] = step[j][r[j - 1]]
      BY <2>1 DEF Stepwise
    <3>3. j = k => h[j] = step[k][r[k - 1]]
      OBVIOUS
    <3>. QED  BY <3>1, <3>2, <3>3
  <2>. HIDE DEF h
  <2>. QED  BY <2>3, <2>4, <2>5 DEF Stepwise
<1>. HIDE DEF Upto
<1>3. 0 \in G /\ \A k \in 1 .. n : k - 1 \in G => k \in G
  BY <1>1, <1>2
<1>4. n \in G
  <2>. HIDE DEF G
  <2>1. \A k \in 0 .. n : k \in G
    BY <1>3, Upwards
  <2>. QED  BY <2>1
<1>. QED  BY <1>4 DEF Upto

(* The powers of two. *)
LEMMA Powers ==
  /\ Power[0] = 1
  /\ \A k \in 0 .. Width : Power[k] \in Nat \ {0}
  /\ \A k \in 1 .. Width : Power[k] = 2 * Power[k - 1]
<1>. DEFINE V == Nat \ {0}
            step == [k \in 1 .. Width |-> [x \in V |-> 2 * x]]
            Is(f) == f = [k \in 0 .. Width |-> IF k = 0 THEN 1 ELSE 2 * f[k - 1]]
<1>1. PICK r \in [0 .. Width -> V] : Stepwise(1, step, Width, r)
  <2>1. 1 \in V /\ step \in [1 .. Width -> [V -> V]] /\ Width \in Nat
    OBVIOUS
  <2>. HIDE DEF V, step
  <2>. QED  BY <2>1, Recursion
<1>2. r[0] = 1 /\ \A k \in 1 .. Width : r[k] = 2 * r[k - 1]
  <2>1. r[0] = 1 /\ \A k \in 1 .. Width : r[k] = step[k][r[k - 1]]
    BY <1>1 DEF Stepwise
  <2>2. ASSUME NEW k \in 1 .. Width
        PROVE  step[k][r[k - 1]] = 2 * r[k - 1]
    <3>1. k - 1 \in 0 .. Width
      OBVIOUS
    <3>2. r[k - 1] \in V
      BY <3>1
    <3>. QED  BY <3>2
  <2>. HIDE DEF step
  <2>. QED  BY <2>1, <2>2
<1>3. Is(r)
  <2>1. \A k \in 0 .. Width : k # 0 => k \in 1 .. Width
    OBVIOUS
  <2>2. r = [k \in 0 .. Width |-> r[k]]
    OBVIOUS
  <2>. QED  BY <1>2, <2>1, <2>2
<1>4. Power = CHOOSE f : Is(f)
  BY DEF Power
<1>. DEFINE f == Power
<1>5. Is(f)
  <2>. HIDE DEF Is
  <2>. QED  BY <1>3, <1>4
<1>. HIDE DEF f
<1>6. f[0] = 1 /\ \A k \in 1 .. Width : f[k] = 2 * f[k - 1]
  BY <1>5
<1>. DEFINE G == {k \in 0 .. Width : f[k] \in Nat \ {0}}
<1>7. 0 \in G /\ \A k \in 1 .. Width : k - 1 \in G => k \in G
  <2>1. ASSUME NEW k \in 1 .. Width, f[k - 1] \in Nat \ {0}
        PROVE  f[k] \in Nat \ {0}
    <3>. DEFINE a == f[k - 1]
    <3>1. f[k] = 2 * a /\ a \in Nat \ {0}
      BY <1>6, <2>1
    <3>. HIDE DEF a
    <3>2. 2 * a \in Nat \ {0}
      BY <3>1
    <3>. QED  BY <3>1, <3>2
  <2>2. \A k \in 1 .. Width : k \in 0 .. Width
    OBVIOUS
  <2>. QED  BY <1>6, <2>1, <2>2
<1>8. \A k \in 0 .. Width : k \in G
  <2>1. Width \in Nat
    OBVIOUS
  <2>. HIDE DEF G
  <2>. QED  BY <1>7, <2>1, Upwards
<1>. QED  BY <1>6, <1>8 DEF f

LEMMA Doubles ==
  ASSUME NEW j \in 0 .. Width, NEW k \in 0 .. Width, j < k
  PROVE  \E m \in Nat : Power[k] = Power[j] * (2 * m)
<1>. DEFINE d == k - j
            Twice(l) == \E m \in Nat : Power[l] = Power[j] * (2 * m)
            G == {l \in 0 .. d : l = 0 \/ Twice(j + l)}
<1>1. 0 \in G
  OBVIOUS
<1>2. ASSUME NEW l \in 1 .. d, l - 1 \in G
      PROVE  l \in G
  <2>1. j + l \in 1 .. Width /\ j + (l - 1) = (j + l) - 1
    OBVIOUS
  <2>2. Power[j + l] = 2 * Power[j + (l - 1)]
    BY <2>1, Powers
  <2>3. CASE l = 1
    <3>1. Power[j + l] = Power[j] * (2 * 1)
      BY <2>2, <2>3, Powers
    <3>2. Twice(j + l)
      BY <3>1
    <3>. HIDE DEF Twice
    <3>. QED  BY <3>2
  <2>4. CASE l # 1
    <3>1. PICK m \in Nat : Power[j + (l - 1)] = Power[j] * (2 * m)
      BY <1>2, <2>4
    <3>. DEFINE p == Power[j]
    <3>2. p \in Nat
      BY Powers
    <3>3. Power[j + l] = 2 * (p * (2 * m))
      BY <2>2, <3>1
    <3>. HIDE DEF p
    <3>4. Power[j + l] = p * (2 * (2 * m)) /\ 2 * m \in Nat
      BY <3>2, <3>3
    <3>5. Twice(j + l)
      BY <3>4 DEF p
    <3>. HIDE DEF Twice
    <3>. QED  BY <3>5
  <2>. QED  BY <2>3, <2>4
<1>3. d \in Nat /\ d \in 1 .. d /\ j + d = k
  OBVIOUS
<1>. HIDE DEF Twice, d
<1>4. \A l \in 0 .. d : l \in G
  <2>1. \A l \in 1 .. d : l - 1 \in G => l \in G
    BY <1>2
  <2>. HIDE DEF G
  <2>. QED  BY <1>1, <1>3, <2>1, Upwards
<1>5. Twice(k)
  <2>1. d \in G /\ d # 0
    BY <1>3, <1>4
  <2>. QED  BY <1>3, <2>1
<1>. QED  BY <1>5 DEF Twice

LEMMA Quotient ==
  ASSUME NEW d \in Nat \ {0}, NEW q \in Nat, NEW x \in Nat, x < d
  PROVE  (d * q + x) \div d = q
<1>. DEFINE n == d * q + x
            e == n \div d
<1>1. n \in Nat
  OBVIOUS
<1>2. e \in Nat /\ n % d \in Nat /\ n % d < d /\ n = d * e + (n % d)
  <2>. HIDE DEF n
  <2>. QED  BY <1>1, Division, Zenon
<1>. DEFINE y == n % d
<1>3. d * q + x = d * e + y /\ y \in Nat /\ y < d
  BY <1>2
<1>. HIDE DEF e, y
<1>4. e < q => d * e + d <= d * q
  BY <1>2, Times
<1>5. q < e => d * q + d <= d * e
  BY <1>2, Times
<1>6. d * e \in Nat /\ d * q \in Nat
  BY <1>2
<1>7. e = q
  BY <1>2, <1>3, <1>4, <1>5, <1>6
<1>. QED  BY <1>7 DEF e

-----------------------------------------------------------------------------
(* A code stands in c from position i on. *)
At(code, c, i) == \A k \in 1 .. Len(code) : c[i + k - 1] = code[k]

(* Half a byte's values. *)
LEMMA HalfBase == Half \in Nat /\ Base = Half + Half /\ Half >= 4 /\ Width < Half
<1>1. Base = 2 * (Base \div 2) + (Base % 2) /\ Base \div 2 \in Nat
  BY CodecConstants, Division
<1>. QED  BY <1>1, CodecConstants DEF Half

USE CodecConstants

(* The bytes with which codes begin. *)
LEMMA Codes == {0, Half, Half + 1, Half + 2, Base - 2, Base - 1, Space} \subseteq Bytes
BY HalfBase DEF Bytes

(* Two bytes hold every length below Base * Base. *)
LEMMA TwoBytes ==
  ASSUME NEW n \in Nat, n < Base * Base
  PROVE  /\ Low(n) \in Bytes /\ High(n) \in Bytes
         /\ n = Low(n) + Base * High(n)
<1>. DEFINE q == n \div Base
            r == n % Base
<1>1. q \in Nat /\ r \in Nat /\ r < Base /\ n = Base * q + r
  <2>1. Base \in Nat \ {0}
    OBVIOUS
  <2>. QED  BY <2>1, Division, Zenon
<1>. HIDE DEF q, r
<1>2. q < Base
  <2>1. SUFFICES ASSUME q >= Base PROVE FALSE
    BY <1>1
  <2>2. PICK d \in Nat : q = Base + d
    <3>1. q - Base \in Nat /\ q = Base + (q - Base)
      BY <1>1, <2>1
    <3>. QED  BY <3>1
  <2>3. Base * q = Base * Base + Base * d
    BY <2>2
  <2>4. Base * d \in Nat /\ Base * Base \in Nat
    OBVIOUS
  <2>. QED  BY <1>1, <2>3, <2>4
<1>3. q % Base = q
  BY <1>1, <1>2, Division
<1>4. Low(n) = r /\ High(n) = q
  BY <1>3 DEF Low, High, q, r
<1>. QED  BY <1>1, <1>2, <1>4 DEF Bytes

-----------------------------------------------------------------------------
(* The codec of zero bytes, which is the default: compress_nulls writes a run *)
(* of two zeroes or four other bytes, and more, and expand_nulls reads it.    *)
THEOREM NullsRunIsRead ==
  ASSUME NEW c, NEW i \in Nat, NEW b \in Bytes, NEW n \in Nat, n < Base * Base,
         IsRun("nulls", b, n), At(NullsRun(b, n), c, i)
  PROVE  /\ NullsRun(b, n) \in Seq(Bytes)
         /\ NullsRead(c, i) = Run(b, n, i + Len(NullsRun(b, n)))
<1>. USE HalfBase
<1>1. n >= 4 \/ (b = 0 /\ n >= 2)
  BY DEF IsRun
<1>2. CASE b = 0 /\ n < Half
  <2>1. NullsRun(b, n) = <<n + Half>>
    BY <1>2 DEF NullsRun
  <2>2. c[i] = n + Half
    BY <2>1 DEF At
  <2>3. NullsRead(c, i) = Run(0, c[i] - Half, i + 1)
    BY <1>1, <1>2, <2>2 DEF NullsRead
  <2>4. 0 = b /\ c[i] - Half = n
    BY <1>2, <2>2
  <2>5. n + Half \in Bytes
    BY <1>1, <1>2, Codes DEF Bytes
  <2>6. NullsRun(b, n) \in Seq(Bytes) /\ Len(NullsRun(b, n)) = 1
    BY <2>1, <2>5
  <2>. QED  BY <2>3, <2>4, <2>6
<1>3. CASE b = 0 /\ n \in Half .. Base - 1
  <2>1. NullsRun(b, n) = <<Half + 1, n>>
    BY <1>3 DEF NullsRun
  <2>2. c[i] = Half + 1 /\ c[i + 1] = n
    BY <2>1 DEF At
  <2>3. NullsRead(c, i) = Run(0, c[i + 1], i + 2)
    BY <1>1, <1>3, <2>2 DEF NullsRead
  <2>4. 0 = b /\ c[i + 1] = n
    BY <1>3, <2>2
  <2>5. Half + 1 \in Bytes /\ n \in Bytes
    BY <1>1, <1>3, Codes DEF Bytes
  <2>6. NullsRun(b, n) \in Seq(Bytes) /\ Len(NullsRun(b, n)) = 2
    BY <2>1, <2>5
  <2>. QED  BY <2>3, <2>4, <2>6
<1>4. CASE b = 0 /\ n >= Base
  <2>1. NullsRun(b, n) = <<Half, Low(n), High(n)>>
    BY <1>4 DEF NullsRun
  <2>2. c[i] = Half /\ c[i + 1] = Low(n) /\ c[i + 2] = High(n)
    BY <2>1 DEF At
  <2>3. NullsRead(c, i) = Run(0, Long(c, i + 1), i + 3)
    BY <1>1, <1>4, <2>2 DEF NullsRead
  <2>4. 0 = b /\ Long(c, i + 1) = n
    BY <1>4, <2>2, TwoBytes DEF Long
  <2>5. Half \in Bytes /\ Low(n) \in Bytes /\ High(n) \in Bytes
    BY <1>1, <1>4, Codes, TwoBytes
  <2>6. NullsRun(b, n) \in Seq(Bytes) /\ Len(NullsRun(b, n)) = 3
    BY <2>1, <2>5
  <2>. QED  BY <2>3, <2>4, <2>6
<1>5. CASE b # 0 /\ n < Base
  <2>1. NullsRun(b, n) = <<0, n, b>>
    BY <1>5 DEF NullsRun
  <2>2. c[i] = 0 /\ c[i + 1] = n /\ c[i + 2] = b
    BY <2>1 DEF At
  <2>3. NullsRead(c, i) = Run(c[i + 2], c[i + 1], i + 3)
    BY <1>1, <1>5, <2>2 DEF NullsRead
  <2>4. c[i + 2] = b /\ c[i + 1] = n
    BY <1>5, <2>2
  <2>5. 0 \in Bytes /\ n \in Bytes
    BY <1>1, <1>5, Codes DEF Bytes
  <2>6. NullsRun(b, n) \in Seq(Bytes) /\ Len(NullsRun(b, n)) = 3
    BY <2>1, <2>5
  <2>. QED  BY <2>3, <2>4, <2>6
<1>6. CASE b # 0 /\ n >= Base
  <2>1. NullsRun(b, n) = <<0, 0, Low(n), High(n), b>>
    BY <1>6 DEF NullsRun
  <2>2. /\ c[i] = 0 /\ c[i + 1] = 0
        /\ c[i + 2] = Low(n) /\ c[i + 3] = High(n) /\ c[i + 4] = b
    BY <2>1 DEF At
  <2>3. NullsRead(c, i) = Run(c[i + 4], Long(c, i + 2), i + 5)
    BY <1>1, <1>6, <2>2 DEF NullsRead
  <2>4. c[i + 4] = b /\ Long(c, i + 2) = n
    BY <1>6, <2>2, TwoBytes DEF Long
  <2>5. 0 \in Bytes /\ Low(n) \in Bytes /\ High(n) \in Bytes
    BY <1>1, <1>6, Codes, TwoBytes
  <2>6. NullsRun(b, n) \in Seq(Bytes) /\ Len(NullsRun(b, n)) = 5
    BY <2>1, <2>5
  <2>. QED  BY <2>3, <2>4, <2>6
<1>. QED  BY <1>2, <1>3, <1>4, <1>5, <1>6 DEF Bytes

-----------------------------------------------------------------------------
(* The codec of sparse vectors: compress_bits writes any run of zeroes and a  *)
(* run of four other bytes, and more; expand_bits reads it.                   *)
THEOREM BitsRunIsRead ==
  ASSUME NEW c, NEW i \in Nat, NEW b \in Bytes, NEW n \in Nat \ {0}, n < Base * Base,
         IsRun("bits", b, n), At(BitsRun(b, n), c, i)
  PROVE  /\ BitsRun(b, n) \in Seq(Bytes)
         /\ BitsRead(c, i) = Run(b, n, i + Len(BitsRun(b, n)))
<1>. USE HalfBase
<1>1. n >= 1
  BY DEF IsRun
<1>2. CASE b = 0 /\ n < Half - 1
  <2>1. BitsRun(b, n) = <<n + 1 + Half>>
    BY <1>2 DEF BitsRun
  <2>2. c[i] = n + 1 + Half
    BY <2>1 DEF At
  <2>3. BitsRead(c, i) = Run(0, c[i] - 1 - Half, i + 1)
    BY <1>1, <1>2, <2>2 DEF BitsRead
  <2>4. 0 = b /\ c[i] - 1 - Half = n
    BY <1>2, <2>2
  <2>5. n + 1 + Half \in Bytes
    BY <1>1, <1>2, Codes DEF Bytes
  <2>6. BitsRun(b, n) \in Seq(Bytes) /\ Len(BitsRun(b, n)) = 1
    BY <2>1, <2>5
  <2>. QED  BY <2>3, <2>4, <2>6
<1>3. CASE b = 0 /\ n \in Half - 1 .. 3 * (Half - 1) - 1
  <2>1. BitsRun(b, n) = <<Half + 1, n - (Half - 1)>>
    BY <1>3 DEF BitsRun
  <2>2. c[i] = Half + 1 /\ c[i + 1] = n - (Half - 1)
    BY <2>1 DEF At
  <2>3. BitsRead(c, i) = Run(0, c[i + 1] + (Half - 1), i + 2)
    BY <1>1, <1>3, <2>2 DEF BitsRead
  <2>4. 0 = b /\ c[i + 1] + (Half - 1) = n
    BY <1>3, <2>2
  <2>5. Half + 1 \in Bytes /\ n - (Half - 1) \in Bytes
    BY <1>1, <1>3, Codes DEF Bytes
  <2>6. BitsRun(b, n) \in Seq(Bytes) /\ Len(BitsRun(b, n)) = 2
    BY <2>1, <2>5
  <2>. QED  BY <2>3, <2>4, <2>6
<1>4. CASE b = 0 /\ n >= 3 * (Half - 1)
  <2>1. BitsRun(b, n) = <<Half, Low(n), High(n)>>
    BY <1>4 DEF BitsRun
  <2>2. c[i] = Half /\ c[i + 1] = Low(n) /\ c[i + 2] = High(n)
    BY <2>1 DEF At
  <2>3. BitsRead(c, i) = Run(0, Long(c, i + 1), i + 3)
    BY <1>1, <1>4, <2>2 DEF BitsRead
  <2>4. 0 = b /\ Long(c, i + 1) = n
    BY <1>4, <2>2, TwoBytes DEF Long
  <2>5. Half \in Bytes /\ Low(n) \in Bytes /\ High(n) \in Bytes
    BY <1>1, <1>4, Codes, TwoBytes
  <2>6. BitsRun(b, n) \in Seq(Bytes) /\ Len(BitsRun(b, n)) = 3
    BY <2>1, <2>5
  <2>. QED  BY <2>3, <2>4, <2>6
<1>5. CASE b # 0 /\ n < Base
  <2>1. BitsRun(b, n) = <<Half + 1, Base - 2, n, b>>
    BY <1>5 DEF BitsRun
  <2>2. /\ c[i] = Half + 1 /\ c[i + 1] = Base - 2
        /\ c[i + 2] = n /\ c[i + 3] = b
    BY <2>1 DEF At
  <2>3. BitsRead(c, i) = Run(c[i + 3], c[i + 2], i + 4)
    BY <1>1, <1>5, <2>2 DEF BitsRead
  <2>4. c[i + 3] = b /\ c[i + 2] = n
    BY <1>5, <2>2
  <2>5. Half + 1 \in Bytes /\ Base - 2 \in Bytes /\ n \in Bytes
    BY <1>1, <1>5, Codes DEF Bytes
  <2>6. BitsRun(b, n) \in Seq(Bytes) /\ Len(BitsRun(b, n)) = 4
    BY <2>1, <2>5
  <2>. QED  BY <2>3, <2>4, <2>6
<1>6. CASE b # 0 /\ n >= Base
  <2>1. BitsRun(b, n) = <<Half + 1, Base - 1, Low(n), High(n), b>>
    BY <1>6 DEF BitsRun
  <2>2. /\ c[i] = Half + 1 /\ c[i + 1] = Base - 1
        /\ c[i + 2] = Low(n) /\ c[i + 3] = High(n) /\ c[i + 4] = b
    BY <2>1 DEF At
  <2>3. BitsRead(c, i) = Run(c[i + 4], Long(c, i + 2), i + 5)
    BY <1>1, <1>6, <2>2 DEF BitsRead
  <2>4. c[i + 4] = b /\ Long(c, i + 2) = n
    BY <1>6, <2>2, TwoBytes DEF Long
  <2>5. Half + 1 \in Bytes /\ Base - 1 \in Bytes /\ Low(n) \in Bytes /\ High(n) \in Bytes
    BY <1>1, <1>6, Codes, TwoBytes
  <2>6. BitsRun(b, n) \in Seq(Bytes) /\ Len(BitsRun(b, n)) = 5
    BY <2>1, <2>5
  <2>. QED  BY <2>3, <2>4, <2>6
<1>. QED  BY <1>2, <1>3, <1>4, <1>5, <1>6 DEF Bytes

-----------------------------------------------------------------------------
(* The codec of spaces and zeroes: compress_rle writes any run of three bytes *)
(* and more, expand_rle reads it.                                             *)
THEOREM RleRunIsRead ==
  ASSUME NEW c, NEW i \in Nat, NEW b \in Bytes, NEW n \in Nat, n < Base * Base,
         IsRun("rle", b, n), At(RleRun(b, n), c, i)
  PROVE  /\ RleRun(b, n) \in Seq(Bytes)
         /\ RleRead(c, i) = Run(b, n, i + Len(RleRun(b, n)))
<1>. USE HalfBase
<1>1. n >= 3 /\ Space # 0
  BY DEF IsRun
<1>2. CASE n >= Base
  <2>1. RleRun(b, n) = <<Half + 1, Low(n), High(n), b>>
    BY <1>2 DEF RleRun
  <2>2. /\ c[i] = Half + 1 /\ c[i + 1] = Low(n)
        /\ c[i + 2] = High(n) /\ c[i + 3] = b
    BY <2>1 DEF At
  <2>3. RleRead(c, i) = Run(c[i + 3], Long(c, i + 1), i + 4)
    BY <1>1, <1>2, <2>2 DEF RleRead
  <2>4. c[i + 3] = b /\ Long(c, i + 1) = n
    BY <1>2, <2>2, TwoBytes DEF Long
  <2>5. Half + 1 \in Bytes /\ Low(n) \in Bytes /\ High(n) \in Bytes
    BY <1>1, <1>2, Codes, TwoBytes
  <2>6. RleRun(b, n) \in Seq(Bytes) /\ Len(RleRun(b, n)) = 4
    BY <2>1, <2>5
  <2>. QED  BY <2>3, <2>4, <2>6
<1>3. CASE n < Base /\ b = 0
  <2>1. RleRun(b, n) = <<0, n>>
    BY <1>3 DEF RleRun
  <2>2. c[i] = 0 /\ c[i + 1] = n
    BY <2>1 DEF At
  <2>3. RleRead(c, i) = Run(0, c[i + 1], i + 2)
    BY <1>1, <1>3, <2>2 DEF RleRead
  <2>4. 0 = b /\ c[i + 1] = n
    BY <1>3, <2>2
  <2>5. 0 \in Bytes /\ n \in Bytes
    BY <1>1, <1>3, Codes DEF Bytes
  <2>6. RleRun(b, n) \in Seq(Bytes) /\ Len(RleRun(b, n)) = 2
    BY <2>1, <2>5
  <2>. QED  BY <2>3, <2>4, <2>6
<1>4. CASE n < Base /\ b = Space /\ b # 0
  <2>1. RleRun(b, n) = <<Half + 2, n>>
    BY <1>4 DEF RleRun
  <2>2. c[i] = Half + 2 /\ c[i + 1] = n
    BY <2>1 DEF At
  <2>3. RleRead(c, i) = Run(Space, c[i + 1], i + 2)
    BY <1>1, <1>4, <2>2 DEF RleRead
  <2>4. Space = b /\ c[i + 1] = n
    BY <1>4, <2>2
  <2>5. Half + 2 \in Bytes /\ n \in Bytes
    BY <1>1, <1>4, Codes DEF Bytes
  <2>6. RleRun(b, n) \in Seq(Bytes) /\ Len(RleRun(b, n)) = 2
    BY <2>1, <2>5
  <2>. QED  BY <2>3, <2>4, <2>6
<1>5. CASE n < Half /\ b \notin {0, Space}
  <2>1. RleRun(b, n) = <<n + Half, b>>
    BY <1>5 DEF RleRun
  <2>2. c[i] = n + Half /\ c[i + 1] = b
    BY <2>1 DEF At
  <2>3. RleRead(c, i) = Run(c[i + 1], c[i] - Half, i + 2)
    BY <1>1, <1>5, <2>2 DEF RleRead
  <2>4. c[i + 1] = b /\ c[i] - Half = n
    BY <1>5, <2>2
  <2>5. n + Half \in Bytes
    BY <1>1, <1>5, Codes DEF Bytes
  <2>6. RleRun(b, n) \in Seq(Bytes) /\ Len(RleRun(b, n)) = 2
    BY <2>1, <2>5
  <2>. QED  BY <2>3, <2>4, <2>6
<1>6. CASE n \in Half .. Base - 1 /\ b \notin {0, Space}
  <2>1. RleRun(b, n) = <<Half, n, b>>
    BY <1>6 DEF RleRun
  <2>2. c[i] = Half /\ c[i + 1] = n /\ c[i + 2] = b
    BY <2>1 DEF At
  <2>3. RleRead(c, i) = Run(c[i + 2], c[i + 1], i + 3)
    BY <1>1, <1>6, <2>2 DEF RleRead
  <2>4. c[i + 2] = b /\ c[i + 1] = n
    BY <1>6, <2>2
  <2>5. Half \in Bytes /\ n \in Bytes
    BY <1>1, <1>6, Codes DEF Bytes
  <2>6. RleRun(b, n) \in Seq(Bytes) /\ Len(RleRun(b, n)) = 3
    BY <2>1, <2>5
  <2>. QED  BY <2>3, <2>4, <2>6
<1>. QED  BY <1>2, <1>3, <1>4, <1>5, <1>6 DEF Bytes

HIDE CodecConstants

-----------------------------------------------------------------------------
(* A byte is the sum of the powers of its bits, and these are read from it.   *)
Summed(S, r) ==
  /\ ByteOf(S) = r[Width] /\ r[0] = 0
  /\ \A k \in 1 .. Width : r[k] = r[k - 1] + IF k - 1 \in S THEN Power[k - 1] ELSE 0

LEMMA Sums ==
  ASSUME NEW S
  PROVE  \E r \in [0 .. Width -> Nat] : Summed(S, r)
<1>. DEFINE add(k) == IF k - 1 \in S THEN Power[k - 1] ELSE 0
            step == [k \in 1 .. Width |-> [x \in Nat |-> x + add(k)]]
            Is(f) == f = [k \in 0 .. Width |->
                            IF k = 0 THEN 0 ELSE f[k - 1] + IF k - 1 \in S THEN Power[k - 1] ELSE 0]
            f == CHOOSE h : Is(h)
<1>1. ByteOf(S) = f[Width]
  BY DEF ByteOf
<1>. HIDE DEF f
<1>2. \A k \in 1 .. Width : add(k) \in Nat
  <2>. SUFFICES ASSUME NEW k \in 1 .. Width PROVE add(k) \in Nat
    OBVIOUS
  <2>1. k - 1 \in 0 .. Width
    OBVIOUS
  <2>. QED  BY <2>1, Powers
<1>3. PICK r \in [0 .. Width -> Nat] : Stepwise(0, step, Width, r)
  <2>1. step \in [1 .. Width -> [Nat -> Nat]]
    <3>. HIDE DEF add
    <3>. QED  BY <1>2
  <2>2. 0 \in Nat /\ Width \in Nat
    OBVIOUS
  <2>. HIDE DEF step
  <2>. QED  BY <2>1, <2>2, Recursion
<1>4. r[0] = 0 /\ \A k \in 1 .. Width : r[k] = r[k - 1] + add(k)
  <2>1. r[0] = 0 /\ \A k \in 1 .. Width : r[k] = step[k][r[k - 1]]
    BY <1>3 DEF Stepwise
  <2>2. ASSUME NEW k \in 1 .. Width
        PROVE  step[k][r[k - 1]] = r[k - 1] + add(k)
    <3>1. k - 1 \in 0 .. Width
      OBVIOUS
    <3>2. r[k - 1] \in Nat
      BY <3>1
    <3>. HIDE DEF add
    <3>. QED  BY <3>2
  <2>. HIDE DEF step
  <2>. QED  BY <2>1, <2>2
<1>5. Is(r)
  <2>1. \A k \in 0 .. Width : k # 0 => k \in 1 .. Width
    OBVIOUS
  <2>2. r = [k \in 0 .. Width |-> r[k]]
    OBVIOUS
  <2>. QED  BY <1>4, <2>1, <2>2
<1>6. Is(f)
  <2>. HIDE DEF Is
  <2>. QED  BY <1>5 DEF f
<1>7. f[0] = 0 /\ \A k \in 1 .. Width : f[k] = f[k - 1] + add(k)
  BY <1>6
<1>8. f \in [0 .. Width -> Nat]
  <2>. DEFINE G == {k \in 0 .. Width : f[k] \in Nat}
  <2>1. 0 \in G /\ \A k \in 1 .. Width : k - 1 \in G => k \in G
    <3>1. ASSUME NEW k \in 1 .. Width, f[k - 1] \in Nat
          PROVE  f[k] \in Nat
      <4>. HIDE DEF add
      <4>. QED  BY <1>2, <1>7, <3>1
    <3>2. \A k \in 1 .. Width : k \in 0 .. Width
      OBVIOUS
    <3>. QED  BY <1>7, <3>1, <3>2
  <2>2. \A k \in 0 .. Width : k \in G
    <3>. HIDE DEF G
    <3>. QED  BY <2>1, Upwards
  <2>3. \A k \in 0 .. Width : f[k] \in Nat
    BY <2>2
  <2>4. DOMAIN f = 0 .. Width /\ f = [k \in 0 .. Width |-> f[k]]
    BY <1>6
  <2>. HIDE DEF Is
  <2>. QED  BY <2>3, <2>4
<1>9. Summed(S, f)
  <2>. HIDE DEF Is
  <2>. QED  BY <1>1, <1>7 DEF Summed
<1>. QED  BY <1>8, <1>9

LEMMA ByteIsRead ==
  ASSUME NEW S \in SUBSET Bits
  PROVE  ByteOf(S) \in Bytes /\ BitsIn(ByteOf(S)) = S
<1>1. PICK r \in [0 .. Width -> Nat] : Summed(S, r)
  BY Sums
<1>2. /\ ByteOf(S) = r[Width] /\ r[0] = 0
      /\ \A k \in 1 .. Width : r[k] = r[k - 1] + IF k - 1 \in S THEN Power[k - 1] ELSE 0
  BY <1>1 DEF Summed
<1>. DEFINE Holds(k) == /\ r[k] < Power[k]
                        /\ \A j \in 0 .. k - 1 : (r[k] \div Power[j]) % 2 = 1 <=> j \in S
            G == {k \in 0 .. Width : Holds(k)}
<1>3. Holds(0)
  BY <1>2, Powers
<1>4. ASSUME NEW k \in 1 .. Width, Holds(k - 1)
      PROVE  Holds(k)
  <2>. DEFINE p == Power[k - 1]  x == r[k - 1]  y == r[k]
  <2>1. k - 1 \in 0 .. Width /\ k \in 0 .. Width
    OBVIOUS
  <2>2. /\ p \in Nat \ {0} /\ x \in Nat /\ y \in Nat /\ x < p /\ Power[k] = 2 * p
        /\ y = x + IF k - 1 \in S THEN p ELSE 0
        /\ \A j \in 0 .. k - 2 : (x \div Power[j]) % 2 = 1 <=> j \in S
    BY <1>2, <1>4, <2>1, Powers
  <2>3. y < Power[k]
    <3>. HIDE DEF p, x, y
    <3>. QED  BY <2>2
  <2>4. (y \div p) % 2 = 1 <=> k - 1 \in S
    <3>. HIDE DEF p, x, y
    <3>1. (p * 0 + x) \div p = 0 /\ (p * 1 + x) \div p = 1
      BY <2>2, Quotient
    <3>2. p * 0 + x = x /\ p * 1 + x = x + p
      BY <2>2
    <3>3. CASE k - 1 \in S
      <4>1. y = p * 1 + x
        BY <2>2, <3>2, <3>3
      <4>2. y \div p = 1
        BY <3>1, <4>1
      <4>. QED  BY <3>3, <4>2
    <3>4. CASE k - 1 \notin S
      BY <2>2, <3>1, <3>2, <3>4
    <3>. QED  BY <3>3, <3>4
  <2>5. ASSUME NEW j \in 0 .. k - 2
        PROVE  (y \div Power[j]) % 2 = 1 <=> j \in S
    <3>. DEFINE d == Power[j]  q == x \div d  z == x % d
    <3>1. j \in 0 .. Width /\ j < k - 1
      OBVIOUS
    <3>2. d \in Nat \ {0}
      BY <3>1, Powers
    <3>3. PICK m \in Nat : p = d * (2 * m)
      BY <2>1, <3>1, Doubles
    <3>. HIDE DEF d, p, x, y
    <3>4. q \in Nat /\ z \in Nat /\ z < d /\ x = d * q + z
      BY <2>2, <3>2, Division
    <3>5. q % 2 = 1 <=> j \in S
      BY <2>2 DEF d
    <3>6. CASE k - 1 \in S
      <4>. HIDE DEF q, z
      <4>1. y = d * (q + 2 * m) + z
        <5>1. d * (q + 2 * m) = d * q + d * (2 * m)
          BY <3>2, <3>4
        <5>2. d * q \in Nat /\ d * (2 * m) \in Nat
          BY <3>2, <3>4
        <5>. QED  BY <2>2, <3>3, <3>4, <3>6, <5>1, <5>2
      <4>2. q + 2 * m \in Nat
        BY <3>4
      <4>3. y \div d = q + 2 * m
        BY <3>2, <3>4, <4>1, <4>2, Quotient
      <4>4. (q + 2 * m) % 2 = q % 2
        BY <3>4, Z3
      <4>. QED  BY <3>5, <4>3, <4>4 DEF d
    <3>7. CASE k - 1 \notin S
      BY <2>2, <3>5, <3>7 DEF d
    <3>. QED  BY <3>6, <3>7
  <2>6. \A j \in 0 .. k - 1 : j \in 0 .. k - 2 \/ j = k - 1
    OBVIOUS
  <2>. QED  BY <2>3, <2>4, <2>5, <2>6
<1>5. \A k \in 0 .. Width : k \in G
  <2>1. 0 \in G /\ \A k \in 1 .. Width : k - 1 \in G => k \in G
    <3>1. \A k \in 1 .. Width : k \in 0 .. Width
      OBVIOUS
    <3>. HIDE DEF Holds
    <3>. QED  BY <1>3, <1>4, <3>1
  <2>. HIDE DEF G
  <2>. QED  BY <2>1, Upwards
<1>6. Holds(Width)
  <2>. HIDE DEF Holds
  <2>. QED  BY <1>5
<1>7. Base = Power[Width] /\ r[Width] \in Nat
  BY CodecConstants
<1>8. ByteOf(S) \in Bytes
  BY <1>2, <1>6, <1>7, CodecConstants DEF Bytes
<1>9. BitsIn(ByteOf(S)) = S
  BY <1>2, <1>6 DEF BitsIn, Bits
<1>. QED  BY <1>8, <1>9

(* So a vector is read from its bytes. *)
LEMMA VectorIsRead ==
  ASSUME NEW v, IsVector(v)
  PROVE  BytesOf(v) \in Seq(Bytes) /\ Len(BytesOf(v)) = v.size /\ VectorFrom(BytesOf(v)) = v
<1>. DEFINE n == v.size  f == v.byte  s == BytesOf(v)
<1>1. n \in Nat /\ f \in [0 .. n - 1 -> SUBSET Bits] /\ v = [size |-> n, byte |-> f]
  BY DEF IsVector
<1>. HIDE DEF n, f
<1>2. s = [i \in 1 .. n |-> ByteOf(f[i - 1])]
  BY DEF BytesOf, n, f
<1>3. \A i \in 1 .. n : f[i - 1] \in SUBSET Bits
  BY <1>1
<1>. HIDE DEF s
<1>4. s \in Seq(Bytes) /\ Len(s) = n
  <2>1. s \in [1 .. n -> Bytes]
    BY <1>2, <1>3, ByteIsRead
  <2>. QED  BY <1>1, <2>1
<1>5. \A i \in 0 .. n - 1 : BitsIn(s[i + 1]) = f[i]
  <2>. SUFFICES ASSUME NEW i \in 0 .. n - 1 PROVE BitsIn(s[i + 1]) = f[i]
    OBVIOUS
  <2>1. i + 1 \in 1 .. n /\ (i + 1) - 1 = i /\ f[i] \in SUBSET Bits
    BY <1>1
  <2>2. s[i + 1] = ByteOf(f[i])
    BY <1>2, <2>1
  <2>. QED  BY <2>1, <2>2, ByteIsRead
<1>6. VectorFrom(s) = [size |-> n, byte |-> [i \in 0 .. n - 1 |-> f[i]]]
  BY <1>4, <1>5 DEF VectorFrom, Vector
<1>7. f = [i \in 0 .. n - 1 |-> f[i]]
  BY <1>1
<1>. QED  BY <1>1, <1>4, <1>6, <1>7 DEF s, n

-----------------------------------------------------------------------------
(* A vector is written piece by piece, from its end, and a code read likewise.*)
Packs == {"nulls", "bits", "rle"}
Chained(n, piece, to, f) ==
  \A i \in Nat \ {0} : f[i] = IF i > n THEN <<>> ELSE piece[i] \o f[to[i]]

LEMMA Backwards ==
  ASSUME NEW n \in Nat, NEW piece, NEW to, \A i \in 1 .. n : to[i] \in Nat /\ i < to[i]
  PROVE  \E f : Chained(n, piece, to, f)
<1>. DEFINE From(k) == {i \in Nat \ {0} : i > n - k}
            Body(f, i) == IF i > n THEN <<>> ELSE piece[i] \o f[to[i]]
            Some(k) == \E f : \A i \in From(k) : f[i] = Body(f, i)
            G == {k \in 0 .. n : Some(k)}
<1>1. Some(0)
  <2>. DEFINE f == [i \in From(0) |-> <<>>]
  <2>1. \A i \in From(0) : f[i] = Body(f, i)
    OBVIOUS
  <2>. HIDE DEF f, Body
  <2>. QED  BY <2>1
<1>2. ASSUME NEW k \in 1 .. n, Some(k - 1)
      PROVE  Some(k)
  <2>1. PICK f : \A i \in From(k - 1) : f[i] = Body(f, i)
    BY <1>2
  <2>. DEFINE a == n - k + 1
              h == [i \in From(k) |-> IF i = a THEN Body(f, a) ELSE f[i]]
  <2>2. a \in 1 .. n /\ \A i \in From(k) : i = a \/ i \in From(k - 1)
    OBVIOUS
  <2>3. ASSUME NEW i \in From(k)
        PROVE  h[i] = Body(h, i)
    <3>1. h[i] = Body(f, i)
      <4>. HIDE DEF Body
      <4>. QED  BY <2>1, <2>2
    <3>2. CASE i > n
      BY <3>1, <3>2
    <3>3. CASE ~(i > n)
      <4>1. i \in 1 .. n /\ a <= i
        BY <2>2, <3>3
      <4>2. to[i] \in Nat /\ i < to[i]
        BY <4>1
      <4>3. to[i] \in From(k) /\ to[i] # a
        BY <2>2, <4>1, <4>2
      <4>4. h[to[i]] = f[to[i]]
        BY <4>3
      <4>. QED  BY <3>1, <3>3, <4>4
    <3>. QED  BY <3>2, <3>3
  <2>. HIDE DEF h, Body
  <2>. QED  BY <2>3
<1>3. n \in G
  <2>1. 0 \in G /\ \A k \in 1 .. n : k - 1 \in G => k \in G
    <3>. HIDE DEF Some
    <3>. QED  BY <1>1, <1>2
  <2>2. \A k \in 0 .. n : k \in G
    <3>. HIDE DEF G
    <3>. QED  BY <2>1, Upwards
  <2>. QED  BY <2>2
<1>4. PICK f : \A i \in From(n) : f[i] = Body(f, i)
  BY <1>3
<1>5. \A i \in Nat \ {0} : i \in From(n)
  OBVIOUS
<1>6. Chained(n, piece, to, f)
  BY <1>4, <1>5 DEF Chained
<1>. QED  BY <1>6

LEMMA Slices ==
  ASSUME NEW B, NEW s \in Seq(B), NEW a \in Nat \ {0}, NEW n \in Nat, a + n <= Len(s) + 1
  PROVE  /\ SubSeq(s, a, a + n - 1) = [k \in 1 .. n |-> s[a + k - 1]]
         /\ SubSeq(s, a, a + n - 1) \in Seq(B) /\ Len(SubSeq(s, a, a + n - 1)) = n
<1>1. (a + n - 1) - a + 1 = n
  OBVIOUS
<1>2. \A k \in 1 .. n : a + k - 1 \in 1 .. Len(s)
  OBVIOUS
<1>3. \A k \in 1 .. n : s[a + k - 1] \in B
  BY <1>2
<1>4. SubSeq(s, a, a + n - 1) = [k \in 1 .. n |-> s[a + k - 1]]
  BY <1>1, <1>2
<1>. QED  BY <1>3, <1>4

(* What RunAt and StringAt find. *)
LEMMA RunFacts ==
  ASSUME NEW s \in Seq(Bytes), NEW i \in 1 .. Len(s)
  PROVE  LET n == RunAt(s, i)
         IN  /\ n \in Nat \ {0} /\ i + n <= Len(s) + 1 /\ s[i] \in Bytes
             /\ \A j \in i .. i + n - 1 : s[j] = s[i]
<1>. DEFINE L == Len(s)  D == {j \in i + 1 .. L + 1 : j > L \/ s[j] # s[i]}  l == Least(D)
<1>1. L \in Nat /\ L + 1 \in D
  OBVIOUS
<1>2. D \in SUBSET (0 .. (L + 2) - 1) /\ L + 2 \in Nat /\ D # {}
  BY <1>1
<1>3. l \in D /\ \A y \in D : l <= y
  <2>. HIDE DEF D
  <2>. QED  BY <1>2, LeastOf
<1>4. RunAt(s, i) = l - i
  BY DEF RunAt
<1>. HIDE DEF l
<1>5. l \in i + 1 .. L + 1
  BY <1>3
<1>6. ASSUME NEW j \in i .. l - 1
      PROVE  s[j] = s[i]
  <2>1. j # i => j \in i + 1 .. L + 1 /\ ~(l <= j)
    BY <1>5
  <2>2. j # i => j \notin D
    BY <1>3, <2>1
  <2>. QED  BY <2>1, <2>2
<1>7. i + (l - i) - 1 = l - 1
  BY <1>5
<1>. QED  BY <1>4, <1>5, <1>6, <1>7

LEMMA StringFacts ==
  ASSUME NEW alg \in Packs, NEW s \in Seq(Bytes), NEW i \in 1 .. Len(s)
  PROVE  LET n == StringAt(alg, s, i)
         IN  n \in 1 .. MaxString(alg) /\ i + n <= Len(s) + 1 /\ MaxString(alg) \in Nat
<1>. DEFINE L == Len(s)  M == MaxString(alg)
            D == {n \in 1 .. M : n = M \/ Ends(alg, s, i + n)}  l == Least(D)
<1>1. M \in Nat \ {0} /\ L \in Nat
  BY HalfBase DEF MaxString
<1>. HIDE DEF M
<1>2. D \in SUBSET (0 .. (M + 1) - 1) /\ M + 1 \in Nat /\ M \in D
  BY <1>1
<1>3. l \in D /\ \A y \in D : l <= y
  <2>. HIDE DEF D
  <2>. QED  BY <1>2, LeastOf
<1>4. StringAt(alg, s, i) = l
  BY DEF StringAt, M
<1>. HIDE DEF l
<1>5. l \in 1 .. M
  BY <1>3
<1>6. i + l <= L + 1
  <2>. SUFFICES ASSUME i + l > L + 1 PROVE FALSE
    BY <1>1, <1>5
  <2>. DEFINE e == L + 1 - i
  <2>1. e \in 1 .. M /\ e < l /\ i + e > L
    BY <1>1, <1>5
  <2>2. Ends(alg, s, i + e)
    BY <2>1 DEF Ends
  <2>3. e \in D
    <3>. HIDE DEF e
    <3>. QED  BY <2>1, <2>2
  <2>. QED  BY <1>3, <1>5, <2>1, <2>3
<1>. QED  BY <1>1, <1>4, <1>5, <1>6 DEF M

(* The piece that is written for the bytes from i on, and how many they are.  *)
Taken(alg, s, i) ==
  IF IsSingle(alg, s[i]) THEN 1
  ELSE IF IsRun(alg, s[i], RunAt(s, i)) THEN RunAt(s, i) ELSE StringAt(alg, s, i)
Piece(alg, s, i) ==
  IF IsSingle(alg, s[i]) THEN <<CHOOSE k \in Bits : s[i] = Power[k]>>
  ELSE IF IsRun(alg, s[i], RunAt(s, i)) THEN RunCode(alg, s[i], RunAt(s, i))
  ELSE <<StringHead(alg, StringAt(alg, s, i))>> \o SubSeq(s, i, i + StringAt(alg, s, i) - 1)

LEMMA TakenFacts ==
  ASSUME NEW alg \in Packs, NEW s \in Seq(Bytes), NEW i \in 1 .. Len(s)
  PROVE  Taken(alg, s, i) \in Nat \ {0} /\ i + Taken(alg, s, i) <= Len(s) + 1
BY RunFacts, StringFacts DEF Taken

Encoding(alg, s, f) ==
  /\ Encode(alg, s) = f[1] /\ f[Len(s) + 1] = <<>>
  /\ \A i \in 1 .. Len(s) : f[i] = Piece(alg, s, i) \o f[i + Taken(alg, s, i)]

LEMMA Encodes ==
  ASSUME NEW alg \in Packs, NEW s \in Seq(Bytes)
  PROVE  \E f : Encoding(alg, s, f)
<1>. DEFINE L == Len(s)
            Body(f, i) ==
              IF i > Len(s) THEN <<>>
              ELSE IF IsSingle(alg, s[i])
                   THEN <<CHOOSE k \in Bits : s[i] = Power[k]>> \o f[i + 1]
              ELSE LET n == RunAt(s, i)
                       m == StringAt(alg, s, i)
                   IN  IF IsRun(alg, s[i], n) THEN RunCode(alg, s[i], n) \o f[i + n]
                       ELSE <<StringHead(alg, m)>> \o SubSeq(s, i, i + m - 1) \o f[i + m]
            Is(f) == f = [i \in 1 .. Len(s) + 1 |-> Body(f, i)]
            h == CHOOSE f : Is(f)
<1>1. Encode(alg, s) = h[1]
  BY DEF Encode, Packs
<1>. HIDE DEF h
<1>2. \A f, i : Body(f, i) = IF i > L THEN <<>> ELSE Piece(alg, s, i) \o f[i + Taken(alg, s, i)]
  <2>. TAKE f, i
  <2>1. CASE i > L
    BY <2>1
  <2>2. CASE ~(i > L) /\ IsSingle(alg, s[i])
    BY <2>2 DEF Piece, Taken
  <2>3. CASE ~(i > L) /\ ~IsSingle(alg, s[i]) /\ IsRun(alg, s[i], RunAt(s, i))
    BY <2>3 DEF Piece, Taken
  <2>4. CASE ~(i > L) /\ ~IsSingle(alg, s[i]) /\ ~IsRun(alg, s[i], RunAt(s, i))
    BY <2>4 DEF Piece, Taken
  <2>. QED  BY <2>1, <2>2, <2>3, <2>4
<1>. HIDE DEF Body
<1>. DEFINE piece == [i \in 1 .. L |-> Piece(alg, s, i)]
            to == [i \in 1 .. L |-> i + Taken(alg, s, i)]
<1>3. L \in Nat /\ \A i \in 1 .. L : to[i] \in 1 .. L + 1 /\ i < to[i]
  BY TakenFacts
<1>4. PICK f : Chained(L, piece, to, f)
  <2>1. L \in Nat /\ \A i \in 1 .. L : to[i] \in Nat /\ i < to[i]
    <3>1. \A j \in 1 .. L + 1 : j \in Nat
      BY <1>3
    <3>. HIDE DEF piece, to, L
    <3>. QED  BY <1>3, <3>1
  <2>. HIDE DEF piece, to, L
  <2>. QED  BY <2>1, Backwards
<1>. DEFINE g == [i \in 1 .. L + 1 |-> f[i]]
<1>5. ASSUME NEW i \in 1 .. L + 1
      PROVE  g[i] = Body(g, i)
  <2>1. f[i] = IF i > L THEN <<>> ELSE piece[i] \o f[to[i]]
    <3>1. i \in Nat \ {0}
      BY <1>3
    <3>. HIDE DEF piece, to, L
    <3>. QED  BY <1>4, <3>1 DEF Chained
  <2>2. CASE i > L
    BY <1>2, <2>1, <2>2
  <2>3. CASE ~(i > L)
    <3>1. i \in 1 .. L /\ to[i] \in 1 .. L + 1
      BY <1>3, <2>3
    <3>2. piece[i] = Piece(alg, s, i) /\ to[i] = i + Taken(alg, s, i)
      BY <3>1
    <3>3. g[to[i]] = f[to[i]]
      BY <3>1
    <3>. HIDE DEF piece, to
    <3>. QED  BY <1>2, <2>1, <2>3, <3>2, <3>3
  <2>. QED  BY <2>2, <2>3
<1>6. Is(g)
  <2>1. g = [i \in 1 .. L + 1 |-> g[i]]
    OBVIOUS
  <2>. HIDE DEF g
  <2>. QED  BY <1>5, <2>1
<1>7. Is(h)
  <2>. HIDE DEF Is, g
  <2>. QED  BY <1>6 DEF h
<1>8. h[L + 1] = <<>> /\ \A i \in 1 .. L : h[i] = Piece(alg, s, i) \o h[i + Taken(alg, s, i)]
  <2>1. \A i \in 1 .. L + 1 : h[i] = Body(h, i)
    BY <1>7
  <2>2. L + 1 \in 1 .. L + 1 /\ L + 1 > L
    BY <1>3
  <2>3. \A i \in 1 .. L : i \in 1 .. L + 1 /\ ~(i > L)
    BY <1>3
  <2>. HIDE DEF L
  <2>4. h[L + 1] = <<>>
    <3>1. h[L + 1] = Body(h, L + 1)
      BY <2>1, <2>2
    <3>. QED  BY <1>2, <2>2, <3>1
  <2>5. ASSUME NEW i \in 1 .. L
        PROVE  h[i] = Piece(alg, s, i) \o h[i + Taken(alg, s, i)]
    <3>1. h[i] = Body(h, i)
      BY <2>1, <2>3
    <3>. QED  BY <1>2, <2>3, <3>1
  <2>. QED  BY <2>4, <2>5
<1>. QED  BY <1>1, <1>8 DEF Encoding

LEMMA ReadsOn ==
  ASSUME NEW alg \in Packs, NEW c \in Seq(Bytes), NEW i \in 1 .. Len(c)
  PROVE  Read(alg, c, i).next \in Nat /\ i < Read(alg, c, i).next
<1>1. c[i] \in Nat /\ i \in Nat /\ Half \in Nat /\ Width \in Nat /\ Width < Half
  BY HalfBase DEF Bytes
<1>2. \A b, n, k : Run(b, n, k).next = k
  BY DEF Run
<1>3. \A n : String(c, i, n).next = i + 1 + n
  BY DEF String
<1>4. NullsRead(c, i).next \in Nat /\ i < NullsRead(c, i).next
  <2>1. CASE c[i] = 0 /\ c[i + 1] = 0
    <3>1. NullsRead(c, i) = Run(c[i + 4], Long(c, i + 2), i + 5)
      BY <1>1, HalfBase, <2>1 DEF NullsRead
    <3>. QED  BY <1>1, <1>2, <1>3, <2>1, <3>1
  <2>2. CASE c[i] = 0 /\ c[i + 1] # 0
    <3>1. NullsRead(c, i) = Run(c[i + 2], c[i + 1], i + 3)
      BY <1>1, HalfBase, <2>2 DEF NullsRead
    <3>. QED  BY <1>1, <1>2, <1>3, <2>2, <3>1
  <2>3. CASE c[i] # 0 /\ c[i] < Half
    <3>1. NullsRead(c, i) = String(c, i, c[i])
      BY <1>1, HalfBase, <2>3 DEF NullsRead
    <3>. QED  BY <1>1, <1>2, <1>3, <2>3, <3>1
  <2>4. CASE c[i] = Half
    <3>1. NullsRead(c, i) = Run(0, Long(c, i + 1), i + 3)
      BY <1>1, HalfBase, <2>4 DEF NullsRead
    <3>. QED  BY <1>1, <1>2, <1>3, <2>4, <3>1
  <2>5. CASE c[i] = Half + 1
    <3>1. NullsRead(c, i) = Run(0, c[i + 1], i + 2)
      BY <1>1, HalfBase, <2>5 DEF NullsRead
    <3>. QED  BY <1>1, <1>2, <1>3, <2>5, <3>1
  <2>6. CASE c[i] > Half + 1
    <3>1. NullsRead(c, i) = Run(0, c[i] - Half, i + 1)
      BY <1>1, HalfBase, <2>6 DEF NullsRead
    <3>. QED  BY <1>1, <1>2, <1>3, <2>6, <3>1
  <2>. QED  BY <1>1, <2>1, <2>2, <2>3, <2>4, <2>5, <2>6
<1>5. BitsRead(c, i).next \in Nat /\ i < BitsRead(c, i).next
  <2>1. CASE c[i] < Width
    <3>1. BitsRead(c, i) = [out |-> <<Power[c[i]]>>, next |-> i + 1]
      BY <1>1, HalfBase, <2>1 DEF BitsRead
    <3>. QED  BY <1>1, <1>2, <1>3, <2>1, <3>1
  <2>2. CASE Width <= c[i] /\ c[i] < Half
    <3>1. BitsRead(c, i) = String(c, i, c[i] - (Width - 1))
      BY <1>1, HalfBase, <2>2 DEF BitsRead
    <3>. QED  BY <1>1, <1>2, <1>3, <2>2, <3>1
  <2>3. CASE c[i] = Half
    <3>1. BitsRead(c, i) = Run(0, Long(c, i + 1), i + 3)
      BY <1>1, HalfBase, <2>3 DEF BitsRead
    <3>. QED  BY <1>1, <1>2, <1>3, <2>3, <3>1
  <2>4. CASE c[i] = Half + 1 /\ c[i + 1] = Base - 2
    <3>1. BitsRead(c, i) = Run(c[i + 3], c[i + 2], i + 4)
      BY <1>1, HalfBase, <2>4 DEF BitsRead
    <3>. QED  BY <1>1, <1>2, <1>3, <2>4, <3>1
  <2>5. CASE c[i] = Half + 1 /\ c[i + 1] = Base - 1
    <3>1. BitsRead(c, i) = Run(c[i + 4], Long(c, i + 2), i + 5)
      BY <1>1, HalfBase, <2>5 DEF BitsRead
    <3>. QED  BY <1>1, <1>2, <1>3, <2>5, <3>1
  <2>6. CASE c[i] = Half + 1 /\ c[i + 1] \notin {Base - 2, Base - 1}
    <3>1. BitsRead(c, i) = Run(0, c[i + 1] + (Half - 1), i + 2)
      BY <1>1, HalfBase, <2>6 DEF BitsRead
    <3>. QED  BY <1>1, <1>2, <1>3, <2>6, <3>1
  <2>7. CASE c[i] > Half + 1
    <3>1. BitsRead(c, i) = Run(0, c[i] - 1 - Half, i + 1)
      BY <1>1, HalfBase, <2>7 DEF BitsRead
    <3>. QED  BY <1>1, <1>2, <1>3, <2>7, <3>1
  <2>. QED  BY <1>1, <2>1, <2>2, <2>3, <2>4, <2>5, <2>6, <2>7
<1>6. RleRead(c, i).next \in Nat /\ i < RleRead(c, i).next
  <2>1. CASE c[i] = 0
    <3>1. RleRead(c, i) = Run(0, c[i + 1], i + 2)
      BY <1>1, HalfBase, <2>1 DEF RleRead
    <3>. QED  BY <1>1, <1>2, <1>3, <2>1, <3>1
  <2>2. CASE c[i] # 0 /\ c[i] < Half
    <3>1. RleRead(c, i) = String(c, i, c[i])
      BY <1>1, HalfBase, <2>2 DEF RleRead
    <3>. QED  BY <1>1, <1>2, <1>3, <2>2, <3>1
  <2>3. CASE c[i] = Half
    <3>1. RleRead(c, i) = Run(c[i + 2], c[i + 1], i + 3)
      BY <1>1, HalfBase, <2>3 DEF RleRead
    <3>. QED  BY <1>1, <1>2, <1>3, <2>3, <3>1
  <2>4. CASE c[i] = Half + 1
    <3>1. RleRead(c, i) = Run(c[i + 3], Long(c, i + 1), i + 4)
      BY <1>1, HalfBase, <2>4 DEF RleRead
    <3>. QED  BY <1>1, <1>2, <1>3, <2>4, <3>1
  <2>5. CASE c[i] = Half + 2
    <3>1. RleRead(c, i) = Run(Space, c[i + 1], i + 2)
      BY <1>1, HalfBase, <2>5 DEF RleRead
    <3>. QED  BY <1>1, <1>2, <1>3, <2>5, <3>1
  <2>6. CASE c[i] > Half + 2
    <3>1. RleRead(c, i) = Run(c[i + 1], c[i] - Half, i + 2)
      BY <1>1, HalfBase, <2>6 DEF RleRead
    <3>. QED  BY <1>1, <1>2, <1>3, <2>6, <3>1
  <2>. QED  BY <1>1, <2>1, <2>2, <2>3, <2>4, <2>5, <2>6
<1>. QED  BY <1>4, <1>5, <1>6 DEF Read, Packs

Decoding(alg, c, r) ==
  /\ Decode(alg, c) = r[1]
  /\ \A i \in Nat \ {0} :
       r[i] = IF i > Len(c) THEN <<>> ELSE Read(alg, c, i).out \o r[Read(alg, c, i).next]

LEMMA Decodes ==
  ASSUME NEW alg \in Packs, NEW c \in Seq(Bytes)
  PROVE  \E r : Decoding(alg, c, r)
<1>. DEFINE n == Len(c)
            Body(f, i) == IF i > Len(c) THEN <<>> ELSE LET r == Read(alg, c, i) IN r.out \o f[r.next]
            Is(f) == f = [i \in Nat \ {0} |-> Body(f, i)]
            h == CHOOSE f : Is(f)
<1>1. Decode(alg, c) = h[1]
  BY DEF Decode, Packs
<1>. HIDE DEF h
<1>2. \A f, i : Body(f, i) = IF i > n THEN <<>> ELSE Read(alg, c, i).out \o f[Read(alg, c, i).next]
  OBVIOUS
<1>. HIDE DEF Body
<1>. DEFINE piece == [i \in 1 .. n |-> Read(alg, c, i).out]
            to == [i \in 1 .. n |-> Read(alg, c, i).next]
<1>3. n \in Nat /\ \A i \in 1 .. n : to[i] \in Nat /\ i < to[i]
  BY ReadsOn
<1>4. PICK f : Chained(n, piece, to, f)
  <2>. HIDE DEF piece, to, n
  <2>. QED  BY <1>3, Backwards
<1>. DEFINE g == [i \in Nat \ {0} |-> f[i]]
<1>5. ASSUME NEW i \in Nat \ {0}
      PROVE  g[i] = Body(g, i)
  <2>1. f[i] = IF i > n THEN <<>> ELSE piece[i] \o f[to[i]]
    <3>. HIDE DEF piece, to, n
    <3>. QED  BY <1>4 DEF Chained
  <2>2. CASE i > n
    BY <1>2, <2>1, <2>2
  <2>3. CASE ~(i > n)
    <3>1. i \in 1 .. n
      BY <1>3, <2>3
    <3>2. to[i] \in Nat \ {0}
      <4>. HIDE DEF to, n
      <4>. QED  BY <1>3, <3>1
    <3>3. piece[i] = Read(alg, c, i).out /\ to[i] = Read(alg, c, i).next
      BY <3>1
    <3>4. g[to[i]] = f[to[i]] /\ g[i] = f[i]
      BY <3>2
    <3>. HIDE DEF piece, to, g, n
    <3>. QED  BY <1>2, <2>1, <2>3, <3>3, <3>4
  <2>. QED  BY <2>2, <2>3
<1>6. Is(g)
  <2>1. g = [i \in Nat \ {0} |-> g[i]]
    OBVIOUS
  <2>. HIDE DEF g
  <2>. QED  BY <1>5, <2>1
<1>7. Is(h)
  <2>. HIDE DEF Is, g
  <2>. QED  BY <1>6 DEF h
<1>8. ASSUME NEW i \in Nat \ {0}
      PROVE  h[i] = IF i > n THEN <<>> ELSE Read(alg, c, i).out \o h[Read(alg, c, i).next]
  <2>1. h[i] = Body(h, i)
    BY <1>7
  <2>. HIDE DEF n
  <2>. QED  BY <1>2, <2>1
<1>. QED  BY <1>1, <1>8 DEF Decoding

-----------------------------------------------------------------------------
(* A piece is read where it stands.                                           *)
LEMMA SomeCode ==
  ASSUME NEW alg, NEW b, NEW n
  PROVE  RunCode(alg, b, n) # <<>>
<1>1. NullsRun(b, n) # <<>>
  BY DEF NullsRun
<1>2. BitsRun(b, n) # <<>>
  BY DEF BitsRun
<1>3. RleRun(b, n) # <<>>
  BY DEF RleRun
<1>. QED  BY <1>1, <1>2, <1>3 DEF RunCode

LEMMA RunIsRead ==
  ASSUME NEW alg \in Packs, NEW c, NEW i \in Nat, NEW b \in Bytes, NEW n \in Nat \ {0},
         n < Base * Base, IsRun(alg, b, n), At(RunCode(alg, b, n), c, i)
  PROVE  /\ RunCode(alg, b, n) \in Seq(Bytes)
         /\ Read(alg, c, i) = Run(b, n, i + Len(RunCode(alg, b, n)))
<1>1. CASE alg = "nulls"
  <2>1. RunCode(alg, b, n) = NullsRun(b, n) /\ Read(alg, c, i) = NullsRead(c, i)
    BY <1>1 DEF RunCode, Read
  <2>. QED  BY <1>1, <2>1, NullsRunIsRead
<1>2. CASE alg = "bits"
  <2>1. RunCode(alg, b, n) = BitsRun(b, n) /\ Read(alg, c, i) = BitsRead(c, i)
    BY <1>2 DEF RunCode, Read
  <2>. QED  BY <1>2, <2>1, BitsRunIsRead
<1>3. CASE alg = "rle"
  <2>1. RunCode(alg, b, n) = RleRun(b, n) /\ Read(alg, c, i) = RleRead(c, i)
    BY <1>3 DEF RunCode, Read
  <2>. QED  BY <1>3, <2>1, RleRunIsRead
<1>. QED  BY <1>1, <1>2, <1>3 DEF Packs

LEMMA StringIsRead ==
  ASSUME NEW alg \in Packs, NEW c, NEW i \in Nat, NEW n \in 1 .. MaxString(alg),
         c[i] = StringHead(alg, n)
  PROVE  StringHead(alg, n) \in Bytes /\ Read(alg, c, i) = String(c, i, n)
<1>. USE HalfBase
<1>0. Width \in Nat \ {0}
  BY BitConstants
<1>1. CASE alg = "nulls"
  <2>1. c[i] = n /\ n \in Nat /\ n # 0 /\ n < Half /\ StringHead(alg, n) = n
    BY <1>1 DEF MaxString, StringHead
  <2>. QED  BY <1>1, <2>1 DEF Read, NullsRead, Bytes
<1>2. CASE alg = "rle"
  <2>1. c[i] = n /\ n \in Nat /\ n # 0 /\ n < Half /\ StringHead(alg, n) = n
    BY <1>2 DEF MaxString, StringHead
  <2>. QED  BY <1>2, <2>1 DEF Read, RleRead, Bytes
<1>3. CASE alg = "bits"
  <2>1. /\ c[i] = n + Width - 1 /\ n \in Nat /\ n # 0 /\ c[i] < Half /\ ~(c[i] < Width)
        /\ StringHead(alg, n) = n + Width - 1
    BY <1>0, <1>3 DEF MaxString, StringHead
  <2>2. c[i] - (Width - 1) = n /\ c[i] \in Bytes
    BY <1>0, <2>1 DEF Bytes
  <2>. QED  BY <1>3, <2>1, <2>2 DEF Read, BitsRead
<1>. QED  BY <1>1, <1>2, <1>3 DEF Packs

LEMMA PieceIsRead ==
  ASSUME NEW alg \in Packs, NEW s \in Seq(Bytes), Len(s) < Base * Base, NEW i \in 1 .. Len(s),
         NEW c \in Seq(Bytes), NEW at \in Nat \ {0},
         at + Len(Piece(alg, s, i)) <= Len(c) + 1, At(Piece(alg, s, i), c, at)
  PROVE  Read(alg, c, at) = [out  |-> [k \in 1 .. Taken(alg, s, i) |-> s[i + k - 1]],
                             next |-> at + Len(Piece(alg, s, i))]
<1>. DEFINE b == s[i]  p == Piece(alg, s, i)  n == Taken(alg, s, i)
            r == RunAt(s, i)  m == StringAt(alg, s, i)
<1>1. CASE IsSingle(alg, b)
  <2>. DEFINE k == CHOOSE k \in Bits : b = Power[k]
  <2>1. alg = "bits" /\ k \in Bits /\ b = Power[k]
    BY <1>1 DEF IsSingle, Singles
  <2>. HIDE DEF k
  <2>2. p = <<k>> /\ n = 1
    BY <1>1 DEF Piece, Taken, k
  <2>3. c[at] = k /\ k < Width /\ Len(p) = 1
    <3>1. At(<<k>>, c, at)
      BY <2>2
    <3>2. c[at + 1 - 1] = k
      BY <3>1 DEF At
    <3>. QED  BY <2>1, <2>2, <3>2 DEF Bits
  <2>4. Read(alg, c, at) = [out |-> <<b>>, next |-> at + 1]
    BY <2>1, <2>3 DEF Read, BitsRead
  <2>5. [j \in 1 .. 1 |-> s[i + j - 1]] = <<b>>
    OBVIOUS
  <2>. QED  BY <2>2, <2>3, <2>4, <2>5
<1>2. CASE ~IsSingle(alg, b) /\ IsRun(alg, b, r)
  <2>1. p = RunCode(alg, b, r) /\ n = r
    BY <1>2 DEF Piece, Taken
  <2>2. r \in Nat \ {0} /\ i + r <= Len(s) + 1 /\ b \in Bytes /\ \A j \in i .. i + r - 1 : s[j] = b
    BY RunFacts
  <2>3. r < Base * Base
    <3>1. Base * Base \in Nat
      BY CodecConstants
    <3>. HIDE DEF r
    <3>. QED  BY <2>2, <3>1
  <2>4. Read(alg, c, at) = Run(b, r, at + Len(p))
    <3>1. At(RunCode(alg, b, r), c, at) /\ at \in Nat
      BY <2>1
    <3>2. IsRun(alg, b, r) /\ r \in Nat \ {0} /\ b \in Bytes
      BY <1>2, <2>2
    <3>. HIDE DEF r, b
    <3>3. Read(alg, c, at) = Run(b, r, at + Len(RunCode(alg, b, r)))
      BY <2>3, <3>1, <3>2, RunIsRead
    <3>. QED  BY <2>1, <3>3
  <2>5. [k \in 1 .. r |-> s[i + k - 1]] = [k \in 1 .. r |-> b]
    <3>1. \A k \in 1 .. r : i + k - 1 \in i .. i + r - 1
      BY <2>2
    <3>. HIDE DEF r, b
    <3>. QED  BY <2>2, <3>1
  <2>. QED  BY <2>1, <2>4, <2>5 DEF Run
<1>3. CASE ~IsSingle(alg, b) /\ ~IsRun(alg, b, r)
  <2>. DEFINE h == StringHead(alg, m)  q == SubSeq(s, i, i + m - 1)
  <2>1. p = <<h>> \o q /\ n = m
    BY <1>3 DEF Piece, Taken
  <2>2. m \in 1 .. MaxString(alg) /\ m \in Nat /\ i + m <= Len(s) + 1
    BY StringFacts
  <2>. HIDE DEF m
  <2>3. q = [k \in 1 .. m |-> s[i + k - 1]] /\ q \in Seq(Bytes) /\ Len(q) = m
    BY <2>2, Slices
  <2>. HIDE DEF q, h
  <2>4. Len(p) = m + 1 /\ p[1] = h /\ \A k \in 1 .. m : p[k + 1] = q[k]
    BY <2>1, <2>2, <2>3
  <2>. HIDE DEF p
  <2>5. c[at] = h /\ \A k \in 1 .. m : c[(at + 1) + k - 1] = q[k]
    <3>1. At(p, c, at)
      BY DEF p
    <3>2. \A k \in 1 .. m + 1 : c[at + k - 1] = p[k]
      BY <2>4, <3>1 DEF At
    <3>3. 1 \in 1 .. m + 1 /\ at + 1 - 1 = at
      BY <2>2
    <3>4. \A k \in 1 .. m : k + 1 \in 1 .. m + 1 /\ at + (k + 1) - 1 = (at + 1) + k - 1
      BY <2>2
    <3>5. c[at] = h
      BY <2>4, <3>2, <3>3
    <3>6. ASSUME NEW k \in 1 .. m
          PROVE  c[(at + 1) + k - 1] = q[k]
      BY <2>4, <3>2, <3>4
    <3>. QED  BY <3>5, <3>6
  <2>6. Read(alg, c, at) = String(c, at, m)
    BY <2>2, <2>5, StringIsRead DEF h
  <2>7. SubSeq(c, at + 1, (at + 1) + m - 1) = [k \in 1 .. m |-> c[(at + 1) + k - 1]]
    <3>1. at + 1 \in Nat \ {0} /\ (at + 1) + m <= Len(c) + 1
      BY <2>2, <2>4 DEF p
    <3>. QED  BY <2>2, <3>1, Slices
  <2>8. String(c, at, m).out = q
    <3>1. (at + 1) + m - 1 = at + m
      BY <2>2
    <3>2. q = [k \in 1 .. m |-> q[k]]
      BY <2>3
    <3>. QED  BY <2>5, <2>7, <3>1, <3>2 DEF String
  <2>9. String(c, at, m) = [out |-> q, next |-> at + Len(p)]
    <3>1. at + 1 + m = at + Len(p)
      BY <2>2, <2>4
    <3>. QED  BY <2>8, <3>1 DEF String
  <2>. QED  BY <2>1, <2>3, <2>6, <2>9 DEF p
<1>. QED  BY <1>1, <1>2, <1>3

LEMMA PieceOfBytes ==
  ASSUME NEW alg \in Packs, NEW s \in Seq(Bytes), Len(s) < Base * Base, NEW i \in 1 .. Len(s)
  PROVE  Piece(alg, s, i) \in Seq(Bytes) /\ Len(Piece(alg, s, i)) \in Nat \ {0}
<1>. DEFINE b == s[i]  p == Piece(alg, s, i)  r == RunAt(s, i)  m == StringAt(alg, s, i)
<1>1. CASE IsSingle(alg, b)
  <2>. DEFINE k == CHOOSE k \in Bits : b = Power[k]
  <2>1. k \in Bits
    BY <1>1 DEF IsSingle, Singles
  <2>. HIDE DEF k
  <2>2. p = <<k>>
    BY <1>1 DEF Piece, k
  <2>3. k \in Bytes
    BY <2>1, HalfBase DEF Bits, Bytes
  <2>. QED  BY <2>2, <2>3
<1>2. CASE ~IsSingle(alg, b) /\ IsRun(alg, b, r)
  <2>1. p = RunCode(alg, b, r)
    BY <1>2 DEF Piece
  <2>2. r \in Nat \ {0} /\ i + r <= Len(s) + 1 /\ b \in Bytes
    BY RunFacts
  <2>3. r < Base * Base
    <3>1. Base * Base \in Nat
      BY CodecConstants
    <3>. HIDE DEF r
    <3>. QED  BY <2>2, <3>1
  <2>. DEFINE q == RunCode(alg, b, r)
  <2>4. At(q, [k \in Int |-> q[k]], 1)
    <3>1. \A k \in 1 .. Len(q) : 1 + k - 1 \in Int /\ 1 + k - 1 = k
      OBVIOUS
    <3>. HIDE DEF q
    <3>. QED  BY <3>1 DEF At
  <2>5. q \in Seq(Bytes)
    <3>. HIDE DEF r, b
    <3>. QED  BY <1>2, <2>2, <2>3, <2>4, RunIsRead
  <2>6. q # <<>>
    BY SomeCode
  <2>. HIDE DEF q
  <2>7. Len(q) \in Nat \ {0}
    BY <2>5, <2>6
  <2>. QED  BY <2>1, <2>5, <2>7 DEF q
<1>3. CASE ~IsSingle(alg, b) /\ ~IsRun(alg, b, r)
  <2>. DEFINE h == StringHead(alg, m)  q == SubSeq(s, i, i + m - 1)
  <2>1. p = <<h>> \o q
    BY <1>3 DEF Piece
  <2>2. m \in 1 .. MaxString(alg) /\ m \in Nat /\ i + m <= Len(s) + 1
    BY StringFacts
  <2>. HIDE DEF m
  <2>3. q \in Seq(Bytes) /\ Len(q) = m
    BY <2>2, Slices
  <2>4. h \in Bytes
    <3>. DEFINE c == [k \in {0} |-> h]
    <3>1. c[0] = h /\ 0 \in Nat
      OBVIOUS
    <3>. HIDE DEF c
    <3>. QED  BY <2>2, <3>1, StringIsRead DEF h
  <2>. HIDE DEF q, h
  <2>. QED  BY <2>1, <2>2, <2>3, <2>4
<1>. QED  BY <1>1, <1>2, <1>3

-----------------------------------------------------------------------------
(* What is left of a code from a position on.                                 *)
Remains(c, a, t) == Len(c) = a - 1 + Len(t) /\ \A k \in 1 .. Len(t) : c[a + k - 1] = t[k]

LEMMA RemainsSplit ==
  ASSUME NEW c \in Seq(Bytes), NEW p \in Seq(Bytes), NEW t \in Seq(Bytes), NEW a \in Nat \ {0},
         Remains(c, a, p \o t)
  PROVE  /\ At(p, c, a) /\ a + Len(p) <= Len(c) + 1
         /\ Remains(c, a + Len(p), t)
<1>. DEFINE n == Len(p)  m == Len(t)  q == p \o t
<1>1. /\ n \in Nat /\ m \in Nat /\ Len(q) = n + m
      /\ \A k \in 1 .. n : q[k] = p[k]
      /\ \A k \in 1 .. m : q[n + k] = t[k]
  OBVIOUS
<1>2. Len(c) = a - 1 + Len(q) /\ \A k \in 1 .. Len(q) : c[a + k - 1] = q[k]
  BY DEF Remains
<1>. HIDE DEF q, n, m
<1>3. At(p, c, a)
  <2>1. \A k \in 1 .. n : k \in 1 .. n + m
    BY <1>1
  <2>. QED  BY <1>1, <1>2, <2>1 DEF At, n
<1>4. a + n <= Len(c) + 1 /\ Len(c) = (a + n) - 1 + m
  BY <1>1, <1>2
<1>5. ASSUME NEW k \in 1 .. m
      PROVE  c[(a + n) + k - 1] = t[k]
  <2>1. n + k \in 1 .. n + m /\ (a + n) + k - 1 = a + (n + k) - 1
    BY <1>1
  <2>. QED  BY <1>1, <1>2, <2>1
<1>. QED  BY <1>3, <1>4, <1>5 DEF Remains, n, m

(* Whatever a codec writes, it reads: the vectors of bytes are exact up to    *)
(* the lengths that two bytes hold. This is expand_nulls, expand_bits and     *)
(* expand_rle after compress_nulls, compress_bits and compress_rle.           *)
THEOREM CodeIsRead ==
  ASSUME NEW alg \in {"none"} \cup Packs, NEW s \in Seq(Bytes), Len(s) < Base * Base
  PROVE  /\ Encode(alg, s) \in Seq(Bytes)
         /\ Decode(alg, Encode(alg, s)) = s
         /\ Encode(alg, s) = <<>> <=> s = <<>>
<1>1. CASE alg = "none"
  BY <1>1 DEF Encode, Decode
<1>2. CASE alg \in Packs
  <2>1. PICK f : Encoding(alg, s, f)
    BY <1>2, Encodes
  <2>. DEFINE L == Len(s)
              P(i) == Piece(alg, s, i)
              n(i) == Taken(alg, s, i)
              Rest(i) == [k \in 1 .. L + 1 - i |-> s[i + k - 1]]
  <2>2. /\ Encode(alg, s) = f[1] /\ f[L + 1] = <<>>
        /\ \A i \in 1 .. L : f[i] = P(i) \o f[i + n(i)]
    BY <2>1 DEF Encoding
  <2>3. /\ L \in Nat
        /\ \A i \in 1 .. L : n(i) \in Nat \ {0} /\ i + n(i) <= L + 1
        /\ \A i \in 1 .. L : P(i) \in Seq(Bytes) /\ Len(P(i)) \in Nat \ {0}
    BY <1>2, TakenFacts, PieceOfBytes
  <2>. DEFINE G == {d \in 0 .. L : \A i \in L + 1 - d .. L + 1 : f[i] \in Seq(Bytes)}
  <2>4. \A i \in 1 .. L + 1 : f[i] \in Seq(Bytes)
    <3>. HIDE DEF P, n, L
    <3>1. 0 \in G
      <4>1. 0 \in 0 .. L /\ \A i \in L + 1 - 0 .. L + 1 : i = L + 1
        BY <2>3
      <4>2. f[L + 1] \in Seq(Bytes)
        <5>1. <<>> \in Seq(Bytes)
          OBVIOUS
        <5>. QED  BY <2>2, <5>1
      <4>. QED  BY <4>1, <4>2
    <3>2. ASSUME NEW d \in 1 .. L, d - 1 \in G
          PROVE  d \in G
      <4>. DEFINE j == L + 1 - d
      <4>1. j \in 1 .. L /\ \A i \in j .. L + 1 : i = j \/ i \in L + 1 - (d - 1) .. L + 1
        BY <2>3
      <4>2. \A i \in L + 1 - (d - 1) .. L + 1 : f[i] \in Seq(Bytes)
        BY <3>2
      <4>3. j + n(j) \in L + 1 - (d - 1) .. L + 1
        BY <2>3, <4>1
      <4>4. P(j) \in Seq(Bytes) /\ f[j + n(j)] \in Seq(Bytes) /\ f[j] = P(j) \o f[j + n(j)]
        BY <2>2, <2>3, <4>1, <4>2, <4>3
      <4>5. f[j] \in Seq(Bytes)
        BY <4>4
      <4>6. d \in 0 .. L
        BY <2>3
      <4>. HIDE DEF j
      <4>7. \A i \in j .. L + 1 : f[i] \in Seq(Bytes)
        BY <4>1, <4>2, <4>5
      <4>. QED  BY <4>6, <4>7 DEF j
    <3>3. \A d \in 0 .. L : d \in G
      <4>. HIDE DEF G
      <4>. QED  BY <2>3, <3>1, <3>2, Upwards
    <3>4. L \in 0 .. L /\ L + 1 - L = 1
      BY <2>3
    <3>5. L \in G
      <4>. HIDE DEF G
      <4>. QED  BY <3>3, <3>4
    <3>6. \A i \in L + 1 - L .. L + 1 : f[i] \in Seq(Bytes)
      BY <3>5
    <3>. QED  BY <3>4, <3>6
  <2>. DEFINE c == f[1]
  <2>5. c \in Seq(Bytes)
    <3>1. 1 \in 1 .. L + 1
      BY <2>3
    <3>. HIDE DEF L
    <3>. QED  BY <2>4, <3>1
  <2>6. PICK r : Decoding(alg, c, r)
    <3>. HIDE DEF c
    <3>. QED  BY <1>2, <2>5, Decodes
  <2>. HIDE DEF c
  <2>7. /\ Decode(alg, c) = r[1]
        /\ \A i \in Nat \ {0} :
             r[i] = IF i > Len(c) THEN <<>> ELSE Read(alg, c, i).out \o r[Read(alg, c, i).next]
    BY <2>6 DEF Decoding
  <2>. DEFINE Right(i) == \A a \in Nat \ {0} : Remains(c, a, f[i]) => r[a] = Rest(i)
              H == {d \in 0 .. L : \A i \in L + 1 - d .. L + 1 : Right(i)}
  <2>8. Right(L + 1)
    <3>. SUFFICES ASSUME NEW a \in Nat \ {0}, Remains(c, a, f[L + 1]) PROVE r[a] = Rest(L + 1)
      OBVIOUS
    <3>1. Len(c) = a - 1
      BY <2>2 DEF Remains
    <3>2. r[a] = <<>>
      BY <2>7, <3>1
    <3>3. Rest(L + 1) = <<>>
      BY <2>3
    <3>. QED  BY <3>2, <3>3
  <2>9. ASSUME NEW i \in 1 .. L, Right(i + n(i))
        PROVE  Right(i)
    <3>. SUFFICES ASSUME NEW a \in Nat \ {0}, Remains(c, a, f[i]) PROVE r[a] = Rest(i)
      OBVIOUS
    <3>. DEFINE p == P(i)  m == n(i)  t == f[i + n(i)]  b == a + Len(p)
    <3>1. p \in Seq(Bytes) /\ Len(p) \in Nat \ {0} /\ m \in Nat \ {0} /\ i + m \in 1 .. L + 1
      BY <2>3
    <3>2. t \in Seq(Bytes)
      <4>. HIDE DEF L, n
      <4>. QED  BY <2>4, <3>1
    <3>3. Remains(c, a, p \o t)
      BY <2>2
    <3>. HIDE DEF p, t
    <3>4. At(p, c, a) /\ a + Len(p) <= Len(c) + 1 /\ Remains(c, b, t)
      BY <2>5, <3>1, <3>2, <3>3, RemainsSplit
    <3>5. Read(alg, c, a) = [out |-> [k \in 1 .. m |-> s[i + k - 1]], next |-> b]
      BY <1>2, <2>5, <3>4, PieceIsRead DEF p
    <3>6. b \in Nat \ {0} /\ a <= Len(c)
      BY <2>5, <3>1, <3>4
    <3>7. r[b] = Rest(i + m)
      <4>. HIDE DEF b, Rest
      <4>. QED  BY <2>9, <3>4, <3>6 DEF t
    <3>. DEFINE o == [k \in 1 .. m |-> s[i + k - 1]]
    <3>8. r[a] = o \o Rest(i + m)
      <4>1. ~(a > Len(c))
        BY <2>5, <3>6
      <4>2. Read(alg, c, a).out = o /\ Read(alg, c, a).next = b
        BY <3>5
      <4>. HIDE DEF o, b, Rest
      <4>. QED  BY <2>7, <3>7, <4>1, <4>2
    <3>9. o \o Rest(i + m) = Rest(i)
      <4>. HIDE DEF n
      <4>1. \A k \in 1 .. m : s[i + k - 1] \in Bytes
        BY <2>3, <3>1
      <4>2. \A k \in 1 .. L + 1 - (i + m) : s[(i + m) + k - 1] \in Bytes
        BY <2>3, <3>1
      <4>3. o \in Seq(Bytes) /\ Len(o) = m
        <5>1. o \in [1 .. m -> Bytes]
          BY <4>1
        <5>. HIDE DEF o
        <5>. QED  BY <3>1, <5>1
      <4>4. Rest(i + m) \in Seq(Bytes) /\ Len(Rest(i + m)) = L + 1 - (i + m)
        <5>1. L + 1 - (i + m) \in Nat
          BY <2>3, <3>1
        <5>. QED  BY <4>2, <5>1
      <4>5. \A k \in 1 .. L + 1 - i : k \in 1 .. m \/ (k - m \in 1 .. L + 1 - (i + m) /\ k > m)
        BY <2>3, <3>1
      <4>. DEFINE u == Rest(i + m)
                  w == o \o u
      <4>6. Len(w) = L + 1 - i /\ w = [k \in 1 .. L + 1 - i |-> w[k]]
        <5>1. u \in Seq(Bytes) /\ Len(u) = L + 1 - (i + m)
          BY <4>4
        <5>. HIDE DEF o, u
        <5>2. w \in Seq(Bytes) /\ Len(w) = m + (L + 1 - (i + m))
          BY <3>1, <4>3, <5>1
        <5>3. m + (L + 1 - (i + m)) = L + 1 - i
          BY <2>3, <3>1
        <5>. HIDE DEF w
        <5>4. w = [k \in 1 .. Len(w) |-> w[k]]
          BY <5>2
        <5>. QED  BY <5>2, <5>3, <5>4
      <4>7. ASSUME NEW k \in 1 .. L + 1 - i
            PROVE  w[k] = s[i + k - 1]
        <5>1. CASE k \in 1 .. m
          <6>1. w[k] = o[k]
            <7>. HIDE DEF o, Rest
            <7>. QED  BY <4>3, <4>4, <5>1
          <6>. QED  BY <5>1, <6>1
        <5>2. CASE k - m \in 1 .. L + 1 - (i + m) /\ k > m
          <6>1. w[k] = Rest(i + m)[k - m]
            <7>. HIDE DEF o, Rest
            <7>. QED  BY <3>1, <4>3, <4>4, <5>2
          <6>2. Rest(i + m)[k - m] = s[(i + m) + (k - m) - 1]
            BY <5>2
          <6>3. (i + m) + (k - m) - 1 = i + k - 1
            BY <3>1
          <6>. QED  BY <6>1, <6>2, <6>3
        <5>. QED  BY <4>5, <5>1, <5>2
      <4>. HIDE DEF w, o
      <4>. QED  BY <4>6, <4>7 DEF w
    <3>. QED  BY <3>8, <3>9
  <2>10. Right(1)
    <3>. HIDE DEF Right, n, L
    <3>1. 0 \in H
      BY <2>3, <2>8
    <3>2. ASSUME NEW d \in 1 .. L, d - 1 \in H
          PROVE  d \in H
      <4>. DEFINE j == L + 1 - d
      <4>1. j \in 1 .. L /\ \A i \in j .. L + 1 : i = j \/ i \in L + 1 - (d - 1) .. L + 1
        BY <2>3
      <4>2. \A i \in L + 1 - (d - 1) .. L + 1 : Right(i)
        BY <3>2
      <4>3. j + n(j) \in L + 1 - (d - 1) .. L + 1
        BY <2>3, <4>1
      <4>4. d \in 0 .. L
        BY <2>3
      <4>. HIDE DEF j
      <4>5. Right(j)
        BY <2>9, <4>1, <4>2, <4>3
      <4>6. \A i \in j .. L + 1 : Right(i)
        BY <4>1, <4>2, <4>5
      <4>. QED  BY <4>4, <4>6 DEF j
    <3>3. \A d \in 0 .. L : d \in H
      <4>. HIDE DEF H
      <4>. QED  BY <2>3, <3>1, <3>2, Upwards
    <3>4. L \in 0 .. L /\ 1 \in L + 1 - L .. L + 1
      BY <2>3
    <3>5. L \in H
      <4>. HIDE DEF H
      <4>. QED  BY <3>3, <3>4
    <3>6. \A i \in L + 1 - L .. L + 1 : Right(i)
      BY <3>5
    <3>. QED  BY <3>4, <3>6
  <2>11. r[1] = s
    <3>1. Remains(c, 1, f[1])
      BY <2>5 DEF Remains, c
    <3>2. r[1] = Rest(1)
      <4>. HIDE DEF Rest
      <4>. QED  BY <2>10, <3>1
    <3>3. Rest(1) = s
      <4>1. L + 1 - 1 = L /\ \A k \in 1 .. L : 1 + k - 1 = k
        BY <2>3
      <4>2. s = [k \in 1 .. L |-> s[k]]
        OBVIOUS
      <4>. QED  BY <4>1, <4>2
    <3>. QED  BY <3>2, <3>3
  <2>12. c = <<>> <=> s = <<>>
    <3>1. CASE s = <<>>
      <4>1. L = 0
        BY <3>1
      <4>. QED  BY <2>2, <3>1, <4>1 DEF c
    <3>2. CASE s # <<>>
      <4>1. 1 \in 1 .. L /\ 1 + n(1) \in 1 .. L + 1
        <5>1. L # 0
          BY <3>2
        <5>2. 1 \in 1 .. L
          BY <2>3, <5>1
        <5>. HIDE DEF n, L
        <5>. QED  BY <2>3, <5>2
      <4>. DEFINE t == f[1 + n(1)]
      <4>2. t \in Seq(Bytes) /\ P(1) \in Seq(Bytes) /\ Len(P(1)) \in Nat \ {0} /\ c = P(1) \o t
        <5>. HIDE DEF n, L, P
        <5>. QED  BY <2>2, <2>3, <2>4, <4>1 DEF c
      <4>. HIDE DEF t, P
      <4>. QED  BY <3>2, <4>2
    <3>. QED  BY <3>1, <3>2
  <2>. QED  BY <2>2, <2>5, <2>7, <2>11, <2>12 DEF c
<1>. QED  BY <1>1, <1>2

-----------------------------------------------------------------------------
(* The last of a finite set of numbers.                                       *)
LEMMA Bounded ==
  ASSUME NEW K \in SUBSET Nat, IsFiniteSet(K)
  PROVE  \E m \in Nat : \A i \in K : i < m
<1>1. PICK n \in Nat : ExistsBijection(1 .. n, K)
  BY FS_NatBijection
<1>2. PICK f \in [1 .. n -> K] : \A x \in K : \E k \in 1 .. n : f[k] = x
  BY <1>1 DEF ExistsBijection, Bijection, Injection, Surjection
<1>. DEFINE Below(k) == \E m \in Nat : \A j \in 1 .. k : f[j] < m
            G == {k \in 0 .. n : Below(k)}
<1>3. Below(0)
  BY 1 .. 0 = {}
<1>4. ASSUME NEW k \in 1 .. n, Below(k - 1)
      PROVE  Below(k)
  <2>1. PICK m \in Nat : \A j \in 1 .. k - 1 : f[j] < m
    BY <1>4
  <2>. DEFINE h == m + f[k] + 1
  <2>2. f[k] \in Nat /\ \A j \in 1 .. k : f[j] \in Nat /\ (j = k \/ j \in 1 .. k - 1)
    <3>1. \A j \in 1 .. k : j \in 1 .. n /\ (j = k \/ j \in 1 .. k - 1)
      OBVIOUS
    <3>2. \A j \in 1 .. n : f[j] \in Nat
      OBVIOUS
    <3>. QED  BY <3>1, <3>2
  <2>3. h \in Nat /\ \A j \in 1 .. k : f[j] < h
    BY <2>1, <2>2
  <2>. HIDE DEF h
  <2>. QED  BY <2>3
<1>5. Below(n)
  <2>1. 0 \in G /\ \A k \in 1 .. n : k - 1 \in G => k \in G
    <3>. HIDE DEF Below
    <3>. QED  BY <1>3, <1>4
  <2>2. \A k \in 0 .. n : k \in G
    <3>. HIDE DEF G
    <3>. QED  BY <2>1, Upwards
  <2>. HIDE DEF Below
  <2>. QED  BY <2>2
<1>6. PICK m \in Nat : \A j \in 1 .. n : f[j] < m
  BY <1>5
<1>. QED  BY <1>2, <1>6

LEMMA AfterFacts ==
  ASSUME NEW K \in SUBSET Nat, IsFiniteSet(K)
  PROVE  /\ After(K) \in Nat /\ K \subseteq 0 .. After(K) - 1
         /\ After(K) = 0 \/ After(K) - 1 \in K
<1>1. CASE K = {}
  BY <1>1 DEF After
<1>2. CASE K # {}
  <2>1. PICK m \in Nat : \A i \in K : i < m
    BY Bounded
  <2>2. K \in SUBSET (0 .. m - 1)
    BY <2>1
  <2>3. PICK l \in K : \A j \in K : j <= l
    BY <1>2, <2>2, Greatest
  <2>. DEFINE Last(i) == \A j \in K : j <= i
              c == CHOOSE i \in K : Last(i)
  <2>4. c \in K /\ Last(c)
    BY <2>3
  <2>. HIDE DEF c
  <2>5. After(K) = 1 + c
    BY <1>2 DEF After, c
  <2>. QED  BY <2>4, <2>5
<1>. QED  BY <1>1, <1>2

-----------------------------------------------------------------------------
(* A vector stands for a set of numbers below n: it is no longer than the     *)
(* greatest of them needs, rounded up to the next step, and empty for none.   *)
Stands(v, S, n) ==
  /\ IsVector(v) /\ Members(v) = S
  /\ v.size # 0 => Width * (v.size - STEP) < n
  /\ v.size = 0 <=> S = {}

LEMMA EmptyStands == Stands(Empty, {}, 0) /\ IsVector(Empty)
<1>1. Empty.size = 0 /\ Empty.byte = [i \in 0 .. 0 - 1 |-> <<>>[i]]
  BY DEF Empty, Vector
<1>2. 0 .. 0 - 1 = {}
  OBVIOUS
<1>3. Empty = [size |-> Empty.size, byte |-> Empty.byte]
  BY DEF Empty, Vector
<1>4. Empty.byte \in [0 .. Empty.size - 1 -> SUBSET Bits]
  BY <1>1, <1>2
<1>5. IsVector(Empty)
  BY <1>1, <1>3, <1>4 DEF IsVector
<1>6. Members(Empty) = {}
  <2>1. Width * 0 - 1 = -1
    OBVIOUS
  <2>2. 0 .. -1 = {}
    OBVIOUS
  <2>. QED  BY <1>1, <2>1, <2>2 DEF Members
<1>. QED  BY <1>1, <1>5, <1>6 DEF Stands

(* setmask of a number past the others makes the vector as long as needed.    *)
LEMMA InsertedStands ==
  ASSUME NEW v, NEW S, NEW n \in Nat, Stands(v, S, n), NEW i \in Nat, i >= n
  PROVE  Stands(Inserted(v, i), S \cup {i}, i + 1)
<1>. DEFINE g == Grown(v, i)  q == i \div Width  w == Inserted(v, i)
            l == STEP * (1 + q \div STEP)
<1>1. IsVector(v) /\ Members(v) = S /\ (v.size # 0 => Width * (v.size - STEP) < n) /\ v.size \in Nat
  BY DEF Stands, IsVector
<1>2. IsVector(w) /\ Members(w) = S \cup {i}
  <2>1. 1 \in {0, 1}
    OBVIOUS
  <2>2. LET s == setmask(v, i, 1)
        IN  IsVector(s.vector) /\ Members(s.vector) = Members(v) \cup {i}
    BY <1>1, <2>1, SetmaskSets
  <2>. QED  BY <1>1, <2>2 DEF Inserted
<1>3. IsVector(g) /\ q < g.size /\ g.size \in Nat
  BY <1>1, GrownFacts DEF IsVector
<1>4. w.size = g.size
  <2>. DEFINE b == g.byte[q] \cup {i % Width}
  <2>1. w = [g EXCEPT !.byte[q] = b]
    BY DEF Inserted, setmask
  <2>2. g = [size |-> g.size, byte |-> g.byte]
    BY <1>3 DEF IsVector
  <2>. HIDE DEF g, b, q, w
  <2>3. w = [size |-> g.size, byte |-> [g.byte EXCEPT ![q] = b]]
    BY <2>1, <2>2, OneByte
  <2>. QED  BY <2>3
<1>5. q \in Nat /\ i = Width * q + (i % Width) /\ i % Width \in Nat
  BY Position DEF Bits
<1>6. Width * (g.size - STEP) < i + 1
  <2>1. CASE q < v.size
    <3>1. g = v
      BY <2>1 DEF Grown
    <3>2. v.size # 0
      BY <1>1, <1>5, <2>1
    <3>3. Width * (v.size - STEP) \in Int
      BY <1>1
    <3>. HIDE DEF g
    <3>. QED  BY <1>1, <3>1, <3>2, <3>3
  <2>2. CASE ~(q < v.size)
    <3>1. g.size = l
      BY <2>2 DEF Grown, Vector
    <3>. DEFINE s == q \div STEP  r == q % STEP
    <3>2. s \in Nat /\ r \in Nat /\ q = STEP * s + r
      BY <1>5, Z3
    <3>. HIDE DEF s, r
    <3>3. l = STEP * (1 + s)
      BY DEF s
    <3>4. STEP * (1 + s) = STEP + STEP * s /\ STEP * s \in Nat
      BY <3>2
    <3>. DEFINE x == STEP * s
    <3>5. l - STEP = x /\ x \in Nat /\ x <= q
      <4>. HIDE DEF l
      <4>. QED  BY <3>2, <3>3, <3>4
    <3>. HIDE DEF x, l, q, g
    <3>6. Width * x <= Width * q
      <4>1. PICK d \in Nat : q = x + d
        <5>1. q - x \in Nat /\ q = x + (q - x)
          BY <1>5, <3>5
        <5>. QED  BY <5>1
      <4>2. Width * (x + d) = Width * x + Width * d /\ Width * d \in Nat /\ Width * x \in Nat
        BY <3>5
      <4>. QED  BY <4>1, <4>2
    <3>7. Width * x \in Nat /\ Width * q \in Nat
      BY <1>5, <3>5
    <3>8. Width * x < i + 1
      BY <1>5, <3>6, <3>7
    <3>. QED  BY <3>1, <3>5, <3>8
  <2>. QED  BY <2>1, <2>2
<1>7. w.size # 0
  BY <1>3, <1>4, <1>5
<1>. HIDE DEF w, g
<1>. QED  BY <1>2, <1>4, <1>6, <1>7 DEF Stands, w

(* Removal clears the bit and cuts the zero bytes at the end off.             *)
LEMMA RemovedStands ==
  ASSUME NEW v, NEW S, NEW n \in Nat, Stands(v, S, n), NEW i \in S, S \subseteq Nat
  PROVE  Stands(Removed(v, i), S \ {i}, n)
<1>. DEFINE g == Grown(v, i)  q == i \div Width  u == setmask(v, i, 0).vector  w == shorten(u)
<1>1. IsVector(v) /\ Members(v) = S /\ (v.size # 0 => Width * (v.size - STEP) < n) /\ v.size \in Nat
  BY DEF Stands, IsVector
<1>2. i \in Nat /\ q \in Nat
  BY Position
<1>3. IsVector(u) /\ Members(u) = S \ {i}
  <2>1. 0 \in {0, 1} /\ 0 # 1
    OBVIOUS
  <2>2. LET s == setmask(v, i, 0)
        IN  /\ IsVector(s.vector)
            /\ Members(s.vector) = IF 0 = 1 THEN Members(v) \cup {i} ELSE Members(v) \ {i}
    BY <1>1, <1>2, <2>1, SetmaskSets, Zenon
  <2>. QED  BY <1>1, <2>2
<1>4. q < v.size
  <2>1. i < Width * v.size
    <3>1. Width * v.size \in Nat
      BY <1>1
    <3>. QED  BY <1>1, <3>1 DEF Members
  <2>. QED  BY <1>1, <1>2, <2>1, InByte
<1>5. u.size = v.size
  <2>. DEFINE b == v.byte[q] \ {i % Width}
  <2>1. g = v
    BY <1>4 DEF Grown
  <2>2. u = [v EXCEPT !.byte[q] = b]
    BY <2>1 DEF setmask
  <2>3. v = [size |-> v.size, byte |-> v.byte]
    BY <1>1 DEF IsVector
  <2>. HIDE DEF b, q, u
  <2>4. u = [size |-> v.size, byte |-> [v.byte EXCEPT ![q] = b]]
    BY <2>2, <2>3, OneByte
  <2>. QED  BY <2>4
<1>. HIDE DEF u
<1>6. IsVector(w) /\ Members(w) = S \ {i}
  BY <1>3, ShortenKeeps
<1>7. w.size = Length(u.size, u.byte)
  BY DEF shorten, Cut, Vector
<1>8. w.size \in 0 .. v.size
  <2>1. u.size \in Nat
    BY <1>1, <1>5
  <2>. QED  BY <1>5, <1>7, <2>1, LengthFacts
<1>9. w.size # 0 => Width * (w.size - STEP) < n
  <2>. SUFFICES ASSUME w.size # 0 PROVE Width * (w.size - STEP) < n
    OBVIOUS
  <2>. HIDE DEF w
  <2>1. PICK d \in Nat : v.size = w.size + d
    <3>1. v.size - w.size \in Nat /\ v.size = w.size + (v.size - w.size)
      BY <1>1, <1>8
    <3>. QED  BY <3>1
  <2>2. v.size # 0
    BY <1>1, <1>8
  <2>. DEFINE x == w.size - STEP
  <2>3. x \in Int /\ v.size - STEP = x + d
    BY <1>1, <1>8, <2>1
  <2>. HIDE DEF x
  <2>4. Width * (x + d) = Width * x + Width * d /\ Width * d \in Nat /\ Width * x \in Int
    BY <2>3
  <2>. QED  BY <1>1, <2>2, <2>3, <2>4 DEF x
<1>10. w.size = 0 <=> S \ {i} = {}
  <2>1. ASSUME w.size = 0
        PROVE  Members(w) = {}
    <3>1. Width * 0 - 1 = -1 /\ 0 .. -1 = {}
      OBVIOUS
    <3>. QED  BY <2>1, <3>1 DEF Members
  <2>2. ASSUME S \ {i} = {}
        PROVE  w.size = 0
    <3>1. ASSUME NEW k \in 0 .. u.size - 1
          PROVE  u.byte[k] = {}
      <4>1. k \in Nat /\ k < u.size /\ u.size \in Nat /\ u.byte[k] \subseteq Bits
        BY <1>3 DEF IsVector
      <4>2. ASSUME NEW r \in u.byte[k]
            PROVE  FALSE
        <5>. DEFINE j == Width * k + r
        <5>1. r \in Bits /\ r \in Nat /\ r < Width
          BY <4>1 DEF Bits
        <5>2. j \in Nat /\ j \div Width = k /\ j % Width = r
          BY <4>1, <5>1, AtByte
        <5>3. Byte(u, k) = u.byte[k]
          BY <4>1 DEF Byte
        <5>. HIDE DEF j
        <5>4. j \in Members(u)
          BY <1>3, <4>2, <5>2, <5>3, InMembers
        <5>. QED  BY <1>3, <2>2, <5>4
      <4>. QED  BY <4>2
    <3>. QED  BY <1>7, <3>1 DEF Length
  <2>. QED  BY <1>6, <2>1, <2>2
<1>. HIDE DEF w
<1>. QED  BY <1>6, <1>9, <1>10 DEF Stands, Removed, w, u

(* So do the postings that are there at first.                                *)
LEMMA SetOfStands ==
  ASSUME NEW K \in SUBSET Nat, IsFiniteSet(K)
  PROVE  Stands(SetOf(K), K, After(K))
<1>. DEFINE n == After(K)
            V == {v \in UNION {[size : {m}, byte : [0 .. m - 1 -> SUBSET Bits]] : m \in Nat} : IsVector(v)}
            Body(f, k) == IF k = 0 THEN Empty
                          ELSE IF k - 1 \in K THEN Inserted(f[k - 1], k - 1) ELSE f[k - 1]
            Is(f) == f = [k \in 0 .. n |-> Body(f, k)]
            h == CHOOSE f : Is(f)
            step == [k \in 1 .. n |-> [v \in V |-> IF k - 1 \in K THEN Inserted(v, k - 1) ELSE v]]
<1>1. SetOf(K) = h[n]
  BY DEF SetOf
<1>2. n \in Nat /\ K \subseteq 0 .. n - 1
  BY AfterFacts
<1>. HIDE DEF h, n
<1>3. \A v : v \in V <=> IsVector(v)
  BY DEF IsVector
<1>4. Empty \in V
  <2>. HIDE DEF V
  <2>. QED  BY <1>3, EmptyStands
<1>5. \A v \in V, i \in Nat : Inserted(v, i) \in V
  <2>. HIDE DEF V
  <2>. SUFFICES ASSUME NEW v \in V, NEW i \in Nat PROVE Inserted(v, i) \in V
    OBVIOUS
  <2>1. IsVector(v) /\ 1 \in {0, 1}
    BY <1>3
  <2>2. IsVector(setmask(v, i, 1).vector)
    BY <2>1, SetmaskSets, Zenon
  <2>. QED  BY <1>3, <2>2 DEF Inserted
<1>. HIDE DEF V
<1>6. PICK r \in [0 .. n -> V] : Stepwise(Empty, step, n, r)
  <2>1. step \in [1 .. n -> [V -> V]]
    <3>1. ASSUME NEW k \in 1 .. n, NEW v \in V
          PROVE  (IF k - 1 \in K THEN Inserted(v, k - 1) ELSE v) \in V
      <4>1. k - 1 \in Nat
        OBVIOUS
      <4>. QED  BY <1>5, <4>1
    <3>. QED  BY <3>1
  <2>. HIDE DEF step
  <2>. QED  BY <1>2, <1>4, <2>1, Recursion
<1>7. \A k \in 0 .. n : r[k] = Body(r, k)
  <2>. SUFFICES ASSUME NEW k \in 0 .. n PROVE r[k] = Body(r, k)
    OBVIOUS
  <2>1. CASE k = 0
    BY <1>6, <2>1 DEF Stepwise
  <2>2. CASE k # 0
    <3>1. k \in 1 .. n /\ k - 1 \in 0 .. n
      BY <1>2, <2>2
    <3>2. r[k - 1] \in V
      BY <3>1
    <3>3. r[k] = step[k][r[k - 1]]
      <4>. HIDE DEF step
      <4>. QED  BY <1>6, <3>1 DEF Stepwise
    <3>4. step[k][r[k - 1]] = IF k - 1 \in K THEN Inserted(r[k - 1], k - 1) ELSE r[k - 1]
      BY <3>1, <3>2
    <3>. QED  BY <2>2, <3>3, <3>4
  <2>. QED  BY <2>1, <2>2
<1>8. Is(r)
  <2>1. r = [k \in 0 .. n |-> r[k]]
    OBVIOUS
  <2>. HIDE DEF Body
  <2>. QED  BY <1>7, <2>1
<1>9. Is(h)
  <2>. HIDE DEF Is
  <2>. QED  BY <1>8 DEF h
<1>10. \A k \in 0 .. n : h[k] = Body(h, k)
  <2>. HIDE DEF Body
  <2>. QED  BY <1>9
<1>. DEFINE Upto(k) == K \cap (0 .. k - 1)
            G == {k \in 0 .. n : Stands(h[k], Upto(k), k)}
<1>11. Stands(h[0], Upto(0), 0)
  <2>1. h[0] = Empty /\ Upto(0) = {}
    BY <1>2, <1>10
  <2>. HIDE DEF Upto
  <2>. QED  BY <2>1, EmptyStands
<1>12. ASSUME NEW k \in 1 .. n, Stands(h[k - 1], Upto(k - 1), k - 1)
       PROVE  Stands(h[k], Upto(k), k)
  <2>1. k - 1 \in Nat /\ k \in 0 .. n /\ k # 0 /\ (k - 1) + 1 = k
    BY <1>2
  <2>2. CASE k - 1 \in K
    <3>1. h[k] = Inserted(h[k - 1], k - 1) /\ Upto(k) = Upto(k - 1) \cup {k - 1}
      BY <1>10, <2>1, <2>2
    <3>. DEFINE u == h[k - 1]  S == Upto(k - 1)  m == k - 1
    <3>2. Stands(u, S, m) /\ m \in Nat /\ m >= m
      BY <1>12, <2>1
    <3>. HIDE DEF u, S, m
    <3>3. Stands(Inserted(u, m), S \cup {m}, m + 1)
      BY <3>2, InsertedStands
    <3>. QED  BY <2>1, <3>1, <3>3 DEF u, S, m
  <2>3. CASE k - 1 \notin K
    <3>1. h[k] = h[k - 1] /\ Upto(k) = Upto(k - 1)
      BY <1>10, <2>1, <2>3
    <3>. DEFINE u == h[k - 1]  S == Upto(k - 1)
    <3>2. Stands(u, S, k - 1) /\ u.size \in Nat
      BY <1>12 DEF Stands, IsVector
    <3>. HIDE DEF u, S
    <3>3. Stands(u, S, k)
      <4>1. Width * (u.size - STEP) \in Int
        BY <3>2
      <4>. QED  BY <3>2, <4>1 DEF Stands
    <3>. QED  BY <3>1, <3>3 DEF u, S
  <2>. QED  BY <2>2, <2>3
<1>13. n \in G
  <2>1. 0 \in G /\ \A k \in 1 .. n : k - 1 \in G => k \in G
    <3>1. \A k \in 1 .. n : k \in 0 .. n
      OBVIOUS
    <3>. HIDE DEF Upto
    <3>. QED  BY <1>2, <1>11, <1>12, <3>1
  <2>2. \A k \in 0 .. n : k \in G
    <3>. HIDE DEF G
    <3>. QED  BY <1>2, <2>1, Upwards
  <2>. HIDE DEF G
  <2>. QED  BY <1>2, <2>2
<1>14. Upto(n) = K
  BY <1>2
<1>15. Stands(h[n], Upto(n), n)
  <2>. HIDE DEF Upto
  <2>. QED  BY <1>13
<1>. HIDE DEF Upto
<1>. QED  BY <1>1, <1>14, <1>15 DEF n

-----------------------------------------------------------------------------
(* As long as two bytes hold the lengths of runs: no statement has a number   *)
(* that makes its posting that long. Beyond it a run of Base * Base bytes is  *)
(* written as one of none.                                                    *)
Short == \A K \in Kept \cup {Numbers} : \A i \in K : i < Width * (Base * Base - STEP)
Held(n) == n = 0 \/ n <= Width * (Base * Base - STEP)

Written(alg, v) == IF v.size = 0 THEN <<>> ELSE Encode(alg, BytesOf(v))

LEMMA WrittenIsRead ==
  ASSUME NEW alg \in Algorithms, NEW v, NEW n \in Nat, Held(n), NEW S \in SUBSET (0 .. n - 1),
         Stands(v, S, n)
  PROVE  /\ VectorFrom(Decode(alg, Written(alg, v))) = v
         /\ Written(alg, v) \in Seq(Bytes)
         /\ Written(alg, v) = <<>> <=> S = {}
<1>. DEFINE s == BytesOf(v)  BB == Base * Base
<1>1. IsVector(v) /\ v.size \in Nat /\ (v.size # 0 => Width * (v.size - STEP) < n) /\ (v.size = 0 <=> S = {})
  BY DEF Stands, IsVector
<1>2. BB \in Nat \ {0}
  <2>1. Base \in Nat \ {0}
    BY CodecConstants
  <2>. QED  BY <2>1
<1>3. v.size < BB
  <2>1. CASE v.size = 0
    BY <1>2, <2>1
  <2>2. CASE v.size # 0
    <3>1. S # {}
      BY <1>1, <2>2
    <3>2. n # 0
      <4>1. ASSUME n = 0
            PROVE  S = {}
        <5>1. n - 1 = -1 /\ 0 .. -1 = {}
          BY <4>1
        <5>. QED  BY <5>1
      <4>. QED  BY <3>1, <4>1
    <3>. SUFFICES ASSUME v.size >= BB PROVE FALSE
      BY <1>1, <1>2
    <3>. DEFINE x == BB - STEP  d == v.size - BB
    <3>3. x \in Int /\ d \in Nat /\ v.size - STEP = x + d
      BY <1>1, <1>2
    <3>4. n <= Width * x
      BY <3>2 DEF Held
    <3>. HIDE DEF x, d
    <3>5. Width * (x + d) = Width * x + Width * d /\ Width * d \in Nat /\ Width * x \in Int
      BY <3>3
    <3>. QED  BY <1>1, <2>2, <3>3, <3>4, <3>5
  <2>. QED  BY <2>1, <2>2
<1>4. s \in Seq(Bytes) /\ Len(s) = v.size /\ VectorFrom(s) = v
  BY <1>1, VectorIsRead
<1>5. alg \in {"none"} \cup Packs
  BY PostingConstants DEF Packs
<1>. HIDE DEF s
<1>6. Encode(alg, s) \in Seq(Bytes) /\ Decode(alg, Encode(alg, s)) = s /\ (Encode(alg, s) = <<>> <=> s = <<>>)
  <2>1. Len(s) < Base * Base
    BY <1>3, <1>4
  <2>. QED  BY <1>4, <1>5, <2>1, CodeIsRead
<1>7. s = <<>> <=> v.size = 0
  BY <1>1, <1>4
<1>8. Written(alg, v) = Encode(alg, s)
  BY <1>6, <1>7 DEF Written, s
<1>. QED  BY <1>1, <1>4, <1>6, <1>7, <1>8

(* The invariant: what is stored is what encoding its vector gives, and the   *)
(* vector stands for the statements with the term.                            *)
IInv ==
  /\ algorithm \in Algorithms /\ next \in Nat /\ Held(next)
  /\ holders \in SUBSET (0 .. next - 1)
  /\ Stands(Fetched, holders, next)
  /\ data = Encoded(Fetched)

LEMMA Steps == Short => (IInv /\ Next => IInv')
<1>. SUFFICES ASSUME Short, IInv, Next PROVE IInv'
  OBVIOUS
<1>1. PICK i \in Numbers : Insert(i) \/ Remove(i)
  BY DEF Next
<1>2. /\ algorithm \in Algorithms /\ next \in Nat /\ Held(next)
      /\ holders \in SUBSET (0 .. next - 1) /\ Stands(Fetched, holders, next)
  BY DEF IInv
<1>3. i \in Nat /\ i < Width * (Base * Base - STEP) /\ Width * (Base * Base - STEP) \in Int
  <2>1. i \in Nat /\ i < Width * (Base * Base - STEP)
    BY PostingConstants DEF Short
  <2>. QED  BY <2>1, CodecConstants
<1>. DEFINE F == Fetched
<1>4. ASSUME NEW v, NEW n \in Nat, Held(n), NEW S \in SUBSET (0 .. n - 1), Stands(v, S, n),
             next' = n, holders' = S, algorithm' = algorithm, data' = Encoded(v)
      PROVE  IInv'
  <2>1. data' = Written(algorithm, v)
    BY <1>4 DEF Encoded, Written
  <2>2. VectorFrom(Decode(algorithm, Written(algorithm, v))) = v
    BY <1>2, <1>4, WrittenIsRead
  <2>3. Fetched' = v
    BY <1>4, <2>1, <2>2 DEF Fetched
  <2>4. (algorithm \in Algorithms)' /\ (next \in Nat)' /\ (holders \in SUBSET (0 .. next - 1))'
    BY <1>2, <1>4
  <2>5. Held(next)'
    BY <1>4 DEF Held
  <2>6. Stands(Fetched, holders, next)'
    BY <1>4, <2>3 DEF Stands
  <2>7. (data = Encoded(Fetched))'
    <3>1. Encoded(Fetched)' = Written(algorithm', Fetched')
      BY DEF Encoded, Written
    <3>. QED  BY <1>4, <2>1, <2>3, <3>1
  <2>. QED  BY <2>4, <2>5, <2>6, <2>7 DEF IInv
<1>5. CASE Insert(i)
  <2>1. /\ i >= next /\ next' = i + 1 /\ data' = Encoded(Inserted(F, i))
        /\ holders' = holders \cup {i} /\ algorithm' = algorithm
    BY <1>5 DEF Insert
  <2>. HIDE DEF F
  <2>. DEFINE v == Inserted(F, i)  S == holders \cup {i}  n == i + 1
  <2>2. Stands(v, S, n)
    BY <1>2, <1>3, <2>1, InsertedStands DEF F
  <2>3. n \in Nat /\ Held(n) /\ S \in SUBSET (0 .. n - 1)
    BY <1>2, <1>3, <2>1 DEF Held
  <2>. HIDE DEF v, S, n
  <2>. QED  BY <1>4, <2>1, <2>2, <2>3 DEF v, S, n
<1>6. CASE Remove(i)
  <2>1. /\ i \in holders /\ next' = next /\ data' = Encoded(Removed(F, i))
        /\ holders' = holders \ {i} /\ algorithm' = algorithm
    BY <1>6 DEF Remove
  <2>. HIDE DEF F
  <2>. DEFINE v == Removed(F, i)  S == holders \ {i}
  <2>2. holders \subseteq Nat
    BY <1>2
  <2>3. Stands(v, S, next)
    BY <1>2, <2>1, <2>2, RemovedStands DEF F
  <2>4. S \in SUBSET (0 .. next - 1)
    BY <1>2
  <2>. HIDE DEF v, S
  <2>. QED  BY <1>2, <1>4, <2>1, <2>3, <2>4 DEF v, S
<1>. QED  BY <1>1, <1>5, <1>6

LEMMA Starts == Short => (Init => IInv)
<1>. SUFFICES ASSUME Short, Init PROVE IInv
  OBVIOUS
<1>. DEFINE v == SetOf(holders)  n == After(holders)
<1>1. /\ algorithm \in Algorithms /\ holders \in Kept /\ data = Encoded(v) /\ next = n
  BY DEF Init
<1>2. holders \in SUBSET Nat /\ IsFiniteSet(holders)
  BY <1>1, PostingConstants
<1>3. n \in Nat /\ holders \subseteq 0 .. n - 1 /\ (n = 0 \/ n - 1 \in holders)
  BY <1>2, AfterFacts
<1>4. Stands(v, holders, n)
  BY <1>2, SetOfStands
<1>5. Held(n)
  <2>. HIDE DEF n
  <2>1. Width * (Base * Base - STEP) \in Int
    BY CodecConstants
  <2>2. \A i \in holders : i < Width * (Base * Base - STEP)
    BY <1>1 DEF Short
  <2>. QED  BY <1>3, <2>1, <2>2 DEF Held
<1>. HIDE DEF v, n
<1>6. data = Written(algorithm, v)
  BY <1>1 DEF Encoded, Written
<1>7. Fetched = v
  BY <1>1, <1>3, <1>4, <1>5, <1>6, WrittenIsRead DEF Fetched
<1>. QED  BY <1>1, <1>3, <1>4, <1>5, <1>7 DEF IInv

THEOREM Inductive == ASSUME Short PROVE Spec => []IInv
<1>1. Init => IInv
  BY Starts
<1>2. IInv /\ [Next]_vars => IInv'
  <2>. SUFFICES ASSUME IInv, [Next]_vars PROVE IInv'
    OBVIOUS
  <2>1. CASE Next
    BY <2>1, Steps
  <2>2. CASE UNCHANGED vars
    BY <2>2 DEF vars, IInv, Held, Stands, Fetched, Encoded
  <2>. QED  BY <2>1, <2>2
<1>. QED  BY <1>1, <1>2, PTL DEF Spec

(* Codes are sequences of bytes and their vectors no longer than they need be *)
(* (TypeOK of Posting), whatever is inserted and removed.                     *)
THEOREM TypesCorrect == ASSUME Short PROVE Spec => []TypeOK
<1>1. IInv => TypeOK
  <2>. SUFFICES ASSUME IInv PROVE TypeOK
    OBVIOUS
  <2>. DEFINE v == Fetched
  <2>1. /\ algorithm \in Algorithms /\ next \in Nat /\ Held(next)
        /\ holders \in SUBSET (0 .. next - 1) /\ Stands(v, holders, next) /\ data = Encoded(v)
    BY DEF IInv
  <2>2. data = Written(algorithm, v)
    BY <2>1 DEF Encoded, Written
  <2>3. IsVector(v) /\ (v.size # 0 => Width * (v.size - STEP) < next)
    BY <2>1 DEF Stands
  <2>4. data \in Seq(Bytes)
    <3>. HIDE DEF v
    <3>. QED  BY <2>1, <2>2, WrittenIsRead
  <2>5. holders \subseteq Nat
    BY <2>1
  <2>. QED  BY <2>1, <2>3, <2>4, <2>5 DEF TypeOK
<1>. QED  BY <1>1, Inductive, PTL

(* A posting decodes to the statements with its term, and is absent when      *)
(* there are none: rdfstore_insert and rdfstore_remove over any codec.        *)
THEOREM PostingsExact == ASSUME Short PROVE Spec => []PostingExact
<1>1. IInv => PostingExact
  <2>. SUFFICES ASSUME IInv PROVE PostingExact
    OBVIOUS
  <2>. DEFINE v == Fetched
  <2>1. /\ algorithm \in Algorithms /\ next \in Nat /\ Held(next)
        /\ holders \in SUBSET (0 .. next - 1) /\ Stands(v, holders, next) /\ data = Encoded(v)
    BY DEF IInv
  <2>2. data = Written(algorithm, v)
    BY <2>1 DEF Encoded, Written
  <2>3. Members(v) = holders
    BY <2>1 DEF Stands
  <2>4. data = <<>> <=> holders = {}
    <3>. HIDE DEF v
    <3>. QED  BY <2>1, <2>2, WrittenIsRead
  <2>. QED  BY <2>3, <2>4 DEF PostingExact, EmptyIsAbsent
<1>. QED  BY <1>1, Inductive, PTL
=============================================================================
