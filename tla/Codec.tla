------------------------------- MODULE Codec -------------------------------
(* sflcomp.c: the three run-length codecs in which postings are stored. Bytes *)
(* are numbers; a code is a sequence of them. A vector is cut into runs, into *)
(* bytes with one bit (in "bits") and into strings of the bytes in between.   *)
EXTENDS BitVector, Sequences

CONSTANTS
  Base,   \* the values of a byte: 256
  Space   \* the code of a space: 32

(* The values of the bits of a byte. *)
Power[k \in 0 .. Width] == IF k = 0 THEN 1 ELSE 2 * Power[k - 1]

ASSUME CodecConstants ==
  /\ Base = Power[Width] /\ Base \in Nat /\ Base >= 8
  /\ Base % 2 = 0 /\ Width < Base \div 2 /\ Space \in 1 .. Base - 1

Bytes == 0 .. Base - 1
Half  == Base \div 2
Low(n)  == n % Base
High(n) == (n \div Base) % Base

-----------------------------------------------------------------------------
(* A run of n bytes b. The two bytes of a long length hold no more than 16    *)
(* bits of it.                                                                *)

(* mutant: a length of 256 is taken for a short one. *)
Mut_NullsShort(b, n) ==
  IF b = 0
  THEN IF n < Half THEN <<n + Half>>
       ELSE IF n <= Base THEN <<Half + 1, Low(n)>> ELSE <<Half, Low(n), High(n)>>
  ELSE IF n <= Base THEN <<0, Low(n), b>> ELSE <<0, 0, Low(n), High(n), b>>

NullsRun(b, n) ==
  IF b = 0
  THEN IF n < Half THEN <<n + Half>>
       ELSE IF n < Base THEN <<Half + 1, n>> ELSE <<Half, Low(n), High(n)>>
  ELSE IF n < Base THEN <<0, n, b>> ELSE <<0, 0, Low(n), High(n), b>>

BitsRun(b, n) ==
  IF b = 0
  THEN IF n < Half - 1 THEN <<n + 1 + Half>>
       ELSE IF n < 3 * (Half - 1) THEN <<Half + 1, n - (Half - 1)>>
       ELSE <<Half, Low(n), High(n)>>
  ELSE IF n < Base THEN <<Half + 1, Base - 2, n, b>>
       ELSE <<Half + 1, Base - 1, Low(n), High(n), b>>

RleRun(b, n) ==
  IF n >= Base THEN <<Half + 1, Low(n), High(n), b>>
  ELSE IF b = 0 THEN <<0, n>>
  ELSE IF b = Space THEN <<Half + 2, n>>
  ELSE IF n < Half THEN <<n + Half, b>> ELSE <<Half, n, b>>

(* What is read from a code at a position, and where it goes on.              *)
Run(b, n, next) == [out |-> [k \in 1 .. n |-> b], next |-> next]
String(c, i, n) == [out |-> SubSeq(c, i + 1, i + n), next |-> i + 1 + n]
Long(c, i)      == c[i] + Base * c[i + 1]

NullsRead(c, i) ==
  IF c[i] = 0
  THEN IF c[i + 1] = 0 THEN Run(c[i + 4], Long(c, i + 2), i + 5)
       ELSE Run(c[i + 2], c[i + 1], i + 3)
  ELSE IF c[i] < Half THEN String(c, i, c[i])
  ELSE IF c[i] = Half THEN Run(0, Long(c, i + 1), i + 3)
  ELSE IF c[i] = Half + 1 THEN Run(0, c[i + 1], i + 2)
  ELSE Run(0, c[i] - Half, i + 1)

BitsRead(c, i) ==
  IF c[i] < Width THEN [out |-> <<Power[c[i]]>>, next |-> i + 1]
  ELSE IF c[i] < Half THEN String(c, i, c[i] - (Width - 1))
  ELSE IF c[i] = Half THEN Run(0, Long(c, i + 1), i + 3)
  ELSE IF c[i] = Half + 1
  THEN IF c[i + 1] = Base - 2 THEN Run(c[i + 3], c[i + 2], i + 4)
       ELSE IF c[i + 1] = Base - 1 THEN Run(c[i + 4], Long(c, i + 2), i + 5)
       ELSE Run(0, c[i + 1] + (Half - 1), i + 2)
  ELSE Run(0, c[i] - 1 - Half, i + 1)

RleRead(c, i) ==
  IF c[i] = 0 THEN Run(0, c[i + 1], i + 2)
  ELSE IF c[i] < Half THEN String(c, i, c[i])
  ELSE IF c[i] = Half THEN Run(c[i + 2], c[i + 1], i + 3)
  ELSE IF c[i] = Half + 1 THEN Run(c[i + 3], Long(c, i + 1), i + 4)
  ELSE IF c[i] = Half + 2 THEN Run(Space, c[i + 1], i + 2)
  ELSE Run(c[i + 1], c[i] - Half, i + 2)

-----------------------------------------------------------------------------
(* The next byte after a position that differs from the one there.            *)
RunAt(s, i) == Least({j \in i + 1 .. Len(s) + 1 : j > Len(s) \/ s[j] # s[i]}) - i

Singles == {Power[k] : k \in Bits}
IsSingle(alg, b) == alg = "bits" /\ b \in Singles
IsRun(alg, b, n) ==
  \/ alg = "nulls" /\ (n >= 4 \/ (b = 0 /\ n >= 2))
  \/ alg = "bits"  /\ (n >= 4 \/ b = 0)
  \/ alg = "rle"   /\ n >= 3
RunCode(alg, b, n) ==
  CASE alg = "nulls" -> NullsRun(b, n)
    [] alg = "bits"  -> BitsRun(b, n)
    [] OTHER         -> RleRun(b, n)

(* A string ends where something else begins, or at its greatest length; its  *)
(* length comes first.                                                        *)
MaxString(alg) == IF alg = "bits" THEN Half - Width ELSE Half - 1
StringHead(alg, n) == IF alg = "bits" THEN n + Width - 1 ELSE n
Ends(alg, s, i) == i > Len(s) \/ IsSingle(alg, s[i]) \/ IsRun(alg, s[i], RunAt(s, i))

StringAt(alg, s, i) ==
  Least({n \in 1 .. MaxString(alg) : n = MaxString(alg) \/ Ends(alg, s, i + n)})

Encode(alg, s) ==
  LET code[i \in 1 .. Len(s) + 1] ==
        IF i > Len(s) THEN <<>>
        ELSE IF IsSingle(alg, s[i])
             THEN <<CHOOSE k \in Bits : s[i] = Power[k]>> \o code[i + 1]
        ELSE LET n == RunAt(s, i)
                 m == StringAt(alg, s, i)
             IN  IF IsRun(alg, s[i], n) THEN RunCode(alg, s[i], n) \o code[i + n]
                 ELSE <<StringHead(alg, m)>> \o SubSeq(s, i, i + m - 1) \o code[i + m]
  IN  IF alg = "none" THEN s ELSE code[1]

Read(alg, c, i) ==
  CASE alg = "nulls" -> NullsRead(c, i)
    [] alg = "bits"  -> BitsRead(c, i)
    [] OTHER         -> RleRead(c, i)

Decode(alg, c) ==
  LET rest[i \in Nat \ {0}] ==
        IF i > Len(c) THEN <<>> ELSE LET r == Read(alg, c, i) IN r.out \o rest[r.next]
  IN  IF alg = "none" THEN c ELSE rest[1]
=============================================================================
