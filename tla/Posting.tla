------------------------------ MODULE Posting ------------------------------
(* One posting of the kernel as it is stored: rdfstore_insert and             *)
(* rdfstore_remove fetch it, decode it into a vector of bits, set or clear    *)
(* the bit of a statement, encode the vector again and store it, or delete    *)
(* the key when nothing is left. RdfStore takes a posting for the set of its  *)
(* statements; here is what lies below.                                       *)
EXTENDS Codec

CONSTANTS
  Algorithms,  \* the codecs a store may have been created with
  Numbers,     \* the statements with the term that come and go
  Kept         \* sets of statements that were stored before

ASSUME PostingConstants ==
  /\ Algorithms \subseteq {"none", "nulls", "bits", "rle"}
  /\ Numbers \subseteq Nat
  /\ Kept \subseteq SUBSET Nat /\ \A K \in Kept : IsFiniteSet(K)

VARIABLES
  algorithm,  \* me->func_encode and func_decode
  data,       \* what is stored under the key; <<>> when it is absent
  next,       \* the number of the next statement
  holders     \* history: the stored statements with the term
vars == <<algorithm, data, next, holders>>

-----------------------------------------------------------------------------
(* me->bits_decode, as bytes and as a vector of bits. *)
ByteOf(S) == LET sum[k \in 0 .. Width] ==
                   IF k = 0 THEN 0 ELSE sum[k - 1] + IF k - 1 \in S THEN Power[k - 1] ELSE 0
             IN  sum[Width]
BitsIn(b) == {k \in Bits : (b \div Power[k]) % 2 = 1}
BytesOf(v) == [i \in 1 .. v.size |-> ByteOf(v.byte[i - 1])]
VectorFrom(s) == Vector(Len(s), [i \in 0 .. Len(s) - 1 |-> BitsIn(s[i + 1])])

Fetched == VectorFrom(Decode(algorithm, data))
Encoded(v) == IF v.size = 0 THEN <<>> ELSE Encode(algorithm, BytesOf(v))

(* The bit that is set, in a vector that grows for it; nothing is shortened.  *)
Inserted(v, i) == setmask(v, i, 1).vector

Removed(v, i) == shorten(setmask(v, i, 0).vector)

(* A posting as the insertions before left it, and the number after its last. *)
After(K) == IF K = {} THEN 0 ELSE 1 + CHOOSE i \in K : \A j \in K : j <= i
SetOf(K) == LET v[n \in 0 .. After(K)] ==
                  IF n = 0 THEN Empty
                  ELSE IF n - 1 \in K THEN Inserted(v[n - 1], n - 1) ELSE v[n - 1]
            IN  v[After(K)]

Init ==
  /\ algorithm \in Algorithms
  /\ holders \in Kept
  /\ data = Encoded(SetOf(holders))
  /\ next = After(holders)

(* Statements with other terms take the numbers in between.                   *)
Insert(i) ==
  /\ i >= next
  /\ next' = i + 1
  /\ data' = Encoded(Inserted(Fetched, i))
  /\ holders' = holders \cup {i}
  /\ UNCHANGED algorithm

Remove(i) ==
  /\ i \in holders
  /\ data' = Encoded(Removed(Fetched, i))
  /\ holders' = holders \ {i}
  /\ UNCHANGED <<algorithm, next>>

Next == \E i \in Numbers : Insert(i) \/ Remove(i)
Spec == Init /\ [][Next]_vars

-----------------------------------------------------------------------------
(* A code is a sequence of bytes, and the vector it decodes to is no longer   *)
(* than the highest number given out, rounded up to the next step.            *)
TypeOK ==
  /\ algorithm \in Algorithms /\ next \in Nat /\ holders \subseteq Nat
  /\ data \in Seq(Bytes)
  /\ LET v == Fetched
     IN  IsVector(v) /\ (v.size # 0 => Width * (v.size - STEP) < next)

(* A posting without statements is not there: rdfstore_remove deletes its key.*)
EmptyIsAbsent == data = <<>> <=> holders = {}

(* The posting decodes to the statements with the term, whatever was inserted *)
(* and removed and in whichever codec: what every search, removal and         *)
(* combination of postings takes for granted.                                 *)
PostingExact == Members(Fetched) = holders /\ EmptyIsAbsent
=============================================================================
