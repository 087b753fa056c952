----------------------------- MODULE BitVector -----------------------------
(* rdfstore_bits.c: vectors of bits, one for every statement identifier, kept *)
(* as bytes of which only the first size are valid. Byte(v, i) is what the C  *)
(* functions take byte i for: those past the end of the shorter of two        *)
(* vectors are read as zero.                                                  *)
EXTENDS Integers, FiniteSets

CONSTANTS
  Width,   \* bits in a byte: 8
  STEP     \* bytes by which a vector grows: 16

ASSUME BitConstants == Width \in Nat \ {0} /\ STEP \in Nat \ {0}

Bits == 0 .. Width - 1
Byte(v, i) == IF i < v.size THEN v.byte[i] ELSE {}
Vector(n, f) == [size |-> n, byte |-> [i \in 0 .. n - 1 |-> f[i]]]
Empty == Vector(0, <<>>)

IsVector(v) ==
  /\ v.size \in Nat /\ v.byte \in [0 .. v.size - 1 -> SUBSET Bits]
  /\ v = [size |-> v.size, byte |-> v.byte]

(* The positions of the bits that are set; the function stands for a vector. *)
Members(v) == {i \in 0 .. Width * v.size - 1 : i % Width \in Byte(v, i \div Width)}

-----------------------------------------------------------------------------
(* The first n bytes of f without the zero ones at the end: the functions keep *)
(* i+1 for the last byte i that is not zero.                                  *)
Length(n, f) ==
  IF \A i \in 0 .. n - 1 : f[i] = {} THEN 0
  ELSE 1 + CHOOSE i \in 0 .. n - 1 : f[i] # {} /\ \A j \in i + 1 .. n - 1 : f[j] = {}
Cut(n, f) == Vector(Length(n, f), f)

shorten(v) == Cut(v.size, v.byte)

Longer(a, b)  == IF a.size < b.size THEN b.size ELSE a.size
Shorter(a, b) == IF a.size < b.size THEN a.size ELSE b.size

or(a, b) ==
  Cut(Longer(a, b), [i \in 0 .. Longer(a, b) - 1 |-> Byte(a, i) \cup Byte(b, i)])
and(a, b) ==
  Cut(Shorter(a, b), [i \in 0 .. Shorter(a, b) - 1 |-> Byte(a, i) \cap Byte(b, i)])
(* mutant: only the bytes that both vectors have. *)
Mut_exorShort(a, b) ==
  Cut(Shorter(a, b), [i \in 0 .. Shorter(a, b) - 1 |-> Byte(a, i) \ Byte(b, i)])
exor(a, b) ==
  Cut(Longer(a, b),
      [i \in 0 .. Longer(a, b) - 1 |-> (Byte(a, i) \cup Byte(b, i)) \ Byte(b, i)])
not(a) == Cut(a.size, [i \in 0 .. a.size - 1 |-> Bits \ a.byte[i]])

-----------------------------------------------------------------------------
(* setmask, of one bit: a vector too short grows by steps of STEP bytes, that *)
(* are zero; the function also tells whether the bit changed.                 *)
(* mutant: one step more than the position needs. *)
Mut_GrownFar(v, at) ==
  IF at \div Width < v.size THEN v
  ELSE LET n == STEP * (2 + (at \div Width) \div STEP)
       IN  Vector(n, [i \in 0 .. n - 1 |-> Byte(v, i)])

Grown(v, at) ==
  IF at \div Width < v.size THEN v
  ELSE LET n == STEP * (1 + (at \div Width) \div STEP)
       IN  Vector(n, [i \in 0 .. n - 1 |-> Byte(v, i)])

setmask(v, at, value) ==
  LET g == Grown(v, at)
      q == at \div Width
      b == IF value = 1 THEN g.byte[q] \cup {at % Width} ELSE g.byte[q] \ {at % Width}
  IN  [vector |-> [g EXCEPT !.byte[q] = b], changed |-> (b # g.byte[q])]

(* getfirstsetafter: the first bit set at or after a position, or 8*size. A   *)
(* position after the last byte is read nevertheless: what is found there is  *)
(* left by something else, hence the set of results.                          *)
Least(S) == CHOOSE x \in S : \A y \in S : x <= y

getfirstsetafter(v, at) ==
  LET q == at \div Width
      here == {x \in Byte(v, q) : at % Width <= x}
      later == {i \in q + 1 .. v.size - 1 : v.byte[i] # {}}
  IN  IF here # {} THEN {Width * q + Least(here)}
      ELSE IF later # {} THEN {Width * Least(later) + Least(v.byte[Least(later)])}
      ELSE {Width * v.size}
           \cup (IF q < v.size THEN {} ELSE {Width * q + x : x \in {y \in Bits : at % Width <= y}})

(* isanyset, with mask 1: the first byte from at's on with the bit that at    *)
(* has in its own; 0 bits when there is none. The function tells where.       *)
isanyset(v, at) ==
  LET found == {i \in at \div Width .. v.size - 1 : at % Width \in v.byte[i]}
  IN  IF found = {} THEN [found |-> FALSE, at |-> 0]
      ELSE [found |-> TRUE, at |-> Width * Least(found) + (at % Width)]
=============================================================================
