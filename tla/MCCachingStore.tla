--------------------------- MODULE MCCachingStore ---------------------------
(* Instances of CachingStore for TLC. *)
EXTENDS CachingStore, TLC

CONSTANTS k1, k2, k3

ThreeKeys == {k1, k2, k3}
TwoKeys   == {k1, k2}
Symmetry  == Permutations(Key)

(* A table of plain keys; a table with one key that is only read and       *)
(* written compressed; a key that is used both ways.                       *)
AllPlain  == [plain |-> Key, packed |-> {}]
OnePacked == {[plain |-> Key \ {k}, packed |-> {k}] : k \in Key}
OneMixed  == {[plain |-> {k}, packed |-> {k}] : k \in Key}
MCUsages  == {AllPlain} \cup OnePacked \cup OneMixed
PlainOnly == {AllPlain}
=============================================================================
