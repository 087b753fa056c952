----------------------------- MODULE MCPosting -----------------------------
(* Postings in bytes of three bits: a length of 7 fits a byte, one of 63 two. *)
EXTENDS Posting

AllAlgorithms == {"none", "nulls", "bits", "rle"}

(* No statements; five and ten bytes full; bytes with two bits; one bit in    *)
(* each of seven bytes, and a far one.                                        *)
SmallKept == {{}, 0 .. 14, 0 .. 29, {i \in 0 .. 14 : i % 3 < 2},
              {i \in 0 .. 20 : i % 3 = 1} \cup {60}}
SmallNumbers == {0, 6, 13, 22, 26, 50, 100}

(* Just below and above 2^6 bytes. *)
FarKept    == {{}}
FarNumbers == {0, 1, 189, 191, 192, 200}
=============================================================================
