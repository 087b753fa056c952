---------------------------- MODULE MCRdfConnect ----------------------------
(* Instances of RdfConnect for TLC. *)
EXTENDS RdfConnect

CONSTANTS h1, h2, i1, i2, n1, n2, c1, c2, u1, u2

OneHandle  == {h1}
Second == {h2}
TwoHandles == {h1, h2}
MCIterators == {i1, i2}
NoIterators == {}
OneName  == {n1}
TwoNames == {n1, n2}

(* n1 is n2 without a slash at its end *)
SlashPrefix == {<<n1, n1>>, <<n2, n2>>, <<n1, n2>>}
MCVersions == {u1, u2}
MCCodecs   == {c1, c2}

(* both handles run the same code; or h2 runs a version built differently *)
SameVersion == [h \in Handles |-> u1]
SameCodec   == [h \in Handles |-> c1]
OwnCodec    == [h \in Handles |-> IF h = h1 THEN c1 ELSE c2]

Made(version, name, freetext, counter, removed) ==
  [model |-> [version |-> version, name |-> name, freetext |-> freetext,
              compression |-> c2, counter_removed |-> removed, counter |-> counter],
   tables |-> Needed(freetext)]

OnlyNew   == {NoStore}
NewOrMade == {NoStore, Made(u1, n1, TRUE, 1, 1), Made(u1, n2, FALSE, 1, 0),
              Made(u2, n1, TRUE, 0, 0)}
OneStore  == {Made(u1, n1, TRUE, 1, 0)}
=============================================================================
