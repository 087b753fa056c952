--------------------------- MODULE MCRdfIterator ---------------------------
(* Small stores for RdfIterator: two resources, two anonymous nodes, literals *)
(* with a word, a language or a number, and one context; and a store with a   *)
(* cycle of anonymous nodes and a chain behind it.                            *)
EXTENDS RdfIterator, TLC

CONSTANTS res, b1, b2, b3, b4, b5, p1, p2, ctx, w1, w2, en, lit, dt

S(s, pr, o, cx) ==
  [subject |-> s, predicate |-> pr, object |-> o, context |-> cx,
   words |-> {}, lang |-> None, datatype |-> None, value |-> None]

SmallWhat == 0 :> S(res, p1, b1, None)
          @@ 1 :> [S(b1, p1, lit, None) EXCEPT !.words = {w1, w2}, !.lang = en]
          @@ 2 :> S(b1, p2, b2, ctx)
          @@ 3 :> [S(b2, p1, 1, ctx) EXCEPT !.words = {w2}, !.datatype = dt, !.value = 1]
SmallIds == DOMAIN SmallWhat

(* A pattern asks for nothing but what is given. *)
Nothing == [k \in {"words", "subjects", "predicates", "objects", "langs", "dts", "ranges", "contexts"} |-> <<>>]
Asking(f, ops) ==
  [k \in DOMAIN Nothing \cup {"operator"} |->
     IF k = "operator" THEN [j \in DOMAIN Nothing |-> IF j \in DOMAIN ops THEN ops[j] ELSE 0]
     ELSE IF k \in DOMAIN f THEN f[k] ELSE <<>>]

Lists == {<<b1>>, <<b1, b2>>, <<res, b2>>}
SmallPatterns ==
  {Asking(<<>>, <<>>)}
  \cup {Asking("subjects" :> ss @@ "predicates" :> pp, "subjects" :> op) :
          ss \in Lists, pp \in {<<>>, <<p1>>, <<p1, p2>>}, op \in {0, 1}}
  \cup {Asking("words" :> <<w1, w2>> @@ "contexts" :> cs @@ "langs" :> ls, "words" :> op) :
          cs \in {<<>>, <<ctx>>}, ls \in {<<>>, <<en>>}, op \in {0, 1, 3}}
  \cup {Asking("ranges" :> r @@ "dts" :> ds @@ "contexts" :> cs, "ranges" :> op) :
          r \in {<<1, 2>>, <<2>>}, ds \in {<<>>, <<dt>>}, cs \in {<<>>, <<ctx>>}, op \in 0 .. 11}
  \cup {Asking("objects" :> <<b2, lit>> @@ "words" :> ws, "objects" :> op) :
          ws \in {<<>>, <<w1>>}, op \in {0, 1}}

(* The one that makes an iterator. *)
SmallOpening == {Asking("subjects" :> <<b1>> @@ "predicates" :> <<p1, p2>>, <<>>)}

CyclicWhat == 0 :> S(res, p1, b1, None) @@ 1 :> S(b1, p1, b2, None) @@ 2 :> S(b2, p1, b1, None)
           @@ 3 :> S(b1, p2, b3, None) @@ 4 :> S(b3, p1, b4, None) @@ 5 :> S(b4, p1, b5, None)
           @@ 6 :> S(b5, p1, lit, None)
CyclicIds == DOMAIN CyclicWhat

Alike == Permutations(Iterators)
=============================================================================
