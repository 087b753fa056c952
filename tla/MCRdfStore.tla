----------------------------- MODULE MCRdfStore -----------------------------
(* Instances of RdfStore for TLC. *)
EXTENDS RdfStore, TLC

CONSTANTS h1, h2, n1, n2, n3, g1, w1, w2, w3, v1, v2

MCContexts  == {g1}
MCNodes     == {n1, n2, n3, g1}
MCIdentity  == [n \in MCNodes |-> n]
MCWords     == {w1, w2, w3}
MCLanguages == {"en"}
MCDatatypes == {"integer", "date", "float"}
MCDateTypes == {"date"}
MCValues    == {v1, v2}

Statement(s, o, words) ==
  [subject |-> s, predicate |-> n2, object |-> o, words |-> words,
   lang |-> None, datatype |-> None, date |-> None, integer |-> None,
   double |-> None, wellFormed |-> TRUE]

(* "w1 w2"@en; a date sharing a word with it; a number sharing the other; *)
(* a resource                                                             *)
Text   == [Statement(n1, n3, <<w1, w2>>) EXCEPT !.lang = "en"]
Day    == [Statement(n1, n2, <<w1, w3>>) EXCEPT !.datatype = "date", !.date = v1]
Number == [Statement(n3, n1, <<w2>>) EXCEPT !.datatype = "integer",
                                            !.integer = v1, !.double = v1]
Ratio  == [Statement(n3, n1, <<w3>>) EXCEPT !.datatype = "float", !.double = v2]
Link   == Statement(n1, n3, <<>>)

(* "w1 w1": two words with a stem in common *)
Echo   == Statement(n1, n3, <<w1, w1>>)
Broken == [Statement(n1, n3, <<>>) EXCEPT !.datatype = "float", !.wellFormed = FALSE]

Obj(s, c)  == [st |-> s, ctx |-> c, kept |-> FALSE]
Kept(s, c) == [st |-> s, ctx |-> c, kept |-> TRUE]

OnlyNone == {None}
NoContexts == {}
NoneOrG1 == {None, g1}

(* injective hash codes: the statement's name and the context *)
Name(s) == CASE s = Text -> "Text" [] s = Day -> "Day" [] s = Number -> "Number"
             [] s = Ratio -> "Ratio" [] s = Link -> "Link" [] s = Echo -> "Echo"
             [] s = Broken -> "Broken"
MCDigest  == [q \in Statements \X OrNone(Contexts) |-> <<Name(q[1]), q[2]>>]
MCDigests == {<<Name(s), c>> : s \in Statements, c \in OrNone(Contexts)}

TwoHandles == {h1, h2}
Symmetry   == Permutations(TwoHandles)
OneHandle  == {h1}

SeqStatements == {Text, Day, Number, Ratio}
SeqObjects == {Obj(Text, None), Obj(Text, g1), Obj(Day, g1), Obj(Number, None),
               Obj(Ratio, None)}

FaultStatements == {Text, Day, Ratio, Broken}
FaultObjects == {Obj(Text, None), Obj(Day, g1), Obj(Ratio, None), Obj(Broken, None)}

EchoStatements == {Echo, Text}
EchoObjects == {Obj(Echo, None), Obj(Text, None)}

LinkStatements == {Link}
LinkObjects == {Obj(Link, None)}
KeptObjects == {Kept(Link, None)}

PairStatements == {Link, Day}
PairObjects    == {Obj(Link, None), Obj(Day, None)}
=============================================================================
