----------------------------- MODULE RdfSearch -----------------------------
(* rdfstore_search and rdfstore_fetch_object of rdfstore_kernel.c, over the  *)
(* postings of the statements that are stored: vectors of bits, combined     *)
(* byte by byte. Whether the postings are right is the matter of RdfStore.   *)
EXTENDS BitVector, Sequences, FiniteSetsExt, SequencesExt

CONSTANTS
  None,
  Ids,         \* the identifiers of statements: an interval of numbers from 0
  What,        \* the statement that each of them stands for
  Patterns,    \* triple patterns
  Resources,   \* the nodes that fetch_object is asked for
  Contexts,
  Blank,       \* the nodes that are anonymous
  Freetext,    \* me->freetext
  MaxLevels,   \* RDFSTORE_MAX_FETCH_OBJECT_DEEPNESS: 20
  MaxBytes     \* RDFSTORE_MAXRECORDS_BYTES_SIZE: the room for a vector

(* The parts of a pattern in the order in which they are joined, and the keys *)
(* under which a statement is found in the table of each.                    *)
Parts == <<"words", "subjects", "predicates", "objects", "langs", "dts", "ranges", "contexts">>
Of(v) == {v} \ {None}
KeysOf(part, s) ==
  CASE part = "words"      -> s.words
    [] part = "subjects"   -> {s.subject}
    [] part = "predicates" -> {s.predicate}
    [] part = "objects"    -> {s.object}
    [] part = "langs"      -> Of(s.lang)
    [] part = "dts"        -> Of(s.datatype)
    [] part = "ranges"     -> Of(s.value)
    [] part = "contexts"   -> Of(s.context)

(* A pattern has a list of keys for each part and an operator for it; 2, NOT, *)
(* "is not implemented yet" and works on what it finds in a buffer. Numbers   *)
(* of statements, and so vectors, have room in the buffers.                   *)
AnyOf == 0
AllOf == 1
IsPattern(tp) ==
  /\ \A k \in DOMAIN Parts :
       LET part == Parts[k]
       IN  /\ tp[part] \in Seq(Range(tp[part])) /\ tp.operator[part] \in Nat
           /\ part = "ranges" \/ tp[part] = <<>> \/ tp.operator[part] # 2
  /\ tp.ranges \in Seq(Int)

Nodes == Resources \cup Blank
Vectors == UNION {[size : {n}, byte : [0 .. n - 1 -> SUBSET Bits]] : n \in 0 .. MaxBytes}

ASSUME SearchConstants ==
  /\ MaxBytes \in Nat /\ MaxBytes % STEP = 0 /\ Ids \subseteq 0 .. Width * MaxBytes - 1
  /\ MaxLevels \in Nat /\ IsFiniteSet(Blank) /\ Freetext \in BOOLEAN /\ None \notin Vectors
  /\ \A i \in Ids : What[i].value \in Int \cup {None}
  /\ \A tp \in Patterns : IsPattern(tp)

(* The numbers of a set, in their order. *)
InOrder(S) ==
  [k \in 1 .. Cardinality(S) |-> CHOOSE i \in S : Cardinality({j \in S : j < i}) = k - 1]

(* The posting of a key, as the insertions left it, setting bit after bit.   *)
VectorOf(S) == FoldSet(LAMBDA i, v : setmask(v, i, 1).vector, Empty, S)
Having(stored, part, key) == {i \in stored : key \in KeysOf(part, What[i])}
Posting(stored, part, key) == VectorOf(Having(stored, part, key))

-----------------------------------------------------------------------------
(* The keys of one part. A key that is in no statement is passed over; so is *)
(* what came before when nothing is left of it.                              *)
Combine(op, acc, v) ==
  IF v.size = 0 THEN acc
  ELSE IF acc.size = 0 THEN v
  ELSE IF op = AllOf THEN and(acc, v) ELSE or(acc, v)

PartBits(stored, part, op, keys) ==
  FoldLeft(LAMBDA acc, k : Combine(op, acc, Posting(stored, part, k)), Empty, keys)

(* The keys of a range, in the order of the B-tree: from the first to a      *)
(* bound, from a bound to the last, or all. Two bounds make two parts.       *)
Numbers == UNION {KeysOf("ranges", What[i]) : i \in Ids}
Scan(stored, S) ==
  PartBits(stored, "ranges", AnyOf,
           InOrder({x \in S : Having(stored, "ranges", x) # {}}))

Below(stored, b, strict) == Scan(stored, {x \in Numbers : x < b \/ (x = b /\ ~strict)})
Above(stored, b, strict) == Scan(stored, {x \in Numbers : b < x \/ (x = b /\ ~strict)})
EqualTo(stored, b)       == Posting(stored, "ranges", b)
UnequalTo(stored, b)     == Scan(stored, Numbers \ {b})
Between(stored, op, a, b) ==
  <<Above(stored, a, op \in {7, 10}), Below(stored, b, op \in {7, 8})>>

RangeBits(stored, op, b) ==
  CASE op = 0         -> <<Empty>>
    [] op \in {1, 2}  -> <<Below(stored, b[1], op = 1)>>
    [] op = 3         -> <<EqualTo(stored, b[1])>>
    [] op = 4         -> <<UnequalTo(stored, b[1])>>
    [] op \in {5, 6}  -> <<Above(stored, b[1], op = 6)>>
    [] op \in 7 .. 10 -> Between(stored, op, b[1], b[2])

(* The patterns that are refused, before or in the middle of the search.     *)
Refused(tp) ==
  \/ \E k \in DOMAIN Parts :
       tp[Parts[k]] # <<>> /\ tp.operator[Parts[k]] > (IF Parts[k] = "ranges" THEN 10 ELSE 2)
  \/ Freetext /\ tp.words # <<>> /\ tp.objects # <<>>
Unanswered(stored, tp) ==
  tp.ranges # <<>> /\ \/ tp.operator["ranges"] \in 7 .. 10 /\ Len(tp.ranges) < 2
                      \/ /\ tp.operator["ranges"] = 3
                         /\ Having(stored, "ranges", tp.ranges[1]) = {}

(* Each part in its place in the code.                                       *)
WordsBits(stored, tp)      == PartBits(stored, "words", tp.operator.words, tp.words)
SubjectsBits(stored, tp)   == PartBits(stored, "subjects", tp.operator.subjects, tp.subjects)
PredicatesBits(stored, tp) == PartBits(stored, "predicates", tp.operator.predicates, tp.predicates)
ObjectsBits(stored, tp)    == PartBits(stored, "objects", tp.operator.objects, tp.objects)
LangsBits(stored, tp)      == PartBits(stored, "langs", tp.operator.langs, tp.langs)
DatatypesBits(stored, tp)  == PartBits(stored, "dts", tp.operator.dts, tp.dts)
ContextsBits(stored, tp)   == PartBits(stored, "contexts", tp.operator.contexts, tp.contexts)

BitsOf(stored, tp, part) ==
  CASE part = "words"      -> <<WordsBits(stored, tp)>>
    [] part = "subjects"   -> <<SubjectsBits(stored, tp)>>
    [] part = "predicates" -> <<PredicatesBits(stored, tp)>>
    [] part = "objects"    -> <<ObjectsBits(stored, tp)>>
    [] part = "langs"      -> <<LangsBits(stored, tp)>>
    [] part = "dts"        -> <<DatatypesBits(stored, tp)>>
    [] part = "ranges"     -> RangeBits(stored, tp.operator.ranges, tp.ranges)
    [] part = "contexts"   -> <<ContextsBits(stored, tp)>>

(* What remains of the parts joined so far. A part with nothing in it, or    *)
(* nothing in common with the others, ends the search.                       *)

(* mutant: the parts of a pattern are alternatives. *)
Mut_JoinAny(acc, v) ==
  IF acc.state # "going" THEN acc
  ELSE IF v.size = 0 THEN [acc EXCEPT !.state = "ended"]
  ELSE [acc EXCEPT !.bits = or(acc.bits, v)]

Join(acc, v) ==
  IF acc.state # "going" THEN acc
  ELSE IF v.size = 0 THEN [acc EXCEPT !.state = "ended"]
  ELSE IF acc.bits.size = 0 THEN [acc EXCEPT !.bits = shorten(v)]
  ELSE LET both == and(acc.bits, v)
       IN  IF both.size = 0 THEN [acc EXCEPT !.state = "ended"] ELSE [acc EXCEPT !.bits = both]

Asked(tp, part) == tp[part] # <<>> /\ (part = "words" => Freetext)

JoinPart(stored, tp, acc, part) ==
  IF acc.state # "going" \/ ~Asked(tp, part) THEN acc
  ELSE IF part = "ranges" /\ Unanswered(stored, tp) THEN [acc EXCEPT !.state = "refused"]
  ELSE FoldLeft(Join, acc, BitsOf(stored, tp, part))

(* rdfstore_elements: the values of the statements table, as they come. *)
Elements(stored) == VectorOf(stored)

(* rdfstore_search: the vector of an iterator, or None for NULL *)
Search(stored, tp) ==
  IF Refused(tp) THEN None
  ELSE IF \A k \in DOMAIN Parts : tp[Parts[k]] = <<>> THEN Elements(stored)
  ELSE LET done == FoldLeft(LAMBDA acc, p : JoinPart(stored, tp, acc, p),
                            [state |-> "going", bits |-> Empty], Parts)
       IN  CASE done.state = "going"   -> done.bits
             [] done.state = "ended"   -> Empty
             [] done.state = "refused" -> None

-----------------------------------------------------------------------------
(* fetch_object: the statements about a node, and about the anonymous nodes  *)
(* among their objects, as deep as MaxLevels. What is out already was        *)
(* visited; what is being visited joins it only afterwards.                  *)
InContext(stored, v, c) ==
  IF c = None THEN v ELSE and(v, Posting(stored, "contexts", c))

(* mutant: what is out is not left out. *)
Mut_OwnAll(stored, n, c, out) ==
  shorten(InContext(stored, Posting(stored, "subjects", n), None))

Own(stored, n, c, out) ==
  shorten(InContext(stored, exor(Posting(stored, "subjects", n), out), c))

Around(visit, out, own) ==
  FoldLeft(LAMBDA o, i : IF What[i].object \in Blank THEN visit[What[i].object][o] ELSE o,
           out, InOrder(Members(own)))

Visit(stored, c) ==
  LET visit[level \in 0 .. MaxLevels] ==
        [n \in Nodes |-> [out \in Vectors |->
           IF level = MaxLevels THEN out
           ELSE LET own == Own(stored, n, c, out) IN or(Around(visit[level + 1], out, own), own)]]
  IN  visit[0]

FetchObject(stored, n, c) ==
  IF c # None /\ Having(stored, "contexts", c) = {} THEN Empty
  ELSE Visit(stored, c)[n][Empty]

-----------------------------------------------------------------------------
(* What they should find. *)
Within(op, x, b) ==
  CASE op = 1 -> x < b[1] [] op = 2 -> x <= b[1] [] op = 3 -> x = b[1] [] op = 4 -> x # b[1]
    [] op = 5 -> x >= b[1] [] op = 6 -> x > b[1]
    [] op = 7 -> b[1] < x /\ x < b[2] [] op = 8 -> b[1] <= x /\ x < b[2]
    [] op = 9 -> b[1] <= x /\ x <= b[2] [] op = 10 -> b[1] < x /\ x <= b[2]
    [] OTHER -> FALSE
Keyed(part, i, tp) == KeysOf(part, What[i]) \cap Range(tp[part])
InRange(tp, i) == \E x \in KeysOf("ranges", What[i]) : Within(tp.operator["ranges"], x, tp.ranges)
HasSome(part, i, tp) == IF part = "ranges" THEN InRange(tp, i) ELSE Keyed(part, i, tp) # {}
HasAll(part, i, tp) ==
  IF part = "ranges" \/ tp.operator[part] # AllOf THEN HasSome(part, i, tp)
  ELSE Range(tp[part]) \subseteq KeysOf(part, What[i])

AskedParts(tp) == {part \in Range(Parts) : Asked(tp, part)}
MatchesSome(stored, tp) == {i \in stored : \A part \in AskedParts(tp) : HasSome(part, i, tp)}
Matches(stored, tp) == {i \in stored : \A part \in AskedParts(tp) : HasAll(part, i, tp)}
OnlyWords(tp) == AskedParts(tp) = {} /\ tp.words # <<>>

(* The nodes a description is about: the node, and the anonymous objects of  *)
(* statements about them, in the context.                                    *)
About(stored, n, c) == {i \in stored : What[i].subject = n /\ (c # None => What[i].context = c)}
Closed(stored, N, c) ==
  {What[i].object : i \in UNION {About(stored, n, c) : n \in N}} \cap Blank \subseteq N
Described(stored, N, c) ==
  {m \in N \cup Blank :
     \A M \in SUBSET (N \cup Blank) : N \subseteq M /\ Closed(stored, M, c) => m \in M}
Description(stored, n, c) == UNION {About(stored, m, c) : m \in Described(stored, {n}, c)}

Cyclic(stored, n, c) ==
  \E m \in Described(stored, {n}, c) :
    m \in Described(stored, {What[i].object : i \in About(stored, m, c)} \cap Blank, c)
=============================================================================
