---------------------------- MODULE RdfIterator ----------------------------
(* rdfstore_iterator.c: iterators over the statements of a store, opened by   *)
(* rdfstore_elements, rdfstore_search and rdfstore_fetch_object, walked,      *)
(* combined and closed while statements come and go. An iterator is a copy of *)
(* the bits that were set when it was opened. The calls that only read it     *)
(* (current, contains, size) are operators.                                   *)
EXTENDS RdfSearch

CONSTANTS
  Iterators,  \* the iterators the program has room for
  Opening,    \* the patterns of which a search makes an iterator
  MaxCalls    \* bound: calls on iterators

ASSUME IteratorConstants == MaxCalls \in Nat /\ Opening \subseteq Patterns

VARIABLES
  stored,  \* the identifiers of the statements that are stored
  next,    \* the identifier of the next one
  open,    \* the iterators that are open
  iter,    \* what each iterator is: an empty one when not open
  walk,    \* history: the statements a walk over an iterator came to
  calls
vars == <<stored, next, open, iter, walk, calls>>

(* A walk is "fresh" before it begins, then a sequence of each or a loop of   *)
(* first and next; "ended" when each told that there are no more, "cut" when  *)
(* calls were mixed or a member was removed.                                  *)
Walks == [how : {"fresh", "each", "loop", "ended", "cut"}, seen : Seq(Ids)]
Fresh == [how |-> "fresh", seen |-> <<>>]

Opened(v) == [ids |-> v, pos |-> 0, st_counter |-> 0, size |-> Cardinality(Members(v))]
IsOpen(x) == x \in open

Init ==
  /\ stored = {} /\ next = 0
  /\ open = {} /\ iter = [x \in Iterators |-> Opened(Empty)]
  /\ walk = [x \in Iterators |-> Fresh] /\ calls = 0

Called == calls < MaxCalls /\ calls' = calls + 1
OnStore == UNCHANGED <<open, iter, walk, calls>>
OnIterators == UNCHANGED <<stored, next>>

-----------------------------------------------------------------------------
(* The store: an identifier is never used again, and a statement is stored   *)
(* under one at a time.                                                      *)
Identity(s) == <<s.subject, s.predicate, s.object, s.context>>
Id(s) == {i \in stored : Identity(What[i]) = Identity(s)}

Insert ==
  /\ next \in Ids /\ next' = next + 1
  /\ stored' = IF Id(What[next]) = {} THEN stored \cup {next} ELSE stored
  /\ OnStore

RemoveStored ==
  /\ \E i \in stored : stored' = stored \ {i}
  /\ UNCHANGED next /\ OnStore

-----------------------------------------------------------------------------
(* Opening and closing. *)
Open(x, v) ==
  /\ ~IsOpen(x) /\ Called /\ OnIterators
  /\ open' = open \cup {x}
  /\ iter' = [iter EXCEPT ![x] = Opened(v)]
  /\ walk' = [walk EXCEPT ![x] = Fresh]

OpenElements(x) == Open(x, Elements(stored))

OpenSearch(x) ==
  \E tp \in Opening : Search(stored, tp) # None /\ Open(x, Search(stored, tp))

OpenObject(x) ==
  \E n \in Resources : Open(x, FetchObject(stored, n, None))

Close(x) ==
  /\ IsOpen(x) /\ Called /\ OnIterators
  /\ open' = open \ {x}
  /\ iter' = [iter EXCEPT ![x] = Opened(Empty)]
  /\ walk' = [walk EXCEPT ![x] = Fresh]

Duplicate(x, z) ==
  /\ IsOpen(x) /\ ~IsOpen(z) /\ Called /\ OnIterators
  /\ open' = open \cup {z}
  /\ iter' = [iter EXCEPT ![z] = iter[x]]
  /\ walk' = [walk EXCEPT ![z] = walk[x]]

-----------------------------------------------------------------------------
(* Walking. rdfstore_iterator_fetch_statement finds what is still stored.    *)
HasNext(it) == it.st_counter < it.size
PastEnd(it, p) == p >= Width * it.ids.size
Fetched(it, p) == IF it.size > 0 /\ p \in stored THEN <<p>> ELSE <<>>
Came(it, p) == IF PastEnd(it, p) THEN <<>> ELSE Fetched(it, p)
Reset(it) == [it EXCEPT !.pos = 0, !.st_counter = 0]

Moves(x, it, w) ==
  /\ Called /\ OnIterators /\ UNCHANGED open
  /\ iter' = [iter EXCEPT ![x] = it]
  /\ walk' = [walk EXCEPT ![x] = w]

First(x) ==
  /\ IsOpen(x)
  /\ \E p \in getfirstsetafter(iter[x].ids, 0) :
       Moves(x, [Reset(iter[x]) EXCEPT !.pos = p],
                [how |-> "loop", seen |-> Came(iter[x], p)])

Next_(x) ==
  /\ IsOpen(x)
  /\ \E p \in getfirstsetafter(iter[x].ids, iter[x].pos + 1) :
       Moves(x, [iter[x] EXCEPT !.pos = p, !.st_counter = @ + 1],
                IF walk[x].how = "loop"
                THEN [walk[x] EXCEPT !.seen = @ \o Came(iter[x], p)]
                ELSE [how |-> "cut", seen |-> <<>>])

(* The statement an iterator is at, or one of its nodes. Some statements have *)
(* no context; subject, predicate and object are there whenever the statement *)
(* is, and move an iterator like it.                                          *)
Terms == {"statement", "context"}
Term(it, p, part) ==
  IF Came(it, p) = <<>> THEN None ELSE IF part = "statement" THEN p ELSE What[p][part]

(* each stops, and starts again, when all were counted, when no bit is left   *)
(* and when the statement is gone or has no such node; else it hops over what *)
(* it found.                                                                  *)
(* mutant: each counts on and stays where it is. *)
Mut_HopStays(it, p) == [it EXCEPT !.pos = p, !.st_counter = @ + 1]
Hop(it, p) == [it EXCEPT !.pos = p + 1, !.st_counter = @ + 1]

Ended(w) ==
  CASE w.how = "each"              -> [w EXCEPT !.how = "ended"]
    [] w.how \in {"fresh", "ended"} -> [how |-> "ended", seen |-> <<>>]
    [] OTHER                       -> Fresh
Walked(w, p) ==
  CASE w.how = "each"              -> [w EXCEPT !.seen = Append(@, p)]
    [] w.how \in {"fresh", "ended"} -> [how |-> "each", seen |-> <<p>>]
    [] OTHER                       -> [how |-> "cut", seen |-> <<>>]

EachEnds(x) == Moves(x, Reset(iter[x]), Ended(walk[x]))

EachTerm(x, p, part) ==
  CASE Came(iter[x], p) = <<>>          -> EachEnds(x)
    [] Term(iter[x], p, part) # None    -> Moves(x, Hop(iter[x], p), Walked(walk[x], p))
    [] OTHER                            -> Moves(x, Reset(iter[x]), Fresh)

Each(x) ==
  /\ IsOpen(x)
  /\ \/ ~HasNext(iter[x]) /\ EachEnds(x)
     \/ /\ HasNext(iter[x])
        /\ \E p \in getfirstsetafter(iter[x].ids, iter[x].pos), part \in Terms :
             EachTerm(x, p, part)

(* remove clears the bit at the position, whatever it is, in a vector that   *)
(* may grow for it; the count follows when the bit was set.                  *)
(* mutant: the count follows in any case. *)
Mut_CountsAnyway(it, done) ==
  [it EXCEPT !.ids = shorten(done.vector), !.size = IF @ > 0 THEN @ - 1 ELSE 0]
Cleared(it, done) ==
  IF ~done.changed THEN [it EXCEPT !.ids = done.vector]
  ELSE [it EXCEPT !.ids = shorten(done.vector), !.size = @ - 1]

RemoveHere(x) ==
  /\ IsOpen(x)
  /\ LET done == setmask(iter[x].ids, iter[x].pos, 0)
     IN  Moves(x, Cleared(iter[x], done),
               IF done.changed THEN [how |-> "cut", seen |-> <<>>] ELSE walk[x])

-----------------------------------------------------------------------------
(* Combining two iterators, or one and all the statements, makes another.    *)
intersect(a, b) == shorten(and(a.ids, b.ids))
unite(a, b) == shorten(or(a.ids, b.ids))
exor_(a, b) == shorten(exor(a.ids, b.ids))
subtract(a, b) ==
  shorten(and(a.ids, [b.ids EXCEPT !.byte = [i \in DOMAIN @ |-> Bits \ @[i]]]))
complement(a) == shorten(and(shorten(not(a.ids)), Elements(stored)))

Intersect(x, y, z)  == IsOpen(x) /\ IsOpen(y) /\ Open(z, intersect(iter[x], iter[y]))
Unite(x, y, z)      == IsOpen(x) /\ IsOpen(y) /\ Open(z, unite(iter[x], iter[y]))
Exor(x, y, z)       == IsOpen(x) /\ IsOpen(y) /\ Open(z, exor_(iter[x], iter[y]))
Subtract(x, y, z)   == IsOpen(x) /\ IsOpen(y) /\ Open(z, subtract(iter[x], iter[y]))
Complement(x, z)    == IsOpen(x) /\ Open(z, complement(iter[x]))

(* contains looks the statement up in the store, then for its bit. *)
ContainsStatement(it, s) ==
  /\ Id(s) # {}
  /\ \E i \in Id(s) : LET r == isanyset(it.ids, i) IN r.found /\ r.at = i

Next ==
  \/ Insert \/ RemoveStored
  \/ \E x \in Iterators :
       \/ OpenElements(x) \/ OpenSearch(x) \/ OpenObject(x) \/ Close(x)
       \/ First(x) \/ Next_(x) \/ Each(x) \/ RemoveHere(x)
       \/ \E z \in Iterators :
            \/ Duplicate(x, z) \/ Complement(x, z)
            \/ \E y \in Iterators :
                 Intersect(x, y, z) \/ Unite(x, y, z) \/ Exor(x, y, z) \/ Subtract(x, y, z)

Spec == Init /\ [][Next]_vars

-----------------------------------------------------------------------------
(* Every iterator is a vector of bits with counters, every walk a sequence of *)
(* statements; and the size an iterator tells, counted down by remove and     *)
(* never counted again, is the number of its bits, however it was made and    *)
(* cut down.                                                                  *)
TypeOK ==
  /\ stored \in SUBSET Ids /\ next \in Nat /\ calls \in 0 .. MaxCalls
  /\ open \subseteq Iterators /\ walk \in [Iterators -> Walks]
  /\ \A x \in open :
       /\ DOMAIN iter[x] = {"ids", "pos", "st_counter", "size"}
       /\ IsVector(iter[x].ids)
       /\ iter[x].pos \in Nat /\ iter[x].st_counter \in Nat
       /\ iter[x].size = Cardinality(Members(iter[x].ids))

(* A loop of first and next as long as hasnext, and a repeated each until it  *)
(* gives nothing, come to every statement of the iterator once and in order,  *)
(* whatever is inserted meanwhile, in the iterator and in a duplicate made    *)
(* half way. The walk must be of one kind and no member removed.              *)
Whole(it) == Members(it.ids) \subseteq stored
Over(x) == walk[x].how = "ended" \/ (walk[x].how = "loop" /\ ~HasNext(iter[x]))
WalkExact ==
  \A x \in open : Whole(iter[x]) /\ walk[x].how # "cut" =>
    LET all == InOrder(Members(iter[x].ids))
    IN  /\ IsPrefix(walk[x].seen, all)
        /\ Over(x) => walk[x].seen = all
        /\ walk[x].how = "loop" /\ HasNext(iter[x]) =>
             walk[x].seen # <<>> /\ Last(walk[x].seen) = iter[x].pos

(* What intersect, unite and exor make of two iterators is what the two have  *)
(* in common, together, and in the first alone, whatever the lengths of the   *)
(* vectors; subtract and complement give nothing they should not, and contains*)
(* is true of the stored members.                                             *)
CombinationsExact ==
  \A x \in open :
    LET a == iter[x]  A == Members(a.ids)
    IN  /\ Members(complement(a)) \subseteq stored \ A
        /\ \A i \in Ids : ContainsStatement(a, What[i]) <=> Id(What[i]) \cap A # {}
        /\ \A y \in open :
             LET b == iter[y]  B == Members(b.ids)
             IN  /\ Members(intersect(a, b)) = A \cap B
                 /\ Members(unite(a, b)) = A \cup B
                 /\ Members(exor_(a, b)) = A \ B
                 /\ Members(subtract(a, b)) \subseteq A \ B

AllClosed == open = {}

(* A search finds nothing that does not have a key in common with every part  *)
(* of the pattern, and everything that has all the keys of the parts asked    *)
(* with AND and one of the others; it is exact when no part is asked with AND. *)
(* Words alone find nothing where there is no free text.                      *)
OnlyOr(tp) == \A k \in DOMAIN Parts : Parts[k] = "ranges" \/ tp.operator[Parts[k]] # AllOf
SearchExact ==
  AllClosed => \A tp \in Patterns :
    LET v == Search(stored, tp)
    IN  IF v = None THEN Refused(tp) \/ Unanswered(stored, tp)
        ELSE IF OnlyWords(tp) THEN v = Empty
        ELSE /\ Matches(stored, tp) \subseteq Members(v)
             /\ Members(v) \subseteq MatchesSome(stored, tp)
             /\ OnlyOr(tp) => Members(v) = Matches(stored, tp)

(* fetch_object finds only statements of the description of the node, and all *)
(* of them when no anonymous node of it leads back to itself and there are    *)
(* fewer of them than levels.                                                 *)
FetchExact ==
  AllClosed => \A n \in Resources, c \in Contexts \cup {None} :
    LET found == Members(FetchObject(stored, n, c))
    IN  /\ found \subseteq Description(stored, n, c)
        /\ ~Cyclic(stored, n, c) /\ Cardinality(Blank) < MaxLevels =>
             found = Description(stored, n, c)

(* fetch_object as the comment above it has it: the description is closed     *)
(* under the anonymous objects of its statements.                             *)
FetchComplete ==
  AllClosed => \A n \in Resources :
    Members(FetchObject(stored, n, None)) = Description(stored, n, None)
=============================================================================
