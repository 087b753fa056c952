------------------------------ MODULE RdfStore ------------------------------
(***************************************************************************)
(* The kernel of RDFStore, rdfstore_kernel.c: insertion, removal and       *)
(* membership of statements over flat key/value tables, as every handle    *)
(* connected to the same tables runs it.                                   *)
(*                                                                         *)
(* A process is one `rdfstore *me` handle.  Handles share the tables when  *)
(* they are connected to the same dbmsd server.  Each action is one        *)
(* request to a table (rdfstore_flat_store_fetch, _store, _delete, ...)    *)
(* with the local computation that follows it: a server executes requests  *)
(* one at a time, and nothing else in the kernel is atomic.                *)
(*                                                                         *)
(* The posting tables (subjects, predicates, objects, contexts, windex,    *)
(* languages, datatypes, xsd_date, xsd_integer, xsd_double) are one        *)
(* function `index' from <<table, key>> to the set of statement ids whose  *)
(* bit is set; a key that is absent and a key with no bit set are the same *)
(* thing, for the kernel never stores an empty bitmap.                     *)
(***************************************************************************)
EXTENDS Integers, Sequences, FiniteSets

CONSTANTS
  None,         \* a NULL pointer, an absent key, a field that is not set
  Procs,        \* the handles
  Statements,   \* the statements, see StatementType
  Contexts,     \* the nodes used as contexts
  Objects,      \* the RDF_Statement structures callers pass, see ObjectType
  Givens,       \* what callers pass as given_context
  Defaults,     \* what callers pass to rdfstore_set_context
  Nodes, Hashes, NodeHash,     \* nodes and their 32-bit hash codes
  Digests, Digest,             \* hash codes of <<statement, context>>
  Words, Languages, Datatypes, Values, \* keys of the literal tables
  DateTypes,    \* the datatypes whose literals go to xsd_date
  Freetext,     \* me->freetext
  MaxRecords,   \* RDFSTORE_MAXRECORDS
  MaxFaults     \* bound: requests that may fail in a behaviour

OrNone(S) == S \cup {None}

(***************************************************************************)
(* A statement, reduced to what decides in which tables it is indexed.     *)
(* words is the sequence of windex keys of a literal object, in the order  *)
(* strtok and the stemming loop produce them: a word, then its prefixes,   *)
(* then the next word.  date, integer and double are what                  *)
(* rdfstore_xsd_deserialize_* make of the literal, None when they refuse.  *)
(* wellFormed is FALSE when rdf:parseType and rdf:dataType contradict each *)
(* other.                                                                  *)
(***************************************************************************)
StatementType ==
  [subject: Nodes, predicate: Nodes, object: Nodes,
   words: Seq(Words), lang: OrNone(Languages), datatype: OrNone(Datatypes),
   date: OrNone(Values), integer: OrNone(Values), double: OrNone(Values),
   wellFormed: BOOLEAN]

(***************************************************************************)
(* An RDF_Statement structure: its statement, its own context, and whether *)
(* the caller keeps the structure (and with it the hashcode field) between *)
(* calls or builds a new one each time.                                    *)
(***************************************************************************)
ObjectType == [st: Statements, ctx: OrNone(Contexts), kept: BOOLEAN]

Quads == Statements \X OrNone(Contexts)
Ids   == 0 .. MaxRecords - 1

Entries ==
  ({"windex"} \X Words) \cup ({"languages"} \X Languages)
    \cup ({"datatypes"} \X Datatypes)
    \cup ({"xsd_date", "xsd_integer", "xsd_double"} \X Values)
    \cup ({"subjects", "predicates", "objects", "contexts"} \X Hashes)

ASSUME ConstantTypes ==
  /\ Statements \subseteq StatementType
  /\ Objects \subseteq ObjectType
  /\ Contexts \subseteq Nodes
  /\ Givens \subseteq OrNone(Contexts)
  /\ Defaults \subseteq Contexts
  /\ NodeHash \in [Nodes -> Hashes]
  /\ Digest \in [Quads -> Digests]
  /\ DateTypes \subseteq Datatypes
  /\ Freetext \in BOOLEAN
  /\ MaxRecords \in Nat \ {0}
  /\ MaxFaults \in Nat
ASSUME ProcsFinite == IsFiniteSet(Procs)
ASSUME NoneIsNothing ==
  /\ None \notin Ids
  /\ None \notin Quads
  /\ None \notin Digests
  /\ None \notin Contexts

VARIABLES
  counter,          \* model table: statements ever numbered
  counter_removed,  \* model table: statements removed
  nodes,            \* nodes table: id -> stored statement and its context
  index,            \* the posting tables
  statements,       \* statements table: hash code -> id
  context,          \* me->context of each handle
  hashcode,         \* statement->hashcode of the structures each caller keeps
  call,             \* the call each handle is executing, or its last result
  faults,           \* requests that failed so far
  asserted          \* history: the quad each id was allocated to

tables == <<counter, counter_removed, nodes, index, statements>>
vars   == <<tables, context, hashcode, call, faults, asserted>>

-----------------------------------------------------------------------------
(* Which keys a statement is filed under, and in which order.              *)

Column(table, key) == IF key = None THEN <<>> ELSE << <<table, key>> >>

DateKey(s)   == IF s.datatype \in DateTypes THEN s.date ELSE None
DoubleKey(s) == IF s.integer # None THEN None ELSE s.double

WordEntries(s) ==
  IF Freetext THEN [k \in 1 .. Len(s.words) |-> <<"windex", s.words[k]>>]
              ELSE <<>>

ValueEntries(s) ==
  Column("languages", s.lang) \o Column("datatypes", s.datatype)
    \o Column("xsd_date", DateKey(s)) \o Column("xsd_integer", s.integer)
    \o Column("xsd_double", DoubleKey(s))

NodeEntries(s, c) ==
  << <<"subjects", NodeHash[s.subject]>>,
     <<"predicates", NodeHash[s.predicate]>>,
     <<"objects", NodeHash[s.object]>> >>
    \o (IF c = None THEN <<>> ELSE << <<"contexts", NodeHash[c]>> >>)

(* mutant: the literal's value tables are forgotten by a removal *)
Mut_RemoveForgetsValues(s, c) == NodeEntries(s, c) \o WordEntries(s)

InsertEntries(s, c) == WordEntries(s) \o ValueEntries(s) \o NodeEntries(s, c)
RemoveEntries(s, c) == NodeEntries(s, c) \o WordEntries(s) \o ValueEntries(s)

EntriesOf(q) ==
  {InsertEntries(q[1], q[2])[k] : k \in 1 .. Len(InsertEntries(q[1], q[2]))}

-----------------------------------------------------------------------------
(* The state of a call.  An idle handle keeps only what its last call returned. *)

Ops == {"none", "insert", "remove", "size", "is_empty"}
PCs == {"idle", "exists", "inc", "dec", "nodes", "fetch", "store",
        "statements", "touch", "find", "unnode", "count", "forget",
        "size_removed", "size_counter"}

CallType ==
  [pc: PCs, op: Ops, st: OrNone(Statements), ctx: OrNone(Contexts),
   hc: OrNone(Digests), id: Ids, todo: Seq(Entries), bits: SUBSET Ids,
   ret: {-1, 0, 1}, out: Int]

Returned(ret, out) ==
  [pc |-> "idle", op |-> "none", st |-> None, ctx |-> None, hc |-> None, id |-> 0,
   todo |-> <<>>, bits |-> {}, ret |-> ret, out |-> out]

Idle(p) == call[p].pc = "idle"

Return(p, ret) ==
  call' = [call EXCEPT ![p] = Returned(ret, 0)]

Goto(p, pc) == call' = [call EXCEPT ![p].pc = pc]

Init ==
  /\ counter = 0
  /\ counter_removed = 0
  /\ nodes = [i \in Ids |-> None]
  /\ index = [e \in Entries |-> {}]
  /\ statements = [h \in Digests |-> None]
  /\ context = [p \in Procs |-> None]
  /\ hashcode = [p \in Procs |-> [o \in Objects |-> None]]
  /\ call = [p \in Procs |-> Returned(0, 0)]
  /\ faults = 0
  /\ asserted = [i \in Ids |-> None]

-----------------------------------------------------------------------------
(* What insert, remove and contains do before their first request.         *)

(* given_context, else the statement's own, else the handle's default *)
ContextOf(p, o, given) ==
  IF given # None THEN given
  ELSE IF o.ctx # None THEN o.ctx ELSE context[p]

(* rdfstore_contains never looks at the default *)
ContainsContext(o, given) == IF given # None THEN given ELSE o.ctx

(* mutant: the context is left out of the hash code *)
Mut_HashIgnoresContext(p, o, c) == Digest[<<o.st, None>>]

(* rdfstore_digest_get_statement_hashCode: a cached hash code wins *)
HashCode(p, o, c) ==
  IF hashcode[p][o] # None THEN hashcode[p][o] ELSE Digest[<<o.st, c>>]

CacheHashCode(p, o, given, h) ==
  hashcode' = IF o.kept /\ given = None /\ context[p] = None
              THEN [hashcode EXCEPT ![p][o] = h]
              ELSE hashcode

Begin(p, op, o, given, pc) ==
  LET c == ContextOf(p, o, given)
      h == HashCode(p, o, c)
  IN  /\ Idle(p)
      /\ CacheHashCode(p, o, given, h)
      /\ call' = [call EXCEPT ![p] =
                    [Returned(0, 0) EXCEPT !.pc = pc, !.op = op,
                                           !.st = o.st, !.ctx = c, !.hc = h]]
      /\ UNCHANGED <<tables, context, faults, asserted>>

-----------------------------------------------------------------------------
(* rdfstore_insert *)

InsertCall(p, o, given) == Begin(p, "insert", o, given, "exists")

(* no duplicates in the same context *)
InsertExists(p) ==
  /\ call[p].pc = "exists"
  /\ IF statements[call[p].hc] # None THEN Return(p, 1) ELSE Goto(p, "inc")
  /\ UNCHANGED <<tables, context, hashcode, faults, asserted>>

(* An exists request that fails reads as "not there". *)
InsertExistsError(p) ==
  /\ call[p].pc = "exists"
  /\ faults < MaxFaults
  /\ faults' = faults + 1
  /\ Goto(p, "inc")
  /\ UNCHANGED <<tables, context, hashcode, asserted>>

(* The capacity; a number above it is handed back. *)
Mut_OneTooMany(n) == n > MaxRecords + 1
Exhausted(n) == n > MaxRecords

Mut_HandBackTwo(n) == n - 2
Mut_KeepNumber(n)  == n
HandBack(n) == n - 1

(* Take the next id: past the capacity the number is handed back; a *)
(* malformed literal makes the call fail with the number taken.     *)
InsertIncrement(p) ==
  /\ call[p].pc = "inc"
  /\ counter' = counter + 1
  /\ IF Exhausted(counter')
     THEN Goto(p, "dec") /\ UNCHANGED asserted
     ELSE /\ asserted' = [asserted EXCEPT ![counter] = <<call[p].st, call[p].ctx>>]
          /\ IF call[p].st.wellFormed
             THEN call' = [call EXCEPT ![p].pc = "nodes", ![p].id = counter]
             ELSE Return(p, -1)
  /\ UNCHANGED <<counter_removed, nodes, index, statements,
                 context, hashcode, faults>>

InsertDecrement(p) ==
  /\ call[p].pc = "dec"
  /\ counter' = HandBack(counter)
  /\ Return(p, -1)
  /\ UNCHANGED <<counter_removed, nodes, index, statements,
                 context, hashcode, faults, asserted>>

InsertNode(p) ==
  /\ call[p].pc = "nodes"
  /\ nodes' = [nodes EXCEPT ![call[p].id] = <<call[p].st, call[p].ctx>>]
  /\ call' = [call EXCEPT ![p].pc = "fetch",
                          ![p].todo = InsertEntries(call[p].st, call[p].ctx)]
  /\ UNCHANGED <<counter, counter_removed, index, statements,
                 context, hashcode, faults, asserted>>

(* mutant: the posting of the first table is left in the buffer *)
Mut_FetchStale(p) ==
  /\ call[p].pc = "fetch"
  /\ call' = [call EXCEPT ![p].pc = "store",
                ![p].bits = index[InsertEntries(call[p].st, call[p].ctx)[1]]]
  /\ UNCHANGED <<tables, context, hashcode, faults, asserted>>

(* Each posting is read, changed in memory and written back. *)
FetchEntry(p) ==
  /\ call[p].pc = "fetch"
  /\ call' = [call EXCEPT ![p].pc = "store", ![p].bits = index[Head(call[p].todo)]]
  /\ UNCHANGED <<tables, context, hashcode, faults, asserted>>

(* mutants: the last entry is skipped; the removal ends before its last *)
(* two requests                                                          *)
Mut_SkipLastEntry(p, after) ==
  call' = [call EXCEPT ![p].pc = IF Len(call[p].todo) <= 2 THEN after ELSE "fetch",
                       ![p].todo = Tail(@), ![p].bits = {}]
Mut_EndRemoveEarly(p, after) ==
  call' = [call EXCEPT ![p].pc = IF Len(call[p].todo) > 1 THEN "fetch"
                                 ELSE IF after = "count" THEN "touch" ELSE after,
                       ![p].todo = Tail(@), ![p].bits = {}]

(* Where the call goes when this entry is done: to the next one, or on. *)
NextEntry(p, after) ==
  call' = [call EXCEPT ![p].pc = IF Len(call[p].todo) = 1 THEN after ELSE "fetch",
                       ![p].todo = Tail(@),
                       ![p].bits = {}]

InsertEntry(p) ==
  /\ call[p].pc = "store"
  /\ call[p].op = "insert"
  /\ index' = [index EXCEPT ![Head(call[p].todo)] = call[p].bits \cup {call[p].id}]
  /\ NextEntry(p, "statements")
  /\ UNCHANGED <<counter, counter_removed, nodes, statements,
                 context, hashcode, faults, asserted>>

(* The statement becomes visible to exists, contains and remove. *)
InsertStatement(p) ==
  /\ call[p].pc = "statements"
  /\ statements' = [statements EXCEPT ![call[p].hc] = call[p].id]
  /\ Goto(p, "touch")
  /\ UNCHANGED <<counter, counter_removed, nodes, index,
                 context, hashcode, faults, asserted>>

(* last_modified is written, the tables are synced, the call returns 0; *)
(* insert and remove end alike.  The date itself is not modelled.       *)
Touch(p) ==
  /\ call[p].pc = "touch"
  /\ Return(p, 0)
  /\ UNCHANGED <<tables, context, hashcode, faults, asserted>>

-----------------------------------------------------------------------------
(* rdfstore_remove *)

RemoveCall(p, o, given) == Begin(p, "remove", o, given, "find")

RemoveFind(p) ==
  /\ call[p].pc = "find"
  /\ IF statements[call[p].hc] = None
     THEN Return(p, 1)
     ELSE call' = [call EXCEPT ![p].pc = "unnode",
                               ![p].id = statements[call[p].hc]]
  /\ UNCHANGED <<tables, context, hashcode, faults, asserted>>

RemoveNode(p) ==
  /\ call[p].pc = "unnode"
  /\ IF nodes[call[p].id] = None
     THEN Return(p, 1) /\ UNCHANGED nodes
     ELSE /\ nodes' = [nodes EXCEPT ![call[p].id] = None]
          /\ call' = [call EXCEPT ![p].pc = "fetch",
                                  ![p].todo = RemoveEntries(call[p].st, call[p].ctx)]
  /\ UNCHANGED <<counter, counter_removed, index, statements,
                 context, hashcode, faults, asserted>>

Removing(p, inWords) ==
  /\ call[p].pc = "store"
  /\ call[p].op = "remove"
  /\ (Head(call[p].todo)[1] = "windex") = inWords

(* Every table but windex: clear the bit, write the rest back or delete *)
(* the key; a key already gone makes the call return 1 where it stands. *)
RemoveEntry(p) ==
  LET e    == Head(call[p].todo)
      rest == call[p].bits \ {call[p].id}
  IN  /\ Removing(p, FALSE)
      /\ index' = [index EXCEPT ![e] = rest]
      /\ IF rest = {} /\ index[e] = {} THEN Return(p, 1) ELSE NextEntry(p, "count")
      /\ UNCHANGED <<counter, counter_removed, nodes, statements,
                     context, hashcode, faults, asserted>>

(* mutant: the key is deleted whatever it holds *)
Mut_DeleteWord(p) ==
  /\ Removing(p, TRUE)
  /\ index' = [index EXCEPT ![Head(call[p].todo)] = {}]
  /\ NextEntry(p, "count")
  /\ UNCHANGED <<counter, counter_removed, nodes, statements,
                 context, hashcode, faults, asserted>>

(* windex: with two bits or more, clear the bit and write back; else the *)
(* key is deleted, whichever statement the single bit stands for.        *)
RemoveWord(p) ==
  LET e    == Head(call[p].todo)
      bits == call[p].bits
  IN  /\ Removing(p, TRUE)
      /\ index' = [index EXCEPT ![e] = IF \E i, j \in bits : i # j
                                       THEN bits \ {call[p].id} ELSE {}]
      /\ NextEntry(p, "count")
      /\ UNCHANGED <<counter, counter_removed, nodes, statements,
                     context, hashcode, faults, asserted>>

RemoveCount(p) ==
  /\ call[p].pc = "count"
  /\ counter_removed' = counter_removed + 1
  /\ Goto(p, "forget")
  /\ UNCHANGED <<counter, nodes, index, statements,
                 context, hashcode, faults, asserted>>

RemoveStatement(p) ==
  /\ call[p].pc = "forget"
  /\ statements' = [statements EXCEPT ![call[p].hc] = None]
  /\ IF statements[call[p].hc] = None THEN Return(p, 1) ELSE Goto(p, "touch")
  /\ UNCHANGED <<counter, counter_removed, nodes, index,
                 context, hashcode, faults, asserted>>

-----------------------------------------------------------------------------
(* The calls that read *)

Contains(p, o, given) ==
  LET h == HashCode(p, o, ContainsContext(o, given))
  IN  /\ Idle(p)
      /\ CacheHashCode(p, o, given, h)
      /\ \/ /\ call' = [call EXCEPT ![p] =
                          Returned(IF statements[h] # None THEN 0 ELSE 1, 0)]
            /\ UNCHANGED faults
         \/ /\ faults < MaxFaults
            /\ faults' = faults + 1
            /\ call' = [call EXCEPT ![p] = Returned(-1, 0)]
      /\ UNCHANGED <<tables, context, asserted>>

(* rdfstore_size reads the removals first, then the counter; *)
(* rdfstore_is_empty calls it and compares with zero.        *)
SizeCall(p, op) ==
  /\ Idle(p)
  /\ call' = [call EXCEPT ![p] = [Returned(0, 0) EXCEPT !.pc = "size_removed", !.op = op]]
  /\ UNCHANGED <<tables, context, hashcode, faults, asserted>>

SizeRemoved(p) ==
  /\ call[p].pc = "size_removed"
  /\ call' = [call EXCEPT ![p].pc = "size_counter", ![p].out = counter_removed]
  /\ UNCHANGED <<tables, context, hashcode, faults, asserted>>

SizeCounter(p) ==
  LET size == counter - call[p].out
  IN  /\ call[p].pc = "size_counter"
      /\ call' = [call EXCEPT ![p] =
                    IF call[p].op = "size" THEN Returned(0, size)
                    ELSE Returned(IF size # 0 THEN 1 ELSE 0, 0)]
      /\ UNCHANGED <<tables, context, hashcode, faults, asserted>>

-----------------------------------------------------------------------------
(* The default context of a handle *)

SetContext(p, c) ==
  /\ Idle(p)
  /\ IF context[p] = None
     THEN /\ context' = [context EXCEPT ![p] = c]
          /\ call' = [call EXCEPT ![p] = Returned(0, 0)]
     ELSE /\ UNCHANGED context
          /\ call' = [call EXCEPT ![p] = Returned(1, 0)]
  /\ UNCHANGED <<tables, hashcode, faults, asserted>>

ResetContext(p) ==
  /\ Idle(p)
  /\ context' = [context EXCEPT ![p] = None]
  /\ call' = [call EXCEPT ![p] =
                Returned(IF context[p] = None THEN 1 ELSE 0, 0)]
  /\ UNCHANGED <<tables, hashcode, faults, asserted>>

(* A request fails, or its caller dies: the call ends where it stands, and *)
(* nothing it did is undone.  A removal that cannot read the statements    *)
(* table answers that the statement is not there.                          *)
Fail(p) ==
  /\ ~Idle(p)
  /\ call[p].pc # "exists"
  /\ faults < MaxFaults
  /\ faults' = faults + 1
  /\ Return(p, IF call[p].pc = "find" THEN 1 ELSE -1)
  /\ UNCHANGED <<tables, context, hashcode, asserted>>

-----------------------------------------------------------------------------
Insert(p) == InsertExists(p) \/ InsertExistsError(p) \/ InsertIncrement(p)
               \/ InsertDecrement(p) \/ InsertNode(p) \/ InsertEntry(p)
               \/ InsertStatement(p)

Remove(p) == RemoveFind(p) \/ RemoveNode(p) \/ RemoveEntry(p) \/ RemoveWord(p)
               \/ RemoveCount(p) \/ RemoveStatement(p)

Call(p) ==
  \/ \E o \in Objects, g \in Givens :
       InsertCall(p, o, g) \/ RemoveCall(p, o, g) \/ Contains(p, o, g)
  \/ \E op \in {"size", "is_empty"} : SizeCall(p, op)
  \/ \E c \in Defaults : SetContext(p, c)
  \/ Defaults # {} /\ ResetContext(p)

Next ==
  \E p \in Procs :
    \/ Call(p) \/ Insert(p) \/ Remove(p)
    \/ FetchEntry(p) \/ Touch(p) \/ SizeRemoved(p) \/ SizeCounter(p)
    \/ Fail(p)

Spec == Init /\ [][Next]_vars

-----------------------------------------------------------------------------
(* Every variable keeps its type; numbers stay within the capacity. *)
TypeOK ==
  /\ counter \in Nat
  /\ counter_removed \in Nat
  /\ nodes \in [Ids -> OrNone(Quads)]
  /\ index \in [Entries -> SUBSET Ids]
  /\ statements \in [Digests -> OrNone(Ids)]
  /\ context \in [Procs -> OrNone(Contexts)]
  /\ hashcode \in [Procs -> [Objects -> OrNone(Digests)]]
  /\ call \in [Procs -> CallType]
  /\ faults \in 0 .. MaxFaults
  /\ asserted \in [Ids -> OrNone(Quads)]

-----------------------------------------------------------------------------
(* What must hold. *)

Quiescent == \A p \in Procs : Idle(p)

Stored(i) == nodes[i] # None

Live == {i \in Ids : Stored(i)}

DigestOf(q) == Digest[q]

(* The calls that hold a statement id of their own making. *)
Inserting(p) ==
  call[p].op = "insert" /\ call[p].pc \in {"nodes", "fetch", "store", "statements"}

(* One handle, no failure, no call under way: each posting holds exactly   *)
(* the stored statements that contain its term, whatever sequence of       *)
(* insertions and removals led here.                                       *)
IndexExact ==
  Quiescent => \A e \in Entries :
                 index[e] = {i \in Live : e \in EntriesOf(nodes[i])}

(* Likewise the statements table names each stored statement, and no other *)
(* id, under its hash code.                                                *)
StatementsExact ==
  Quiescent => \A h \in Digests, i \in Ids :
                 (statements[h] = i) <=> (Stored(i) /\ DigestOf(nodes[i]) = h)

(* Likewise rdfstore_size is the number of statements stored. *)
SizeExact == Quiescent => counter - counter_removed = Cardinality(Live)

(* The tables agree between calls: what insert writes in a dozen requests, *)
(* remove takes back through separate code.                                *)
TablesExact == IndexExact /\ StatementsExact /\ SizeExact

(* Two insertions under way never hold the same id, and the id a hash code *)
(* names is never the id of another insertion that could still write it    *)
(* elsewhere: ids come from one atomic increment.                          *)
IdsUnique ==
  /\ \A p, q \in Procs :
       Inserting(p) /\ Inserting(q) /\ call[p].id = call[q].id => p = q
  /\ \A p \in Procs, h \in Digests :
       Inserting(p) => statements[h] # call[p].id

(* An id is given to one statement and never to another, though counters   *)
(* are handed back when the capacity is exceeded.                          *)
IdsNeverReused ==
  [][\A i \in Ids : asserted[i] # None => asserted'[i] = asserted[i]]_vars

(* A posting never attributes to a term a statement without that term,     *)
(* with any number of handles and whatever requests fail.                  *)
IndexSound ==
  \A e \in Entries : \A i \in index[e] :
    asserted[i] # None /\ e \in EntriesOf(asserted[i])

(* A hash code always leads to a statement with that hash code, when       *)
(* callers build a new structure for every call: the context is part of    *)
(* what rdfstore_digest_get_statement_hashCode digests.                    *)
StatementsSound ==
  \A h \in Digests :
    statements[h] # None =>
      /\ asserted[statements[h]] # None
      /\ DigestOf(asserted[statements[h]]) = h

(* One handle: as soon as a statement can be found by its hash code, and   *)
(* until its removal begins, all its postings hold it; a failed insertion  *)
(* or removal of another statement cannot take them away.                  *)
VisibleIsIndexed ==
  \A h \in Digests :
    LET i == statements[h]
    IN  (i # None /\ Stored(i)) => \A e \in EntriesOf(nodes[i]) : i \in index[e]

(* One handle: removing the words of a literal takes no other statement    *)
(* out of the word index, "words and stems can be duplicated into the same *)
(* literal" or not.                                                        *)
WordsRemovedAreOwn ==
  [][\A p \in Procs : RemoveWord(p) =>
       \A e \in Entries : index[e] \ index'[e] \subseteq {call[p].id}]_vars

(* rdfstore_size never wraps below zero, even while other handles insert   *)
(* and remove between its two reads; and the counter goes back to the      *)
(* capacity when no insertion is under way.                                *)
CounterSettles ==
  /\ \A p \in Procs : Idle(p) => call[p].out >= 0
  /\ (MaxFaults = 0 /\ Quiescent) => counter <= MaxRecords

(* An inserted quad is refused as a duplicate only if it is stored, in the *)
(* same context.                                                           *)
DuplicateIsStored ==
  [][\A p \in Procs : InsertExists(p) /\ Idle(p)' =>
       asserted[statements[call[p].hc]] = <<call[p].st, call[p].ctx>>]_vars

(* No two ids stand for the same statement in the same context. *)
NoDuplicates == \A i, j \in Live : nodes[i] = nodes[j] => i = j

(* "tests if the model contains a given statement": contains finds what    *)
(* insert, given the same arguments on the same handle, would refuse as a  *)
(* duplicate, with a default context too.                                  *)
ContainsAgrees ==
  [][\A p \in Procs, o \in Objects, g \in Givens :
       (Contains(p, o, g) /\ call'[p].ret = 1) =>
         statements[Digest[<<o.st, ContextOf(p, o, g)>>]] = None]_vars

-----------------------------------------------------------------------------
(* The store as a set of quads: a statement is in it while its hash code   *)
(* is in the statements table, and a call is answered once that table is   *)
(* written, or its result known.                                           *)

Answered(p) == call[p].pc \in {"idle", "touch"}

AbstractRequest(p) ==
  IF Answered(p) THEN None
  ELSE <<call[p].op, IF call[p].op \in {"insert", "remove"}
                     THEN <<call[p].st, call[p].ctx>> ELSE None>>

AbstractReply(p) ==
  [ret |-> call[p].ret, out |-> IF Idle(p) THEN call[p].out ELSE 0]

Abstract == INSTANCE TripleStore WITH
  store   <- {q \in Quads : statements[Digest[q]] # None},
  request <- [p \in Procs |-> AbstractRequest(p)],
  reply   <- [p \in Procs |-> AbstractReply(p)]

(* With one handle, no failing request and distinct hash codes, the kernel *)
(* is a set of statements.                                                 *)
RefinesTripleStore == Abstract!Spec

=============================================================================
