--------------------------- MODULE RdfStore_proofs ---------------------------
(* Theorems about RdfStore, for any number of handles, statements, ids and *)
(* failing requests.                                                       *)
EXTENDS RdfStore, TLAPS, FiniteSetTheorems, SequenceTheorems

(* The key a value is filed under is a key of its table.                   *)
LEMMA ColumnTyped ==
  ASSUME NEW table, NEW key, key # None => <<table, key>> \in Entries
  PROVE  Column(table, key) \in Seq(Entries)
<1>1. CASE key = None
  BY <1>1 DEF Column
<1>2. CASE key # None
  <2>. DEFINE e == <<table, key>>
  <2>1. e \in Entries
    BY <1>2
  <2>. HIDE DEF e
  <2>2. <<e>> \in Seq(Entries)
    BY <2>1
  <2>. QED  BY <1>2, <2>2 DEF Column, e
<1>. QED  BY <1>1, <1>2

(* Every key a statement is filed under is a key of one of the tables. *)
LEMMA EntriesTyped ==
  ASSUME NEW s \in Statements, NEW c \in OrNone(Contexts)
  PROVE  /\ InsertEntries(s, c) \in Seq(Entries)
         /\ RemoveEntries(s, c) \in Seq(Entries)
         /\ Len(InsertEntries(s, c)) > 0
         /\ Len(RemoveEntries(s, c)) > 0
<1>1. s \in StatementType
  BY ConstantTypes
<1>5. \A a, b \in Seq(Entries) :
        a \o b \in Seq(Entries) /\ Len(a \o b) = Len(a) + Len(b)
  BY ConcatProperties
<1>6. \A a \in Seq(Entries) : Len(a) \in Nat
  BY LenProperties
<1>2. WordEntries(s) \in Seq(Entries)
  <2>1. \A k \in 1 .. Len(s.words) : <<"windex", s.words[k]>> \in Entries
    BY <1>1 DEF StatementType, Entries
  <2>2. [k \in 1 .. Len(s.words) |-> <<"windex", s.words[k]>>] \in Seq(Entries)
    BY <1>1, <2>1 DEF StatementType
  <2>. QED  BY <2>2 DEF WordEntries
<1>3. ValueEntries(s) \in Seq(Entries)
  <2>1. Column("languages", s.lang) \in Seq(Entries)
    <3>1. s.lang # None => <<"languages", s.lang>> \in Entries
      BY <1>1 DEF StatementType, OrNone, Entries
    <3>. QED  BY <3>1, ColumnTyped
  <2>2. Column("datatypes", s.datatype) \in Seq(Entries)
    <3>1. s.datatype # None => <<"datatypes", s.datatype>> \in Entries
      BY <1>1 DEF StatementType, OrNone, Entries
    <3>. QED  BY <3>1, ColumnTyped
  <2>3. Column("xsd_date", DateKey(s)) \in Seq(Entries)
    <3>1. DateKey(s) # None => <<"xsd_date", DateKey(s)>> \in Entries
      BY <1>1 DEF StatementType, OrNone, Entries, DateKey
    <3>. QED  BY <3>1, ColumnTyped
  <2>4. Column("xsd_integer", s.integer) \in Seq(Entries)
    <3>1. s.integer # None => <<"xsd_integer", s.integer>> \in Entries
      BY <1>1 DEF StatementType, OrNone, Entries
    <3>. QED  BY <3>1, ColumnTyped
  <2>5. Column("xsd_double", DoubleKey(s)) \in Seq(Entries)
    <3>1. DoubleKey(s) # None => <<"xsd_double", DoubleKey(s)>> \in Entries
      BY <1>1 DEF StatementType, OrNone, Entries, DoubleKey
    <3>. QED  BY <3>1, ColumnTyped
  <2>. QED  BY <2>1, <2>2, <2>3, <2>4, <2>5 DEF ValueEntries
<1>4. NodeEntries(s, c) \in Seq(Entries) /\ Len(NodeEntries(s, c)) >= 3
  <2>. DEFINE spo == << <<"subjects", NodeHash[s.subject]>>,
                        <<"predicates", NodeHash[s.predicate]>>,
                        <<"objects", NodeHash[s.object]>> >>
              ctx == IF c = None THEN <<>> ELSE << <<"contexts", NodeHash[c]>> >>
  <2>1. /\ NodeHash[s.subject] \in Hashes
        /\ NodeHash[s.predicate] \in Hashes
        /\ NodeHash[s.object] \in Hashes
    BY <1>1, ConstantTypes DEF StatementType
  <2>2. spo \in Seq(Entries) /\ Len(spo) = 3
    BY <2>1 DEF Entries
  <2>3. ctx \in Seq(Entries)
    <3>1. CASE c = None
      BY <3>1
    <3>2. CASE c # None
      <4>. DEFINE e == <<"contexts", NodeHash[c]>>
      <4>1. e \in Entries
        BY <3>2, ConstantTypes DEF OrNone, Entries
      <4>. HIDE DEF e
      <4>2. <<e>> \in Seq(Entries)
        BY <4>1
      <4>. QED  BY <3>2, <4>2 DEF e
    <3>. QED  BY <3>1, <3>2
  <2>. HIDE DEF spo, ctx
  <2>4. spo \o ctx \in Seq(Entries) /\ Len(spo \o ctx) = 3 + Len(ctx)
    BY <1>5, <2>2, <2>3
  <2>5. Len(ctx) \in Nat
    BY <2>3, LenProperties
  <2>6. NodeEntries(s, c) = spo \o ctx
    BY DEF NodeEntries, spo, ctx
  <2>. QED  BY <2>4, <2>5, <2>6
<1>. QED  BY <1>2, <1>3, <1>4, <1>5, <1>6 DEF InsertEntries, RemoveEntries
-----------------------------------------------------------------------------
(* The first layer of the inductive invariant: types, what a call knows at *)
(* each of its steps, and the counter while numbers are being handed back. *)

InsertPCs == {"exists", "inc", "dec", "nodes", "fetch", "store", "statements", "touch"}
RemovePCs == {"find", "unnode", "fetch", "store", "count", "forget", "touch"}

CallOK(c) ==
  /\ c \in CallType
  /\ c.op = "none" => c.pc = "idle"
  /\ c.op = "insert" => c.pc \in InsertPCs
  /\ c.op = "remove" => c.pc \in RemovePCs
  /\ c.op \in {"size", "is_empty"} => c.pc \in {"size_removed", "size_counter"}
  /\ c.op \in {"insert", "remove"} => c.st \in Statements /\ c.hc \in Digests
  /\ c.pc \in {"fetch", "store"} => Len(c.todo) > 0

Excess == {p \in Procs : call[p].pc = "dec"}

Overrun == Excess # {} => counter >= MaxRecords + Cardinality(Excess)

Inv1 ==
  /\ TypeOK
  /\ \A p \in Procs : CallOK(call[p])
  /\ Overrun

(* What a handle keeps of its last call is well formed.                    *)
LEMMA ReturnedOK ==
  ASSUME NEW ret \in {-1, 0, 1}, NEW out \in Int
  PROVE  CallOK(Returned(ret, out)) /\ Returned(ret, out).pc = "idle"
<1>1. 0 \in Ids
  BY ConstantTypes DEF Ids
<1>2. <<>> \in Seq(Entries)
  OBVIOUS
<1>. QED  BY <1>1, <1>2 DEF CallOK, Returned, CallType, OrNone, PCs, Ops

(* A call that moves to any step but the handing back keeps Overrun.       *)
LEMMA OverrunKept ==
  ASSUME Overrun, counter' \in Nat, counter \in Nat, counter' >= counter,
         \A q \in Procs : call'[q].pc = "dec" => call[q].pc = "dec"
  PROVE  Overrun'
<1>. DEFINE E == Excess
            F == Excess'
<1>1. F \subseteq E
  BY DEF Excess
<1>2. IsFiniteSet(E)
  BY ProcsFinite, FS_Subset DEF Excess
<1>3. IsFiniteSet(F) /\ Cardinality(F) <= Cardinality(E)
  BY <1>1, <1>2, FS_Subset
<1>4. Cardinality(E) \in Nat /\ Cardinality(F) \in Nat
  BY <1>2, <1>3, FS_CardinalityType
<1>5. F # {} => E # {}
  BY <1>1
<1>6. E # {} => counter >= MaxRecords + Cardinality(E)
  BY DEF Overrun
<1>. HIDE DEF E, F
<1>7. F # {} => counter' >= MaxRecords + Cardinality(F)
  BY <1>3, <1>4, <1>5, <1>6, ConstantTypes
<1>. QED  BY <1>7 DEF Overrun, F

(* One handle changes its call; the others keep theirs.                    *)
LEMMA CallsKept ==
  ASSUME NEW p \in Procs, NEW r, CallOK(r),
         call \in [Procs -> CallType], \A q \in Procs : CallOK(call[q]),
         call' = [call EXCEPT ![p] = r]
  PROVE  /\ call' \in [Procs -> CallType]
         /\ \A q \in Procs : CallOK(call'[q])
         /\ call'[p] = r
         /\ \A q \in Procs : q # p => call'[q] = call[q]
<1>1. r \in CallType
  BY DEF CallOK
<1>2. call'[p] = r /\ \A q \in Procs : q # p => call'[q] = call[q]
  OBVIOUS
<1>. QED  BY <1>1, <1>2

(* A step that ends the call with a result.                                *)
LEMMA ReturnKeeps ==
  ASSUME Inv1, NEW p \in Procs, NEW ret \in {-1, 0, 1}, NEW out \in Int,
         call' = [call EXCEPT ![p] = Returned(ret, out)],
         counter' \in Nat, counter' >= counter
  PROVE  /\ call' \in [Procs -> CallType]
         /\ \A q \in Procs : CallOK(call'[q])
         /\ Overrun'
<1>1. CallOK(Returned(ret, out)) /\ Returned(ret, out).pc = "idle"
  BY ReturnedOK
<1>2. /\ call' \in [Procs -> CallType]
      /\ \A q \in Procs : CallOK(call'[q])
      /\ call'[p] = Returned(ret, out)
      /\ \A q \in Procs : q # p => call'[q] = call[q]
  BY <1>1, CallsKept DEF Inv1, TypeOK
<1>3. \A q \in Procs : call'[q].pc = "dec" => call[q].pc = "dec"
  BY <1>1, <1>2
<1>4. Overrun'
  BY <1>3, OverrunKept DEF Inv1, TypeOK
<1>. QED  BY <1>2, <1>4

(* The same for a call that returns a code and no number.                  *)
LEMMA ReturnZeroKeeps ==
  ASSUME Inv1, NEW p \in Procs, NEW ret \in {-1, 0, 1}, Return(p, ret),
         counter' \in Nat, counter' >= counter
  PROVE  /\ call' \in [Procs -> CallType]
         /\ \A q \in Procs : CallOK(call'[q])
         /\ Overrun'
<1>1. call' = [call EXCEPT ![p] = Returned(ret, 0)] /\ 0 \in Int
  BY DEF Return
<1>. QED  BY <1>1, ReturnKeeps

(* A step to another point of the call.                                    *)
LEMMA MoveKeeps ==
  ASSUME Inv1, NEW p \in Procs, NEW r, CallOK(r), r.pc # "dec",
         call' = [call EXCEPT ![p] = r],
         counter' \in Nat, counter' >= counter
  PROVE  /\ call' \in [Procs -> CallType]
         /\ \A q \in Procs : CallOK(call'[q])
         /\ Overrun'
<1>2. /\ call' \in [Procs -> CallType]
      /\ \A q \in Procs : CallOK(call'[q])
      /\ call'[p] = r
      /\ \A q \in Procs : q # p => call'[q] = call[q]
  BY CallsKept DEF Inv1, TypeOK
<1>3. \A q \in Procs : call'[q].pc = "dec" => call[q].pc = "dec"
  BY <1>2
<1>4. Overrun'
  BY <1>3, OverrunKept DEF Inv1, TypeOK
<1>. QED  BY <1>2, <1>4

(* rdfstore_insert and rdfstore_remove begin well formed.                  *)
LEMMA BeginKeeps ==
  ASSUME Inv1, NEW p \in Procs, NEW o \in Objects, NEW g \in Givens,
         NEW op, NEW pc, Begin(p, op, o, g, pc),
         \/ op = "insert" /\ pc = "exists"
         \/ op = "remove" /\ pc = "find"
  PROVE  Inv1'
<1>. DEFINE c == ContextOf(p, o, g)
            h == HashCode(p, o, c)
            r == [Returned(0, 0) EXCEPT !.pc = pc, !.op = op,
                                        !.st = o.st, !.ctx = c, !.hc = h]
<1>1. o \in ObjectType /\ o.st \in Statements /\ g \in OrNone(Contexts)
  BY ConstantTypes DEF ObjectType
<1>2. c \in OrNone(Contexts)
  BY <1>1 DEF ContextOf, ObjectType, OrNone, Inv1, TypeOK
<1>3. h \in Digests
  <2>1. <<o.st, c>> \in Quads
    BY <1>1, <1>2 DEF Quads
  <2>2. Digest[<<o.st, c>>] \in Digests
    BY <2>1, ConstantTypes
  <2>3. hashcode[p][o] \in OrNone(Digests)
    BY DEF Inv1, TypeOK
  <2>. QED  BY <2>2, <2>3 DEF HashCode, OrNone
<1>. HIDE DEF c, h
<1>4. CallOK(Returned(0, 0))
  BY ReturnedOK
<1>5. CallOK(r) /\ r.pc # "dec"
  BY <1>1, <1>2, <1>3, <1>4
  DEF CallOK, CallType, Returned, OrNone, PCs, Ops, InsertPCs, RemovePCs
<1>. HIDE DEF r
<1>6. call' = [call EXCEPT ![p] = r]
  BY DEF Begin, r, c, h
<1>7. hashcode' \in [Procs -> [Objects -> OrNone(Digests)]]
  <2>1. hashcode' = hashcode \/ hashcode' = [hashcode EXCEPT ![p][o] = h]
    BY DEF Begin, CacheHashCode, c, h
  <2>. QED  BY <1>3, <2>1 DEF Inv1, TypeOK, OrNone
<1>8. UNCHANGED <<tables, context, faults, asserted>>
  BY DEF Begin
<1>9. counter' \in Nat /\ counter' >= counter
  BY <1>8 DEF tables, Inv1, TypeOK
<1>10. /\ call' \in [Procs -> CallType]
       /\ \A q \in Procs : CallOK(call'[q])
       /\ Overrun'
  BY <1>5, <1>6, <1>9, MoveKeeps
<1>. QED  BY <1>7, <1>8, <1>10 DEF Inv1, TypeOK, tables

(* What a call under way can rely on at each point.                        *)
LEMMA CallFacts ==
  ASSUME Inv1, NEW p \in Procs
  PROVE  /\ call[p] \in CallType
         /\ CallOK(call[p])
         /\ call[p].pc \in {"exists", "inc", "dec", "nodes", "statements"} =>
              /\ call[p].op = "insert"
              /\ call[p].st \in Statements
              /\ call[p].hc \in Digests
         /\ call[p].pc \in {"find", "unnode", "count", "forget"} =>
              /\ call[p].op = "remove"
              /\ call[p].st \in Statements
              /\ call[p].hc \in Digests
         /\ call[p].pc \in {"fetch", "store"} =>
              /\ call[p].op \in {"insert", "remove"}
              /\ Len(call[p].todo) > 0
              /\ Head(call[p].todo) \in Entries
<1>1. CallOK(call[p]) /\ call[p] \in CallType
  BY DEF Inv1, CallOK
<1>2. call[p].pc \in {"fetch", "store"} => Head(call[p].todo) \in Entries
  <2>1. call[p].todo \in Seq(Entries)
    BY <1>1 DEF CallType
  <2>2. call[p].pc \in {"fetch", "store"} => Len(call[p].todo) > 0
    BY <1>1 DEF CallOK
  <2>. QED  BY <2>1, <2>2
<1>. QED  BY <1>1, <1>2 DEF CallOK, CallType, Ops, InsertPCs, RemovePCs

(* A step that only moves the call on, within the same operation.          *)
LEMMA GotoKeeps ==
  ASSUME Inv1, NEW p \in Procs, NEW pc \in PCs \ {"idle", "dec"}, Goto(p, pc),
         call[p].op = "insert" => pc \in InsertPCs,
         call[p].op = "remove" => pc \in RemovePCs,
         call[p].op \in {"insert", "remove"},
         pc \in {"fetch", "store"} => Len(call[p].todo) > 0,
         counter' \in Nat, counter' >= counter
  PROVE  /\ call' \in [Procs -> CallType]
         /\ \A q \in Procs : CallOK(call'[q])
         /\ Overrun'
<1>. DEFINE r == [call[p] EXCEPT !.pc = pc]
<1>1. CallOK(r) /\ r.pc # "dec"
  BY CallFacts DEF CallOK, CallType
<1>2. call' = [call EXCEPT ![p] = r]
  BY DEF Goto
<1>. HIDE DEF r
<1>. QED  BY <1>1, <1>2, MoveKeeps

(* Insertions keep the first layer, the loop over postings aside.          *)
LEMMA InsertKeeps ==
  ASSUME Inv1, NEW p \in Procs,
         \/ InsertExists(p) \/ InsertExistsError(p) \/ InsertIncrement(p)
         \/ InsertDecrement(p) \/ InsertNode(p) \/ InsertStatement(p)
  PROVE  Inv1'
<1>. USE DEF InsertPCs, RemovePCs, PCs
<1>0. counter \in Nat /\ counter' \in Int
  BY DEF Inv1, TypeOK, InsertExists, InsertExistsError, InsertIncrement,
     InsertDecrement, HandBack, InsertNode, InsertStatement, tables
<1>1. CASE InsertExists(p)
  <2>1. /\ call' \in [Procs -> CallType]
        /\ \A q \in Procs : CallOK(call'[q])
        /\ Overrun'
    <3>0. counter' \in Nat /\ counter' >= counter /\ call[p].pc = "exists"
      BY <1>0, <1>1 DEF InsertExists, tables
    <3>1. CASE Return(p, 1)
      BY <3>0, <3>1, ReturnZeroKeeps
    <3>2. CASE Goto(p, "inc")
      BY <3>0, <3>2, CallFacts, GotoKeeps
    <3>. QED  BY <1>1, <3>1, <3>2 DEF InsertExists
  <2>. QED  BY <1>1, <2>1 DEF InsertExists, Inv1, TypeOK, tables
<1>2. CASE InsertExistsError(p)
  <2>1. /\ call' \in [Procs -> CallType]
        /\ \A q \in Procs : CallOK(call'[q])
        /\ Overrun'
    <3>0. counter' \in Nat /\ counter' >= counter /\ call[p].pc = "exists"
      BY <1>0, <1>2 DEF InsertExistsError, tables
    <3>1. Goto(p, "inc")
      BY <1>2 DEF InsertExistsError
    <3>. QED  BY <3>0, <3>1, CallFacts, GotoKeeps
  <2>2. faults' \in 0 .. MaxFaults
    BY <1>2, ConstantTypes DEF InsertExistsError, Inv1, TypeOK
  <2>. QED  BY <1>2, <2>1, <2>2 DEF InsertExistsError, Inv1, TypeOK, tables
<1>3. CASE InsertIncrement(p)
  <2>1. counter' = counter + 1
    BY <1>3 DEF InsertIncrement
  <2>2. call[p].pc = "inc" /\ call[p].op = "insert"
    BY <1>3, CallFacts DEF InsertIncrement
  <2>3. CASE Exhausted(counter')
    <3>. DEFINE r == [call[p] EXCEPT !.pc = "dec"]
    <3>1. call' = [call EXCEPT ![p] = r] /\ UNCHANGED asserted
      BY <1>3, <2>3 DEF InsertIncrement, Goto
    <3>2. CallOK(r) /\ r.pc = "dec"
      BY <2>2, CallFacts DEF CallOK, CallType
    <3>. HIDE DEF r
    <3>3. /\ call' \in [Procs -> CallType]
          /\ \A q \in Procs : CallOK(call'[q])
          /\ call'[p] = r
          /\ \A q \in Procs : q # p => call'[q] = call[q]
      BY <3>1, <3>2, CallsKept DEF Inv1, TypeOK
    <3>4. Excess' = Excess \cup {p} /\ p \notin Excess
      BY <2>2, <3>2, <3>3 DEF Excess
    <3>5. IsFiniteSet(Excess)
      BY ProcsFinite, FS_Subset DEF Excess
    <3>6. Cardinality(Excess') = Cardinality(Excess) + 1
      BY <3>4, <3>5, FS_AddElement
    <3>7. Cardinality(Excess) \in Nat
      BY <3>5, FS_CardinalityType
    <3>8. counter' >= MaxRecords + Cardinality(Excess')
      <4>1. CASE Excess = {}
        <5>1. Cardinality(Excess) = 0
          BY <4>1, FS_EmptySet
        <5>. QED  BY <2>1, <2>3, <3>6, <5>1, <1>0, ConstantTypes DEF Exhausted
      <4>2. CASE Excess # {}
        BY <2>1, <3>6, <3>7, <4>2, <1>0, ConstantTypes DEF Inv1, Overrun
      <4>. QED  BY <4>1, <4>2
    <3>9. Overrun'
      BY <3>8 DEF Overrun
    <3>. QED  BY <1>0, <1>3, <2>1, <3>1, <3>3, <3>9
              DEF InsertIncrement, Inv1, TypeOK
  <2>4. CASE ~Exhausted(counter')
    <3>1. counter \in Ids
      BY <1>0, <2>1, <2>4, ConstantTypes DEF Exhausted, Ids
    <3>2. asserted' = [asserted EXCEPT ![counter] = <<call[p].st, call[p].ctx>>]
      BY <1>3, <2>4 DEF InsertIncrement
    <3>3. <<call[p].st, call[p].ctx>> \in Quads
      BY <2>2, CallFacts DEF CallType, Quads
    <3>4. asserted' \in [Ids -> OrNone(Quads)]
      BY <3>2, <3>3 DEF Inv1, TypeOK, OrNone
    <3>5. /\ call' \in [Procs -> CallType]
          /\ \A q \in Procs : CallOK(call'[q])
          /\ Overrun'
      <4>0. counter' \in Nat /\ counter' >= counter
        BY <1>0, <2>1
      <4>1. CASE call' = [call EXCEPT ![p].pc = "nodes", ![p].id = counter]
        <5>. DEFINE r == [call[p] EXCEPT !.pc = "nodes", !.id = counter]
        <5>1. call' = [call EXCEPT ![p] = r]
          BY <4>1
        <5>2. CallOK(r) /\ r.pc # "dec"
          BY <2>2, <3>1, CallFacts DEF CallOK, CallType
        <5>. HIDE DEF r
        <5>. QED  BY <4>0, <5>1, <5>2, MoveKeeps
      <4>2. CASE Return(p, -1)
        BY <4>0, <4>2, ReturnZeroKeeps
      <4>. QED  BY <1>3, <2>4, <4>1, <4>2 DEF InsertIncrement
    <3>. QED  BY <1>0, <1>3, <2>1, <3>4, <3>5 DEF InsertIncrement, Inv1, TypeOK
  <2>. QED  BY <2>3, <2>4
<1>4. CASE InsertDecrement(p)
  <2>1. p \in Excess
    BY <1>4 DEF InsertDecrement, Excess
  <2>2. IsFiniteSet(Excess)
    BY ProcsFinite, FS_Subset DEF Excess
  <2>3. /\ call' \in [Procs -> CallType]
        /\ \A q \in Procs : CallOK(call'[q])
        /\ call'[p].pc = "idle"
        /\ \A q \in Procs : q # p => call'[q] = call[q]
    <3>. DEFINE r == Returned(-1, 0)
    <3>1. CallOK(r) /\ r.pc = "idle"
      BY ReturnedOK
    <3>2. call' = [call EXCEPT ![p] = r]
      BY <1>4 DEF InsertDecrement, Return
    <3>. HIDE DEF r
    <3>. QED  BY <3>1, <3>2, CallsKept DEF Inv1, TypeOK
  <2>4. Excess' = Excess \ {p}
    BY <2>1, <2>3 DEF Excess
  <2>5. Cardinality(Excess') = Cardinality(Excess) - 1 /\ Cardinality(Excess) \in Nat
    BY <2>1, <2>2, <2>4, FS_RemoveElement, FS_CardinalityType
  <2>6. counter' = counter - 1
    BY <1>4 DEF InsertDecrement, HandBack
  <2>7. counter >= MaxRecords + Cardinality(Excess) /\ Cardinality(Excess) > 0
    <3>1. Cardinality(Excess) # 0
      BY <2>1, <2>2, FS_EmptySet
    <3>. QED  BY <2>1, <2>5, <3>1 DEF Inv1, Overrun
  <2>8. counter' \in Nat /\ counter' >= MaxRecords + Cardinality(Excess')
    BY <1>0, <2>5, <2>6, <2>7, ConstantTypes
  <2>. QED  BY <1>4, <2>3, <2>8 DEF InsertDecrement, Inv1, TypeOK, Overrun
<1>5. CASE InsertNode(p)
  <2>1. call[p].pc = "nodes" /\ call[p].op = "insert" /\ call[p].st \in Statements
    BY <1>5, CallFacts DEF InsertNode
  <2>2. call[p].ctx \in OrNone(Contexts) /\ call[p].id \in Ids
    BY CallFacts DEF CallType
  <2>3. /\ InsertEntries(call[p].st, call[p].ctx) \in Seq(Entries)
        /\ Len(InsertEntries(call[p].st, call[p].ctx)) > 0
    BY <2>1, <2>2, EntriesTyped
  <2>4. nodes' \in [Ids -> OrNone(Quads)]
    BY <1>5, <2>1, <2>2 DEF InsertNode, Inv1, TypeOK, OrNone, Quads
  <2>. DEFINE todo == InsertEntries(call[p].st, call[p].ctx)
              r == [call[p] EXCEPT !.pc = "fetch", !.todo = todo]
  <2>. HIDE DEF todo
  <2>5. CallOK(r) /\ r.pc # "dec"
    BY <2>1, <2>2, <2>3, CallFacts DEF CallOK, CallType, todo
  <2>6. call' = [call EXCEPT ![p] = r]
    BY <1>5 DEF InsertNode, todo
  <2>. HIDE DEF r
  <2>7. /\ call' \in [Procs -> CallType]
        /\ \A q \in Procs : CallOK(call'[q])
        /\ Overrun'
    <3>1. counter' \in Nat /\ counter' >= counter
      BY <1>0, <1>5 DEF InsertNode
    <3>. QED  BY <2>5, <2>6, <3>1, MoveKeeps
  <2>. QED  BY <1>5, <2>4, <2>7 DEF InsertNode, Inv1, TypeOK
<1>6. CASE InsertStatement(p)
  <2>1. /\ call' \in [Procs -> CallType]
        /\ \A q \in Procs : CallOK(call'[q])
        /\ Overrun'
    <3>0. counter' \in Nat /\ counter' >= counter /\ call[p].pc = "statements"
      BY <1>0, <1>6 DEF InsertStatement
    <3>1. Goto(p, "touch")
      BY <1>6 DEF InsertStatement
    <3>. QED  BY <3>0, <3>1, CallFacts, GotoKeeps
  <2>2. statements' \in [Digests -> OrNone(Ids)]
    BY <1>6, CallFacts DEF InsertStatement, Inv1, TypeOK, CallType, OrNone
  <2>. QED  BY <1>6, <2>1, <2>2 DEF InsertStatement, Inv1, TypeOK
<1>. QED  BY <1>1, <1>2, <1>3, <1>4, <1>5, <1>6

(* What is left to do after an entry is a sequence of entries.             *)
LEMMA TailTyped ==
  ASSUME NEW s \in Seq(Entries), Len(s) > 0
  PROVE  Tail(s) \in Seq(Entries) /\ (Len(s) # 1 => Len(Tail(s)) > 0)
<1>1. Len(s) \in Nat
  BY LenProperties
<1>2. s # <<>>
  <2>1. Len(<<>>) = 0
    OBVIOUS
  <2>. QED  BY <2>1
<1>3. Tail(s) \in Seq(Entries) /\ Len(Tail(s)) = Len(s) - 1
  BY <1>2, HeadTailProperties
<1>. QED  BY <1>1, <1>3

(* After an entry the call goes to the next one or leaves the loop.        *)
LEMMA NextEntryKeeps ==
  ASSUME Inv1, NEW p \in Procs, NEW after \in {"statements", "count"},
         NextEntry(p, after), call[p].pc = "store",
         after = "statements" <=> call[p].op = "insert",
         counter' = counter
  PROVE  /\ call' \in [Procs -> CallType]
         /\ \A q \in Procs : CallOK(call'[q])
         /\ Overrun'
<1>. DEFINE todo == Tail(call[p].todo)
            pc   == IF Len(call[p].todo) = 1 THEN after ELSE "fetch"
            r    == [call[p] EXCEPT !.pc = pc, !.todo = todo, !.bits = {}]
<1>1. /\ call[p] \in CallType
      /\ call[p].op \in {"insert", "remove"}
      /\ call[p].todo \in Seq(Entries)
      /\ Len(call[p].todo) > 0
  BY CallFacts DEF CallType
<1>2. todo \in Seq(Entries) /\ (Len(call[p].todo) # 1 => Len(todo) > 0)
  <2>. QED  BY <1>1, TailTyped
<1>3. call' = [call EXCEPT ![p] = r]
  BY DEF NextEntry
<1>. HIDE DEF todo
<1>4. CallOK(r) /\ r.pc # "dec"
  BY <1>1, <1>2, CallFacts DEF CallOK, CallType, PCs, InsertPCs, RemovePCs
<1>. HIDE DEF r
<1>5. counter' \in Nat /\ counter' >= counter
  BY DEF Inv1, TypeOK
<1>. QED  BY <1>3, <1>4, <1>5, MoveKeeps

(* The requests of the loop over postings keep the first layer.            *)
LEMMA EntryKeeps ==
  ASSUME Inv1, NEW p \in Procs,
         FetchEntry(p) \/ InsertEntry(p) \/ RemoveEntry(p) \/ RemoveWord(p)
  PROVE  Inv1'
<1>0. counter \in Nat /\ counter' = counter /\ counter' \in Nat /\ counter' >= counter
  <2>1. counter' = counter
    BY DEF FetchEntry, InsertEntry, RemoveEntry, RemoveWord, tables
  <2>. QED  BY <2>1 DEF Inv1, TypeOK
<1>1. CASE FetchEntry(p)
  <2>1. call[p].pc = "fetch" /\ Head(call[p].todo) \in Entries
    BY <1>1, CallFacts DEF FetchEntry
  <2>. DEFINE bits == index[Head(call[p].todo)]
              r    == [call[p] EXCEPT !.pc = "store", !.bits = bits]
  <2>2. bits \in SUBSET Ids
    BY <2>1 DEF Inv1, TypeOK
  <2>3. call' = [call EXCEPT ![p] = r]
    BY <1>1 DEF FetchEntry
  <2>. HIDE DEF bits
  <2>4. CallOK(r) /\ r.pc # "dec"
    BY <2>1, <2>2, CallFacts DEF CallOK, CallType, PCs, InsertPCs, RemovePCs
  <2>. HIDE DEF r
  <2>5. /\ call' \in [Procs -> CallType]
        /\ \A q \in Procs : CallOK(call'[q])
        /\ Overrun'
    BY <1>0, <2>3, <2>4, MoveKeeps
  <2>. QED  BY <1>1, <2>5 DEF FetchEntry, Inv1, TypeOK, tables
<1>2. ASSUME call[p].pc = "store"
      PROVE  /\ Head(call[p].todo) \in Entries
             /\ call[p].bits \in SUBSET Ids
             /\ call[p].id \in Ids
  BY <1>2, CallFacts DEF CallType
<1>3. CASE InsertEntry(p)
  <2>1. call[p].pc = "store" /\ call[p].op = "insert" /\ NextEntry(p, "statements")
    BY <1>3 DEF InsertEntry
  <2>2. /\ call' \in [Procs -> CallType]
        /\ \A q \in Procs : CallOK(call'[q])
        /\ Overrun'
    BY <1>0, <2>1, NextEntryKeeps
  <2>3. call[p].bits \cup {call[p].id} \in SUBSET Ids
    BY <1>2, <2>1
  <2>4. index' \in [Entries -> SUBSET Ids]
    BY <1>3, <2>3 DEF InsertEntry, Inv1, TypeOK
  <2>. QED  BY <1>3, <2>2, <2>4 DEF InsertEntry, Inv1, TypeOK
<1>4. CASE RemoveEntry(p)
  <2>1. call[p].pc = "store" /\ call[p].op = "remove"
    BY <1>4 DEF RemoveEntry, Removing
  <2>2. /\ call' \in [Procs -> CallType]
        /\ \A q \in Procs : CallOK(call'[q])
        /\ Overrun'
    <3>1. CASE Return(p, 1)
      BY <1>0, <3>1, ReturnZeroKeeps
    <3>2. CASE NextEntry(p, "count")
      BY <1>0, <2>1, <3>2, NextEntryKeeps
    <3>. QED  BY <1>4, <3>1, <3>2 DEF RemoveEntry
  <2>3. call[p].bits \ {call[p].id} \in SUBSET Ids
    BY <1>2, <2>1
  <2>4. index' \in [Entries -> SUBSET Ids]
    BY <1>4, <2>3 DEF RemoveEntry, Inv1, TypeOK
  <2>. QED  BY <1>4, <2>2, <2>4 DEF RemoveEntry, Inv1, TypeOK
<1>5. CASE RemoveWord(p)
  <2>1. call[p].pc = "store" /\ call[p].op = "remove" /\ NextEntry(p, "count")
    BY <1>5 DEF RemoveWord, Removing
  <2>2. /\ call' \in [Procs -> CallType]
        /\ \A q \in Procs : CallOK(call'[q])
        /\ Overrun'
    BY <1>0, <2>1, NextEntryKeeps
  <2>3. call[p].bits \ {call[p].id} \in SUBSET Ids /\ {} \in SUBSET Ids
    BY <1>2, <2>1
  <2>4. index' \in [Entries -> SUBSET Ids]
    BY <1>5, <2>3 DEF RemoveWord, Inv1, TypeOK
  <2>. QED  BY <1>5, <2>2, <2>4 DEF RemoveWord, Inv1, TypeOK
<1>. QED  BY <1>1, <1>3, <1>4, <1>5

(* Removals keep the first layer, the loop over postings aside.            *)
LEMMA RemoveKeeps ==
  ASSUME Inv1, NEW p \in Procs,
         \/ RemoveFind(p) \/ RemoveNode(p) \/ RemoveCount(p)
         \/ RemoveStatement(p) \/ Touch(p) \/ Fail(p)
  PROVE  Inv1'
<1>. USE DEF InsertPCs, RemovePCs, PCs
<1>0. counter \in Nat /\ counter' \in Nat /\ counter' >= counter
  BY DEF Inv1, TypeOK, RemoveFind, RemoveNode, RemoveCount, RemoveStatement,
     Touch, Fail, tables
<1>1. CASE RemoveFind(p)
  <2>1. call[p].pc = "find"
    BY <1>1 DEF RemoveFind
  <2>2. /\ call' \in [Procs -> CallType]
        /\ \A q \in Procs : CallOK(call'[q])
        /\ Overrun'
    <3>1. CASE statements[call[p].hc] = None
      <4>1. Return(p, 1)
        BY <1>1, <3>1 DEF RemoveFind
      <4>. QED  BY <1>0, <4>1, ReturnZeroKeeps
    <3>2. CASE statements[call[p].hc] # None
      <4>. DEFINE id == statements[call[p].hc]
                  r  == [call[p] EXCEPT !.pc = "unnode", !.id = id]
      <4>1. id \in Ids
        BY <2>1, <3>2, CallFacts DEF Inv1, TypeOK, OrNone
      <4>2. call' = [call EXCEPT ![p] = r]
        BY <1>1, <3>2 DEF RemoveFind
      <4>. HIDE DEF id
      <4>3. CallOK(r) /\ r.pc # "dec"
        BY <2>1, <4>1, CallFacts DEF CallOK, CallType
      <4>. HIDE DEF r
      <4>. QED  BY <1>0, <4>2, <4>3, MoveKeeps
    <3>. QED  BY <3>1, <3>2
  <2>. QED  BY <1>1, <2>2 DEF RemoveFind, Inv1, TypeOK, tables
<1>2. CASE RemoveNode(p)
  <2>1. call[p].pc = "unnode" /\ call[p].op = "remove" /\ call[p].st \in Statements
    BY <1>2, CallFacts DEF RemoveNode
  <2>2. call[p].ctx \in OrNone(Contexts) /\ call[p].id \in Ids
    BY CallFacts DEF CallType
  <2>3. /\ call' \in [Procs -> CallType]
        /\ \A q \in Procs : CallOK(call'[q])
        /\ Overrun'
    <3>1. CASE nodes[call[p].id] = None
      <4>1. Return(p, 1)
        BY <1>2, <3>1 DEF RemoveNode
      <4>. QED  BY <1>0, <4>1, ReturnZeroKeeps
    <3>2. CASE nodes[call[p].id] # None
      <4>. DEFINE todo == RemoveEntries(call[p].st, call[p].ctx)
                  r == [call[p] EXCEPT !.pc = "fetch", !.todo = todo]
      <4>1. todo \in Seq(Entries) /\ Len(todo) > 0
        BY <2>1, <2>2, EntriesTyped
      <4>2. call' = [call EXCEPT ![p] = r]
        BY <1>2, <3>2 DEF RemoveNode
      <4>. HIDE DEF todo
      <4>3. CallOK(r) /\ r.pc # "dec"
        BY <2>1, <4>1, CallFacts DEF CallOK, CallType
      <4>. HIDE DEF r
      <4>. QED  BY <1>0, <4>2, <4>3, MoveKeeps
    <3>. QED  BY <3>1, <3>2
  <2>4. nodes' \in [Ids -> OrNone(Quads)]
    BY <1>2 DEF RemoveNode, Inv1, TypeOK, OrNone
  <2>. QED  BY <1>2, <2>3, <2>4 DEF RemoveNode, Inv1, TypeOK
<1>3. CASE RemoveCount(p)
  <2>1. call[p].pc = "count" /\ Goto(p, "forget")
    BY <1>3 DEF RemoveCount
  <2>2. /\ call' \in [Procs -> CallType]
        /\ \A q \in Procs : CallOK(call'[q])
        /\ Overrun'
    BY <1>0, <2>1, CallFacts, GotoKeeps
  <2>. QED  BY <1>3, <2>2 DEF RemoveCount, Inv1, TypeOK
<1>4. CASE RemoveStatement(p)
  <2>1. call[p].pc = "forget"
    BY <1>4 DEF RemoveStatement
  <2>2. /\ call' \in [Procs -> CallType]
        /\ \A q \in Procs : CallOK(call'[q])
        /\ Overrun'
    <3>1. CASE Return(p, 1)
      BY <1>0, <3>1, ReturnZeroKeeps
    <3>2. CASE Goto(p, "touch")
      BY <1>0, <2>1, <3>2, CallFacts, GotoKeeps
    <3>. QED  BY <1>4, <3>1, <3>2 DEF RemoveStatement
  <2>3. statements' \in [Digests -> OrNone(Ids)]
    BY <1>4 DEF RemoveStatement, Inv1, TypeOK, OrNone
  <2>. QED  BY <1>4, <2>2, <2>3 DEF RemoveStatement, Inv1, TypeOK
<1>5. CASE Touch(p)
  <2>1. Return(p, 0)
    BY <1>5 DEF Touch
  <2>2. /\ call' \in [Procs -> CallType]
        /\ \A q \in Procs : CallOK(call'[q])
        /\ Overrun'
    BY <1>0, <2>1, ReturnZeroKeeps
  <2>. QED  BY <1>5, <2>2 DEF Touch, Inv1, TypeOK, tables
<1>6. CASE Fail(p)
  <2>1. PICK ret \in {-1, 1} : Return(p, ret)
    <3>1. CASE call[p].pc = "find"
      BY <1>6, <3>1 DEF Fail
    <3>2. CASE call[p].pc # "find"
      BY <1>6, <3>2 DEF Fail
    <3>. QED  BY <3>1, <3>2
  <2>2. /\ call' \in [Procs -> CallType]
        /\ \A q \in Procs : CallOK(call'[q])
        /\ Overrun'
    BY <1>0, <2>1, ReturnZeroKeeps
  <2>3. faults' \in 0 .. MaxFaults
    BY <1>6, ConstantTypes DEF Fail, Inv1, TypeOK
  <2>. QED  BY <1>6, <2>2, <2>3 DEF Fail, Inv1, TypeOK, tables
<1>. QED  BY <1>1, <1>2, <1>3, <1>4, <1>5, <1>6

(* Calls that only read, or set the default context, keep it too.          *)
LEMMA ReadKeeps ==
  ASSUME Inv1, NEW p \in Procs,
         \/ \E o \in Objects, g \in Givens : Contains(p, o, g)
         \/ \E op \in {"size", "is_empty"} : SizeCall(p, op)
         \/ SizeRemoved(p) \/ SizeCounter(p)
         \/ \E c \in Defaults : SetContext(p, c)
         \/ ResetContext(p)
  PROVE  Inv1'
<1>. USE DEF PCs
<1>0. counter \in Nat /\ counter' \in Nat /\ counter' >= counter
  <2>1. counter' = counter
    BY DEF Contains, SizeCall, SizeRemoved, SizeCounter, SetContext, ResetContext, tables
  <2>. QED  BY <2>1 DEF Inv1, TypeOK
<1>. DEFINE CallsOK == /\ call' \in [Procs -> CallType]
                       /\ \A q \in Procs : CallOK(call'[q])
                       /\ Overrun'
<1>1. ASSUME NEW o \in Objects, NEW g \in Givens, Contains(p, o, g)
      PROVE  Inv1'
  <2>. DEFINE c == ContainsContext(o, g)
              h == HashCode(p, o, c)
  <2>1. h \in Digests
    <3>1. o \in ObjectType /\ c \in OrNone(Contexts)
      BY ConstantTypes DEF ContainsContext, ObjectType
    <3>2. <<o.st, c>> \in Quads
      BY <3>1 DEF Quads, ObjectType
    <3>3. Digest[<<o.st, c>>] \in Digests
      BY <3>2, ConstantTypes
    <3>4. hashcode[p][o] \in OrNone(Digests)
      BY DEF Inv1, TypeOK
    <3>. QED  BY <3>3, <3>4 DEF HashCode, OrNone
  <2>2. CacheHashCode(p, o, g, h) /\ UNCHANGED <<tables, context, asserted>>
    BY <1>1 DEF Contains
  <2>3. hashcode' \in [Procs -> [Objects -> OrNone(Digests)]]
    <3>. HIDE DEF h
    <3>1. hashcode' = hashcode \/ hashcode' = [hashcode EXCEPT ![p][o] = h]
      BY <2>2 DEF CacheHashCode
    <3>. QED  BY <2>1, <3>1 DEF Inv1, TypeOK, OrNone
  <2>4. PICK ret \in {-1, 0, 1} : call' = [call EXCEPT ![p] = Returned(ret, 0)]
    BY <1>1 DEF Contains
  <2>5. CallsOK
    <3>1. 0 \in Int
      OBVIOUS
    <3>. QED  BY <1>0, <2>4, <3>1, ReturnKeeps
  <2>6. faults' \in 0 .. MaxFaults
    BY <1>1, ConstantTypes DEF Contains, Inv1, TypeOK
  <2>. QED  BY <2>2, <2>3, <2>5, <2>6 DEF Inv1, TypeOK, tables
<1>2. ASSUME NEW op \in {"size", "is_empty"}, SizeCall(p, op)
      PROVE  Inv1'
  <2>. DEFINE r == [Returned(0, 0) EXCEPT !.pc = "size_removed", !.op = op]
  <2>1. CallOK(Returned(0, 0))
    BY ReturnedOK
  <2>2. CallOK(r) /\ r.pc # "dec"
    BY <2>1 DEF CallOK, CallType, Returned, Ops
  <2>3. call' = [call EXCEPT ![p] = r]
    BY <1>2 DEF SizeCall
  <2>. HIDE DEF r
  <2>4. CallsOK
    BY <1>0, <2>2, <2>3, MoveKeeps
  <2>. QED  BY <1>2, <2>4 DEF SizeCall, Inv1, TypeOK, tables
<1>3. CASE SizeRemoved(p)
  <2>. DEFINE r == [call[p] EXCEPT !.pc = "size_counter", !.out = counter_removed]
  <2>1. counter_removed \in Int /\ call[p].pc = "size_removed"
    BY <1>3 DEF SizeRemoved, Inv1, TypeOK
  <2>2. CallOK(r) /\ r.pc # "dec"
    BY <2>1, CallFacts DEF CallOK, CallType, InsertPCs, RemovePCs
  <2>3. call' = [call EXCEPT ![p] = r]
    BY <1>3 DEF SizeRemoved
  <2>. HIDE DEF r
  <2>4. CallsOK
    BY <1>0, <2>2, <2>3, MoveKeeps
  <2>. QED  BY <1>3, <2>4 DEF SizeRemoved, Inv1, TypeOK, tables
<1>4. CASE SizeCounter(p)
  <2>1. call[p].out \in Int
    BY CallFacts DEF CallType
  <2>. DEFINE size  == counter - call[p].out
              empty == IF size # 0 THEN 1 ELSE 0
  <2>2. size \in Int /\ 0 \in Int /\ 0 \in {-1, 0, 1} /\ empty \in {-1, 0, 1}
    BY <1>0, <2>1
  <2>3. CallsOK
    <3>1. CASE call[p].op = "size"
      <4>1. call' = [call EXCEPT ![p] = Returned(0, size)]
        BY <1>4, <3>1 DEF SizeCounter
      <4>. HIDE DEF size
      <4>. QED  BY <1>0, <2>2, <4>1, ReturnKeeps
    <3>2. CASE call[p].op # "size"
      <4>1. call' = [call EXCEPT ![p] = Returned(empty, 0)]
        BY <1>4, <3>2 DEF SizeCounter
      <4>. HIDE DEF empty
      <4>. QED  BY <1>0, <2>2, <4>1, ReturnKeeps
    <3>. QED  BY <3>1, <3>2
  <2>. QED  BY <1>4, <2>3 DEF SizeCounter, Inv1, TypeOK, tables
<1>5. ASSUME NEW c \in Defaults, SetContext(p, c)
      PROVE  Inv1'
  <2>1. PICK ret \in {-1, 0, 1} : call' = [call EXCEPT ![p] = Returned(ret, 0)]
    BY <1>5 DEF SetContext
  <2>2. CallsOK
    <3>1. 0 \in Int
      OBVIOUS
    <3>. QED  BY <1>0, <2>1, <3>1, ReturnKeeps
  <2>3. context' \in [Procs -> OrNone(Contexts)]
    BY <1>5, ConstantTypes DEF SetContext, Inv1, TypeOK, OrNone
  <2>. QED  BY <1>5, <2>2, <2>3 DEF SetContext, Inv1, TypeOK, tables
<1>6. CASE ResetContext(p)
  <2>1. PICK ret \in {-1, 0, 1} : call' = [call EXCEPT ![p] = Returned(ret, 0)]
    BY <1>6 DEF ResetContext
  <2>2. CallsOK
    <3>1. 0 \in Int
      OBVIOUS
    <3>. QED  BY <1>0, <2>1, <3>1, ReturnKeeps
  <2>3. context' \in [Procs -> OrNone(Contexts)]
    BY <1>6 DEF ResetContext, Inv1, TypeOK, OrNone
  <2>. QED  BY <1>6, <2>2, <2>3 DEF ResetContext, Inv1, TypeOK, tables
<1>. QED  BY <1>1, <1>2, <1>3, <1>4, <1>5, <1>6

(* The empty store satisfies the first layer.                              *)
LEMMA Inv1Init == Init => Inv1
<1>. SUFFICES ASSUME Init PROVE Inv1
  OBVIOUS
<1>. DEFINE c == Returned(0, 0)
<1>1. CallOK(c) /\ c.pc = "idle"
  BY ReturnedOK
<1>2. c \in CallType
  BY <1>1 DEF CallOK
<1>3. call = [p \in Procs |-> c]
  BY DEF Init
<1>. HIDE DEF c
<1>4. call \in [Procs -> CallType] /\ \A p \in Procs : CallOK(call[p])
  BY <1>1, <1>2, <1>3
<1>5. Excess = {}
  BY <1>1, <1>3 DEF Excess
<1>6. TypeOK
  BY <1>4, ConstantTypes DEF Init, TypeOK, OrNone
<1>. QED  BY <1>4, <1>5, <1>6 DEF Inv1, Overrun

(* Every step keeps the first layer.                                       *)
LEMMA Inv1Next == Inv1 /\ [Next]_vars => Inv1'
<1>. SUFFICES ASSUME Inv1, [Next]_vars PROVE Inv1'
  OBVIOUS
<1>1. CASE UNCHANGED vars
  BY <1>1 DEF vars, tables, Inv1, TypeOK, Overrun, Excess
<1>2. ASSUME NEW p \in Procs, Call(p) PROVE Inv1'
  BY <1>2, BeginKeeps, ReadKeeps DEF Call, InsertCall, RemoveCall
<1>3. ASSUME NEW p \in Procs, Insert(p) PROVE Inv1'
  BY <1>3, InsertKeeps, EntryKeeps DEF Insert
<1>4. ASSUME NEW p \in Procs, Remove(p) PROVE Inv1'
  BY <1>4, RemoveKeeps, EntryKeeps DEF Remove
<1>5. ASSUME NEW p \in Procs,
             FetchEntry(p) \/ Touch(p) \/ SizeRemoved(p) \/ SizeCounter(p) \/ Fail(p)
      PROVE  Inv1'
  BY <1>5, RemoveKeeps, EntryKeeps, ReadKeeps
<1>. QED  BY <1>1, <1>2, <1>3, <1>4, <1>5 DEF Next

(* Type correctness: in particular an id always fits the bitmaps, because  *)
(* rdfstore_insert refuses the numbers beyond the capacity.                *)
THEOREM TypeCorrect == Spec => []TypeOK
<1>1. Inv1 => TypeOK
  BY DEF Inv1
<1>. QED  BY <1>1, Inv1Init, Inv1Next, PTL DEF Spec

-----------------------------------------------------------------------------
(* The second layer: ids.  The numbers from the counter on have never been *)
(* given out, and a call that inserts owns the number it was given.        *)

Fresh == \A i \in Ids : i >= counter => asserted[i] = None

Owned ==
  \A p \in Procs :
    Inserting(p) => asserted[call[p].id] = <<call[p].st, call[p].ctx>>

Named ==
  \A h \in Digests : statements[h] # None => asserted[statements[h]] # None

Inv2 == Inv1 /\ Fresh /\ Owned /\ Named /\ IdsUnique

(* The step in which an insertion gets its id.                             *)
Allocates(p) ==
  /\ InsertIncrement(p)
  /\ counter \in Ids
  /\ counter' = counter + 1
  /\ asserted' = [asserted EXCEPT ![counter] = <<call[p].st, call[p].ctx>>]

SameCall(q) ==
  /\ call'[q].id = call[q].id
  /\ call'[q].st = call[q].st
  /\ call'[q].ctx = call[q].ctx

(* A step of p, for the calls that hold an id.                             *)
InsertingEffect(p) ==
  \A q \in Procs :
    Inserting(q)' =>
      \/ Inserting(q) /\ SameCall(q)
      \/ /\ q = p
         /\ Allocates(p)
         /\ call'[p].id = counter
         /\ call'[p].st = call[p].st
         /\ call'[p].ctx = call[p].ctx

Quiet(p) == Call(p) \/ SizeRemoved(p) \/ SizeCounter(p) \/ Touch(p) \/ Fail(p)

(* Every step changes the insertions under way in one of these ways.       *)
LEMMA InsertingStep ==
  ASSUME Inv1, NEW p \in Procs,
         \/ Quiet(p) \/ Insert(p) \/ Remove(p) \/ FetchEntry(p)
  PROVE  InsertingEffect(p)
<1>. USE DEF InsertingEffect
<1>0. /\ call \in [Procs -> CallType]
      /\ CallOK(call[p])
      /\ call[p].op \in Ops
  BY CallFacts DEF Inv1, TypeOK, CallType
<1>1. ASSUME NEW r, r.pc = "idle" \/ r.op # "insert" \/ r.pc = "exists",
             call' = [call EXCEPT ![p] = r]
      PROVE  InsertingEffect(p)
  BY <1>0, <1>1 DEF Inserting, SameCall
<1>2. ASSUME NEW ret, NEW out, call' = [call EXCEPT ![p] = Returned(ret, out)]
      PROVE  InsertingEffect(p)
  BY <1>1, <1>2 DEF Returned
<1>3. ASSUME NEW pc, Goto(p, pc),
             pc \in {"inc", "dec", "touch", "forget"} \/ call[p].op # "insert"
      PROVE  InsertingEffect(p)
  BY <1>0, <1>3 DEF Goto, Inserting, SameCall
<1>4. ASSUME Quiet(p) PROVE InsertingEffect(p)
  <2>1. ASSUME NEW op, NEW o, NEW g, NEW pc, Begin(p, op, o, g, pc),
               op = "insert" => pc = "exists"
        PROVE  InsertingEffect(p)
    <3>. DEFINE c == ContextOf(p, o, g)
                r == [Returned(0, 0) EXCEPT !.pc = pc, !.op = op, !.st = o.st,
                        !.ctx = c, !.hc = HashCode(p, o, c)]
    <3>1. call' = [call EXCEPT ![p] = r]
      BY <2>1 DEF Begin
    <3>2. r.op # "insert" \/ r.pc = "exists"
      BY <2>1 DEF Returned
    <3>. HIDE DEF r
    <3>. QED  BY <1>1, <3>1, <3>2
  <2>2. ASSUME NEW op \in {"size", "is_empty"}, SizeCall(p, op)
        PROVE  InsertingEffect(p)
    <3>. DEFINE r == [Returned(0, 0) EXCEPT !.pc = "size_removed", !.op = op]
    <3>1. call' = [call EXCEPT ![p] = r]
      BY <2>2 DEF SizeCall
    <3>2. r.op # "insert"
      BY <2>2 DEF Returned
    <3>. HIDE DEF r
    <3>. QED  BY <1>1, <3>1, <3>2
  <2>3. ASSUME NEW o, NEW g, Contains(p, o, g) PROVE InsertingEffect(p)
    BY <1>2, <2>3 DEF Contains
  <2>4. ASSUME NEW c, SetContext(p, c) PROVE InsertingEffect(p)
    BY <1>2, <2>4 DEF SetContext
  <2>5. CASE ResetContext(p)
    BY <1>2, <2>5 DEF ResetContext
  <2>6. CASE SizeRemoved(p)
    BY <1>0, <2>6 DEF SizeRemoved, Inserting, SameCall
  <2>7. CASE SizeCounter(p)
    <3>1. CASE call[p].op = "size"
      BY <1>2, <2>7, <3>1 DEF SizeCounter
    <3>2. CASE call[p].op # "size"
      BY <1>2, <2>7, <3>2 DEF SizeCounter
    <3>. QED  BY <3>1, <3>2
  <2>8. CASE Touch(p) \/ Fail(p)
    BY <1>2, <2>8 DEF Touch, Fail, Return
  <2>. QED  BY <1>4, <2>1, <2>2, <2>3, <2>4, <2>5, <2>6, <2>7, <2>8
            DEF Quiet, Call, InsertCall, RemoveCall
<1>5. ASSUME Remove(p) PROVE InsertingEffect(p)
  <2>1. CASE RemoveFind(p)
    <3>1. call[p].op # "insert"
      BY <2>1, CallFacts DEF RemoveFind
    <3>2. CASE Return(p, 1)
      BY <1>2, <3>2 DEF Return
    <3>3. CASE statements[call[p].hc] # None
      <4>. DEFINE r == [call[p] EXCEPT !.pc = "unnode", !.id = statements[call[p].hc]]
      <4>1. r.op # "insert" /\ call' = [call EXCEPT ![p] = r]
        BY <1>0, <2>1, <3>1, <3>3 DEF RemoveFind, CallOK, CallType
      <4>. HIDE DEF r
      <4>. QED  BY <1>1, <4>1
    <3>. QED  BY <2>1, <3>2, <3>3 DEF RemoveFind
  <2>2. CASE RemoveNode(p)
    <3>1. call[p].op # "insert"
      BY <2>2, CallFacts DEF RemoveNode
    <3>2. CASE Return(p, 1)
      BY <1>2, <3>2 DEF Return
    <3>3. CASE nodes[call[p].id] # None
      <4>. DEFINE r == [call[p] EXCEPT !.pc = "fetch",
                                       !.todo = RemoveEntries(call[p].st, call[p].ctx)]
      <4>1. r.op # "insert" /\ call' = [call EXCEPT ![p] = r]
        BY <1>0, <2>2, <3>1, <3>3 DEF RemoveNode, CallOK, CallType
      <4>. HIDE DEF r
      <4>. QED  BY <1>1, <4>1
    <3>. QED  BY <2>2, <3>2, <3>3 DEF RemoveNode
  <2>3. CASE RemoveEntry(p) \/ RemoveWord(p)
    <3>1. call[p].op # "insert"
      BY <2>3 DEF RemoveEntry, RemoveWord, Removing
    <3>2. CASE Return(p, 1)
      BY <1>2, <3>2 DEF Return
    <3>3. CASE NextEntry(p, "count")
      <4>. DEFINE r == [call[p] EXCEPT
                          !.pc = IF Len(call[p].todo) = 1 THEN "count" ELSE "fetch",
                          !.todo = Tail(@), !.bits = {}]
      <4>1. r.op # "insert" /\ call' = [call EXCEPT ![p] = r]
        BY <1>0, <3>1, <3>3 DEF NextEntry, CallOK, CallType
      <4>. HIDE DEF r
      <4>. QED  BY <1>1, <4>1
    <3>. QED  BY <2>3, <3>2, <3>3 DEF RemoveEntry, RemoveWord
  <2>4. CASE RemoveCount(p)
    BY <1>3, <2>4 DEF RemoveCount
  <2>5. CASE RemoveStatement(p)
    BY <1>2, <1>3, <2>5 DEF RemoveStatement, Return
  <2>. QED  BY <1>5, <2>1, <2>2, <2>3, <2>4, <2>5 DEF Remove
<1>6. ASSUME Insert(p) PROVE InsertingEffect(p)
  <2>1. CASE InsertExists(p)
    BY <1>2, <1>3, <2>1 DEF InsertExists, Return
  <2>2. CASE InsertExistsError(p)
    BY <1>3, <2>2 DEF InsertExistsError
  <2>3. CASE InsertIncrement(p)
    <3>0. counter' = counter + 1 /\ counter \in Nat
      BY <2>3 DEF InsertIncrement, Inv1, TypeOK
    <3>1. CASE Exhausted(counter')
      BY <1>3, <2>3, <3>1 DEF InsertIncrement
    <3>2. CASE ~Exhausted(counter')
      <4>1. Allocates(p)
        BY <2>3, <3>0, <3>2, ConstantTypes DEF InsertIncrement, Allocates, Exhausted, Ids
      <4>2. CASE Return(p, -1)
        BY <1>2, <4>2 DEF Return
      <4>3. CASE call' = [call EXCEPT ![p].pc = "nodes", ![p].id = counter]
        BY <1>0, <4>1, <4>3 DEF CallType, Inserting, SameCall
      <4>. QED  BY <2>3, <3>2, <4>2, <4>3 DEF InsertIncrement
    <3>. QED  BY <3>1, <3>2
  <2>4. CASE InsertDecrement(p)
    BY <1>2, <2>4 DEF InsertDecrement, Return
  <2>5. CASE InsertNode(p)
    <3>1. call[p].op = "insert"
      BY <2>5, CallFacts DEF InsertNode
    <3>. QED  BY <1>0, <2>5, <3>1 DEF InsertNode, Inserting, SameCall
  <2>6. CASE InsertEntry(p)
    BY <1>0, <2>6 DEF InsertEntry, NextEntry, Inserting, SameCall
  <2>7. CASE InsertStatement(p)
    BY <1>3, <2>7 DEF InsertStatement
  <2>. QED  BY <1>6, <2>1, <2>2, <2>3, <2>4, <2>5, <2>6, <2>7 DEF Insert
<1>7. ASSUME FetchEntry(p) PROVE InsertingEffect(p)
  BY <1>0, <1>7 DEF FetchEntry, Inserting, SameCall
<1>. QED  BY <1>4, <1>5, <1>6, <1>7

Step(p) == Quiet(p) \/ Insert(p) \/ Remove(p) \/ FetchEntry(p)

(* What a step does to the numbers: it gives one out, or it gives none and *)
(* the counter grows, or it hands one back and stays above the capacity.   *)
LEMMA NumberStep ==
  ASSUME Inv1, NEW p \in Procs, Step(p)
  PROVE  \/ Allocates(p)
         \/ UNCHANGED asserted /\ counter' >= counter
         \/ UNCHANGED asserted /\ counter' >= MaxRecords
<1>0. counter \in Nat
  BY DEF Inv1, TypeOK
<1>1. CASE Quiet(p) \/ FetchEntry(p) \/ Remove(p)
  <2>1. UNCHANGED <<counter, asserted>>
    BY <1>1 DEF Quiet, Call, InsertCall, RemoveCall, Begin, Contains, SizeCall,
       SetContext, ResetContext, SizeRemoved, SizeCounter, Touch, Fail, FetchEntry,
       Remove, RemoveFind, RemoveNode, RemoveEntry, RemoveWord, RemoveCount,
       RemoveStatement, tables
  <2>. QED  BY <1>0, <2>1
<1>2. CASE InsertIncrement(p)
  <2>1. CASE Exhausted(counter')
    BY <1>0, <1>2, <2>1 DEF InsertIncrement
  <2>2. CASE ~Exhausted(counter')
    <3>1. counter' = counter + 1
      BY <1>2 DEF InsertIncrement
    <3>2. counter \in Ids
      BY <1>0, <2>2, <3>1, ConstantTypes DEF Exhausted, Ids
    <3>. QED  BY <1>2, <2>2, <3>1, <3>2 DEF InsertIncrement, Allocates
  <2>. QED  BY <2>1, <2>2
<1>3. CASE InsertDecrement(p)
  <2>1. p \in Excess
    BY <1>3 DEF InsertDecrement, Excess
  <2>2. IsFiniteSet(Excess)
    BY ProcsFinite, FS_Subset DEF Excess
  <2>3. Cardinality(Excess) \in Nat /\ Cardinality(Excess) # 0
    BY <2>1, <2>2, FS_EmptySet, FS_CardinalityType
  <2>4. counter >= MaxRecords + Cardinality(Excess)
    BY <2>1 DEF Inv1, Overrun
  <2>5. counter' = counter - 1 /\ UNCHANGED asserted
    BY <1>3 DEF InsertDecrement, HandBack
  <2>. QED  BY <1>0, <2>3, <2>4, <2>5, ConstantTypes
<1>4. CASE \/ InsertExists(p) \/ InsertExistsError(p) \/ InsertNode(p)
           \/ InsertEntry(p) \/ InsertStatement(p)
  <2>1. UNCHANGED <<counter, asserted>>
    BY <1>4 DEF InsertExists, InsertExistsError, InsertNode, InsertEntry,
       InsertStatement, tables
  <2>. QED  BY <1>0, <2>1
<1>. QED  BY <1>1, <1>2, <1>3, <1>4 DEF Step, Insert

(* What a step does to the statements table: it may write, under one hash  *)
(* code, the id of a call that thereby stops inserting.                    *)
LEMMA StatementsStep ==
  ASSUME Inv1, NEW p \in Procs, Step(p), NEW h \in Digests
  PROVE  \/ statements'[h] = statements[h]
         \/ statements'[h] = None
         \/ statements'[h] = call[p].id /\ Inserting(p) /\ ~Inserting(p)'
<1>0. statements \in [Digests -> OrNone(Ids)] /\ call \in [Procs -> CallType]
  BY DEF Inv1, TypeOK
<1>1. CASE InsertStatement(p)
  <2>1. call[p].op = "insert" /\ Inserting(p)
    BY <1>1, CallFacts DEF InsertStatement, Inserting
  <2>2. call'[p].pc = "touch"
    BY <1>0, <1>1 DEF InsertStatement, Goto, CallType
  <2>. QED  BY <1>0, <1>1, <2>1, <2>2 DEF InsertStatement, Inserting
<1>2. CASE RemoveStatement(p)
  BY <1>0, <1>2 DEF RemoveStatement
<1>3. CASE ~InsertStatement(p) /\ ~RemoveStatement(p)
  <2>1. UNCHANGED statements
    BY <1>3 DEF Step, Quiet, Call, InsertCall, RemoveCall, Begin, Contains, SizeCall,
       SetContext, ResetContext, SizeRemoved, SizeCounter, Touch, Fail, FetchEntry,
       Remove, RemoveFind, RemoveNode, RemoveEntry, RemoveWord, RemoveCount,
       Insert, InsertExists, InsertExistsError, InsertIncrement, InsertDecrement,
       InsertNode, InsertEntry, tables
  <2>. QED  BY <2>1
<1>. QED  BY <1>1, <1>2, <1>3

(* A step of one handle keeps the second layer, and every id its quad.     *)
LEMMA Inv2Step ==
  ASSUME Inv2, NEW p \in Procs, Step(p), Inv1'
  PROVE  /\ Inv2'
         /\ \A i \in Ids : asserted[i] # None => asserted'[i] = asserted[i]
<1>1. /\ asserted \in [Ids -> OrNone(Quads)] /\ counter \in Nat
      /\ \A q \in Procs : call[q].id \in Ids /\ call'[q].id \in Ids
      /\ \A h \in Digests : statements[h] \in OrNone(Ids)
      /\ \A h \in Digests : statements'[h] \in OrNone(Ids)
  BY DEF Inv2, Inv1, TypeOK, CallType
<1>2. InsertingEffect(p)
  BY InsertingStep DEF Inv2, Step
<1>3. \A i \in Ids : asserted[i] # None => asserted'[i] = asserted[i]
  <2>1. CASE Allocates(p)
    BY <1>1, <2>1 DEF Allocates, Inv2, Fresh
  <2>2. CASE UNCHANGED asserted
    BY <2>2
  <2>. QED  BY <2>1, <2>2, NumberStep DEF Inv2
<1>4. Fresh'
  <2>1. CASE Allocates(p)
    BY <1>1, <2>1 DEF Allocates, Inv2, Fresh, Ids
  <2>2. CASE UNCHANGED asserted /\ counter' >= counter
    <3>1. counter' \in Nat
      BY DEF Inv1, TypeOK
    <3>. QED  BY <1>1, <2>2, <3>1 DEF Inv2, Fresh, Ids
  <2>3. CASE UNCHANGED asserted /\ counter' >= MaxRecords
    <3>1. counter' \in Nat
      BY DEF Inv1, TypeOK
    <3>. QED  BY <2>3, <3>1, ConstantTypes DEF Fresh, Ids
  <2>. QED  BY <2>1, <2>2, <2>3, NumberStep DEF Inv2
<1>5. Owned'
  <2>. SUFFICES ASSUME NEW q \in Procs, Inserting(q)'
                PROVE  asserted'[call'[q].id] = <<call'[q].st, call'[q].ctx>>
    BY DEF Owned
  <2>1. CASE Inserting(q) /\ SameCall(q)
    <3>1. asserted[call[q].id] = <<call[q].st, call[q].ctx>>
      BY <2>1 DEF Inv2, Owned
    <3>2. <<call[q].st, call[q].ctx>> # None
      <4>1. CallOK(call[q]) /\ call[q].op = "insert"
        BY <2>1 DEF Inv2, Inv1, Inserting
      <4>2. <<call[q].st, call[q].ctx>> \in Quads
        BY <4>1 DEF CallOK, CallType, Quads
      <4>. QED  BY <4>2, NoneIsNothing
    <3>. QED  BY <1>1, <1>3, <2>1, <3>1, <3>2 DEF SameCall
  <2>2. CASE /\ q = p
             /\ Allocates(p)
             /\ call'[p].id = counter
             /\ call'[p].st = call[p].st
             /\ call'[p].ctx = call[p].ctx
    BY <1>1, <2>2 DEF Allocates
  <2>. QED  BY <1>2, <2>1, <2>2 DEF InsertingEffect
<1>6. Named'
  <2>. SUFFICES ASSUME NEW h \in Digests, statements'[h] # None
                PROVE  asserted'[statements'[h]] # None
    BY DEF Named
  <2>1. CASE statements'[h] = statements[h]
    BY <1>1, <1>3, <2>1 DEF Inv2, Named, OrNone
  <2>2. CASE statements'[h] = call[p].id /\ Inserting(p)
    <3>1. CallOK(call[p]) /\ call[p].op = "insert"
      BY <2>2 DEF Inv2, Inv1, Inserting
    <3>2. <<call[p].st, call[p].ctx>> # None
      BY <3>1, NoneIsNothing DEF CallOK, CallType, Quads
    <3>. QED  BY <1>1, <1>3, <2>2, <3>2 DEF Inv2, Owned
  <2>. QED  BY <2>1, <2>2, StatementsStep DEF Inv2
<1>7. IdsUnique'
  <2>0. \A q \in Procs : Inserting(q) => asserted[call[q].id] # None
    <3>. SUFFICES ASSUME NEW q \in Procs, Inserting(q)
                  PROVE  asserted[call[q].id] # None
      OBVIOUS
    <3>1. CallOK(call[q]) /\ call[q].op = "insert"
      BY DEF Inv2, Inv1, Inserting
    <3>2. <<call[q].st, call[q].ctx>> # None
      BY <3>1, NoneIsNothing DEF CallOK, CallType, Quads
    <3>. QED  BY <3>2 DEF Inv2, Owned
  <2>1. ASSUME Allocates(p) PROVE asserted[counter] = None /\ counter \in Ids
    BY <1>1, <2>1 DEF Allocates, Inv2, Fresh
  <2>2. ASSUME NEW q \in Procs, NEW r \in Procs,
               Inserting(q)', Inserting(r)', call'[q].id = call'[r].id
        PROVE  q = r
    <3>1. CASE Inserting(q) /\ SameCall(q) /\ Inserting(r) /\ SameCall(r)
      BY <2>2, <3>1 DEF Inv2, IdsUnique, SameCall
    <3>2. CASE Inserting(q) /\ SameCall(q) /\ Allocates(p) /\ call'[r].id = counter
      BY <2>0, <2>1, <2>2, <3>2 DEF SameCall
    <3>3. CASE Inserting(r) /\ SameCall(r) /\ Allocates(p) /\ call'[q].id = counter
      BY <2>0, <2>1, <2>2, <3>3 DEF SameCall
    <3>. QED  BY <1>2, <2>2, <3>1, <3>2, <3>3 DEF InsertingEffect
  <2>3. ASSUME NEW q \in Procs, NEW h \in Digests, Inserting(q)'
        PROVE  statements'[h] # call'[q].id
    <3>1. CASE statements'[h] = None
      BY <1>1, <3>1, NoneIsNothing
    <3>2. CASE statements'[h] = statements[h] /\ statements'[h] # None
      <4>1. asserted[statements[h]] # None
        BY <3>2 DEF Inv2, Named
      <4>2. CASE Inserting(q) /\ SameCall(q)
        BY <3>2, <4>2 DEF Inv2, IdsUnique, SameCall
      <4>3. CASE Allocates(p) /\ call'[q].id = counter
        BY <2>1, <3>2, <4>1, <4>3
      <4>. QED  BY <1>2, <2>3, <4>2, <4>3 DEF InsertingEffect
    <3>3. CASE statements'[h] = call[p].id /\ Inserting(p) /\ ~Inserting(p)'
      <4>1. q # p
        BY <2>3, <3>3
      <4>2. Inserting(q) /\ SameCall(q)
        BY <1>2, <2>3, <4>1 DEF InsertingEffect
      <4>. QED  BY <3>3, <4>1, <4>2 DEF Inv2, IdsUnique, SameCall
    <3>. QED  BY <3>1, <3>2, <3>3, StatementsStep DEF Inv2
  <2>. QED  BY <2>2, <2>3 DEF IdsUnique
<1>. QED  BY <1>3, <1>4, <1>5, <1>6, <1>7 DEF Inv2

(* Every step does.                                                        *)
LEMMA Inv2Next ==
  ASSUME Inv2, [Next]_vars
  PROVE  /\ Inv2'
         /\ \A i \in Ids : asserted[i] # None => asserted'[i] = asserted[i]
<1>1. Inv1'
  BY Inv1Next DEF Inv2
<1>2. CASE UNCHANGED vars
  BY <1>1, <1>2 DEF vars, tables, Inv2, Fresh, Owned, Named, IdsUnique, Inserting
<1>3. ASSUME NEW p \in Procs, Step(p)
      PROVE  /\ Inv2'
             /\ \A i \in Ids : asserted[i] # None => asserted'[i] = asserted[i]
  BY <1>1, <1>3, Inv2Step
<1>. QED  BY <1>2, <1>3 DEF Next, Step, Quiet

(* The empty store satisfies the second layer.                             *)
LEMMA Inv2Init == Init => Inv2
<1>. SUFFICES ASSUME Init PROVE Inv2
  OBVIOUS
<1>1. Inv1
  BY Inv1Init
<1>2. \A p \in Procs : ~Inserting(p)
  BY DEF Init, Returned, Inserting
<1>. QED  BY <1>1, <1>2 DEF Init, Inv2, Fresh, Owned, Named, IdsUnique

(* No two insertions hold the same id, and no hash code names the id of an *)
(* insertion under way, for any number of handles and failures.            *)
THEOREM UniqueIds == Spec => []IdsUnique
<1>1. Inv2 => IdsUnique
  BY DEF Inv2
<1>2. Inv2 /\ [Next]_vars => Inv2'
  BY Inv2Next
<1>. QED  BY <1>1, <1>2, Inv2Init, PTL DEF Spec

(* An id, once given to a statement, stands for that statement for ever:   *)
(* what rdfstore_insert hands back at the capacity is never given again.   *)
THEOREM IdsStay == Spec => IdsNeverReused
<1>. DEFINE Kept == \A i \in Ids : asserted[i] # None => asserted'[i] = asserted[i]
<1>1. Inv2 /\ [Next]_vars => Inv2' /\ [Kept]_vars
  BY Inv2Next
<1>. QED  BY <1>1, Inv2Init, PTL DEF Spec, IdsNeverReused

-----------------------------------------------------------------------------
(* The third layer: postings.  What a call holds in memory between reading *)
(* a posting and writing it back is as sound as the posting was, since no  *)
(* id changes its statement in between.                                    *)

SoundFor(S, e) == \A i \in S : asserted[i] # None /\ e \in EntriesOf(asserted[i])

BuffersSound ==
  \A p \in Procs : call[p].pc = "store" => SoundFor(call[p].bits, Head(call[p].todo))

TodoSound ==
  \A p \in Procs :
    (Inserting(p) /\ call[p].pc \in {"fetch", "store"}) =>
      \A k \in 1 .. Len(call[p].todo) :
        call[p].todo[k] \in EntriesOf(<<call[p].st, call[p].ctx>>)

Inv3 == Inv2 /\ IndexSound /\ BuffersSound /\ TodoSound

(* How a call gets to, or stays at, the loop over the postings.            *)
LoopEffect(p) ==
  \A q \in Procs :
    call'[q].pc \in {"fetch", "store"} =>
      \/ call'[q] = call[q]
      \/ q = p /\ FetchEntry(p)
      \/ q = p /\ InsertNode(p)
      \/ q = p /\ RemoveNode(p) /\ call'[p].pc = "fetch" /\ call'[p].op = "remove"
      \/ q = p /\ InsertEntry(p) /\ call'[p].pc = "fetch"
      \/ q = p /\ call'[p].pc = "fetch" /\ call'[p].op = "remove"

(* A call is in the loop over postings only by one of these steps.         *)
LEMMA LoopStep ==
  ASSUME Inv1, NEW p \in Procs, Step(p)
  PROVE  LoopEffect(p)
<1>. USE DEF LoopEffect
<1>0. /\ call \in [Procs -> CallType]
      /\ CallOK(call[p])
  BY CallFacts DEF Inv1, TypeOK
<1>1. ASSUME NEW r, r.pc \notin {"fetch", "store"}, call' = [call EXCEPT ![p] = r]
      PROVE  LoopEffect(p)
  BY <1>0, <1>1
<1>2. ASSUME NEW ret, NEW out, call' = [call EXCEPT ![p] = Returned(ret, out)]
      PROVE  LoopEffect(p)
  BY <1>1, <1>2 DEF Returned
<1>3. ASSUME NEW pc, Goto(p, pc), pc \notin {"fetch", "store"}
      PROVE  LoopEffect(p)
  <2>. DEFINE r == [call[p] EXCEPT !.pc = pc]
  <2>1. r.pc \notin {"fetch", "store"} /\ call' = [call EXCEPT ![p] = r]
    BY <1>0, <1>3 DEF Goto, CallType
  <2>. HIDE DEF r
  <2>. QED  BY <1>1, <2>1
<1>4. ASSUME Quiet(p) PROVE LoopEffect(p)
  <2>1. ASSUME NEW op, NEW o, NEW g, NEW pc, Begin(p, op, o, g, pc),
               pc \in {"exists", "find"}
        PROVE  LoopEffect(p)
    <3>. DEFINE c == ContextOf(p, o, g)
                r == [Returned(0, 0) EXCEPT !.pc = pc, !.op = op, !.st = o.st,
                        !.ctx = c, !.hc = HashCode(p, o, c)]
    <3>1. call' = [call EXCEPT ![p] = r]
      BY <2>1 DEF Begin
    <3>2. r.pc \notin {"fetch", "store"}
      BY <2>1 DEF Returned
    <3>. HIDE DEF r
    <3>. QED  BY <1>1, <3>1, <3>2
  <2>2. ASSUME NEW op \in {"size", "is_empty"}, SizeCall(p, op)
        PROVE  LoopEffect(p)
    <3>. DEFINE r == [Returned(0, 0) EXCEPT !.pc = "size_removed", !.op = op]
    <3>1. call' = [call EXCEPT ![p] = r]
      BY <2>2 DEF SizeCall
    <3>2. r.pc \notin {"fetch", "store"}
      BY DEF Returned
    <3>. HIDE DEF r
    <3>. QED  BY <1>1, <3>1, <3>2
  <2>3. ASSUME NEW o, NEW g, Contains(p, o, g) PROVE LoopEffect(p)
    BY <1>2, <2>3 DEF Contains
  <2>4. ASSUME NEW c, SetContext(p, c) PROVE LoopEffect(p)
    BY <1>2, <2>4 DEF SetContext
  <2>5. CASE ResetContext(p)
    BY <1>2, <2>5 DEF ResetContext
  <2>6. CASE SizeRemoved(p)
    BY <1>0, <2>6 DEF SizeRemoved, CallType
  <2>7. CASE SizeCounter(p)
    <3>1. CASE call[p].op = "size"
      BY <1>2, <2>7, <3>1 DEF SizeCounter
    <3>2. CASE call[p].op # "size"
      BY <1>2, <2>7, <3>2 DEF SizeCounter
    <3>. QED  BY <3>1, <3>2
  <2>8. CASE Touch(p) \/ Fail(p)
    BY <1>2, <2>8 DEF Touch, Fail, Return
  <2>. QED  BY <1>4, <2>1, <2>2, <2>3, <2>4, <2>5, <2>6, <2>7, <2>8
            DEF Quiet, Call, InsertCall, RemoveCall
<1>5. ASSUME Remove(p) PROVE LoopEffect(p)
  <2>1. CASE RemoveFind(p)
    <3>1. CASE Return(p, 1)
      BY <1>2, <3>1 DEF Return
    <3>2. CASE statements[call[p].hc] # None
      <4>. DEFINE r == [call[p] EXCEPT !.pc = "unnode", !.id = statements[call[p].hc]]
      <4>1. r.pc \notin {"fetch", "store"} /\ call' = [call EXCEPT ![p] = r]
        BY <1>0, <2>1, <3>2 DEF RemoveFind, CallOK, CallType
      <4>. HIDE DEF r
      <4>. QED  BY <1>1, <4>1
    <3>. QED  BY <2>1, <3>1, <3>2 DEF RemoveFind
  <2>2. CASE RemoveNode(p)
    <3>1. CASE Return(p, 1)
      BY <1>2, <3>1 DEF Return
    <3>2. CASE nodes[call[p].id] # None
      <4>1. call[p].op = "remove"
        BY <2>2, CallFacts DEF RemoveNode
      <4>2. call'[p].op = "remove" /\ call'[p].pc = "fetch"
        BY <1>0, <2>2, <3>2, <4>1 DEF RemoveNode, CallType
      <4>3. \A q \in Procs : q # p => call'[q] = call[q]
        BY <1>0, <2>2, <3>2 DEF RemoveNode
      <4>. QED  BY <2>2, <4>2, <4>3
    <3>. QED  BY <2>2, <3>1, <3>2 DEF RemoveNode
  <2>3. CASE RemoveEntry(p) \/ RemoveWord(p)
    <3>1. CASE Return(p, 1)
      BY <1>2, <3>1 DEF Return
    <3>2. CASE NextEntry(p, "count")
      <4>1. call[p].op = "remove"
        BY <2>3 DEF RemoveEntry, RemoveWord, Removing
      <4>2. call'[p].op = "remove" /\ call'[p].pc \in {"count", "fetch"}
        BY <1>0, <3>2, <4>1 DEF NextEntry, CallType
      <4>3. \A q \in Procs : q # p => call'[q] = call[q]
        BY <1>0, <3>2 DEF NextEntry
      <4>. QED  BY <4>2, <4>3
    <3>. QED  BY <2>3, <3>1, <3>2 DEF RemoveEntry, RemoveWord
  <2>4. CASE RemoveCount(p)
    BY <1>3, <2>4 DEF RemoveCount
  <2>5. CASE RemoveStatement(p)
    BY <1>2, <1>3, <2>5 DEF RemoveStatement, Return
  <2>. QED  BY <1>5, <2>1, <2>2, <2>3, <2>4, <2>5 DEF Remove
<1>6. ASSUME Insert(p) PROVE LoopEffect(p)
  <2>1. CASE InsertExists(p)
    BY <1>2, <1>3, <2>1 DEF InsertExists, Return
  <2>2. CASE InsertExistsError(p)
    BY <1>3, <2>2 DEF InsertExistsError
  <2>3. CASE InsertIncrement(p)
    <3>1. CASE Goto(p, "dec")
      BY <1>3, <3>1
    <3>2. CASE Return(p, -1)
      BY <1>2, <3>2 DEF Return
    <3>3. CASE call' = [call EXCEPT ![p].pc = "nodes", ![p].id = counter]
      BY <1>0, <3>3 DEF CallType
    <3>. QED  BY <2>3, <3>1, <3>2, <3>3 DEF InsertIncrement
  <2>4. CASE InsertDecrement(p)
    BY <1>2, <2>4 DEF InsertDecrement, Return
  <2>5. CASE InsertNode(p)
    BY <1>0, <2>5 DEF InsertNode
  <2>6. CASE InsertEntry(p)
    <3>1. call'[p].pc \in {"statements", "fetch"}
      BY <1>0, <2>6 DEF InsertEntry, NextEntry, CallType
    <3>2. \A q \in Procs : q # p => call'[q] = call[q]
      BY <1>0, <2>6 DEF InsertEntry, NextEntry
    <3>. QED  BY <2>6, <3>1, <3>2
  <2>7. CASE InsertStatement(p)
    BY <1>3, <2>7 DEF InsertStatement
  <2>. QED  BY <1>6, <2>1, <2>2, <2>3, <2>4, <2>5, <2>6, <2>7 DEF Insert
<1>7. ASSUME FetchEntry(p) PROVE LoopEffect(p)
  BY <1>0, <1>7 DEF FetchEntry
<1>. QED  BY <1>4, <1>5, <1>6, <1>7 DEF Step


(* What a step writes into a posting: ids the call read from it, and the   *)
(* id it is inserting.                                                     *)
LEMMA IndexStep ==
  ASSUME Inv1, NEW p \in Procs, Step(p), NEW e \in Entries, NEW i \in index'[e]
  PROVE  \/ i \in index[e]
         \/ /\ call[p].pc = "store" /\ e = Head(call[p].todo)
            /\ i \in call[p].bits \/ (i = call[p].id /\ Inserting(p))
<1>0. index \in [Entries -> SUBSET Ids]
  BY DEF Inv1, TypeOK
<1>1. CASE InsertEntry(p)
  BY <1>0, <1>1 DEF InsertEntry, Inserting
<1>2. CASE RemoveEntry(p)
  <2>. DEFINE f == Head(call[p].todo)
              rest == call[p].bits \ {call[p].id}
  <2>1. index' = [index EXCEPT ![f] = rest] /\ call[p].pc = "store"
    BY <1>2 DEF RemoveEntry, Removing
  <2>. HIDE DEF f
  <2>2. e # f => index'[e] = index[e]
    BY <1>0, <2>1
  <2>3. e = f => index'[e] = rest
    BY <1>0, <2>1
  <2>. QED  BY <2>1, <2>2, <2>3 DEF f
<1>3. CASE RemoveWord(p)
  <2>. DEFINE f == Head(call[p].todo)
              rest == IF \E j, k \in call[p].bits : j # k
                      THEN call[p].bits \ {call[p].id} ELSE {}
  <2>1. index' = [index EXCEPT ![f] = rest] /\ call[p].pc = "store"
    BY <1>3 DEF RemoveWord, Removing
  <2>2. rest \subseteq call[p].bits
    OBVIOUS
  <2>. HIDE DEF f, rest
  <2>3. e # f => index'[e] = index[e]
    BY <1>0, <2>1
  <2>4. e = f => index'[e] = rest
    BY <1>0, <2>1
  <2>. QED  BY <2>1, <2>2, <2>3, <2>4 DEF f
<1>4. CASE ~InsertEntry(p) /\ ~RemoveEntry(p) /\ ~RemoveWord(p)
  <2>1. UNCHANGED index
    BY <1>4 DEF Step, Quiet, Call, InsertCall, RemoveCall, Begin, Contains, SizeCall,
       SetContext, ResetContext, SizeRemoved, SizeCounter, Touch, Fail, FetchEntry,
       Remove, RemoveFind, RemoveNode, RemoveCount, RemoveStatement,
       Insert, InsertExists, InsertExistsError, InsertIncrement, InsertDecrement,
       InsertNode, InsertStatement, tables
  <2>. QED  BY <2>1
<1>. QED  BY <1>1, <1>2, <1>3, <1>4

(* Buffers and pending entries stay sound through a step.                  *)
LEMMA Inv3Step ==
  ASSUME Inv3, NEW p \in Procs, Step(p), Inv2',
         \A i \in Ids : asserted[i] # None => asserted'[i] = asserted[i]
  PROVE  Inv3'
<1>0. /\ Inv1 /\ Inv1'
      /\ call \in [Procs -> CallType]
      /\ index \in [Entries -> SUBSET Ids]
      /\ \A q \in Procs : call[q].bits \subseteq Ids /\ call[q].todo \in Seq(Entries)
  BY DEF Inv3, Inv2, Inv1, TypeOK, CallType
<1>1. ASSUME NEW i \in Ids, NEW e, asserted[i] # None, e \in EntriesOf(asserted[i])
      PROVE  asserted'[i] # None /\ e \in EntriesOf(asserted'[i])
  <2>1. asserted'[i] = asserted[i]
    BY <1>1
  <2>. QED  BY <1>1, <2>1
<1>2. LoopEffect(p)
  BY <1>0, LoopStep
<1>3. IndexSound'
  <2>. SUFFICES ASSUME NEW e \in Entries, NEW i \in index'[e]
                PROVE  asserted'[i] # None /\ e \in EntriesOf(asserted'[i])
    BY DEF IndexSound, EntriesOf
  <2>1. CASE i \in index[e]
    BY <1>0, <1>1, <2>1 DEF Inv3, IndexSound
  <2>2. CASE call[p].pc = "store" /\ e = Head(call[p].todo) /\ i \in call[p].bits
    BY <1>0, <1>1, <2>2 DEF Inv3, BuffersSound, SoundFor
  <2>3. CASE /\ call[p].pc = "store" /\ e = Head(call[p].todo)
             /\ i = call[p].id /\ Inserting(p)
    <3>1. asserted[i] = <<call[p].st, call[p].ctx>>
      BY <2>3 DEF Inv3, Inv2, Owned
    <3>2. <<call[p].st, call[p].ctx>> # None /\ i \in Ids /\ Len(call[p].todo) > 0
      BY <1>0, <2>3, CallFacts, NoneIsNothing
      DEF Inv1, CallOK, CallType, Quads, Inserting
    <3>3. e = call[p].todo[1] /\ 1 \in 1 .. Len(call[p].todo)
      BY <1>0, <2>3, <3>2
    <3>4. e \in EntriesOf(<<call[p].st, call[p].ctx>>)
      BY <2>3, <3>3 DEF Inv3, TodoSound
    <3>. QED  BY <1>1, <3>1, <3>2, <3>4
  <2>. QED  BY <1>0, <2>1, <2>2, <2>3, IndexStep
<1>4. BuffersSound'
  <2>. SUFFICES ASSUME NEW q \in Procs, call'[q].pc = "store",
                       NEW i \in call'[q].bits
                PROVE  /\ asserted'[i] # None
                       /\ Head(call'[q].todo) \in EntriesOf(asserted'[i])
    BY DEF BuffersSound, SoundFor, EntriesOf
  <2>1. CASE call'[q] = call[q]
    BY <1>0, <1>1, <2>1 DEF Inv3, BuffersSound, SoundFor
  <2>2. CASE q = p /\ FetchEntry(p)
    <3>1. call'[p].bits = index[Head(call[p].todo)] /\ call'[p].todo = call[p].todo
      BY <1>0, <2>2 DEF FetchEntry, CallType
    <3>2. Head(call[p].todo) \in Entries
      BY <1>0, <2>2, CallFacts DEF FetchEntry
    <3>3. i \in index[Head(call[p].todo)] /\ i \in Ids
      BY <1>0, <2>2, <3>1, <3>2
    <3>. QED  BY <1>1, <2>2, <3>1, <3>2, <3>3 DEF Inv3, IndexSound
  <2>3. CASE q = p /\ InsertNode(p)
    <3>1. call'[p].pc = "fetch"
      BY <1>0, <2>3 DEF InsertNode, CallType
    <3>. QED  BY <2>3, <3>1
  <2>. QED  BY <1>2, <2>1, <2>2, <2>3 DEF LoopEffect
<1>5. TodoSound'
  <2>. SUFFICES ASSUME NEW q \in Procs, Inserting(q)',
                       call'[q].pc \in {"fetch", "store"},
                       NEW k \in 1 .. Len(call'[q].todo)
                PROVE  call'[q].todo[k] \in EntriesOf(<<call'[q].st, call'[q].ctx>>)
    BY DEF TodoSound, EntriesOf
  <2>0. call'[q].op = "insert"
    BY DEF Inserting
  <2>1. CASE call'[q] = call[q]
    BY <2>1 DEF Inv3, TodoSound, Inserting
  <2>2. CASE q = p /\ FetchEntry(p)
    <3>1. /\ call'[p].todo = call[p].todo /\ call'[p].op = call[p].op
          /\ call'[p].st = call[p].st /\ call'[p].ctx = call[p].ctx
          /\ call[p].pc = "fetch"
      BY <1>0, <2>2 DEF FetchEntry, CallType
    <3>. QED  BY <2>0, <2>2, <3>1 DEF Inv3, TodoSound, Inserting
  <2>3. CASE q = p /\ InsertNode(p)
    <3>1. /\ call'[p].todo = InsertEntries(call[p].st, call[p].ctx)
          /\ call'[p].st = call[p].st /\ call'[p].ctx = call[p].ctx
      BY <1>0, <2>3 DEF InsertNode, CallType
    <3>. QED  BY <2>3, <3>1 DEF EntriesOf
  <2>4. CASE q = p /\ InsertEntry(p)
    <3>1. /\ call'[p].todo = Tail(call[p].todo)
          /\ call'[p].st = call[p].st /\ call'[p].ctx = call[p].ctx
          /\ Inserting(p) /\ call[p].pc = "store"
      BY <1>0, <2>4 DEF InsertEntry, NextEntry, CallType, Inserting
    <3>2. Len(call[p].todo) > 0 /\ call[p].todo \in Seq(Entries)
      BY <1>0, <3>1, CallFacts
    <3>. DEFINE t == call[p].todo
    <3>. HIDE DEF t
    <3>3. t \in Seq(Entries) /\ t # <<>> /\ k \in 1 .. Len(Tail(t))
      BY <2>4, <3>1, <3>2 DEF t
    <3>4. Tail(t)[k] = t[k + 1] /\ k + 1 \in 1 .. Len(t)
      BY <3>3, HeadTailProperties, LenProperties
    <3>5. t[k + 1] \in EntriesOf(<<call[p].st, call[p].ctx>>)
      BY <3>1, <3>4 DEF Inv3, TodoSound, t
    <3>. QED  BY <2>4, <3>1, <3>4, <3>5 DEF t
  <2>. QED  BY <1>2, <2>0, <2>1, <2>2, <2>3, <2>4 DEF LoopEffect
<1>. QED  BY <1>3, <1>4, <1>5 DEF Inv3

(* Every step keeps the third layer.                                       *)
LEMMA Inv3Next == Inv3 /\ [Next]_vars => Inv3'
<1>. SUFFICES ASSUME Inv3, [Next]_vars PROVE Inv3'
  OBVIOUS
<1>1. Inv2' /\ \A i \in Ids : asserted[i] # None => asserted'[i] = asserted[i]
  BY Inv2Next DEF Inv3
<1>2. CASE UNCHANGED vars
  BY <1>1, <1>2 DEF vars, tables, Inv3, IndexSound, BuffersSound, TodoSound,
     SoundFor, Inserting, EntriesOf
<1>3. ASSUME NEW p \in Procs, Step(p) PROVE Inv3'
  BY <1>1, <1>3, Inv3Step
<1>. QED  BY <1>2, <1>3 DEF Next, Step, Quiet

(* The empty store satisfies the third layer.                              *)
LEMMA Inv3Init == Init => Inv3
<1>. SUFFICES ASSUME Init PROVE Inv3
  OBVIOUS
<1>1. Inv2
  BY Inv2Init
<1>2. \A p \in Procs : call[p].pc = "idle"
  BY DEF Init, Returned
<1>3. IndexSound
  BY DEF Init, IndexSound
<1>. QED  BY <1>1, <1>2, <1>3 DEF Inv3, BuffersSound, TodoSound

(* A posting never attributes to a term a statement without that term: the *)
(* read, change and write back of a posting may lose updates of other      *)
(* handles, and never invents one.                                         *)
THEOREM SoundPostings == Spec => []IndexSound
<1>1. Inv3 => IndexSound
  BY DEF Inv3
<1>. QED  BY <1>1, Inv3Init, Inv3Next, PTL DEF Spec
-----------------------------------------------------------------------------
(* The fourth layer: names.  When callers build a structure for every call *)
(* no hash code is cached, so that a call works with the hash code of its  *)
(* own statement and context; and what is stored under an id is the quad   *)
(* the id was given to.                                                    *)

BuiltEachTime == \A o \in Objects : ~o.kept

NothingKept == \A p \in Procs, o \in Objects : hashcode[p][o] = None

Changing(p) == call[p].op \in {"insert", "remove"}

QuadOf(p) == <<call[p].st, call[p].ctx>>

Hashed == \A p \in Procs : Changing(p) => call[p].hc = Digest[QuadOf(p)]

NodesRight == \A i \in Ids : nodes[i] # None => nodes[i] = asserted[i]

Inv4 == Inv3 /\ NothingKept /\ Hashed /\ StatementsSound /\ NodesRight

(* The arguments of a call are fixed when it begins.                       *)
SameArguments(p) ==
  /\ call'[p].op = call[p].op
  /\ call'[p].st = call[p].st
  /\ call'[p].ctx = call[p].ctx
  /\ call'[p].hc = call[p].hc

Begun(p) ==
  \E o \in Objects, g \in Givens :
    /\ call'[p].st = o.st
    /\ call'[p].ctx = ContextOf(p, o, g)
    /\ call'[p].hc = HashCode(p, o, ContextOf(p, o, g))

(* A step changes only its own handle's call, and a call that changes the  *)
(* store keeps its arguments once it has begun.                            *)
LEMMA ArgumentsStep ==
  ASSUME Inv1, NEW p \in Procs, Step(p)
  PROVE  /\ \A q \in Procs : q # p => call'[q] = call[q]
         /\ call'[p].op \in {"insert", "remove"} => SameArguments(p) \/ Begun(p)
<1>. DEFINE Good == /\ \A q \in Procs : q # p => call'[q] = call[q]
                    /\ call'[p].op \in {"insert", "remove"} => SameArguments(p) \/ Begun(p)
<1>0. call \in [Procs -> CallType] /\ call[p] \in CallType
  BY DEF Inv1, TypeOK
<1>1. ASSUME NEW r, call' = [call EXCEPT ![p] = r],
             \/ r.op \notin {"insert", "remove"}
             \/ /\ r.op = call[p].op /\ r.st = call[p].st
                /\ r.ctx = call[p].ctx /\ r.hc = call[p].hc
      PROVE  Good
  BY <1>0, <1>1 DEF SameArguments
<1>2. ASSUME NEW ret, NEW out, call' = [call EXCEPT ![p] = Returned(ret, out)]
      PROVE  Good
  <2>1. Returned(ret, out).op = "none"
    BY DEF Returned
  <2>. QED  BY <1>1, <1>2, <2>1
<1>3. ASSUME NEW pc, Goto(p, pc) PROVE Good
  BY <1>0, <1>3 DEF Goto, CallType, SameArguments
<1>4. ASSUME NEW after, NextEntry(p, after) PROVE Good
  BY <1>0, <1>4 DEF NextEntry, CallType, SameArguments
<1>5. ASSUME NEW op, NEW o \in Objects, NEW g \in Givens, NEW pc, Begin(p, op, o, g, pc)
      PROVE  Good
  <2>. DEFINE c == ContextOf(p, o, g)
              h == HashCode(p, o, c)
              r == [Returned(0, 0) EXCEPT !.pc = pc, !.op = op,
                                          !.st = o.st, !.ctx = c, !.hc = h]
  <2>1. call' = [call EXCEPT ![p] = r]
    BY <1>5 DEF Begin
  <2>2. r.st = o.st /\ r.ctx = c /\ r.hc = h
    BY DEF Returned
  <2>. HIDE DEF r
  <2>3. call'[p] = r /\ \A q \in Procs : q # p => call'[q] = call[q]
    BY <1>0, <2>1
  <2>. QED  BY <2>2, <2>3 DEF Begun
<1>6. CASE Quiet(p)
  <2>2. ASSUME NEW op \in {"size", "is_empty"}, SizeCall(p, op)
        PROVE  Good
    <3>. DEFINE r == [Returned(0, 0) EXCEPT !.pc = "size_removed", !.op = op]
    <3>1. call' = [call EXCEPT ![p] = r]
      BY <2>2 DEF SizeCall
    <3>2. r.op \notin {"insert", "remove"}
      BY <2>2 DEF Returned
    <3>. HIDE DEF r
    <3>. QED  BY <1>1, <3>1, <3>2
  <2>3. ASSUME NEW o, NEW g, Contains(p, o, g) PROVE Good
    BY <1>2, <2>3 DEF Contains
  <2>4. ASSUME NEW c, SetContext(p, c) PROVE Good
    BY <1>2, <2>4 DEF SetContext
  <2>5. CASE ResetContext(p)
    BY <1>2, <2>5 DEF ResetContext
  <2>6. CASE SizeRemoved(p)
    BY <1>0, <2>6 DEF SizeRemoved, SameArguments, CallType
  <2>7. CASE SizeCounter(p)
    <3>1. CASE call[p].op = "size"
      BY <1>2, <2>7, <3>1 DEF SizeCounter
    <3>2. CASE call[p].op # "size"
      BY <1>2, <2>7, <3>2 DEF SizeCounter
    <3>. QED  BY <3>1, <3>2
  <2>8. CASE Touch(p) \/ Fail(p)
    BY <1>2, <2>8 DEF Touch, Fail, Return
  <2>. QED  BY <1>5, <1>6, <2>2, <2>3, <2>4, <2>5, <2>6, <2>7, <2>8
            DEF Quiet, Call, InsertCall, RemoveCall
<1>7. CASE Remove(p)
  <2>1. CASE RemoveFind(p)
    <3>1. CASE Return(p, 1)
      BY <1>2, <3>1 DEF Return
    <3>2. CASE call' = [call EXCEPT ![p].pc = "unnode", ![p].id = statements[call[p].hc]]
      BY <1>0, <3>2 DEF SameArguments, CallType
    <3>. QED  BY <2>1, <3>1, <3>2 DEF RemoveFind
  <2>2. CASE RemoveNode(p)
    <3>1. CASE Return(p, 1)
      BY <1>2, <3>1 DEF Return
    <3>2. CASE call' = [call EXCEPT ![p].pc = "fetch",
                          ![p].todo = RemoveEntries(call[p].st, call[p].ctx)]
      BY <1>0, <3>2 DEF SameArguments, CallType
    <3>. QED  BY <2>2, <3>1, <3>2 DEF RemoveNode
  <2>3. CASE RemoveEntry(p) \/ RemoveWord(p)
    BY <1>2, <1>4, <2>3 DEF RemoveEntry, RemoveWord, Return
  <2>4. CASE RemoveCount(p) \/ RemoveStatement(p)
    BY <1>2, <1>3, <2>4 DEF RemoveCount, RemoveStatement, Return
  <2>. QED  BY <1>7, <2>1, <2>2, <2>3, <2>4 DEF Remove
<1>8. CASE Insert(p)
  <2>1. CASE InsertExists(p) \/ InsertExistsError(p)
    BY <1>2, <1>3, <2>1 DEF InsertExists, InsertExistsError, Return
  <2>2. CASE InsertIncrement(p)
    <3>1. CASE call' = [call EXCEPT ![p].pc = "nodes", ![p].id = counter]
      BY <1>0, <3>1 DEF SameArguments, CallType
    <3>. QED  BY <1>2, <1>3, <2>2, <3>1 DEF InsertIncrement, Return
  <2>3. CASE InsertDecrement(p)
    BY <1>2, <2>3 DEF InsertDecrement, Return
  <2>4. CASE InsertNode(p)
    BY <1>0, <2>4 DEF InsertNode, SameArguments, CallType
  <2>5. CASE InsertEntry(p)
    BY <1>4, <2>5 DEF InsertEntry
  <2>6. CASE InsertStatement(p)
    BY <1>3, <2>6 DEF InsertStatement
  <2>. QED  BY <1>8, <2>1, <2>2, <2>3, <2>4, <2>5, <2>6 DEF Insert
<1>9. CASE FetchEntry(p)
  BY <1>0, <1>9 DEF FetchEntry, SameArguments, CallType
<1>. QED  BY <1>6, <1>7, <1>8, <1>9 DEF Step

(* Only insert, remove and contains may cache a hash code.                 *)
LEMMA NothingKeptStep ==
  ASSUME BuiltEachTime, NothingKept, NEW p \in Procs, Step(p)
  PROVE  UNCHANGED hashcode
<1>1. ASSUME NEW o \in Objects, NEW g, NEW h, CacheHashCode(p, o, g, h)
      PROVE  UNCHANGED hashcode
  BY <1>1 DEF CacheHashCode, BuiltEachTime
<1>. QED  BY <1>1 DEF Step, Quiet, Call, InsertCall, RemoveCall, Begin, Contains, SizeCall,
       SetContext, ResetContext, SizeRemoved, SizeCounter, Touch, Fail, FetchEntry,
       Remove, RemoveFind, RemoveNode, RemoveEntry, RemoveWord, RemoveCount,
       RemoveStatement, Insert, InsertExists, InsertExistsError, InsertIncrement,
       InsertDecrement, InsertNode, InsertEntry, InsertStatement

(* What is stored under an id is written by the insertion that owns it.    *)
LEMMA NodesStep ==
  ASSUME Inv1, NEW p \in Procs, Step(p), NEW i \in Ids
  PROVE  \/ nodes'[i] = nodes[i]
         \/ nodes'[i] = None
         \/ i = call[p].id /\ InsertNode(p) /\ Inserting(p) /\ nodes'[i] = QuadOf(p)
<1>0. nodes \in [Ids -> OrNone(Quads)]
  BY DEF Inv1, TypeOK
<1>1. CASE InsertNode(p)
  BY <1>0, <1>1, CallFacts DEF InsertNode, Inserting, QuadOf
<1>2. CASE RemoveNode(p)
  BY <1>0, <1>2 DEF RemoveNode
<1>3. CASE ~InsertNode(p) /\ ~RemoveNode(p)
  <2>1. UNCHANGED nodes
    BY <1>3 DEF Step, Quiet, Call, InsertCall, RemoveCall, Begin, Contains, SizeCall,
       SetContext, ResetContext, SizeRemoved, SizeCounter, Touch, Fail, FetchEntry,
       Remove, RemoveFind, RemoveEntry, RemoveWord, RemoveCount, RemoveStatement,
       Insert, InsertExists, InsertExistsError, InsertIncrement, InsertDecrement,
       InsertEntry, InsertStatement, tables
  <2>. QED  BY <2>1
<1>. QED  BY <1>1, <1>2, <1>3

(* The statements table is written under the hash code of the call.        *)
LEMMA NamingStep ==
  ASSUME Inv1, NEW p \in Procs, Step(p), NEW h \in Digests
  PROVE  \/ statements'[h] = statements[h]
         \/ statements'[h] = None /\ RemoveStatement(p) /\ h = call[p].hc
         \/ /\ statements'[h] = call[p].id /\ InsertStatement(p) /\ h = call[p].hc
            /\ Inserting(p)
<1>0. statements \in [Digests -> OrNone(Ids)]
  BY DEF Inv1, TypeOK
<1>1. CASE InsertStatement(p)
  <2>1. call[p].hc \in Digests /\ Inserting(p)
    BY <1>1, CallFacts DEF InsertStatement, Inserting
  <2>. QED  BY <1>0, <1>1, <2>1 DEF InsertStatement
<1>2. CASE RemoveStatement(p)
  BY <1>0, <1>2, CallFacts DEF RemoveStatement
<1>3. CASE ~InsertStatement(p) /\ ~RemoveStatement(p)
  <2>1. UNCHANGED statements
    BY <1>3 DEF Step, Quiet, Call, InsertCall, RemoveCall, Begin, Contains, SizeCall,
       SetContext, ResetContext, SizeRemoved, SizeCounter, Touch, Fail, FetchEntry,
       Remove, RemoveFind, RemoveNode, RemoveEntry, RemoveWord, RemoveCount,
       Insert, InsertExists, InsertExistsError, InsertIncrement, InsertDecrement,
       InsertNode, InsertEntry, tables
  <2>. QED  BY <2>1
<1>. QED  BY <1>1, <1>2, <1>3

(* A call that inserts has a quad, which is not nothing.                   *)
LEMMA OwnQuad ==
  ASSUME Inv2, NEW p \in Procs, Inserting(p)
  PROVE  /\ asserted[call[p].id] = QuadOf(p)
         /\ QuadOf(p) \in Quads /\ QuadOf(p) # None
         /\ call[p].id \in Ids
<1>1. CallOK(call[p]) /\ call[p].op = "insert"
  BY DEF Inv2, Inv1, Inserting
<1>2. QuadOf(p) \in Quads /\ QuadOf(p) # None /\ call[p].id \in Ids
  BY <1>1, NoneIsNothing DEF CallOK, CallType, Quads, QuadOf
<1>. QED  BY <1>2 DEF Inv2, Owned, QuadOf

(* A step of one handle keeps the fourth layer.                            *)
LEMMA Inv4Step ==
  ASSUME BuiltEachTime, Inv4, NEW p \in Procs, Step(p), Inv3',
         \A i \in Ids : asserted[i] # None => asserted'[i] = asserted[i]
  PROVE  Inv4'
<1>0. /\ Inv1 /\ Inv1' /\ Inv2
      /\ \A h \in Digests : statements[h] \in OrNone(Ids)
  BY DEF Inv4, Inv3, Inv2, Inv1, TypeOK
<1>1. NothingKept'
  BY NothingKeptStep DEF Inv4, NothingKept
<1>2. Hashed'
  <2>. SUFFICES ASSUME NEW q \in Procs, call'[q].op \in {"insert", "remove"}
                PROVE  call'[q].hc = Digest[<<call'[q].st, call'[q].ctx>>]
    BY DEF Hashed, Changing, QuadOf
  <2>1. CASE q # p
    <3>1. call'[q] = call[q]
      BY <1>0, <2>1, ArgumentsStep
    <3>. QED  BY <3>1 DEF Inv4, Hashed, Changing, QuadOf
  <2>2. CASE q = p /\ SameArguments(p)
    BY <2>2 DEF Inv4, Hashed, Changing, QuadOf, SameArguments
  <2>3. CASE q = p /\ Begun(p)
    <3>1. PICK o \in Objects, g \in Givens :
            /\ call'[p].st = o.st
            /\ call'[p].ctx = ContextOf(p, o, g)
            /\ call'[p].hc = HashCode(p, o, ContextOf(p, o, g))
      BY <2>3 DEF Begun
    <3>2. hashcode[p][o] = None
      BY DEF Inv4, NothingKept
    <3>. QED  BY <2>3, <3>1, <3>2 DEF HashCode
  <2>. QED  BY <1>0, <2>1, <2>2, <2>3, ArgumentsStep
<1>3. StatementsSound'
  <2>. SUFFICES ASSUME NEW h \in Digests, statements'[h] # None
                PROVE  /\ asserted'[statements'[h]] # None
                       /\ Digest[asserted'[statements'[h]]] = h
    BY DEF StatementsSound, DigestOf
  <2>1. CASE statements'[h] = statements[h]
    <3>1. asserted[statements[h]] # None /\ Digest[asserted[statements[h]]] = h
      BY <2>1 DEF Inv4, StatementsSound, DigestOf
    <3>2. statements[h] \in Ids
      BY <1>0, <2>1 DEF OrNone
    <3>. QED  BY <2>1, <3>1, <3>2
  <2>2. CASE statements'[h] = call[p].id /\ h = call[p].hc /\ Inserting(p)
    <3>1. asserted[call[p].id] = QuadOf(p) /\ QuadOf(p) # None /\ call[p].id \in Ids
      BY <1>0, <2>2, OwnQuad
    <3>2. asserted'[call[p].id] = QuadOf(p)
      BY <3>1
    <3>3. call[p].hc = Digest[QuadOf(p)]
      BY <2>2 DEF Inv4, Hashed, Changing, Inserting
    <3>. QED  BY <2>2, <3>1, <3>2, <3>3
  <2>. QED  BY <1>0, <2>1, <2>2, NamingStep
<1>4. NodesRight'
  <2>. SUFFICES ASSUME NEW i \in Ids, nodes'[i] # None
                PROVE  nodes'[i] = asserted'[i]
    BY DEF NodesRight
  <2>1. CASE nodes'[i] = nodes[i]
    BY <2>1 DEF Inv4, NodesRight
  <2>2. CASE i = call[p].id /\ Inserting(p) /\ nodes'[i] = QuadOf(p)
    BY <1>0, <2>2, OwnQuad
  <2>. QED  BY <1>0, <2>1, <2>2, NodesStep
<1>. QED  BY <1>1, <1>2, <1>3, <1>4 DEF Inv4

(* Every step keeps the fourth layer.                                      *)
LEMMA Inv4Next ==
  ASSUME BuiltEachTime
  PROVE  Inv4 /\ [Next]_vars => Inv4'
<1>. SUFFICES ASSUME Inv4, [Next]_vars PROVE Inv4'
  OBVIOUS
<1>1. Inv3' /\ \A i \in Ids : asserted[i] # None => asserted'[i] = asserted[i]
  BY Inv3Next, Inv2Next DEF Inv4, Inv3
<1>2. CASE UNCHANGED vars
  BY <1>1, <1>2 DEF vars, tables, Inv4, NothingKept, Hashed, Changing, QuadOf,
     StatementsSound, DigestOf, NodesRight
<1>3. ASSUME NEW p \in Procs, Step(p) PROVE Inv4'
  BY <1>1, <1>3, Inv4Step
<1>. QED  BY <1>2, <1>3 DEF Next, Step, Quiet

(* The empty store satisfies the fourth layer.                             *)
LEMMA Inv4Init == Init => Inv4
<1>. SUFFICES ASSUME Init PROVE Inv4
  OBVIOUS
<1>1. Inv3
  BY Inv3Init
<1>2. \A p \in Procs : call[p].op = "none"
  BY DEF Init, Returned
<1>. QED  BY <1>1, <1>2
          DEF Init, Inv4, NothingKept, Hashed, Changing, StatementsSound, NodesRight

(* A hash code always leads to a statement with that hash code: with any   *)
(* number of handles and failing requests, as long as callers do not hand  *)
(* a structure, and the hash code it caches, to a second call.             *)
THEOREM NamesAreSound ==
  ASSUME BuiltEachTime
  PROVE  Spec => []StatementsSound
<1>1. Inv4 => StatementsSound
  BY DEF Inv4
<1>2. Inv4 /\ [Next]_vars => Inv4'
  BY Inv4Next
<1>. QED  BY <1>1, <1>2, Inv4Init, PTL DEF Spec

-----------------------------------------------------------------------------
(* The counters.  A number taken from the counter is allocated for good,   *)
(* and the removals counted are as many as the ids whose node is gone: an  *)
(* id is held while its insertion is about to write its node or the node   *)
(* is there, and a removal that cleared a node counts it later or never.   *)

Allocated == {i \in Ids : asserted[i] # None}

Held == {i \in Ids : Stored(i) \/ \E p \in Procs : call[p].pc = "nodes" /\ call[p].id = i}

Clearing(p) == call[p].op = "remove" /\ call[p].pc \in {"fetch", "store", "count"}

Uncounted == {p \in Procs : Clearing(p)}

Removals == counter_removed + Cardinality(Uncounted) + Cardinality(Held) <= Cardinality(Allocated)

(* rdfstore_size has read no more removals than there are now.             *)
Reads ==
  \A p \in Procs :
    /\ call[p].pc = "size_counter" => call[p].out \in Nat /\ call[p].out <= counter_removed
    /\ Idle(p) => call[p].out >= 0

(* Above the capacity there are only the numbers about to be handed back.  *)
Capacity == MaxFaults = 0 => counter <= MaxRecords + Cardinality(Excess)

Unwritten == \A p \in Procs : call[p].pc = "nodes" => nodes[call[p].id] = None

CountInv ==
  Inv2 /\ NodesRight /\ Unwritten /\ Removals /\ Reads /\ Capacity

(* How a call gets to the points the counters depend on.                   *)
LEMMA PhaseStep ==
  ASSUME Inv1, NEW p \in Procs, Step(p)
  PROVE  /\ call'[p].pc = "nodes" => Allocates(p) /\ call'[p].id = counter
         /\ Clearing(p)' => Clearing(p) \/ (RemoveNode(p) /\ nodes[call[p].id] # None)
         /\ call'[p].pc = "dec" => InsertIncrement(p) /\ Exhausted(counter')
         /\ call'[p].pc = "size_counter" => SizeRemoved(p) /\ call'[p].out = counter_removed
         /\ call'[p].pc = "idle" =>
              call'[p].out = 0 \/ (SizeCounter(p) /\ call'[p].out = counter - call[p].out)
<1>. DEFINE Good ==
         /\ call'[p].pc = "nodes" => Allocates(p) /\ call'[p].id = counter
         /\ Clearing(p)' => Clearing(p) \/ (RemoveNode(p) /\ nodes[call[p].id] # None)
         /\ call'[p].pc = "dec" => InsertIncrement(p) /\ Exhausted(counter')
         /\ call'[p].pc = "size_counter" => SizeRemoved(p) /\ call'[p].out = counter_removed
         /\ call'[p].pc = "idle" =>
              call'[p].out = 0 \/ (SizeCounter(p) /\ call'[p].out = counter - call[p].out)
<1>0. call \in [Procs -> CallType] /\ call[p] \in CallType /\ CallOK(call[p])
  BY CallFacts DEF Inv1, TypeOK
<1>1. ASSUME NEW r, call' = [call EXCEPT ![p] = r],
             r.pc \notin {"nodes", "dec", "size_counter", "idle"},
             r.op = "remove" /\ r.pc \in {"fetch", "store", "count"} => Clearing(p)
      PROVE  Good
  BY <1>0, <1>1 DEF Clearing
<1>2. ASSUME NEW ret, call' = [call EXCEPT ![p] = Returned(ret, 0)]
      PROVE  Good
  <2>1. /\ Returned(ret, 0).pc = "idle" /\ Returned(ret, 0).op = "none"
        /\ Returned(ret, 0).out = 0
    BY DEF Returned
  <2>. QED  BY <1>0, <1>2, <2>1 DEF Clearing
<1>3. ASSUME NEW pc, Goto(p, pc),
             pc \notin {"nodes", "dec", "size_counter", "idle", "fetch", "store", "count"}
      PROVE  Good
  BY <1>0, <1>3 DEF Goto, CallType, Clearing
<1>4. ASSUME NEW after \in {"statements", "count"}, NextEntry(p, after),
             call[p].pc = "store", after = "count" <=> call[p].op = "remove"
      PROVE  Good
  BY <1>0, <1>4 DEF NextEntry, CallType, Clearing
<1>5. ASSUME NEW op, NEW o \in Objects, NEW g \in Givens, NEW pc, Begin(p, op, o, g, pc),
             pc \in {"exists", "find"}
      PROVE  Good
  <2>. DEFINE c == ContextOf(p, o, g)
              h == HashCode(p, o, c)
              r == [Returned(0, 0) EXCEPT !.pc = pc, !.op = op,
                                          !.st = o.st, !.ctx = c, !.hc = h]
  <2>1. call' = [call EXCEPT ![p] = r]
    BY <1>5 DEF Begin
  <2>2. r.pc = pc
    BY DEF Returned
  <2>. HIDE DEF r
  <2>. QED  BY <1>1, <1>5, <2>1, <2>2
<1>6. CASE Quiet(p)
  <2>2. ASSUME NEW op \in {"size", "is_empty"}, SizeCall(p, op)
        PROVE  Good
    <3>. DEFINE r == [Returned(0, 0) EXCEPT !.pc = "size_removed", !.op = op]
    <3>1. call' = [call EXCEPT ![p] = r]
      BY <2>2 DEF SizeCall
    <3>2. r.pc = "size_removed"
      BY DEF Returned
    <3>. HIDE DEF r
    <3>. QED  BY <1>1, <3>1, <3>2
  <2>3. ASSUME NEW o, NEW g, Contains(p, o, g) PROVE Good
    BY <1>2, <2>3 DEF Contains
  <2>4. ASSUME NEW c, SetContext(p, c) PROVE Good
    BY <1>2, <2>4 DEF SetContext
  <2>5. CASE ResetContext(p)
    BY <1>2, <2>5 DEF ResetContext
  <2>6. CASE SizeRemoved(p)
    BY <1>0, <2>6 DEF SizeRemoved, CallType, Clearing
  <2>7. CASE SizeCounter(p)
    <3>1. CASE call[p].op = "size"
      <4>. DEFINE size == counter - call[p].out
      <4>1. call' = [call EXCEPT ![p] = Returned(0, size)]
        BY <2>7, <3>1 DEF SizeCounter
      <4>2. /\ Returned(0, size).pc = "idle" /\ Returned(0, size).op = "none"
            /\ Returned(0, size).out = size
        BY DEF Returned
      <4>3. call'[p] = Returned(0, size)
        BY <1>0, <4>1
      <4>. QED  BY <2>7, <4>2, <4>3 DEF Clearing
    <3>2. CASE call[p].op # "size"
      BY <1>2, <2>7, <3>2 DEF SizeCounter
    <3>. QED  BY <3>1, <3>2
  <2>8. CASE Touch(p) \/ Fail(p)
    BY <1>2, <2>8 DEF Touch, Fail, Return
  <2>. QED  BY <1>5, <1>6, <2>2, <2>3, <2>4, <2>5, <2>6, <2>7, <2>8
            DEF Quiet, Call, InsertCall, RemoveCall
<1>7. CASE Remove(p)
  <2>1. CASE RemoveFind(p)
    <3>1. CASE Return(p, 1)
      BY <1>2, <3>1 DEF Return
    <3>2. CASE call' = [call EXCEPT ![p].pc = "unnode", ![p].id = statements[call[p].hc]]
      BY <1>0, <3>2 DEF Clearing, CallType
    <3>. QED  BY <2>1, <3>1, <3>2 DEF RemoveFind
  <2>2. CASE RemoveNode(p)
    <3>1. CASE nodes[call[p].id] = None
      BY <1>2, <2>2, <3>1 DEF RemoveNode, Return
    <3>2. CASE nodes[call[p].id] # None
      <4>1. call'[p].pc = "fetch"
        BY <1>0, <2>2, <3>2 DEF RemoveNode, CallType
      <4>. QED  BY <2>2, <3>2, <4>1
    <3>. QED  BY <3>1, <3>2
  <2>3. CASE RemoveEntry(p) \/ RemoveWord(p)
    BY <1>2, <1>4, <2>3 DEF RemoveEntry, RemoveWord, Removing, Return
  <2>4. CASE RemoveCount(p) \/ RemoveStatement(p)
    BY <1>2, <1>3, <2>4 DEF RemoveCount, RemoveStatement, Return
  <2>. QED  BY <1>7, <2>1, <2>2, <2>3, <2>4 DEF Remove
<1>8. CASE Insert(p)
  <2>1. CASE InsertExists(p) \/ InsertExistsError(p)
    BY <1>2, <1>3, <2>1 DEF InsertExists, InsertExistsError, Return
  <2>2. CASE InsertIncrement(p)
    <3>0. call[p].op = "insert"
      BY <2>2, CallFacts DEF InsertIncrement
    <3>1. CASE Exhausted(counter')
      <4>1. Goto(p, "dec")
        BY <2>2, <3>1 DEF InsertIncrement
      <4>. QED  BY <1>0, <2>2, <3>1, <4>1 DEF Goto, CallType, Clearing
    <3>2. CASE ~Exhausted(counter')
      <4>1. Allocates(p)
        <5>1. counter' = counter + 1 /\ counter \in Nat
          BY <2>2 DEF InsertIncrement, Inv1, TypeOK
        <5>. QED  BY <2>2, <3>2, <5>1, ConstantTypes DEF InsertIncrement, Allocates, Exhausted, Ids
      <4>2. CASE call' = [call EXCEPT ![p].pc = "nodes", ![p].id = counter]
        BY <1>0, <3>0, <4>1, <4>2 DEF CallType, Clearing
      <4>3. CASE Return(p, -1)
        BY <1>2, <4>3 DEF Return
      <4>. QED  BY <2>2, <3>2, <4>2, <4>3 DEF InsertIncrement
    <3>. QED  BY <3>1, <3>2
  <2>3. CASE InsertDecrement(p)
    BY <1>2, <2>3 DEF InsertDecrement, Return
  <2>4. CASE InsertNode(p)
    <3>1. call[p].op = "insert"
      BY <2>4, CallFacts DEF InsertNode
    <3>. QED  BY <1>0, <2>4, <3>1 DEF InsertNode, CallType, Clearing
  <2>5. CASE InsertEntry(p)
    BY <1>4, <2>5 DEF InsertEntry
  <2>6. CASE InsertStatement(p)
    BY <1>3, <2>6 DEF InsertStatement
  <2>. QED  BY <1>8, <2>1, <2>2, <2>3, <2>4, <2>5, <2>6 DEF Insert
<1>9. CASE FetchEntry(p)
  BY <1>0, <1>9 DEF FetchEntry, CallType, Clearing
<1>. QED  BY <1>6, <1>7, <1>8, <1>9 DEF Step

(* The number of removals grows by one when a removal counts itself.       *)
LEMMA RemovedStep ==
  ASSUME Inv1, NEW p \in Procs, Step(p)
  PROVE  \/ counter_removed' = counter_removed
         \/ /\ counter_removed' = counter_removed + 1
            /\ Clearing(p) /\ ~Clearing(p)'
            /\ UNCHANGED <<nodes, asserted>> /\ call'[p].pc # "nodes"
<1>1. CASE RemoveCount(p)
  <2>1. call[p].op = "remove" /\ call[p].pc = "count"
    BY <1>1, CallFacts DEF RemoveCount
  <2>2. call'[p].pc = "forget"
    BY <1>1 DEF RemoveCount, Goto, Inv1, TypeOK, CallType
  <2>. QED  BY <1>1, <2>1, <2>2 DEF RemoveCount, Clearing
<1>2. CASE ~RemoveCount(p)
  BY <1>2 DEF Step, Quiet, Call, InsertCall, RemoveCall, Begin, Contains, SizeCall,
       SetContext, ResetContext, SizeRemoved, SizeCounter, Touch, Fail, FetchEntry,
       Remove, RemoveFind, RemoveNode, RemoveEntry, RemoveWord, RemoveStatement,
       Insert, InsertExists, InsertExistsError, InsertIncrement, InsertDecrement,
       InsertNode, InsertEntry, InsertStatement, tables
<1>. QED  BY <1>1, <1>2

(* The sets that are counted are finite.                                   *)
LEMMA CountedFinite ==
  /\ IsFiniteSet(Uncounted) /\ IsFiniteSet(Held)
  /\ IsFiniteSet(Allocated) /\ IsFiniteSet(Excess)
  /\ Cardinality(Uncounted) \in Nat /\ Cardinality(Held) \in Nat
  /\ Cardinality(Allocated) \in Nat /\ Cardinality(Excess) \in Nat
<1>1. IsFiniteSet(Ids)
  <2>1. 0 \in Int /\ MaxRecords - 1 \in Int
    BY ConstantTypes
  <2>. QED  BY <2>1, FS_Interval DEF Ids
<1>2. Uncounted \subseteq Procs /\ Excess \subseteq Procs
  BY DEF Uncounted, Excess
<1>3. Held \subseteq Ids /\ Allocated \subseteq Ids
  BY DEF Held, Allocated
<1>4. /\ IsFiniteSet(Uncounted) /\ IsFiniteSet(Held)
      /\ IsFiniteSet(Allocated) /\ IsFiniteSet(Excess)
  BY <1>1, <1>2, <1>3, ProcsFinite, FS_Subset
<1>. QED  BY <1>4, FS_CardinalityType

(* No more numbers are allocated than the counter says.                    *)
LEMMA AllocatedBelow ==
  ASSUME Inv2
  PROVE  Cardinality(Allocated) <= counter
<1>0. counter \in Nat
  BY DEF Inv2, Inv1, TypeOK
<1>1. Allocated \subseteq 0 .. counter - 1
  BY <1>0 DEF Inv2, Fresh, Allocated, Ids
<1>2. IsFiniteSet(0 .. counter - 1) /\ Cardinality(0 .. counter - 1) = counter
  <2>1. 0 \in Int /\ counter - 1 \in Int
    BY <1>0
  <2>2. /\ IsFiniteSet(0 .. counter - 1)
        /\ Cardinality(0 .. counter - 1) = IF 0 > counter - 1 THEN 0 ELSE counter - 1 - 0 + 1
    BY <2>1, FS_Interval
  <2>. QED  BY <1>0, <2>2
<1>. QED  BY <1>1, <1>2, FS_Subset

(* An id is held from its allocation on, and given up by the removal that  *)
(* clears its node.                                                        *)
LEMMA HeldStep ==
  ASSUME Inv2, Unwritten, NEW p \in Procs, Step(p)
  PROVE  /\ Allocates(p) => Held' \subseteq Held \cup {counter}
         /\ ~Allocates(p) => Held' \subseteq Held
         /\ (Clearing(p)' /\ ~Clearing(p)) =>
              call[p].id \in Held /\ Held' \subseteq Held \ {call[p].id}
<1>0. Inv1 /\ \A q \in Procs : call[q].id \in Ids
  BY DEF Inv2, Inv1, TypeOK, CallType
<1>1. ASSUME NEW i \in Held'
      PROVE  \/ i \in Held
             \/ Allocates(p) /\ i = counter
  <2>1. CASE nodes'[i] # None
    <3>1. CASE nodes'[i] = nodes[i]
      BY <1>1, <2>1, <3>1 DEF Held, Stored
    <3>2. CASE i = call[p].id /\ InsertNode(p)
      BY <1>1, <3>2 DEF Held, InsertNode
    <3>. QED  BY <1>0, <1>1, <2>1, <3>1, <3>2, NodesStep DEF Held
  <2>2. ASSUME NEW q \in Procs, call'[q].pc = "nodes", call'[q].id = i
        PROVE  \/ i \in Held
               \/ Allocates(p) /\ i = counter
    <3>1. CASE q = p
      BY <1>0, <2>2, <3>1, PhaseStep
    <3>2. CASE q # p
      <4>1. call'[q] = call[q]
        BY <1>0, <3>2, ArgumentsStep
      <4>. QED  BY <1>1, <2>2, <4>1 DEF Held
    <3>. QED  BY <3>1, <3>2
  <2>. QED  BY <1>1, <2>1, <2>2 DEF Held, Stored
<1>2. ASSUME Clearing(p)', ~Clearing(p)
      PROVE  call[p].id \in Held /\ call[p].id \notin Held' /\ ~Allocates(p)
  <2>1. RemoveNode(p) /\ nodes[call[p].id] # None
    BY <1>0, <1>2, PhaseStep
  <2>2. call[p].id \in Held
    BY <1>0, <2>1 DEF Held, Stored
  <2>3. nodes'[call[p].id] = None
    BY <1>0, <2>1 DEF RemoveNode, Inv1, TypeOK
  <2>4. ASSUME NEW q \in Procs, call'[q].pc = "nodes", call'[q].id = call[p].id
        PROVE  FALSE
    <3>1. q # p
      BY <1>2, <2>4 DEF Clearing
    <3>2. call'[q] = call[q]
      BY <1>0, <3>1, ArgumentsStep
    <3>. QED  BY <2>1, <2>4, <3>2 DEF Unwritten
  <2>5. ~Allocates(p)
    BY <2>1 DEF RemoveNode, Allocates, InsertIncrement
  <2>. QED  BY <2>2, <2>3, <2>4, <2>5 DEF Held, Stored
<1>. QED  BY <1>1, <1>2

(* The removals counted, those under way and the ids held stay within the  *)
(* numbers allocated.                                                      *)
LEMMA RemovalsStep ==
  ASSUME Inv2, Unwritten, Removals, NEW p \in Procs, Step(p)
  PROVE  Removals'
<1>0. Inv1 /\ counter_removed \in Nat /\ asserted \in [Ids -> OrNone(Quads)]
  BY DEF Inv2, Inv1, TypeOK
<1>1. \A q \in Procs : q # p => call'[q] = call[q]
  BY <1>0, ArgumentsStep
<1>2. \A q \in Procs : q # p => (q \in Uncounted' <=> q \in Uncounted)
  BY <1>1 DEF Uncounted, Clearing
<1>3. Uncounted \subseteq Procs /\ Uncounted' \subseteq Procs
  BY DEF Uncounted
<1>4. p \in Uncounted <=> Clearing(p)
  BY DEF Uncounted
<1>5. p \in Uncounted' <=> Clearing(p)'
  BY DEF Uncounted, Clearing
<1>6. /\ IsFiniteSet(Uncounted) /\ IsFiniteSet(Held)
      /\ IsFiniteSet(Allocated)
      /\ Cardinality(Uncounted) \in Nat /\ Cardinality(Held) \in Nat
      /\ Cardinality(Allocated) \in Nat
  BY CountedFinite
<1>. DEFINE U == Uncounted'
            H == Held'
            A == Allocated'
            R == counter_removed'
<1>7. Removals' <=> R + Cardinality(U) + Cardinality(H) <= Cardinality(A)
  BY DEF Removals
<1>8. CASE Allocates(p)
  <2>1. counter_removed' = counter_removed /\ ~Clearing(p)'
    <3>1. counter_removed' = counter_removed
      BY <1>8 DEF Allocates, InsertIncrement
    <3>2. ~Clearing(p)
      BY <1>0, <1>8, CallFacts DEF Allocates, InsertIncrement, Clearing
    <3>3. ~RemoveNode(p)
      BY <1>8 DEF Allocates, InsertIncrement, RemoveNode
    <3>. QED  BY <1>0, <3>1, <3>2, <3>3, PhaseStep
  <2>2. U \subseteq Uncounted
    BY <1>2, <1>3, <1>5, <2>1
  <2>3. asserted[counter] = None /\ counter \in Ids /\ counter >= counter
    BY <1>8 DEF Allocates, Inv2, Fresh, Inv1, TypeOK
  <2>4. <<call[p].st, call[p].ctx>> # None
    <3>1. call[p].st \in Statements /\ call[p].ctx \in OrNone(Contexts)
      BY <1>0, <1>8, CallFacts DEF Allocates, InsertIncrement, CallType
    <3>. QED  BY <3>1, NoneIsNothing DEF Quads
  <2>5. A = Allocated \cup {counter} /\ counter \notin Allocated
    BY <1>0, <1>8, <2>3, <2>4 DEF Allocated, Allocates
  <2>6. H \subseteq Held \cup {counter}
    BY <1>8, HeldStep
  <2>. HIDE DEF U, H, A
  <2>7. Cardinality(A) = Cardinality(Allocated) + 1
    BY <1>6, <2>5, FS_AddElement
  <2>8. Cardinality(U) <= Cardinality(Uncounted) /\ Cardinality(U) \in Nat
    BY <1>6, <2>2, FS_Subset, FS_CardinalityType
  <2>9. Cardinality(H) <= Cardinality(Held) + 1 /\ Cardinality(H) \in Nat
    <3>1. /\ IsFiniteSet(Held \cup {counter})
          /\ Cardinality(Held \cup {counter}) <= Cardinality(Held) + 1
      <4>1. /\ IsFiniteSet(Held \cup {counter})
            /\ Cardinality(Held \cup {counter}) =
                 IF counter \in Held THEN Cardinality(Held) ELSE Cardinality(Held) + 1
        BY <1>6, FS_AddElement
      <4>. QED  BY <1>6, <4>1
    <3>2. /\ IsFiniteSet(H) /\ Cardinality(H) <= Cardinality(Held \cup {counter})
      BY <2>6, <3>1, FS_Subset
    <3>3. Cardinality(Held \cup {counter}) \in Nat /\ Cardinality(H) \in Nat
      BY <3>1, <3>2, FS_CardinalityType
    <3>. QED  BY <1>6, <3>1, <3>2, <3>3
  <2>. QED  BY <1>0, <1>6, <1>7, <2>1, <2>7, <2>8, <2>9 DEF Removals, U, H, A
<1>9. CASE ~Allocates(p)
  <2>1. A = Allocated
    <3>1. UNCHANGED asserted
      BY <1>0, <1>9, NumberStep
    <3>. QED  BY <3>1 DEF Allocated
  <2>2. H \subseteq Held
    BY <1>9, HeldStep
  <2>3. CASE Clearing(p)' /\ ~Clearing(p)
    <3>1. U = Uncounted \cup {p} /\ p \notin Uncounted
      BY <1>2, <1>3, <1>4, <1>5, <2>3
    <3>2. call[p].id \in Held /\ H \subseteq Held \ {call[p].id}
      BY <2>3, HeldStep
    <3>3. counter_removed' = counter_removed
      BY <1>0, <2>3, RemovedStep
    <3>. HIDE DEF U, H, A
    <3>4. Cardinality(U) = Cardinality(Uncounted) + 1
      BY <1>6, <3>1, FS_AddElement
    <3>5. /\ IsFiniteSet(Held \ {call[p].id})
          /\ Cardinality(Held \ {call[p].id}) = Cardinality(Held) - 1
      BY <1>6, <3>2, FS_RemoveElement
    <3>6. IsFiniteSet(H) /\ Cardinality(H) <= Cardinality(Held \ {call[p].id})
      BY <3>2, <3>5, FS_Subset
    <3>7. Cardinality(H) \in Nat
      BY <3>6, FS_CardinalityType
    <3>. QED  BY <1>0, <1>6, <1>7, <2>1, <3>3, <3>4, <3>5, <3>6, <3>7 DEF Removals, U, H, A
  <2>4. CASE counter_removed' = counter_removed + 1 /\ Clearing(p) /\ ~Clearing(p)'
    <3>1. U = Uncounted \ {p} /\ p \in Uncounted
      BY <1>2, <1>3, <1>4, <1>5, <2>4
    <3>. HIDE DEF U, H, A
    <3>2. Cardinality(U) = Cardinality(Uncounted) - 1
      BY <1>6, <3>1, FS_RemoveElement
    <3>3. IsFiniteSet(H) /\ Cardinality(H) <= Cardinality(Held)
      BY <1>6, <2>2, FS_Subset
    <3>4. Cardinality(H) \in Nat
      BY <3>3, FS_CardinalityType
    <3>. QED  BY <1>0, <1>6, <1>7, <2>1, <2>4, <3>2, <3>3, <3>4 DEF Removals, U, H, A
  <2>5. CASE ~(Clearing(p)' /\ ~Clearing(p)) /\ counter_removed' = counter_removed
    <3>1. U \subseteq Uncounted
      BY <1>2, <1>3, <1>4, <1>5, <2>5
    <3>. HIDE DEF U, H, A
    <3>2. IsFiniteSet(U) /\ Cardinality(U) <= Cardinality(Uncounted)
      BY <1>6, <3>1, FS_Subset
    <3>3. IsFiniteSet(H) /\ Cardinality(H) <= Cardinality(Held)
      BY <1>6, <2>2, FS_Subset
    <3>4. Cardinality(H) \in Nat /\ Cardinality(U) \in Nat
      BY <3>2, <3>3, FS_CardinalityType
    <3>. QED  BY <1>0, <1>6, <1>7, <2>1, <2>5, <3>2, <3>3, <3>4 DEF Removals, U, H, A
  <2>. QED  BY <1>0, <2>3, <2>4, <2>5, RemovedStep
<1>. QED  BY <1>8, <1>9

(* A step of one handle keeps the counters right.                          *)
LEMMA CountStep ==
  ASSUME CountInv, NEW p \in Procs, Step(p), Inv2',
         \A i \in Ids : asserted[i] # None => asserted'[i] = asserted[i]
  PROVE  CountInv'
<1>0. /\ Inv1 /\ Inv1' /\ Inv2 /\ counter \in Nat /\ counter' \in Nat
      /\ counter_removed \in Nat /\ counter_removed' \in Nat
      /\ \A q \in Procs : call[q].id \in Ids /\ call'[q].id \in Ids
      /\ call \in [Procs -> CallType]
  BY DEF CountInv, Inv2, Inv1, TypeOK, CallType
<1>1. \A q \in Procs : q # p => call'[q] = call[q]
  BY <1>0, ArgumentsStep
<1>2. NodesRight'
  <2>. SUFFICES ASSUME NEW i \in Ids, nodes'[i] # None
                PROVE  nodes'[i] = asserted'[i]
    BY DEF NodesRight
  <2>1. CASE nodes'[i] = nodes[i]
    BY <2>1 DEF CountInv, NodesRight
  <2>2. CASE i = call[p].id /\ Inserting(p) /\ nodes'[i] = QuadOf(p)
    BY <1>0, <2>2, OwnQuad
  <2>. QED  BY <1>0, <2>1, <2>2, NodesStep
<1>3. Unwritten'
  <2>. SUFFICES ASSUME NEW q \in Procs, call'[q].pc = "nodes", nodes'[call'[q].id] # None
                PROVE  FALSE
    BY DEF Unwritten
  <2>1. CASE q = p
    <3>1. Allocates(p) /\ call'[p].id = counter
      BY <1>0, <2>1, PhaseStep
    <3>2. UNCHANGED nodes
      BY <3>1 DEF Allocates, InsertIncrement
    <3>3. nodes[counter] = asserted[counter]
      BY <1>0, <2>1, <3>1, <3>2 DEF CountInv, NodesRight
    <3>4. asserted[counter] = None
      BY <1>0, <3>1 DEF Allocates, Inv2, Fresh
    <3>. QED  BY <2>1, <3>1, <3>2, <3>3, <3>4
  <2>2. CASE q # p
    <3>1. call'[q] = call[q]
      BY <1>1, <2>2
    <3>2. nodes[call[q].id] = None /\ Inserting(q)
      <4>1. CallOK(call[q]) /\ call[q].op = "insert"
        BY <1>0, <3>1, CallFacts
      <4>. QED  BY <3>1, <4>1 DEF CountInv, Unwritten, Inserting
    <3>3. call[q].id = call[p].id /\ Inserting(p)
      BY <1>0, <3>1, <3>2, NodesStep
    <3>. QED  BY <2>2, <3>2, <3>3 DEF CountInv, Inv2, IdsUnique
  <2>. QED  BY <2>1, <2>2
<1>4. Removals'
  BY <1>0, RemovalsStep DEF CountInv
<1>5. Reads'
  <2>0. counter_removed' >= counter_removed
    BY <1>0, RemovedStep
  <2>. SUFFICES ASSUME NEW q \in Procs
                PROVE  /\ call'[q].pc = "size_counter" =>
                            call'[q].out \in Nat /\ call'[q].out <= counter_removed'
                       /\ call'[q].pc = "idle" => call'[q].out >= 0
    BY DEF Reads, Idle
  <2>1. CASE q # p
    <3>1. call'[q] = call[q]
      BY <1>1, <2>1
    <3>. QED  BY <1>0, <2>0, <3>1 DEF CountInv, Reads, Idle
  <2>2. ASSUME q = p, call'[p].pc = "size_counter"
        PROVE  call'[p].out \in Nat /\ call'[p].out <= counter_removed'
    <3>1. call'[p].out = counter_removed
      BY <1>0, <2>2, PhaseStep
    <3>. QED  BY <1>0, <2>0, <3>1
  <2>3. ASSUME q = p, call'[p].pc = "idle"
        PROVE  call'[p].out >= 0
    <3>1. CASE call'[p].out = 0
      BY <3>1
    <3>2. CASE SizeCounter(p) /\ call'[p].out = counter - call[p].out
      <4>1. call[p].out \in Nat /\ call[p].out <= counter_removed
        BY <3>2 DEF SizeCounter, CountInv, Reads
      <4>2. Cardinality(Allocated) <= counter
        BY AllocatedBelow DEF CountInv
      <4>3. counter_removed <= Cardinality(Allocated)
        BY <1>0, CountedFinite DEF CountInv, Removals
      <4>4. Cardinality(Allocated) \in Nat
        BY CountedFinite
      <4>. QED  BY <1>0, <3>2, <4>1, <4>2, <4>3, <4>4
    <3>. QED  BY <1>0, <2>3, <3>1, <3>2, PhaseStep
  <2>. QED  BY <2>1, <2>2, <2>3
<1>6. Capacity'
  <2>. SUFFICES ASSUME MaxFaults = 0
                PROVE  counter' <= MaxRecords + Cardinality(Excess')
    BY DEF Capacity
  <2>0. counter <= MaxRecords + Cardinality(Excess)
    BY DEF CountInv, Capacity
  <2>1. /\ IsFiniteSet(Excess) /\ Cardinality(Excess) \in Nat
        /\ Excess \subseteq Procs /\ Excess' \subseteq Procs
    BY CountedFinite DEF Excess
  <2>2. \A q \in Procs : q # p => (q \in Excess' <=> q \in Excess)
    BY <1>1 DEF Excess
  <2>. DEFINE X == Excess'
  <2>3. CASE InsertIncrement(p) /\ Exhausted(counter')
    <3>1. call[p].pc = "inc" /\ call'[p].pc = "dec" /\ counter' = counter + 1
      BY <1>0, <2>3 DEF InsertIncrement, Goto, CallType
    <3>2. X = Excess \cup {p} /\ p \notin Excess
      BY <2>1, <2>2, <3>1 DEF Excess
    <3>. HIDE DEF X
    <3>3. Cardinality(X) = Cardinality(Excess) + 1
      BY <2>1, <3>2, FS_AddElement
    <3>. QED  BY <1>0, <2>0, <2>1, <3>1, <3>3, ConstantTypes DEF X
  <2>4. CASE InsertDecrement(p)
    <3>1. call[p].pc = "dec" /\ counter' = counter - 1
      BY <2>4 DEF InsertDecrement, HandBack
    <3>2. call'[p].pc # "dec"
      BY <1>0, <2>4, PhaseStep DEF InsertDecrement, InsertIncrement
    <3>3. X = Excess \ {p} /\ p \in Excess
      BY <2>1, <2>2, <3>1, <3>2 DEF Excess
    <3>. HIDE DEF X
    <3>4. Cardinality(X) = Cardinality(Excess) - 1
      BY <2>1, <3>3, FS_RemoveElement
    <3>. QED  BY <1>0, <2>0, <2>1, <3>1, <3>4, ConstantTypes DEF X
  <2>5. CASE InsertIncrement(p) /\ ~Exhausted(counter')
    <3>1. counter' <= MaxRecords
      BY <1>0, <2>5, ConstantTypes DEF Exhausted
    <3>2. IsFiniteSet(X) /\ Cardinality(X) \in Nat
      BY <2>1, ProcsFinite, FS_Subset, FS_CardinalityType
    <3>. HIDE DEF X
    <3>3. counter' <= MaxRecords + Cardinality(X)
      BY <1>0, <3>1, <3>2, ConstantTypes
    <3>. QED  BY <3>3 DEF X
  <2>6. CASE ~InsertIncrement(p) /\ ~InsertDecrement(p)
    <3>1. counter' = counter
      BY <2>6 DEF Step, Quiet, Call, InsertCall, RemoveCall, Begin, Contains, SizeCall,
         SetContext, ResetContext, SizeRemoved, SizeCounter, Touch, Fail, FetchEntry,
         Remove, RemoveFind, RemoveNode, RemoveEntry, RemoveWord, RemoveCount,
         RemoveStatement, Insert, InsertExists, InsertExistsError, InsertNode,
         InsertEntry, InsertStatement, tables
    <3>2. call[p].pc # "dec" \/ call'[p].pc = "dec"
      <4>1. CASE call[p].pc = "dec"
        <5>1. CallOK(call[p]) /\ call[p].op = "insert"
          BY <1>0, <4>1, CallFacts
        <5>2. Fail(p)
          BY <2>6, <4>1, <5>1 DEF Step, Quiet, Call, InsertCall, RemoveCall, Begin,
             Contains, SizeCall, SetContext, ResetContext, SizeRemoved, SizeCounter,
             Touch, FetchEntry, Remove, RemoveFind, RemoveNode, RemoveEntry, RemoveWord,
             Removing, RemoveCount, RemoveStatement, Insert, InsertExists,
             InsertExistsError, InsertNode, InsertEntry, InsertStatement, Idle
        <5>. QED  BY <1>0, <5>2 DEF Fail, Inv1, TypeOK
      <4>. QED  BY <4>1
    <3>3. call'[p].pc # "dec"
      BY <1>0, <2>6, PhaseStep
    <3>4. X = Excess
      BY <2>1, <2>2, <3>2, <3>3 DEF Excess
    <3>. QED  BY <2>0, <3>1, <3>4
  <2>. QED  BY <2>3, <2>4, <2>5, <2>6
<1>. QED  BY <1>2, <1>3, <1>4, <1>5, <1>6 DEF CountInv

(* Every step does.                                                        *)
LEMMA CountNext == CountInv /\ [Next]_vars => CountInv'
<1>. SUFFICES ASSUME CountInv, [Next]_vars PROVE CountInv'
  OBVIOUS
<1>1. Inv2' /\ \A i \in Ids : asserted[i] # None => asserted'[i] = asserted[i]
  BY Inv2Next DEF CountInv
<1>2. CASE UNCHANGED vars
  <2>1. /\ Uncounted' = Uncounted /\ Held' = Held /\ Allocated' = Allocated
        /\ Excess' = Excess
    BY <1>2 DEF vars, tables, Uncounted, Clearing, Held, Stored, Allocated, Excess
  <2>. QED  BY <1>1, <1>2, <2>1 DEF vars, tables, CountInv, NodesRight, Unwritten,
            Removals, Reads, Idle, Capacity
<1>3. ASSUME NEW p \in Procs, Step(p) PROVE CountInv'
  BY <1>1, <1>3, CountStep
<1>. QED  BY <1>2, <1>3 DEF Next, Step, Quiet

(* The empty store satisfies it.                                           *)
LEMMA CountInit == Init => CountInv
<1>. SUFFICES ASSUME Init PROVE CountInv
  OBVIOUS
<1>1. Inv2
  BY Inv2Init
<1>2. \A p \in Procs : call[p].pc = "idle" /\ call[p].out = 0
  BY DEF Init, Returned
<1>3. Uncounted = {} /\ Held = {} /\ Excess = {}
  BY <1>2 DEF Init, Uncounted, Clearing, Held, Stored, Excess
<1>4. Removals /\ Capacity
  <2>1. Cardinality({}) = 0
    BY FS_EmptySet
  <2>2. Cardinality(Allocated) \in Nat
    BY CountedFinite
  <2>. QED  BY <1>3, <2>1, <2>2, ConstantTypes DEF Init, Removals, Capacity
<1>5. NodesRight /\ Unwritten /\ Reads
  BY <1>2 DEF Init, NodesRight, Unwritten, Reads
<1>. QED  BY <1>1, <1>4, <1>5 DEF CountInv

(* rdfstore_size never wraps below zero, whatever other handles insert and *)
(* remove between its two reads and whichever requests fail; and without   *)
(* failing requests the counter is within the capacity between calls.      *)
THEOREM CountersSettle == Spec => []CounterSettles
<1>1. CountInv => CounterSettles
  <2>. SUFFICES ASSUME CountInv PROVE CounterSettles
    OBVIOUS
  <2>1. \A p \in Procs : Idle(p) => call[p].out >= 0
    BY DEF CountInv, Reads
  <2>2. ASSUME MaxFaults = 0, Quiescent PROVE counter <= MaxRecords
    <3>1. Excess = {}
      BY <2>2 DEF Quiescent, Idle, Excess
    <3>2. Cardinality(Excess) = 0
      BY <3>1, FS_EmptySet
    <3>. QED  BY <2>2, <3>2, ConstantTypes DEF CountInv, Capacity, Inv2, Inv1, TypeOK
  <2>. QED  BY <2>1, <2>2 DEF CounterSettles
<1>. QED  BY <1>1, CountInit, CountNext, PTL DEF Spec

-----------------------------------------------------------------------------
(* The lists of entries.  A removal visits the entries of its statement,   *)
(* the ones the insertion visited, in another order and each one once.     *)

WordsOnce ==
  \A s \in Statements : \A j, k \in 1 .. Len(s.words) : s.words[j] = s.words[k] => j = k

Members(s) == {s[k] : k \in 1 .. Len(s)}

Once(s) == \A j, k \in 1 .. Len(s) : s[j] = s[k] => j = k

Within(s, tabs) == \A k \in 1 .. Len(s) : s[k][1] \in tabs

(* The members of a concatenation are those of its parts.                  *)
LEMMA ConcatMembers ==
  ASSUME NEW a \in Seq(Entries), NEW b \in Seq(Entries)
  PROVE  Members(a \o b) = Members(a) \cup Members(b)
<1>1. /\ Len(a \o b) = Len(a) + Len(b)
      /\ \A i \in 1 .. Len(a) + Len(b) :
           (a \o b)[i] = IF i <= Len(a) THEN a[i] ELSE b[i - Len(a)]
      /\ Len(a) \in Nat /\ Len(b) \in Nat
  BY ConcatProperties, LenProperties
<1>2. ASSUME NEW e \in Members(a \o b) PROVE e \in Members(a) \cup Members(b)
  <2>1. PICK k \in 1 .. Len(a) + Len(b) : e = (a \o b)[k]
    BY <1>1, <1>2 DEF Members
  <2>2. CASE k <= Len(a)
    BY <1>1, <2>1, <2>2 DEF Members
  <2>3. CASE k > Len(a)
    <3>1. k - Len(a) \in 1 .. Len(b) /\ e = b[k - Len(a)]
      BY <1>1, <2>1, <2>3
    <3>. QED  BY <3>1 DEF Members
  <2>. QED  BY <1>1, <2>1, <2>2, <2>3
<1>3. ASSUME NEW e \in Members(a) PROVE e \in Members(a \o b)
  <2>1. PICK k \in 1 .. Len(a) : e = a[k]
    BY <1>3 DEF Members
  <2>2. k \in 1 .. Len(a \o b) /\ (a \o b)[k] = e
    BY <1>1, <2>1
  <2>. QED  BY <2>2 DEF Members
<1>4. ASSUME NEW e \in Members(b) PROVE e \in Members(a \o b)
  <2>1. PICK k \in 1 .. Len(b) : e = b[k]
    BY <1>4 DEF Members
  <2>2. k + Len(a) \in 1 .. Len(a \o b) /\ (a \o b)[k + Len(a)] = e
    BY <1>1, <2>1
  <2>. QED  BY <2>2 DEF Members
<1>. QED  BY <1>2, <1>3, <1>4

(* Lists over different tables, each without repetition, have none         *)
(* together.                                                               *)
LEMMA ConcatOnce ==
  ASSUME NEW a \in Seq(Entries), NEW b \in Seq(Entries), NEW T, NEW U,
         Once(a), Once(b), Within(a, T), Within(b, U), T \cap U = {}
  PROVE  /\ a \o b \in Seq(Entries)
         /\ Once(a \o b) /\ Within(a \o b, T \cup U)
<1>1. /\ Len(a \o b) = Len(a) + Len(b) /\ a \o b \in Seq(Entries)
      /\ \A i \in 1 .. Len(a) + Len(b) :
           (a \o b)[i] = IF i <= Len(a) THEN a[i] ELSE b[i - Len(a)]
      /\ Len(a) \in Nat /\ Len(b) \in Nat
  BY ConcatProperties, LenProperties
<1>2. \A i \in 1 .. Len(a) + Len(b) :
        \/ i \in 1 .. Len(a) /\ (a \o b)[i] = a[i]
        \/ i - Len(a) \in 1 .. Len(b) /\ (a \o b)[i] = b[i - Len(a)]
  BY <1>1
<1>3. ASSUME NEW i \in 1 .. Len(a) + Len(b), NEW j \in 1 .. Len(a) + Len(b),
             (a \o b)[i] = (a \o b)[j]
      PROVE  i = j
  <2>1. CASE i \in 1 .. Len(a) /\ (a \o b)[i] = a[i]
    <3>1. CASE j \in 1 .. Len(a) /\ (a \o b)[j] = a[j]
      BY <1>3, <2>1, <3>1 DEF Once
    <3>2. CASE j - Len(a) \in 1 .. Len(b) /\ (a \o b)[j] = b[j - Len(a)]
      BY <1>3, <2>1, <3>2 DEF Within
    <3>. QED  BY <1>2, <3>1, <3>2
  <2>2. CASE i - Len(a) \in 1 .. Len(b) /\ (a \o b)[i] = b[i - Len(a)]
    <3>1. CASE j \in 1 .. Len(a) /\ (a \o b)[j] = a[j]
      BY <1>3, <2>2, <3>1 DEF Within
    <3>2. CASE j - Len(a) \in 1 .. Len(b) /\ (a \o b)[j] = b[j - Len(a)]
      <4>1. i - Len(a) = j - Len(a)
        BY <1>3, <2>2, <3>2 DEF Once
      <4>. QED  BY <1>1, <4>1
    <3>. QED  BY <1>2, <3>1, <3>2
  <2>. QED  BY <1>2, <2>1, <2>2
<1>4. ASSUME NEW i \in 1 .. Len(a) + Len(b) PROVE (a \o b)[i][1] \in T \cup U
  BY <1>2 DEF Within
<1>. QED  BY <1>1, <1>3, <1>4 DEF Once, Within

(* A value is filed at most once in its table.                             *)
LEMMA ColumnOnce ==
  ASSUME NEW table, NEW key, key # None => <<table, key>> \in Entries
  PROVE  /\ Column(table, key) \in Seq(Entries)
         /\ Once(Column(table, key)) /\ Within(Column(table, key), {table})
<1>1. Column(table, key) \in Seq(Entries)
  BY ColumnTyped
<1>2. CASE key = None
  BY <1>2 DEF Column, Once, Within
<1>3. CASE key # None
  <2>1. Column(table, key) = << <<table, key>> >>
    BY <1>3 DEF Column
  <2>. DEFINE e == <<table, key>>
  <2>2. e[1] = table
    OBVIOUS
  <2>. HIDE DEF e
  <2>3. Once(<<e>>) /\ Within(<<e>>, {table})
    BY <2>2 DEF Once, Within
  <2>. QED  BY <1>1, <2>1, <2>3 DEF e
<1>. QED  BY <1>1, <1>2, <1>3

(* The lists a statement is filed by, one for each kind of table.          *)
LEMMA EntryLists ==
  ASSUME NEW s \in Statements, NEW c \in OrNone(Contexts)
  PROVE  /\ WordEntries(s) \in Seq(Entries)
         /\ ValueEntries(s) \in Seq(Entries)
         /\ NodeEntries(s, c) \in Seq(Entries)
         /\ WordsOnce => Once(WordEntries(s)) 
         /\ Within(WordEntries(s), {"windex"})
         /\ Once(ValueEntries(s))
         /\ Within(ValueEntries(s), {"languages", "datatypes", "xsd_date", "xsd_integer", "xsd_double"})
         /\ Once(NodeEntries(s, c))
         /\ Within(NodeEntries(s, c), {"subjects", "predicates", "objects", "contexts"})
<1>1. s \in StatementType
  BY ConstantTypes
<1>2. /\ WordEntries(s) \in Seq(Entries)
      /\ WordsOnce => Once(WordEntries(s))
      /\ Within(WordEntries(s), {"windex"})
  <2>. DEFINE w == [k \in 1 .. Len(s.words) |-> <<"windex", s.words[k]>>]
  <2>0. s.words \in Seq(Words) /\ Len(s.words) \in Nat
    BY <1>1 DEF StatementType
  <2>1. \A k \in 1 .. Len(s.words) : <<"windex", s.words[k]>> \in Entries
    BY <1>1 DEF StatementType, Entries
  <2>2. w \in Seq(Entries) /\ Len(w) = Len(s.words)
    BY <2>0, <2>1
  <2>3. \A k \in 1 .. Len(s.words) : w[k] = <<"windex", s.words[k]>>
    OBVIOUS
  <2>. HIDE DEF w
  <2>4. Within(w, {"windex"})
    BY <2>2, <2>3 DEF Within
  <2>5. WordsOnce => Once(w)
    <3>. SUFFICES ASSUME WordsOnce, NEW j \in 1 .. Len(s.words), NEW k \in 1 .. Len(s.words),
                         w[j] = w[k]
                  PROVE  j = k
      BY <2>2 DEF Once
    <3>1. s.words[j] = s.words[k]
      BY <2>3
    <3>. QED  BY <3>1 DEF WordsOnce
  <2>6. Once(<<>>) /\ Within(<<>>, {"windex"}) /\ <<>> \in Seq(Entries)
    BY DEF Once, Within
  <2>7. WordEntries(s) = w \/ WordEntries(s) = <<>>
    BY DEF WordEntries, w
  <2>. QED  BY <2>2, <2>4, <2>5, <2>6, <2>7
<1>3. /\ ValueEntries(s) \in Seq(Entries)
      /\ Once(ValueEntries(s))
      /\ Within(ValueEntries(s), {"languages", "datatypes", "xsd_date", "xsd_integer", "xsd_double"})
  <2>. DEFINE a == Column("languages", s.lang)
              b == Column("datatypes", s.datatype)
              d == Column("xsd_date", DateKey(s))
              i == Column("xsd_integer", s.integer)
              f == Column("xsd_double", DoubleKey(s))
  <2>1. a \in Seq(Entries) /\ Once(a) /\ Within(a, {"languages"})
    <3>1. s.lang # None => <<"languages", s.lang>> \in Entries
      BY <1>1 DEF StatementType, OrNone, Entries
    <3>. QED  BY <3>1, ColumnOnce
  <2>2. b \in Seq(Entries) /\ Once(b) /\ Within(b, {"datatypes"})
    <3>1. s.datatype # None => <<"datatypes", s.datatype>> \in Entries
      BY <1>1 DEF StatementType, OrNone, Entries
    <3>. QED  BY <3>1, ColumnOnce
  <2>3. d \in Seq(Entries) /\ Once(d) /\ Within(d, {"xsd_date"})
    <3>1. DateKey(s) # None => <<"xsd_date", DateKey(s)>> \in Entries
      BY <1>1 DEF StatementType, OrNone, Entries, DateKey
    <3>. QED  BY <3>1, ColumnOnce
  <2>4. i \in Seq(Entries) /\ Once(i) /\ Within(i, {"xsd_integer"})
    <3>1. s.integer # None => <<"xsd_integer", s.integer>> \in Entries
      BY <1>1 DEF StatementType, OrNone, Entries
    <3>. QED  BY <3>1, ColumnOnce
  <2>5. f \in Seq(Entries) /\ Once(f) /\ Within(f, {"xsd_double"})
    <3>1. DoubleKey(s) # None => <<"xsd_double", DoubleKey(s)>> \in Entries
      BY <1>1 DEF StatementType, OrNone, Entries, DoubleKey
    <3>. QED  BY <3>1, ColumnOnce
  <2>6. ValueEntries(s) = (((a \o b) \o d) \o i) \o f
    BY DEF ValueEntries
  <2>. HIDE DEF a, b, d, i, f
  <2>7. /\ a \o b \in Seq(Entries) /\ Once(a \o b)
        /\ Within(a \o b, {"languages"} \cup {"datatypes"})
    BY <2>1, <2>2, ConcatOnce
  <2>8. {"languages"} \cup {"datatypes"} = {"languages", "datatypes"}
    OBVIOUS
  <2>9. /\ (a \o b) \o d \in Seq(Entries) /\ Once((a \o b) \o d)
        /\ Within((a \o b) \o d, {"languages", "datatypes"} \cup {"xsd_date"})
    <3>1. {"languages", "datatypes"} \cap {"xsd_date"} = {}
      OBVIOUS
    <3>2. Within(a \o b, {"languages", "datatypes"})
      BY <2>7, <2>8
    <3>. QED  BY <2>3, <2>7, <3>1, <3>2, ConcatOnce
  <2>10. {"languages", "datatypes"} \cup {"xsd_date"} = {"languages", "datatypes", "xsd_date"}
    OBVIOUS
  <2>11. /\ ((a \o b) \o d) \o i \in Seq(Entries) /\ Once(((a \o b) \o d) \o i)
         /\ Within(((a \o b) \o d) \o i, {"languages", "datatypes", "xsd_date"} \cup {"xsd_integer"})
    <3>1. {"languages", "datatypes", "xsd_date"} \cap {"xsd_integer"} = {}
      OBVIOUS
    <3>2. Within((a \o b) \o d, {"languages", "datatypes", "xsd_date"})
      BY <2>9, <2>10
    <3>. QED  BY <2>4, <2>9, <3>1, <3>2, ConcatOnce
  <2>12. {"languages", "datatypes", "xsd_date"} \cup {"xsd_integer"}
           = {"languages", "datatypes", "xsd_date", "xsd_integer"}
    OBVIOUS
  <2>13. /\ (((a \o b) \o d) \o i) \o f \in Seq(Entries) /\ Once((((a \o b) \o d) \o i) \o f)
         /\ Within((((a \o b) \o d) \o i) \o f,
                   {"languages", "datatypes", "xsd_date", "xsd_integer"} \cup {"xsd_double"})
    <3>1. {"languages", "datatypes", "xsd_date", "xsd_integer"} \cap {"xsd_double"} = {}
      OBVIOUS
    <3>2. Within(((a \o b) \o d) \o i, {"languages", "datatypes", "xsd_date", "xsd_integer"})
      BY <2>11, <2>12
    <3>. QED  BY <2>5, <2>11, <3>1, <3>2, ConcatOnce
  <2>14. {"languages", "datatypes", "xsd_date", "xsd_integer"} \cup {"xsd_double"}
           = {"languages", "datatypes", "xsd_date", "xsd_integer", "xsd_double"}
    OBVIOUS
  <2>. QED  BY <2>6, <2>13, <2>14
<1>4. /\ NodeEntries(s, c) \in Seq(Entries)
      /\ Once(NodeEntries(s, c))
      /\ Within(NodeEntries(s, c), {"subjects", "predicates", "objects", "contexts"})
  <2>. DEFINE spo == << <<"subjects", NodeHash[s.subject]>>,
                        <<"predicates", NodeHash[s.predicate]>>,
                        <<"objects", NodeHash[s.object]>> >>
              ctx == IF c = None THEN <<>> ELSE << <<"contexts", NodeHash[c]>> >>
  <2>1. /\ NodeHash[s.subject] \in Hashes
        /\ NodeHash[s.predicate] \in Hashes
        /\ NodeHash[s.object] \in Hashes
    BY <1>1, ConstantTypes DEF StatementType
  <2>2. spo \in Seq(Entries) /\ Len(spo) = 3
    BY <2>1 DEF Entries
  <2>3. Once(spo) /\ Within(spo, {"subjects", "predicates", "objects"})
    <3>1. /\ spo[1][1] = "subjects" /\ spo[2][1] = "predicates" /\ spo[3][1] = "objects"
      OBVIOUS
    <3>. HIDE DEF spo
    <3>2. \A k \in 1 .. 3 : k = 1 \/ k = 2 \/ k = 3
      OBVIOUS
    <3>. QED  BY <2>2, <3>1, <3>2 DEF Once, Within
  <2>4. ctx \in Seq(Entries) /\ Once(ctx) /\ Within(ctx, {"contexts"})
    <3>1. CASE c = None
      BY <3>1 DEF Once, Within
    <3>2. CASE c # None
      <4>. DEFINE e == <<"contexts", NodeHash[c]>>
      <4>1. e \in Entries /\ e[1] = "contexts"
        BY <3>2, ConstantTypes DEF OrNone, Entries
      <4>. HIDE DEF e
      <4>2. <<e>> \in Seq(Entries) /\ Once(<<e>>) /\ Within(<<e>>, {"contexts"})
        BY <4>1 DEF Once, Within
      <4>. QED  BY <3>2, <4>2 DEF e
    <3>. QED  BY <3>1, <3>2
  <2>5. NodeEntries(s, c) = spo \o ctx
    BY DEF NodeEntries
  <2>. HIDE DEF spo, ctx
  <2>6. {"subjects", "predicates", "objects"} \cap {"contexts"} = {}
    OBVIOUS
  <2>7. {"subjects", "predicates", "objects"} \cup {"contexts"}
          = {"subjects", "predicates", "objects", "contexts"}
    OBVIOUS
  <2>8. /\ spo \o ctx \in Seq(Entries) /\ Once(spo \o ctx)
        /\ Within(spo \o ctx, {"subjects", "predicates", "objects"} \cup {"contexts"})
    BY <2>2, <2>3, <2>4, <2>6, ConcatOnce
  <2>. QED  BY <2>5, <2>7, <2>8
<1>. QED  BY <1>2, <1>3, <1>4

(* A removal visits what the insertion of the statement visited.           *)
LEMMA SameEntries ==
  ASSUME NEW s \in Statements, NEW c \in OrNone(Contexts)
  PROVE  /\ Members(RemoveEntries(s, c)) = EntriesOf(<<s, c>>)
         /\ Members(InsertEntries(s, c)) = EntriesOf(<<s, c>>)
         /\ EntriesOf(<<s, c>>) \subseteq Entries
<1>. DEFINE w == WordEntries(s)
            v == ValueEntries(s)
            n == NodeEntries(s, c)
<1>1. w \in Seq(Entries) /\ v \in Seq(Entries) /\ n \in Seq(Entries)
  BY EntryLists
<1>2. /\ InsertEntries(s, c) = (w \o v) \o n
      /\ RemoveEntries(s, c) = (n \o w) \o v
  BY DEF InsertEntries, RemoveEntries
<1>. HIDE DEF w, v, n
<1>3. w \o v \in Seq(Entries) /\ n \o w \in Seq(Entries)
  BY <1>1, ConcatProperties
<1>4. /\ Members((w \o v) \o n) = (Members(w) \cup Members(v)) \cup Members(n)
      /\ Members((n \o w) \o v) = (Members(n) \cup Members(w)) \cup Members(v)
  <2>1. Members(w \o v) = Members(w) \cup Members(v)
    BY <1>1, ConcatMembers
  <2>2. Members(n \o w) = Members(n) \cup Members(w)
    BY <1>1, ConcatMembers
  <2>3. Members((w \o v) \o n) = Members(w \o v) \cup Members(n)
    BY <1>1, <1>3, ConcatMembers
  <2>4. Members((n \o w) \o v) = Members(n \o w) \cup Members(v)
    BY <1>1, <1>3, ConcatMembers
  <2>. QED  BY <2>1, <2>2, <2>3, <2>4
<1>5. Members(RemoveEntries(s, c)) = Members(InsertEntries(s, c))
  BY <1>2, <1>4
<1>6. Members(InsertEntries(s, c)) = EntriesOf(<<s, c>>)
  BY DEF Members, EntriesOf
<1>7. InsertEntries(s, c) \in Seq(Entries)
  BY EntriesTyped
<1>8. Members(InsertEntries(s, c)) \subseteq Entries
  BY <1>7 DEF Members
<1>. QED  BY <1>5, <1>6, <1>8

(* When the words of a literal are distinct, it visits each entry once.    *)
LEMMA RemoveEntriesOnce ==
  ASSUME WordsOnce, NEW s \in Statements, NEW c \in OrNone(Contexts)
  PROVE  Once(RemoveEntries(s, c))
<1>. DEFINE w == WordEntries(s)
            v == ValueEntries(s)
            n == NodeEntries(s, c)
            N == {"subjects", "predicates", "objects", "contexts"}
            V == {"languages", "datatypes", "xsd_date", "xsd_integer", "xsd_double"}
<1>1. /\ w \in Seq(Entries) /\ v \in Seq(Entries) /\ n \in Seq(Entries)
      /\ Once(w) /\ Once(v) /\ Once(n)
      /\ Within(w, {"windex"}) /\ Within(v, V) /\ Within(n, N)
  BY EntryLists
<1>2. RemoveEntries(s, c) = (n \o w) \o v
  BY DEF RemoveEntries
<1>3. N \cap {"windex"} = {} /\ (N \cup {"windex"}) \cap V = {}
  OBVIOUS
<1>. HIDE DEF w, v, n, N, V
<1>4. n \o w \in Seq(Entries) /\ Once(n \o w) /\ Within(n \o w, N \cup {"windex"})
  BY <1>1, <1>3, ConcatOnce
<1>5. Once((n \o w) \o v)
  BY <1>1, <1>3, <1>4, ConcatOnce
<1>. QED  BY <1>2, <1>5

(* What is left of a list after its first entry.                           *)
LEMMA TailMembers ==
  ASSUME NEW s \in Seq(Entries), Len(s) > 0
  PROVE  /\ Head(s) \in Members(s)
         /\ Members(s) = {Head(s)} \cup Members(Tail(s))
         /\ Once(s) => Once(Tail(s)) /\ Head(s) \notin Members(Tail(s))
         /\ Len(s) = 1 => Members(s) = {Head(s)}
<1>1. Len(s) \in Nat /\ s # <<>>
  <2>1. Len(<<>>) = 0
    OBVIOUS
  <2>. QED  BY <2>1, LenProperties
<1>2. /\ Tail(s) \in Seq(Entries) /\ Len(Tail(s)) = Len(s) - 1
      /\ Head(s) = s[1] /\ \A k \in 1 .. Len(Tail(s)) : Tail(s)[k] = s[k + 1]
  BY <1>1, HeadTailProperties
<1>3. Head(s) \in Members(s) /\ 1 \in 1 .. Len(s)
  BY <1>1, <1>2 DEF Members
<1>4. ASSUME NEW e \in Members(s), e # Head(s) PROVE e \in Members(Tail(s))
  <2>1. PICK k \in 1 .. Len(s) : e = s[k]
    BY <1>4 DEF Members
  <2>2. k - 1 \in 1 .. Len(Tail(s))
    BY <1>1, <1>2, <1>4, <2>1
  <2>3. Tail(s)[k - 1] = s[(k - 1) + 1]
    BY <1>2, <2>2
  <2>4. (k - 1) + 1 = k
    BY <2>1
  <2>5. e = Tail(s)[k - 1]
    BY <2>1, <2>3, <2>4
  <2>. QED  BY <2>2, <2>5 DEF Members
<1>5. ASSUME NEW e \in Members(Tail(s)) PROVE e \in Members(s)
  <2>1. PICK k \in 1 .. Len(Tail(s)) : e = Tail(s)[k]
    BY <1>5 DEF Members
  <2>2. k + 1 \in 1 .. Len(s) /\ e = s[k + 1]
    BY <1>1, <1>2, <2>1
  <2>. QED  BY <2>2 DEF Members
<1>6. ASSUME Once(s) PROVE Once(Tail(s)) /\ Head(s) \notin Members(Tail(s))
  <2>1. \A j \in 1 .. Len(Tail(s)) : j + 1 \in 1 .. Len(s) /\ j + 1 # 1
    BY <1>1, <1>2
  <2>2. ASSUME NEW j \in 1 .. Len(Tail(s)), NEW k \in 1 .. Len(Tail(s)),
               Tail(s)[j] = Tail(s)[k]
        PROVE  j = k
    <3>1. s[j + 1] = s[k + 1]
      BY <1>2, <2>2
    <3>2. j + 1 = k + 1
      BY <1>6, <2>1, <3>1 DEF Once
    <3>. QED  BY <3>2
  <2>3. ASSUME NEW k \in 1 .. Len(Tail(s)), Tail(s)[k] = Head(s) PROVE FALSE
    <3>1. s[k + 1] = s[1]
      BY <1>2, <2>3
    <3>. QED  BY <1>3, <1>6, <2>1, <3>1 DEF Once
  <2>. QED  BY <2>2, <2>3 DEF Once, Members
<1>7. ASSUME Len(s) = 1 PROVE Members(s) = {Head(s)}
  <2>1. \A k \in 1 .. Len(s) : k = 1
    BY <1>7
  <2>. QED  BY <1>2, <1>3, <2>1 DEF Members
<1>. QED  BY <1>3, <1>4, <1>5, <1>6, <1>7

-----------------------------------------------------------------------------
(* One handle on the tables, distinct hash codes for distinct quads,       *)
(* literals whose words are distinct: what a call has read from a table is *)
(* still there when it writes the table back.                              *)

Alone == \A p, q \in Procs : p = q

OwnDigests == \A q, r \in Quads : Digest[q] = Digest[r] => q = r

Single == Alone /\ BuiltEachTime /\ OwnDigests /\ WordsOnce

Left(p) == Members(call[p].todo)

Looping(p, op) == call[p].op = op /\ call[p].pc \in {"fetch", "store"}

(* An insertion has filed its id, but for the entries left.                *)
Filed ==
  \A p \in Procs :
    /\ Looping(p, "insert") =>
         \A e \in EntriesOf(QuadOf(p)) : call[p].id \in index[e] \/ e \in Left(p)
    /\ call[p].pc = "statements" =>
         \A e \in EntriesOf(QuadOf(p)) : call[p].id \in index[e]

(* A removal has taken its id only out of entries it will not see again.   *)
Unfiled ==
  \A p \in Procs : Looping(p, "remove") =>
    /\ nodes[call[p].id] = None
    /\ Once(call[p].todo)
    /\ \A e \in Left(p) : call[p].id \in index[e]

(* What a removal found is still what its hash code names.                 *)
Found == \A p \in Procs : call[p].pc = "unnode" => statements[call[p].hc] = call[p].id

(* What is in memory is what is in the table.                              *)
Current == \A p \in Procs : call[p].pc = "store" => call[p].bits = index[Head(call[p].todo)]

VisInv == Inv4 /\ VisibleIsIndexed /\ Filed /\ Unfiled /\ Found /\ Current

(* The requests that leave statements, nodes and postings alone do not     *)
(* lead into the middle of an insertion or removal.                        *)
LEMMA PassiveStep ==
  ASSUME Inv1, NEW p \in Procs, Step(p),
         ~InsertNode(p), ~InsertEntry(p), ~InsertStatement(p), ~FetchEntry(p),
         ~RemoveFind(p), ~RemoveNode(p), ~RemoveEntry(p), ~RemoveWord(p), ~RemoveStatement(p)
  PROVE  /\ UNCHANGED <<nodes, index, statements>>
         /\ call'[p].pc \notin {"fetch", "store", "statements", "unnode"}
<1>0. call \in [Procs -> CallType] /\ call[p] \in CallType /\ CallOK(call[p])
  BY CallFacts DEF Inv1, TypeOK
<1>1. UNCHANGED <<nodes, index, statements>>
  BY DEF Step, Quiet, Call, InsertCall, RemoveCall, Begin, Contains, SizeCall,
       SetContext, ResetContext, SizeRemoved, SizeCounter, Touch, Fail,
       Remove, RemoveCount, Insert, InsertExists, InsertExistsError, InsertIncrement,
       InsertDecrement, tables
<1>. DEFINE Good == /\ UNCHANGED <<nodes, index, statements>>
                    /\ call'[p].pc \notin {"fetch", "store", "statements", "unnode"}
<1>2. ASSUME NEW r, call' = [call EXCEPT ![p] = r],
             r.pc \notin {"fetch", "store", "statements", "unnode"}
      PROVE  Good
  BY <1>0, <1>1, <1>2
<1>3. ASSUME NEW ret, NEW out, call' = [call EXCEPT ![p] = Returned(ret, out)]
      PROVE  Good
  BY <1>2, <1>3 DEF Returned
<1>4. ASSUME NEW pc, Goto(p, pc), pc \notin {"fetch", "store", "statements", "unnode"}
      PROVE  Good
  BY <1>0, <1>1, <1>4 DEF Goto, CallType
<1>5. ASSUME NEW op, NEW o, NEW g, NEW pc, Begin(p, op, o, g, pc), pc \in {"exists", "find"}
      PROVE  Good
  <2>. DEFINE c == ContextOf(p, o, g)
              r == [Returned(0, 0) EXCEPT !.pc = pc, !.op = op, !.st = o.st,
                      !.ctx = c, !.hc = HashCode(p, o, c)]
  <2>1. call' = [call EXCEPT ![p] = r]
    BY <1>5 DEF Begin
  <2>2. r.pc = pc
    BY DEF Returned
  <2>. HIDE DEF r
  <2>. QED  BY <1>2, <1>5, <2>1, <2>2
<1>6. CASE Quiet(p)
  <2>2. ASSUME NEW op \in {"size", "is_empty"}, SizeCall(p, op)
        PROVE  Good
    <3>. DEFINE r == [Returned(0, 0) EXCEPT !.pc = "size_removed", !.op = op]
    <3>1. call' = [call EXCEPT ![p] = r]
      BY <2>2 DEF SizeCall
    <3>2. r.pc = "size_removed"
      BY DEF Returned
    <3>. HIDE DEF r
    <3>. QED  BY <1>2, <3>1, <3>2
  <2>3. ASSUME NEW o, NEW g, Contains(p, o, g) PROVE Good
    BY <1>3, <2>3 DEF Contains
  <2>4. ASSUME NEW c, SetContext(p, c) PROVE Good
    BY <1>3, <2>4 DEF SetContext
  <2>5. CASE ResetContext(p)
    BY <1>3, <2>5 DEF ResetContext
  <2>6. CASE SizeRemoved(p)
    BY <1>0, <1>1, <2>6 DEF SizeRemoved, CallType
  <2>7. CASE SizeCounter(p)
    <3>1. CASE call[p].op = "size"
      BY <1>3, <2>7, <3>1 DEF SizeCounter
    <3>2. CASE call[p].op # "size"
      BY <1>3, <2>7, <3>2 DEF SizeCounter
    <3>. QED  BY <3>1, <3>2
  <2>8. CASE Touch(p) \/ Fail(p)
    BY <1>3, <2>8 DEF Touch, Fail, Return
  <2>. QED  BY <1>5, <1>6, <2>2, <2>3, <2>4, <2>5, <2>6, <2>7, <2>8
            DEF Quiet, Call, InsertCall, RemoveCall
<1>7. CASE RemoveCount(p)
  BY <1>4, <1>7 DEF RemoveCount
<1>8. CASE InsertExists(p) \/ InsertExistsError(p)
  BY <1>3, <1>4, <1>8 DEF InsertExists, InsertExistsError, Return
<1>9. CASE InsertIncrement(p)
  <2>1. CASE call' = [call EXCEPT ![p].pc = "nodes", ![p].id = counter]
    BY <1>0, <1>1, <2>1 DEF CallType
  <2>. QED  BY <1>3, <1>4, <1>9, <2>1 DEF InsertIncrement, Return
<1>10. CASE InsertDecrement(p)
  BY <1>3, <1>10 DEF InsertDecrement, Return
<1>. QED  BY <1>6, <1>7, <1>8, <1>9, <1>10 DEF Step, Insert, Remove

(* What a request of the loop over the postings makes of the call.         *)
LEMMA NextEntryIs ==
  ASSUME Inv1, NEW p \in Procs, NEW after, NextEntry(p, after)
  PROVE  /\ call'[p].pc = IF Len(call[p].todo) = 1 THEN after ELSE "fetch"
         /\ call'[p].todo = Tail(call[p].todo)
         /\ call'[p].id = call[p].id
         /\ SameArguments(p)
         /\ call'[p].ret = call[p].ret /\ call'[p].out = call[p].out
BY DEF NextEntry, Inv1, TypeOK, CallType, SameArguments

(* A posting a removal writes back lost the id removed and nothing else.   *)
LEMMA RemovedIsOwn ==
  ASSUME VisInv, NEW p \in Procs, RemoveEntry(p) \/ RemoveWord(p)
  PROVE  /\ call[p].id \in index[Head(call[p].todo)]
         /\ index' = [index EXCEPT ![Head(call[p].todo)] = @ \ {call[p].id}]
         /\ NextEntry(p, "count")
         /\ Looping(p, "remove") /\ call[p].pc = "store"
<1>0. Inv1
  BY DEF VisInv, Inv4, Inv3, Inv2
<1>. DEFINE e == Head(call[p].todo)
<1>1. /\ call[p].pc = "store" /\ Looping(p, "remove")
      /\ e \in Entries /\ call[p].todo \in Seq(Entries) /\ Len(call[p].todo) > 0
  BY <1>0, CallFacts DEF RemoveEntry, RemoveWord, Removing, Looping, CallType
<1>2. call[p].bits = index[e]
  BY <1>1 DEF VisInv, Current
<1>3. e \in Left(p)
  BY <1>1, TailMembers DEF Left
<1>4. call[p].id \in index[e]
  BY <1>1, <1>3 DEF VisInv, Unfiled
<1>. HIDE DEF e
<1>5. CASE RemoveEntry(p)
  <2>1. index' = [index EXCEPT ![e] = call[p].bits \ {call[p].id}]
    BY <1>5 DEF RemoveEntry, e
  <2>2. NextEntry(p, "count")
    <3>1. index[e] # {}
      BY <1>4
    <3>. QED  BY <1>5, <3>1 DEF RemoveEntry, e
  <2>. QED  BY <1>1, <1>2, <1>4, <2>1, <2>2 DEF e
<1>6. CASE RemoveWord(p)
  <2>. DEFINE rest == IF \E i, j \in call[p].bits : i # j
                      THEN call[p].bits \ {call[p].id} ELSE {}
  <2>1. index' = [index EXCEPT ![e] = rest] /\ NextEntry(p, "count")
    BY <1>6 DEF RemoveWord, e
  <2>2. rest = index[e] \ {call[p].id}
    <3>1. CASE \E i, j \in call[p].bits : i # j
      BY <1>2, <3>1
    <3>2. CASE ~\E i, j \in call[p].bits : i # j
      BY <1>2, <1>4, <3>2
    <3>. QED  BY <3>1, <3>2
  <2>. QED  BY <1>1, <1>4, <2>1, <2>2 DEF e
<1>. QED  BY <1>5, <1>6

(* A statement found by its hash code is the one called for.               *)
LEMMA NamedIsQuad ==
  ASSUME OwnDigests, Inv4, NEW p \in Procs, Changing(p),
         NEW i \in Ids, statements[call[p].hc] = i
  PROVE  asserted[i] = QuadOf(p) /\ QuadOf(p) \in Quads
<1>0. /\ CallOK(call[p]) /\ call[p] \in CallType
      /\ asserted \in [Ids -> OrNone(Quads)]
  BY CallFacts DEF Inv4, Inv3, Inv2, Inv1, TypeOK
<1>1. QuadOf(p) \in Quads /\ call[p].hc \in Digests
  BY <1>0 DEF CallOK, CallType, Quads, QuadOf, Changing
<1>2. i # None
  BY NoneIsNothing
<1>3. asserted[i] # None /\ Digest[asserted[i]] = call[p].hc
  BY <1>1, <1>2 DEF Inv4, StatementsSound, DigestOf
<1>4. asserted[i] \in Quads
  BY <1>0, <1>3 DEF OrNone
<1>5. call[p].hc = Digest[QuadOf(p)]
  BY DEF Inv4, Hashed
<1>. QED  BY <1>1, <1>3, <1>4, <1>5 DEF OwnDigests

(* Rest of a step: the layers that speak of calls, when the only handle is *)
(* not in the middle of a change any more.                                 *)
LEMMA Outside ==
  ASSUME Alone, NEW p \in Procs,
         call'[p].pc \notin {"fetch", "store", "statements", "unnode"}
  PROVE  Filed' /\ Unfiled' /\ Found' /\ Current'
<1>1. \A q \in Procs : q = p
  BY DEF Alone
<1>2. \A q \in Procs : call'[q].pc \notin {"fetch", "store", "statements", "unnode"}
  BY <1>1
<1>. QED  BY <1>2 DEF Filed, Unfiled, Found, Current, Looping

(* What is visible stays so when the tables stay.                          *)
LEMMA VisibleKept ==
  ASSUME VisInv, UNCHANGED <<nodes, index, statements>>
  PROVE  VisibleIsIndexed'
BY DEF VisInv, VisibleIsIndexed, Stored, EntriesOf

(* One request of the one handle keeps what is visible indexed.            *)
LEMMA VisStep ==
  ASSUME Single, VisInv, NEW p \in Procs, Step(p)
  PROVE  VisibleIsIndexed' /\ Filed' /\ Unfiled' /\ Found' /\ Current'
<1>0. /\ Inv1 /\ Inv2 /\ Inv4
      /\ call \in [Procs -> CallType] /\ call[p] \in CallType /\ CallOK(call[p])
      /\ nodes \in [Ids -> OrNone(Quads)]
      /\ index \in [Entries -> SUBSET Ids]
      /\ statements \in [Digests -> OrNone(Ids)]
      /\ asserted \in [Ids -> OrNone(Quads)]
      /\ call[p].id \in Ids /\ call[p].todo \in Seq(Entries)
  BY CallFacts DEF VisInv, Inv4, Inv3, Inv2, Inv1, TypeOK, CallType
<1>00. Alone /\ BuiltEachTime /\ OwnDigests /\ WordsOnce /\ \A q \in Procs : q = p
  BY DEF Single, Alone
<1>01. \A i \in Ids : i # None
  BY NoneIsNothing
<1>02. \A h \in Digests : statements[h] # None => statements[h] \in Ids
  BY <1>0 DEF OrNone
<1>03. \A i \in Ids : nodes[i] # None => nodes[i] \in Quads
  BY <1>0 DEF OrNone
<1>04. \A q \in Quads : EntriesOf(q) \subseteq Entries
  <2>. SUFFICES ASSUME NEW q \in Quads PROVE EntriesOf(q) \subseteq Entries
    OBVIOUS
  <2>1. q = <<q[1], q[2]>> /\ q[1] \in Statements /\ q[2] \in OrNone(Contexts)
    BY DEF Quads
  <2>2. EntriesOf(<<q[1], q[2]>>) \subseteq Entries
    BY <2>1, SameEntries
  <2>. QED  BY <2>1, <2>2
<1>05. Changing(p) => QuadOf(p) \in Quads /\ call[p].hc \in Digests
  BY <1>0 DEF Changing, CallOK, CallType, Quads, QuadOf
<1>1. CASE /\ ~InsertNode(p) /\ ~InsertEntry(p) /\ ~InsertStatement(p) /\ ~FetchEntry(p)
           /\ ~RemoveFind(p) /\ ~RemoveNode(p) /\ ~RemoveEntry(p) /\ ~RemoveWord(p)
           /\ ~RemoveStatement(p)
  <2>1. /\ UNCHANGED <<nodes, index, statements>>
        /\ call'[p].pc \notin {"fetch", "store", "statements", "unnode"}
    BY <1>0, <1>1, PassiveStep
  <2>2. VisibleIsIndexed'
    BY <2>1, VisibleKept
  <2>. QED  BY <1>00, <2>1, <2>2, Outside
<1>2. CASE RemoveFind(p)
  <2>1. UNCHANGED <<nodes, index, statements>>
    BY <1>2 DEF RemoveFind, tables
  <2>2. VisibleIsIndexed'
    BY <2>1, VisibleKept
  <2>3. CASE statements[call[p].hc] = None
    <3>1. call'[p].pc = "idle"
      BY <1>0, <1>2, <2>3 DEF RemoveFind, Return, Returned
    <3>. QED  BY <1>00, <2>2, <3>1, Outside
  <2>4. CASE statements[call[p].hc] # None
    <3>1. call'[p].pc = "unnode" /\ call'[p].id = statements[call[p].hc] /\ call'[p].hc = call[p].hc
      BY <1>0, <1>2, <2>4 DEF RemoveFind, CallType
    <3>2. Found'
      BY <1>00, <2>1, <3>1 DEF Found
    <3>3. \A q \in Procs : call'[q].pc = "unnode"
      BY <1>00, <3>1
    <3>4. Filed' /\ Unfiled' /\ Current'
      BY <3>3 DEF Filed, Unfiled, Current, Looping
    <3>. QED  BY <2>2, <3>2, <3>4
  <2>. QED  BY <2>3, <2>4
<1>3. CASE RemoveNode(p)
  <2>0. call[p].pc = "unnode" /\ call[p].op = "remove" /\ Changing(p)
    BY <1>0, <1>3, CallFacts DEF RemoveNode, Changing
  <2>1. UNCHANGED <<index, statements, asserted>>
    BY <1>3 DEF RemoveNode
  <2>2. \A i \in Ids : nodes'[i] = nodes[i] \/ nodes'[i] = None
    BY <1>0, <1>3 DEF RemoveNode
  <2>3. VisibleIsIndexed'
    <3>. SUFFICES ASSUME NEW h \in Digests, statements'[h] # None, nodes'[statements'[h]] # None,
                         NEW e \in EntriesOf(nodes'[statements'[h]])
                  PROVE  statements'[h] \in index'[e]
      BY DEF VisibleIsIndexed, Stored, EntriesOf
    <3>1. nodes'[statements[h]] = nodes[statements[h]]
      BY <1>02, <2>1, <2>2
    <3>. QED  BY <2>1, <3>1 DEF VisInv, VisibleIsIndexed, Stored
  <2>4. CASE nodes[call[p].id] = None
    <3>1. call'[p].pc = "idle"
      BY <1>0, <1>3, <2>4 DEF RemoveNode, Return, Returned
    <3>. QED  BY <1>00, <2>3, <3>1, Outside
  <2>5. CASE nodes[call[p].id] # None
    <3>1. /\ call'[p].pc = "fetch" /\ call'[p].op = "remove" /\ call'[p].id = call[p].id
          /\ call'[p].todo = RemoveEntries(call[p].st, call[p].ctx)
          /\ nodes'[call[p].id] = None
      BY <1>0, <1>3, <2>0, <2>5 DEF RemoveNode, CallType
    <3>2. call[p].st \in Statements /\ call[p].ctx \in OrNone(Contexts)
      BY <1>0, <2>0 DEF CallOK, CallType
    <3>3. Once(call'[p].todo)
      BY <1>00, <3>1, <3>2, RemoveEntriesOnce
    <3>4. Members(call'[p].todo) = EntriesOf(QuadOf(p))
      BY <3>1, <3>2, SameEntries DEF QuadOf
    <3>5. statements[call[p].hc] = call[p].id
      BY <2>0 DEF VisInv, Found
    <3>6. asserted[call[p].id] = QuadOf(p)
      BY <1>0, <1>00, <2>0, <3>5, NamedIsQuad
    <3>7. nodes[call[p].id] = QuadOf(p)
      BY <1>0, <2>5, <3>6 DEF Inv4, NodesRight
    <3>8. \A e \in EntriesOf(QuadOf(p)) : call[p].id \in index[e]
      <4>1. call[p].hc \in Digests
        BY <1>05, <2>0
      <4>. QED  BY <1>0, <1>01, <2>5, <3>5, <3>7, <4>1 DEF VisInv, VisibleIsIndexed, Stored
    <3>9. Unfiled'
      BY <1>00, <2>1, <3>1, <3>3, <3>4, <3>8 DEF Unfiled, Left
    <3>10. \A q \in Procs : call'[q].pc = "fetch" /\ call'[q].op = "remove"
      BY <1>00, <3>1
    <3>11. Filed' /\ Found' /\ Current'
      BY <3>10 DEF Filed, Found, Current, Looping
    <3>. QED  BY <2>3, <3>9, <3>11
  <2>. QED  BY <2>4, <2>5
<1>4. CASE FetchEntry(p)
  <2>1. UNCHANGED <<nodes, index, statements>>
    BY <1>4 DEF FetchEntry, tables
  <2>2. VisibleIsIndexed'
    BY <2>1, VisibleKept
  <2>3. /\ call'[p].pc = "store" /\ call'[p].bits = index[Head(call[p].todo)]
        /\ call'[p].todo = call[p].todo /\ call'[p].id = call[p].id
        /\ call'[p].op = call[p].op /\ call'[p].st = call[p].st
        /\ call'[p].ctx = call[p].ctx /\ call[p].pc = "fetch"
    BY <1>0, <1>4 DEF FetchEntry, CallType
  <2>4. Current'
    BY <1>00, <2>1, <2>3 DEF Current
  <2>5. Filed'
    <3>. SUFFICES ASSUME call'[p].op = "insert", NEW e \in EntriesOf(<<call'[p].st, call'[p].ctx>>)
                  PROVE  call'[p].id \in index'[e] \/ e \in Members(call'[p].todo)
      BY <1>00, <2>3 DEF Filed, Looping, QuadOf, Left, EntriesOf
    <3>1. Looping(p, "insert") /\ e \in EntriesOf(QuadOf(p))
      BY <2>3 DEF Looping, QuadOf
    <3>. QED  BY <2>1, <2>3, <3>1 DEF VisInv, Filed, Left
  <2>6. Unfiled'
    <3>. SUFFICES ASSUME call'[p].op = "remove"
                  PROVE  /\ nodes'[call'[p].id] = None
                         /\ Once(call'[p].todo)
                         /\ \A e \in Members(call'[p].todo) : call'[p].id \in index'[e]
      BY <1>00 DEF Unfiled, Looping, Left, Once
    <3>1. Looping(p, "remove")
      BY <2>3 DEF Looping
    <3>. QED  BY <2>1, <2>3, <3>1 DEF VisInv, Unfiled, Left
  <2>7. \A q \in Procs : call'[q].pc = "store"
    BY <1>00, <2>3
  <2>8. Found'
    BY <2>7 DEF Found
  <2>. QED  BY <2>2, <2>4, <2>5, <2>6, <2>8
<1>5. CASE RemoveEntry(p) \/ RemoveWord(p)
  <2>. DEFINE a == Head(call[p].todo)
  <2>1. /\ call[p].id \in index[a]
        /\ index' = [index EXCEPT ![a] = @ \ {call[p].id}]
        /\ NextEntry(p, "count")
        /\ Looping(p, "remove") /\ call[p].pc = "store"
    BY <1>5, RemovedIsOwn
  <2>2. UNCHANGED <<nodes, statements>>
    BY <1>5 DEF RemoveEntry, RemoveWord
  <2>3. a \in Entries /\ Len(call[p].todo) > 0
    BY <1>0, <2>1, CallFacts
  <2>4. \A e \in Entries : index'[e] = IF e = a THEN index[a] \ {call[p].id} ELSE index[e]
    BY <1>0, <2>1, <2>3
  <2>5. nodes[call[p].id] = None /\ Once(call[p].todo) /\ \A e \in Left(p) : call[p].id \in index[e]
    BY <2>1 DEF VisInv, Unfiled
  <2>6. VisibleIsIndexed'
    <3>. SUFFICES ASSUME NEW h \in Digests, statements'[h] # None, nodes'[statements'[h]] # None,
                         NEW e \in EntriesOf(nodes'[statements'[h]])
                  PROVE  statements'[h] \in index'[e]
      BY DEF VisibleIsIndexed, Stored, EntriesOf
    <3>1. statements[h] \in index[e] /\ statements[h] # call[p].id
      BY <2>2, <2>5 DEF VisInv, VisibleIsIndexed, Stored
    <3>2. e \in Entries
      BY <1>02, <1>03, <1>04, <2>2
    <3>. QED  BY <2>2, <2>4, <3>1, <3>2
  <2>7. CASE Len(call[p].todo) = 1
    <3>1. call'[p].pc = "count"
      BY <1>0, <2>1, <2>7, NextEntryIs
    <3>. QED  BY <1>00, <2>6, <3>1, Outside
  <2>8. CASE Len(call[p].todo) # 1
    <3>1. /\ call'[p].pc = "fetch" /\ call'[p].op = "remove" /\ call'[p].id = call[p].id
          /\ call'[p].todo = Tail(call[p].todo)
      BY <1>0, <2>1, <2>8, NextEntryIs DEF SameArguments, Looping
    <3>2. /\ Once(Tail(call[p].todo)) /\ a \notin Members(Tail(call[p].todo))
          /\ Left(p) = {a} \cup Members(Tail(call[p].todo))
      BY <1>0, <2>3, <2>5, TailMembers DEF Left
    <3>3. Left(p) \subseteq Entries
      BY <1>0 DEF Left, Members
    <3>4. \A e \in Members(Tail(call[p].todo)) : call[p].id \in index'[e]
      BY <2>4, <2>5, <3>2, <3>3
    <3>5. Unfiled'
      BY <1>00, <2>2, <2>5, <3>1, <3>2, <3>4 DEF Unfiled, Left
    <3>6. \A q \in Procs : call'[q].pc = "fetch" /\ call'[q].op = "remove"
      BY <1>00, <3>1
    <3>7. Filed' /\ Found' /\ Current'
      BY <3>6 DEF Filed, Found, Current, Looping
    <3>. QED  BY <2>6, <3>5, <3>7
  <2>. QED  BY <2>7, <2>8
<1>6. CASE RemoveStatement(p)
  <2>1. UNCHANGED <<nodes, index>>
    BY <1>6 DEF RemoveStatement
  <2>2. \A h \in Digests : statements'[h] = statements[h] \/ statements'[h] = None
    BY <1>0, <1>6 DEF RemoveStatement
  <2>3. VisibleIsIndexed'
    <3>. SUFFICES ASSUME NEW h \in Digests, statements'[h] # None, nodes'[statements'[h]] # None,
                         NEW e \in EntriesOf(nodes'[statements'[h]])
                  PROVE  statements'[h] \in index'[e]
      BY DEF VisibleIsIndexed, Stored, EntriesOf
    <3>. QED  BY <2>1, <2>2 DEF VisInv, VisibleIsIndexed, Stored
  <2>4. call'[p].pc \in {"idle", "touch"}
    BY <1>0, <1>6 DEF RemoveStatement, Return, Returned, Goto, CallType
  <2>. QED  BY <1>00, <2>3, <2>4, Outside
<1>7. CASE InsertNode(p)
  <2>0. call[p].pc = "nodes" /\ call[p].op = "insert" /\ Inserting(p) /\ Changing(p)
    BY <1>0, <1>7, CallFacts DEF InsertNode, Inserting, Changing
  <2>1. UNCHANGED <<index, statements>>
    BY <1>7 DEF InsertNode
  <2>2. \A i \in Ids : i # call[p].id => nodes'[i] = nodes[i]
    BY <1>0, <1>7 DEF InsertNode
  <2>3. VisibleIsIndexed'
    <3>. SUFFICES ASSUME NEW h \in Digests, statements'[h] # None, nodes'[statements'[h]] # None,
                         NEW e \in EntriesOf(nodes'[statements'[h]])
                  PROVE  statements'[h] \in index'[e]
      BY DEF VisibleIsIndexed, Stored, EntriesOf
    <3>1. statements[h] # call[p].id
      BY <1>0, <2>0 DEF Inv2, IdsUnique
    <3>2. nodes'[statements[h]] = nodes[statements[h]]
      BY <1>02, <2>1, <2>2, <3>1
    <3>. QED  BY <2>1, <3>2 DEF VisInv, VisibleIsIndexed, Stored
  <2>4. /\ call'[p].pc = "fetch" /\ call'[p].op = "insert"
        /\ call'[p].st = call[p].st /\ call'[p].ctx = call[p].ctx
        /\ call'[p].todo = InsertEntries(call[p].st, call[p].ctx)
    BY <1>0, <1>7, <2>0 DEF InsertNode, CallType
  <2>5. call[p].st \in Statements /\ call[p].ctx \in OrNone(Contexts)
    BY <1>0, <2>0 DEF CallOK, CallType
  <2>6. Members(call'[p].todo) = EntriesOf(<<call'[p].st, call'[p].ctx>>)
    BY <2>4, <2>5, SameEntries
  <2>7. Filed'
    <3>. SUFFICES ASSUME NEW e \in EntriesOf(<<call'[p].st, call'[p].ctx>>)
                  PROVE  e \in Members(call'[p].todo)
      BY <1>00, <2>4 DEF Filed, Looping, QuadOf, Left, EntriesOf
    <3>. QED  BY <2>6
  <2>8. \A q \in Procs : call'[q].pc = "fetch" /\ call'[q].op = "insert"
    BY <1>00, <2>4
  <2>9. Unfiled' /\ Found' /\ Current'
    BY <2>8 DEF Unfiled, Found, Current, Looping
  <2>. QED  BY <2>3, <2>7, <2>9
<1>8. CASE InsertEntry(p)
  <2>. DEFINE a == Head(call[p].todo)
  <2>1. /\ call[p].pc = "store" /\ call[p].op = "insert" /\ Looping(p, "insert") /\ Changing(p)
        /\ NextEntry(p, "statements")
        /\ UNCHANGED <<nodes, statements>>
    BY <1>8 DEF InsertEntry, Looping, Changing
  <2>2. a \in Entries /\ Len(call[p].todo) > 0
    BY <1>0, <2>1, CallFacts
  <2>3. call[p].bits = index[a]
    BY <2>1 DEF VisInv, Current
  <2>4. \A e \in Entries : index'[e] = IF e = a THEN index[a] \cup {call[p].id} ELSE index[e]
    BY <1>0, <1>8, <2>2, <2>3 DEF InsertEntry
  <2>5. VisibleIsIndexed'
    <3>. SUFFICES ASSUME NEW h \in Digests, statements'[h] # None, nodes'[statements'[h]] # None,
                         NEW e \in EntriesOf(nodes'[statements'[h]])
                  PROVE  statements'[h] \in index'[e]
      BY DEF VisibleIsIndexed, Stored, EntriesOf
    <3>1. statements[h] \in index[e]
      BY <2>1 DEF VisInv, VisibleIsIndexed, Stored
    <3>2. e \in Entries
      BY <1>02, <1>03, <1>04, <2>1
    <3>. QED  BY <2>1, <2>4, <3>1, <3>2
  <2>6. /\ call'[p].pc = IF Len(call[p].todo) = 1 THEN "statements" ELSE "fetch"
        /\ call'[p].todo = Tail(call[p].todo) /\ call'[p].id = call[p].id
        /\ call'[p].op = "insert" /\ call'[p].st = call[p].st /\ call'[p].ctx = call[p].ctx
    BY <1>0, <2>1, NextEntryIs DEF SameArguments
  <2>7. ASSUME NEW e \in EntriesOf(<<call[p].st, call[p].ctx>>)
        PROVE  /\ call[p].id \in index'[e] \/ e \in Members(Tail(call[p].todo))
               /\ Len(call[p].todo) = 1 => call[p].id \in index'[e]
    <3>1. call[p].id \in index[e] \/ e \in Left(p)
      BY <2>1 DEF VisInv, Filed, QuadOf
    <3>2. e \in Entries
      BY <1>04, <1>05, <2>1 DEF QuadOf
    <3>3. /\ Left(p) = {a} \cup Members(Tail(call[p].todo))
          /\ Len(call[p].todo) = 1 => Left(p) = {a}
      BY <1>0, <2>2, TailMembers DEF Left
    <3>. QED  BY <2>4, <3>1, <3>2, <3>3
  <2>8. Filed'
    <3>1. ASSUME NEW e \in EntriesOf(<<call'[p].st, call'[p].ctx>>)
          PROVE  /\ call'[p].pc = "fetch" => call'[p].id \in index'[e] \/ e \in Members(call'[p].todo)
                 /\ call'[p].pc = "statements" => call'[p].id \in index'[e]
      <4>1. e \in EntriesOf(<<call[p].st, call[p].ctx>>)
        BY <2>6
      <4>. QED  BY <2>6, <2>7, <4>1
    <3>. QED  BY <1>00, <2>6, <3>1 DEF Filed, Looping, QuadOf, Left, EntriesOf
  <2>9. \A q \in Procs : call'[q].pc \in {"fetch", "statements"} /\ call'[q].op = "insert"
    BY <1>00, <2>6
  <2>10. Unfiled' /\ Found' /\ Current'
    BY <2>9 DEF Unfiled, Found, Current, Looping
  <2>. QED  BY <2>5, <2>8, <2>10
<1>9. CASE InsertStatement(p)
  <2>1. /\ call[p].pc = "statements" /\ Inserting(p) /\ Changing(p)
        /\ UNCHANGED <<nodes, index>>
    BY <1>0, <1>9, CallFacts DEF InsertStatement, Inserting, Changing
  <2>2. \A h \in Digests : statements'[h] = IF h = call[p].hc THEN call[p].id ELSE statements[h]
    BY <1>0, <1>9 DEF InsertStatement
  <2>3. VisibleIsIndexed'
    <3>. SUFFICES ASSUME NEW h \in Digests, statements'[h] # None, nodes'[statements'[h]] # None,
                         NEW e \in EntriesOf(nodes'[statements'[h]])
                  PROVE  statements'[h] \in index'[e]
      BY DEF VisibleIsIndexed, Stored, EntriesOf
    <3>1. CASE h = call[p].hc
      <4>1. statements'[h] = call[p].id
        BY <2>2, <3>1
      <4>2. nodes[call[p].id] = QuadOf(p)
        BY <1>0, <2>1, <4>1, OwnQuad DEF Inv4, NodesRight
      <4>3. e \in EntriesOf(QuadOf(p))
        BY <2>1, <4>1, <4>2
      <4>. QED  BY <2>1, <4>1, <4>3 DEF VisInv, Filed
    <3>2. CASE h # call[p].hc
      BY <2>1, <2>2, <3>2 DEF VisInv, VisibleIsIndexed, Stored
    <3>. QED  BY <3>1, <3>2
  <2>4. call'[p].pc = "touch"
    BY <1>0, <1>9 DEF InsertStatement, Goto, CallType
  <2>. QED  BY <1>00, <2>3, <2>4, Outside
<1>. QED  BY <1>1, <1>2, <1>3, <1>4, <1>5, <1>6, <1>7, <1>8, <1>9

(* Every step does.                                                        *)
LEMMA VisNext ==
  ASSUME Single
  PROVE  VisInv /\ [Next]_vars => VisInv'
<1>. SUFFICES ASSUME VisInv, [Next]_vars PROVE VisInv'
  OBVIOUS
<1>1. Inv4'
  BY Inv4Next DEF VisInv, Single
<1>2. CASE UNCHANGED vars
  <2>1. UNCHANGED <<nodes, index, statements, call>>
    BY <1>2 DEF vars, tables
  <2>2. VisibleIsIndexed'
    BY <2>1, VisibleKept
  <2>3. Filed'
    BY <2>1 DEF VisInv, Filed, Looping, QuadOf, Left, EntriesOf
  <2>4. Unfiled' /\ Found' /\ Current'
    BY <2>1 DEF VisInv, Unfiled, Found, Current, Looping, Left
  <2>. QED  BY <1>1, <2>2, <2>3, <2>4 DEF VisInv
<1>3. ASSUME NEW p \in Procs, Step(p) PROVE VisInv'
  BY <1>1, <1>3, VisStep DEF VisInv
<1>. QED  BY <1>2, <1>3 DEF Next, Step, Quiet

(* The empty store satisfies it.                                           *)
LEMMA VisInit == Init => VisInv
<1>. SUFFICES ASSUME Init PROVE VisInv
  OBVIOUS
<1>1. Inv4
  BY Inv4Init
<1>2. \A p \in Procs : call[p].pc = "idle"
  BY DEF Init, Returned
<1>3. Filed /\ Unfiled /\ Found /\ Current
  BY <1>2 DEF Filed, Unfiled, Found, Current, Looping
<1>4. VisibleIsIndexed
  BY DEF Init, VisibleIsIndexed
<1>. QED  BY <1>1, <1>3, <1>4 DEF VisInv

(* One handle: a statement found by its hash code, and whose removal has   *)
(* not begun, is found through every posting it belongs to, whichever      *)
(* insertions and removals failed before.                                  *)
THEOREM VisibleAreIndexed ==
  ASSUME Single
  PROVE  Spec => []VisibleIsIndexed
<1>1. VisInv => VisibleIsIndexed
  BY DEF VisInv
<1>2. VisInv /\ [Next]_vars => VisInv'
  BY VisNext
<1>. QED  BY <1>1, <1>2, VisInit, PTL DEF Spec

-----------------------------------------------------------------------------
(* One handle whose requests do not fail, and well formed literals: the    *)
(* tables never disagree by more than the call under way explains.         *)

Calm ==
  /\ Single
  /\ Procs # {}
  /\ MaxFaults = 0
  /\ \A s \in Statements : s.wellFormed

(* A removal that has taken the node away and not yet the hash code.       *)
Gone(p) == call[p].op = "remove" /\ call[p].pc \in {"fetch", "store", "count", "forget"}

(* An insertion that has written the node and not yet the hash code.       *)
Naming(p) == Looping(p, "insert") \/ call[p].pc = "statements"

(* A number counted without its node, a node without its number.           *)
Between(p) == call[p].pc \in {"nodes", "dec"} \/ Clearing(p)

(* A posting holds ids that are stored, but for the one being removed.     *)
NoDead(p) ==
  \A e \in Entries : \A i \in index[e] :
    Stored(i) \/ (Looping(p, "remove") /\ call[p].id = i /\ e \in Left(p))

(* Each stored id has a hash code, but for the one being inserted; each    *)
(* hash code a stored id, but for the one being removed.                   *)
LiveNamed(p) ==
  \A i \in Ids : Stored(i) =>
    (\E h \in Digests : statements[h] = i) \/ (Naming(p) /\ call[p].id = i)

NamedLive(p) ==
  \A h \in Digests : statements[h] # None =>
    Stored(statements[h]) \/ (Gone(p) /\ call[p].hc = h)

(* What the call knows of its own id and hash code.                        *)
Written(p) == Naming(p) => nodes[call[p].id] # None

Cleared(p) ==
  Gone(p) => statements[call[p].hc] = call[p].id /\ nodes[call[p].id] = None

NotYet(p) ==
  call[p].op = "insert" /\ call[p].pc \notin {"exists", "touch"}
    => statements[call[p].hc] = None

Pending(p) == IF Between(p) THEN 1 ELSE 0

SizeSum(p) == counter = counter_removed + Cardinality(Live) + Pending(p)

ExactAt(p) ==
  /\ NoDead(p) /\ LiveNamed(p) /\ NamedLive(p)
  /\ Written(p) /\ Cleared(p) /\ NotYet(p) /\ SizeSum(p)

ExactInv == VisInv /\ CountInv /\ \A p \in Procs : ExactAt(p)

(* With no request failing, the calls that read, and the ends and the      *)
(* beginnings of calls, leave the tables alone.                            *)
LEMMA QuietStep ==
  ASSUME Inv1, MaxFaults = 0, NEW p \in Procs, Quiet(p)
  PROVE  /\ UNCHANGED tables
         /\ call[p].pc \in {"idle", "size_removed", "size_counter", "touch"}
         /\ call'[p].pc \in {"idle", "exists", "find", "size_removed", "size_counter"}
<1>0. call \in [Procs -> CallType] /\ call[p] \in CallType
  BY DEF Inv1, TypeOK
<1>1. ~Fail(p)
  BY DEF Inv1, TypeOK, Fail
<1>2. UNCHANGED tables
  BY <1>1 DEF Quiet, Call, InsertCall, RemoveCall, Begin, Contains, SizeCall,
       SetContext, ResetContext, SizeRemoved, SizeCounter, Touch
<1>3. call[p].pc \in {"idle", "size_removed", "size_counter", "touch"}
  BY <1>1 DEF Quiet, Call, InsertCall, RemoveCall, Begin, Contains, SizeCall,
       SetContext, ResetContext, SizeRemoved, SizeCounter, Touch, Idle
<1>. DEFINE Ends == {"idle", "exists", "find", "size_removed", "size_counter"}
<1>4. ASSUME NEW r, call' = [call EXCEPT ![p] = r], r.pc \in Ends
      PROVE  call'[p].pc \in Ends
  BY <1>0, <1>4
<1>5. ASSUME NEW ret, NEW out, call' = [call EXCEPT ![p] = Returned(ret, out)]
      PROVE  call'[p].pc \in Ends
  BY <1>0, <1>5 DEF Returned
<1>6. ASSUME NEW op, NEW o, NEW g, NEW pc, Begin(p, op, o, g, pc), pc \in {"exists", "find"}
      PROVE  call'[p].pc \in Ends
  <2>. DEFINE c == ContextOf(p, o, g)
              r == [Returned(0, 0) EXCEPT !.pc = pc, !.op = op, !.st = o.st,
                      !.ctx = c, !.hc = HashCode(p, o, c)]
  <2>1. call' = [call EXCEPT ![p] = r]
    BY <1>6 DEF Begin
  <2>2. r.pc = pc
    BY DEF Returned
  <2>. HIDE DEF r
  <2>. QED  BY <1>4, <1>6, <2>1, <2>2
<1>7. ASSUME NEW op, SizeCall(p, op)
      PROVE  call'[p].pc \in Ends
  <2>. DEFINE r == [Returned(0, 0) EXCEPT !.pc = "size_removed", !.op = op]
  <2>1. call' = [call EXCEPT ![p] = r]
    BY <1>7 DEF SizeCall
  <2>2. r.pc = "size_removed"
    BY DEF Returned
  <2>. HIDE DEF r
  <2>. QED  BY <1>4, <2>1, <2>2
<1>8. CASE SizeRemoved(p)
  BY <1>0, <1>8 DEF SizeRemoved, CallType
<1>9. CASE SizeCounter(p)
  <2>1. CASE call[p].op = "size"
    BY <1>5, <1>9, <2>1 DEF SizeCounter
  <2>2. CASE call[p].op # "size"
    BY <1>5, <1>9, <2>2 DEF SizeCounter
  <2>. QED  BY <2>1, <2>2
<1>10. CASE Touch(p)
  BY <1>5, <1>10 DEF Touch, Return
<1>11. ASSUME NEW o, NEW g, Contains(p, o, g) PROVE call'[p].pc \in Ends
  BY <1>5, <1>11 DEF Contains
<1>12. ASSUME NEW c, SetContext(p, c) PROVE call'[p].pc \in Ends
  BY <1>5, <1>12 DEF SetContext
<1>13. CASE ResetContext(p)
  BY <1>2, <1>3, <1>5, <1>13 DEF ResetContext
<1>14. call'[p].pc \in Ends
  <2>1. CASE Call(p)
    BY <1>6, <1>7, <1>11, <1>12, <1>13, <2>1 DEF Call, InsertCall, RemoveCall
  <2>. QED  BY <1>1, <1>8, <1>9, <1>10, <2>1 DEF Quiet
<1>. QED  BY <1>2, <1>3, <1>14

(* A request that leaves nodes, postings and names alone.                  *)
LEMMA ExactKept ==
  ASSUME NEW p \in Procs, ExactAt(p), UNCHANGED <<nodes, index, statements>>,
         call[p].pc \notin {"fetch", "store", "statements"},
         call'[p].pc \notin {"fetch", "store", "statements"},
         Gone(p) <=> Gone(p)',
         Gone(p) => call'[p].hc = call[p].hc /\ call'[p].id = call[p].id,
         call'[p].op = "insert" /\ call'[p].pc \notin {"exists", "touch"}
           => statements'[call'[p].hc] = None,
         counter' = counter_removed' + Cardinality(Live) + IF Between(p)' THEN 1 ELSE 0
  PROVE  ExactAt(p)'
<1>1. ~Looping(p, "insert") /\ ~Looping(p, "remove") /\ ~Naming(p) /\ ~Naming(p)'
  BY DEF Looping, Naming
<1>2. NoDead(p)'
  BY <1>1 DEF ExactAt, NoDead, Stored
<1>3. LiveNamed(p)'
  BY <1>1 DEF ExactAt, LiveNamed, Stored
<1>4. NamedLive(p)'
  BY DEF ExactAt, NamedLive, Stored
<1>5. Written(p)' /\ Cleared(p)' /\ NotYet(p)'
  BY <1>1 DEF ExactAt, Written, Cleared, NotYet
<1>6. SizeSum(p)'
  <2>1. Live' = Live
    BY DEF Live, Stored
  <2>. QED  BY <2>1 DEF SizeSum, Pending
<1>. QED  BY <1>2, <1>3, <1>4, <1>5, <1>6 DEF ExactAt

(* A request that changes no node, number or name but one posting, by the  *)
(* id of the call.                                                         *)
LEMMA FiledKept ==
  ASSUME NEW p \in Procs, ExactAt(p), UNCHANGED <<counter, counter_removed, nodes, statements>>,
         NoDead(p)', SameArguments(p), call'[p].id = call[p].id,
         Naming(p) <=> Naming(p)', Gone(p) <=> Gone(p)', Between(p) <=> Between(p)',
         call[p].pc \notin {"exists", "touch"}
  PROVE  ExactAt(p)'
<1>1. LiveNamed(p)' /\ NamedLive(p)'
  BY DEF ExactAt, LiveNamed, NamedLive, Stored, SameArguments
<1>2. Written(p)' /\ Cleared(p)' /\ NotYet(p)'
  BY DEF ExactAt, Written, Cleared, NotYet, SameArguments
<1>3. SizeSum(p)'
  <2>1. Live' = Live
    BY DEF Live, Stored
  <2>. QED  BY <2>1 DEF ExactAt, SizeSum, Pending
<1>. QED  BY <1>1, <1>2, <1>3 DEF ExactAt

(* The ids stored are finitely many, as the ids.                           *)
LEMMA LiveFinite ==
  /\ IsFiniteSet(Live) /\ Cardinality(Live) \in Nat
  /\ \A i : /\ i \notin Live => Cardinality(Live \cup {i}) = Cardinality(Live) + 1
            /\ i \in Live => Cardinality(Live \ {i}) = Cardinality(Live) - 1
<1>1. IsFiniteSet(Ids)
  BY FS_Interval, ConstantTypes DEF Ids
<1>2. IsFiniteSet(Live)
  <2>1. Live \subseteq Ids
    BY DEF Live
  <2>. QED  BY <1>1, <2>1, FS_Subset
<1>. QED  BY <1>2, FS_CardinalityType, FS_AddElement, FS_RemoveElement

(* One request of the one handle keeps the tables in agreement.            *)
LEMMA ExactStep ==
  ASSUME Calm, ExactInv, NEW p \in Procs, Step(p)
  PROVE  ExactAt(p)'
<1>0. /\ Inv1 /\ Inv2 /\ Inv4 /\ VisInv /\ CountInv /\ ExactAt(p) /\ MaxFaults = 0
      /\ call \in [Procs -> CallType] /\ call[p] \in CallType /\ CallOK(call[p])
      /\ nodes \in [Ids -> OrNone(Quads)]
      /\ index \in [Entries -> SUBSET Ids]
      /\ statements \in [Digests -> OrNone(Ids)]
      /\ asserted \in [Ids -> OrNone(Quads)]
      /\ counter \in Nat /\ counter_removed \in Nat /\ faults \in 0 .. MaxFaults
      /\ call[p].id \in Ids /\ call[p].todo \in Seq(Entries)
  BY CallFacts DEF Calm, ExactInv, VisInv, Inv4, Inv3, Inv2, Inv1, TypeOK, CallType
<1>00. Single /\ OwnDigests
  BY DEF Calm, Single
<1>01. \A i \in Ids : i # None
  BY NoneIsNothing
<1>02. Cardinality(Live) \in Nat
  BY LiveFinite
<1>03. counter = counter_removed + Cardinality(Live) + IF Between(p) THEN 1 ELSE 0
  BY <1>0 DEF ExactAt, SizeSum, Pending
<1>04. Changing(p) => QuadOf(p) \in Quads /\ call[p].hc \in Digests
  BY <1>0 DEF Changing, CallOK, CallType, Quads, QuadOf
<1>1. CASE Quiet(p)
  <2>1. /\ UNCHANGED tables
        /\ call[p].pc \in {"idle", "size_removed", "size_counter", "touch"}
        /\ call'[p].pc \in {"idle", "exists", "find", "size_removed", "size_counter"}
    BY <1>0, <1>1, QuietStep
  <2>2. call'[p].op = "insert" => call'[p].pc \in {"exists", "touch"}
    <3>1. CallOK(call'[p])
      BY <1>0, Inv1Next DEF Inv1, Step, Next, Quiet
    <3>. QED  BY <2>1, <3>1 DEF CallOK, InsertPCs
  <2>3. ~Between(p) /\ ~Between(p)' /\ ~Gone(p) /\ ~Gone(p)'
    BY <2>1 DEF Between, Clearing, Gone
  <2>. QED  BY <1>0, <1>03, <2>1, <2>2, <2>3, ExactKept DEF tables
<1>2. CASE InsertExists(p)
  <2>1. call[p].pc = "exists" /\ UNCHANGED tables
    BY <1>2 DEF InsertExists
  <2>2. CASE statements[call[p].hc] # None
    <3>1. call'[p].pc = "idle" /\ call'[p].op = "none"
      BY <1>0, <1>2, <2>2 DEF InsertExists, Return, Returned
    <3>2. ~Between(p) /\ ~Between(p)' /\ ~Gone(p) /\ ~Gone(p)'
      BY <2>1, <3>1 DEF Between, Clearing, Gone
    <3>. QED  BY <1>0, <1>03, <2>1, <3>1, <3>2, ExactKept DEF tables
  <2>3. CASE statements[call[p].hc] = None
    <3>1. call'[p].pc = "inc" /\ call'[p].hc = call[p].hc
      BY <1>0, <1>2, <2>3 DEF InsertExists, Goto, CallType
    <3>2. ~Between(p) /\ ~Between(p)' /\ ~Gone(p) /\ ~Gone(p)'
      BY <2>1, <3>1 DEF Between, Clearing, Gone
    <3>. QED  BY <1>0, <1>03, <2>1, <2>3, <3>1, <3>2, ExactKept DEF tables
  <2>. QED  BY <2>2, <2>3
<1>3. CASE InsertExistsError(p)
  BY <1>0, <1>3 DEF InsertExistsError
<1>4. CASE InsertIncrement(p)
  <2>1. /\ call[p].pc = "inc" /\ counter' = counter + 1
        /\ UNCHANGED <<counter_removed, nodes, index, statements>>
        /\ call[p].op = "insert" /\ call[p].st \in Statements
    BY <1>0, <1>4, CallFacts DEF InsertIncrement
  <2>2. /\ call'[p].pc \in {"dec", "nodes"} /\ call'[p].op = "insert"
        /\ call'[p].hc = call[p].hc
    <3>1. CASE Exhausted(counter')
      BY <1>0, <1>4, <2>1, <3>1 DEF InsertIncrement, Goto, CallType
    <3>2. CASE ~Exhausted(counter')
      <4>1. call[p].st.wellFormed
        BY <2>1 DEF Calm
      <4>. QED  BY <1>0, <1>4, <2>1, <3>2, <4>1 DEF InsertIncrement, CallType
    <3>. QED  BY <3>1, <3>2
  <2>3. ~Between(p) /\ Between(p)' /\ ~Gone(p) /\ ~Gone(p)'
    BY <2>1, <2>2 DEF Between, Clearing, Gone
  <2>4. statements[call[p].hc] = None
    BY <1>0, <2>1 DEF ExactAt, NotYet
  <2>5. counter' = counter_removed' + Cardinality(Live) + IF Between(p)' THEN 1 ELSE 0
    BY <1>0, <1>02, <1>03, <2>1, <2>3
  <2>. QED  BY <1>0, <2>1, <2>2, <2>3, <2>4, <2>5, ExactKept
<1>5. CASE InsertDecrement(p)
  <2>1. /\ call[p].pc = "dec" /\ counter' = counter - 1
        /\ UNCHANGED <<counter_removed, nodes, index, statements>>
        /\ call[p].op = "insert"
    BY <1>0, <1>5, CallFacts DEF InsertDecrement, HandBack
  <2>2. call'[p].pc = "idle" /\ call'[p].op = "none"
    BY <1>0, <1>5 DEF InsertDecrement, Return, Returned
  <2>3. Between(p) /\ ~Between(p)' /\ ~Gone(p) /\ ~Gone(p)'
    BY <2>1, <2>2 DEF Between, Clearing, Gone
  <2>4. counter' = counter_removed' + Cardinality(Live) + IF Between(p)' THEN 1 ELSE 0
    BY <1>0, <1>02, <1>03, <2>1, <2>3
  <2>. QED  BY <1>0, <2>1, <2>2, <2>3, <2>4, ExactKept
<1>6. CASE InsertNode(p)
  <2>. DEFINE i == call[p].id
  <2>1. /\ call[p].pc = "nodes" /\ call[p].op = "insert"
        /\ UNCHANGED <<counter, counter_removed, index, statements>>
        /\ nodes' = [nodes EXCEPT ![i] = QuadOf(p)]
        /\ QuadOf(p) \in Quads /\ QuadOf(p) # None
    BY <1>0, <1>04, <1>6, CallFacts, NoneIsNothing DEF InsertNode, QuadOf, Changing
  <2>2. /\ call'[p].pc = "fetch" /\ SameArguments(p) /\ call'[p].id = i
    BY <1>0, <1>6 DEF InsertNode, CallType, SameArguments
  <2>3. nodes[i] = None
    BY <1>0, <2>1 DEF CountInv, Unwritten
  <2>4. /\ nodes'[i] # None /\ i \in Ids
        /\ \A j \in Ids : j # i => nodes'[j] = nodes[j]
        /\ \A j \in Ids : nodes[j] # None => nodes'[j] # None
    BY <1>0, <2>1
  <2>5. NoDead(p)'
    <3>. SUFFICES ASSUME NEW e \in Entries, NEW j \in index'[e] PROVE nodes'[j] # None
      BY DEF NoDead, Stored
    <3>1. ~Looping(p, "remove") /\ j \in index[e] /\ j \in Ids
      BY <1>0, <2>1 DEF Looping
    <3>2. nodes[j] # None
      BY <1>0, <3>1 DEF ExactAt, NoDead, Stored
    <3>. QED  BY <2>4, <3>1, <3>2
  <2>6. LiveNamed(p)'
    <3>1. Naming(p)'
      BY <2>1, <2>2 DEF Naming, Looping, SameArguments
    <3>2. ~Naming(p)
      BY <2>1 DEF Naming, Looping
    <3>. QED  BY <1>0, <2>1, <2>2, <2>4, <3>1, <3>2 DEF ExactAt, LiveNamed, Stored
  <2>7. NamedLive(p)'
    <3>. SUFFICES ASSUME NEW h \in Digests, statements[h] # None PROVE nodes'[statements[h]] # None
      BY <2>1 DEF NamedLive, Stored
    <3>1. ~Gone(p) /\ statements[h] \in Ids
      BY <1>0, <2>1 DEF Gone, OrNone
    <3>. QED  BY <1>0, <2>4, <3>1 DEF ExactAt, NamedLive, Stored
  <2>8. Written(p)'
    BY <2>2, <2>4 DEF Written
  <2>9. Cleared(p)' /\ NotYet(p)'
    BY <1>0, <2>1, <2>2 DEF ExactAt, Cleared, NotYet, Gone, SameArguments
  <2>10. SizeSum(p)'
    <3>1. Live' = Live \cup {i} /\ i \notin Live
      BY <2>3, <2>4 DEF Live, Stored
    <3>2. Cardinality(Live') = Cardinality(Live) + 1
      BY <3>1, LiveFinite
    <3>3. Between(p) /\ ~Between(p)'
      BY <2>1, <2>2 DEF Between, Clearing, SameArguments
    <3>. QED  BY <1>0, <1>02, <1>03, <2>1, <3>2, <3>3 DEF SizeSum, Pending
  <2>. QED  BY <2>5, <2>6, <2>7, <2>8, <2>9, <2>10 DEF ExactAt
<1>7. CASE FetchEntry(p)
  <2>1. /\ call[p].pc = "fetch" /\ call'[p].pc = "store" /\ SameArguments(p)
        /\ call'[p].id = call[p].id /\ call'[p].todo = call[p].todo
        /\ UNCHANGED <<counter, counter_removed, nodes, statements, index>>
    BY <1>0, <1>7 DEF FetchEntry, CallType, SameArguments, tables
  <2>2. NoDead(p)'
    BY <1>0, <2>1 DEF ExactAt, NoDead, Looping, Left, Stored, SameArguments
  <2>3. /\ Naming(p) <=> Naming(p)'
        /\ Gone(p) <=> Gone(p)'
        /\ Between(p) <=> Between(p)'
    BY <2>1 DEF Naming, Looping, Gone, Between, Clearing, SameArguments
  <2>. QED  BY <1>0, <2>1, <2>2, <2>3, FiledKept
<1>8. CASE InsertEntry(p)
  <2>. DEFINE a == Head(call[p].todo)
  <2>1. /\ call[p].pc = "store" /\ call[p].op = "insert" /\ NextEntry(p, "statements")
        /\ UNCHANGED <<counter, counter_removed, nodes, statements>>
    BY <1>8 DEF InsertEntry
  <2>2. /\ call'[p].pc \in {"fetch", "statements"} /\ SameArguments(p)
        /\ call'[p].id = call[p].id
    BY <1>0, <2>1, NextEntryIs
  <2>3. a \in Entries
    BY <1>0, <2>1, CallFacts
  <2>4. call[p].bits = index[a]
    BY <1>0, <2>1 DEF VisInv, Current
  <2>5. \A e \in Entries : index'[e] = IF e = a THEN index[a] \cup {call[p].id} ELSE index[e]
    BY <1>0, <1>8, <2>3, <2>4 DEF InsertEntry
  <2>6. NoDead(p)'
    <3>. SUFFICES ASSUME NEW e \in Entries, NEW j \in index'[e] PROVE nodes[j] # None
      BY <2>1 DEF NoDead, Stored
    <3>1. j \in index[e] \/ j = call[p].id
      BY <2>5
    <3>2. Naming(p) /\ ~Looping(p, "remove")
      BY <2>1 DEF Naming, Looping
    <3>. QED  BY <1>0, <3>1, <3>2 DEF ExactAt, Written, NoDead, Stored
  <2>7. /\ Naming(p) <=> Naming(p)'
        /\ Gone(p) <=> Gone(p)'
        /\ Between(p) <=> Between(p)'
    BY <2>1, <2>2 DEF Naming, Looping, Gone, Between, Clearing, SameArguments
  <2>. QED  BY <1>0, <2>1, <2>2, <2>6, <2>7, FiledKept
<1>9. CASE InsertStatement(p)
  <2>1. /\ call[p].pc = "statements" /\ call[p].op = "insert" /\ Changing(p)
        /\ UNCHANGED <<counter, counter_removed, nodes, index>>
    BY <1>0, <1>9, CallFacts DEF InsertStatement, Changing
  <2>2. /\ call'[p].pc = "touch" /\ call'[p].op = "insert"
    BY <1>0, <1>9, <2>1 DEF InsertStatement, Goto, CallType
  <2>3. /\ call[p].hc \in Digests /\ statements[call[p].hc] = None
        /\ nodes[call[p].id] # None
    BY <1>0, <1>04, <2>1 DEF ExactAt, NotYet, Written, Naming
  <2>4. /\ \A h \in Digests : statements'[h] = IF h = call[p].hc THEN call[p].id ELSE statements[h]
    BY <1>0, <1>9 DEF InsertStatement
  <2>5. ~Looping(p, "remove") /\ ~Gone(p) /\ ~Gone(p)' /\ ~Naming(p)' /\ ~Between(p) /\ ~Between(p)'
    BY <2>1, <2>2 DEF Looping, Gone, Naming, Between, Clearing
  <2>6. NoDead(p)'
    BY <1>0, <2>1, <2>5 DEF ExactAt, NoDead, Stored
  <2>7. LiveNamed(p)'
    <3>. SUFFICES ASSUME NEW i \in Ids, nodes[i] # None
                  PROVE  \E h \in Digests : statements'[h] = i
      BY <2>1 DEF LiveNamed, Stored
    <3>1. CASE i = call[p].id
      BY <2>3, <2>4, <3>1
    <3>2. CASE i # call[p].id
      <4>1. PICK h \in Digests : statements[h] = i
        BY <1>0, <3>2 DEF ExactAt, LiveNamed, Stored
      <4>2. h # call[p].hc
        BY <1>01, <2>3, <4>1
      <4>. QED  BY <2>4, <4>1, <4>2
    <3>. QED  BY <3>1, <3>2
  <2>8. NamedLive(p)'
    <3>. SUFFICES ASSUME NEW h \in Digests, statements'[h] # None
                  PROVE  nodes[statements'[h]] # None
      BY <2>1 DEF NamedLive, Stored
    <3>. QED  BY <1>0, <2>3, <2>4, <2>5 DEF ExactAt, NamedLive, Stored
  <2>9. Written(p)' /\ Cleared(p)' /\ NotYet(p)'
    BY <2>2, <2>5 DEF Written, Cleared, NotYet
  <2>10. SizeSum(p)'
    <3>1. Live' = Live
      BY <2>1 DEF Live, Stored
    <3>. QED  BY <1>03, <2>1, <2>5, <3>1 DEF SizeSum, Pending
  <2>. QED  BY <2>6, <2>7, <2>8, <2>9, <2>10 DEF ExactAt
<1>10. CASE RemoveFind(p)
  <2>1. /\ call[p].pc = "find" /\ UNCHANGED tables
    BY <1>10 DEF RemoveFind
  <2>2. call'[p].pc \in {"idle", "unnode"} /\ call'[p].op # "insert"
    <3>1. CASE statements[call[p].hc] = None
      BY <1>0, <1>10, <3>1 DEF RemoveFind, Return, Returned
    <3>2. CASE statements[call[p].hc] # None
      BY <1>0, <1>10, <3>2, CallFacts DEF RemoveFind, CallType
    <3>. QED  BY <3>1, <3>2
  <2>3. ~Between(p) /\ ~Between(p)' /\ ~Gone(p) /\ ~Gone(p)'
    BY <2>1, <2>2 DEF Between, Clearing, Gone
  <2>. QED  BY <1>0, <1>03, <2>1, <2>2, <2>3, ExactKept DEF tables
<1>11. CASE RemoveNode(p)
  <2>. DEFINE i == call[p].id
  <2>1. /\ call[p].pc = "unnode" /\ call[p].op = "remove" /\ Changing(p)
        /\ UNCHANGED <<counter, counter_removed, index, statements, asserted>>
    BY <1>0, <1>11, CallFacts DEF RemoveNode, Changing
  <2>2. statements[call[p].hc] = i /\ i \in Ids /\ call[p].hc \in Digests
    BY <1>0, <1>04, <2>1 DEF VisInv, Found
  <2>3. nodes[i] # None
    <3>1. ~Gone(p)
      BY <2>1 DEF Gone
    <3>. QED  BY <1>0, <1>01, <2>2, <3>1 DEF ExactAt, NamedLive, Stored
  <2>4. asserted[i] = QuadOf(p) /\ nodes[i] = asserted[i]
    <3>1. asserted[i] = QuadOf(p)
      BY <1>0, <1>00, <2>1, <2>2, NamedIsQuad
    <3>. QED  BY <1>0, <2>2, <2>3, <3>1 DEF Inv4, NodesRight
  <2>5. /\ nodes' = [nodes EXCEPT ![i] = None]
        /\ call'[p].pc = "fetch" /\ SameArguments(p) /\ call'[p].id = i
        /\ call'[p].todo = RemoveEntries(call[p].st, call[p].ctx)
    BY <1>0, <1>11, <2>3 DEF RemoveNode, CallType, SameArguments
  <2>6. \A j \in Ids : nodes'[j] = IF j = i THEN None ELSE nodes[j]
    BY <1>0, <2>5
  <2>7. Looping(p, "remove")' /\ Gone(p)' /\ Between(p)' /\ ~Naming(p)'
    BY <2>1, <2>5 DEF Looping, Gone, Between, Clearing, Naming, SameArguments
  <2>8. Left(p)' = EntriesOf(QuadOf(p))
    <3>1. call[p].st \in Statements /\ call[p].ctx \in OrNone(Contexts)
      BY <1>0, <2>1 DEF CallOK, CallType
    <3>. QED  BY <2>5, <3>1, SameEntries DEF Left, QuadOf
  <2>9. NoDead(p)'
    <3>. SUFFICES ASSUME NEW e \in Entries, NEW j \in index[e]
                  PROVE  nodes'[j] # None \/ (j = i /\ e \in EntriesOf(QuadOf(p)))
      BY <2>1, <2>5, <2>7, <2>8 DEF NoDead, Stored
    <3>1. j \in Ids /\ ~Looping(p, "remove")
      BY <1>0, <2>1 DEF Looping
    <3>2. nodes[j] # None
      BY <1>0, <3>1 DEF ExactAt, NoDead, Stored
    <3>3. e \in EntriesOf(asserted[j])
      BY <1>0 DEF Inv4, Inv3, IndexSound
    <3>. QED  BY <2>4, <2>6, <3>1, <3>2, <3>3
  <2>10. LiveNamed(p)'
    <3>1. ~Naming(p)
      BY <2>1 DEF Naming, Looping
    <3>. QED  BY <1>0, <2>1, <2>6, <3>1 DEF ExactAt, LiveNamed, Stored
  <2>11. NamedLive(p)'
    <3>. SUFFICES ASSUME NEW h \in Digests, statements[h] # None
                  PROVE  nodes'[statements[h]] # None \/ call[p].hc = h
      BY <2>1, <2>5, <2>7 DEF NamedLive, Stored, SameArguments
    <3>1. ~Gone(p) /\ statements[h] \in Ids
      BY <1>0, <2>1 DEF Gone, OrNone
    <3>2. nodes[statements[h]] # None
      BY <1>0, <3>1 DEF ExactAt, NamedLive, Stored
    <3>3. CASE statements[h] = i
      <4>1. DigestOf(asserted[i]) = h /\ DigestOf(asserted[i]) = call[p].hc
        BY <1>0, <1>01, <2>2, <3>3 DEF Inv4, StatementsSound
      <4>. QED  BY <4>1
    <3>. QED  BY <2>6, <3>1, <3>2, <3>3
  <2>12. Written(p)' /\ Cleared(p)' /\ NotYet(p)'
    BY <2>1, <2>2, <2>5, <2>6, <2>7 DEF Written, Cleared, NotYet, SameArguments
  <2>13. SizeSum(p)'
    <3>1. Live' = Live \ {i} /\ i \in Live
      BY <2>2, <2>3, <2>6 DEF Live, Stored
    <3>2. Cardinality(Live') = Cardinality(Live) - 1
      BY <3>1, LiveFinite
    <3>3. ~Between(p)
      BY <2>1 DEF Between, Clearing
    <3>. QED  BY <1>0, <1>02, <1>03, <2>1, <2>7, <3>2, <3>3 DEF SizeSum, Pending
  <2>. QED  BY <2>9, <2>10, <2>11, <2>12, <2>13 DEF ExactAt
<1>12. CASE RemoveEntry(p) \/ RemoveWord(p)
  <2>. DEFINE a == Head(call[p].todo)
  <2>1. /\ index' = [index EXCEPT ![a] = @ \ {call[p].id}]
        /\ NextEntry(p, "count") /\ Looping(p, "remove") /\ call[p].pc = "store"
    BY <1>0, <1>12, RemovedIsOwn
  <2>2. UNCHANGED <<counter, counter_removed, nodes, statements>>
    BY <1>12 DEF RemoveEntry, RemoveWord
  <2>3. /\ call'[p].pc = IF Len(call[p].todo) = 1 THEN "count" ELSE "fetch"
        /\ call'[p].todo = Tail(call[p].todo) /\ SameArguments(p)
        /\ call'[p].id = call[p].id
    BY <1>0, <2>1, NextEntryIs
  <2>4. a \in Entries /\ Len(call[p].todo) > 0
    BY <1>0, <2>1, CallFacts
  <2>5. /\ Left(p) = {a} \cup Members(Tail(call[p].todo))
        /\ Len(call[p].todo) = 1 => Left(p) = {a}
    BY <1>0, <2>4, TailMembers DEF Left
  <2>6. \A e \in Entries : index'[e] = IF e = a THEN index[a] \ {call[p].id} ELSE index[e]
    BY <1>0, <2>1, <2>4
  <2>7. NoDead(p)'
    <3>. SUFFICES ASSUME NEW e \in Entries, NEW j \in index'[e], nodes[j] = None
                  PROVE  /\ call[p].id = j /\ Len(call[p].todo) # 1
                         /\ e \in Members(Tail(call[p].todo))
      BY <2>1, <2>2, <2>3 DEF NoDead, Stored, Looping, Left, SameArguments
    <3>1. j \in index[e] /\ (e = a => j # call[p].id)
      BY <2>6
    <3>2. call[p].id = j /\ e \in Left(p)
      BY <1>0, <3>1 DEF ExactAt, NoDead, Stored
    <3>. QED  BY <2>5, <3>1, <3>2
  <2>8. /\ Naming(p) <=> Naming(p)'
        /\ Gone(p) <=> Gone(p)'
        /\ Between(p) <=> Between(p)'
    BY <2>1, <2>3 DEF Naming, Looping, Gone, Between, Clearing, SameArguments
  <2>. QED  BY <1>0, <2>1, <2>2, <2>3, <2>7, <2>8, FiledKept
<1>13. CASE RemoveCount(p)
  <2>1. /\ call[p].pc = "count" /\ call[p].op = "remove"
        /\ counter_removed' = counter_removed + 1
        /\ UNCHANGED <<counter, nodes, index, statements>>
    BY <1>0, <1>13, CallFacts DEF RemoveCount
  <2>2. call'[p].pc = "forget" /\ SameArguments(p) /\ call'[p].id = call[p].id
    BY <1>0, <1>13 DEF RemoveCount, Goto, CallType, SameArguments
  <2>3. Between(p) /\ ~Between(p)' /\ Gone(p) /\ Gone(p)'
    BY <2>1, <2>2 DEF Between, Clearing, Gone, SameArguments
  <2>4. counter' = counter_removed' + Cardinality(Live) + IF Between(p)' THEN 1 ELSE 0
    BY <1>0, <1>02, <1>03, <2>1, <2>3
  <2>. QED  BY <1>0, <2>1, <2>2, <2>3, <2>4, ExactKept DEF SameArguments
<1>14. CASE RemoveStatement(p)
  <2>. DEFINE i == call[p].id
  <2>1. /\ call[p].pc = "forget" /\ call[p].op = "remove" /\ Changing(p)
        /\ UNCHANGED <<counter, counter_removed, nodes, index>>
    BY <1>0, <1>14, CallFacts DEF RemoveStatement, Changing
  <2>2. Gone(p) /\ statements[call[p].hc] = i /\ nodes[i] = None /\ call[p].hc \in Digests
    BY <1>0, <1>04, <2>1 DEF ExactAt, Cleared, Gone
  <2>3. call'[p].pc = "touch" /\ call'[p].op = "remove"
    BY <1>0, <1>01, <1>14, <2>1, <2>2 DEF RemoveStatement, Goto, CallType
  <2>4. \A h \in Digests : statements'[h] = IF h = call[p].hc THEN None ELSE statements[h]
    BY <1>0, <1>14 DEF RemoveStatement
  <2>5. /\ ~Looping(p, "remove") /\ ~Naming(p) /\ ~Naming(p)' /\ ~Gone(p)'
        /\ ~Between(p) /\ ~Between(p)'
    BY <2>1, <2>3 DEF Looping, Gone, Naming, Between, Clearing
  <2>6. NoDead(p)'
    BY <1>0, <2>1, <2>5 DEF ExactAt, NoDead, Stored
  <2>7. LiveNamed(p)'
    <3>. SUFFICES ASSUME NEW j \in Ids, nodes[j] # None
                  PROVE  \E h \in Digests : statements'[h] = j
      BY <2>1 DEF LiveNamed, Stored
    <3>1. PICK h \in Digests : statements[h] = j
      BY <1>0, <2>5 DEF ExactAt, LiveNamed, Stored
    <3>2. h # call[p].hc
      BY <2>2, <3>1
    <3>. QED  BY <2>4, <3>1, <3>2
  <2>8. NamedLive(p)'
    <3>. SUFFICES ASSUME NEW h \in Digests, statements'[h] # None
                  PROVE  nodes[statements'[h]] # None
      BY <2>1 DEF NamedLive, Stored
    <3>1. h # call[p].hc /\ statements'[h] = statements[h]
      BY <2>4
    <3>. QED  BY <1>0, <3>1 DEF ExactAt, NamedLive, Stored
  <2>9. Written(p)' /\ Cleared(p)' /\ NotYet(p)'
    BY <2>3, <2>5 DEF Written, Cleared, NotYet
  <2>10. SizeSum(p)'
    <3>1. Live' = Live
      BY <2>1 DEF Live, Stored
    <3>. QED  BY <1>03, <2>1, <2>5, <3>1 DEF SizeSum, Pending
  <2>. QED  BY <2>6, <2>7, <2>8, <2>9, <2>10 DEF ExactAt
<1>. QED  BY <1>1, <1>2, <1>3, <1>4, <1>5, <1>6, <1>7, <1>8, <1>9, <1>10, <1>11, <1>12,
            <1>13, <1>14 DEF Step, Insert, Remove

(* Every step does.                                                        *)
LEMMA ExactNext ==
  ASSUME Calm
  PROVE  ExactInv /\ [Next]_vars => ExactInv'
<1>. SUFFICES ASSUME ExactInv, [Next]_vars PROVE ExactInv'
  OBVIOUS
<1>1. VisInv' /\ CountInv'
  BY VisNext, CountNext DEF ExactInv, Calm
<1>2. CASE UNCHANGED vars
  <2>. SUFFICES ASSUME NEW p \in Procs PROVE ExactAt(p)'
    BY <1>1 DEF ExactInv
  <2>1. ExactAt(p) /\ UNCHANGED <<counter, counter_removed, nodes, index, statements, call>>
    BY <1>2 DEF ExactInv, vars, tables
  <2>2. Live' = Live
    BY <2>1 DEF Live, Stored
  <2>. QED  BY <2>1, <2>2 DEF ExactAt, NoDead, LiveNamed, NamedLive, Written, Cleared,
            NotYet, SizeSum, Pending, Between, Clearing, Gone, Naming, Looping, Left, Stored
<1>3. ASSUME NEW p \in Procs, Step(p) PROVE ExactInv'
  <2>1. \A q \in Procs : q = p
    BY DEF Calm, Single, Alone
  <2>2. ExactAt(p)'
    BY <1>3, ExactStep
  <2>. QED  BY <1>1, <2>1, <2>2 DEF ExactInv
<1>. QED  BY <1>2, <1>3 DEF Next, Step, Quiet

(* The empty store satisfies it.                                           *)
LEMMA ExactInit == Init => ExactInv
<1>. SUFFICES ASSUME Init, NEW p \in Procs PROVE ExactAt(p)
  BY VisInit, CountInit DEF ExactInv
<1>1. call[p].pc = "idle" /\ call[p].op = "none"
  BY DEF Init, Returned
<1>2. Live = {} /\ \A h \in Digests : statements[h] = None
  BY DEF Init, Live, Stored
<1>3. Cardinality(Live) = 0
  BY <1>2, FS_EmptySet
<1>4. ~Looping(p, "remove") /\ ~Naming(p) /\ ~Gone(p) /\ ~Between(p)
  BY <1>1 DEF Looping, Naming, Gone, Between, Clearing
<1>5. NoDead(p) /\ LiveNamed(p) /\ NamedLive(p)
  BY <1>2 DEF Init, NoDead, LiveNamed, NamedLive, Stored
<1>6. Written(p) /\ Cleared(p) /\ NotYet(p)
  BY <1>1, <1>4 DEF Written, Cleared, NotYet
<1>7. SizeSum(p)
  BY <1>3, <1>4 DEF Init, SizeSum, Pending
<1>. QED  BY <1>5, <1>6, <1>7 DEF ExactAt

(* Between calls a store with one handle and no failing request is exact:  *)
(* each posting holds the stored statements that contain its term and no   *)
(* other, the hash codes name the stored statements and no other, and      *)
(* rdfstore_size counts them, after any sequence of insertions and         *)
(* removals.                                                               *)
THEOREM TablesAreExact ==
  ASSUME Calm
  PROVE  Spec => []TablesExact
<1>1. ExactInv => TablesExact
  <2>. SUFFICES ASSUME ExactInv, Quiescent PROVE TablesExact
    BY DEF TablesExact, IndexExact, StatementsExact, SizeExact
  <2>1. PICK p \in Procs : TRUE
    BY DEF Calm
  <2>2. /\ ExactAt(p) /\ VisibleIsIndexed /\ IndexSound /\ StatementsSound /\ NodesRight
        /\ index \in [Entries -> SUBSET Ids] /\ nodes \in [Ids -> OrNone(Quads)]
        /\ statements \in [Digests -> OrNone(Ids)]
        /\ counter \in Nat /\ counter_removed \in Nat /\ call \in [Procs -> CallType]
    BY DEF ExactInv, VisInv, Inv4, Inv3, Inv2, Inv1, TypeOK
  <2>3. call[p].pc = "idle"
    BY DEF Quiescent, Idle
  <2>4. ~Looping(p, "remove") /\ ~Naming(p) /\ ~Gone(p) /\ ~Between(p)
    <3>1. Inv1
      BY DEF ExactInv, VisInv, Inv4, Inv3, Inv2
    <3>. QED  BY <2>3, <3>1 DEF Looping, Naming, Gone, Between, Clearing
  <2>5. \A i \in Ids : i # None
    BY NoneIsNothing
  <2>6. \A e \in Entries : \A i \in index[e] : i \in Ids /\ nodes[i] # None
    BY <2>2, <2>4 DEF ExactAt, NoDead, Stored
  <2>7. ASSUME NEW i \in Ids, nodes[i] # None
        PROVE  \E h \in Digests : statements[h] = i
    BY <2>2, <2>4, <2>7 DEF ExactAt, LiveNamed, Stored
  <2>8. \A h \in Digests : statements[h] # None => statements[h] \in Ids /\ nodes[statements[h]] # None
    BY <2>2, <2>4 DEF ExactAt, NamedLive, Stored, OrNone
  <2>9. IndexExact
    <3>. SUFFICES ASSUME NEW e \in Entries, NEW i \in Ids
                  PROVE  i \in index[e] <=> (nodes[i] # None /\ e \in EntriesOf(nodes[i]))
      BY <2>2 DEF IndexExact, Live, Stored, EntriesOf
    <3>1. ASSUME i \in index[e]
          PROVE  nodes[i] # None /\ e \in EntriesOf(nodes[i])
      <4>1. nodes[i] = asserted[i] /\ nodes[i] # None
        BY <2>2, <2>6, <3>1 DEF NodesRight
      <4>2. e \in EntriesOf(asserted[i])
        BY <2>2, <3>1 DEF IndexSound
      <4>. QED  BY <4>1, <4>2
    <3>2. ASSUME nodes[i] # None, e \in EntriesOf(nodes[i])
          PROVE  i \in index[e]
      <4>1. PICK h \in Digests : statements[h] = i
        BY <2>7, <3>2
      <4>. QED  BY <2>2, <2>5, <3>2, <4>1 DEF VisibleIsIndexed, Stored
    <3>. QED  BY <3>1, <3>2
  <2>10. StatementsExact
    <3>. SUFFICES ASSUME NEW h \in Digests, NEW i \in Ids
                  PROVE  (statements[h] = i) <=> (nodes[i] # None /\ DigestOf(nodes[i]) = h)
      BY DEF StatementsExact, Stored
    <3>1. ASSUME statements[h] = i
          PROVE  nodes[i] # None /\ DigestOf(nodes[i]) = h
      <4>1. nodes[i] # None /\ nodes[i] = asserted[i]
        BY <2>2, <2>5, <2>8, <3>1 DEF NodesRight
      <4>2. DigestOf(asserted[i]) = h
        BY <2>2, <2>5, <3>1 DEF StatementsSound
      <4>. QED  BY <4>1, <4>2
    <3>2. ASSUME nodes[i] # None, DigestOf(nodes[i]) = h
          PROVE  statements[h] = i
      <4>1. PICK g \in Digests : statements[g] = i
        BY <2>7, <3>2
      <4>2. DigestOf(asserted[i]) = g /\ nodes[i] = asserted[i]
        BY <2>2, <2>5, <3>2, <4>1 DEF StatementsSound, NodesRight
      <4>. QED  BY <3>2, <4>1, <4>2
    <3>. QED  BY <3>1, <3>2
  <2>11. SizeExact
    <3>1. Cardinality(Live) \in Nat /\ counter = counter_removed + Cardinality(Live)
      BY <2>2, <2>4, LiveFinite DEF ExactAt, SizeSum, Pending
    <3>. QED  BY <2>2, <3>1 DEF SizeExact
  <2>. QED  BY <2>9, <2>10, <2>11 DEF TablesExact
<1>. QED  BY <1>1, ExactInit, ExactNext, PTL DEF Spec

-----------------------------------------------------------------------------
(* Such a store is a set of statements: it implements TripleStore.         *)

AbstractStore == {q \in Quads : statements[Digest[q]] # None}

(* A call under way has no result yet, but for the removals read.          *)
Blank(p) ==
  /\ ~Idle(p) => call[p].ret = 0
  /\ call[p].pc = "size_counter" => call[p].out = counter_removed

SetInv == ExactInv /\ \A p \in Procs : Blank(p)

(* A call gets its result when it ends.                                    *)
LEMMA ResultStep ==
  ASSUME Inv1, MaxFaults = 0, NEW p \in Procs, Blank(p), Step(p)
  PROVE  Blank(p)'
<1>0. call \in [Procs -> CallType] /\ call[p] \in CallType
  BY DEF Inv1, TypeOK
<1>1. call'[p].pc = "size_counter" => call'[p].out = counter_removed'
  <2>. SUFFICES ASSUME call'[p].pc = "size_counter" PROVE call'[p].out = counter_removed'
    OBVIOUS
  <2>1. SizeRemoved(p) /\ call'[p].out = counter_removed
    BY PhaseStep
  <2>. QED  BY <2>1 DEF SizeRemoved, tables
<1>. DEFINE Good == call'[p].pc # "idle" => call'[p].ret = 0
<1>2. ASSUME NEW r, call' = [call EXCEPT ![p] = r],
             r.pc = "idle" \/ r.ret = 0 \/ (~Idle(p) /\ r.ret = call[p].ret)
      PROVE  Good
  BY <1>0, <1>2 DEF Blank
<1>3. ASSUME NEW ret, NEW out, call' = [call EXCEPT ![p] = Returned(ret, out)]
      PROVE  Good
  <2>1. Returned(ret, out).pc = "idle"
    BY DEF Returned
  <2>. QED  BY <1>2, <1>3, <2>1
<1>4. ASSUME NEW pc, Goto(p, pc), ~Idle(p) PROVE Good
  BY <1>0, <1>4 DEF Goto, CallType, Blank
<1>5. ASSUME NEW op, NEW o, NEW g, NEW pc, Begin(p, op, o, g, pc)
      PROVE  Good
  <2>. DEFINE c == ContextOf(p, o, g)
              r == [Returned(0, 0) EXCEPT !.pc = pc, !.op = op, !.st = o.st,
                      !.ctx = c, !.hc = HashCode(p, o, c)]
  <2>1. call' = [call EXCEPT ![p] = r]
    BY <1>5 DEF Begin
  <2>2. r.ret = 0
    BY DEF Returned
  <2>. HIDE DEF r
  <2>. QED  BY <1>2, <2>1, <2>2
<1>6. CASE Quiet(p)
  <2>2. ASSUME NEW op, SizeCall(p, op)
        PROVE  Good
    <3>. DEFINE r == [Returned(0, 0) EXCEPT !.pc = "size_removed", !.op = op]
    <3>1. call' = [call EXCEPT ![p] = r]
      BY <2>2 DEF SizeCall
    <3>2. r.ret = 0
      BY DEF Returned
    <3>. HIDE DEF r
    <3>. QED  BY <1>2, <3>1, <3>2
  <2>3. ASSUME NEW o, NEW g, Contains(p, o, g) PROVE Good
    BY <1>3, <2>3 DEF Contains
  <2>4. ASSUME NEW c, SetContext(p, c) PROVE Good
    BY <1>3, <2>4 DEF SetContext
  <2>5. ASSUME ResetContext(p) PROVE Good
    BY <1>3, <2>5 DEF ResetContext
  <2>6. ASSUME SizeRemoved(p) PROVE Good
    BY <1>0, <2>6 DEF SizeRemoved, CallType, Blank, Idle
  <2>7. ASSUME SizeCounter(p) PROVE Good
    <3>1. CASE call[p].op = "size"
      BY <1>3, <2>7, <3>1 DEF SizeCounter
    <3>2. CASE call[p].op # "size"
      BY <1>3, <2>7, <3>2 DEF SizeCounter
    <3>. QED  BY <3>1, <3>2
  <2>8. ASSUME Touch(p) \/ Fail(p) PROVE Good
    BY <1>3, <2>8 DEF Touch, Fail, Return
  <2>9. ASSUME Call(p) PROVE Good
    BY <1>5, <2>2, <2>3, <2>4, <2>5, <2>9 DEF Call, InsertCall, RemoveCall
  <2>10. Good
    BY <1>6, <2>6, <2>7, <2>8, <2>9 DEF Quiet
  <2>. QED  BY <1>1, <2>10 DEF Blank, Idle
<1>7. CASE Insert(p) \/ Remove(p) \/ FetchEntry(p)
  <2>0. ~Idle(p)
    BY <1>7 DEF Idle, Insert, InsertExists, InsertExistsError, InsertIncrement,
         InsertDecrement, InsertNode, InsertEntry, InsertStatement, Remove, RemoveFind,
         RemoveNode, RemoveEntry, RemoveWord, Removing, RemoveCount, RemoveStatement, FetchEntry
  <2>1. ASSUME NEW after, NextEntry(p, after) PROVE Good
    BY <1>0, <2>0, <2>1 DEF NextEntry, CallType, Blank
  <2>2. ASSUME InsertExists(p) \/ InsertExistsError(p) \/ InsertDecrement(p) \/ InsertStatement(p)
        PROVE  Good
    BY <1>3, <1>4, <2>0, <2>2
       DEF InsertExists, InsertExistsError, InsertDecrement, InsertStatement, Return
  <2>3. ASSUME InsertIncrement(p) PROVE Good
    <3>1. ASSUME call' = [call EXCEPT ![p].pc = "nodes", ![p].id = counter] PROVE Good
      BY <1>0, <2>0, <3>1 DEF CallType, Blank
    <3>. QED  BY <1>3, <1>4, <2>0, <2>3, <3>1 DEF InsertIncrement, Return
  <2>4. ASSUME InsertNode(p) \/ FetchEntry(p) PROVE Good
    BY <1>0, <2>0, <2>4 DEF InsertNode, FetchEntry, CallType, Blank
  <2>5. ASSUME InsertEntry(p) \/ RemoveEntry(p) \/ RemoveWord(p) PROVE Good
    BY <1>3, <2>1, <2>5 DEF InsertEntry, RemoveEntry, RemoveWord, Return
  <2>6. ASSUME RemoveFind(p) PROVE Good
    <3>1. ASSUME call' = [call EXCEPT ![p].pc = "unnode", ![p].id = statements[call[p].hc]]
          PROVE  Good
      BY <1>0, <2>0, <3>1 DEF CallType, Blank
    <3>. QED  BY <1>3, <2>6, <3>1 DEF RemoveFind, Return
  <2>7. ASSUME RemoveNode(p) PROVE Good
    <3>1. ASSUME call' = [call EXCEPT ![p].pc = "fetch",
                            ![p].todo = RemoveEntries(call[p].st, call[p].ctx)]
          PROVE  Good
      BY <1>0, <2>0, <3>1 DEF CallType, Blank
    <3>. QED  BY <1>3, <2>7, <3>1 DEF RemoveNode, Return
  <2>8. ASSUME RemoveCount(p) \/ RemoveStatement(p) PROVE Good
    BY <1>3, <1>4, <2>0, <2>8 DEF RemoveCount, RemoveStatement, Return
  <2>9. Good
    BY <1>7, <2>2, <2>3, <2>4, <2>5, <2>6, <2>7, <2>8 DEF Insert, Remove
  <2>. QED  BY <1>1, <2>9 DEF Blank, Idle
<1>. QED  BY <1>6, <1>7 DEF Step

(* What the abstract store makes of a call, read off the kernel's.         *)
LEMMA AbstractParts ==
  ASSUME Alone, NEW p \in Procs
  PROVE  /\ (UNCHANGED <<AbstractStore, AbstractRequest(p), AbstractReply(p)>>
               => UNCHANGED Abstract!vars)
         /\ \A r : (/\ AbstractRequest(p) = None /\ AbstractRequest(p)' = r
                    /\ AbstractReply(p)' = [ret |-> 0, out |-> 0]
                    /\ UNCHANGED AbstractStore)
                    => Abstract!Submit(p, r)
         /\ \A ret, out : (/\ AbstractRequest(p)' = None
                           /\ AbstractReply(p)' = [ret |-> ret, out |-> out])
                           => Abstract!Answer(p, ret, out)
<1>1. \A q \in Procs : q = p
  BY DEF Alone
<1>2. [q \in Procs |-> AbstractRequest(q)][p] = AbstractRequest(p)
  OBVIOUS
<1>3. UNCHANGED <<AbstractStore, AbstractRequest(p), AbstractReply(p)>> => UNCHANGED Abstract!vars
  BY <1>1 DEF Abstract!vars, AbstractStore
<1>4. ASSUME NEW r, AbstractRequest(p) = None, AbstractRequest(p)' = r,
             AbstractReply(p)' = [ret |-> 0, out |-> 0], UNCHANGED AbstractStore
      PROVE  Abstract!Submit(p, r)
  BY <1>1, <1>4 DEF Abstract!Submit, Abstract!NoReply, AbstractStore
<1>5. ASSUME NEW ret, NEW out, AbstractRequest(p)' = None,
             AbstractReply(p)' = [ret |-> ret, out |-> out]
      PROVE  Abstract!Answer(p, ret, out)
  BY <1>1, <1>5 DEF Abstract!Answer
<1>. QED  BY <1>3, <1>4, <1>5

(* A step of an abstract operation is a step of the abstract store.        *)
LEMMA AbstractSteps ==
  ASSUME NEW p \in Procs
  PROVE  /\ \A op \in {"insert", "remove"}, q \in Quads :
              Abstract!Submit(p, <<op, q>>) => Abstract!Next
         /\ \A op \in {"size", "is_empty"} : Abstract!Submit(p, <<op, None>>) => Abstract!Next
         /\ \A q \in Quads : Abstract!Insert(p, q) => Abstract!Next
         /\ \A q \in Quads : Abstract!Refuse(p, q) => Abstract!Next
         /\ \A q \in Quads : Abstract!Remove(p, q) => Abstract!Next
         /\ \A q \in Quads : Abstract!Contains(p, q) => Abstract!Next
         /\ Abstract!Size(p) \/ Abstract!IsEmpty(p) => Abstract!Next
<1>1. \A op \in {"insert", "remove"}, q \in Quads : <<op, q>> \in Abstract!Changes
  BY DEF Abstract!Changes
<1>2. \A op \in {"size", "is_empty"} : <<op, None>> \in Abstract!Counts
  BY DEF Abstract!Counts
<1>. QED  BY <1>1, <1>2 DEF Abstract!Next

(* TripleStore counts with an instance of its own of FiniteSets.           *)
LEMMA SameCardinality ==
  ASSUME NEW S
  PROVE  Abstract!Cardinality(S) = Cardinality(S)
BY DEF Abstract!Cardinality, Cardinality

(* The statements stored are as many as the quads that are found.          *)
LEMMA StoreSize ==
  ASSUME OwnDigests, ExactInv, NEW p \in Procs, ~Naming(p), ~Gone(p)
  PROVE  IsFiniteSet(AbstractStore) /\ Cardinality(AbstractStore) = Cardinality(Live)
<1>. DEFINE f == [i \in Live |-> nodes[i]]
<1>0. /\ ExactAt(p) /\ StatementsSound /\ NodesRight
      /\ nodes \in [Ids -> OrNone(Quads)] /\ statements \in [Digests -> OrNone(Ids)]
  BY DEF ExactInv, VisInv, Inv4, Inv3, Inv2, Inv1, TypeOK
<1>1. \A i \in Ids : i # None
  BY NoneIsNothing
<1>2. \A i \in Live : i \in Ids /\ nodes[i] # None /\ nodes[i] \in Quads /\ nodes[i] = asserted[i]
  BY <1>0 DEF Live, Stored, OrNone, NodesRight
<1>3. \A q \in Quads : Digest[q] \in Digests
  BY ConstantTypes
<1>4. ASSUME NEW i \in Live PROVE statements[Digest[nodes[i]]] = i
  <2>1. PICK h \in Digests : statements[h] = i
    BY <1>0, <1>2 DEF ExactAt, LiveNamed, Stored
  <2>2. Digest[asserted[i]] = h
    BY <1>0, <1>1, <1>2, <2>1 DEF StatementsSound, DigestOf
  <2>. QED  BY <1>2, <2>1, <2>2
<1>5. ASSUME NEW q \in AbstractStore
      PROVE  statements[Digest[q]] \in Live /\ nodes[statements[Digest[q]]] = q
  <2>1. q \in Quads /\ Digest[q] \in Digests /\ statements[Digest[q]] # None
    BY <1>3 DEF AbstractStore
  <2>2. statements[Digest[q]] \in Live
    BY <1>0, <2>1 DEF ExactAt, NamedLive, Live, Stored, OrNone
  <2>3. Digest[asserted[statements[Digest[q]]]] = Digest[q]
    BY <1>0, <2>1 DEF StatementsSound, DigestOf
  <2>. QED  BY <1>2, <2>1, <2>2, <2>3 DEF OwnDigests
<1>6. \A i \in Live : f[i] = nodes[i] /\ f[i] \in AbstractStore
  BY <1>1, <1>2, <1>4 DEF AbstractStore
<1>7. f \in Injection(Live, AbstractStore)
  <2>1. f \in [Live -> AbstractStore]
    BY <1>6
  <2>2. \A i, j \in Live : f[i] = f[j] => i = j
    BY <1>4, <1>6
  <2>. HIDE DEF f
  <2>. QED  BY <2>1, <2>2 DEF Injection, IsInjective
<1>8. f \in Surjection(Live, AbstractStore)
  BY <1>5, <1>6 DEF Surjection
<1>9. ExistsBijection(Live, AbstractStore)
  BY <1>7, <1>8 DEF ExistsBijection, Bijection
<1>. QED  BY <1>9, LiveFinite, FS_Bijection

(* A request in the middle of a call is no step of the abstract store.     *)
LEMMA WorkUnseen ==
  ASSUME Alone, NEW p \in Procs, UNCHANGED AbstractStore, Blank(p), Blank(p)',
         ~Answered(p), ~Answered(p)', SameArguments(p)
  PROVE  UNCHANGED Abstract!vars
<1>1. ~Idle(p) /\ ~Idle(p)'
  BY DEF Answered, Idle
<1>2. AbstractRequest(p)' = AbstractRequest(p)
  BY DEF AbstractRequest, SameArguments
<1>3. AbstractReply(p)' = AbstractReply(p)
  BY <1>1 DEF AbstractReply, Blank
<1>. QED  BY <1>2, <1>3, AbstractParts

(* Each request of the one handle is a step of the abstract store or none. *)
LEMMA SetStep ==
  ASSUME Calm, Defaults = {}, SetInv, NEW p \in Procs, Step(p)
  PROVE  Abstract!Next \/ UNCHANGED Abstract!vars
<1>. DEFINE Good == Abstract!Next \/ UNCHANGED Abstract!vars
            q == QuadOf(p)
<1>0. /\ Inv1 /\ Inv4 /\ ExactInv /\ ExactAt(p) /\ MaxFaults = 0 /\ Blank(p)
      /\ Alone /\ OwnDigests
      /\ call \in [Procs -> CallType] /\ call[p] \in CallType /\ CallOK(call[p])
      /\ statements \in [Digests -> OrNone(Ids)]
      /\ counter \in Nat /\ counter_removed \in Nat /\ faults \in 0 .. MaxFaults
      /\ call[p].id \in Ids
  BY CallFacts DEF Calm, Single, SetInv, ExactInv, VisInv, Inv4, Inv3, Inv2, Inv1, TypeOK, CallType
<1>01. \A i \in Ids : i # None
  BY NoneIsNothing
<1>02. Blank(p)'
  BY <1>0, ResultStep
<1>03. Changing(p) => q \in Quads /\ call[p].hc = Digest[q]
  BY <1>0 DEF Changing, CallOK, CallType, Quads, QuadOf, Inv4, Hashed
<1>04. Changing(p) /\ ~Answered(p) => AbstractRequest(p) = <<call[p].op, q>>
  BY DEF Changing, AbstractRequest, QuadOf
<1>05. Changing(p) => (q \in AbstractStore <=> statements[call[p].hc] # None)
  BY <1>03 DEF AbstractStore
<1>06. UNCHANGED statements => UNCHANGED AbstractStore
  BY DEF AbstractStore
<1>07. ASSUME NEW ret, NEW out, call' = [call EXCEPT ![p] = Returned(ret, out)]
       PROVE  AbstractRequest(p)' = None /\ AbstractReply(p)' = [ret |-> ret, out |-> out]
  <2>1. call'[p].pc = "idle" /\ call'[p].ret = ret /\ call'[p].out = out
    BY <1>0, <1>07 DEF Returned
  <2>. QED  BY <2>1 DEF AbstractRequest, AbstractReply, Answered, Idle
<1>08. ASSUME NEW ret, NEW out, call' = [call EXCEPT ![p] = Returned(ret, out)]
       PROVE  Abstract!Answer(p, ret, out)
  BY <1>0, <1>07, <1>08, AbstractParts
<1>09. ASSUME UNCHANGED statements, ~Answered(p), ~Answered(p)', SameArguments(p)
       PROVE  Good
  BY <1>0, <1>02, <1>06, <1>09, WorkUnseen
<1>10. ASSUME NEW op \in {"insert", "remove"}, NEW o \in Objects, NEW g \in Givens,
              NEW pc \in {"exists", "find"}, Begin(p, op, o, g, pc)
       PROVE  Good
  <2>. DEFINE c == ContextOf(p, o, g)
              r == [Returned(0, 0) EXCEPT !.pc = pc, !.op = op, !.st = o.st,
                      !.ctx = c, !.hc = HashCode(p, o, c)]
  <2>1. call' = [call EXCEPT ![p] = r] /\ Idle(p) /\ UNCHANGED statements
    BY <1>10 DEF Begin, tables
  <2>2. r.pc = pc /\ r.op = op /\ r.st = o.st /\ r.ctx = c /\ r.ret = 0
    BY DEF Returned
  <2>3. <<o.st, c>> \in Quads
    BY <1>0, ConstantTypes DEF ObjectType, ContextOf, OrNone, Quads, Inv1, TypeOK
  <2>. HIDE DEF r
  <2>4. call'[p] = r
    BY <1>0, <2>1
  <2>5. /\ AbstractRequest(p) = None
        /\ AbstractRequest(p)' = <<op, <<o.st, c>>>>
        /\ AbstractReply(p)' = [ret |-> 0, out |-> 0]
    BY <2>1, <2>2, <2>4 DEF AbstractRequest, AbstractReply, Answered, Idle
  <2>. HIDE DEF c
  <2>6. Abstract!Submit(p, <<op, <<o.st, c>>>>)
    BY <1>0, <1>06, <2>1, <2>5, AbstractParts
  <2>. QED  BY <2>3, <2>6, AbstractSteps
<1>11. ASSUME NEW op \in {"size", "is_empty"}, SizeCall(p, op) PROVE Good
  <2>. DEFINE r == [Returned(0, 0) EXCEPT !.pc = "size_removed", !.op = op]
  <2>1. call' = [call EXCEPT ![p] = r] /\ Idle(p) /\ UNCHANGED statements
    BY <1>11 DEF SizeCall, tables
  <2>2. r.pc = "size_removed" /\ r.op = op /\ r.ret = 0
    BY DEF Returned
  <2>. HIDE DEF r
  <2>3. call'[p] = r
    BY <1>0, <2>1
  <2>4. /\ AbstractRequest(p) = None
        /\ AbstractRequest(p)' = <<op, None>>
        /\ AbstractReply(p)' = [ret |-> 0, out |-> 0]
    BY <2>1, <2>2, <2>3 DEF AbstractRequest, AbstractReply, Answered, Idle
  <2>5. Abstract!Submit(p, <<op, None>>)
    BY <1>0, <1>06, <2>1, <2>4, AbstractParts
  <2>. QED  BY <2>5, AbstractSteps
<1>12. ASSUME NEW o \in Objects, NEW g \in Givens, Contains(p, o, g) PROVE Good
  <2>. DEFINE c == ContainsContext(o, g)
              s == <<o.st, c>>
              ret == IF statements[Digest[s]] # None THEN 0 ELSE 1
  <2>1. s \in Quads
    BY ConstantTypes DEF ObjectType, ContainsContext, OrNone, Quads
  <2>2. HashCode(p, o, c) = Digest[s]
    BY <1>0 DEF Inv4, NothingKept, HashCode
  <2>3. Idle(p) /\ UNCHANGED statements /\ call' = [call EXCEPT ![p] = Returned(ret, 0)]
    BY <1>0, <1>12, <2>2 DEF Contains, tables
  <2>. HIDE DEF s
  <2>4. ret = IF s \in AbstractStore THEN 0 ELSE 1
    BY <2>1 DEF AbstractStore
  <2>. HIDE DEF ret
  <2>5. /\ AbstractRequest(p) = None /\ AbstractRequest(p)' = None
        /\ AbstractReply(p)' = [ret |-> ret, out |-> 0]
    BY <1>07, <2>3 DEF AbstractRequest, Answered, Idle
  <2>6. \A r \in Procs : r = p
    BY <1>0 DEF Alone
  <2>7. Abstract!Contains(p, s)
    BY <1>06, <2>3, <2>4, <2>5, <2>6 DEF Abstract!Contains, AbstractStore
  <2>. QED  BY <2>1, <2>7, AbstractSteps
<1>13. ASSUME Call(p) PROVE Good
  BY <1>0, <1>10, <1>11, <1>12, <1>13 DEF Call, InsertCall, RemoveCall
<1>14. ASSUME SizeRemoved(p) PROVE Good
  <2>1. /\ call[p].pc = "size_removed" /\ call'[p].pc = "size_counter" /\ SameArguments(p)
        /\ UNCHANGED statements
    BY <1>0, <1>14 DEF SizeRemoved, SameArguments, CallType, tables
  <2>. QED  BY <1>09, <2>1 DEF Answered
<1>15. ASSUME SizeCounter(p) PROVE Good
  <2>. DEFINE size == counter - call[p].out
  <2>1. call[p].pc = "size_counter" /\ UNCHANGED statements
    BY <1>15 DEF SizeCounter, tables
  <2>2. ~Naming(p) /\ ~Gone(p) /\ ~Between(p) /\ call[p].op \in {"size", "is_empty"} /\ ~Answered(p)
    BY <1>0, <2>1 DEF Naming, Looping, Gone, Between, Clearing, CallOK, CallType, Ops,
         InsertPCs, RemovePCs, Answered
  <2>3. IsFiniteSet(AbstractStore) /\ Cardinality(AbstractStore) = Cardinality(Live)
    BY <1>0, <2>2, StoreSize
  <2>4. size = Cardinality(AbstractStore)
    <3>1. Cardinality(Live) \in Nat /\ counter = counter_removed + Cardinality(Live)
      BY <1>0, <2>2, LiveFinite DEF ExactAt, SizeSum, Pending
    <3>. QED  BY <1>0, <2>1, <2>3, <3>1 DEF Blank
  <2>5. AbstractRequest(p) = <<call[p].op, None>>
    BY <2>2 DEF AbstractRequest
  <2>6. CASE call[p].op = "size"
    <3>1. Abstract!Answer(p, 0, Cardinality(AbstractStore))
      BY <1>08, <1>15, <2>4, <2>6 DEF SizeCounter
    <3>2. AbstractRequest(p) = <<"size", None>>
      BY <2>5, <2>6
    <3>3. Abstract!Size(p)
      BY <1>06, <2>1, <3>1, <3>2, SameCardinality DEF Abstract!Size, AbstractStore
    <3>. QED  BY <3>3, AbstractSteps
  <2>7. CASE call[p].op = "is_empty"
    <3>1. size # 0 <=> AbstractStore # {}
      BY <2>3, <2>4, FS_EmptySet
    <3>. DEFINE ret == IF size # 0 THEN 1 ELSE 0
    <3>2. ret = IF AbstractStore = {} THEN 0 ELSE 1
      BY <3>1
    <3>3. call' = [call EXCEPT ![p] = Returned(ret, 0)]
      BY <1>15, <2>7 DEF SizeCounter
    <3>. HIDE DEF ret
    <3>4. Abstract!Answer(p, ret, 0)
      BY <1>08, <3>3
    <3>5. Abstract!IsEmpty(p)
      BY <1>06, <2>1, <2>5, <2>7, <3>2, <3>4 DEF Abstract!IsEmpty, AbstractStore
    <3>. QED  BY <3>5, AbstractSteps
  <2>. QED  BY <2>2, <2>6, <2>7
<1>16. ASSUME Touch(p) PROVE Good
  <2>1. call[p].pc = "touch" /\ UNCHANGED statements /\ call' = [call EXCEPT ![p] = Returned(0, 0)]
    BY <1>16 DEF Touch, Return, tables
  <2>2. AbstractRequest(p) = None /\ AbstractReply(p) = [ret |-> 0, out |-> 0]
    BY <1>0, <2>1 DEF AbstractRequest, AbstractReply, Answered, Idle, Blank
  <2>3. AbstractRequest(p)' = None /\ AbstractReply(p)' = [ret |-> 0, out |-> 0]
    BY <1>07, <2>1
  <2>. QED  BY <1>0, <1>06, <2>1, <2>2, <2>3, AbstractParts
<1>17. ASSUME Fail(p) \/ InsertExistsError(p) PROVE Good
  BY <1>0, <1>17 DEF Fail, InsertExistsError
<1>18. ASSUME InsertExists(p) PROVE Good
  <2>1. /\ call[p].pc = "exists" /\ UNCHANGED statements /\ Changing(p)
        /\ call[p].op = "insert" /\ ~Answered(p)
    BY <1>0, <1>18, CallFacts DEF InsertExists, tables, Changing, Answered
  <2>2. CASE statements[call[p].hc] # None
    <3>1. Abstract!Answer(p, 1, 0)
      BY <1>08, <1>18, <2>2 DEF InsertExists, Return
    <3>2. PICK r \in Quads : r = q
      BY <1>03, <2>1
    <3>3. r \in AbstractStore /\ AbstractRequest(p) = <<"insert", r>>
      BY <1>04, <1>05, <2>1, <2>2, <3>2
    <3>4. Abstract!Insert(p, r)
      BY <1>06, <2>1, <3>1, <3>3 DEF Abstract!Insert, AbstractStore
    <3>. QED  BY <3>4, AbstractSteps
  <2>3. CASE statements[call[p].hc] = None
    <3>1. call'[p].pc = "inc" /\ SameArguments(p)
      BY <1>0, <1>18, <2>3 DEF InsertExists, Goto, CallType, SameArguments
    <3>. QED  BY <1>09, <2>1, <3>1 DEF Answered
  <2>. QED  BY <2>2, <2>3
<1>19. ASSUME InsertIncrement(p) PROVE Good
  <2>1. /\ call[p].pc = "inc" /\ UNCHANGED statements /\ call[p].st \in Statements
    BY <1>0, <1>19, CallFacts DEF InsertIncrement
  <2>2. call'[p].pc \in {"dec", "nodes"} /\ SameArguments(p)
    <3>1. CASE Exhausted(counter')
      BY <1>0, <1>19, <2>1, <3>1 DEF InsertIncrement, Goto, CallType, SameArguments
    <3>2. CASE ~Exhausted(counter')
      <4>1. call[p].st.wellFormed
        BY <2>1 DEF Calm
      <4>. QED  BY <1>0, <1>19, <2>1, <3>2, <4>1 DEF InsertIncrement, CallType, SameArguments
    <3>. QED  BY <3>1, <3>2
  <2>. QED  BY <1>09, <2>1, <2>2 DEF Answered
<1>20. ASSUME InsertDecrement(p) PROVE Good
  <2>1. /\ call[p].pc = "dec" /\ UNCHANGED statements /\ Changing(p)
        /\ call[p].op = "insert" /\ ~Answered(p)
    BY <1>0, <1>20, CallFacts DEF InsertDecrement, Changing, Answered
  <2>2. Abstract!Answer(p, -1, 0)
    BY <1>08, <1>20 DEF InsertDecrement, Return
  <2>3. q \notin AbstractStore /\ AbstractRequest(p) = <<"insert", q>>
    BY <1>0, <1>04, <1>05, <2>1 DEF ExactAt, NotYet
  <2>. HIDE DEF q
  <2>4. Abstract!Refuse(p, q)
    BY <1>06, <2>1, <2>2, <2>3 DEF Abstract!Refuse, AbstractStore
  <2>. QED  BY <1>03, <2>1, <2>4, AbstractSteps
<1>21. ASSUME InsertNode(p) \/ FetchEntry(p) PROVE Good
  <2>1. /\ call[p].pc \in {"nodes", "fetch"} /\ UNCHANGED statements
        /\ call'[p].pc \in {"fetch", "store"} /\ SameArguments(p)
    BY <1>0, <1>21 DEF InsertNode, FetchEntry, CallType, SameArguments, tables
  <2>. QED  BY <1>09, <2>1 DEF Answered
<1>22. ASSUME InsertEntry(p) \/ RemoveEntry(p) \/ RemoveWord(p) PROVE Good
  <2>1. /\ call[p].pc = "store" /\ UNCHANGED statements
        /\ NextEntry(p, "statements") \/ NextEntry(p, "count")
    <3>1. CASE InsertEntry(p)
      BY <3>1 DEF InsertEntry
    <3>2. CASE RemoveEntry(p) \/ RemoveWord(p)
      BY <1>0, <3>2, RemovedIsOwn DEF RemoveEntry, RemoveWord, ExactInv
    <3>. QED  BY <1>22, <3>1, <3>2
  <2>2. call'[p].pc \in {"statements", "count", "fetch"} /\ SameArguments(p)
    BY <1>0, <2>1, NextEntryIs
  <2>. QED  BY <1>09, <2>1, <2>2 DEF Answered
<1>23. ASSUME InsertStatement(p) PROVE Good
  <2>1. /\ call[p].pc = "statements" /\ Changing(p)
        /\ call[p].op = "insert" /\ ~Answered(p)
    BY <1>0, <1>23, CallFacts DEF InsertStatement, Changing, Answered
  <2>2. /\ call'[p].pc = "touch" /\ call'[p].ret = 0
    BY <1>0, <1>02, <1>23 DEF InsertStatement, Goto, CallType, Blank, Idle
  <2>3. Abstract!Answer(p, 0, 0)
    <3>1. AbstractRequest(p)' = None /\ AbstractReply(p)' = [ret |-> 0, out |-> 0]
      BY <2>2 DEF AbstractRequest, AbstractReply, Answered, Idle
    <3>. QED  BY <1>0, <3>1, AbstractParts
  <2>4. q \notin AbstractStore /\ AbstractRequest(p) = <<"insert", q>> /\ q \in Quads
    BY <1>0, <1>03, <1>04, <1>05, <2>1 DEF ExactAt, NotYet
  <2>5. AbstractStore' = AbstractStore \cup {q}
    <3>1. \A h \in Digests : statements'[h] = IF h = Digest[q] THEN call[p].id ELSE statements[h]
      BY <1>0, <1>03, <1>23, <2>1 DEF InsertStatement
    <3>2. \A r \in Quads : Digest[r] \in Digests /\ (Digest[r] = Digest[q] => r = q)
      BY <1>0, <2>4, ConstantTypes DEF OwnDigests
    <3>3. call[p].id # None
      BY <1>0, <1>01
    <3>. HIDE DEF q
    <3>4. \A r \in Quads : statements'[Digest[r]] # None <=> (statements[Digest[r]] # None \/ r = q)
      BY <3>1, <3>2, <3>3
    <3>. QED  BY <2>4, <3>4 DEF AbstractStore
  <2>6. PICK r \in Quads : r = q
    BY <2>4
  <2>7. /\ r \notin AbstractStore /\ AbstractRequest(p) = <<"insert", r>>
        /\ AbstractStore' = AbstractStore \cup {r}
    BY <2>4, <2>5, <2>6
  <2>8. Abstract!Insert(p, r)
    BY <2>3, <2>7 DEF Abstract!Insert, AbstractStore
  <2>. QED  BY <2>8, AbstractSteps
<1>24. ASSUME RemoveFind(p) PROVE Good
  <2>1. /\ call[p].pc = "find" /\ UNCHANGED statements /\ Changing(p)
        /\ call[p].op = "remove" /\ ~Answered(p)
    BY <1>0, <1>24, CallFacts DEF RemoveFind, tables, Changing, Answered
  <2>2. CASE statements[call[p].hc] = None
    <3>1. Abstract!Answer(p, 1, 0)
      BY <1>08, <1>24, <2>2 DEF RemoveFind, Return
    <3>2. PICK r \in Quads : r = q
      BY <1>03, <2>1
    <3>3. r \notin AbstractStore /\ AbstractRequest(p) = <<"remove", r>>
      BY <1>04, <1>05, <2>1, <2>2, <3>2
    <3>4. Abstract!Remove(p, r)
      BY <1>06, <2>1, <3>1, <3>3 DEF Abstract!Remove, AbstractStore
    <3>. QED  BY <3>4, AbstractSteps
  <2>3. CASE statements[call[p].hc] # None
    <3>1. call'[p].pc = "unnode" /\ SameArguments(p)
      BY <1>0, <1>24, <2>3 DEF RemoveFind, CallType, SameArguments
    <3>. QED  BY <1>09, <2>1, <3>1 DEF Answered
  <2>. QED  BY <2>2, <2>3
<1>25. ASSUME RemoveNode(p) PROVE Good
  <2>1. /\ call[p].pc = "unnode" /\ UNCHANGED statements /\ Changing(p)
    BY <1>0, <1>25, CallFacts DEF RemoveNode, Changing
  <2>2. nodes[call[p].id] # None
    <3>1. ~Gone(p)
      BY <2>1 DEF Gone
    <3>2. statements[call[p].hc] = call[p].id /\ call[p].hc \in Digests
      BY <1>0, <2>1, CallFacts DEF ExactInv, VisInv, Found
    <3>. QED  BY <1>0, <1>01, <3>1, <3>2 DEF ExactAt, NamedLive, Stored
  <2>3. call'[p].pc = "fetch" /\ SameArguments(p)
    BY <1>0, <1>25, <2>2 DEF RemoveNode, CallType, SameArguments
  <2>. QED  BY <1>09, <2>1, <2>3 DEF Answered
<1>26. ASSUME RemoveCount(p) PROVE Good
  <2>1. /\ call[p].pc = "count" /\ UNCHANGED statements
        /\ call'[p].pc = "forget" /\ SameArguments(p)
    BY <1>0, <1>26 DEF RemoveCount, Goto, CallType, SameArguments
  <2>. QED  BY <1>09, <2>1 DEF Answered
<1>27. ASSUME RemoveStatement(p) PROVE Good
  <2>1. /\ call[p].pc = "forget" /\ Changing(p)
        /\ call[p].op = "remove" /\ ~Answered(p)
    BY <1>0, <1>27, CallFacts DEF RemoveStatement, Changing, Answered
  <2>2. statements[call[p].hc] = call[p].id /\ statements[call[p].hc] # None
    BY <1>0, <1>01, <2>1 DEF ExactAt, Cleared, Gone
  <2>3. /\ call'[p].pc = "touch" /\ call'[p].ret = 0
    BY <1>0, <1>02, <1>27, <2>2 DEF RemoveStatement, Goto, CallType, Blank, Idle
  <2>4. Abstract!Answer(p, 0, 0)
    <3>1. AbstractRequest(p)' = None /\ AbstractReply(p)' = [ret |-> 0, out |-> 0]
      BY <2>3 DEF AbstractRequest, AbstractReply, Answered, Idle
    <3>. QED  BY <1>0, <3>1, AbstractParts
  <2>5. q \in AbstractStore /\ AbstractRequest(p) = <<"remove", q>> /\ q \in Quads
    BY <1>0, <1>03, <1>04, <1>05, <2>1, <2>2
  <2>6. AbstractStore' = AbstractStore \ {q}
    <3>1. \A h \in Digests : statements'[h] = IF h = Digest[q] THEN None ELSE statements[h]
      BY <1>0, <1>03, <1>27, <2>1 DEF RemoveStatement
    <3>2. \A r \in Quads : Digest[r] \in Digests /\ (Digest[r] = Digest[q] => r = q)
      BY <1>0, <2>5, ConstantTypes DEF OwnDigests
    <3>. HIDE DEF q
    <3>4. \A r \in Quads : statements'[Digest[r]] # None <=> (statements[Digest[r]] # None /\ r # q)
      BY <3>1, <3>2
    <3>. QED  BY <2>5, <3>4 DEF AbstractStore
  <2>7. PICK r \in Quads : r = q
    BY <2>5
  <2>8. /\ r \in AbstractStore /\ AbstractRequest(p) = <<"remove", r>>
        /\ AbstractStore' = AbstractStore \ {r}
    BY <2>5, <2>6, <2>7
  <2>9. Abstract!Remove(p, r)
    BY <2>4, <2>8 DEF Abstract!Remove, AbstractStore
  <2>. QED  BY <2>9, AbstractSteps
<1>28. ASSUME Quiet(p) PROVE Good
  BY <1>13, <1>14, <1>15, <1>16, <1>17, <1>28 DEF Quiet
<1>29. ASSUME Insert(p) \/ FetchEntry(p) PROVE Good
  BY <1>17, <1>18, <1>19, <1>20, <1>21, <1>22, <1>23, <1>29 DEF Insert
<1>30. ASSUME Remove(p) PROVE Good
  BY <1>22, <1>24, <1>25, <1>26, <1>27, <1>30 DEF Remove
<1>. QED  BY <1>28, <1>29, <1>30 DEF Step

(* With one handle, no failing request, no default context and distinct    *)
(* hash codes, the kernel is a set of statements: an insertion takes       *)
(* effect when its hash code is written, a removal when it is deleted, and *)
(* what rdfstore_size, rdfstore_is_empty and rdfstore_contains answer is   *)
(* true of that set.                                                       *)
THEOREM StoreIsSet ==
  ASSUME Calm, Defaults = {}
  PROVE  Spec => RefinesTripleStore
<1>1. Init => SetInv /\ Abstract!Init
  <2>. SUFFICES ASSUME Init PROVE SetInv /\ Abstract!Init
    OBVIOUS
  <2>1. \A p \in Procs : call[p].pc = "idle" /\ call[p].ret = 0 /\ call[p].out = 0
    BY DEF Init, Returned
  <2>2. SetInv
    BY <2>1, ExactInit DEF SetInv, Blank, Idle
  <2>3. AbstractStore = {}
    BY ConstantTypes DEF Init, AbstractStore
  <2>4. Abstract!Init
    BY <2>1, <2>3 DEF Abstract!Init, Abstract!NoReply, AbstractStore, AbstractRequest,
         AbstractReply, Answered, Idle
  <2>. QED  BY <2>2, <2>4
<1>2. SetInv /\ [Next]_vars => SetInv' /\ [Abstract!Next]_Abstract!vars
  <2>. SUFFICES ASSUME SetInv, [Next]_vars
                PROVE  SetInv' /\ (Abstract!Next \/ UNCHANGED Abstract!vars)
    BY DEF Abstract!vars
  <2>1. ExactInv'
    BY ExactNext DEF SetInv
  <2>2. CASE UNCHANGED vars
    <3>1. UNCHANGED <<call, statements, counter_removed>>
      BY <2>2 DEF vars, tables
    <3>2. SetInv'
      BY <2>1, <3>1 DEF SetInv, Blank, Idle
    <3>3. UNCHANGED Abstract!vars
      BY <3>1 DEF Abstract!vars, AbstractRequest, AbstractReply, Answered, Idle
    <3>. QED  BY <3>2, <3>3
  <2>3. ASSUME NEW p \in Procs, Step(p)
        PROVE  SetInv' /\ (Abstract!Next \/ UNCHANGED Abstract!vars)
    <3>1. Abstract!Next \/ UNCHANGED Abstract!vars
      BY <2>3, SetStep
    <3>2. Inv1 /\ MaxFaults = 0 /\ Blank(p) /\ \A r \in Procs : r = p
      BY DEF SetInv, ExactInv, VisInv, Inv4, Inv3, Inv2, Calm, Single, Alone
    <3>3. Blank(p)'
      BY <2>3, <3>2, ResultStep
    <3>4. SetInv'
      BY <2>1, <3>2, <3>3 DEF SetInv
    <3>. QED  BY <3>1, <3>4
  <2>. QED  BY <2>2, <2>3 DEF Next, Step, Quiet
<1>. QED  BY <1>1, <1>2, PTL DEF Spec, RefinesTripleStore, Abstract!Spec

=============================================================================
