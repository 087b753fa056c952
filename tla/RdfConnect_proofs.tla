------------------------- MODULE RdfConnect_proofs -------------------------
(* Theorems about RdfConnect, for any number of handles and iterators, any *)
(* stores at the start, and any number of requests that fail and processes *)
(* that die.                                                               *)
EXTENDS RdfConnect, TLAPS, FiniteSetTheorems

(***************************************************************************)
(* The first layer: what is known of the store on the way.  The keys of    *)
(* the model table that are there are the first ones in the order          *)
(* rdfstore_connect stores them (Prefix): whoever finds the last finds     *)
(* them all.  A handle that may write has all the keys before the one it   *)
(* is at, for it found them or stored them; a read-only one may have gone  *)
(* past the codec without it, and learns only from the counters that it    *)
(* must be there by now.                                                   *)
(***************************************************************************)
Prefix(m) ==
  \A i, j \in 1 .. 6 : j < i /\ m[KeyOrder[i]] # None => m[KeyOrder[j]] # None

Unused(c) == c.attached = 0 /\ c.tobeclosed = FALSE /\ c.lost = 0

Progress(c, m, t) ==
  /\ c.pc = "store" => ~c.flag
  /\ c.pc = "open" => c.at = 5
  /\ ~c.flag => \A j \in 1 .. 6 : j < c.at => m[KeyOrder[j]] # None
  /\ c.pc # "open" /\ c.at > 4 => Needed(c.me["freetext"]) \subseteq t
  /\ c.pc = "ready" => c.at = 6 /\ \A k \in Keys : m[k] # None
  /\ c.pc # "ready" => Unused(c)

AllProgress ==
  \A h \in Handles : conn[h] # None => Progress(conn[h], model, tables)

(* The tables only gain keys: rdfstore_connect deletes nothing.            *)
Grows(m, t, m2, t2) ==
  /\ \A k \in Keys : m[k] # None => m2[k] # None
  /\ t \subseteq t2

(* Every position of the order holds a key, and every key has a position.  *)
LEMMA OrderFacts ==
  /\ Len(KeyOrder) = 6
  /\ \A i \in 1 .. 6 : /\ KeyOrder[i] \in Keys
                       /\ KeyOrder[i] \in SettingKeys <=> i <= 4
                       /\ KeyOrder[i] = "compression" <=> i = 4
                       /\ KeyOrder[i] = "freetext" <=> i = 3
  /\ \A k \in Keys : \E i \in 1 .. 6 : KeyOrder[i] = k
  /\ \A i, j \in 1 .. 6 : KeyOrder[i] = KeyOrder[j] => i = j
<1>1. Len(KeyOrder) = 6
  BY DEF KeyOrder
<1>2. \A i \in 1 .. 6 : /\ KeyOrder[i] \in Keys
                        /\ KeyOrder[i] \in SettingKeys <=> i <= 4
                        /\ KeyOrder[i] = "compression" <=> i = 4
                        /\ KeyOrder[i] = "freetext" <=> i = 3
  BY DEF KeyOrder, Keys, SettingKeys, CounterKeys
<1>3. \A k \in Keys : \E i \in 1 .. 6 : KeyOrder[i] = k
  <2>1. /\ KeyOrder[1] = "version" /\ KeyOrder[2] = "name"
        /\ KeyOrder[3] = "freetext" /\ KeyOrder[4] = "compression"
        /\ KeyOrder[5] = "counter_removed" /\ KeyOrder[6] = "counter"
    BY DEF KeyOrder
  <2>2. /\ 1 \in 1 .. 6 /\ 2 \in 1 .. 6 /\ 3 \in 1 .. 6
        /\ 4 \in 1 .. 6 /\ 5 \in 1 .. 6 /\ 6 \in 1 .. 6
    OBVIOUS
  <2>. QED  BY <2>1, <2>2, Zenon DEF Keys, SettingKeys, CounterKeys
<1>4. \A i, j \in 1 .. 6 : KeyOrder[i] = KeyOrder[j] => i = j
  BY DEF KeyOrder
<1>. QED  BY <1>1, <1>2, <1>3, <1>4

(* A handle that had its key goes on to the next, or is connected to a     *)
(* complete store.                                                         *)
LEMMA ProceedOK ==
  ASSUME NEW c \in ConnType, NEW m \in ModelType, NEW t \in TableSets,
         Prefix(m), Progress(c, m, t),
         c.pc \in {"fetch", "store"},
         \/ m[Key(c)] # None
         \/ c.flag /\ Key(c) = "compression"
  PROVE  /\ Proceed(c) \in ConnType
         /\ Progress(Proceed(c), m, t)
         /\ Unused(Proceed(c))
<1>0. c.at \in 1 .. 6
  BY OrderFacts DEF ConnType
<1>1. CASE c.at = 6
  <2>1. m[KeyOrder[6]] # None
    BY <1>1, OrderFacts DEF Key
  <2>2. \A k \in Keys : m[k] # None
    <3>. SUFFICES ASSUME NEW k \in Keys  PROVE m[k] # None
      OBVIOUS
    <3>1. PICK i \in 1 .. 6 : KeyOrder[i] = k
      BY OrderFacts
    <3>. QED  BY <2>1, <3>1 DEF Prefix
  <2>3. Proceed(c) = [c EXCEPT !.pc = "ready"]
    BY <1>1, OrderFacts DEF Proceed
  <2>. HIDE DEF Keys
  <2>. QED  BY <1>0, <1>1, <2>2, <2>3 DEF ConnType, Progress, Unused
<1>2. CASE c.at # 6
  <2>. DEFINE pc == IF c.at = 4 THEN "open" ELSE "fetch"
  <2>1. Proceed(c) = [c EXCEPT !.pc = pc, !.at = c.at + 1]
    BY <1>2, OrderFacts DEF Proceed, LastSetting
  <2>2. c.at + 1 \in 1 .. 6
    BY <1>0, <1>2
  <2>3. Proceed(c) \in ConnType
    BY <2>1, <2>2, OrderFacts DEF ConnType
  <2>4. ~c.flag => \A j \in 1 .. 6 : j < c.at + 1 => m[KeyOrder[j]] # None
    BY <1>0 DEF Progress, Key
  <2>. QED  BY <1>0, <1>2, <2>1, <2>3, <2>4 DEF ConnType, Progress, Unused
<1>. QED  BY <1>1, <1>2

(* Taking the value found for the caller's keeps a handle well formed: the *)
(* choice of tables depends on free text, which is settled before them.    *)
LEMMA AdoptOK ==
  ASSUME NEW c \in ConnType, NEW m \in ModelType, NEW t \in TableSets,
         Progress(c, m, t), c.pc = "fetch", m[Key(c)] # None
  PROVE  LET d == Adopt(c, m[Key(c)])
         IN /\ d \in ConnType
            /\ Progress(d, m, t)
            /\ d.pc = c.pc /\ d.at = c.at
<1>. DEFINE v == m[Key(c)]
<1>0. c.at \in 1 .. 6
  BY OrderFacts DEF ConnType
<1>1. CASE Key(c) \in SettingKeys
  <2>1. Adopt(c, v) = [c EXCEPT !.me[Key(c)] = v]
    BY <1>1 DEF Adopt
  <2>2. Adopt(c, v) \in ConnType
    BY <1>1, <2>1 DEF ConnType, ModelType, Settings, SettingKeys
  <2>3. c.at <= 4
    BY <1>0, <1>1, OrderFacts DEF Key
  <2>. QED  BY <2>1, <2>2, <2>3 DEF ConnType, Progress, Unused
<1>2. CASE Key(c) \notin SettingKeys
  BY <1>2 DEF Adopt
<1>. QED  BY <1>1, <1>2

(* What becomes of a handle whose lookup was answered.                     *)
LEMMA FoundOK ==
  ASSUME NEW c \in ConnType, NEW m \in ModelType, NEW t \in TableSets,
         Prefix(m), Progress(c, m, t), c.pc = "fetch", m[Key(c)] # None
  PROVE  LET d == IfFound(c, m[Key(c)])
         IN d # None => d \in ConnType /\ Progress(d, m, t) /\ Unused(d)
<1>. DEFINE d == Adopt(c, m[Key(c)])
<1>1. d \in ConnType /\ Progress(d, m, t) /\ d.pc = "fetch" /\ m[Key(d)] # None
  BY AdoptOK DEF Key
<1>. HIDE DEF d
<1>2. Proceed(d) \in ConnType /\ Progress(Proceed(d), m, t) /\ Unused(Proceed(d))
  BY <1>1, ProceedOK
<1>. QED  BY <1>2 DEF IfFound, d

(* What becomes of a handle whose lookup failed, or found nothing.         *)
LEMMA MissingOK ==
  ASSUME NEW c \in ConnType, NEW m \in ModelType, NEW t \in TableSets,
         Prefix(m), Progress(c, m, t), c.pc = "fetch"
  PROVE  LET d == IfMissing(c)
         IN d # None => d \in ConnType /\ Progress(d, m, t) /\ Unused(d)
<1>1. CASE ~c.flag
  <2>1. IfMissing(c) = [c EXCEPT !.pc = "store"]
    BY <1>1 DEF IfMissing
  <2>. QED  BY <1>1, <2>1 DEF ConnType, Progress, Unused
<1>2. CASE c.flag /\ Key(c) = "compression"
  <2>1. IfMissing(c) = Proceed(c)
    BY <1>2 DEF IfMissing
  <2>. QED  BY <1>2, <2>1, ProceedOK
<1>3. CASE c.flag /\ Key(c) # "compression"
  BY <1>3 DEF IfMissing
<1>. QED  BY <1>1, <1>2, <1>3

(* What is known of a handle stays known while the tables grow.            *)
LEMMA ProgressStays ==
  ASSUME NEW c \in ConnType, NEW m, NEW t, NEW m2, NEW t2,
         Progress(c, m, t), Grows(m, t, m2, t2)
  PROVE  Progress(c, m2, t2)
<1>1. \A j \in 1 .. 6 : KeyOrder[j] \in Keys
  BY OrderFacts
<1>. HIDE DEF Keys
<1>. QED  BY <1>1 DEF Progress, Grows

-----------------------------------------------------------------------------
(***************************************************************************)
(* The invariant: to what is known of the store, add that an iterator's    *)
(* handle is connected and counts its iterators, with those that           *)
(* rdfstore_elements lost.  Without the count, nothing would say that the  *)
(* close that frees a handle is the last.                                  *)
(***************************************************************************)
Of(h, it) == {x \in Iterators : it[x] = h}

Counted(c, h, it) ==
  c.pc = "ready" => /\ c.attached = Cardinality(Of(h, it)) + c.lost
                    /\ c.tobeclosed => c.attached > 0

AllCounted == \A h \in Handles : conn[h] # None => Counted(conn[h], h, iterator)

IInv == TypeOK /\ Prefix(model) /\ AllProgress /\ NoneFreedInUse /\ AllCounted

(* The iterators of a handle are finitely many. *)
LEMMA OfFinite ==
  ASSUME NEW h, NEW it
  PROVE  /\ IsFiniteSet(Of(h, it))
         /\ Cardinality(Of(h, it)) \in Nat
         /\ Cardinality(Of(h, it)) = 0 <=> Of(h, it) = {}
<1>1. IsFiniteSet(Of(h, it))
  BY IteratorsFinite, FS_Subset DEF Of
<1>. QED  BY <1>1, FS_CardinalityType, FS_EmptySet

(* A step of one handle that is connecting, whatever it does to the        *)
(* tables as long as they keep what they have.                             *)
LEMMA ConnectingKeeps ==
  ASSUME IInv, NEW h \in Handles, NEW d,
         ~Ready(h),
         conn' = [conn EXCEPT ![h] = d],
         d # None => d \in ConnType /\ Progress(d, model', tables') /\ Unused(d),
         model' \in ModelType, tables' \in TableSets, Prefix(model'),
         Grows(model, tables, model', tables'),
         iterator' = iterator, numbered' = numbered, stored' = stored,
         faults' \in 0 .. MaxFaults, crashes' = crashes
  PROVE  IInv'
<1>1. TypeOK'
  BY DEF IInv, TypeOK
<1>2. AllProgress'
  <2>. SUFFICES ASSUME NEW g \in Handles, conn'[g] # None
                PROVE  Progress(conn'[g], model', tables')
    BY DEF AllProgress
  <2>1. CASE g = h
    BY <2>1 DEF IInv, TypeOK
  <2>2. CASE g # h
    <3>1. conn'[g] = conn[g] /\ conn[g] \in ConnType /\ Progress(conn[g], model, tables)
      BY <2>2 DEF IInv, TypeOK, AllProgress
    <3>. QED  BY <3>1, ProgressStays
  <2>. QED  BY <2>1, <2>2
<1>3. \A x \in Iterators : iterator[x] # h
  BY NoneIsNoHandle, ConnectConstants DEF IInv, TypeOK, NoneFreedInUse
<1>4. NoneFreedInUse'
  BY <1>3 DEF IInv, TypeOK, NoneFreedInUse, Ready, At
<1>5. AllCounted'
  <2>. SUFFICES ASSUME NEW g \in Handles, conn'[g] # None
                PROVE  Counted(conn'[g], g, iterator)
    BY DEF AllCounted
  <2>1. CASE g = h
    <3>1. conn'[g] = d
      BY <2>1 DEF IInv, TypeOK
    <3>2. Of(h, iterator) = {}
      BY <1>3 DEF Of
    <3>3. Cardinality(Of(h, iterator)) = 0
      BY <3>2, OfFinite
    <3>. QED  BY <2>1, <3>1, <3>3 DEF Counted, Unused
  <2>2. CASE g # h
    BY <2>2 DEF IInv, TypeOK, AllCounted
  <2>. QED  BY <2>1, <2>2
<1>. QED  BY <1>1, <1>2, <1>4, <1>5 DEF IInv

(* Tables that do not change keep what they have. *)
LEMMA GrowsReflexive == \A m, t : Grows(m, t, m, t)
  BY DEF Grows

(* The start of a connection. *)
LEMMA ConnectKeeps ==
  ASSUME IInv, NEW h \in Handles,
         NEW flag \in BOOLEAN, NEW name \in Names, NEW freetext \in BOOLEAN,
         Connect(h, flag, name, freetext)
  PROVE  IInv'
<1>. DEFINE d == [pc |-> "fetch", at |-> 1, flag |-> flag,
                  me |-> [version |-> VersionOf[h], name |-> name,
                          freetext |-> freetext, compression |-> CodecOf[h]],
                  attached |-> 0, tobeclosed |-> FALSE, lost |-> 0]
<1>1. conn[h] = None /\ conn' = [conn EXCEPT ![h] = d]
  BY DEF Connect
<1>2. d \in ConnType
  BY ConnectConstants, OrderFacts DEF ConnType, Settings
<1>3. Progress(d, model', tables') /\ Unused(d)
  BY DEF Progress, Unused
<1>. HIDE DEF d
<1>4. ~Ready(h)
  BY <1>1 DEF Ready, At
<1>5. Grows(model, tables, model', tables')
  BY GrowsReflexive DEF Connect
<1>6. /\ model' \in ModelType /\ tables' \in TableSets /\ Prefix(model')
      /\ faults' \in 0 .. MaxFaults
  BY DEF Connect, IInv, TypeOK
<1>. QED  BY <1>1, <1>2, <1>3, <1>4, <1>5, <1>6, ConnectingKeeps DEF Connect

(* A lookup, answered or not. *)
LEMMA FetchKeeps ==
  ASSUME IInv, NEW h \in Handles, Fetch(h) \/ FetchFails(h)
  PROVE  IInv'
<1>. DEFINE c == conn[h]
            v == model[Key(c)]
<1>1. c \in ConnType /\ c.pc = "fetch" /\ ~Ready(h) /\ Progress(c, model, tables)
  BY DEF Fetch, FetchFails, At, Ready, IInv, TypeOK, AllProgress
<1>2. /\ model \in ModelType /\ tables \in TableSets /\ Prefix(model)
      /\ UNCHANGED <<model, tables, iterator, numbered, stored, crashes>>
      /\ faults' \in 0 .. MaxFaults
  BY ConnectConstants DEF Fetch, FetchFails, Fail, IInv, TypeOK
<1>3. PICK d : /\ conn' = [conn EXCEPT ![h] = d]
               /\ \/ d = IfMissing(c)
                  \/ v # None /\ d = IfFound(c, v)
  BY DEF Fetch, FetchFails
<1>4. d # None => d \in ConnType /\ Progress(d, model, tables) /\ Unused(d)
  BY <1>1, <1>2, <1>3, FoundOK, MissingOK
<1>. HIDE DEF c, v
<1>. QED  BY <1>1, <1>2, <1>3, <1>4, GrowsReflexive, ConnectingKeeps

(* Storing a key: it was the next one missing, so the keys that are there  *)
(* are still the first ones.                                               *)
LEMMA StoreKeeps ==
  ASSUME IInv, NEW h \in Handles, Store(h)
  PROVE  IInv'
<1>. DEFINE c == conn[h]
<1>1. c \in ConnType /\ c.pc = "store" /\ ~Ready(h) /\ Progress(c, model, tables)
  BY DEF Store, At, Ready, IInv, TypeOK, AllProgress
<1>2. c.at \in 1 .. 6 /\ Key(c) \in Keys
  BY <1>1, OrderFacts DEF ConnType, Key
<1>3. model' = [model EXCEPT ![Key(c)] = Initial(c)]
  BY DEF Store
<1>4. model' \in ModelType /\ Initial(c) # None
  <2>. DEFINE key == Key(c)
              value == Initial(c)
  <2>1. /\ c.me["version"] \in Versions /\ c.me["name"] \in Names
        /\ c.me["freetext"] \in BOOLEAN /\ c.me["compression"] \in Codecs
    BY <1>1 DEF ConnType, Settings
  <2>2. \/ key = "version" /\ value \in Versions
        \/ key = "name" /\ value \in Names
        \/ key = "freetext" /\ value \in BOOLEAN
        \/ key = "compression" /\ value \in Codecs
        \/ key = "counter_removed" /\ value = 0
        \/ key = "counter" /\ value = 0
    BY <1>2, <2>1 DEF Initial, Keys, SettingKeys, CounterKeys
  <2>3. model' = [model EXCEPT ![key] = value] /\ model \in ModelType
    BY <1>3 DEF IInv, TypeOK
  <2>. HIDE DEF key, value
  <2>4. model' \in ModelType
    BY <2>2, <2>3 DEF ModelType
  <2>5. value # None
    BY <2>2, ConnectConstants
  <2>. QED  BY <2>4, <2>5 DEF value
<1>5. \A k \in Keys : model'[k] = IF k = Key(c) THEN Initial(c) ELSE model[k]
  BY <1>2, <1>3 DEF IInv, TypeOK, ModelType, Keys, SettingKeys, CounterKeys
<1>. HIDE DEF Keys
<1>6. Grows(model, tables, model', tables')
  BY <1>4, <1>5 DEF Grows, Store
<1>7. Prefix(model')
  <2>. SUFFICES ASSUME NEW i \in 1 .. 6, NEW j \in 1 .. 6,
                       j < i, model'[KeyOrder[i]] # None
                PROVE  model'[KeyOrder[j]] # None
    BY DEF Prefix
  <2>1. CASE i = c.at
    <3>1. model[KeyOrder[j]] # None
      BY <1>1, <2>1 DEF Progress
    <3>. QED  BY <3>1, <1>6, OrderFacts DEF Grows
  <2>2. CASE i # c.at
    <3>1. model[KeyOrder[i]] # None
      BY <1>2, <1>5, <2>2, OrderFacts DEF Key
    <3>2. model[KeyOrder[j]] # None
      BY <3>1 DEF IInv, Prefix
    <3>. QED  BY <3>2, <1>6, OrderFacts DEF Grows
  <2>. QED  BY <2>1, <2>2
<1>8. model'[Key(c)] # None
  BY <1>2, <1>4, <1>5
<1>9. tables' \in TableSets /\ Progress(c, model', tables')
  BY <1>1, <1>6, ProgressStays DEF Store, IInv, TypeOK
<1>10. /\ Proceed(c) \in ConnType
       /\ Progress(Proceed(c), model', tables')
       /\ Unused(Proceed(c))
  BY <1>1, <1>4, <1>7, <1>8, <1>9, ProceedOK
<1>11. faults' \in 0 .. MaxFaults
  BY DEF Store, IInv, TypeOK
<1>12. conn' = [conn EXCEPT ![h] = Proceed(c)]
  BY DEF Store
<1>. HIDE DEF c
<1>. QED  BY <1>1, <1>4, <1>6, <1>7, <1>9, <1>10, <1>11, <1>12, ConnectingKeeps DEF Store

(* Opening the tables the settings ask for. *)
LEMMA OpenTablesKeeps ==
  ASSUME IInv, NEW h \in Handles, OpenTables(h)
  PROVE  IInv'
<1>. DEFINE c == conn[h]
            needed == Needed(c.me["freetext"])
            f == [c EXCEPT !.pc = "fetch"]
<1>1. c \in ConnType /\ c.pc = "open" /\ ~Ready(h) /\ Progress(c, model, tables)
  BY DEF OpenTables, At, Ready, IInv, TypeOK, AllProgress
<1>2. tables' \in TableSets /\ tables \subseteq tables'
  BY DEF OpenTables, IInv, TypeOK, TableSets, Needed
<1>3. Grows(model, tables, model', tables')
  BY <1>2 DEF Grows, OpenTables
<1>4. needed \subseteq tables' => f \in ConnType /\ Progress(f, model', tables') /\ Unused(f)
  BY <1>1 DEF OpenTables, ConnType, Progress, Unused
<1>5. \/ conn' = [conn EXCEPT ![h] = None]
      \/ needed \subseteq tables' /\ conn' = [conn EXCEPT ![h] = f]
  BY DEF OpenTables
<1>6. /\ model' \in ModelType /\ Prefix(model') /\ faults' \in 0 .. MaxFaults
  BY DEF OpenTables, IInv, TypeOK
<1>. HIDE DEF c, needed, f
<1>. QED  BY <1>1, <1>2, <1>3, <1>4, <1>5, <1>6, ConnectingKeeps DEF OpenTables

(* A request that fails on the way ends the connection. *)
LEMMA StoreOrOpenFailsKeeps ==
  ASSUME IInv, NEW h \in Handles, StoreOrOpenFails(h)
  PROVE  IInv'
<1>1. ~Ready(h)
  BY DEF StoreOrOpenFails, At, Ready
<1>2. /\ model' \in ModelType /\ tables' \in TableSets /\ Prefix(model')
      /\ faults' \in 0 .. MaxFaults
  BY ConnectConstants DEF StoreOrOpenFails, Fail, IInv, TypeOK
<1>. QED  BY <1>1, <1>2, GrowsReflexive, ConnectingKeeps DEF StoreOrOpenFails

-----------------------------------------------------------------------------
(* A step of a connected handle and its iterators: it stays connected and  *)
(* counts them, or it is freed and has none.                               *)
LEMMA UsingKeeps ==
  ASSUME IInv, NEW h \in Handles, NEW d, NEW it \in [Iterators -> Handles \cup {None}],
         Ready(h),
         conn' = [conn EXCEPT ![h] = d],
         iterator' = it,
         \A g \in Handles \ {h} : Of(g, it) = Of(g, iterator),
         \/ d = None /\ Of(h, it) = {}
         \/ /\ d \in ConnType /\ Counted(d, h, it)
            /\ d.pc = "ready" /\ d.at = conn[h].at
            /\ d.flag = conn[h].flag /\ d.me = conn[h].me,
         model' \in ModelType, Prefix(model'), Grows(model, tables, model', tables),
         stored' \in Nat, faults' \in 0 .. MaxFaults,
         UNCHANGED <<tables, numbered, crashes>>
  PROVE  IInv'
<1>1. TypeOK'
  BY DEF IInv, TypeOK
<1>2. Progress(conn[h], model', tables) /\ conn[h] \in ConnType /\ conn[h].pc = "ready"
  BY ProgressStays DEF IInv, TypeOK, AllProgress, Ready, At
<1>3. AllProgress'
  <2>. SUFFICES ASSUME NEW g \in Handles, conn'[g] # None
                PROVE  Progress(conn'[g], model', tables)
    BY DEF AllProgress
  <2>1. CASE g = h
    <3>1. conn'[g] = d /\ d # None
      BY <2>1 DEF IInv, TypeOK
    <3>. QED  BY <1>2, <3>1 DEF Progress
  <2>2. CASE g # h
    <3>1. conn'[g] = conn[g] /\ conn[g] \in ConnType /\ Progress(conn[g], model, tables)
      BY <2>2 DEF IInv, TypeOK, AllProgress
    <3>. QED  BY <3>1, ProgressStays
  <2>. QED  BY <2>1, <2>2
<1>4. NoneFreedInUse'
  <2>. SUFFICES ASSUME NEW x \in Iterators, it[x] # None
                PROVE  conn'[it[x]] # None /\ conn'[it[x]].pc = "ready"
    BY DEF NoneFreedInUse, Ready, At
  <2>1. it[x] \in Handles
    OBVIOUS
  <2>2. CASE it[x] = h
    <3>1. x \in Of(h, it)
      BY <2>2 DEF Of
    <3>2. conn'[h] = d
      BY DEF IInv, TypeOK
    <3>. QED  BY <2>2, <3>1, <3>2, NoneIsNoHandle
  <2>3. CASE it[x] # h
    <3>1. x \in Of(it[x], iterator)
      BY <2>1, <2>3 DEF Of
    <3>2. iterator[x] = it[x]
      BY <3>1 DEF Of
    <3>. QED  BY <2>1, <2>3, <3>2 DEF IInv, TypeOK, NoneFreedInUse, Ready, At
  <2>. QED  BY <2>2, <2>3
<1>5. AllCounted'
  <2>. SUFFICES ASSUME NEW g \in Handles, conn'[g] # None
                PROVE  Counted(conn'[g], g, it)
    BY DEF AllCounted
  <2>1. CASE g = h
    BY <2>1 DEF IInv, TypeOK
  <2>2. CASE g # h
    BY <2>2 DEF IInv, TypeOK, AllCounted, Counted
  <2>. QED  BY <2>1, <2>2
<1>. QED  BY <1>1, <1>3, <1>4, <1>5 DEF IInv

(* What a step that leaves the tables alone does for UsingKeeps. *)
LEMMA TablesKept ==
  ASSUME IInv, UNCHANGED <<model, stored, faults>>
  PROVE  /\ model' \in ModelType /\ Prefix(model') /\ Grows(model, tables, model', tables)
         /\ stored' \in Nat /\ faults' \in 0 .. MaxFaults
BY GrowsReflexive DEF IInv, TypeOK

(* A new iterator is counted. *)
LEMMA AttachKeeps ==
  ASSUME IInv, NEW h \in Handles, NEW x \in Iterators, Ready(h), iterator[x] = None,
         iterator' = [iterator EXCEPT ![x] = h],
         conn' = [conn EXCEPT ![h] = Attached(@)],
         UNCHANGED <<model, tables, numbered, stored, faults, crashes>>
  PROVE  IInv'
<1>. DEFINE it == [iterator EXCEPT ![x] = h]
            d  == Attached(conn[h])
<1>1. /\ conn[h] \in ConnType /\ conn[h].pc = "ready"
      /\ Counted(conn[h], h, iterator)
  BY DEF IInv, TypeOK, AllCounted, Ready, At
<1>2. h # None
  BY ConnectConstants
<1>3. it \in [Iterators -> Handles \cup {None}]
  BY DEF IInv, TypeOK
<1>4. \A g \in Handles \ {h} : Of(g, it) = Of(g, iterator)
  BY ConnectConstants DEF Of, IInv, TypeOK
<1>5. Of(h, it) = Of(h, iterator) \cup {x} /\ x \notin Of(h, iterator)
  BY <1>2 DEF Of, IInv, TypeOK
<1>6. Cardinality(Of(h, it)) = Cardinality(Of(h, iterator)) + 1
  BY <1>5, OfFinite, FS_AddElement
<1>7. d \in ConnType /\ Counted(d, h, it)
  BY <1>1, <1>6, OfFinite DEF ConnType, Attached, Counted
<1>8. /\ d.pc = "ready" /\ d.at = conn[h].at
      /\ d.flag = conn[h].flag /\ d.me = conn[h].me
  BY <1>1 DEF Attached, ConnType
<1>9. conn' = [conn EXCEPT ![h] = d]
  OBVIOUS
<1>. HIDE DEF d, it
<1>10. UNCHANGED <<model, tables, numbered, stored, faults, crashes>>
  OBVIOUS
<1>. QED  BY <1>3, <1>4, <1>7, <1>8, <1>9, <1>10, TablesKept, UsingKeeps DEF it

(* The close of an iterator frees a handle that waits for it exactly when  *)
(* it was the last.                                                        *)
LEMMA CloseKeeps ==
  ASSUME IInv, NEW x \in Iterators, Close(x)
  PROVE  IInv'
<1>. DEFINE h  == iterator[x]
            it == [iterator EXCEPT ![x] = None]
            c  == conn[h]
            d  == Detached(c)
<1>1. h \in Handles /\ Ready(h)
  BY DEF Close, IInv, TypeOK, NoneFreedInUse
<1>2. c \in ConnType /\ c.pc = "ready" /\ Counted(c, h, iterator)
  BY <1>1 DEF IInv, TypeOK, AllCounted, Ready, At
<1>3. it \in [Iterators -> Handles \cup {None}]
  BY DEF IInv, TypeOK
<1>4. \A g \in Handles \ {h} : Of(g, it) = Of(g, iterator)
  BY ConnectConstants DEF Of, IInv, TypeOK
<1>5. Of(h, it) = Of(h, iterator) \ {x} /\ x \in Of(h, iterator)
  BY <1>1, ConnectConstants DEF Of, IInv, TypeOK
<1>6. Cardinality(Of(h, it)) = Cardinality(Of(h, iterator)) - 1
  BY <1>5, OfFinite, FS_RemoveElement
<1>7. conn' = [conn EXCEPT ![h] = d] /\ iterator' = it
  BY DEF Close
<1>8. UNCHANGED <<model, tables, numbered, stored, faults, crashes>>
  BY DEF Close
<1>9. \/ d = None /\ Of(h, it) = {}
      \/ /\ d \in ConnType /\ Counted(d, h, it)
         /\ d.pc = "ready" /\ d.at = c.at /\ d.flag = c.flag /\ d.me = c.me
  <2>. DEFINE e == [c EXCEPT !.attached = @ - 1]
  <2>1. /\ e \in ConnType /\ e.attached = Cardinality(Of(h, it)) + e.lost
        /\ e.tobeclosed = c.tobeclosed /\ e.lost \in Nat
        /\ e.pc = "ready" /\ e.at = c.at /\ e.flag = c.flag /\ e.me = c.me
    BY <1>2, <1>6, OfFinite DEF ConnType, Counted
  <2>2. d = IF e.tobeclosed THEN Disconnected(e) ELSE e
    BY DEF Detached
  <2>. HIDE DEF e, c, h, it, d
  <2>3. CASE ~e.tobeclosed
    BY <2>1, <2>2, <2>3 DEF Counted
  <2>4. CASE e.tobeclosed /\ e.attached > 0
    BY <2>1, <2>2, <2>4 DEF Counted, Disconnected, ConnType
  <2>5. CASE e.tobeclosed /\ ~(e.attached > 0)
    BY <2>1, <2>2, <2>5, OfFinite DEF Disconnected
  <2>. QED  BY <2>3, <2>4, <2>5
<1>. HIDE DEF d, h, it
<1>. QED  BY <1>1, <1>3, <1>4, <1>7, <1>8, <1>9, TablesKept, UsingKeeps

(* A disconnection frees the handle when nothing is attached to it. *)
LEMMA DisconnectKeeps ==
  ASSUME IInv, NEW h \in Handles, Disconnect(h)
  PROVE  IInv'
<1>. DEFINE c == conn[h]
            d == Disconnected(c)
<1>1. /\ Ready(h) /\ c \in ConnType /\ c.pc = "ready"
      /\ Counted(c, h, iterator)
  BY DEF Disconnect, InUse, IInv, TypeOK, AllCounted, Ready, At
<1>2. \/ d = None /\ Of(h, iterator) = {}
      \/ /\ d \in ConnType /\ Counted(d, h, iterator)
         /\ d.pc = "ready" /\ d.at = c.at /\ d.flag = c.flag /\ d.me = c.me
  <2>1. CASE c.attached > 0
    BY <1>1, <2>1 DEF Counted, Disconnected, ConnType
  <2>2. CASE ~(c.attached > 0)
    BY <1>1, <2>2, OfFinite DEF Counted, Disconnected, ConnType
  <2>. QED  BY <2>1, <2>2
<1>3. conn' = [conn EXCEPT ![h] = d] /\ iterator' = iterator
  BY DEF Disconnect
<1>4. iterator \in [Iterators -> Handles \cup {None}]
  BY DEF IInv, TypeOK
<1>5. UNCHANGED <<model, tables, numbered, stored, faults, crashes>>
  BY DEF Disconnect
<1>. HIDE DEF d
<1>. QED  BY <1>1, <1>2, <1>3, <1>4, <1>5, TablesKept, UsingKeeps

(* A process that dies takes its handle and its iterators with it. *)
LEMMA CrashKeeps ==
  ASSUME IInv, NEW h \in Handles, Crash(h)
  PROVE  IInv'
<1>1. TypeOK'
  BY ConnectConstants DEF Crash, IInv, TypeOK
<1>2. Prefix(model') /\ AllProgress'
  BY DEF Crash, IInv, TypeOK, AllProgress
<1>3. NoneFreedInUse'
  BY ConnectConstants DEF Crash, IInv, TypeOK, NoneFreedInUse, Ready, At
<1>4. \A g \in Handles \ {h} : Of(g, iterator') = Of(g, iterator)
  BY ConnectConstants DEF Crash, Of
<1>5. AllCounted'
  BY <1>4 DEF Crash, IInv, TypeOK, AllCounted, Counted
<1>. QED  BY <1>1, <1>2, <1>3, <1>5 DEF IInv

(* The counters of a connected handle's store exist, and stay numbers. *)
LEMMA CountKeeps ==
  ASSUME IInv, NEW h \in Handles, Number(h) \/ Remove(h)
  PROVE  IInv'
<1>1. \A k \in Keys : model[k] # None
  BY DEF Number, Remove, InUse, At, IInv, AllProgress, Progress
<1>2. model["counter"] \in Nat /\ model["counter_removed"] \in Nat
  BY <1>1 DEF IInv, TypeOK, ModelType, Keys, CounterKeys
<1>3. PICK k \in CounterKeys : model' = [model EXCEPT ![k] = @ + 1]
  BY DEF Number, Remove, CountRemoval, CounterKeys
<1>4. model[k] + 1 \in Nat /\ model[k] + 1 # None
  BY <1>2, ConnectConstants DEF CounterKeys
<1>5. model' \in ModelType /\ \A j \in Keys : model'[j] # None
  BY <1>1, <1>3, <1>4 DEF IInv, TypeOK, ModelType, Keys, SettingKeys, CounterKeys
<1>6. numbered' \in [0 .. MaxStatements -> Nat] /\ stored' \in Nat
  <2>1. CASE Number(h)
    <3>1. model["counter"] \in 0 .. MaxStatements
      BY <1>2, <2>1, ConnectConstants DEF Number
    <3>. QED  BY <2>1, <3>1 DEF Number, IInv, TypeOK
  <2>2. CASE Remove(h)
    BY <2>2 DEF Remove, CountRemoval, IInv, TypeOK
  <2>. QED  BY <2>1, <2>2
<1>7. TypeOK'
  BY <1>5, <1>6 DEF Number, Remove, IInv, TypeOK
<1>8. Prefix(model')
  BY <1>5, OrderFacts DEF Prefix
<1>. HIDE DEF Keys
<1>9. Grows(model, tables, model', tables')
  BY <1>5 DEF Number, Remove, Grows
<1>10. AllProgress'
  <2>. SUFFICES ASSUME NEW g \in Handles, conn[g] # None
                PROVE  Progress(conn[g], model', tables')
    BY DEF Number, Remove, AllProgress
  <2>. QED  BY <1>9, ProgressStays DEF IInv, TypeOK, AllProgress
<1>11. NoneFreedInUse' /\ AllCounted'
  BY DEF Number, Remove, IInv, NoneFreedInUse, AllCounted, Ready, At
<1>. QED  BY <1>7, <1>8, <1>10, <1>11 DEF IInv

(* A removal counted: the counter stays a number. *)
LEMMA RemovalGrows ==
  ASSUME IInv, NEW h \in Handles, Ready(h), CountRemoval
  PROVE  /\ model' \in ModelType /\ Prefix(model') /\ Grows(model, tables, model', tables)
         /\ stored' \in Nat
<1>1. \A k \in Keys : model[k] # None
  BY DEF Ready, At, IInv, AllProgress, Progress
<1>2. model["counter_removed"] \in Nat
  BY <1>1 DEF IInv, TypeOK, ModelType, Keys, CounterKeys
<1>3. model["counter_removed"] + 1 \in Nat /\ model["counter_removed"] + 1 # None
  BY <1>2, ConnectConstants
<1>4. model' = [model EXCEPT !["counter_removed"] = @ + 1] /\ stored' \in Nat
  BY DEF CountRemoval, IInv, TypeOK
<1>5. model' \in ModelType /\ \A j \in Keys : model'[j] # None
  BY <1>1, <1>3, <1>4 DEF IInv, TypeOK, ModelType, Keys, SettingKeys, CounterKeys
<1>6. Prefix(model')
  BY <1>5, OrderFacts DEF Prefix
<1>. HIDE DEF Keys
<1>. QED  BY <1>4, <1>5, <1>6 DEF Grows

(* The handle of an iterator that was lost. *)
LEMMA LostOK ==
  ASSUME NEW c \in ConnType
  PROVE  LET d == AttachedAndLost(c)
         IN /\ d \in ConnType
            /\ d.attached = c.attached + 1 /\ d.lost = c.lost + 1
            /\ d.pc = c.pc /\ d.at = c.at /\ d.flag = c.flag /\ d.me = c.me
            /\ d.tobeclosed = c.tobeclosed
<1>. DEFINE e == [c EXCEPT !.attached = @ + 1]
            d == [e EXCEPT !.lost = @ + 1]
<1>1. /\ e \in ConnType
      /\ e.attached = c.attached + 1 /\ e.lost = c.lost
      /\ e.pc = c.pc /\ e.at = c.at /\ e.flag = c.flag /\ e.me = c.me
      /\ e.tobeclosed = c.tobeclosed
  BY DEF ConnType
<1>. HIDE DEF e
<1>2. /\ d \in ConnType
      /\ d.attached = e.attached /\ d.lost = e.lost + 1
      /\ d.pc = e.pc /\ d.at = e.at /\ d.flag = e.flag /\ d.me = e.me
      /\ d.tobeclosed = e.tobeclosed
  BY <1>1 DEF ConnType
<1>3. AttachedAndLost(c) = d
  BY DEF AttachedAndLost, e, ConnType
<1>. HIDE DEF d
<1>. QED  BY <1>1, <1>2, <1>3

(* An iterator that rdfstore_elements loses stays counted, as lost. *)
LEMMA OpenFailsKeeps ==
  ASSUME IInv, NEW h \in Handles, OpenFails(h)
  PROVE  IInv'
<1>. DEFINE d == AttachedAndLost(conn[h])
<1>1. Ready(h)
  BY ConnectConstants DEF OpenFails, InUse, Ready, IInv, NoneFreedInUse
<1>2. /\ conn[h] \in ConnType /\ conn[h].pc = "ready"
      /\ Counted(conn[h], h, iterator)
  BY <1>1 DEF IInv, TypeOK, AllCounted, Ready, At
<1>3. d \in ConnType /\ Counted(d, h, iterator)
  <2>1. /\ d \in ConnType /\ d.attached = conn[h].attached + 1 /\ d.lost = conn[h].lost + 1
        /\ d.tobeclosed = conn[h].tobeclosed /\ conn[h].lost \in Nat
    BY <1>2, LostOK DEF ConnType
  <2>2. Cardinality(Of(h, iterator)) \in Nat
    BY OfFinite
  <2>. HIDE DEF d
  <2>. QED  BY <1>2, <2>1, <2>2 DEF Counted
<1>4. /\ d.pc = "ready" /\ d.at = conn[h].at
      /\ d.flag = conn[h].flag /\ d.me = conn[h].me
  BY <1>2, LostOK
<1>5. conn' = [conn EXCEPT ![h] = d] /\ iterator' = iterator
  BY DEF OpenFails
<1>6. iterator \in [Iterators -> Handles \cup {None}]
  BY DEF IInv, TypeOK
<1>7. UNCHANGED <<tables, numbered, crashes>>
  BY DEF OpenFails
<1>8. /\ model' \in ModelType /\ Prefix(model') /\ Grows(model, tables, model', tables)
      /\ stored' \in Nat /\ faults' \in 0 .. MaxFaults
  <2>1. CASE Fail /\ UNCHANGED <<model, stored>>
    BY <2>1, GrowsReflexive, ConnectConstants DEF Fail, IInv, TypeOK
  <2>2. CASE CountRemoval /\ UNCHANGED faults
    BY <1>1, <2>2, RemovalGrows DEF IInv, TypeOK
  <2>. QED  BY <2>1, <2>2 DEF OpenFails
<1>. HIDE DEF d
<1>. QED  BY <1>1, <1>3, <1>4, <1>5, <1>6, <1>7, <1>8, UsingKeeps

(* The invariant holds at the start: a store is new or complete. *)
LEMMA IInvInit == Init => IInv
<1>. SUFFICES ASSUME Init  PROVE IInv
  OBVIOUS
<1>1. PICK s \in Stores :
        /\ model = s.model
        /\ tables = s.tables
        /\ numbered = [i \in 0 .. MaxStatements |->
                         IF s # NoStore /\ i < s.model["counter"] THEN 1 ELSE 0]
        /\ stored = IF s = NoStore THEN 0
                    ELSE s.model["counter"] - s.model["counter_removed"]
  BY DEF Init
<1>2. /\ s.model \in ModelType
      /\ s.tables \in TableSets
      /\ s = NoStore \/ IsComplete(s)
  BY StoresWellFormed
<1>3. stored \in Nat
  <2>1. CASE s = NoStore
    BY <1>1, <2>1
  <2>2. CASE s # NoStore
    <3>1. IsComplete(s)
      BY <1>2, <2>2
    <3>2. s.model["counter"] \in Nat /\ s.model["counter_removed"] \in Nat
      BY <1>2, <3>1 DEF IsComplete, ModelType, Keys, CounterKeys
    <3>. QED  BY <1>1, <2>2, <3>1, <3>2 DEF IsComplete
  <2>. QED  BY <2>1, <2>2
<1>4. TypeOK
  BY <1>1, <1>2, <1>3, ConnectConstants DEF Init, TypeOK
<1>5. Prefix(model)
  <2>1. CASE s = NoStore
    BY <1>1, <2>1, OrderFacts DEF Prefix, NoStore
  <2>2. CASE IsComplete(s)
    BY <1>1, <2>2, OrderFacts DEF Prefix, IsComplete
  <2>. QED  BY <1>2, <2>1, <2>2
<1>6. AllProgress /\ NoneFreedInUse /\ AllCounted
  BY DEF Init, AllProgress, NoneFreedInUse, AllCounted
<1>. QED  BY <1>4, <1>5, <1>6 DEF IInv

(* Every step keeps the invariant. *)
LEMMA IInvNext == IInv /\ [Next]_vars => IInv'
<1>. SUFFICES ASSUME IInv, [Next]_vars  PROVE IInv'
  OBVIOUS
<1>1. CASE UNCHANGED vars
  <2>1. /\ model' = model /\ tables' = tables /\ conn' = conn /\ iterator' = iterator
        /\ numbered' = numbered /\ stored' = stored /\ faults' = faults /\ crashes' = crashes
    BY <1>1 DEF vars
  <2>. QED  BY <2>1 DEF IInv, TypeOK, AllProgress, NoneFreedInUse, Ready, At, AllCounted
<1>2. ASSUME NEW h \in Handles, ConnectStep(h)  PROVE IInv'
  BY <1>2, ConnectKeeps, FetchKeeps, StoreKeeps, OpenTablesKeeps, StoreOrOpenFailsKeeps
     DEF ConnectStep
<1>3. ASSUME NEW h \in Handles, UseStep(h)  PROVE IInv'
  <2>1. ASSUME NEW x \in Iterators, Open(h, x)  PROVE IInv'
    BY <2>1, AttachKeeps DEF Open, InUse, Ready
  <2>. QED  BY <1>3, <2>1, CountKeeps, OpenFailsKeeps, DisconnectKeeps, CrashKeeps DEF UseStep
<1>4. ASSUME NEW x \in Iterators, IteratorStep(x)  PROVE IInv'
  <2>1. ASSUME NEW y \in Iterators, Derive(x, y)  PROVE IInv'
    <3>1. iterator[x] \in Handles /\ Ready(iterator[x])
      BY <2>1 DEF Derive, IInv, TypeOK, NoneFreedInUse
    <3>. QED  BY <2>1, <3>1, AttachKeeps DEF Derive
  <2>. QED  BY <1>4, <2>1, CloseKeeps DEF IteratorStep
<1>. QED  BY <1>1, <1>2, <1>3, <1>4 DEF Next

-----------------------------------------------------------------------------
(* Every variable of the handles' life has its type, in particular the     *)
(* numbers in the model table that handles count with.                     *)
THEOREM ConnectTypeCorrect == Spec => []TypeOK
<1>1. IInv => TypeOK
  BY DEF IInv
<1>. QED  BY <1>1, IInvInit, IInvNext, PTL DEF Spec

(* A handle rdfstore_connect returned, read-only or not, has a complete    *)
(* store, in whatever way handles create it together, fail and die.        *)
THEOREM ConnectedToComplete == Spec => []OpenIsComplete
<1>1. IInv => OpenIsComplete
  <2>. SUFFICES ASSUME IInv, NEW h \in Handles, Ready(h)
                PROVE  /\ \A k \in Keys : model[k] # None
                       /\ Needed(conn[h].me["freetext"]) \subseteq tables
    BY DEF OpenIsComplete
  <2>1. Progress(conn[h], model, tables) /\ conn[h].pc = "ready" /\ conn[h] \in ConnType
    BY DEF IInv, TypeOK, AllProgress, Ready, At
  <2>. QED  BY <2>1 DEF Progress
<1>. QED  BY <1>1, IInvInit, IInvNext, PTL DEF Spec

(* No iterator is left with a handle that was freed.                       *)
THEOREM HandleOutlivesIterators == Spec => []NoneFreedInUse
<1>1. IInv => NoneFreedInUse
  BY DEF IInv
<1>. QED  BY <1>1, IInvInit, IInvNext, PTL DEF Spec

(* The last iterator to be closed frees a handle that was disconnected, if *)
(* rdfstore_elements lost none of those it counted.                        *)
THEOREM LastIteratorFrees == Spec => []NoneLeftOpen
<1>1. IInv => NoneLeftOpen
  <2>. SUFFICES ASSUME IInv, NEW h \in Handles, conn[h] # None, conn[h].tobeclosed,
                       conn[h].lost = 0
                PROVE  \E x \in Iterators : iterator[x] = h
    BY DEF NoneLeftOpen
  <2>1. Of(h, iterator) # {}
    BY OfFinite DEF IInv, TypeOK, AllProgress, Progress, Unused, AllCounted, Counted
  <2>. QED  BY <2>1 DEF Of
<1>. QED  BY <1>1, IInvInit, IInvNext, PTL DEF Spec

-----------------------------------------------------------------------------
(***************************************************************************)
(* Stores that are already there, and lookups that do not fail: nothing is *)
(* missing, so no handle ever stores a key, and the settings of the store  *)
(* are for ever what they were.                                            *)
(***************************************************************************)
Calm == MaxFaults = 0 /\ NoStore \notin Stores

Settled(c, m) ==
  /\ c.pc # "store"
  /\ \A j \in 1 .. 4 : j < c.at => c.me[KeyOrder[j]] = m[KeyOrder[j]]

Balanced ==
  /\ model["counter"] - model["counter_removed"] = stored
  /\ \A i \in 0 .. MaxStatements :
       numbered[i] = IF i < model["counter"] THEN 1 ELSE 0

CalmInv ==
  /\ IInv
  /\ \A k \in Keys : model[k] # None
  /\ \A h \in Handles : conn[h] # None => Settled(conn[h], model)
  /\ Balanced

(* A lookup that finds a setting settles it. *)
LEMMA FoundSettles ==
  ASSUME NEW c \in ConnType, NEW m \in ModelType, c.pc = "fetch", Settled(c, m),
         m[Key(c)] # None, IfFound(c, m[Key(c)]) # None
  PROVE  Settled(IfFound(c, m[Key(c)]), m)
<1>. DEFINE v == m[Key(c)]
            d == Adopt(c, v)
<1>0. c.at \in 1 .. 6
  BY OrderFacts DEF ConnType
<1>1. IfFound(c, v) = Proceed(d)
  BY DEF IfFound
<1>2. /\ d.at = c.at /\ d.pc = "fetch"
      /\ \A j \in 1 .. 4 : j <= c.at => d.me[KeyOrder[j]] = m[KeyOrder[j]]
  <2>1. CASE c.at <= 4
    <3>1. Key(c) \in SettingKeys
      BY <1>0, <2>1, OrderFacts DEF Key
    <3>2. d = [c EXCEPT !.me[Key(c)] = v]
      BY <3>1 DEF Adopt
    <3>3. \A j \in 1 .. 4 : d.me[KeyOrder[j]] = IF j = c.at THEN v ELSE c.me[KeyOrder[j]]
      BY <1>0, <2>1, <3>1, <3>2, OrderFacts DEF ConnType, Settings, Key, SettingKeys
    <3>. QED  BY <1>0, <2>1, <3>2, <3>3 DEF ConnType, Settled, Key
  <2>2. CASE c.at > 4
    <3>1. d = c
      BY <1>0, <2>2, OrderFacts DEF Adopt, Key
    <3>. QED  BY <1>0, <2>2, <3>1 DEF Settled
  <2>. QED  BY <1>0, <2>1, <2>2
<1>3. d \in ConnType
  BY DEF Adopt, ConnType, ModelType, Settings, SettingKeys
<1>4. /\ Proceed(d).pc # "store" /\ Proceed(d).me = d.me
      /\ Proceed(d).at = IF c.at = 6 THEN 6 ELSE c.at + 1
  BY <1>0, <1>2, <1>3, OrderFacts DEF Proceed, ConnType, LastSetting
<1>. HIDE DEF d, v
<1>. QED  BY <1>0, <1>1, <1>2, <1>4 DEF Settled, v

(* A new connection to a complete store has nothing settled yet, and one   *)
(* that ends has nothing to keep.                                          *)
LEMMA CalmKept ==
  ASSUME CalmInv, IInv', NEW h \in Handles, NEW d,
         conn' = [conn EXCEPT ![h] = d],
         d # None => Settled(d, model),
         model' = model, numbered' = numbered, stored' = stored
  PROVE  CalmInv'
<1>1. \A g \in Handles : conn'[g] = IF g = h THEN d ELSE conn[g]
  BY DEF CalmInv, IInv, TypeOK
<1>. HIDE DEF Keys
<1>. QED  BY <1>1 DEF CalmInv, Balanced

(* With nothing missing and no fault, every step keeps all of this.        *)
LEMMA CalmNext == Calm /\ CalmInv /\ [Next]_vars => CalmInv'
<1>. SUFFICES ASSUME Calm, CalmInv, [Next]_vars  PROVE CalmInv'
  OBVIOUS
<1>1. IInv /\ IInv'
  BY IInvNext DEF CalmInv
<1>2. ~Fail
  BY <1>1 DEF Calm, Fail, IInv, TypeOK
<1>3. CASE UNCHANGED vars
  <2>1. model' = model /\ conn' = conn /\ numbered' = numbered /\ stored' = stored
    BY <1>3 DEF vars
  <2>. QED  BY <1>1, <2>1 DEF CalmInv, Balanced
<1>4. ASSUME NEW h \in Handles, ConnectStep(h)  PROVE CalmInv'
  <2>1. ASSUME NEW flag \in BOOLEAN, NEW name \in Names, NEW freetext \in BOOLEAN,
               Connect(h, flag, name, freetext)
        PROVE  CalmInv'
    <3>. DEFINE d == [pc |-> "fetch", at |-> 1, flag |-> flag,
                      me |-> [version |-> VersionOf[h], name |-> name,
                              freetext |-> freetext, compression |-> CodecOf[h]],
                      attached |-> 0, tobeclosed |-> FALSE, lost |-> 0]
    <3>1. Settled(d, model)
      BY DEF Settled
    <3>2. conn' = [conn EXCEPT ![h] = d]
      BY <2>1 DEF Connect
    <3>. HIDE DEF d
    <3>. QED  BY <1>1, <2>1, <3>1, <3>2, CalmKept DEF Connect
  <2>2. CASE Fetch(h)
    <3>. DEFINE c == conn[h]
                d == IfFound(c, model[Key(c)])
    <3>1. c \in ConnType /\ c.pc = "fetch" /\ Settled(c, model) /\ model \in ModelType
      BY <1>1, <2>2 DEF Fetch, At, CalmInv, IInv, TypeOK
    <3>2. model[Key(c)] # None
      BY <3>1, OrderFacts DEF CalmInv, ConnType, Key
    <3>3. conn' = [conn EXCEPT ![h] = d]
      BY <2>2, <3>2 DEF Fetch
    <3>4. d # None => Settled(d, model)
      BY <3>1, <3>2, FoundSettles
    <3>. HIDE DEF c, d
    <3>. QED  BY <1>1, <2>2, <3>3, <3>4, CalmKept DEF Fetch
  <2>3. ~FetchFails(h) /\ ~StoreOrOpenFails(h)
    BY <1>2 DEF FetchFails, StoreOrOpenFails
  <2>4. ~Store(h)
    BY DEF Store, At, CalmInv, Settled
  <2>5. CASE OpenTables(h)
    <3>1. PICK d : /\ conn' = [conn EXCEPT ![h] = d]
                   /\ d = None \/ d = [conn[h] EXCEPT !.pc = "fetch"]
      BY <2>5 DEF OpenTables
    <3>2. d # None => Settled(d, model)
      BY <1>1, <2>5, <3>1 DEF OpenTables, At, CalmInv, IInv, TypeOK, ConnType, Settled
    <3>. QED  BY <1>1, <2>5, <3>1, <3>2, CalmKept DEF OpenTables
  <2>. QED  BY <1>4, <2>1, <2>2, <2>3, <2>4, <2>5 DEF ConnectStep
<1>5. ASSUME NEW h \in Handles, conn[h] # None, NEW d, d # None, Settled(d, model),
             conn' = [conn EXCEPT ![h] = d], numbered' = numbered, CountRemoval
      PROVE  CalmInv'
  <2>1. /\ model["counter"] \in Nat /\ model["counter_removed"] \in Nat
        /\ model \in ModelType /\ stored \in Nat
    BY <1>1 DEF CalmInv, IInv, TypeOK, ModelType, Keys, CounterKeys
  <2>2. /\ \A k \in SettingKeys : model'[k] = model[k]
        /\ \A k \in Keys : model'[k] # None
    <3>2. model["counter_removed"] + 1 # None
      BY <2>1, ConnectConstants
    <3>. QED  BY <1>5, <2>1, <3>2
              DEF CountRemoval, CalmInv, ModelType, Keys, SettingKeys, CounterKeys
  <2>3. \A g \in Handles : conn'[g] # None => Settled(conn'[g], model')
    <3>1. \A j \in 1 .. 4 : KeyOrder[j] \in SettingKeys
      BY OrderFacts
    <3>2. \A g \in Handles : conn'[g] = IF g = h THEN d ELSE conn[g]
      BY <1>1, <1>5 DEF IInv, TypeOK
    <3>3. \A g \in Handles : conn'[g] # None => Settled(conn'[g], model)
      BY <1>5, <3>2 DEF CalmInv
    <3>. HIDE DEF Keys
    <3>. QED  BY <2>2, <3>1, <3>3 DEF Settled
  <2>4. Balanced'
    <3>1. /\ model'["counter"] = model["counter"]
          /\ model'["counter_removed"] = model["counter_removed"] + 1
      BY <1>5, <2>1 DEF CountRemoval, ModelType
    <3>2. stored' = stored - 1 /\ numbered' = numbered
      BY <1>5 DEF CountRemoval
    <3>. QED  BY <2>1, <3>1, <3>2 DEF CalmInv, Balanced
  <2>. QED  BY <1>1, <2>2, <2>3, <2>4 DEF CalmInv
<1>6. ASSUME NEW h \in Handles, Number(h)  PROVE CalmInv'
  <2>1. /\ model["counter"] \in Nat /\ model["counter_removed"] \in Nat
        /\ model \in ModelType /\ stored \in Nat
        /\ numbered \in [0 .. MaxStatements -> Nat]
    BY <1>1 DEF CalmInv, IInv, TypeOK, ModelType, Keys, CounterKeys
  <2>2. /\ conn' = conn
        /\ \A k \in SettingKeys : model'[k] = model[k]
        /\ \A k \in Keys : model'[k] # None
    <3>2. model["counter"] + 1 # None
      BY <2>1, ConnectConstants
    <3>. QED  BY <1>6, <2>1, <3>2
              DEF Number, CalmInv, ModelType, Keys, SettingKeys, CounterKeys
  <2>3. \A g \in Handles : conn'[g] # None => Settled(conn'[g], model')
    <3>1. \A j \in 1 .. 4 : KeyOrder[j] \in SettingKeys
      BY OrderFacts
    <3>. HIDE DEF Keys
    <3>. QED  BY <2>2, <3>1 DEF CalmInv, Settled
  <2>4. Balanced'
    <3>1. /\ model'["counter"] = model["counter"] + 1
          /\ model'["counter_removed"] = model["counter_removed"]
      BY <1>6, <2>1 DEF Number, ModelType
    <3>2. stored' = stored + 1
      BY <1>6 DEF Number
    <3>3. \A i \in 0 .. MaxStatements :
            numbered'[i] = IF i = model["counter"] THEN numbered[i] + 1 ELSE numbered[i]
      BY <1>6, <2>1 DEF Number
    <3>. QED  BY <2>1, <3>1, <3>2, <3>3 DEF CalmInv, Balanced
  <2>. QED  BY <1>1, <2>2, <2>3, <2>4 DEF CalmInv
<1>7. ASSUME NEW h \in Handles, NEW x \in Iterators, conn[h] # None,
             conn' = [conn EXCEPT ![h] = Attached(@)],
             model' = model, numbered' = numbered, stored' = stored
      PROVE  CalmInv'
  <2>1. Settled(Attached(conn[h]), model)
    BY <1>1, <1>7 DEF CalmInv, IInv, TypeOK, ConnType, Attached, Settled
  <2>. QED  BY <1>1, <1>7, <2>1, CalmKept
<1>8. ASSUME NEW h \in Handles, UseStep(h)  PROVE CalmInv'
  <2>1. CASE Disconnect(h)
    <3>. DEFINE d == Disconnected(conn[h])
    <3>1. conn' = [conn EXCEPT ![h] = d]
      BY <2>1 DEF Disconnect
    <3>2. d # None => Settled(d, model)
      BY <1>1, <2>1 DEF Disconnect, InUse, At, CalmInv, IInv, TypeOK, ConnType, Disconnected, Settled
    <3>. HIDE DEF d
    <3>. QED  BY <1>1, <2>1, <3>1, <3>2, CalmKept DEF Disconnect
  <2>2. CASE Crash(h)
    BY <1>1, <2>2, CalmKept DEF Crash
  <2>3. ASSUME NEW x \in Iterators, Open(h, x)  PROVE CalmInv'
    BY <1>7, <2>3 DEF Open, InUse, At
  <2>4. CASE Remove(h)
    <3>1. conn[h] # None /\ Settled(conn[h], model) /\ conn' = [conn EXCEPT ![h] = conn[h]]
      BY <1>1, <2>4 DEF Remove, InUse, At, CalmInv, IInv, TypeOK
    <3>. QED  BY <1>5, <2>4, <3>1 DEF Remove
  <2>5. CASE OpenFails(h)
    <3>. DEFINE d == AttachedAndLost(conn[h])
    <3>1. conn[h] # None /\ conn[h] \in ConnType /\ Settled(conn[h], model)
      BY <1>1, <2>5, ConnectConstants DEF OpenFails, InUse, At, Ready, NoneFreedInUse, CalmInv, IInv, TypeOK
    <3>2. d \in ConnType /\ Settled(d, model)
      BY <3>1, LostOK DEF Settled
    <3>3. d # None
      BY <3>2, NoneIsNoHandle
    <3>4. conn' = [conn EXCEPT ![h] = d] /\ numbered' = numbered /\ CountRemoval
      BY <1>2, <2>5 DEF OpenFails
    <3>. HIDE DEF d
    <3>. QED  BY <1>5, <3>1, <3>2, <3>3, <3>4
  <2>. QED  BY <1>8, <1>6, <2>1, <2>2, <2>3, <2>4, <2>5 DEF UseStep
<1>9. ASSUME NEW x \in Iterators, IteratorStep(x)  PROVE CalmInv'
  <2>1. iterator[x] # None => iterator[x] \in Handles /\ conn[iterator[x]] # None
    BY <1>1 DEF IInv, TypeOK, NoneFreedInUse, Ready, At
  <2>2. CASE Close(x)
    <3>. DEFINE h == iterator[x]
                d == Detached(conn[h])
    <3>1. conn' = [conn EXCEPT ![h] = d] /\ h \in Handles
      BY <2>1, <2>2 DEF Close
    <3>2. d # None => Settled(d, model)
      BY <1>1, <2>1, <2>2 DEF Close, CalmInv, IInv, TypeOK, ConnType, Detached, Disconnected, Settled
    <3>. HIDE DEF d, h
    <3>. QED  BY <1>1, <2>2, <3>1, <3>2, CalmKept DEF Close
  <2>3. ASSUME NEW y \in Iterators, Derive(x, y)  PROVE CalmInv'
    BY <1>7, <2>1, <2>3 DEF Derive
  <2>. QED  BY <1>9, <2>2, <2>3 DEF IteratorStep
<1>. QED  BY <1>3, <1>4, <1>8, <1>9 DEF Next

(* A complete store starts balanced. *)
LEMMA CalmInit == Calm /\ Init => CalmInv
<1>. SUFFICES ASSUME Calm, Init  PROVE CalmInv
  OBVIOUS
<1>1. PICK s \in Stores :
        /\ model = s.model
        /\ numbered = [i \in 0 .. MaxStatements |->
                         IF s # NoStore /\ i < s.model["counter"] THEN 1 ELSE 0]
        /\ stored = IF s = NoStore THEN 0
                    ELSE s.model["counter"] - s.model["counter_removed"]
  BY DEF Init
<1>2. s # NoStore /\ IsComplete(s)
  BY StoresWellFormed DEF Calm
<1>3. \A k \in Keys : model[k] # None
  BY <1>1, <1>2 DEF IsComplete
<1>4. Balanced
  BY <1>1, <1>2 DEF Balanced
<1>5. \A h \in Handles : conn[h] = None
  BY DEF Init
<1>. QED  BY <1>3, <1>4, <1>5, IInvInit DEF CalmInv

(* On a store that is already there, with no lookup failing: every handle  *)
(* works with the settings of the store, whatever it asked for; no number  *)
(* is given out twice; and the counters give the size.                     *)
THEOREM ExistingStoreIsKept ==
  ASSUME Calm
  PROVE  Spec => [](StoreAgrees /\ NumbersUnique)
<1>1. CalmInv => SettingsAgree
  <2>. SUFFICES ASSUME CalmInv, NEW h \in Handles, Ready(h), NEW k \in SettingKeys
                PROVE  conn[h].me[k] = model[k]
    BY DEF SettingsAgree
  <2>1. Settled(conn[h], model) /\ conn[h].at = 6
    BY DEF CalmInv, IInv, AllProgress, Progress, Ready, At
  <2>2. PICK j \in 1 .. 4 : KeyOrder[j] = k
    <3>1. k \in Keys
      BY DEF Keys
    <3>. QED  BY <3>1, OrderFacts
  <2>. QED  BY <2>1, <2>2 DEF Settled
<1>2. CalmInv => NumbersUnique /\ SizeAgrees
  BY DEF CalmInv, Balanced, NumbersUnique, SizeAgrees
<1>3. CalmInv => StoreAgrees /\ NumbersUnique
  BY <1>1, <1>2 DEF StoreAgrees
<1>4. Init => CalmInv
  BY CalmInit
<1>5. CalmInv /\ [Next]_vars => CalmInv'
  BY CalmNext
<1>. QED  BY <1>3, <1>4, <1>5, PTL DEF Spec
=============================================================================
