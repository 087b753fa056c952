----------------------------- MODULE RdfConnect -----------------------------
(***************************************************************************)
(* The life of `rdfstore *me' handles on one named store: rdfstore_connect *)
(* reads the settings and counters of the store from its model table and   *)
(* writes those it does not find; iterators attach to a connected handle;  *)
(* rdfstore_disconnect frees it, or leaves that to its last iterator.      *)
(*                                                                         *)
(* Each key of the model table is looked up in one request and stored, if  *)
(* it must be, in another.  What a process does without a request is part  *)
(* of the action of the request before it.  A process may die between two  *)
(* requests, and a request may fail.                                       *)
(***************************************************************************)
EXTENDS Integers, Sequences, FiniteSets

CONSTANTS
  None,          \* an absent key, an iterator that does not exist
  Handles,       \* the processes, one handle each
  Readers,       \* those that only connect read-only
  Iterators,     \* the iterators they may have at a time
  Names,         \* what callers pass as name
  NamePrefix,    \* <<m, n>>: the name m is a prefix of the name n
  Versions, VersionOf, \* RDFSTORE_INDEXING_VERSION, of the code of a handle
  Codecs, CodecOf,     \* RDFSTORE_COMPRESSION_TYPE_DEFAULT, likewise
  Stores,        \* the stores that may be there at the start, see StoreType
  MaxStatements, \* bound: statements ever numbered
  MaxFaults,     \* bound: requests that may fail
  MaxCrashes     \* bound: processes that may die

SettingKeys == {"version", "name", "freetext", "compression"}
CounterKeys == {"counter_removed", "counter"}
Keys        == SettingKeys \cup CounterKeys

(* The order in which rdfstore_connect looks the keys up; the other tables *)
(* are opened after the settings.                                          *)
KeyOrder == <<"version", "name", "freetext", "compression",
              "counter_removed", "counter">>
LastSetting == 4

Settings ==
  [version: Versions, name: Names, freetext: BOOLEAN, compression: Codecs]

ModelType ==
  [version: Versions \cup {None}, name: Names \cup {None},
   freetext: BOOLEAN \cup {None}, compression: Codecs \cup {None},
   counter_removed: Nat \cup {None}, counter: Nat \cup {None}]

(* The tables other than model: those every store has, and windex.         *)
TableSets == SUBSET {"core", "windex"}
Needed(freetext) == {"core"} \cup (IF freetext THEN {"windex"} ELSE {})

ConnType ==
  [pc: {"fetch", "store", "open", "ready"},
   at: 1 .. Len(KeyOrder), flag: BOOLEAN, me: Settings,
   attached: Int, tobeclosed: BOOLEAN,
   lost: Nat]     \* history: iterators counted in attached and never returned

NoStore == [model |-> [k \in Keys |-> None], tables |-> {}]
IsComplete(s) ==
  /\ \A k \in Keys : s.model[k] # None
  /\ Needed(s.model["freetext"]) \subseteq s.tables
  /\ s.model["counter_removed"] <= s.model["counter"]
  /\ s.model["counter"] <= MaxStatements

ASSUME ConnectConstants ==
  /\ VersionOf \in [Handles -> Versions]
  /\ CodecOf \in [Handles -> Codecs]
  /\ MaxStatements \in Nat /\ MaxFaults \in Nat /\ MaxCrashes \in Nat
  /\ None \notin Versions \cup Names \cup Codecs \cup BOOLEAN \cup Nat \cup Handles
ASSUME IteratorsFinite == IsFiniteSet(Iterators)
ASSUME NoneIsNoHandle == None \notin ConnType
ASSUME StoresWellFormed ==
  \A s \in Stores : /\ s.model \in ModelType
                    /\ s.tables \in TableSets
                    /\ s = NoStore \/ IsComplete(s)

VARIABLES
  model,      \* the model table
  tables,     \* the other tables that exist
  conn,       \* each handle, see ConnType; None when there is no handle
  iterator,   \* the handle each iterator is attached to
  numbered,   \* history: how often each statement number was given out
  stored,     \* history: statements inserted and not removed
  faults, crashes

vars == <<model, tables, conn, iterator, numbered, stored, faults, crashes>>

Key(c) == KeyOrder[c.at]

-----------------------------------------------------------------------------
(* rdfstore_connect.                                                       *)

At(h, pc) == conn[h] # None /\ conn[h].pc = pc

(* The next key; after the settings, the other tables; after the counters, *)
(* the handle is returned.  (rdfstore_size and the syncs that end the      *)
(* function fill in a field nobody reads and change no table.)             *)
Proceed(c) ==
  IF c.at = Len(KeyOrder) THEN [c EXCEPT !.pc = "ready"]
  ELSE [c EXCEPT !.pc = IF c.at = LastSetting THEN "open" ELSE "fetch",
                 !.at = c.at + 1]

(* mutant: freetext stays what the caller asked for *)
Mut_OwnFreetext(c, v) ==
  IF Key(c) \in SettingKeys \ {"freetext"} THEN [c EXCEPT !.me[Key(c)] = v] ELSE c

(* A setting that was found replaces the caller's; counters stay in the    *)
(* table.                                                                  *)
Adopt(c, v) == IF Key(c) \in SettingKeys THEN [c EXCEPT !.me[Key(c)] = v] ELSE c

Accepts(c, v) ==
  CASE Key(c) = "version" -> v = c.me["version"]
    [] Key(c) = "name"    -> <<c.me["name"], v>> \in NamePrefix
    [] OTHER              -> TRUE

(* mutant: a read-only handle does without the counters *)
Mut_CountersOptional(c) ==
  IF ~c.flag THEN [c EXCEPT !.pc = "store"]
  ELSE IF Key(c) \in CounterKeys \cup {"compression"} THEN Proceed(c) ELSE None

(* mutant: a read-only handle takes a setting that is not there *)
Mut_TakeNothing(c) ==
  IF ~c.flag THEN [c EXCEPT !.pc = "store"] ELSE Proceed(Adopt(c, None))

(* A key that could not be had.  A handle opened for writing stores it, a  *)
(* read-only one croaks, or does without if it is the codec.               *)
IfMissing(c) ==
  IF ~c.flag THEN [c EXCEPT !.pc = "store"]
  ELSE IF Key(c) = "compression" THEN Proceed(c) ELSE None

IfFound(c, v) == IF Accepts(c, v) THEN Proceed(Adopt(c, v)) ELSE None

(* What a handle stores under the key it is at.                            *)
Initial(c) == IF Key(c) \in SettingKeys THEN c.me[Key(c)] ELSE 0

Fail == faults < MaxFaults /\ faults' = faults + 1

Connect(h, flag, name, freetext) ==
  /\ conn[h] = None
  /\ h \in Readers => flag
  /\ conn' = [conn EXCEPT ![h] =
       [pc |-> "fetch", at |-> 1, flag |-> flag,
        me |-> [version |-> VersionOf[h], name |-> name,
                freetext |-> freetext, compression |-> CodecOf[h]],
        attached |-> 0, tobeclosed |-> FALSE, lost |-> 0]]
  /\ UNCHANGED <<model, tables, iterator, numbered, stored, faults, crashes>>

Fetch(h) ==
  /\ At(h, "fetch")
  /\ LET v == model[Key(conn[h])]
     IN conn' = [conn EXCEPT ![h] = IF v = None THEN IfMissing(@) ELSE IfFound(@, v)]
  /\ UNCHANGED <<model, tables, iterator, numbered, stored, faults, crashes>>

(* Any error is taken for an absent key.                                   *)
FetchFails(h) ==
  /\ At(h, "fetch")
  /\ Fail
  /\ conn' = [conn EXCEPT ![h] = IfMissing(@)]
  /\ UNCHANGED <<model, tables, iterator, numbered, stored, crashes>>

Store(h) ==
  /\ At(h, "store")
  /\ model' = [model EXCEPT ![Key(conn[h])] = Initial(conn[h])]
  /\ conn' = [conn EXCEPT ![h] = Proceed(@)]
  /\ UNCHANGED <<tables, iterator, numbered, stored, faults, crashes>>

(* Opening the other tables makes those that are missing, unless the       *)
(* handle is read-only.                                                    *)
OpenTables(h) ==
  /\ At(h, "open")
  /\ LET needed == Needed(conn[h].me["freetext"])
     IN \/ /\ ~conn[h].flag
           /\ tables' = tables \cup needed
           /\ conn' = [conn EXCEPT ![h].pc = "fetch"]
        \/ /\ conn[h].flag /\ needed \subseteq tables
           /\ tables' = tables
           /\ conn' = [conn EXCEPT ![h].pc = "fetch"]
        \/ /\ conn[h].flag /\ ~(needed \subseteq tables)
           /\ tables' = tables
           /\ conn' = [conn EXCEPT ![h] = None]
  /\ UNCHANGED <<model, iterator, numbered, stored, faults, crashes>>

(* exitandclean: what was stored stays.                                    *)
StoreOrOpenFails(h) ==
  /\ At(h, "store") \/ At(h, "open")
  /\ Fail
  /\ conn' = [conn EXCEPT ![h] = None]
  /\ UNCHANGED <<model, tables, iterator, numbered, stored, crashes>>

-----------------------------------------------------------------------------
(* What connected handles do to the counters: the one request of           *)
(* rdfstore_insert, and of rdfstore_remove, that changes a counter.        *)

InUse(h) == At(h, "ready") /\ ~conn[h].tobeclosed

Number(h) ==
  /\ InUse(h) /\ ~conn[h].flag
  /\ model["counter"] < MaxStatements
  /\ model' = [model EXCEPT !["counter"] = @ + 1]
  /\ numbered' = [numbered EXCEPT ![model["counter"]] = @ + 1]
  /\ stored' = stored + 1
  /\ UNCHANGED <<tables, conn, iterator, faults, crashes>>

CountRemoval ==
  /\ stored > 0
  /\ model' = [model EXCEPT !["counter_removed"] = @ + 1]
  /\ stored' = stored - 1

Remove(h) ==
  /\ InUse(h) /\ ~conn[h].flag
  /\ CountRemoval
  /\ UNCHANGED <<tables, conn, iterator, numbered, faults, crashes>>

-----------------------------------------------------------------------------
(* Iterators and rdfstore_disconnect.                                      *)

Disconnected(c) ==
  IF c.attached > 0 THEN [c EXCEPT !.tobeclosed = TRUE] ELSE None

Attached(c) == [c EXCEPT !.attached = @ + 1]
AttachedAndLost(c) == [c EXCEPT !.attached = @ + 1, !.lost = @ + 1]

(* rdfstore_elements, rdfstore_search and rdfstore_fetch_object. The two   *)
(* others close the iterator they have counted when they fail.             *)
Open(h, x) ==
  /\ InUse(h)
  /\ iterator[x] = None
  /\ iterator' = [iterator EXCEPT ![x] = h]
  /\ conn' = [conn EXCEPT ![h] = Attached(@)]
  /\ UNCHANGED <<model, tables, numbered, stored, faults, crashes>>

(* rdfstore_elements counts its iterator first. When a statement it found  *)
(* cannot be fetched, for the request fails or another handle removes the  *)
(* statement meanwhile, it frees the iterator and leaves it counted.       *)
(* rdfstore_iterator_complement calls it for handles that wait, too.       *)
OpenFails(h) ==
  /\ InUse(h) \/ \E x \in Iterators : iterator[x] = h
  /\ stored > 0
  /\ conn' = [conn EXCEPT ![h] = AttachedAndLost(@)]
  /\ \/ Fail /\ UNCHANGED <<model, stored>>
     \/ /\ \E g \in Handles \ {h} : InUse(g) /\ ~conn[g].flag
        /\ CountRemoval
        /\ UNCHANGED faults
  /\ UNCHANGED <<tables, iterator, numbered, crashes>>

(* mutant: the new iterator is not counted *)
Mut_DeriveUncounted(x, y) ==
  /\ iterator[x] # None /\ iterator[y] = None
  /\ iterator' = [iterator EXCEPT ![y] = iterator[x]]
  /\ UNCHANGED <<model, tables, conn, numbered, stored, faults, crashes>>

(* rdfstore_iterator_duplicate, _intersect, _unite, ...: from an iterator, *)
(* also when its handle is only waiting to be closed                       *)
Derive(x, y) ==
  /\ iterator[x] # None /\ iterator[y] = None
  /\ iterator' = [iterator EXCEPT ![y] = iterator[x]]
  /\ conn' = [conn EXCEPT ![iterator[x]] = Attached(@)]
  /\ UNCHANGED <<model, tables, numbered, stored, faults, crashes>>

(* mutant: nobody disconnects after the last iterator *)
Mut_NoCallback(c) == [c EXCEPT !.attached = @ - 1]

Detached(c) ==
  LET d == [c EXCEPT !.attached = @ - 1]
  IN IF d.tobeclosed THEN Disconnected(d) ELSE d

(* rdfstore_iterator_close *)
Close(x) ==
  /\ iterator[x] # None
  /\ conn' = [conn EXCEPT ![iterator[x]] = Detached(@)]
  /\ iterator' = [iterator EXCEPT ![x] = None]
  /\ UNCHANGED <<model, tables, numbered, stored, faults, crashes>>

(* A caller disconnects a handle once.                                     *)
Disconnect(h) ==
  /\ InUse(h)
  /\ conn' = [conn EXCEPT ![h] = Disconnected(@)]
  /\ UNCHANGED <<model, tables, iterator, numbered, stored, faults, crashes>>

-----------------------------------------------------------------------------
(* The process of a handle dies; the tables stay.                          *)
Crash(h) ==
  /\ crashes < MaxCrashes
  /\ conn[h] # None
  /\ crashes' = crashes + 1
  /\ conn' = [conn EXCEPT ![h] = None]
  /\ iterator' = [x \in Iterators |-> IF iterator[x] = h THEN None ELSE iterator[x]]
  /\ UNCHANGED <<model, tables, numbered, stored, faults>>

Init ==
  /\ \E s \in Stores :
       /\ model = s.model
       /\ tables = s.tables
       /\ numbered = [i \in 0 .. MaxStatements |->
                        IF s # NoStore /\ i < s.model["counter"] THEN 1 ELSE 0]
       /\ stored = IF s = NoStore THEN 0
                   ELSE s.model["counter"] - s.model["counter_removed"]
  /\ conn = [h \in Handles |-> None]
  /\ iterator = [x \in Iterators |-> None]
  /\ faults = 0
  /\ crashes = 0

ConnectStep(h) ==
  \/ \E flag \in BOOLEAN, name \in Names, freetext \in BOOLEAN :
       Connect(h, flag, name, freetext)
  \/ Fetch(h) \/ FetchFails(h) \/ Store(h)
  \/ OpenTables(h) \/ StoreOrOpenFails(h)

UseStep(h) ==
  \/ Number(h) \/ Remove(h) \/ OpenFails(h) \/ Disconnect(h) \/ Crash(h)
  \/ \E x \in Iterators : Open(h, x)

IteratorStep(x) == Close(x) \/ \E y \in Iterators : Derive(x, y)

Next ==
  \/ \E h \in Handles : ConnectStep(h) \/ UseStep(h)
  \/ \E x \in Iterators : IteratorStep(x)

Spec == Init /\ [][Next]_vars

-----------------------------------------------------------------------------
TypeOK ==
  /\ model \in ModelType
  /\ tables \in TableSets
  /\ conn \in [Handles -> ConnType \cup {None}]
  /\ iterator \in [Iterators -> Handles \cup {None}]
  /\ numbered \in [0 .. MaxStatements -> Nat]
  /\ stored \in Nat
  /\ faults \in 0 .. MaxFaults
  /\ crashes \in 0 .. MaxCrashes

Ready(h) == At(h, "ready")

(* A connected handle, also a read-only one that connected while another   *)
(* was creating the store, has a store with every setting, both counters   *)
(* and every table it will use: the checks of rdfstore_connect for a store *)
(* that "seems corrupted" leave no gap, whatever fails or dies meanwhile.  *)
OpenIsComplete ==
  \A h \in Handles : Ready(h) =>
    /\ \A k \in Keys : model[k] # None
    /\ Needed(conn[h].me["freetext"]) \subseteq tables

(* Connected handles work with the settings the store has, whichever they  *)
(* asked for: rdfstore_connect's `else' branches take what they fetch.     *)
SettingsAgree ==
  \A h \in Handles : Ready(h) =>
    \A k \in SettingKeys : conn[h].me[k] = model[k]

(* No statement number is given out twice: rdfstore_connect initializes    *)
(* the counter of a store once in the life of the store.                   *)
NumbersUnique == \A i \in 0 .. MaxStatements : numbered[i] <= 1

(* The two counters give the number of statements in the store, across     *)
(* connections, disconnections and processes that die: rdfstore_connect    *)
(* initializes counter_removed once.                                       *)
SizeAgrees ==
  (\E h \in Handles : Ready(h)) =>
    model["counter"] - model["counter_removed"] = stored

(* A handle that finds a store, however its creation ended and while it is *)
(* still being created, keeps its settings, its numbers and its size; as   *)
(* long as no lookup failed.                                               *)
StoreAgrees == faults = 0 => SettingsAgree /\ NumbersUnique /\ SizeAgrees

(* rdfstore_disconnect frees no handle that an iterator still points to.   *)
NoneFreedInUse ==
  \A x \in Iterators : iterator[x] # None => Ready(iterator[x])

(* A handle that waits to be closed has an iterator left to close it, the  *)
(* last rdfstore_iterator_close frees it: unless rdfstore_elements failed  *)
(* on this handle and left the count too high.                             *)
NoneLeftOpen ==
  \A h \in Handles :
    conn[h] # None /\ conn[h].tobeclosed /\ conn[h].lost = 0 =>
      \E x \in Iterators : iterator[x] = h

(* A handle that waits is called back, "wait the cursors to call me back". *)
CursorsCallBack ==
  \A h \in Handles :
    conn[h] # None /\ conn[h].tobeclosed => \E x \in Iterators : iterator[x] = h
=============================================================================
