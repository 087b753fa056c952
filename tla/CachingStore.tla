---------------------------- MODULE CachingStore ----------------------------
(***************************************************************************)
(* backend_caching_store.c: a write-back cache of up to maxcache keys of   *)
(* one table, in the memory of the process that opened it, over a backend  *)
(* that keeps the table.  Keys leave the cache least recently used first;  *)
(* scans, sync and close empty it.  What the kernel reads and writes       *)
(* compressed goes around the cache.                                       *)
(*                                                                         *)
(* One action is one request to the backend with the local work around it. *)
(* A request may fail, done or not done, and the process may die between   *)
(* two requests.                                                           *)
(***************************************************************************)
EXTENDS Integers, Sequences

CONSTANTS
  None,        \* an absent key, a NULL value, no entry, no call
  Key,         \* the keys of the table
  Usages,      \* which keys callers use how, see UsageType
  MaxValue,    \* values are 0 .. MaxValue, and counters wrap there
  MaxCache,    \* maxcache
  MaxFaults    \* bound: requests that may fail

Value == 0 .. MaxValue
States == {"UNDEF", "EXISTS", "CHANGED", "NOTFOUND"}
Entry == [state: States, val: Value \cup {None}]

(* Keys used with fetch, store, exists, inc and dec, and keys used with    *)
(* fetch_compressed and store_compressed.  Both are used with delete.      *)
UsageType == [plain: SUBSET Key, packed: SUBSET Key]

ASSUME CacheConstants ==
  /\ MaxValue \in Nat /\ MaxCache \in Nat \ {0} /\ MaxFaults \in Nat
  /\ None \notin Value \cup Key \cup Entry
  /\ Usages \subseteq UsageType

VARIABLES
  usage,    \* how the callers of this table use its keys
  backend,  \* the table below
  cache,    \* me->idx: the entry of each key, or None
  lru,      \* the circular list from me->head: cached keys, last used first
  call,     \* the call under way
  answer,   \* what the last call returned
  running,  \* the table is open
  recent,   \* history: the values each key has had since the last sync or close
  faults

vars == <<usage, backend, cache, lru, call, answer, running, recent, faults>>

(* The cache and what goes around it do not meet on one key. *)
Apart == usage.plain \cap usage.packed = {}

(* The value of a key as its callers see it. *)
Contents ==
  [k \in Key |->
     IF cache[k] = None \/ k \notin usage.plain THEN backend[k]
     ELSE IF cache[k].state \in {"EXISTS", "CHANGED"} THEN cache[k].val ELSE None]

Reads   == {"fetch", "exists", "inc", "dec"}
Purgers == {"scan", "sync", "close"}

Idle == [op |-> "none", key |-> None, val |-> None, pc |-> "idle"]
CallType ==
  [op: Reads \cup Purgers \cup {"none", "store", "delete"}, key: Key \cup {None},
   val: Value \cup {None}, pc: {"idle", "evict", "request", "purge"}]

Reply(op, k, err, v) == [op |-> op, key |-> k, err |-> err, val |-> v]
NoReply == Reply("none", None, "OK", None)
ReplyType ==
  [op: Reads \cup Purgers \cup {"none", "store", "delete"}, key: Key \cup {None},
   err: {"OK", "NOTFOUND", "ERROR"}, val: Value \cup {None}]

Return(op, k, err, v) == call' = Idle /\ answer' = Reply(op, k, err, v)

Init ==
  /\ usage \in Usages
  /\ backend \in [Key -> Value \cup {None}]
  /\ cache = [k \in Key |-> None]
  /\ lru = <<>>
  /\ call = Idle
  /\ answer = NoReply
  /\ running = TRUE
  /\ recent = [k \in Key |-> {backend[k]}]
  /\ faults = 0

-----------------------------------------------------------------------------
(* The list.                                                               *)

Cached == {k \in Key : cache[k] # None}
At(k)  == CHOOSE i \in 1 .. Len(lru) : lru[i] = k
Last   == lru[Len(lru)]
Without(s, i) == SubSeq(s, 1, i - 1) \o SubSeq(s, i + 1, Len(s))

(* mutant: the element stays at its old place, too *)
Mut_NotUnlinked(k) == <<k>> \o lru

(* The element is taken out of the list, if it is there, and put at the    *)
(* head.                                                                   *)
ToHead(k) == <<k>> \o (IF k \in Cached THEN Without(lru, At(k)) ELSE lru)

Install(k, s, v) ==
  /\ cache' = [cache EXCEPT ![k] = [state |-> s, val |-> v]]
  /\ lru' = ToHead(k)

(* _store and _drp, for an eviction or a purge: only a changed value is    *)
(* written; the result is not looked at.                                   *)
Written(k) == [backend EXCEPT ![k] = cache[k].val]

(* mutant: changed values are dropped, too *)
Mut_DropUnwritten(k) ==
  cache' = [cache EXCEPT ![k] = None] /\ UNCHANGED <<backend, faults>>

Drop(k) ==
  /\ cache' = [cache EXCEPT ![k] = None]
  /\ IF cache[k].state # "CHANGED" THEN UNCHANGED <<backend, faults>>
     ELSE \/ backend' = Written(k) /\ UNCHANGED faults
          \/ /\ faults < MaxFaults /\ faults' = faults + 1
             /\ backend' \in {backend, Written(k)}

-----------------------------------------------------------------------------
(* backend_caching_fetch, _exists, _inc and _dec, when the entry of the    *)
(* key is e.  An entry whose fetch failed is UNDEF, without a value: a     *)
(* later fetch succeeds with NULL, and inc and dec dereference it.         *)

(* mutant: the counter has no width *)
Mut_CountOn(op, v) == IF op = "inc" THEN v + 1 ELSE v - 1

Count(op, v) == (IF op = "inc" THEN v + 1 ELSE v + MaxValue) % (MaxValue + 1)

Remember(k, v) == recent' = [recent EXCEPT ![k] = @ \cup {v}]

Die ==
  /\ running' = FALSE
  /\ cache' = [k \in Key |-> None] /\ lru' = <<>>
  /\ call' = Idle /\ answer' = NoReply
  /\ recent' = [k \in Key |-> {backend[k]}]

Counted(op, k, e) ==
  /\ Install(k, "CHANGED", Count(op, e.val))
  /\ Remember(k, Count(op, e.val))
  /\ Return(op, k, "OK", Count(op, e.val))
  /\ UNCHANGED running

Read(op, k, e) ==
  IF op \in {"inc", "dec"} /\ e.state # "NOTFOUND"
  THEN IF e.val = None THEN Die ELSE Counted(op, k, e)
  ELSE /\ Install(k, e.state, e.val)
       /\ IF op = "exists"
          THEN Return(op, k, IF e.state \in {"EXISTS", "CHANGED"} THEN "OK"
                             ELSE "NOTFOUND", None)
          ELSE Return(op, k, IF e.state = "NOTFOUND" THEN "NOTFOUND" ELSE "OK", e.val)
       /\ UNCHANGED <<recent, running>>

(* mutant: a hit takes the value and keeps the state of the entry *)
Mut_StateKept(k, v) ==
  /\ Install(k, IF k \in Cached THEN cache[k].state ELSE "CHANGED", v)
  /\ Remember(k, v)
  /\ Return("store", k, "OK", None)

Stored(k, v) ==
  /\ Install(k, "CHANGED", v)
  /\ Remember(k, v)
  /\ Return("store", k, "OK", None)

(* cachekey: a hit needs no request, except for a deletion. *)
Ready == running /\ call = Idle

ReadHit(op, k) ==
  /\ Ready /\ k \in Cached
  /\ Read(op, k, cache[k])
  /\ UNCHANGED <<usage, backend, faults>>

StoreHit(k, v) ==
  /\ Ready /\ k \in Cached
  /\ Stored(k, v)
  /\ UNCHANGED <<usage, backend, running, faults>>

(* Otherwise a full cache makes room first. *)
Begin(op, k, v) ==
  /\ Ready
  /\ k \in Cached => op = "delete"
  /\ call' = [op |-> op, key |-> k, val |-> v,
              pc |-> IF k \notin Cached /\ Len(lru) >= MaxCache
                     THEN "evict" ELSE "request"]
  /\ answer' = NoReply
  /\ UNCHANGED <<usage, backend, cache, lru, running, recent, faults>>

Evict ==
  /\ call.pc = "evict"
  /\ Drop(Last)
  /\ lru' = SubSeq(lru, 1, Len(lru) - 1)
  /\ call' = [call EXCEPT !.pc = "request"]
  /\ UNCHANGED <<usage, answer, running, recent>>

Requesting(ops) == call.pc = "request" /\ call.op \in ops

StoreMiss ==
  /\ Requesting({"store"})
  /\ Stored(call.key, call.val)
  /\ UNCHANGED <<usage, backend, running, faults>>

(* _fetch: what is found is cached, and what is not. *)
Fetched(k) ==
  [state |-> IF backend[k] = None THEN "NOTFOUND" ELSE "EXISTS", val |-> backend[k]]

ReadMiss ==
  /\ Requesting(Reads)
  /\ Read(call.op, call.key, Fetched(call.key))
  /\ UNCHANGED <<usage, backend, faults>>

(* Some failures are reported as an absent key: BerkeleyDB's of a fetch,   *)
(* the daemon's of a store or a deletion.                                  *)
Failures == {"ERROR", "NOTFOUND"}

ReadFails ==
  /\ Requesting(Reads)
  /\ faults < MaxFaults /\ faults' = faults + 1
  /\ \/ /\ Install(call.key, "UNDEF", None)
        /\ Return(call.op, call.key, "ERROR", None)
     \/ /\ Install(call.key, "NOTFOUND", None)
        /\ Return(call.op, call.key, "NOTFOUND", None)
  /\ UNCHANGED <<usage, backend, running, recent>>

(* _delete writes through, and the entry is NOTFOUND whatever the backend  *)
(* answers.                                                                *)
Deleted(k) == [backend EXCEPT ![k] = None]

Delete ==
  /\ Requesting({"delete"})
  /\ Install(call.key, "NOTFOUND", None)
  /\ Remember(call.key, None)
  /\ \/ /\ backend' = Deleted(call.key)
        /\ Return("delete", call.key,
                  IF backend[call.key] = None THEN "NOTFOUND" ELSE "OK", None)
        /\ UNCHANGED faults
     \/ /\ faults < MaxFaults /\ faults' = faults + 1
        /\ backend' \in {backend, Deleted(call.key)}
        /\ \E err \in Failures : Return("delete", call.key, err, None)
  /\ UNCHANGED <<usage, running>>

-----------------------------------------------------------------------------
(* purgecache, and the calls that begin with it: first, from and next      *)
(* (scan), sync and close.                                                 *)

BeginPurge(op) ==
  /\ Ready
  /\ call' = [op |-> op, key |-> None, val |-> None, pc |-> "purge"]
  /\ answer' = NoReply
  /\ UNCHANGED <<usage, backend, cache, lru, running, recent, faults>>

Purge ==
  /\ call.pc = "purge" /\ lru # <<>>
  /\ Drop(Head(lru))
  /\ lru' = Tail(lru)
  /\ UNCHANGED <<usage, call, answer, running, recent>>

(* mutant: the backend's turn comes before the cache is written *)
Mut_NotPurged(op) == call.pc = "purge" /\ call.op = op

Purged(op) == call.pc = "purge" /\ lru = <<>> /\ call.op = op

(* The backend chooses the key: its order is not modelled. *)
Scan ==
  /\ Purged("scan")
  /\ \/ /\ \/ \E k \in Key : backend[k] # None /\ Return("scan", k, "OK", None)
           \/ Return("scan", None, "NOTFOUND", None)
        /\ UNCHANGED faults
     \/ /\ faults < MaxFaults /\ faults' = faults + 1
        /\ Return("scan", None, "ERROR", None)
  /\ UNCHANGED <<usage, backend, cache, lru, running, recent>>

(* close reports no failure. *)
Settle(op) ==
  /\ Purged(op)
  /\ \/ /\ recent' = [k \in Key |-> {Contents[k]}]
        /\ Return(op, None, "OK", None)
        /\ UNCHANGED faults
     \/ /\ op = "sync"
        /\ faults < MaxFaults /\ faults' = faults + 1
        /\ Return(op, None, "ERROR", None)
        /\ UNCHANGED recent
  /\ running' = (op # "close")
  /\ UNCHANGED <<usage, backend, cache, lru>>

-----------------------------------------------------------------------------
(* backend_caching_fetch_compressed and _store_compressed.                 *)

FetchPacked(k) ==
  /\ Ready
  /\ Return("fetch", k, IF backend[k] = None THEN "NOTFOUND" ELSE "OK", backend[k])
  /\ UNCHANGED <<usage, backend, cache, lru, running, recent, faults>>

StorePacked(k, v) ==
  /\ Ready
  /\ backend' = [backend EXCEPT ![k] = v]
  /\ Remember(k, v)
  /\ Return("store", k, "OK", None)
  /\ UNCHANGED <<usage, cache, lru, running, faults>>

PackedFails(op, k, v) ==
  /\ Ready
  /\ faults < MaxFaults /\ faults' = faults + 1
  /\ \/ UNCHANGED <<backend, recent>>
     \/ /\ op = "store"
        /\ backend' = [backend EXCEPT ![k] = v] /\ Remember(k, v)
  /\ \E err \in Failures : Return(op, k, err, None)
  /\ UNCHANGED <<usage, cache, lru, running>>

-----------------------------------------------------------------------------
Crash ==
  /\ running
  /\ Die
  /\ UNCHANGED <<usage, backend, faults>>

Open ==
  /\ ~running
  /\ running' = TRUE
  /\ UNCHANGED <<usage, backend, cache, lru, call, answer, recent, faults>>

PlainStep(k) ==
  \/ \E op \in Reads : ReadHit(op, k) \/ Begin(op, k, None)
  \/ Begin("delete", k, None)
  \/ \E v \in Value : StoreHit(k, v) \/ Begin("store", k, v)

PackedStep(k) ==
  \/ FetchPacked(k) \/ PackedFails("fetch", k, None)
  \/ Begin("delete", k, None)
  \/ \E v \in Value : StorePacked(k, v) \/ PackedFails("store", k, v)

Next ==
  \/ \E k \in usage.plain : PlainStep(k)
  \/ \E k \in usage.packed : PackedStep(k)
  \/ \E op \in Purgers : BeginPurge(op)
  \/ Evict \/ StoreMiss \/ ReadMiss \/ ReadFails \/ Delete
  \/ Purge \/ Scan \/ Settle("sync") \/ Settle("close")
  \/ Crash \/ Open

Spec == Init /\ [][Next]_vars

-----------------------------------------------------------------------------
TypeOK ==
  /\ usage \in Usages
  /\ backend \in [Key -> Value \cup {None}]
  /\ cache \in [Key -> Entry \cup {None}]
  /\ lru \in Seq(Key)
  /\ call \in CallType
  /\ answer \in ReplyType
  /\ running \in BOOLEAN
  /\ recent \in [Key -> SUBSET (Value \cup {None})]
  /\ faults \in 0 .. MaxFaults

(* cachekey keeps its two structures in step: the circular list holds      *)
(* every entry of the index once, and never more than maxcache.            *)
LruExact ==
  /\ {lru[i] : i \in 1 .. Len(lru)} = Cached
  /\ \A i, j \in 1 .. Len(lru) : lru[i] = lru[j] => i = j
  /\ Len(lru) <= MaxCache

(* An entry the cache will not write back holds what the backend holds,    *)
(* also after requests that failed, unless its key is written around the   *)
(* cache: a value that cachekey keeps as EXISTS can be dropped without     *)
(* loss.                                                                   *)
CleanIsBackend ==
  \A k \in Cached \ usage.packed : cache[k].state = "EXISTS" => cache[k].val = backend[k]

(* Neither a death of the process nor a write-back that failed and was     *)
(* forgotten by cachekey or purgecache ever brings back a value from       *)
(* before the last sync or close.                                          *)
NothingOlder ==
  \A k \in Key :
    /\ backend[k] \in recent[k]
    /\ (k \in Cached /\ cache[k].state = "CHANGED") => cache[k].val \in recent[k]

(* As long as no request fails, and no key is both cached and written      *)
(* around the cache, the caching backend cannot be told from the table     *)
(* below it, except by what a death of the process loses.                  *)
Promise == INSTANCE FlatStore WITH table <- Contents
KeepsPromise ==
  /\ Promise!Init
  /\ [][faults' = 0 /\ Apart => Promise!Next]_<<Contents, recent, answer>>

(* backend_caching_delete returns 0 for a key that was there: "all the     *)
(* functions return 0 on success and non zero value if error"              *)
(* (backend_caching_store.c:651).                                          *)
DeleteSucceeds ==
  [][(Delete /\ faults' = faults /\ Contents[call.key] # None) =>
       answer'.err = "OK"]_vars
=============================================================================
