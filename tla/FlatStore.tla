----------------------------- MODULE FlatStore -----------------------------
(***************************************************************************)
(* What a table of the flat store promises its caller, whichever backend   *)
(* is below: a call is answered from what the calls before it wrote, and   *)
(* changes at most its own key; a process that dies may lose what was      *)
(* written after the last sync or close, and nothing older.                *)
(***************************************************************************)
EXTENDS Integers

CONSTANTS
  Key,
  MaxValue, \* values are 0 .. MaxValue, and counters wrap there
  None      \* an absent key; no key, no value

Value == 0 .. MaxValue

VARIABLES
  table,   \* the value of each key, or None
  recent,  \* the values each key has had since the last sync or close
  answer   \* what the last call returned: see Reply; nothing during a call

vars == <<table, recent, answer>>

Reply(op, k, err, v) == [op |-> op, key |-> k, err |-> err, val |-> v]
NoReply == Reply("none", None, "OK", None)

Init ==
  /\ table \in [Key -> Value \cup {None}]
  /\ recent = [k \in Key |-> {table[k]}]
  /\ answer = NoReply

Call == answer' = NoReply /\ UNCHANGED <<table, recent>>

Put(k, v) ==
  /\ table' = [table EXCEPT ![k] = v]
  /\ recent' = [recent EXCEPT ![k] = @ \cup {v}]

(* NOTFOUND exactly when the key is absent, and its value otherwise. *)
Fetch(k) ==
  /\ answer' = IF table[k] = None THEN Reply("fetch", k, "NOTFOUND", None)
                                  ELSE Reply("fetch", k, "OK", table[k])
  /\ UNCHANGED <<table, recent>>

Exists(k) ==
  /\ answer' = Reply("exists", k, IF table[k] = None THEN "NOTFOUND" ELSE "OK", None)
  /\ UNCHANGED <<table, recent>>

Store(k, v) ==
  /\ Put(k, v)
  /\ answer' = Reply("store", k, "OK", None)

(* OK only for a key that was there.  The caching backend answers NOTFOUND *)
(* also for some keys that were.                                           *)
Delete(k) ==
  /\ Put(k, None)
  /\ \/ table[k] # None /\ answer' = Reply("delete", k, "OK", None)
     \/ answer' = Reply("delete", k, "NOTFOUND", None)

(* inc and dec: a value that is there is replaced by the next one, which   *)
(* is returned.                                                            *)
Count(op, k, step) ==
  IF table[k] = None
  THEN answer' = Reply(op, k, "NOTFOUND", None) /\ UNCHANGED <<table, recent>>
  ELSE LET v == (table[k] + step) % (MaxValue + 1)
       IN  Put(k, v) /\ answer' = Reply(op, k, "OK", v)

(* first, from and next return some key that is there. *)
Scan ==
  /\ \/ \E k \in Key : table[k] # None /\ answer' = Reply("scan", k, "OK", None)
     \/ answer' = Reply("scan", None, "NOTFOUND", None)
  /\ UNCHANGED <<table, recent>>

Settle(op) ==
  /\ recent' = [k \in Key |-> {table[k]}]
  /\ answer' = Reply(op, None, "OK", None)
  /\ UNCHANGED table

(* The process dies; each key falls back to a recent value. *)
Crash ==
  /\ table' \in [Key -> Value \cup {None}]
  /\ \A k \in Key : table'[k] \in recent[k]
  /\ recent' = [k \in Key |-> {table'[k]}]
  /\ answer' = NoReply

Next ==
  \/ \E k \in Key :
       \/ Fetch(k) \/ Exists(k) \/ Delete(k)
       \/ \E v \in Value : Store(k, v)
       \/ Count("inc", k, 1) \/ Count("dec", k, MaxValue)
  \/ Call \/ Scan \/ Settle("sync") \/ Settle("close") \/ Crash

Spec == Init /\ [][Next]_vars
=============================================================================
