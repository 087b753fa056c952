----------------------------- MODULE DbmsTable -----------------------------
(* The requests on one database, as a child process of dbmsd executes them:  *)
(* the do_* functions of handler.c over a BerkeleyDB B-tree with the one     *)
(* cursor that all its connections share.                                    *)
EXTENDS Integers

CONSTANTS
  None,
  Keys,        \* numbers, in the order of the B-tree
  Limit        \* a packed counter is below Limit (2^32)

ASSUME TableConstants ==
  /\ Keys \subseteq Nat
  /\ Limit \in Nat \ {0}
  /\ None \notin Int

Values == 0 .. Limit - 1

(* dbase: its rows, where its cursor is, and lastfd, the descriptor of the   *)
(* connection that used the cursor last                                      *)
Databases(Fds) ==
  [rows : [Keys -> Values \cup {None}], cursor : Keys \cup {None},
   lastfd : Fds \cup {None}]

EmptyDatabase == [rows |-> [k \in Keys |-> None], cursor |-> None, lastfd |-> None]

(* reply: F_FOUND or not, or TOKEN_ERROR, with a key and a value *)
Statuses == {"found", "notfound", "error"}
Replies  == [status : Statuses, key : Keys \cup {None}, value : Values \cup {None}]
Found(k, v) == [status |-> "found", key |-> k, value |-> v]
NotFound    == [status |-> "notfound", key |-> None, value |-> None]
Failed      == [status |-> "error", key |-> None, value |-> None]

Present(db) == {k \in Keys : db.rows[k] # None}
Put(db, k, v) == [db EXCEPT !.rows[k] = v]

Result(db, reply) == [db |-> db, reply |-> reply]

(* do_fetch, do_exists, do_store, do_delete *)
Fetch(db, k)  == Result(db, IF db.rows[k] = None THEN NotFound ELSE Found(k, db.rows[k]))
Exists(db, k) == Result(db, IF db.rows[k] = None THEN NotFound ELSE Found(None, None))
Store(db, k, v) == Result(Put(db, k, v), Found(None, None))
Delete(db, k) ==
  Result(Put(db, k, None), IF db.rows[k] = None THEN NotFound ELSE Found(None, None))

(* do_packinc, do_packdec: the counter is a uint32_t and wraps *)

(* mutant: the new value is not put back *)
Mut_NotPutBack(db, k, new) ==
  Result(db, IF db.rows[k] = None THEN NotFound ELSE Found(None, new))

Count(db, k, new) ==
  IF db.rows[k] = None THEN Result(db, NotFound)
                       ELSE Result(Put(db, k, new), Found(None, new))
PackInc(db, k) == Count(db, k, (db.rows[k] + 1) % Limit)
PackDec(db, k) == Count(db, k, (db.rows[k] - 1) % Limit)

(* do_inc, do_dec: the counter is a text; the largest number is refused,     *)
(* and so is a decrement of zero                                             *)
Inc(db, k) == IF db.rows[k] = Limit - 1 THEN Result(db, Failed)
                                        ELSE Count(db, k, db.rows[k] + 1)
Dec(db, k) == IF db.rows[k] \in {0, Limit - 1} THEN Result(db, Failed)
                                               ELSE Count(db, k, db.rows[k] - 1)

(* do_sync and do_clear answer without F_FOUND; clear reopens the file *)
Sync(db)  == Result(db, NotFound)
Clear(db) == Result([EmptyDatabase EXCEPT !.lastfd = db.lastfd], NotFound)

(* The cursor goes to the least key of a set, or stays when there is none.   *)
Least(S) == CHOOSE k \in S : \A j \in S : k <= j
Seek(db, S) == IF S = {} THEN db ELSE [db EXCEPT !.cursor = Least(S)]
From(db, k) == {j \in Present(db) : j >= k}
After(db) ==
  IF db.cursor = None THEN Present(db) ELSE {j \in Present(db) : j > db.cursor}
Used(db, fd) == [db EXCEPT !.lastfd = fd]

(* do_first and do_from *)
Positioned(db, S, fd) ==
  Result(Used(Seek(db, S), fd),
         IF S = {} THEN NotFound ELSE Found(Least(S), db.rows[Least(S)]))

(* do_next: a connection that did not use the cursor last moves it once      *)
(* before the move whose key it answers; DB_NEXT looks at no key, so that    *)
(* the first move is not to the key the client came from                     *)

(* mutant: the cursor moves twice for everybody *)
Mut_MovesTwice(db, fd) ==
  LET moved == Seek(db, After(db)) IN Positioned(moved, After(moved), fd)

NextKey(db, fd) ==
  LET stale == db.lastfd # fd
      moved == IF stale THEN Used(Seek(db, After(db)), fd) ELSE db
  IN  IF stale /\ After(db) = {} THEN Result(moved, NotFound)
      ELSE Positioned(moved, After(moved), fd)

Operations == {"fetch", "exists", "store", "delete", "packinc", "packdec",
               "inc", "dec", "sync", "clear", "first", "from", "next"}

(* parse_request, for a connection with an open database *)
Execute(db, fd, q) ==
  CASE q.op = "fetch"   -> Fetch(db, q.key)
    [] q.op = "exists"  -> Exists(db, q.key)
    [] q.op = "store"   -> Store(db, q.key, q.value)
    [] q.op = "delete"  -> Delete(db, q.key)
    [] q.op = "packinc" -> PackInc(db, q.key)
    [] q.op = "packdec" -> PackDec(db, q.key)
    [] q.op = "inc"     -> Inc(db, q.key)
    [] q.op = "dec"     -> Dec(db, q.key)
    [] q.op = "sync"    -> Sync(db)
    [] q.op = "clear"   -> Clear(db)
    [] q.op = "first"   -> Positioned(db, Present(db), fd)
    [] q.op = "from"    -> Positioned(db, From(db, q.key), fd)
    [] q.op = "next"    -> NextKey(db, fd)
    [] q.op = "close"   -> Result(db, NotFound)
=============================================================================
