----------------------------- MODULE TripleStore -----------------------------
(***************************************************************************)
(* What the kernel promises to the owner of a store: a set of statements,  *)
(* each in its context, changed by insertions and removals that take       *)
(* effect at one instant between call and return.  RdfStore implements it  *)
(* with counters, bitmaps and a table of hash codes.                       *)
(***************************************************************************)
EXTENDS Integers, FiniteSets

CONSTANTS Procs, Quads, None

VARIABLES
  store,    \* the statements asserted, with their contexts
  request,  \* what each process has called for and not been answered
  reply     \* the last answer of each process: a result and a size

vars == <<store, request, reply>>

Changes  == {"insert", "remove"} \X Quads
Counts   == {"size", "is_empty"} \X {None}
NoReply  == [ret |-> 0, out |-> 0]

Init ==
  /\ store = {}
  /\ request = [p \in Procs |-> None]
  /\ reply = [p \in Procs |-> NoReply]

Submit(p, r) ==
  /\ request[p] = None
  /\ request' = [request EXCEPT ![p] = r]
  /\ reply' = [reply EXCEPT ![p] = NoReply]
  /\ UNCHANGED store

Answer(p, ret, out) ==
  /\ request' = [request EXCEPT ![p] = None]
  /\ reply' = [reply EXCEPT ![p] = [ret |-> ret, out |-> out]]

(* A statement already there in its context is not inserted again. *)
Insert(p, q) ==
  /\ request[p] = <<"insert", q>>
  /\ store' = store \cup {q}
  /\ Answer(p, IF q \in store THEN 1 ELSE 0, 0)

(* A statement the store has no room for, or that is not well formed. *)
Refuse(p, q) ==
  /\ request[p] = <<"insert", q>>
  /\ q \notin store
  /\ UNCHANGED store
  /\ Answer(p, -1, 0)

Remove(p, q) ==
  /\ request[p] = <<"remove", q>>
  /\ store' = store \ {q}
  /\ Answer(p, IF q \in store THEN 0 ELSE 1, 0)

Size(p) ==
  /\ request[p] = <<"size", None>>
  /\ UNCHANGED store
  /\ Answer(p, 0, Cardinality(store))

(* 0 means that the store is empty. *)
IsEmpty(p) ==
  /\ request[p] = <<"is_empty", None>>
  /\ UNCHANGED store
  /\ Answer(p, IF store = {} THEN 0 ELSE 1, 0)

(* 0 means that the statement is there. *)
Contains(p, q) ==
  /\ request[p] = None
  /\ reply' = [reply EXCEPT ![p] = [ret |-> IF q \in store THEN 0 ELSE 1, out |-> 0]]
  /\ UNCHANGED <<store, request>>

Next ==
  \E p \in Procs :
    \/ \E r \in Changes \cup Counts : Submit(p, r)
    \/ \E q \in Quads : Insert(p, q) \/ Refuse(p, q) \/ Remove(p, q) \/ Contains(p, q)
    \/ Size(p) \/ IsEmpty(p)

Spec == Init /\ [][Next]_vars
=============================================================================
