---------------------------- MODULE MCDbmsClient ----------------------------
(* Instances of DbmsClient for TLC. *)
EXTENDS DbmsClient

CONSTANTS c1, c2

TwoClients == {c1, c2}
MCKeys == 1 .. 3
MCFds  == 1 .. 3

Request(op, k) == [op |-> op, key |-> k, value |-> 0, big |-> FALSE]

(* Both count; the first scans; the second deletes, tries to store a value   *)
(* too big to send, and disconnects.                                         *)
Scanner == {Request("packinc", 3), Request("first", 3), Request("next", 3)}
Deleter == {Request("packinc", 3), Request("delete", 2),
            [Request("store", 2) EXCEPT !.big = TRUE], CloseRequest}
MCRequests == [c \in TwoClients |-> IF c = c1 THEN Scanner ELSE Deleter]

ScanRequests == [c \in TwoClients |-> {Request("first", 3), Request("next", 3)}]

Filled == [EmptyDatabase EXCEPT !.rows = [k \in Keys |-> 0]]
Joined == [c \in TwoClients |-> IF c = c1 THEN 1 ELSE 2]
OneDatabase == {Filled}
=============================================================================
