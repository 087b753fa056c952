---------------------------- MODULE MCDbmsDaemon ----------------------------
(* Instances of DbmsDaemon for TLC. *)
EXTENDS DbmsDaemon

CONSTANTS x1, x2, x3, d1, d2, d3

TwoConns   == {x1, x2}
ThreeConns == {x1, x2, x3}
AllDatabases == {d1, d2, d3}
OneDatabase  == {d1}
TwoDatabases == {d1, d2}
NoDatabase   == {}
ThirdDatabase == {d3}
=============================================================================
