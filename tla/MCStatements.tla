---------------------------- MODULE MCStatements ----------------------------
(* Statements for TLC: two nodes; one statement in a database and in a       *)
(* dropped one, and a second of the same shape in the first, with times that *)
(* round up, round down and accumulate; the first takes 4 or 8 thousandths of*)
(* a ms, which differ by nothing that is shown but not once they are rounded.*)
EXTENDS Statements, TLC

CONSTANTS n1, n2, orders, orders2, dropped

MCNode == {n1, n2}
MCStmt == {orders, orders2, dropped}
MCQid  == [s \in MCStmt |-> IF s = orders2 THEN "q2" ELSE "q1"]
MCDb   == [s \in MCStmt |-> IF s = dropped THEN NoDb ELSE "shop"]
MCTemplate == [s \in MCStmt |-> "orders"]
MCMeasured ==
  LET took(exec, bucket) == [exec |-> exec, bucket |-> bucket]
  IN orders  :> {took(4, 3), took(8, 5)} @@
     orders2 :> {took(7, 0)} @@
     dropped :> {took(15, 5)}

NodeSymmetry == Permutations(MCNode)
=============================================================================
