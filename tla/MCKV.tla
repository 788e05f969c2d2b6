-------------------------------- MODULE MCKV --------------------------------
(* Instances of KVServing for TLC.                                         *)
EXTENDS KVServing

(* Two tenants: the first asks, then the second asks while the first asks  *)
(* again.                                                                  *)
Turns == MakeWorkload(<<0, 1, 0>>, {0, 1}, 1, 0, 1, 1, 2)
Chains == [i \in 1 .. 3 |-> Turns[i].keys]
(* The second tenant arrives once the first has been answered.             *)
TurnsBefore == [i \in 1 .. 3 |-> Turns[i].before \union (IF i = 2 THEN {1} ELSE {})]
Affine == [i \in 1 .. 3 |-> Affinity(Hosts, Turns[i].rank)]
(* The second tenant has nothing to decode. *)
OutputTwo == <<2, 1, 2>>

(* A block from oneself is free; any other takes one unit.                 *)
UnitPulls == [v \in Hosts |-> [h \in Hosts |-> IF v = h THEN 0 ELSE 1]]

(* The dialogues of the instance are as make_workload builds them.         *)
ASSUME TurnsContinue
=============================================================================
