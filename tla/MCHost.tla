------------------------------- MODULE MCHost -------------------------------
(* Instances of HostCompute for TLC.                                        *)
EXTENDS HostCompute

(* Passes are 1 .. 9, decodes 11 .. 19.  Passes come while others    *)
(* run, and one has nothing to compute.                                     *)
PassCosts == [p \in Passes |-> CASE p = 1 -> 2 [] p = 4 -> 0 [] OTHER -> 1]
Outputs == [d \in Decodes |-> CASE d = 11 -> 3 [] d = 15 -> 1 [] OTHER -> 2]
Arrivals == [x \in Passes \union Decodes |->
  CASE x = 1 -> 0 [] x = 2 -> 1 [] x = 3 -> 2 [] x = 4 -> 1
    [] x = 11 -> 0 [] x = 12 -> 0 [] x \in {13, 15} -> 1 [] OTHER -> 2]
OneTick == [n \in 1 .. MaxBatch |-> n]

=============================================================================
