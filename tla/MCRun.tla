---- MODULE MCRun ----
(***************************************************************************)
(* Two trainer replicas on one node and three readers on another, released *)
(* together or apart, under three precomputed plans.                       *)
(***************************************************************************)
EXTENDS RunReport, TLC

TwoTrainers == << "t0", "t1" >>

HostOf == [v \in Volumes |-> v]

NodeOf == [v \in Volumes |-> IF v \in Origins THEN "T" ELSE "G"]

Instants == {0, 5}

\* Everyone from an origin, a relay, and a chain of relays.
Plans == { [i \in Items |-> "t0"],
           "r2" :> "r1" @@ [i \in Items |-> "t0"],
           "r2" :> "r1" @@ "r3" :> "r2" @@ [i \in Items |-> "t0"] }

Machine ==
    [tiers |-> [shm |-> <<1, 0>>, nvlink |-> <<1, 1>>, rdma |-> <<2, 2>>],
     storage |-> [read |-> <<1, 1>>, write |-> <<1, 2>>],
     ram |-> <<0, 1>>, gpu_flops |-> [float32 |-> 1], gpu_flops_default |-> 2,
     gpu_mem |-> 1, cpu_flops |-> 2]

\* Variables set and not, in each way a switch is written.
Shells == [collapse_charges : {Unset, "on", "off"}, controller_rtt : {Unset, 1}]

Flags == [collapse_charges : BOOLEAN, controller_rtt : {Unset, 2}]
====
