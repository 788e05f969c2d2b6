------------------------------ MODULE MCDedup ------------------------------
(* Instances of DedupRouting for TLC.  Volume 0 is the origin; volumes are  *)
(* integers because the ranking breaks ties on them.                        *)
EXTENDS DedupRouting

(* Three units of link time across the fabric, one between peers. *)
FarOrigin == [v \in Volumes |-> [r \in Volumes |->
                IF v = r THEN 0 ELSE IF v \in Origins \/ r \in Origins THEN 3 ELSE 1]]

(* One call per reader, all released together. *)
BurstRequester == [t \in Reads |-> t]
Together == [t \in Reads |-> {}]
WholeBatch == [t \in Reads |-> Keys]

(* Reader 2 overlaps a read of "b" with its read of "a", and reader 3 wants *)
(* both, so its plan may take a source per key.                             *)
OverlapRequester == [t \in Reads |-> CASE t = 3 -> 2 [] t = 4 -> 3 [] OTHER -> t]
OverlapBatch == [t \in Reads |-> CASE t = 3 -> {"b"} [] t = 4 -> Keys [] OTHER -> {"a"}]
=============================================================================
