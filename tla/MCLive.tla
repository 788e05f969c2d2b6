------------------------------ MODULE MCLive ------------------------------
(* One trainer, one generator and one aggregator, on three ranks or on one. *)
EXTENDS LiveExample

Letters == <<".", "0", "1", "d", "g", "m", "o", "s", "t", "w">>
Digits == [i \in 0..1 |-> IF i = 0 THEN "0" ELSE "1"]

\* A key of another program that shares characters, not a segment, with trainer.0.
Slices == <<"t", ".", "0", "1", ".", "d">>
\* A key that is also an inner node of the trie.
Inner == <<"g">>

AllKeys == UNION {SeedKeys(w) \cup {RotatedKey(w)} : w \in {Trainer(0)}}
           \cup SeedKeys(Generator(0, 0)) \cup {Slices, Inner}

Kinds == [k \in AllKeys |-> IF k = Slices THEN "TENSOR_SLICE"
                            ELSE IF k = Inner \/ (k[Len(k)] = "m" /\ Len(k) = 5) THEN "OBJECT"
                            ELSE "TENSOR"]
Sizes == [k \in AllKeys |-> IF Kinds[k] = "OBJECT" THEN 0 ELSE Len(k)]
Meshes == [k \in AllKeys |-> IF k = Slices THEN {1, 2} ELSE {}]
Hosts == [v \in 0..2 |-> v % 2]

Query(op, arg, sort, order, limit) ==
  [op |-> op, arg |-> arg, sort |-> sort, order |-> order, limit |-> limit]

Lists ==
  {Query("expand_prefix", <<"t">>, "name", "desc", 1),
   Query("search", Top, "partial", "", 5),
   Query("list_volumes", 0, "bytes", "", 2),
   Query("search_volumes", {0, 1, 2}, "keys", "asc", 5)}

Singles ==
  {Query("key", <<"t", ".", "0", ".", "o", ".", "m">>, "", "", 1),
   Query("peek", <<"t", ".", "0", ".", "o", ".", "m">>, "", "", 1),
   Query("unknown", Top, "", "", 1)}

Queries == <<Lists \cup Singles, {Query("summary", Top, "", "", 1)}, {}>>
Failures == <<0, 0, 1>>

NoTensors == << >>

\* One of two slices is missing.
OtherKeys == [k \in {Slices, Inner} |->
                IF k = Slices THEN <<[vol |-> 0, coords |-> {1}]>>
                ELSE <<[vol |-> 0, coords |-> {}]>>]
TrainerTwice == [trainer |-> 2, generator |-> 1]
===========================================================================
