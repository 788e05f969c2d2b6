--------------------------- MODULE VolumeService ---------------------------
(***************************************************************************)
(* One storage volume (realsim/seams/volume_service.py) over its           *)
(* least-recently-used ranking (realsim/seams/_retention.py): puts that    *)
(* account for what landed, evict to make room, tell the directory and     *)
(* commit, against gets, touches, deletes and resets.                      *)
(*                                                                         *)
(* A stored value is its size in bytes, 0 standing for no value.  The      *)
(* whole of the volume's state is one record:                              *)
(*   kv     the real store                                                 *)
(*   by     _resident_by_key                                               *)
(*   total  resident_bytes                                                 *)
(*   peak   peak_resident_bytes                                            *)
(*   used   LeastRecentlyUsed._used, 0 for a key it does not rank          *)
(*   size   LeastRecentlyUsed._bytes                                       *)
(*   clock  LeastRecentlyUsed._clock                                       *)
(* Nothing in put suspends but the call that tells the directory, and that *)
(* only where the directory is a hop away.                                 *)
(***************************************************************************)
EXTENDS Integers, FiniteSets, FiniteSetsExt

CONSTANTS
  Keys,
  Calls,       \* put calls, each made once
  Writes,      \* Writes[c]: the size each key of call c is written with
  Capacity,    \* storage_capacity_bytes
  Directories, \* kinds of directory a volume may have: "none", "local" (told
               \* without suspending) or "remote"
  MaxOps       \* bound on gets, touches, deletes and resets

ASSUME VolumeAssumption ==
  /\ IsFiniteSet(Keys)
  /\ \A c \in Calls : /\ DOMAIN Writes[c] \in SUBSET Keys \ {{}}
                      /\ \A k \in DOMAIN Writes[c] : Writes[c][k] \in Nat \ {0}
  /\ Capacity \in Nat /\ MaxOps \in Nat
  /\ Directories \subseteq {"none", "local", "remote"}

VARIABLES
  directory,  \* whom the volume tells of its evictions
  vol,        \* the volume
  pc,         \* where each put is
  projected,  \* the total a put suspended over the hop will commit
  ops         \* how many of the other operations have been called

vars == <<directory, vol, pc, projected, ops>>

Total(f) == MapThenSumSet(LAMBDA k : f[k], DOMAIN f)

Sum(f, S) == MapThenSumSet(LAMBDA k : f[k], S)

Written(c) == DOMAIN Writes[c]

(* The types; the volume's byte count is never negative. *)
TypeOK ==
  /\ directory \in Directories
  /\ vol \in [kv : [Keys -> Nat], by : [Keys -> Nat], total : Nat, peak : Nat,
              used : [Keys -> Nat], size : [Keys -> Nat], clock : Nat]
  /\ pc \in [Calls -> {"idle", "telling", "done", "refused"}]
  /\ projected \in [Calls -> Int]
  /\ ops \in Nat

Init ==
  /\ directory \in Directories
  /\ vol = LET none == [k \in Keys |-> 0]
           IN [kv |-> none, by |-> none, total |-> 0, peak |-> 0,
               used |-> none, size |-> none, clock |-> 0]
  /\ pc = [c \in Calls |-> "idle"]
  /\ projected = [c \in Calls |-> 0]
  /\ ops = 0

-----------------------------------------------------------------------------
(***************************************************************************)
(* The ranking.                                                            *)
(***************************************************************************)

Held(v) == { k \in Keys : v.used[k] > 0 }

(* _use: each of S is noted in turn, with its bytes if it has any.  The    *)
(* keys of a put are a set, so their order among themselves is arbitrary.  *)
Used(v, S) ==
  LET n == Cardinality(S)
      orders == { f \in [S -> v.clock + 1 .. v.clock + n] :
                    \A j, k \in S : j # k => f[j] # f[k] }
  IN { [v EXCEPT !.clock = @ + n,
                 !.used = [k \in Keys |-> IF k \in S THEN at[k] ELSE @[k]],
                 !.size = [k \in Keys |-> IF k \in S /\ v.by[k] > 0 THEN v.by[k] ELSE @[k]]]
       : at \in orders }

(* Faulty: the excluded are filtered from the answer, and were counted.    *)
VictimsCountExcluded(v, need, exclude) ==
  LET Colder(k) == { j \in Held(v) : v.used[j] < v.used[k] }
  IN { k \in Held(v) \ exclude : Sum(v.size, Colder(k)) < need }

(* Faulty: one victim too many when the need is met exactly. *)
VictimsOneMore(v, need, exclude) ==
  LET ranked == Held(v) \ exclude
      Colder(k) == { j \in ranked : v.used[j] < v.used[k] }
  IN { k \in ranked : Sum(v.size, Colder(k)) <= need }

(* LeastRecentlyUsed.victims: coldest first until the need is covered, the *)
(* excluded neither dropped nor counted.                                   *)
Victims(v, need, exclude) ==
  LET ranked == Held(v) \ exclude
      Colder(k) == { j \in ranked : v.used[j] < v.used[k] }
  IN { k \in ranked : Sum(v.size, Colder(k)) < need }

(* delete for each of S: the value, its bytes and its rank go together.    *)
Deleted(v, S) ==
  LET Without(f) == [k \in Keys |-> IF k \in S THEN 0 ELSE f[k]]
  IN [v EXCEPT !.kv = Without(@), !.by = Without(@), !.total = @ - Sum(v.by, S),
               !.used = Without(@), !.size = Without(@)]

-----------------------------------------------------------------------------
(***************************************************************************)
(* A put.                                                                  *)
(***************************************************************************)

(* store.put: the values land before anything is known of the room.        *)
Landed(v, c) ==
  [v EXCEPT !.kv = [k \in Keys |-> IF k \in Written(c) THEN Writes[c][k] ELSE @[k]]]

Projected(v, c) ==
  v.total + Sum([k \in Written(c) |-> Writes[c][k] - v.by[k]], Written(c))

(* The victims of _ask_for_room that are resident; none without a          *)
(* directory to tell.                                                      *)
Room(v, c) ==
  IF directory = "none" \/ Projected(v, c) <= Capacity THEN {}
  ELSE { k \in Victims(v, Projected(v, c) - Capacity, Written(c)) : v.by[k] > 0 }

Committed(v, c, total) ==
  LET booked == [v EXCEPT !.by = [k \in Keys |-> IF k \in Written(c) THEN Writes[c][k]
                                                                    ELSE @[k]]]
  IN { [w EXCEPT !.total = total, !.peak = IF total > @ THEN total ELSE @]
       : w \in Used(booked, Written(c)) }

(* Faulty: the refused values stay in the store. *)
RolledBackNot(v, c) == v

(* The roll-back of a refusal: keys that were not resident are removed.    *)
RolledBack(v, c) ==
  [v EXCEPT !.kv = [k \in Keys |-> IF k \in Written(c) /\ v.by[k] = 0 THEN 0 ELSE @[k]]]

(* The end of put: commit what fits, refuse what does not.                 *)
Settle(c, v, total) ==
  \/ /\ total <= Capacity
     /\ vol' \in Committed(v, c, total)
     /\ pc' = [pc EXCEPT ![c] = "done"]
  \/ /\ total > Capacity
     /\ vol' = RolledBack(v, c)
     /\ pc' = [pc EXCEPT ![c] = "refused"]

(* put, with nothing to suspend for: it fits, there is nothing to drop, or *)
(* the directory is told in place.                                         *)
Put(c) ==
  LET room == Room(vol, c)
  IN /\ pc[c] = "idle"
     /\ room = {} \/ directory = "local"
     /\ Settle(c, Deleted(Landed(vol, c), room), Projected(vol, c) - Sum(vol.by, room))
     /\ UNCHANGED <<directory, projected, ops>>

(* put up to the hop: victims are dropped, and the total to commit is kept. *)
PutTells(c) ==
  LET room == Room(vol, c)
  IN /\ pc[c] = "idle"
     /\ room # {} /\ directory = "remote"
     /\ vol' = Deleted(Landed(vol, c), room)
     /\ projected' = [projected EXCEPT ![c] = Projected(vol, c) - Sum(vol.by, room)]
     /\ pc' = [pc EXCEPT ![c] = "telling"]
     /\ UNCHANGED <<directory, ops>>

PutResumes(c) ==
  /\ pc[c] = "telling"
  /\ Settle(c, vol, projected[c])
  /\ UNCHANGED <<directory, projected, ops>>

-----------------------------------------------------------------------------
(***************************************************************************)
(* The other endpoints.                                                    *)
(***************************************************************************)

Operation == ops < MaxOps /\ ops' = ops + 1 /\ UNCHANGED <<directory, pc, projected>>

(* get notes the keys before the store is asked whether it has them.       *)
Get(S) == Operation /\ vol' \in Used(vol, S)

Touch(S) == Operation /\ vol' \in Used(vol, { k \in S : vol.by[k] > 0 })

Delete(S) ==
  /\ Operation
  /\ \A k \in S : vol.kv[k] > 0
  /\ vol' = Deleted(vol, S)

Reset ==
  /\ Operation
  /\ vol' = LET none == [k \in Keys |-> 0]
            IN [vol EXCEPT !.kv = none, !.by = none, !.total = 0,
                           !.used = none, !.size = none]

Finished == (\A c \in Calls : pc[c] \in {"done", "refused"}) /\ UNCHANGED vars

Next ==
  \/ \E c \in Calls : Put(c) \/ PutTells(c) \/ PutResumes(c)
  \/ \E S \in SUBSET Keys \ {{}} : Get(S) \/ Touch(S) \/ Delete(S)
  \/ Reset
  \/ Finished

Spec == Init /\ [][Next]_vars

-----------------------------------------------------------------------------
(***************************************************************************)
(* Properties.                                                             *)
(***************************************************************************)

Quiet == \A c \in Calls : pc[c] # "telling"

(* The byte count of the volume is the sum of what it books per key         *)
(* ("resident_bytes is their sum").                                         *)
ResidentExact == Quiet => vol.total = Total(vol.by)

(* Where puts do not overlap, the byte count is exact and within capacity,  *)
(* and each key is booked as the store holds it: a refused put leaves       *)
(* nothing behind but the value of a key it was overwriting.                *)
StoreAsBooked ==
  directory # "remote" =>
    /\ vol.total = Total(vol.by) /\ vol.total <= Capacity
    /\ \A k \in Keys : vol.kv[k] # vol.by[k] =>
         \E c \in Calls : /\ pc[c] = "refused" /\ k \in Written(c)
                         /\ vol.by[k] > 0 /\ vol.kv[k] = Writes[c][k]

(* A refused put does not silently fit: what the store holds between puts   *)
(* is never more than the volume's capacity.                                *)
NothingSilentlyFits ==
  Quiet => Total(vol.kv) <= Capacity

(* The ranking knows exactly the resident keys' bytes: a key that went, by  *)
(* eviction, delete or reset, is never counted toward the room a put needs, *)
(* and no resident key is out of its sight.                                 *)
RankingAgrees ==
  \A k \in Keys : /\ vol.size[k] = vol.by[k]
                  /\ vol.by[k] > 0 => vol.used[k] > 0

(* A put is refused only when it could not fit: nothing the volume was free *)
(* to drop is left.  One without a directory to tell drops nothing at all.  *)
RefusedOnlyWhenFull ==
  [][\A c \in Calls : directory = "local" /\ pc[c] # "refused" /\ pc'[c] = "refused" =>
       \A k \in Keys \ Written(c) : vol'.by[k] = 0]_vars

(* Room is made from the cold end and no further than it has to be: what a  *)
(* put drops is colder than every resident key it keeps, and without the    *)
(* warmest key it dropped the put would not have fitted.                    *)
DropsColdest ==
  [][\A c \in Calls : pc[c] = "idle" /\ pc'[c] \in {"telling", "done"} =>
       LET dropped == { k \in Keys \ Written(c) : vol.by[k] > 0 /\ vol'.by[k] = 0 }
           kept == { k \in Keys \ Written(c) : vol'.by[k] > 0 }
       IN /\ \A j \in dropped, k \in kept : vol.used[j] < vol.used[k]
          /\ \A j \in dropped :
               (\A k \in dropped : vol.used[k] <= vol.used[j]) =>
                 Projected(vol, c) - Sum(vol.by, dropped \ {j}) > Capacity]_vars
=============================================================================
