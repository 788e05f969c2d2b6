---------------------------- MODULE DedupRouting ----------------------------
(***************************************************************************)
(* Dedup read routing: the control plane that ranks live and pending       *)
(* sources for a read (dedup_sim/control), the dispatcher whose commits    *)
(* open its gates (proposed/dispatch.py), and the read-through data plane  *)
(* that carries a plan out (dedup_sim/data/read_through.py), over the      *)
(* TorchStore directory as those modules use it.                           *)
(*                                                                         *)
(* A publication is <<id, volume>>; id 0 is a live copy and every other id *)
(* is one declared read-through that has not landed.  The directory is one *)
(* set of rows <<publication, key>>.  The run is single-threaded and       *)
(* switches tasks only where a coroutine suspends, so each action below is *)
(* the code between two suspension points.                                 *)
(***************************************************************************)
EXTENDS Integers, FiniteSets

CONSTANTS
  Volumes,     \* volume ids, one per node; integers, because ids break ties
  Keys,        \* what is read
  Origins,     \* the volumes that hold every key before the run
  Reads,       \* read-through calls of the workload
  Requester,   \* Requester[t]: the volume reading in call t
  Batch,       \* Batch[t]: the keys of call t
  After,       \* After[t]: the calls the workload lets finish before t starts
  FanoutCap,   \* Dedup(fanout_cap = ...)
  Fabric,      \* CHAIN (10) or SPREAD (0)
  Spread,      \* Dedup(spread = ...): fold the queue into the score
  Hop,         \* Hop[v][r]: Environment.read_time from v to r
  Bounded,     \* volumes whose capacity makes them evict
  PutMayFail,  \* whether a volume may refuse a read-through put (StorageFull)
  PutsOverlap, \* whether another put may evict a key that has landed in a
               \* volume and is not registered yet
  MaxEvict,    \* bound on evictions
  MaxPub       \* bound on declared publications

ASSUME ConstantsAssumption ==
  /\ Volumes \subseteq Nat /\ IsFiniteSet(Volumes)
  /\ IsFiniteSet(Keys) /\ IsFiniteSet(Reads)
  /\ Origins \subseteq Volumes /\ Bounded \subseteq Volumes
  /\ Requester \in [Reads -> Volumes]
  /\ Batch \in [Reads -> SUBSET Keys]
  /\ \A t \in Reads : Batch[t] # {}
  /\ After \in [Reads -> SUBSET Reads]
  /\ FanoutCap \in Nat /\ Fabric \in Nat
  /\ Spread \in BOOLEAN /\ PutMayFail \in BOOLEAN /\ PutsOverlap \in BOOLEAN
  /\ Hop \in [Volumes -> [Volumes -> Nat]]
  /\ MaxEvict \in Nat /\ MaxPub \in Nat

Publications == Nat \X Volumes

VARIABLES
  nextPub,   \* the directory's last publication id
  rows,      \* the directory: which publication serves which key
  inFlight,  \* DedupDirectorySensor._in_flight
  arrival,   \* FanoutSensor._arrival
  behind,    \* FanoutSensor._behind, 0 for an absent entry
  assigned,  \* FanoutSensor._assigned, {} for an absent entry
  gates,     \* FanoutSensor._gates: by requester, the publications it is behind
  pc,        \* where each read-through call is
  pub,       \* the publication of the call's current plan
  prefer,    \* the plan's ranked sources: position of a volume, 0 if unnamed
  missing,   \* _Waiter.missing of the call's gate
  located,   \* what the call's get located: pairs <<key, volume>>
  resident,  \* the volumes' stores: pairs <<key, volume>>
  dropping,  \* evicted, and not yet deregistered: pairs <<key, volume>>
  evictions  \* how many evictions there have been

sensorVars == <<inFlight, arrival, behind, assigned, gates>>
planVars == <<pub, prefer>>
storeVars == <<resident, dropping, evictions>>
vars == <<nextPub, rows, sensorVars, pc, planVars, missing, located, storeVars>>

Control == {"idle", "asked", "located", "missed", "fetched", "stored",
            "registered", "done", "failed"}

(* The types, of which one is a fact about the sensor: a volume's count of  *)
(* readers never goes below zero, where FanoutSensor._decrement would raise *)
(* a KeyError on the absent entry.                                          *)
TypeOK ==
  /\ nextPub \in Nat
  /\ rows \subseteq Publications \X Keys
  /\ inFlight \subseteq Publications
  /\ DOMAIN arrival \subseteq Publications
  /\ behind \in [Volumes -> Nat]
  /\ assigned \in [Volumes -> SUBSET Volumes]
  /\ gates \in [Volumes -> SUBSET Publications]
  /\ pc \in [Reads -> Control]
  /\ pub \in [Reads -> Publications]
  /\ prefer \in [Reads -> [Volumes -> Nat]]
  /\ missing \in [Reads -> SUBSET Publications]
  /\ located \in [Reads -> SUBSET (Keys \X Volumes)]
  /\ resident \subseteq Keys \X Volumes
  /\ dropping \subseteq Keys \X Volumes
  /\ evictions \in Nat

Init ==
  /\ nextPub = 0
  /\ rows = { <<<<0, v>>, k>> : v \in Origins, k \in Keys }
  /\ inFlight = {}
  /\ arrival = [p \in {} |-> 0]
  /\ behind = [v \in Volumes |-> 0]
  /\ assigned = [v \in Volumes |-> {}]
  /\ gates = [v \in Volumes |-> {}]
  /\ pc = [t \in Reads |-> "idle"]
  /\ pub = [t \in Reads |-> <<0, Requester[t]>>]
  /\ prefer = [t \in Reads |-> [v \in Volumes |-> 0]]
  /\ missing = [t \in Reads |-> {}]
  /\ located = [t \in Reads |-> {}]
  /\ resident = Keys \X Origins
  /\ dropping = {}
  /\ evictions = 0

-----------------------------------------------------------------------------
(***************************************************************************)
(* The directory, as dedup's sensor reads it.                              *)
(***************************************************************************)

Serves(p, k, dir) == <<p, k>> \in dir

ServingUnion(batch, dir) == { row[1] : row \in { w \in dir : w[2] \in batch } }

Live(k) == { v \in Volumes : Serves(<<0, v>>, k, rows) }

(***************************************************************************)
(* Candidates, SourceBalance and Ordered: what may serve a requester, its  *)
(* score in link time, the load annotated on it, and the order those give. *)
(* Without a fold the dimensions compare lexicographically; the            *)
(* publication itself is compared last, so no two sources tie.             *)
(***************************************************************************)

(* Faulty: the fan-out cap is not applied. *)
CandidatesUncapped(serving, requester) ==
  { p \in serving : p[2] # requester /\ (p[1] # 0 => p \in DOMAIN arrival) }

Candidates(serving, requester) ==
  { p \in serving :
      /\ p[2] # requester
      /\ p[1] # 0 => behind[p[2]] < FanoutCap /\ p \in DOMAIN arrival }

Wait(p) == IF p[1] = 0 THEN 0 ELSE arrival[p]

(* Faulty: a hop costs no more than its link time. *)
ScoreWithoutFabric(p, requester) == Wait(p) + Hop[p[2]][requester]

Score(p, requester) ==
  LET hop == Hop[p[2]][requester]
  IN Wait(p) + hop + Fabric * hop

RanksBefore(p, q, requester) ==
  LET sp == Score(p, requester)
      sq == Score(q, requester)
      lp == IF Spread THEN sp * (1 + behind[p[2]]) ELSE sp
      lq == IF Spread THEN sq * (1 + behind[q[2]]) ELSE sq
      np == IF Spread THEN 0 ELSE behind[p[2]]
      nq == IF Spread THEN 0 ELSE behind[q[2]]
  IN \/ lp < lq
     \/ lp = lq /\ np < nq
     \/ lp = lq /\ np = nq /\ p[1] < q[1]
     \/ lp = lq /\ np = nq /\ p[1] = q[1] /\ p[2] < q[2]

First(S, requester) ==
  { p \in S : \A q \in S \ {p} : RanksBefore(p, q, requester) }

(* The walk over the ranking that takes each source serving something no   *)
(* earlier one serves: every key's first source.                           *)
GreedyCover(batch, ranked, requester, dir) ==
  UNION { First({ p \in ranked : Serves(p, k, dir) }, requester) : k \in batch }

(* Where each volume stands among the plan's sources, 0 if it is not one.  *)
Preference(chosen, requester) ==
  LET Ahead(v) == { w \in Volumes \ {v} :
                      \E q \in chosen : q[2] = w /\
                        \A p \in chosen : p[2] = v => RanksBefore(q, p, requester) }
  IN [v \in Volumes |-> IF \E p \in chosen : p[2] = v
                        THEN Cardinality(Ahead(v)) + 1 ELSE 0]

GatePublications(chosen) == { p \in chosen : p[1] # 0 }

(* The instant, in link time from now, at which the last source is read.   *)
ReadTimes(chosen, requester) == { Wait(p) + Hop[p[2]][requester] : p \in chosen }

ArrivalOf(times) ==
  IF times = {} THEN 0 ELSE CHOOSE m \in times : \A n \in times : n <= m

-----------------------------------------------------------------------------
(***************************************************************************)
(* The folds of FanoutSensor.                                              *)
(***************************************************************************)

(* Faulty: a re-ask keeps the gates of the requester's earlier route. *)
FoldRoutedKeepsGates(p, heads, gatePubs, at) ==
  LET r == p[2]
      released == [v \in Volumes |->
                     behind[v] - (IF v \in assigned[r] THEN 1 ELSE 0)]
  IN /\ arrival' = [q \in DOMAIN arrival \union {p} |->
                      IF q \in DOMAIN arrival THEN arrival[q] ELSE at]
     /\ assigned' = [assigned EXCEPT ![r] = heads]
     /\ behind' = [v \in Volumes |->
                     released[v] + (IF v \in heads THEN 1 ELSE 0)]
     /\ gates' = [gates EXCEPT ![r] = @ \union { q \in gatePubs : q[2] \in heads }]

(* FanoutSensor._routed: the requester's earlier route is released, its    *)
(* earlier gates are dropped, and it is booked behind its first source.    *)
FoldRouted(p, heads, gatePubs, at) ==
  LET r == p[2]
      released == [v \in Volumes |->
                     behind[v] - (IF v \in assigned[r] THEN 1 ELSE 0)]
  IN /\ arrival' = [q \in DOMAIN arrival \union {p} |->
                      IF q \in DOMAIN arrival THEN arrival[q] ELSE at]
     /\ assigned' = [assigned EXCEPT ![r] = heads]
     /\ behind' = [v \in Volumes |->
                     released[v] + (IF v \in heads THEN 1 ELSE 0)]
     /\ gates' = [gates EXCEPT ![r] = { q \in gatePubs : q[2] \in heads }]

(* Requesters whose last gate on p's volume is p itself.                   *)
Drained(p) ==
  { r \in Volumes : /\ p \in gates[r]
                    /\ \A q \in gates[r] \ {p} : q[2] # p[2] }

(* FanoutSensor._published.                                                *)
FoldFanoutPublished(p) ==
  /\ arrival' = [q \in DOMAIN arrival \ {p} |-> arrival[q]]
  /\ gates' = [r \in Volumes |-> gates[r] \ {p}]
  /\ behind' = [behind EXCEPT ![p[2]] = @ - Cardinality(Drained(p))]
  /\ assigned' = [r \in Volumes |-> IF r \in Drained(p)
                                    THEN assigned[r] \ {p[2]}
                                    ELSE assigned[r]]

(* DedupDirectorySensor._published: the pending rows are retired.          *)
FoldDirectoryPublished(p) ==
  /\ rows' = { row \in rows : row[1][1] # p[1] }
  /\ inFlight' = inFlight \ {p}

(* Faulty: a commit reaches the waiters of one publication only when no    *)
(* other is in flight.                                                     *)
DispatchPublishedLosesWake(p) ==
  /\ FoldDirectoryPublished(p)
  /\ FoldFanoutPublished(p)
  /\ missing' = [t \in Reads |-> IF inFlight = {p} THEN missing[t] \ {p} ELSE missing[t]]

(* Dispatcher.dispatch_sync(Published(p)): every fold, then the waiters.   *)
DispatchPublished(p) ==
  /\ FoldDirectoryPublished(p)
  /\ FoldFanoutPublished(p)
  /\ missing' = [t \in Reads |-> missing[t] \ {p}]

(* Dispatcher.gate: no wait if nothing named is in flight; else all of it. *)
Gate(gatePubs, flying) == IF gatePubs \intersect flying = {} THEN {} ELSE gatePubs

-----------------------------------------------------------------------------
(***************************************************************************)
(* A read-through call.                                                    *)
(***************************************************************************)

Transition(t, from, to) == pc[t] = from /\ pc' = [pc EXCEPT ![t] = to]

MayStart(t) == \A u \in After[t] : pc[u] \in {"done", "failed"}

(* Dedup.sources up to the gate: declare, fold Asked, rank, fold Routed,   *)
(* park.  Nothing in it suspends.                                          *)
Ask(t) ==
  LET r == Requester[t]
      p == <<nextPub + 1, r>>
      declared == rows \union { <<p, k>> : k \in Batch[t] }
      flying == inFlight \union {p}
      ranked == Candidates(ServingUnion(Batch[t], declared), r)
      chosen == GreedyCover(Batch[t], ranked, r, declared)
      heads == { q[2] : q \in First(chosen, r) }
      gatePubs == GatePublications(chosen)
  IN /\ MayStart(t)
     /\ nextPub < MaxPub
     /\ Transition(t, "idle", "asked")
     /\ nextPub' = nextPub + 1
     /\ rows' = declared
     /\ inFlight' = flying
     /\ FoldRouted(p, heads, gatePubs, ArrivalOf(ReadTimes(chosen, r)))
     /\ missing' = [missing EXCEPT ![t] = Gate(gatePubs, flying)]
     /\ pub' = [pub EXCEPT ![t] = p]
     /\ prefer' = [prefer EXCEPT ![t] = Preference(chosen, r)]
     /\ UNCHANGED <<located, storeVars>>

(* The client's locate with a preference: the named holders in rank order, *)
(* or every holder when none of the named ones holds the key.              *)
Preferred(t, k) ==
  LET named == { v \in Live(k) : prefer[t][v] > 0 }
  IN IF named = {} THEN Live(k)
     ELSE { v \in named : \A w \in named : prefer[t][v] <= prefer[t][w] }

(* A call misled once by a row being deregistered reads the directory next *)
(* after that deregistration, which left one hop earlier.                  *)
CaughtUp(t) == located[t] \intersect dropping = {}

(* The gate has opened: sources answers, and get_batch locates the batch.  *)
Locate(t) ==
  /\ missing[t] = {}
  /\ CaughtUp(t)
  /\ \A k \in Batch[t] : Live(k) # {}
  /\ Transition(t, "asked", "located")
  /\ \E from \in [Batch[t] -> Volumes] :
       /\ \A k \in Batch[t] : from[k] \in Preferred(t, k)
       /\ located' = [located EXCEPT ![t] = { <<k, from[k]>> : k \in Batch[t] }]
  /\ UNCHANGED <<nextPub, rows, sensorVars, planVars, missing, storeVars>>

(* get_batch is all or nothing: one key nobody holds raises KeyError.      *)
LocateMiss(t) ==
  /\ missing[t] = {}
  /\ CaughtUp(t)
  /\ \E k \in Batch[t] : Live(k) = {}
  /\ Transition(t, "asked", "missed")
  /\ located' = [located EXCEPT ![t] = {}]
  /\ UNCHANGED <<nextPub, rows, sensorVars, planVars, missing, storeVars>>

Fetch(t) ==
  /\ located[t] \subseteq resident
  /\ Transition(t, "located", "fetched")
  /\ UNCHANGED <<nextPub, rows, sensorVars, planVars, missing, located, storeVars>>

(* A located volume dropped the key meanwhile: its store raises KeyError.  *)
FetchMiss(t) ==
  /\ ~(located[t] \subseteq resident)
  /\ Transition(t, "located", "missed")
  /\ UNCHANGED <<nextPub, rows, sensorVars, planVars, missing, located, storeVars>>

(* except KeyError: commit Published for the failed plan and ask again.    *)
Retry(t) ==
  /\ Transition(t, "missed", "idle")
  /\ DispatchPublished(pub[t])
  /\ UNCHANGED <<nextPub, planVars, located, storeVars>>

Mine(t) == { <<k, Requester[t]>> : k \in Batch[t] }

(* Faulty: the publication is committed before the keys are registered.    *)
StoreThenPublish(t) ==
  /\ Transition(t, "fetched", "stored")
  /\ resident' = resident \union Mine(t)
  /\ DispatchPublished(pub[t])
  /\ UNCHANGED <<nextPub, planVars, located, dropping, evictions>>

(* client.put_batch: the volume takes the values ...                       *)
Store(t) ==
  /\ Transition(t, "fetched", "stored")
  /\ resident' = resident \union Mine(t)
  /\ UNCHANGED <<nextPub, rows, sensorVars, planVars, missing, located,
                 dropping, evictions>>

(* ... or refuses them, and nothing catches StorageFull ...                *)
PutRefused(t) ==
  /\ PutMayFail
  /\ Transition(t, "fetched", "failed")
  /\ UNCHANGED <<nextPub, rows, sensorVars, planVars, missing, located, storeVars>>

(* ... and the keys are registered live before put_batch returns.  A       *)
(* deregistration of the same keys left earlier over the same hop.         *)
Register(t) ==
  /\ Mine(t) \intersect dropping = {}
  /\ Transition(t, "stored", "registered")
  /\ rows' = rows \union { <<<<0, Requester[t]>>, k>> : k \in Batch[t] }
  /\ UNCHANGED <<nextPub, sensorVars, planVars, missing, located, storeVars>>

Publish(t) ==
  /\ Transition(t, "registered", "done")
  /\ DispatchPublished(pub[t])
  /\ UNCHANGED <<nextPub, planVars, located, storeVars>>

(* The key has landed in the volume's store and is not registered yet.     *)
Landing(k, v) == \E t \in Reads : <<k, v>> \in Mine(t) /\ pc[t] = "stored"

(* Faulty: an eviction the directory is never told of. *)
EvictSilently(k, v) ==
  /\ v \in Bounded
  /\ evictions < MaxEvict
  /\ <<k, v>> \in resident
  /\ PutsOverlap \/ ~Landing(k, v)
  /\ resident' = resident \ {<<k, v>>}
  /\ evictions' = evictions + 1
  /\ UNCHANGED <<nextPub, rows, sensorVars, pc, planVars, missing, located, dropping>>

(* Another put at a bounded volume evicts a key: the bytes go first and    *)
(* the directory is told over a hop.                                       *)
Evict(k, v) ==
  /\ v \in Bounded
  /\ evictions < MaxEvict
  /\ <<k, v>> \in resident
  /\ PutsOverlap \/ ~Landing(k, v)
  /\ resident' = resident \ {<<k, v>>}
  /\ dropping' = dropping \union {<<k, v>>}
  /\ evictions' = evictions + 1
  /\ UNCHANGED <<nextPub, rows, sensorVars, pc, planVars, missing, located>>

(* Faulty: the directory is told and keeps the row. *)
DeregisterIgnored(k, v) ==
  /\ <<k, v>> \in dropping
  /\ dropping' = dropping \ {<<k, v>>}
  /\ UNCHANGED <<nextPub, rows, sensorVars, pc, planVars, missing, located,
                 resident, evictions>>

Deregister(k, v) ==
  /\ <<k, v>> \in dropping
  /\ dropping' = dropping \ {<<k, v>>}
  /\ rows' = rows \ {<<<<0, v>>, k>>}
  /\ UNCHANGED <<nextPub, sensorVars, pc, planVars, missing, located,
                 resident, evictions>>

(* Every call has ended, or the bound on publications is reached.          *)
Finished ==
  /\ \/ \A t \in Reads : pc[t] \in {"done", "failed"}
     \/ nextPub = MaxPub
  /\ UNCHANGED vars

Step(t) ==
  \/ Ask(t) \/ Locate(t) \/ LocateMiss(t) \/ Fetch(t) \/ FetchMiss(t)
  \/ Retry(t) \/ Store(t) \/ PutRefused(t) \/ Register(t) \/ Publish(t)

Next ==
  \/ \E t \in Reads : Step(t)
  \/ \E k \in Keys, v \in Volumes : Evict(k, v) \/ Deregister(k, v)
  \/ Finished

(***************************************************************************)
(* A coroutine that can run is run, and a deregistration that was sent     *)
(* arrives: the loop drains its ready queue and its timers.  Evictions are *)
(* the environment's and are not forced.                                   *)
(***************************************************************************)
Fairness ==
  /\ \A t \in Reads : WF_vars(Step(t))
  /\ WF_vars(\E k \in Keys, v \in Volumes : Deregister(k, v))

Spec == Init /\ [][Next]_vars
FairSpec == Spec /\ Fairness

-----------------------------------------------------------------------------
(***************************************************************************)
(* Safety.                                                                 *)
(***************************************************************************)

Gated(t) == pc[t] = "asked" /\ missing[t] # {}

(* FanoutSensor's count of readers behind a volume is exactly the number of *)
(* requesters assigned to it: no route is released twice (which raises a    *)
(* KeyError in _decrement) and none leaks, whatever the order in which      *)
(* re-asks, failures and publications of several readers interleave.        *)
BehindExact ==
  \A v \in Volumes :
    behind[v] = Cardinality({ r \in Volumes : v \in assigned[r] })

(* A gate's booking is released only by the publications it waits for: a    *)
(* volume a requester is gated behind is one it is assigned to.             *)
GatesAssigned ==
  \A r \in Volumes : \A q \in gates[r] : q[2] \in assigned[r]

(* The three records of what is pending agree between any two steps: the    *)
(* directory's pending rows, the sensor's in-flight ids and the arrival     *)
(* scores are created and retired together.                                 *)
PendingAgree ==
  /\ { row[1] : row \in { w \in rows : w[1][1] # 0 } } = inFlight
  /\ DOMAIN arrival = inFlight

(* A parked reader waits only for publications whose commit is still to     *)
(* come: Dispatcher.gate parks on every action it is given, so one that had *)
(* already committed would park the reader for the rest of the run.         *)
MissingInFlight == \A t \in Reads : missing[t] \subseteq inFlight

(* Each publication in flight belongs to a call that will commit it: one    *)
(* that is between its ask and its commit, and has not died on the way.     *)
InFlightOwned ==
  \A p \in inFlight :
    \E t \in Reads : pub[t] = p /\ pc[t] \notin {"idle", "done", "failed"}

(* Readers wait in the order they asked, so no two wait for each other.     *)
WaitsForOlder ==
  \A t \in Reads : \A q \in missing[t] : q[1] < pub[t][1]

(* The readers never all wait on one another: while anything is in flight,  *)
(* some call that owns a publication in flight is waiting for nobody.       *)
SomeoneRuns ==
  inFlight # {} =>
    \E t \in Reads : /\ pub[t] \in inFlight
                     /\ pc[t] \notin {"idle", "done", "failed"}
                     /\ missing[t] = {}

(* No more readers are parked behind a pending volume as their first source *)
(* than the fan-out cap allows ("A peer stops being offered once fanout_cap *)
(* readers are behind it").  A plan of several sources is booked behind its *)
(* first alone, so its other gates are not counted.                         *)
FanoutBounded ==
  \A v \in Volumes :
    Cardinality({ t \in Reads : /\ prefer[t][v] = 1
                                /\ \E q \in missing[t] : q[2] = v }) <= FanoutCap

(* The calls whose bytes for k came off v.                                  *)
ReadFrom(v, k) ==
  { t \in Reads : /\ pc[t] \in {"fetched", "stored", "registered", "done"}
                  /\ <<k, v>> \in located[t] }

(* Each key a call has located is at a volume its plan named.               *)
NamedSources ==
  \A t \in Reads : pc[t] \in {"located", "fetched", "stored", "registered", "done"} =>
    \A pair \in located[t] :
      (\E w \in Volumes : prefer[t][w] > 0) => prefer[t][pair[2]] > 0

(* While nothing is evicted, a reader released by its gate finds the rows   *)
(* its plan was made for: each key it locates is at a volume the plan       *)
(* named, and never at one that get_batch fell back to because no named     *)
(* volume held it; and each key crosses the fabric once, one call in all    *)
(* reading it from a pre-existing holder.                                   *)
PlanCarriedOut ==
  evictions = 0 =>
    /\ NamedSources
    /\ \A k \in Keys : Cardinality(UNION { ReadFrom(v, k) : v \in Origins }) <= 1

(* A live row names a volume that holds the key, or one whose               *)
(* deregistration is on its way.                                            *)
RowsBacked ==
  \A k \in Keys : \A v \in Live(k) : <<k, v>> \in resident \union dropping

(***************************************************************************)
(* Liveness.                                                               *)
(***************************************************************************)

(* Every read completes: no chain of gates, re-asks and evictions starves   *)
(* one.                                                                     *)
ReadsComplete == <>(\A t \in Reads : pc[t] = "done")
=============================================================================
