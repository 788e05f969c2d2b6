------------------------ MODULE DedupRoutingProofs ------------------------
(***************************************************************************)
(* What holds of dedup routing for every set of volumes, keys and reads,   *)
(* every fan-out cap, cost and topology, and any number of evictions.      *)
(*                                                                         *)
(* One inductive invariant carries all of it.  The sensors' books are      *)
(* exact only together: BehindExact needs GatesAssigned, retiring a        *)
(* publication from the directory by its id needs ids to be unique, and    *)
(* that a gate only ever names older publications needs every id in flight *)
(* to be one already given out.                                            *)
(*                                                                         *)
(* Three results need more than it: that a source is never behind more       *)
(* readers than the cap, where a requester reads one key at a time; that   *)
(* while nothing is evicted a plan's own sources serve its read; and that  *)
(* in a burst each key is then fetched across the fabric by one reader.    *)
(***************************************************************************)
EXTENDS DedupRouting, FiniteSetTheorems, FunctionTheorems, WellFoundedInduction, TLAPS

(* Ids are given out once: one in flight names one publication, and no call *)
(* has one that was not given out.                                          *)
IdsDeclared ==
  /\ \A p \in inFlight : p[1] \in 1 .. nextPub
  /\ \A p, q \in inFlight : p[1] = q[1] => p = q
  /\ \A t \in Reads : /\ pub[t][1] <= nextPub
                      /\ \A p \in inFlight : pub[t][1] = p[1] => pub[t] = p

Books == BehindExact /\ GatesAssigned

Pending == PendingAgree /\ IdsDeclared

Waits == MissingInFlight /\ WaitsForOlder

IInv == TypeOK /\ Books /\ Pending /\ Waits

-----------------------------------------------------------------------------
(***************************************************************************)
(* Sets and numbers.                                                       *)
(***************************************************************************)

(* A nonempty set of naturals has a least element. *)
LEMMA Least ==
  ASSUME NEW S \in SUBSET Nat, S # {}
  PROVE  \E n \in S : \A m \in S : n <= m
<1> DEFINE R == { ss \in Nat \X Nat : ss[1] < ss[2] }
<1>1. IsWellFoundedOn(R, Nat)
  BY NatLessThanWellFounded, Zenon DEF OpToRel
<1>2. PICK n \in S : \A m \in S : ~ (<<m, n>> \in R)
  <2> HIDE DEF R
  <2> QED BY WFMin, <1>1
<1>3. ASSUME NEW m \in S PROVE n <= m
  <2>1. n \in Nat /\ m \in Nat OBVIOUS
  <2>2. m < n => <<m, n>> \in R BY <2>1
  <2> QED BY <1>2, <2>1, <2>2
<1> QED BY <1>3

(* The requesters a booking function puts behind a volume. *)
Booked(f, v) == { r \in Volumes : v \in f[r] }

(* They are finitely many. *)
LEMMA BookedFinite ==
  ASSUME NEW f, NEW v
  PROVE  IsFiniteSet(Booked(f, v)) /\ Cardinality(Booked(f, v)) \in Nat
<1>1. IsFiniteSet(Booked(f, v))
  BY FS_Subset, ConstantsAssumption DEF Booked
<1> QED BY <1>1, FS_CardinalityType

(* Rebooking one requester moves the counts of a booking function by one at *)
(* the volumes it leaves and joins: the arithmetic of FanoutSensor._routed. *)
LEMMA Rebooked ==
  ASSUME NEW f, NEW g, NEW r \in Volumes, NEW v,
         \A x \in Volumes \ {r} : g[x] = f[x]
  PROVE  Cardinality(Booked(g, v)) =
           Cardinality(Booked(f, v))
             - (IF v \in f[r] THEN 1 ELSE 0) + (IF v \in g[r] THEN 1 ELSE 0)
<1> DEFINE S == Booked(f, v)
           T == Booked(g, v)
<1>1. IsFiniteSet(S) /\ Cardinality(S) \in Nat BY BookedFinite
<1>2. IsFiniteSet(S \ {r}) /\ Cardinality(S \ {r}) =
        IF r \in S THEN Cardinality(S) - 1 ELSE Cardinality(S)
  <2> HIDE DEF S
  <2> QED BY <1>1, FS_RemoveElement
<1>3. Cardinality((S \ {r}) \union {r}) = Cardinality(S \ {r}) + 1
  <2> HIDE DEF S
  <2> QED BY <1>2, FS_AddElement
<1>4. r \in S <=> v \in f[r] BY DEF Booked
<1>5. CASE v \in g[r]
  <2>1. T = (S \ {r}) \union {r} BY <1>5 DEF Booked
  <2> HIDE DEF S, T
  <2>2. Cardinality(T) = Cardinality(S) - (IF v \in f[r] THEN 1 ELSE 0) + 1
    BY <1>1, <1>2, <1>3, <1>4, <2>1
  <2> QED BY <2>2, <1>5 DEF S, T
<1>6. CASE v \notin g[r]
  <2>1. T = S \ {r} BY <1>6 DEF Booked
  <2> HIDE DEF S, T
  <2>2. Cardinality(T) = Cardinality(S) - (IF v \in f[r] THEN 1 ELSE 0)
    BY <1>1, <1>2, <1>4, <2>1
  <2>3. Cardinality(T) = Cardinality(S) - (IF v \in f[r] THEN 1 ELSE 0) + 0
    BY <2>2, <1>1
  <2> QED BY <2>3, <1>6 DEF S, T
<1> QED BY <1>5, <1>6

-----------------------------------------------------------------------------
(***************************************************************************)
(* The operators an action is built from.                                  *)
(***************************************************************************)

(* What a plan names: publications, its first source a volume, and pending *)
(* sources that all have an arrival.                                       *)
LEMMA PlanSources ==
  ASSUME TypeOK, NEW batch, NEW r,
         NEW dir \in SUBSET (Publications \X Keys),
         NEW chosen,
         chosen = GreedyCover(batch, Candidates(ServingUnion(batch, dir), r), r, dir)
  PROVE  /\ chosen \subseteq Publications
         /\ { q[2] : q \in First(chosen, r) } \subseteq Volumes
         /\ GatePublications(chosen) \subseteq DOMAIN arrival
<1>1. ServingUnion(batch, dir) \subseteq Publications
  BY DEF ServingUnion, Publications
<1>2. chosen \subseteq Candidates(ServingUnion(batch, dir), r)
  BY DEF GreedyCover, First
<1>3. chosen \subseteq Publications
  BY <1>1, <1>2 DEF Candidates
<1>4. { q[2] : q \in First(chosen, r) } \subseteq Volumes
  BY <1>3 DEF First, Publications
<1>5. GatePublications(chosen) \subseteq DOMAIN arrival
  BY <1>2 DEF GatePublications, Candidates
<1> QED BY <1>3, <1>4, <1>5

(* A preference ranks volumes by naturals. *)
LEMMA PreferenceType ==
  ASSUME NEW chosen, NEW r
  PROVE  Preference(chosen, r) \in [Volumes -> Nat]
<1> DEFINE Ahead(v) == { w \in Volumes \ {v} :
                           \E q \in chosen : q[2] = w /\
                             \A p \in chosen : p[2] = v => RanksBefore(q, p, r) }
<1>1. ASSUME NEW v \in Volumes PROVE Cardinality(Ahead(v)) \in Nat
  <2>1. Ahead(v) \in SUBSET Volumes OBVIOUS
  <2> HIDE DEF Ahead
  <2>2. IsFiniteSet(Ahead(v)) BY <2>1, FS_Subset, ConstantsAssumption
  <2> QED BY <2>2, FS_CardinalityType
<1>2. Preference(chosen, r) =
        [v \in Volumes |-> IF \E p \in chosen : p[2] = v
                           THEN Cardinality(Ahead(v)) + 1 ELSE 0]
  BY DEF Preference
<1> HIDE DEF Ahead
<1> QED BY <1>1, <1>2

(* FanoutSensor._routed keeps the books: what is released was booked, and  *)
(* what is booked is recorded.                                             *)
LEMMA FoldRoutedBooks ==
  ASSUME TypeOK, Books, NEW n \in Nat, NEW r \in Volumes,
         NEW heads \in SUBSET Volumes, NEW gatePubs \in SUBSET Publications, NEW at,
         FoldRouted(<<n, r>>, heads, gatePubs, at)
  PROVE  /\ behind' \in [Volumes -> Nat]
         /\ assigned' \in [Volumes -> SUBSET Volumes]
         /\ gates' \in [Volumes -> SUBSET Publications]
         /\ Books'
<1>1. assigned' = [assigned EXCEPT ![r] = heads] /\ assigned' \in [Volumes -> SUBSET Volumes]
  BY DEF FoldRouted, TypeOK
<1>2. ASSUME NEW v \in Volumes
      PROVE  behind'[v] = Cardinality(Booked(assigned', v))
  <2>1. behind'[v] = behind[v] - (IF v \in assigned[r] THEN 1 ELSE 0)
                               + (IF v \in heads THEN 1 ELSE 0)
    BY DEF FoldRouted
  <2>2. behind[v] = Cardinality(Booked(assigned, v))
    BY DEF Books, BehindExact, Booked
  <2>3. Cardinality(Booked(assigned', v)) =
          Cardinality(Booked(assigned, v))
            - (IF v \in assigned[r] THEN 1 ELSE 0) + (IF v \in heads THEN 1 ELSE 0)
    <3>1. assigned \in [Volumes -> SUBSET Volumes] BY DEF TypeOK
    <3>2. assigned'[r] = heads /\ \A x \in Volumes \ {r} : assigned'[x] = assigned[x]
      BY <1>1, <3>1
    <3>3. Cardinality(Booked(assigned', v)) =
            Cardinality(Booked(assigned, v))
              - (IF v \in assigned[r] THEN 1 ELSE 0) + (IF v \in assigned'[r] THEN 1 ELSE 0)
      BY SMTT(30), <3>2, Rebooked
    <3> QED BY <3>2, <3>3
  <2> QED BY <2>1, <2>2, <2>3
<1>3. behind' \in [Volumes -> Nat]
  <2>1. ASSUME NEW v \in Volumes PROVE behind'[v] \in Nat
    BY <1>2, BookedFinite
  <2>2. behind' = [v \in Volumes |-> behind'[v]]
    BY DEF FoldRouted
  <2> QED BY <2>1, <2>2
<1>4. gates' \in [Volumes -> SUBSET Publications]
  BY DEF FoldRouted, TypeOK
<1>5. GatesAssigned'
  BY <1>1 DEF FoldRouted, Books, GatesAssigned, TypeOK
<1> QED BY <1>1, <1>2, <1>3, <1>4, <1>5 DEF Books, BehindExact, Booked

(* FanoutSensor._published keeps the books: it counts down once for each   *)
(* requester whose last gate it opens, and forgets that booking.           *)
LEMMA FoldPublishedBooks ==
  ASSUME TypeOK, Books, NEW p \in Publications, FoldFanoutPublished(p)
  PROVE  /\ behind' \in [Volumes -> Nat]
         /\ assigned' \in [Volumes -> SUBSET Volumes]
         /\ gates' \in [Volumes -> SUBSET Publications]
         /\ Books'
<1> DEFINE D == Drained(p)
           S == Booked(assigned, p[2])
<1>1. p[2] \in Volumes BY DEF Publications
<1>2. D \subseteq S
  BY DEF Drained, Books, GatesAssigned, TypeOK, Booked
<1>3. /\ assigned' = [r \in Volumes |-> IF r \in D THEN assigned[r] \ {p[2]} ELSE assigned[r]]
      /\ assigned' \in [Volumes -> SUBSET Volumes]
  BY DEF FoldFanoutPublished, TypeOK
<1>4. behind' = [behind EXCEPT ![p[2]] = @ - Cardinality(D)]
  BY DEF FoldFanoutPublished
<1>5. gates' \in [Volumes -> SUBSET Publications]
  BY DEF FoldFanoutPublished, TypeOK
<1>6. ASSUME NEW v \in Volumes
      PROVE  behind'[v] = Cardinality(Booked(assigned', v))
  <2>1. CASE v = p[2]
    <3>1. Booked(assigned', v) = S \ D
      BY <1>3, <2>1 DEF Booked
    <3>2. S \intersect D = D BY <1>2
    <3>3. IsFiniteSet(S) /\ Cardinality(S) \in Nat BY BookedFinite
    <3>4. Cardinality(S \ D) = Cardinality(S) - Cardinality(D)
      <4> HIDE DEF S, D
      <4> QED BY <3>2, <3>3, FS_Difference
    <3>5. behind[v] = Cardinality(S) BY <2>1 DEF Books, BehindExact, Booked
    <3>6. behind'[v] = behind[v] - Cardinality(D)
      <4> HIDE DEF D
      <4> QED BY <1>1, <1>4, <2>1 DEF TypeOK
    <3> QED BY <3>1, <3>4, <3>5, <3>6
  <2>2. CASE v # p[2]
    <3>1. Booked(assigned', v) = Booked(assigned, v)
      BY <1>3, <2>2 DEF Booked
    <3>2. behind'[v] = behind[v]
      <4> HIDE DEF D
      <4> QED BY <1>4, <2>2 DEF TypeOK
    <3> QED BY <3>1, <3>2 DEF Books, BehindExact, Booked
  <2> QED BY <2>1, <2>2
<1>7. behind' \in [Volumes -> Nat]
  <2>1. ASSUME NEW v \in Volumes PROVE behind'[v] \in Nat
    BY <1>6, BookedFinite
  <2>2. behind' = [v \in Volumes |-> behind'[v]]
    <3> HIDE DEF D
    <3> QED BY <1>4 DEF TypeOK
  <2> QED BY <2>1, <2>2
<1>8. GatesAssigned'
  <2> SUFFICES ASSUME NEW r \in Volumes, NEW q \in gates'[r]
               PROVE  q[2] \in assigned'[r]
    BY DEF GatesAssigned
  <2>1. q \in gates[r] /\ q # p
    BY DEF FoldFanoutPublished
  <2>2. q[2] \in assigned[r] BY <2>1 DEF Books, GatesAssigned
  <2>3. r \in D => q[2] # p[2] BY <2>1 DEF Drained
  <2> QED BY <1>3, <2>2, <2>3
<1> QED BY <1>3, <1>5, <1>6, <1>7, <1>8 DEF Books, BehindExact, Booked

-----------------------------------------------------------------------------
(***************************************************************************)
(* The actions.                                                            *)
(***************************************************************************)

LEMMA InitInv == Init => IInv
<1> SUFFICES ASSUME Init PROVE IInv
  OBVIOUS
<1> USE ConstantsAssumption
<1>1. TypeOK
  <2>1. rows \subseteq Publications \X Keys
    BY DEF Init, Publications
  <2>2. /\ inFlight \subseteq Publications /\ DOMAIN arrival \subseteq Publications
        /\ behind \in [Volumes -> Nat]
        /\ assigned \in [Volumes -> SUBSET Volumes]
        /\ gates \in [Volumes -> SUBSET Publications]
    BY DEF Init
  <2>3. /\ pc \in [Reads -> Control]
        /\ pub \in [Reads -> Publications]
        /\ prefer \in [Reads -> [Volumes -> Nat]]
        /\ missing \in [Reads -> SUBSET Publications]
        /\ located \in [Reads -> SUBSET (Keys \X Volumes)]
    BY DEF Init, Control, Publications
  <2>4. /\ resident \subseteq Keys \X Volumes /\ dropping \subseteq Keys \X Volumes
        /\ nextPub \in Nat /\ evictions \in Nat
    BY DEF Init
  <2> QED BY <2>1, <2>2, <2>3, <2>4 DEF TypeOK
<1>2. BehindExact
  <2> SUFFICES ASSUME NEW v \in Volumes
               PROVE  behind[v] = Cardinality({ r \in Volumes : v \in assigned[r] })
    BY DEF BehindExact
  <2>1. { r \in Volumes : v \in assigned[r] } = {} BY DEF Init
  <2> QED BY <2>1, FS_EmptySet DEF Init
<1>3. GatesAssigned BY DEF Init, GatesAssigned
<1>4. PendingAgree
  <2>1. { w \in rows : w[1][1] # 0 } = {} BY DEF Init
  <2> QED BY <2>1 DEF Init, PendingAgree
<1>5. IdsDeclared BY DEF Init, IdsDeclared
<1>6. Waits BY DEF Init, Waits, MissingInFlight, WaitsForOlder
<1> QED BY <1>1, <1>2, <1>3, <1>4, <1>5, <1>6 DEF IInv, Books, Pending

(* Committing a publication retires it from every record at once. *)
LEMMA DispatchPublishedInv ==
  ASSUME IInv, NEW t \in Reads, DispatchPublished(pub[t]),
         UNCHANGED <<nextPub, planVars>>
  PROVE  /\ Books' /\ Pending' /\ Waits'
         /\ rows' \subseteq Publications \X Keys
         /\ inFlight' \subseteq Publications
         /\ DOMAIN arrival' \subseteq Publications
         /\ behind' \in [Volumes -> Nat]
         /\ assigned' \in [Volumes -> SUBSET Volumes]
         /\ gates' \in [Volumes -> SUBSET Publications]
         /\ missing' \in [Reads -> SUBSET Publications]
<1> DEFINE p == pub[t]
<1>1. TypeOK /\ Books /\ Pending /\ Waits BY DEF IInv
<1>2. p \in Publications BY <1>1 DEF TypeOK
<1>3. /\ behind' \in [Volumes -> Nat]
      /\ assigned' \in [Volumes -> SUBSET Volumes]
      /\ gates' \in [Volumes -> SUBSET Publications]
      /\ Books'
  BY <1>1, <1>2, FoldPublishedBooks DEF DispatchPublished
<1>4. /\ rows' = { row \in rows : row[1][1] # p[1] }
      /\ inFlight' = inFlight \ {p}
      /\ arrival' = [q \in DOMAIN arrival \ {p} |-> arrival[q]]
      /\ missing' = [u \in Reads |-> missing[u] \ {p}]
      /\ nextPub' = nextPub /\ pub' = pub
  BY DEF DispatchPublished, FoldDirectoryPublished, FoldFanoutPublished, planVars
<1>5. ASSUME NEW q \in inFlight PROVE q[1] = p[1] => q = p
  BY <1>1 DEF Pending, IdsDeclared
<1>6. PendingAgree'
  <2> DEFINE Named(dir) == { row[1] : row \in { w \in dir : w[1][1] # 0 } }
  <2>1. Named(rows) = inFlight BY <1>1 DEF Pending, PendingAgree
  <2>2. ASSUME NEW q \in Named(rows') PROVE q \in inFlight \ {p}
    BY <2>1, <1>4
  <2>3. ASSUME NEW q \in inFlight \ {p} PROVE q \in Named(rows')
    <3>1. PICK row \in rows : row[1][1] # 0 /\ row[1] = q BY <2>1
    <3>2. row \in rows' BY <3>1, <1>4, <1>5
    <3> QED BY <3>1, <3>2
  <2>4. Named(rows') = inFlight' BY <2>2, <2>3, <1>4
  <2>5. DOMAIN arrival' = inFlight' BY <1>1, <1>4 DEF Pending, PendingAgree
  <2> QED BY <2>4, <2>5 DEF PendingAgree
<1>7. IdsDeclared'
  BY <1>1, <1>4 DEF Pending, IdsDeclared
<1>8. Waits'
  BY <1>1, <1>4 DEF Waits, MissingInFlight, WaitsForOlder, TypeOK
<1>9. /\ rows' \subseteq Publications \X Keys
      /\ inFlight' \subseteq Publications
      /\ DOMAIN arrival' \subseteq Publications
      /\ missing' \in [Reads -> SUBSET Publications]
  BY <1>1, <1>4 DEF TypeOK
<1> QED BY <1>3, <1>6, <1>7, <1>8, <1>9 DEF Pending

(* An ask declares a publication and parks behind older ones. *)
LEMMA AskInv ==
  ASSUME IInv, NEW t \in Reads, Ask(t)
  PROVE  IInv'
<1> DEFINE r == Requester[t]
           p == <<nextPub + 1, r>>
           declared == rows \union { <<p, k>> : k \in Batch[t] }
           flying == inFlight \union {p}
           ranked == Candidates(ServingUnion(Batch[t], declared), r)
           chosen == GreedyCover(Batch[t], ranked, r, declared)
           heads == { q[2] : q \in First(chosen, r) }
           gatePubs == GatePublications(chosen)
           at == ArrivalOf(ReadTimes(chosen, r))
<1>1. TypeOK /\ Books /\ Pending /\ Waits BY DEF IInv
<1>2. r \in Volumes /\ Batch[t] \in SUBSET Keys /\ Batch[t] # {}
  BY ConstantsAssumption
<1>3. p \in Publications /\ nextPub \in Nat /\ nextPub + 1 \in Nat
  BY <1>1, <1>2 DEF TypeOK, Publications
<1>4. declared \in SUBSET (Publications \X Keys)
  <2> HIDE DEF p
  <2>1. rows \subseteq Publications \X Keys BY <1>1 DEF TypeOK
  <2>2. { <<p, k>> : k \in Batch[t] } \subseteq Publications \X Keys BY <1>2, <1>3
  <2> QED BY <2>1, <2>2
<1>5. /\ chosen \subseteq Publications
      /\ heads \subseteq Volumes
      /\ gatePubs \subseteq DOMAIN arrival
  <2> HIDE DEF declared, p, r
  <2> QED BY <1>1, <1>4, PlanSources
<1>6. Preference(chosen, r) \in [Volumes -> Nat] BY PreferenceType
<1> HIDE DEF chosen, ranked, heads, gatePubs, at
<1>7. /\ nextPub' = nextPub + 1
      /\ rows' = declared
      /\ inFlight' = flying
      /\ FoldRouted(p, heads, gatePubs, at)
      /\ missing' = [missing EXCEPT ![t] = Gate(gatePubs, flying)]
      /\ pub' = [pub EXCEPT ![t] = p]
      /\ prefer' = [prefer EXCEPT ![t] = Preference(chosen, r)]
      /\ pc' = [pc EXCEPT ![t] = "asked"]
      /\ UNCHANGED <<located, resident, dropping, evictions>>
  BY DEF Ask, Transition, storeVars, chosen, ranked, heads, gatePubs, at
<1>8. gatePubs \subseteq inFlight /\ gatePubs \subseteq Publications
  BY <1>1, <1>5 DEF Pending, PendingAgree, TypeOK
<1>9. Gate(gatePubs, flying) \subseteq gatePubs BY DEF Gate
<1>10. /\ behind' \in [Volumes -> Nat]
       /\ assigned' \in [Volumes -> SUBSET Volumes]
       /\ gates' \in [Volumes -> SUBSET Publications]
       /\ Books'
  BY <1>1, <1>2, <1>3, <1>5, <1>7, <1>8, FoldRoutedBooks
<1>11. DOMAIN arrival' = DOMAIN arrival \union {p}
  BY <1>7 DEF FoldRouted
<1>12. TypeOK'
  <2>1. /\ nextPub' \in Nat
        /\ rows' \subseteq Publications \X Keys
        /\ inFlight' \subseteq Publications
        /\ DOMAIN arrival' \subseteq Publications
    BY <1>1, <1>3, <1>4, <1>7, <1>11 DEF TypeOK
  <2>2. /\ pc' \in [Reads -> Control]
        /\ pub' \in [Reads -> Publications]
        /\ prefer' \in [Reads -> [Volumes -> Nat]]
        /\ missing' \in [Reads -> SUBSET Publications]
    BY <1>1, <1>3, <1>6, <1>7, <1>8, <1>9 DEF TypeOK, Control
  <2>3. /\ located' \in [Reads -> SUBSET (Keys \X Volumes)]
        /\ resident' \subseteq Keys \X Volumes
        /\ dropping' \subseteq Keys \X Volumes
        /\ evictions' \in Nat
    BY <1>1, <1>7 DEF TypeOK
  <2> QED BY <1>10, <2>1, <2>2, <2>3 DEF TypeOK
<1>13. PendingAgree'
  <2> DEFINE Named(dir) == { row[1] : row \in { w \in dir : w[1][1] # 0 } }
  <2>1. Named(rows) = inFlight /\ DOMAIN arrival = inFlight
    BY <1>1 DEF Pending, PendingAgree
  <2>2. p[1] # 0 BY <1>3
  <2>3. PICK k \in Batch[t] : TRUE BY <1>2
  <2>4. <<p, k>> \in declared OBVIOUS
  <2>5. ASSUME NEW q \in Named(declared) PROVE q \in flying
    BY <2>1
  <2>6. ASSUME NEW q \in flying PROVE q \in Named(declared)
    <3>1. CASE q = p BY <2>2, <2>4, <3>1
    <3>2. CASE q \in inFlight BY <2>1, <3>2
    <3> QED BY <3>1, <3>2
  <2>7. Named(declared) = flying BY <2>5, <2>6
  <2> QED BY <1>7, <1>11, <2>1, <2>7 DEF PendingAgree
<1>14. IdsDeclared'
  <2>1. /\ \A q \in inFlight : q[1] \in 1 .. nextPub
        /\ \A q, s \in inFlight : q[1] = s[1] => q = s
        /\ \A u \in Reads : /\ pub[u][1] <= nextPub
                            /\ \A q \in inFlight : pub[u][1] = q[1] => pub[u] = q
    BY <1>1 DEF Pending, IdsDeclared
  <2>2. p[1] = nextPub + 1 OBVIOUS
  <2>3. \A u \in Reads : pub[u][1] \in Nat
    BY <1>1 DEF TypeOK, Publications
  <2>4. \A u \in Reads : pub'[u] = IF u = t THEN p ELSE pub[u]
    BY <1>1, <1>7 DEF TypeOK
  <2> HIDE DEF p
  <2> QED BY <1>3, <1>7, <2>1, <2>2, <2>3, <2>4 DEF IdsDeclared
<1>15. Waits'
  <2>1. \A u \in Reads : missing'[u] \subseteq IF u = t THEN gatePubs ELSE missing[u]
    BY <1>1, <1>7, <1>9 DEF TypeOK
  <2>2. \A u \in Reads : pub'[u] = IF u = t THEN p ELSE pub[u]
    BY <1>1, <1>7 DEF TypeOK
  <2>3. \A q \in gatePubs : q[1] < p[1]
    <3>1. \A q \in inFlight : q[1] \in 1 .. nextPub
      BY <1>1 DEF Pending, IdsDeclared
    <3> QED BY <1>3, <1>8, <3>1
  <2> HIDE DEF p
  <2> QED BY <1>1, <1>7, <1>8, <2>1, <2>2, <2>3 DEF Waits, MissingInFlight, WaitsForOlder
<1> QED BY <1>10, <1>12, <1>13, <1>14, <1>15 DEF IInv, Pending

(* A step that touches neither a record nor a gate. *)
LEMMA QuietInv ==
  ASSUME IInv, TypeOK', UNCHANGED <<nextPub, rows, sensorVars, pub, missing>>
  PROVE  IInv'
BY DEF IInv, Books, BehindExact, GatesAssigned, Pending, PendingAgree, IdsDeclared,
       Waits, MissingInFlight, WaitsForOlder, sensorVars

(* A step that registers or drops live rows and touches nothing else of the *)
(* control plane.                                                           *)
LEMMA LiveRowsInv ==
  ASSUME IInv, TypeOK', UNCHANGED <<nextPub, sensorVars, pub, missing>>,
         { w \in rows' : w[1][1] # 0 } = { w \in rows : w[1][1] # 0 }
  PROVE  IInv'
<1>1. PendingAgree' BY DEF IInv, Pending, PendingAgree, sensorVars
<1> QED
  BY <1>1 DEF IInv, Books, BehindExact, GatesAssigned, Pending, IdsDeclared,
              Waits, MissingInFlight, WaitsForOlder, sensorVars

(* Every step preserves the invariant. *)
LEMMA NextInv == IInv /\ [Next]_vars => IInv'
<1> SUFFICES ASSUME IInv, [Next]_vars PROVE IInv'
  OBVIOUS
<1>1. TypeOK BY DEF IInv
<1>2. ASSUME NEW t \in Reads, Ask(t) PROVE IInv'
  BY <1>2, AskInv
<1>3. ASSUME NEW t \in Reads, Locate(t) PROVE IInv'
  <2>1. PICK from \in [Batch[t] -> Volumes] :
          located' = [located EXCEPT ![t] = { <<k, from[k]>> : k \in Batch[t] }]
    BY <1>3 DEF Locate
  <2>2. { <<k, from[k]>> : k \in Batch[t] } \subseteq Keys \X Volumes
    BY ConstantsAssumption
  <2>3. TypeOK'
    BY <1>1, <1>3, <2>1, <2>2
       DEF Locate, Transition, TypeOK, Control, sensorVars, planVars, storeVars
  <2> QED BY <1>3, <2>3, QuietInv DEF Locate, planVars
<1>4. ASSUME NEW t \in Reads, LocateMiss(t) PROVE IInv'
  <2>1. TypeOK'
    BY <1>1, <1>4 DEF LocateMiss, Transition, TypeOK, Control, sensorVars, planVars, storeVars
  <2> QED BY <1>4, <2>1, QuietInv DEF LocateMiss, planVars
<1>5. ASSUME NEW t \in Reads, Fetch(t) PROVE IInv'
  <2>1. TypeOK'
    BY <1>1, <1>5 DEF Fetch, Transition, TypeOK, Control, sensorVars, planVars, storeVars
  <2> QED BY <1>5, <2>1, QuietInv DEF Fetch, planVars
<1>6. ASSUME NEW t \in Reads, FetchMiss(t) PROVE IInv'
  <2>1. TypeOK'
    BY <1>1, <1>6 DEF FetchMiss, Transition, TypeOK, Control, sensorVars, planVars, storeVars
  <2> QED BY <1>6, <2>1, QuietInv DEF FetchMiss, planVars
<1>7. ASSUME NEW t \in Reads, Retry(t) PROVE IInv'
  <2>1. DispatchPublished(pub[t]) /\ UNCHANGED <<nextPub, planVars>>
    BY <1>7 DEF Retry
  <2>2. TypeOK'
    BY <1>1, <1>7, <2>1, DispatchPublishedInv
       DEF Retry, Transition, TypeOK, Control, planVars, storeVars
  <2> QED BY <2>1, <2>2, DispatchPublishedInv DEF IInv
<1>8. ASSUME NEW t \in Reads, Store(t) PROVE IInv'
  <2>1. Mine(t) \subseteq Keys \X Volumes BY ConstantsAssumption DEF Mine
  <2>2. TypeOK'
    BY <1>1, <1>8, <2>1 DEF Store, Transition, TypeOK, Control, sensorVars, planVars
  <2> QED BY <1>8, <2>2, QuietInv DEF Store, planVars
<1>9. ASSUME NEW t \in Reads, PutRefused(t) PROVE IInv'
  <2>1. TypeOK'
    BY <1>1, <1>9 DEF PutRefused, Transition, TypeOK, Control, sensorVars, planVars, storeVars
  <2> QED BY <1>9, <2>1, QuietInv DEF PutRefused, planVars
<1>10. ASSUME NEW t \in Reads, Register(t) PROVE IInv'
  <2> DEFINE landed == { <<<<0, Requester[t]>>, k>> : k \in Batch[t] }
  <2>1. landed \subseteq Publications \X Keys
    BY ConstantsAssumption DEF Publications
  <2>2. rows' = rows \union landed BY <1>10 DEF Register
  <2>3. { w \in rows' : w[1][1] # 0 } = { w \in rows : w[1][1] # 0 }
    BY <2>2
  <2> HIDE DEF landed
  <2>4. TypeOK'
    BY <1>1, <1>10, <2>1, <2>2
       DEF Register, Transition, TypeOK, Control, sensorVars, planVars, storeVars
  <2> QED BY <1>10, <2>3, <2>4, LiveRowsInv DEF Register, planVars
<1>11. ASSUME NEW t \in Reads, Publish(t) PROVE IInv'
  <2>1. DispatchPublished(pub[t]) /\ UNCHANGED <<nextPub, planVars>>
    BY <1>11 DEF Publish
  <2>2. TypeOK'
    BY <1>1, <1>11, <2>1, DispatchPublishedInv
       DEF Publish, Transition, TypeOK, Control, planVars, storeVars
  <2> QED BY <2>1, <2>2, DispatchPublishedInv DEF IInv
<1>12. ASSUME NEW k \in Keys, NEW v \in Volumes, Evict(k, v) PROVE IInv'
  <2>1. TypeOK'
    BY <1>1, <1>12 DEF Evict, TypeOK, sensorVars, planVars
  <2> QED BY <1>12, <2>1, QuietInv DEF Evict, planVars
<1>13. ASSUME NEW k \in Keys, NEW v \in Volumes, Deregister(k, v) PROVE IInv'
  <2>1. rows' = rows \ {<<<<0, v>>, k>>} BY <1>13 DEF Deregister
  <2>2. { w \in rows' : w[1][1] # 0 } = { w \in rows : w[1][1] # 0 } BY <2>1
  <2>3. TypeOK'
    BY <1>1, <1>13, <2>1 DEF Deregister, TypeOK, sensorVars, planVars
  <2> QED BY <1>13, <2>2, <2>3, LiveRowsInv DEF Deregister, planVars
<1>14. CASE UNCHANGED vars
  <2>1. TypeOK' BY <1>1, <1>14 DEF vars, TypeOK, sensorVars, planVars, storeVars
  <2> QED BY <1>14, <2>1, QuietInv DEF vars, planVars
<1> QED
  BY <1>2, <1>3, <1>4, <1>5, <1>6, <1>7, <1>8, <1>9, <1>10, <1>11, <1>12, <1>13, <1>14
     DEF Next, Step, Finished

LEMMA Invariance == Spec => []IInv
<1>1. Init => IInv BY InitInv
<1>2. IInv /\ [Next]_vars => IInv' BY NextInv
<1> QED BY <1>1, <1>2, PTL DEF Spec

-----------------------------------------------------------------------------
(***************************************************************************)
(* The theorems.                                                           *)
(***************************************************************************)

(* Every variable keeps its type; above all, the sensor's count of readers  *)
(* behind a volume never falls below zero, so FanoutSensor._decrement never *)
(* meets an absent entry.                                                   *)
THEOREM TypeCorrect == Spec => []TypeOK
<1>1. IInv => TypeOK BY DEF IInv
<1> QED BY <1>1, Invariance, PTL

(* FanoutSensor._behind counts exactly the requesters _assigned records,    *)
(* through re-asks, failed plans, overlapping reads and refused puts.       *)
THEOREM FanoutCountsExact == Spec => []BehindExact
<1>1. IInv => BehindExact BY DEF IInv, Books
<1> QED BY <1>1, Invariance, PTL

(* The directory's pending rows, the sensor's in-flight ids and the arrival *)
(* scores name the same publications.                                       *)
THEOREM PendingRecordsAgree == Spec => []PendingAgree
<1>1. IInv => PendingAgree BY DEF IInv, Pending
<1> QED BY <1>1, Invariance, PTL

(* Nobody is parked on a publication that has already been committed.       *)
THEOREM NoLostWakeup == Spec => []MissingInFlight
<1>1. IInv => MissingInFlight BY DEF IInv, Waits
<1> QED BY <1>1, Invariance, PTL

(* Gates only ever name publications older than the waiter's own.           *)
THEOREM WaitsAreOrdered == Spec => []WaitsForOlder
<1>1. IInv => WaitsForOlder BY DEF IInv, Waits
<1> QED BY <1>1, Invariance, PTL

-----------------------------------------------------------------------------
(***************************************************************************)
(* Where no put is refused, every publication has a call that will commit  *)
(* it, and some reader can always run.                                     *)
(***************************************************************************)

LEMMA OwnedInv ==
  ASSUME PutMayFail = FALSE
  PROVE  IInv /\ InFlightOwned /\ [Next]_vars => InFlightOwned'
<1> SUFFICES ASSUME IInv, InFlightOwned, [Next]_vars PROVE InFlightOwned'
  OBVIOUS
<1>1. TypeOK BY DEF IInv
<1>2. ASSUME NEW t \in Reads, Ask(t) PROVE InFlightOwned'
  <2> DEFINE p == <<nextPub + 1, Requester[t]>>
  <2>1. /\ pc[t] = "idle" /\ pc' = [pc EXCEPT ![t] = "asked"]
        /\ pub' = [pub EXCEPT ![t] = p]
        /\ inFlight' = inFlight \union {p}
    BY <1>2 DEF Ask, Transition
  <2> HIDE DEF p
  <2> QED BY <1>1, <2>1 DEF InFlightOwned, TypeOK
<1>3. ASSUME NEW t \in Reads, Retry(t) \/ Publish(t) PROVE InFlightOwned'
  <2>1. /\ inFlight' = inFlight \ {pub[t]} /\ pub' = pub
        /\ \A u \in Reads \ {t} : pc'[u] = pc[u]
    BY <1>1, <1>3 DEF Retry, Publish, Transition, DispatchPublished,
                      FoldDirectoryPublished, planVars, TypeOK
  <2> QED BY <2>1 DEF InFlightOwned
<1>4. ASSUME NEW t \in Reads,
             Locate(t) \/ LocateMiss(t) \/ Fetch(t) \/ FetchMiss(t) \/ Store(t) \/ Register(t)
      PROVE  InFlightOwned'
  <2>1. /\ inFlight' = inFlight /\ pub' = pub
        /\ pc'[t] \notin {"idle", "done", "failed"}
        /\ \A u \in Reads \ {t} : pc'[u] = pc[u]
    BY <1>1, <1>4 DEF Locate, LocateMiss, Fetch, FetchMiss, Store, Register, Transition,
                      sensorVars, planVars, TypeOK
  <2> QED BY <2>1 DEF InFlightOwned
<1>5. ASSUME NEW t \in Reads, PutRefused(t) PROVE InFlightOwned'
  BY <1>5 DEF PutRefused
<1>6. ASSUME NEW k \in Keys, NEW v \in Volumes, Evict(k, v) \/ Deregister(k, v)
      PROVE  InFlightOwned'
  BY <1>6 DEF Evict, Deregister, InFlightOwned, sensorVars, planVars
<1>7. CASE UNCHANGED vars
  BY <1>7 DEF vars, InFlightOwned, sensorVars, planVars
<1> QED BY <1>2, <1>3, <1>4, <1>5, <1>6, <1>7 DEF Next, Step, Finished

(* Whatever is in flight is committed by a call that is still alive, so     *)
(* long as no volume refuses a read-through's put.                          *)
THEOREM PublicationsOwned ==
  ASSUME PutMayFail = FALSE
  PROVE  Spec => []InFlightOwned
<1>1. Init => InFlightOwned BY DEF Init, InFlightOwned
<1>2. IInv /\ InFlightOwned /\ [Next]_vars => InFlightOwned' BY OwnedInv
<1> QED BY <1>1, <1>2, Invariance, PTL DEF Spec

(* The oldest publication in flight belongs to a call that waits for        *)
(* nobody: gates can make a chain of readers, and never a circle.           *)
THEOREM NoCircularWait ==
  ASSUME PutMayFail = FALSE
  PROVE  Spec => []SomeoneRuns
<1>1. IInv /\ InFlightOwned => SomeoneRuns
  <2> SUFFICES ASSUME IInv, InFlightOwned, inFlight # {}
               PROVE  \E t \in Reads : /\ pub[t] \in inFlight
                                       /\ pc[t] \notin {"idle", "done", "failed"}
                                       /\ missing[t] = {}
    BY DEF SomeoneRuns
  <2>1. \A q \in inFlight : q[1] \in Nat
    BY DEF IInv, TypeOK, Publications
  <2> DEFINE ids == { q[1] : q \in inFlight }
  <2>2. ids \in SUBSET Nat /\ ids # {} BY <2>1
  <2>3. PICK n \in ids : \A m \in ids : n <= m
    <3> HIDE DEF ids
    <3> QED BY <2>2, Least
  <2>4. PICK p \in inFlight : p[1] = n BY <2>3
  <2>5. PICK t \in Reads : pub[t] = p /\ pc[t] \notin {"idle", "done", "failed"}
    BY <2>4 DEF InFlightOwned
  <2>6. ASSUME NEW q \in missing[t] PROVE FALSE
    <3>1. q \in inFlight BY DEF IInv, Waits, MissingInFlight
    <3>2. q[1] < pub[t][1] BY DEF IInv, Waits, WaitsForOlder
    <3>3. p[1] <= q[1] BY <2>3, <2>4, <3>1
    <3> QED BY <2>1, <2>4, <2>5, <3>1, <3>2, <3>3
  <2> QED BY <2>4, <2>5, <2>6
<1> QED BY <1>1, Invariance, PublicationsOwned, PTL

-----------------------------------------------------------------------------
(***************************************************************************)
(* Where no put evicts what another has just landed, the directory never   *)
(* points at nothing.  The invariant has to add what is between its landing *)
(* and its registration.                                                   *)
(***************************************************************************)

LandedHeld == \A t \in Reads : pc[t] = "stored" => Mine(t) \subseteq resident

Held == RowsBacked /\ LandedHeld

LEMMA HeldInv ==
  ASSUME PutsOverlap = FALSE
  PROVE  IInv /\ Held /\ [Next]_vars => Held'
<1> SUFFICES ASSUME IInv, Held, [Next]_vars PROVE Held'
  OBVIOUS
<1>1. TypeOK BY DEF IInv
<1>2. \A k \in Keys, v \in Volumes :
        <<<<0, v>>, k>> \in rows => <<k, v>> \in resident \union dropping
  BY DEF Held, RowsBacked, Live, Serves
<1>3. ASSUME NEW t \in Reads, Store(t) PROVE Held'
  <2>1. /\ resident' = resident \union Mine(t) /\ rows' = rows /\ dropping' = dropping
        /\ \A u \in Reads \ {t} : pc'[u] = pc[u]
    BY <1>1, <1>3 DEF Store, Transition, TypeOK
  <2>2. RowsBacked' BY <1>2, <2>1 DEF RowsBacked, Live, Serves
  <2>3. LandedHeld' BY <2>1 DEF Held, LandedHeld, Mine
  <2> QED BY <2>2, <2>3 DEF Held
<1>4. ASSUME NEW t \in Reads, Register(t) PROVE Held'
  <2>1. /\ pc[t] = "stored" /\ pc'[t] = "registered"
        /\ \A u \in Reads \ {t} : pc'[u] = pc[u]
        /\ rows' = rows \union { <<<<0, Requester[t]>>, k>> : k \in Batch[t] }
        /\ resident' = resident /\ dropping' = dropping
    BY <1>1, <1>4 DEF Register, Transition, TypeOK, storeVars
  <2>2. \A k \in Batch[t] : <<k, Requester[t]>> \in resident
    BY <2>1 DEF Held, LandedHeld, Mine
  <2>3. ASSUME NEW k \in Keys, NEW v \in Volumes, <<<<0, v>>, k>> \in rows'
        PROVE  <<k, v>> \in resident \union dropping
    <3>1. CASE <<<<0, v>>, k>> \in rows BY <1>2, <3>1
    <3>2. CASE <<<<0, v>>, k>> \notin rows
      <4>1. k \in Batch[t] /\ v = Requester[t] BY <2>1, <2>3, <3>2
      <4> QED BY <2>2, <4>1
    <3> QED BY <3>1, <3>2
  <2>4. RowsBacked' BY <2>1, <2>3 DEF RowsBacked, Live, Serves
  <2>5. LandedHeld' BY <2>1 DEF Held, LandedHeld, Mine
  <2> QED BY <2>4, <2>5 DEF Held
<1>5. ASSUME NEW t \in Reads,
             \/ Ask(t) \/ Locate(t) \/ LocateMiss(t) \/ Fetch(t) \/ FetchMiss(t)
             \/ Retry(t) \/ PutRefused(t) \/ Publish(t)
      PROVE  Held'
  <2>1. /\ resident' = resident /\ dropping' = dropping
        /\ pc'[t] # "stored"
        /\ \A u \in Reads \ {t} : pc'[u] = pc[u]
    BY <1>1, <1>5 DEF Ask, Locate, LocateMiss, Fetch, FetchMiss, Retry, PutRefused, Publish,
                      Transition, TypeOK, storeVars
  <2>2. \A k \in Keys, v \in Volumes : <<<<0, v>>, k>> \in rows' => <<<<0, v>>, k>> \in rows
    <3>1. CASE Ask(t)
      <4>1. nextPub + 1 # 0 BY <1>1 DEF TypeOK
      <4> QED BY <3>1, <4>1 DEF Ask
    <3>2. CASE Retry(t) \/ Publish(t)
      BY <3>2 DEF Retry, Publish, DispatchPublished, FoldDirectoryPublished
    <3> QED BY <1>5, <3>1, <3>2 DEF Locate, LocateMiss, Fetch, FetchMiss, PutRefused
  <2>3. RowsBacked' BY <1>2, <2>1, <2>2 DEF RowsBacked, Live, Serves
  <2>4. LandedHeld' BY <2>1 DEF Held, LandedHeld, Mine
  <2> QED BY <2>3, <2>4 DEF Held
<1>6. ASSUME NEW k \in Keys, NEW v \in Volumes, Evict(k, v) PROVE Held'
  <2>1. /\ ~Landing(k, v)
        /\ resident' = resident \ {<<k, v>>} /\ dropping' = dropping \union {<<k, v>>}
        /\ rows' = rows /\ pc' = pc
    BY <1>6 DEF Evict
  <2>2. RowsBacked' BY <1>2, <2>1 DEF RowsBacked, Live, Serves
  <2>3. LandedHeld' BY <2>1 DEF Held, LandedHeld, Landing, Mine
  <2> QED BY <2>2, <2>3 DEF Held
<1>7. ASSUME NEW k \in Keys, NEW v \in Volumes, Deregister(k, v) PROVE Held'
  <2>1. /\ dropping' = dropping \ {<<k, v>>} /\ rows' = rows \ {<<<<0, v>>, k>>}
        /\ resident' = resident /\ pc' = pc
    BY <1>7 DEF Deregister
  <2>2. ASSUME NEW j \in Keys, NEW w \in Volumes, <<<<0, w>>, j>> \in rows'
        PROVE  <<j, w>> \in resident' \union dropping'
    <3>1. <<j, w>> \in resident \union dropping /\ <<j, w>> # <<k, v>>
      BY <1>2, <2>1, <2>2
    <3> QED BY <2>1, <3>1
  <2>3. RowsBacked' BY <2>2 DEF RowsBacked, Live, Serves
  <2>4. LandedHeld' BY <2>1 DEF Held, LandedHeld, Mine
  <2> QED BY <2>3, <2>4 DEF Held
<1>8. CASE UNCHANGED vars
  BY <1>8 DEF vars, storeVars, Held, RowsBacked, LandedHeld, Live, Serves, Mine
<1> QED BY <1>3, <1>4, <1>5, <1>6, <1>7, <1>8 DEF Next, Step, Finished

(* A live row names a volume that holds the key or is about to say it does  *)
(* not, so long as no put evicts what another has landed and not yet        *)
(* registered.                                                              *)
THEOREM DirectoryBacked ==
  ASSUME PutsOverlap = FALSE
  PROVE  Spec => []RowsBacked
<1>1. Init => Held
  <2> SUFFICES ASSUME Init PROVE Held
    OBVIOUS
  <2>1. LandedHeld BY DEF Init, LandedHeld
  <2>2. ASSUME NEW k \in Keys, NEW v \in Volumes, <<<<0, v>>, k>> \in rows
        PROVE  <<k, v>> \in resident
    <3>1. v \in Origins BY <2>2 DEF Init
    <3> QED BY <3>1 DEF Init
  <2> QED BY <2>1, <2>2 DEF Held, RowsBacked, Live, Serves
<1>2. IInv /\ Held /\ [Next]_vars => Held' BY HeldInv
<1>3. Held => RowsBacked BY DEF Held
<1> QED BY <1>1, <1>2, <1>3, Invariance, PTL DEF Spec

-----------------------------------------------------------------------------
(***************************************************************************)
(* The fan-out cap.  A volume's count of readers includes those booked     *)
(* behind its live copy, so it is not bounded by the cap; the readers that *)
(* hold a gate on a pending copy of it are.  A parked reader holds a gate  *)
(* on its first source, so long as the reads of one requester follow one   *)
(* another: an overlapping ask of the same requester takes its gates away. *)
(***************************************************************************)

(* The reads of one requester follow one another, as a rank's pulls do.     *)
OneAtATime ==
  \A t, u \in Reads : t # u /\ Requester[t] = Requester[u] => t \in After[u] \/ u \in After[t]

(* The requesters with a gate on a pending copy at v.                       *)
Parked(v) == { r \in Volumes : \E q \in gates[r] : q[2] = v }

Arrivals == \A q \in DOMAIN arrival : arrival[q] \in Nat

InTurn == \A t \in Reads : pc[t] # "idle" => MayStart(t)

AskedWaits == \A t \in Reads : missing[t] # {} => pc[t] = "asked"

HeadGated ==
  \A t \in Reads : \A q \in missing[t] : prefer[t][q[2]] = 1 => q \in gates[Requester[t]]

ParkedBounded == \A v \in Volumes : Cardinality(Parked(v)) <= FanoutCap

CapInv == InTurn /\ AskedWaits /\ HeadGated /\ ParkedBounded

(* A finite set of naturals has a bound: a smallest subset without one      *)
(* would have an element to do without.                                     *)
LEMMA HasBound ==
  ASSUME NEW S \in SUBSET Nat, IsFiniteSet(S)
  PROVE  \E b \in Nat : \A n \in S : n <= b
<1> DEFINE Within(T) == \E b \in Nat : \A n \in T : n <= b
           Sizes == { Cardinality(T) : T \in { U \in SUBSET S : ~Within(U) } }
<1> SUFFICES ASSUME ~Within(S) PROVE FALSE
  OBVIOUS
<1>1. Sizes # {} /\ Sizes \subseteq Nat
  <2>1. \A T \in SUBSET S : IsFiniteSet(T) /\ Cardinality(T) \in Nat
    BY FS_Subset, FS_CardinalityType
  <2> HIDE DEF Within
  <2> QED BY <2>1
<1>2. PICK n \in Sizes : \A m \in Sizes : n <= m
  <2> HIDE DEF Sizes
  <2> QED BY <1>1, Least
<1>3. PICK T \in SUBSET S : ~Within(T) /\ Cardinality(T) = n
  <2> HIDE DEF Within
  <2> QED BY <1>2
<1>4. T # {} BY <1>3
<1>5. PICK x \in T : TRUE BY <1>4
<1>6. IsFiniteSet(T) BY FS_Subset
<1>7. Cardinality(T \ {x}) = n - 1 BY <1>3, <1>5, <1>6, FS_RemoveElement
<1>8. n \in Nat BY <1>1, <1>2
<1>9. Within(T \ {x})
  <2> SUFFICES ASSUME ~Within(T \ {x}) PROVE FALSE
    OBVIOUS
  <2>1. T \ {x} \in SUBSET S OBVIOUS
  <2>2. n - 1 \in Sizes
    <3> HIDE DEF Within
    <3> QED BY <1>7, <2>1
  <2>3. n <= n - 1 BY <1>2, <2>2
  <2> QED BY <1>8, <2>3
<1>10. PICK b \in Nat : \A m \in T \ {x} : m <= b BY <1>9
<1>11. x \in Nat BY <1>3, <1>5
<1>12. CASE b <= x
  <2>1. \A m \in T : m <= x BY <1>3, <1>10, <1>11, <1>12
  <2> QED BY <1>3, <1>11, <2>1
<1>13. CASE x <= b
  <2>1. \A m \in T : m <= b BY <1>10, <1>13
  <2> QED BY <1>3, <2>1
<1> QED BY <1>11, <1>12, <1>13

(* A nonempty finite set of naturals has a greatest element.                *)
LEMMA Greatest ==
  ASSUME NEW S \in SUBSET Nat, IsFiniteSet(S), S # {}
  PROVE  \E m \in S : \A n \in S : n <= m
<1> DEFINE Over == { b \in Nat : \A n \in S : n <= b }
<1>1. Over # {} BY HasBound
<1>2. PICK b \in Over : \A c \in Over : b <= c
  <2>1. Over \in SUBSET Nat OBVIOUS
  <2> HIDE DEF Over
  <2> QED BY <1>1, <2>1, Least
<1>3. b \in Nat /\ \A n \in S : n <= b OBVIOUS
<1>4. b \in S
  <2> SUFFICES ASSUME b \notin S PROVE FALSE
    OBVIOUS
  <2>1. \A n \in S : n \in Nat /\ n <= b /\ n # b BY <1>3
  <2>2. \A n \in S : n <= b - 1 BY <1>3, <2>1
  <2>a. PICK n \in S : TRUE OBVIOUS
  <2>3. b - 1 \in Nat BY <1>3, <2>1, <2>a
  <2>4. b - 1 \in Over BY <2>2, <2>3
  <2>5. b <= b - 1 BY <1>2, <2>4
  <2> QED BY <1>3, <2>5
<1> QED BY <1>3, <1>4

(* What a function into the naturals is least at.                           *)
LEMMA LeastAt ==
  ASSUME NEW S, S # {}, NEW f \in [S -> Nat]
  PROVE  \E a \in S : \A b \in S : f[a] <= f[b]
<1> DEFINE T == { f[x] : x \in S }
<1>1. T \in SUBSET Nat /\ T # {} OBVIOUS
<1>2. PICK n \in T : \A m \in T : n <= m
  <2> HIDE DEF T
  <2> QED BY <1>1, Least
<1>3. PICK a \in S : f[a] = n BY <1>2
<1> QED BY <1>2, <1>3

(* Of any sources to rank, one comes first: the ranking compares naturals   *)
(* and, last, the publication itself.                                       *)
LEMMA HasFirst ==
  ASSUME TypeOK, Arrivals, NEW S \in SUBSET Publications, S # {}, NEW r \in Volumes,
         \A p \in S : p[1] # 0 => p \in DOMAIN arrival
  PROVE  First(S, r) # {}
<1> DEFINE l(p) == IF Spread THEN Score(p, r) * (1 + behind[p[2]]) ELSE Score(p, r)
           n(p) == IF Spread THEN 0 ELSE behind[p[2]]
<1>1. \A x, y \in Nat : x * y \in Nat OBVIOUS
<1>2. ASSUME NEW p \in S
      PROVE  /\ l(p) \in Nat /\ n(p) \in Nat /\ p[1] \in Nat /\ p[2] \in Nat
             /\ p = <<p[1], p[2]>>
  <2>1. /\ p[1] \in Nat /\ p[2] \in Volumes /\ p[2] \in Nat /\ p = <<p[1], p[2]>>
    <3>1. p \in Nat \X Volumes BY DEF Publications
    <3>2. Volumes \subseteq Nat BY ConstantsAssumption
    <3>3. p[1] \in Nat /\ p[2] \in Volumes BY <3>1
    <3>4. p[2] \in Nat BY <3>2, <3>3
    <3>5. p = <<p[1], p[2]>> BY <3>1
    <3> QED BY <3>3, <3>4, <3>5
  <2>2. Wait(p) \in Nat BY <2>1 DEF Wait, Arrivals
  <2>3. Hop[p[2]][r] \in Nat /\ Fabric \in Nat BY <2>1, ConstantsAssumption
  <2>4. Fabric * Hop[p[2]][r] \in Nat BY <1>1, <2>3
  <2>5. Score(p, r) \in Nat BY <2>2, <2>3, <2>4 DEF Score
  <2>6. behind[p[2]] \in Nat /\ 1 + behind[p[2]] \in Nat BY <2>1 DEF TypeOK
  <2>7. Score(p, r) * (1 + behind[p[2]]) \in Nat BY <1>1, <2>5, <2>6
  <2> QED BY <2>1, <2>5, <2>6, <2>7
<1>3. \A p, q \in S : RanksBefore(p, q, r) <=>
        \/ l(p) < l(q)
        \/ l(p) = l(q) /\ n(p) < n(q)
        \/ l(p) = l(q) /\ n(p) = n(q) /\ p[1] < q[1]
        \/ l(p) = l(q) /\ n(p) = n(q) /\ p[1] = q[1] /\ p[2] < q[2]
  BY DEF RanksBefore
<1> HIDE DEF l, n
<1>4. PICK a \in S : \A b \in S : l(a) <= l(b)
  <2> DEFINE f == [p \in S |-> l(p)]
  <2>1. f \in [S -> Nat] BY <1>2
  <2>2. \E x \in S : \A b \in S : f[x] <= f[b]
    <3> HIDE DEF f
    <3> QED BY <2>1, LeastAt
  <2> QED BY <2>2
<1> DEFINE S1 == { p \in S : l(p) = l(a) }
<1>5. PICK b \in S1 : \A c \in S1 : n(b) <= n(c)
  <2> DEFINE f == [p \in S1 |-> n(p)]
  <2>1. f \in [S1 -> Nat] /\ S1 # {} BY <1>2
  <2>2. \E x \in S1 : \A c \in S1 : f[x] <= f[c]
    <3> HIDE DEF f, S1
    <3> QED BY <2>1, LeastAt
  <2> QED BY <2>2
<1> DEFINE S2 == { p \in S1 : n(p) = n(b) }
<1>6. PICK c \in S2 : \A d \in S2 : c[1] <= d[1]
  <2> DEFINE f == [p \in S2 |-> p[1]]
  <2>1. f \in [S2 -> Nat] /\ S2 # {} BY <1>2
  <2>2. \E x \in S2 : \A d \in S2 : f[x] <= f[d]
    <3> HIDE DEF f, S2
    <3> QED BY <2>1, LeastAt
  <2> QED BY <2>2
<1> DEFINE S3 == { p \in S2 : p[1] = c[1] }
<1>7. PICK d \in S3 : \A e \in S3 : d[2] <= e[2]
  <2> DEFINE f == [p \in S3 |-> p[2]]
  <2>1. f \in [S3 -> Nat] /\ S3 # {} BY <1>2
  <2>2. \E x \in S3 : \A e \in S3 : f[x] <= f[e]
    <3> HIDE DEF f, S3
    <3> QED BY <2>1, LeastAt
  <2> QED BY <2>2
<1>8. ASSUME NEW q \in S \ {d} PROVE RanksBefore(d, q, r)
  <2>1. d \in S /\ l(d) = l(a) /\ n(d) = n(b) /\ d[1] = c[1] OBVIOUS
  <2>2. l(d) <= l(q) BY <1>4, <2>1
  <2>3. l(q) = l(d) => n(d) <= n(q) BY <1>5, <2>1
  <2>4. l(q) = l(d) /\ n(q) = n(d) => d[1] <= q[1] BY <1>6, <2>1
  <2>5. l(q) = l(d) /\ n(q) = n(d) /\ q[1] = d[1] => d[2] <= q[2] /\ d[2] # q[2]
    <3>1. q # d => q[1] # d[1] \/ q[2] # d[2] BY <1>2, <2>1
    <3> QED BY <1>7, <2>1, <3>1
  <2>6. /\ l(d) \in Nat /\ n(d) \in Nat /\ d[1] \in Nat /\ d[2] \in Nat
        /\ l(q) \in Nat /\ n(q) \in Nat /\ q[1] \in Nat /\ q[2] \in Nat
    BY <1>2, <2>1
  <2> QED BY <1>3, <2>1, <2>2, <2>3, <2>4, <2>5, <2>6
<1>9. d \in First(S, r) BY <1>8 DEF First
<1> QED BY <1>9

(* The volume a preference puts first is the one the requester is booked    *)
(* behind.                                                                  *)
LEMMA PreferredIsHead ==
  ASSUME TypeOK, Arrivals, NEW chosen \in SUBSET Publications, NEW r \in Volumes,
         \A p \in chosen : p[1] # 0 => p \in DOMAIN arrival,
         NEW v \in Volumes, Preference(chosen, r)[v] = 1
  PROVE  v \in { q[2] : q \in First(chosen, r) }
<1> DEFINE Ahead == { w \in Volumes \ {v} :
                        \E q \in chosen : q[2] = w /\
                          \A p \in chosen : p[2] = v => RanksBefore(q, p, r) }
<1>1. Preference(chosen, r)[v] =
        IF \E p \in chosen : p[2] = v THEN Cardinality(Ahead) + 1 ELSE 0
  BY DEF Preference
<1>2. IsFiniteSet(Ahead) /\ Cardinality(Ahead) \in Nat
  <2>1. Ahead \in SUBSET Volumes OBVIOUS
  <2> HIDE DEF Ahead
  <2>2. IsFiniteSet(Ahead) BY <2>1, FS_Subset, ConstantsAssumption
  <2> QED BY <2>2, FS_CardinalityType
<1>3. chosen # {} /\ Cardinality(Ahead) = 0
  <2> HIDE DEF Ahead
  <2> QED BY <1>1, <1>2
<1>4. Ahead = {}
  <2> HIDE DEF Ahead
  <2> QED BY <1>2, <1>3, FS_EmptySet
<1>5. PICK f \in First(chosen, r) : TRUE BY <1>3, HasFirst
<1>6. f \in chosen /\ \A q \in chosen \ {f} : RanksBefore(f, q, r) BY <1>5 DEF First
<1>7. f[2] \in Volumes BY <1>6 DEF Publications
<1>8. f[2] = v
  <2> SUFFICES ASSUME f[2] # v PROVE FALSE
    OBVIOUS
  <2>1. f[2] \in Ahead BY <1>6, <1>7
  <2> QED BY <1>4, <2>1
<1> QED BY <1>5, <1>8

(* A plan's sources are finitely many, and the instant the last is read is  *)
(* a natural.                                                               *)
LEMMA ArrivalType ==
  ASSUME TypeOK, Arrivals, NEW chosen \in SUBSET Publications, NEW r \in Volumes,
         NEW bound \in Nat, \A p \in chosen : p[1] <= bound,
         \A p \in chosen : p[1] # 0 => p \in DOMAIN arrival
  PROVE  /\ ArrivalOf(ReadTimes(chosen, r)) \in Nat
         /\ \/ ArrivalOf(ReadTimes(chosen, r)) = 0
            \/ ArrivalOf(ReadTimes(chosen, r)) \in ReadTimes(chosen, r)
<1> DEFINE T == ReadTimes(chosen, r)
<1>1. IsFiniteSet(chosen)
  <2>1. IsFiniteSet((0 .. bound) \X Volumes)
    <3>1. IsFiniteSet(0 .. bound) BY FS_Interval
    <3>2. IsFiniteSet(Volumes) BY ConstantsAssumption
    <3> QED BY <3>1, <3>2, FS_Product
  <2>2. chosen \in SUBSET ((0 .. bound) \X Volumes) BY DEF Publications
  <2> QED BY <2>1, <2>2, FS_Subset
<1>2. IsFiniteSet(T)
  <2> DEFINE f == [p \in chosen |-> Wait(p) + Hop[p[2]][r]]
  <2>1. f \in Surjection(chosen, T) BY Fun_IsSurj DEF ReadTimes
  <2> HIDE DEF f, T
  <2> QED BY <1>1, <2>1, FS_Surjection
<1>3. T \in SUBSET Nat
  <2> SUFFICES ASSUME NEW p \in chosen PROVE Wait(p) + Hop[p[2]][r] \in Nat
    BY DEF ReadTimes
  <2>1. p[1] \in Nat /\ p[2] \in Volumes BY DEF Publications
  <2>2. Wait(p) \in Nat BY <2>1 DEF Wait, Arrivals
  <2>3. Hop[p[2]][r] \in Nat BY <2>1, ConstantsAssumption
  <2> QED BY <2>2, <2>3
<1> HIDE DEF T
<1>4. T # {} => \E m \in T : \A n \in T : n <= m BY <1>2, <1>3, Greatest
<1>5. ArrivalOf(T) = 0 \/ ArrivalOf(T) \in T
  <2>1. CASE T = {} BY <2>1 DEF ArrivalOf
  <2>2. CASE T # {}
    <3>1. PICK m \in T : \A n \in T : n <= m BY <1>4, <2>2
    <3>2. ArrivalOf(T) = CHOOSE x \in T : \A n \in T : n <= x BY <2>2 DEF ArrivalOf
    <3> QED BY <3>1, <3>2
  <2> QED BY <2>1, <2>2
<1>6. ArrivalOf(T) \in Nat
  <2>1. 0 \in Nat OBVIOUS
  <2>2. \A x \in T : x \in Nat BY <1>3
  <2> QED BY <1>5, <2>1, <2>2, Zenon
<1> QED BY <1>5, <1>6 DEF T

(* Calls whose predecessors have ended keep them ended. *)
LEMMA MayStartStays ==
  ASSUME TypeOK, InTurn, NEW t \in Reads, NEW to, MayStart(t),
         pc[t] \notin {"done", "failed"}, pc' = [pc EXCEPT ![t] = to]
  PROVE  InTurn'
<1>1. \A u \in Reads : pc'[u] = IF u = t THEN to ELSE pc[u] BY DEF TypeOK
<1>2. \A u \in Reads : MayStart(u) => t \notin After[u] BY DEF MayStart
<1>3. \A u \in Reads : After[u] \subseteq Reads BY ConstantsAssumption
<1>4. \A u \in Reads : MayStart(u) => MayStart(u)'
  BY <1>1, <1>2, <1>3 DEF MayStart
<1> QED BY <1>1, <1>4 DEF InTurn

(* Nobody new behind a pending copy. *)
LEMMA ParkedShrinks ==
  ASSUME ParkedBounded, \A v \in Volumes : Parked(v)' \subseteq Parked(v)
  PROVE  ParkedBounded'
<1> SUFFICES ASSUME NEW v \in Volumes PROVE Cardinality(Parked(v)') <= FanoutCap
  BY DEF ParkedBounded
<1>1. IsFiniteSet(Parked(v)) BY FS_Subset, ConstantsAssumption DEF Parked
<1>2. Parked(v)' \in SUBSET Parked(v) OBVIOUS
<1>3. /\ IsFiniteSet(Parked(v)') /\ Cardinality(Parked(v)') <= Cardinality(Parked(v))
  BY <1>1, <1>2, FS_Subset
<1>4. Cardinality(Parked(v)') \in Nat /\ Cardinality(Parked(v)) \in Nat
  BY <1>1, <1>3, FS_CardinalityType
<1>5. Cardinality(Parked(v)) <= FanoutCap /\ FanoutCap \in Nat
  BY ConstantsAssumption DEF ParkedBounded
<1> QED BY <1>3, <1>4, <1>5

(* What an ask declares, and the sources of its plan.                       *)
Declared(t) ==
  rows \union { <<<<nextPub + 1, Requester[t]>>, k>> : k \in Batch[t] }

Chosen(t) ==
  GreedyCover(Batch[t], Candidates(ServingUnion(Batch[t], Declared(t)), Requester[t]),
              Requester[t], Declared(t))

Heads(t) == { q[2] : q \in First(Chosen(t), Requester[t]) }

(* Of a plan's sources the pending ones are in flight and below the cap.    *)
LEMMA PlanShape ==
  ASSUME IInv, NEW t \in Reads
  PROVE  /\ Declared(t) \in SUBSET (Publications \X Keys)
         /\ Chosen(t) \in SUBSET Publications /\ Heads(t) \in SUBSET Volumes
         /\ \A q \in Chosen(t) :
              /\ q[1] <= nextPub
              /\ q[1] # 0 => q \in DOMAIN arrival /\ behind[q[2]] < FanoutCap
<1> DEFINE p == <<nextPub + 1, Requester[t]>>
<1>1. TypeOK /\ Pending BY DEF IInv
<1>2. Requester[t] \in Volumes /\ Batch[t] \in SUBSET Keys BY ConstantsAssumption
<1>3. p \in Publications /\ nextPub \in Nat
  BY <1>1, <1>2 DEF TypeOK, Publications
<1>4. Declared(t) \in SUBSET (Publications \X Keys)
  <2>1. Declared(t) = rows \union { <<p, k>> : k \in Batch[t] } BY DEF Declared
  <2> HIDE DEF p
  <2>2. rows \subseteq Publications \X Keys BY <1>1 DEF TypeOK
  <2>3. { <<p, k>> : k \in Batch[t] } \subseteq Publications \X Keys BY <1>2, <1>3
  <2> QED BY <2>1, <2>2, <2>3
<1>5. Chosen(t) \subseteq Publications /\ Heads(t) \subseteq Volumes
  BY <1>1, <1>4, PlanSources DEF Chosen, Heads
<1>6. \A q \in Chosen(t) : q[1] # 0 => q \in DOMAIN arrival /\ behind[q[2]] < FanoutCap
  BY DEF Chosen, GreedyCover, First, Candidates
<1>7. \A q \in Chosen(t) : q[1] <= nextPub
  <2>1. \A q \in DOMAIN arrival : q[1] \in 1 .. nextPub
    BY <1>1 DEF Pending, PendingAgree, IdsDeclared
  <2> QED BY <1>3, <1>6, <2>1
<1> QED BY <1>4, <1>5, <1>6, <1>7

(* What an ask does, in those terms.                                        *)
LEMMA AskShape ==
  ASSUME NEW t \in Reads, Ask(t)
  PROVE  LET p == <<nextPub + 1, Requester[t]>>
             gatePubs == GatePublications(Chosen(t))
         IN /\ MayStart(t) /\ pc[t] = "idle" /\ pc' = [pc EXCEPT ![t] = "asked"]
            /\ FoldRouted(p, Heads(t), gatePubs, ArrivalOf(ReadTimes(Chosen(t), Requester[t])))
            /\ missing' = [missing EXCEPT ![t] = Gate(gatePubs, inFlight \union {p})]
            /\ pub' = [pub EXCEPT ![t] = p]
            /\ prefer' = [prefer EXCEPT ![t] = Preference(Chosen(t), Requester[t])]
            /\ rows' = Declared(t) /\ UNCHANGED <<located, storeVars>>
BY DEF Ask, Transition, Heads, Chosen, Declared

(* Arrival scores are naturals.                                             *)
LEMMA ArrivalsInvariance == Spec => []Arrivals
<1>1. Init => Arrivals BY DEF Init, Arrivals
<1>2. ASSUME IInv, Arrivals, [Next]_vars PROVE Arrivals'
  <2>1. TypeOK BY <1>2 DEF IInv
  <2>2. ASSUME NEW t \in Reads, Ask(t) PROVE Arrivals'
    <3> DEFINE p == <<nextPub + 1, Requester[t]>>
               at == ArrivalOf(ReadTimes(Chosen(t), Requester[t]))
    <3>1. Requester[t] \in Volumes /\ nextPub \in Nat
      BY <2>1, ConstantsAssumption DEF TypeOK
    <3>2. at \in Nat BY <1>2, <2>1, <3>1, PlanShape, ArrivalType
    <3>3. arrival' = [q \in DOMAIN arrival \union {p} |->
                        IF q \in DOMAIN arrival THEN arrival[q] ELSE at]
      BY <2>2, AskShape DEF FoldRouted
    <3> HIDE DEF p, at
    <3> QED BY <1>2, <3>2, <3>3 DEF Arrivals
  <2>3. ASSUME NEW t \in Reads, Retry(t) \/ Publish(t) PROVE Arrivals'
    <3>1. arrival' = [q \in DOMAIN arrival \ {pub[t]} |-> arrival[q]]
      BY <2>3 DEF Retry, Publish, DispatchPublished, FoldFanoutPublished
    <3> QED BY <1>2, <3>1 DEF Arrivals
  <2>4. ASSUME arrival' = arrival PROVE Arrivals'
    BY <1>2, <2>4 DEF Arrivals
  <2>5. ASSUME NEW t \in Reads,
               \/ Locate(t) \/ LocateMiss(t) \/ Fetch(t) \/ FetchMiss(t)
               \/ Store(t) \/ PutRefused(t) \/ Register(t)
        PROVE  Arrivals'
    BY <2>4, <2>5 DEF Locate, LocateMiss, Fetch, FetchMiss, Store, PutRefused, Register,
                      sensorVars
  <2>6. ASSUME NEW k \in Keys, NEW v \in Volumes, Evict(k, v) \/ Deregister(k, v)
        PROVE  Arrivals'
    BY <2>4, <2>6 DEF Evict, Deregister, sensorVars
  <2>7. CASE UNCHANGED vars BY <2>4, <2>7 DEF vars, sensorVars
  <2> QED BY <1>2, <2>2, <2>3, <2>5, <2>6, <2>7 DEF Next, Step, Finished
<1>3. IInv /\ Arrivals /\ [Next]_vars => Arrivals' BY <1>2
<1> QED BY <1>1, <1>3, Invariance, PTL DEF Spec

(* An ask joins a pending copy only where fewer than the cap are behind it. *)
LEMMA AskCap ==
  ASSUME OneAtATime, IInv, Arrivals, CapInv, NEW t \in Reads, Ask(t)
  PROVE  CapInv'
<1> DEFINE r == Requester[t]
           p == <<nextPub + 1, r>>
           flying == inFlight \union {p}
           chosen == Chosen(t)
           heads == { q[2] : q \in First(chosen, r) }
           gatePubs == GatePublications(chosen)
<1>1. /\ TypeOK /\ Books /\ InTurn /\ AskedWaits /\ HeadGated /\ ParkedBounded
  BY DEF IInv, CapInv
<1>2. r \in Volumes /\ FanoutCap \in Nat
  BY ConstantsAssumption
<1>5. chosen \subseteq Publications BY PlanShape
<1>6. \A q \in chosen : q[1] # 0 => q \in DOMAIN arrival /\ behind[q[2]] < FanoutCap
  BY PlanShape
<1>8. /\ MayStart(t) /\ pc[t] = "idle" /\ pc' = [pc EXCEPT ![t] = "asked"]
      /\ gates' = [gates EXCEPT ![r] = { q \in gatePubs : q[2] \in heads }]
      /\ missing' = [missing EXCEPT ![t] = Gate(gatePubs, flying)]
      /\ prefer' = [prefer EXCEPT ![t] = Preference(chosen, r)]
  BY AskShape DEF FoldRouted, Heads
<1> HIDE DEF chosen, heads, gatePubs
<1>10. \A u \in Reads : /\ pc'[u] = IF u = t THEN "asked" ELSE pc[u]
                        /\ missing'[u] = IF u = t THEN Gate(gatePubs, flying) ELSE missing[u]
                        /\ prefer'[u] = IF u = t THEN Preference(chosen, r) ELSE prefer[u]
  BY <1>1, <1>8 DEF TypeOK
<1>11. \A x \in Volumes : gates'[x] = IF x = r THEN { q \in gatePubs : q[2] \in heads } ELSE gates[x]
  BY <1>1, <1>2, <1>8 DEF TypeOK
<1>13. InTurn' BY <1>1, <1>8, MayStartStays
<1>14. AskedWaits' BY <1>1, <1>10 DEF AskedWaits
<1>15. HeadGated'
  <2> SUFFICES ASSUME NEW u \in Reads, NEW q \in missing'[u], prefer'[u][q[2]] = 1
               PROVE  q \in gates'[Requester[u]]
    BY DEF HeadGated
  <2>1. CASE u = t
    <3>1. q \in gatePubs BY <1>10, <2>1 DEF Gate
    <3>2. q \in chosen BY <3>1 DEF gatePubs, GatePublications
    <3>3. q[2] \in Volumes BY <1>5, <3>2 DEF Publications
    <3>4. Preference(chosen, r)[q[2]] = 1 BY <1>10, <2>1
    <3>5. q[2] \in heads
      BY <1>1, <1>2, <1>5, <1>6, <3>3, <3>4, PreferredIsHead DEF heads
    <3> QED BY <1>2, <1>11, <2>1, <3>1, <3>5
  <2>2. CASE u # t
    <3>1. q \in missing[u] /\ prefer[u][q[2]] = 1 BY <1>10, <2>2
    <3>2. q \in gates[Requester[u]] BY <1>1, <3>1 DEF HeadGated
    <3>3. Requester[u] # r
      <4> SUFFICES ASSUME Requester[u] = r PROVE FALSE
        OBVIOUS
      <4>1. pc[u] = "asked" BY <1>1, <3>1 DEF AskedWaits
      <4>2. MayStart(u) BY <1>1, <4>1 DEF InTurn
      <4>3. t \in After[u] \/ u \in After[t] BY <2>2 DEF OneAtATime
      <4> QED BY <1>8, <4>1, <4>2, <4>3 DEF MayStart
    <3>4. Requester[u] \in Volumes BY ConstantsAssumption
    <3> QED BY <1>11, <3>2, <3>3, <3>4
  <2> QED BY <2>1, <2>2
<1>16. ParkedBounded'
  <2> SUFFICES ASSUME NEW v \in Volumes PROVE Cardinality(Parked(v)') <= FanoutCap
    BY DEF ParkedBounded
  <2>1. Parked(v)' \subseteq Parked(v) \union {r}
    BY <1>11 DEF Parked
  <2>2. IsFiniteSet(Parked(v)) /\ Cardinality(Parked(v)) \in Nat
    <3>1. Parked(v) \in SUBSET Volumes BY DEF Parked
    <3> QED BY <3>1, FS_Subset, FS_CardinalityType, ConstantsAssumption
  <2>3. CASE \E q \in gatePubs : q[2] = v
    <3>1. behind[v] < FanoutCap /\ behind[v] \in Nat
      <4>1. PICK q \in gatePubs : q[2] = v BY <2>3
      <4>2. q \in chosen /\ q[1] # 0 BY <4>1 DEF gatePubs, GatePublications
      <4> QED BY <1>1, <1>6, <4>1, <4>2 DEF TypeOK
    <3>2. Parked(v) \in SUBSET Booked(assigned, v)
      BY <1>1 DEF Parked, Booked, Books, GatesAssigned
    <3>3. Cardinality(Parked(v)) <= Cardinality(Booked(assigned, v))
      BY <3>2, BookedFinite, FS_Subset
    <3>4. Cardinality(Booked(assigned, v)) = behind[v]
      BY <1>1 DEF Books, BehindExact, Booked
    <3>5. /\ IsFiniteSet(Parked(v) \union {r})
          /\ Cardinality(Parked(v) \union {r}) =
               IF r \in Parked(v) THEN Cardinality(Parked(v)) ELSE Cardinality(Parked(v)) + 1
      BY <2>2, FS_AddElement
    <3>6. Cardinality(Parked(v) \union {r}) <= FanoutCap
      BY <1>2, <2>2, <3>1, <3>3, <3>4, <3>5
    <3>7. /\ IsFiniteSet(Parked(v)')
          /\ Cardinality(Parked(v)') <= Cardinality(Parked(v) \union {r})
      BY <2>1, <3>5, FS_Subset
    <3>8. Cardinality(Parked(v)') \in Nat /\ Cardinality(Parked(v) \union {r}) \in Nat
      BY <3>5, <3>7, FS_CardinalityType
    <3> QED BY <1>2, <3>6, <3>7, <3>8
  <2>4. CASE ~ \E q \in gatePubs : q[2] = v
    <3>1. Parked(v)' \in SUBSET Parked(v) BY <1>2, <1>11, <2>4 DEF Parked
    <3>2. IsFiniteSet(Parked(v)') /\ Cardinality(Parked(v)') <= Cardinality(Parked(v))
      BY <2>2, <3>1, FS_Subset
    <3>3. Cardinality(Parked(v)') \in Nat BY <3>2, FS_CardinalityType
    <3>4. Cardinality(Parked(v)) <= FanoutCap BY <1>1 DEF ParkedBounded
    <3> QED BY <1>2, <2>2, <3>2, <3>3, <3>4
  <2> QED BY <2>3, <2>4
<1> QED BY <1>13, <1>14, <1>15, <1>16 DEF CapInv

LEMMA CapNext ==
  ASSUME OneAtATime
  PROVE  IInv /\ Arrivals /\ CapInv /\ [Next]_vars => CapInv'
<1> SUFFICES ASSUME IInv, Arrivals, CapInv, [Next]_vars PROVE CapInv'
  OBVIOUS
<1>1. TypeOK /\ InTurn /\ AskedWaits /\ HeadGated /\ ParkedBounded
  BY DEF IInv, CapInv
<1>2. ASSUME NEW t \in Reads, Ask(t) PROVE CapInv'
  BY <1>2, AskCap
<1>3. ASSUME NEW t \in Reads, Retry(t) \/ Publish(t) PROVE CapInv'
  <2> DEFINE p == pub[t]
  <2>1. /\ arrival' = [q \in DOMAIN arrival \ {p} |-> arrival[q]]
        /\ gates' = [x \in Volumes |-> gates[x] \ {p}]
        /\ missing' = [u \in Reads |-> missing[u] \ {p}]
        /\ prefer' = prefer
    BY <1>3 DEF Retry, Publish, DispatchPublished, FoldFanoutPublished, planVars
  <2>2. /\ pc[t] \in {"missed", "registered"}
        /\ pc' = [pc EXCEPT ![t] = "idle"] \/ pc' = [pc EXCEPT ![t] = "done"]
    BY <1>3 DEF Retry, Publish, Transition
  <2>4. InTurn'
    <3>1. MayStart(t) BY <1>1, <2>2 DEF InTurn
    <3> QED BY <1>1, <2>2, <3>1, MayStartStays
  <2>5. AskedWaits'
    BY <1>1, <2>1, <2>2 DEF AskedWaits, TypeOK
  <2>6. HeadGated'
    <3>1. \A u \in Reads : Requester[u] \in Volumes BY ConstantsAssumption
    <3> HIDE DEF p
    <3> QED BY <1>1, <2>1, <3>1 DEF HeadGated
  <2>7. ParkedBounded'
    <3>1. \A v \in Volumes : Parked(v)' \subseteq Parked(v)
      <4> HIDE DEF p
      <4> QED BY <2>1 DEF Parked
    <3> QED BY <1>1, <3>1, ParkedShrinks
  <2> QED BY <2>4, <2>5, <2>6, <2>7 DEF CapInv
<1>4. ASSUME NEW t \in Reads,
             \/ Locate(t) \/ LocateMiss(t) \/ Fetch(t) \/ FetchMiss(t)
             \/ Store(t) \/ PutRefused(t) \/ Register(t)
      PROVE  CapInv'
  <2>1. UNCHANGED <<arrival, gates, missing, prefer>>
    BY <1>4 DEF Locate, LocateMiss, Fetch, FetchMiss, Store, PutRefused, Register,
                sensorVars, planVars
  <2>2. PICK to \in Control :
          /\ pc[t] \notin {"idle", "done", "failed"} /\ pc' = [pc EXCEPT ![t] = to]
          /\ pc[t] = "asked" => missing[t] = {}
    BY <1>4 DEF Locate, LocateMiss, Fetch, FetchMiss, Store, PutRefused, Register,
                Transition, Control
  <2>3. InTurn'
    <3>1. MayStart(t) BY <1>1, <2>2 DEF InTurn
    <3> QED BY <1>1, <2>2, <3>1, MayStartStays
  <2>4. AskedWaits' BY <1>1, <2>1, <2>2 DEF AskedWaits, TypeOK
  <2> QED BY <1>1, <2>1, <2>3, <2>4 DEF CapInv, HeadGated, ParkedBounded, Parked
<1>5. ASSUME UNCHANGED <<arrival, gates, missing, prefer, pc>> PROVE CapInv'
  BY <1>1, <1>5 DEF CapInv, InTurn, MayStart, AskedWaits, HeadGated, ParkedBounded, Parked
<1>6. ASSUME NEW k \in Keys, NEW v \in Volumes, Evict(k, v) \/ Deregister(k, v)
      PROVE  CapInv'
  BY <1>5, <1>6 DEF Evict, Deregister, sensorVars, planVars
<1>7. CASE UNCHANGED vars
  BY <1>5, <1>7 DEF vars, sensorVars, planVars
<1> QED BY <1>2, <1>3, <1>4, <1>6, <1>7 DEF Next, Step, Finished

(* A peer stops being offered once fanout_cap readers are behind it: where  *)
(* the reads of one requester follow one another, no more readers than the  *)
(* cap are ever parked behind one volume as their first source.             *)
THEOREM FanoutCapHolds ==
  ASSUME OneAtATime
  PROVE  Spec => []FanoutBounded
<1>1. Init => CapInv
  <2> SUFFICES ASSUME Init PROVE CapInv
    OBVIOUS
  <2>1. InTurn /\ AskedWaits /\ HeadGated
    BY DEF Init, InTurn, AskedWaits, HeadGated
  <2>2. \A v \in Volumes : Parked(v) = {} BY DEF Init, Parked
  <2>3. Cardinality({}) = 0 /\ FanoutCap \in Nat BY FS_EmptySet, ConstantsAssumption
  <2>4. ParkedBounded BY <2>2, <2>3 DEF ParkedBounded
  <2> QED BY <2>1, <2>4 DEF CapInv
<1>2. IInv /\ Arrivals /\ CapInv /\ [Next]_vars => CapInv' BY CapNext
<1>3. IInv /\ CapInv => FanoutBounded
  <2> SUFFICES ASSUME IInv, CapInv, NEW v \in Volumes
               PROVE  Cardinality({ t \in Reads : /\ prefer[t][v] = 1
                                                  /\ \E q \in missing[t] : q[2] = v })
                        <= FanoutCap
    BY DEF FanoutBounded
  <2> DEFINE W == { t \in Reads : prefer[t][v] = 1 /\ \E q \in missing[t] : q[2] = v }
             f == [t \in W |-> Requester[t]]
  <2>1. AskedWaits /\ InTurn /\ HeadGated /\ ParkedBounded BY DEF CapInv
  <2>2. \A t \in W : Requester[t] \in Parked(v)
    BY <2>1, ConstantsAssumption DEF HeadGated, Parked
  <2>3. \A t, u \in W : Requester[t] = Requester[u] => t = u
    <3> SUFFICES ASSUME NEW t \in W, NEW u \in W, Requester[t] = Requester[u], t # u
                 PROVE  FALSE
      OBVIOUS
    <3>1. pc[t] = "asked" /\ pc[u] = "asked" BY <2>1 DEF AskedWaits
    <3>2. MayStart(t) /\ MayStart(u) BY <2>1, <3>1 DEF InTurn
    <3>3. t \in After[u] \/ u \in After[t] BY DEF OneAtATime
    <3> QED BY <3>1, <3>2, <3>3 DEF MayStart
  <2> HIDE DEF W
  <2>4. f \in [W -> Parked(v)] BY <2>2
  <2>5. \A a, b \in W : f[a] = f[b] => a = b BY <2>3
  <2> HIDE DEF f
  <2>6. f \in Injection(W, Parked(v)) BY <2>4, <2>5, Fun_IsInj
  <2>7. IsFiniteSet(Parked(v)) BY FS_Subset, ConstantsAssumption DEF Parked
  <2>8. IsFiniteSet(W) /\ Cardinality(W) <= Cardinality(Parked(v))
    BY <2>6, <2>7, FS_Injection
  <2>9. Cardinality(W) \in Nat /\ Cardinality(Parked(v)) \in Nat
    BY <2>7, <2>8, FS_CardinalityType
  <2>10. Cardinality(Parked(v)) <= FanoutCap BY <2>1 DEF ParkedBounded
  <2>11. Cardinality(W) <= FanoutCap BY <2>8, <2>9, <2>10, ConstantsAssumption
  <2> QED BY <2>11 DEF W
<1> QED BY <1>1, <1>2, <1>3, Invariance, ArrivalsInvariance, PTL DEF Spec

-----------------------------------------------------------------------------
(***************************************************************************)
(* Plans are carried out.  While nothing is evicted, a plan names for each *)
(* key a source that holds it or is about to, and the gate opens when it   *)
(* does: no read misses, so a publication is only ever committed by a call *)
(* that has registered its keys.  A reader that is the only holder of a    *)
(* key has no source for it, so some origin must be another's.             *)
(***************************************************************************)

(* Every reader has an origin other than itself.                            *)
SourceOutside == \A t \in Reads : Origins \ {Requester[t]} # {}

LiveRow(v, k) == <<<<0, v>>, k>> \in rows

(* A publication is its caller's, and serves what the caller reads.         *)
PubsOwn ==
  \A t \in Reads :
    /\ pub[t][2] = Requester[t]
    /\ pc[t] # "idle" => pub[t][1] # 0
    /\ \A row \in rows : row[1][1] # 0 /\ row[1] = pub[t] => row[2] \in Batch[t]

(* What is live or landed is in the volumes, and nothing is on its way out. *)
Kept ==
  /\ dropping = {}
  /\ \A v \in Origins, k \in Keys : LiveRow(v, k)
  /\ \A v \in Volumes, k \in Keys : LiveRow(v, k) => <<k, v>> \in resident
  /\ \A t \in Reads :
       /\ pc[t] # "missed"
       /\ pc[t] = "stored" => Mine(t) \subseteq resident
       /\ pc[t] = "located" => located[t] \subseteq resident
       /\ pc[t] = "registered" => \A k \in Batch[t] : LiveRow(Requester[t], k)

(* A plan has a source for every key: live, or pending and waited for.      *)
Planned ==
  \A t \in Reads : pc[t] = "asked" =>
    \A k \in Batch[t] : \E v \in Volumes :
      /\ prefer[t][v] > 0
      /\ LiveRow(v, k) \/ \E q \in missing[t] : q[2] = v /\ <<q, k>> \in rows

Followed ==
  \A t \in Reads : pc[t] \in {"located", "fetched", "stored", "registered", "done"} =>
    \A pair \in located[t] : prefer[t][pair[2]] > 0

Calm == evictions = 0 => Kept /\ Planned /\ Followed

LEMMA PubsOwnInvariance == Spec => []PubsOwn
<1>1. Init => PubsOwn BY DEF Init, PubsOwn
<1>2. ASSUME IInv, PubsOwn, [Next]_vars PROVE PubsOwn'
  <2>1. TypeOK /\ Pending BY <1>2 DEF IInv
  <2>2. ASSUME pub' = pub, \A row \in rows' : row[1][1] # 0 => row \in rows,
               \A t \in Reads : pc'[t] # "idle" => pc[t] # "idle"
        PROVE  PubsOwn'
    BY <1>2, <2>2 DEF PubsOwn
  <2>3. ASSUME NEW t \in Reads, Ask(t) PROVE PubsOwn'
    <3> DEFINE p == <<nextPub + 1, Requester[t]>>
    <3>1. /\ rows' = rows \union { <<p, k>> : k \in Batch[t] }
          /\ pub' = [pub EXCEPT ![t] = p]
      BY <2>3 DEF Ask
    <3>2. /\ \A u \in Reads : pub'[u] = IF u = t THEN p ELSE pub[u]
          /\ \A u \in Reads \ {t} : pc'[u] = pc[u]
      BY <2>1, <2>3, <3>1 DEF Ask, Transition, TypeOK
    <3>3. \A u \in Reads : pub[u] # p
      <4>1. \A u \in Reads : pub[u][1] <= nextPub BY <2>1 DEF Pending, IdsDeclared
      <4>2. nextPub \in Nat BY <2>1 DEF TypeOK
      <4> QED BY <4>1, <4>2
    <3>4. \A row \in rows : row[1][1] # 0 => row[1] # p
      <4>1. \A row \in rows : row[1][1] # 0 => row[1] \in inFlight
        BY <2>1 DEF Pending, PendingAgree
      <4>2. \A q \in inFlight : q[1] \in 1 .. nextPub BY <2>1 DEF Pending, IdsDeclared
      <4>3. nextPub \in Nat BY <2>1 DEF TypeOK
      <4> QED BY <4>1, <4>2, <4>3
    <3>5. p[2] = Requester[t] /\ p[1] # 0 BY <2>1 DEF TypeOK
    <3> HIDE DEF p
    <3> SUFFICES ASSUME NEW u \in Reads
                 PROVE  /\ pub'[u][2] = Requester[u]
                        /\ pc'[u] # "idle" => pub'[u][1] # 0
                        /\ \A row \in rows' : row[1][1] # 0 /\ row[1] = pub'[u] =>
                             row[2] \in Batch[u]
      BY DEF PubsOwn
    <3>6. CASE u = t BY <1>2, <3>1, <3>2, <3>4, <3>5, <3>6
    <3>7. CASE u # t BY <1>2, <3>1, <3>2, <3>3, <3>7 DEF PubsOwn
    <3> QED BY <3>6, <3>7
  <2>4. ASSUME NEW t \in Reads, Retry(t) \/ Publish(t) PROVE PubsOwn'
    BY <2>1, <2>2, <2>4 DEF Retry, Publish, DispatchPublished, FoldDirectoryPublished, planVars,
                            Transition, TypeOK
  <2>5. ASSUME NEW t \in Reads, Register(t) PROVE PubsOwn'
    BY <2>1, <2>2, <2>5 DEF Register, planVars, Transition, TypeOK
  <2>6. ASSUME NEW t \in Reads,
               \/ Locate(t) \/ LocateMiss(t) \/ Fetch(t) \/ FetchMiss(t)
               \/ Store(t) \/ PutRefused(t)
        PROVE  PubsOwn'
    BY <2>1, <2>2, <2>6 DEF Locate, LocateMiss, Fetch, FetchMiss, Store, PutRefused, planVars,
                            Transition, TypeOK
  <2>7. ASSUME NEW k \in Keys, NEW v \in Volumes, Evict(k, v) \/ Deregister(k, v)
        PROVE  PubsOwn'
    BY <2>2, <2>7 DEF Evict, Deregister, planVars
  <2>8. CASE UNCHANGED vars BY <2>2, <2>8 DEF vars, planVars
  <2> QED BY <1>2, <2>3, <2>4, <2>5, <2>6, <2>7, <2>8 DEF Next, Step, Finished
<1>3. IInv /\ PubsOwn /\ [Next]_vars => PubsOwn' BY <1>2
<1> QED BY <1>1, <1>3, Invariance, PTL DEF Spec

(* An ask finds every key a source, and waits for the pending ones.         *)
LEMMA AskPlans ==
  ASSUME SourceOutside, IInv, Arrivals, Kept, NEW t \in Reads, Ask(t),
         NEW k \in Batch[t]
  PROVE  \E v \in Volumes :
           /\ prefer'[t][v] > 0
           /\ LiveRow(v, k) \/ \E q \in missing'[t] : q[2] = v /\ <<q, k>> \in rows
<1> DEFINE r == Requester[t]
           p == <<nextPub + 1, r>>
           ranked == Candidates(ServingUnion(Batch[t], Declared(t)), r)
           S == { q \in ranked : Serves(q, k, Declared(t)) }
<1>1. TypeOK /\ Pending BY DEF IInv
<1>2. r \in Volumes /\ k \in Keys /\ Origins \subseteq Volumes BY ConstantsAssumption
<1>3. Declared(t) \in SUBSET (Publications \X Keys) /\ Chosen(t) \subseteq Publications
  BY PlanShape
<1>4. PICK o \in Origins : o # r BY DEF SourceOutside
<1>5. <<<<0, o>>, k>> \in Declared(t) BY <1>2 DEF Kept, LiveRow, Declared
<1>6. <<0, o>> \in S
  <2>1. <<0, o>> \in ServingUnion(Batch[t], Declared(t))
    BY <1>5 DEF ServingUnion
  <2> QED BY <1>4, <1>5, <2>1 DEF Candidates, Serves
<1>7. S \in SUBSET Publications
  <2>1. ServingUnion(Batch[t], Declared(t)) \subseteq Publications
    BY <1>3 DEF ServingUnion
  <2> QED BY <2>1 DEF Candidates
<1>8. \A q \in S : q[1] # 0 => q \in DOMAIN arrival BY DEF Candidates
<1>9. PICK f \in First(S, r) : TRUE
  <2> HIDE DEF S
  <2> QED BY <1>1, <1>2, <1>6, <1>7, <1>8, HasFirst
<1>10. f \in S /\ f \in Chosen(t) BY <1>9 DEF First, Chosen, GreedyCover
<1>11. f[2] # r /\ <<f, k>> \in Declared(t) BY <1>10 DEF Candidates, Serves
<1>12. <<f, k>> \in rows BY <1>11 DEF Declared
<1>13. f \in Publications /\ f[1] \in Nat /\ f[2] \in Volumes /\ f = <<f[1], f[2]>>
  <2>1. f \in Nat \X Volumes BY <1>7, <1>10 DEF Publications
  <2> QED BY <2>1 DEF Publications
<1> HIDE DEF S
<1>14. prefer'[t][f[2]] > 0
  <2>1. prefer'[t] = Preference(Chosen(t), r) BY <1>1, AskShape DEF TypeOK
  <2>2. Preference(Chosen(t), r) \in [Volumes -> Nat] BY PreferenceType
  <2>3. Preference(Chosen(t), r)[f[2]] # 0
    <3> DEFINE Ahead(v) == { w \in Volumes \ {v} :
                               \E q \in Chosen(t) : q[2] = w /\
                                 \A g \in Chosen(t) : g[2] = v => RanksBefore(q, g, r) }
    <3>1. Preference(Chosen(t), r)[f[2]] = Cardinality(Ahead(f[2])) + 1
      BY <1>10, <1>13 DEF Preference
    <3>2. Ahead(f[2]) \in SUBSET Volumes OBVIOUS
    <3> HIDE DEF Ahead
    <3>3. IsFiniteSet(Ahead(f[2])) BY <3>2, FS_Subset, ConstantsAssumption
    <3>4. Cardinality(Ahead(f[2])) \in Nat BY <3>3, FS_CardinalityType
    <3> QED BY <3>1, <3>4
  <2> QED BY <1>13, <2>1, <2>2, <2>3
<1>15. f[1] = 0 => LiveRow(f[2], k) BY <1>12, <1>13 DEF LiveRow
<1>16. f[1] # 0 => f \in missing'[t]
  <2> SUFFICES ASSUME f[1] # 0 PROVE f \in missing'[t]
    OBVIOUS
  <2>1. f \in GatePublications(Chosen(t)) BY <1>10 DEF GatePublications
  <2>2. f \in inFlight BY <1>8, <1>10, <1>1 DEF Pending, PendingAgree
  <2>3. f \in Gate(GatePublications(Chosen(t)), inFlight \union {p}) BY <2>1, <2>2 DEF Gate
  <2>4. missing'[t] = Gate(GatePublications(Chosen(t)), inFlight \union {p})
    BY <1>1, AskShape DEF TypeOK
  <2> QED BY <2>3, <2>4
<1> QED BY <1>12, <1>13, <1>14, <1>15, <1>16

(* A call that locates its batch finds every key where its plan said.       *)
LEMMA LocateFollows ==
  ASSUME TypeOK, Kept, Planned, NEW t \in Reads, Locate(t)
  PROVE  /\ located'[t] \subseteq resident
         /\ \A pair \in located'[t] : prefer[t][pair[2]] > 0
<1>1. pc[t] = "asked" /\ missing[t] = {} BY DEF Locate, Transition
<1>2. PICK from \in [Batch[t] -> Volumes] :
        /\ \A k \in Batch[t] : from[k] \in Preferred(t, k)
        /\ located' = [located EXCEPT ![t] = { <<k, from[k]>> : k \in Batch[t] }]
  BY DEF Locate
<1>3. located'[t] = { <<k, from[k]>> : k \in Batch[t] } BY <1>2 DEF TypeOK
<1>4. ASSUME NEW k \in Batch[t]
      PROVE  <<k, from[k]>> \in resident /\ prefer[t][from[k]] > 0
  <2>1. PICK v \in Volumes : prefer[t][v] > 0 /\ LiveRow(v, k) BY <1>1 DEF Planned
  <2>2. v \in { w \in Live(k) : prefer[t][w] > 0 } BY <2>1 DEF Live, Serves, LiveRow
  <2>3. from[k] \in { w \in Live(k) : prefer[t][w] > 0 } BY <1>2, <2>2 DEF Preferred
  <2>4. k \in Keys BY ConstantsAssumption
  <2> QED BY <2>3, <2>4 DEF Live, Serves, Kept, LiveRow
<1> QED BY <1>3, <1>4

(* A step that leaves directory, stores, gates and plans alone.             *)
LEMMA CalmStep ==
  ASSUME TypeOK, Kept, Planned, Followed, NEW t \in Reads, NEW to,
         pc' = [pc EXCEPT ![t] = to],
         UNCHANGED <<rows, prefer, missing, resident, dropping>>,
         \A u \in Reads \ {t} : located'[u] = located[u],
         to \notin {"asked", "missed", "stored", "registered"},
         to = "located" => located'[t] \subseteq resident,
         to \in {"located", "fetched", "done"} =>
           \A pair \in located'[t] : prefer[t][pair[2]] > 0
  PROVE  Kept' /\ Planned' /\ Followed'
<1>1. \A u \in Reads : pc'[u] = IF u = t THEN to ELSE pc[u] BY DEF TypeOK
<1>2. \A v, k : LiveRow(v, k)' <=> LiveRow(v, k) BY DEF LiveRow
<1>3. Kept'
  <2>1. /\ dropping' = {}
        /\ \A v \in Origins, k \in Keys : LiveRow(v, k)'
        /\ \A v \in Volumes, k \in Keys : LiveRow(v, k)' => <<k, v>> \in resident'
    BY <1>2 DEF Kept
  <2>2. ASSUME NEW u \in Reads
        PROVE  /\ pc'[u] # "missed"
               /\ pc'[u] = "stored" => Mine(u) \subseteq resident'
               /\ pc'[u] = "located" => located'[u] \subseteq resident'
               /\ pc'[u] = "registered" => \A k \in Batch[u] : LiveRow(Requester[u], k)'
    BY <1>1, <1>2 DEF Kept
  <2> QED BY <2>1, <2>2 DEF Kept, Mine
<1>4. Planned'
  BY SMTT(30), <1>1, <1>2 DEF Planned, LiveRow
<1>5. Followed'
  BY <1>1 DEF Followed
<1> QED BY <1>3, <1>4, <1>5

LEMMA CalmNext ==
  ASSUME SourceOutside
  PROVE  IInv /\ Arrivals /\ PubsOwn /\ Calm /\ [Next]_vars => Calm'
<1> SUFFICES ASSUME IInv, Arrivals, PubsOwn, Calm, [Next]_vars, evictions' = 0
             PROVE  Kept' /\ Planned' /\ Followed'
  BY DEF Calm
<1>0. TypeOK /\ Pending /\ Waits BY DEF IInv
<1>1. ASSUME NEW k \in Keys, NEW v \in Volumes, Evict(k, v) PROVE FALSE
  <2>1. evictions' = evictions + 1 /\ evictions \in Nat BY <1>0, <1>1 DEF Evict, TypeOK
  <2> QED BY <2>1
<1>2. evictions' = evictions
  BY <1>1 DEF Next, Step, Finished, Ask, Locate, LocateMiss, Fetch, FetchMiss, Retry, Store,
              PutRefused, Register, Publish, Deregister, vars, storeVars
<1>3. Kept /\ Planned /\ Followed BY <1>2 DEF Calm
<1>4. ASSUME NEW t \in Reads, Ask(t) PROVE Kept' /\ Planned' /\ Followed'
  <2>1. /\ \A u \in Reads : pc'[u] = IF u = t THEN "asked" ELSE pc[u]
        /\ \A u \in Reads \ {t} : missing'[u] = missing[u] /\ prefer'[u] = prefer[u]
        /\ rows \subseteq rows' /\ UNCHANGED <<located, resident, dropping>>
    <3>1. /\ pc' = [pc EXCEPT ![t] = "asked"] /\ rows' = Declared(t)
          /\ \E gate : missing' = [missing EXCEPT ![t] = gate]
          /\ \E plan : prefer' = [prefer EXCEPT ![t] = plan]
          /\ UNCHANGED <<located, storeVars>>
      BY ZenonT(30), <1>4, AskShape
    <3>2. /\ pc \in [Reads -> Control] /\ DOMAIN missing = Reads /\ DOMAIN prefer = Reads
      BY <1>0 DEF TypeOK
    <3>3. \A u \in Reads : pc'[u] = IF u = t THEN "asked" ELSE pc[u]
      BY <3>1, <3>2
    <3>4. \A u \in Reads \ {t} : missing'[u] = missing[u] /\ prefer'[u] = prefer[u]
      BY <3>1, <3>2
    <3>5. rows \subseteq rows'
      BY <3>1 DEF Declared
    <3> QED BY <3>1, <3>3, <3>4, <3>5 DEF storeVars
  <2>2. \A v \in Volumes, k \in Keys : LiveRow(v, k)' <=> LiveRow(v, k)
    <3>1. nextPub + 1 # 0 BY <1>0 DEF TypeOK
    <3>2. rows' = rows \union { <<<<nextPub + 1, Requester[t]>>, k>> : k \in Batch[t] }
      BY <1>4 DEF Ask
    <3> QED BY <3>1, <3>2 DEF LiveRow
  <2>3. \A u \in Reads : Requester[u] \in Volumes /\ Batch[u] \subseteq Keys
    BY ConstantsAssumption
  <2>4. Kept'
    <3>1. /\ dropping' = {}
          /\ \A v \in Origins, k \in Keys : LiveRow(v, k)'
          /\ \A v \in Volumes, k \in Keys : LiveRow(v, k)' => <<k, v>> \in resident'
      BY <1>3, <2>1, <2>2, ConstantsAssumption DEF Kept
    <3>2. ASSUME NEW u \in Reads
          PROVE  /\ pc'[u] # "missed"
                 /\ pc'[u] = "stored" => Mine(u) \subseteq resident'
                 /\ pc'[u] = "located" => located'[u] \subseteq resident'
                 /\ pc'[u] = "registered" => \A k \in Batch[u] : LiveRow(Requester[u], k)'
      BY <1>3, <2>1, <2>2, <2>3 DEF Kept
    <3> QED BY <3>1, <3>2 DEF Kept, Mine
  <2>5. Planned'
    <3> SUFFICES ASSUME NEW u \in Reads, pc'[u] = "asked", NEW k \in Batch[u]
                 PROVE  \E v \in Volumes :
                          /\ prefer'[u][v] > 0
                          /\ \/ LiveRow(v, k)'
                             \/ \E q \in missing'[u] : q[2] = v /\ <<q, k>> \in rows'
      BY DEF Planned
    <3>1. CASE u = t
      <4>1. PICK v \in Volumes :
              /\ prefer'[t][v] > 0
              /\ LiveRow(v, k) \/ \E q \in missing'[t] : q[2] = v /\ <<q, k>> \in rows
        BY <1>3, <1>4, <3>1, AskPlans
      <4>2. LiveRow(v, k) => LiveRow(v, k)' BY <2>1 DEF LiveRow
      <4> QED BY <2>1, <3>1, <4>1, <4>2
    <3>2. CASE u # t
      <4>1. PICK v \in Volumes :
              /\ prefer[u][v] > 0
              /\ LiveRow(v, k) \/ \E q \in missing[u] : q[2] = v /\ <<q, k>> \in rows
        BY <1>3, <2>1, <3>2 DEF Planned
      <4>2. LiveRow(v, k) => LiveRow(v, k)' BY <2>1 DEF LiveRow
      <4> QED BY <2>1, <3>2, <4>1, <4>2
    <3> QED BY <3>1, <3>2
  <2>6. Followed' BY <1>3, <2>1 DEF Followed
  <2> QED BY <2>4, <2>5, <2>6
<1>5. ASSUME NEW t \in Reads, Locate(t) PROVE Kept' /\ Planned' /\ Followed'
  <2>1. /\ located'[t] \subseteq resident /\ \A pair \in located'[t] : prefer[t][pair[2]] > 0
    BY <1>0, <1>3, <1>5, LocateFollows
  <2>2. /\ pc' = [pc EXCEPT ![t] = "located"]
        /\ UNCHANGED <<rows, prefer, missing, resident, dropping>>
        /\ \A u \in Reads \ {t} : located'[u] = located[u]
    BY <1>0, <1>5 DEF Locate, Transition, planVars, storeVars, TypeOK
  <2> QED BY <1>0, <1>3, <2>1, <2>2, CalmStep
<1>6. ASSUME NEW t \in Reads, LocateMiss(t) PROVE FALSE
  <2>1. PICK k \in Batch[t] : Live(k) = {} BY <1>6 DEF LocateMiss
  <2>2. k \in Keys /\ Origins \subseteq Volumes BY ConstantsAssumption
  <2>3. PICK o \in Origins : TRUE BY DEF SourceOutside
  <2>4. o \in Live(k) BY <1>3, <2>2 DEF Kept, LiveRow, Live, Serves
  <2> QED BY <2>1, <2>4
<1>7. ASSUME NEW t \in Reads, Fetch(t) PROVE Kept' /\ Planned' /\ Followed'
  <2>1. /\ pc[t] = "located" /\ pc' = [pc EXCEPT ![t] = "fetched"]
        /\ UNCHANGED <<rows, prefer, missing, resident, dropping, located>>
    BY <1>7 DEF Fetch, Transition, planVars, storeVars
  <2>2. \A pair \in located'[t] : prefer[t][pair[2]] > 0 BY <1>3, <2>1 DEF Followed
  <2> QED BY <1>0, <1>3, <2>1, <2>2, CalmStep
<1>8. ASSUME NEW t \in Reads, FetchMiss(t) \/ Retry(t) PROVE FALSE
  BY <1>3, <1>8 DEF FetchMiss, Retry, Transition, Kept
<1>9. ASSUME NEW t \in Reads, PutRefused(t) PROVE Kept' /\ Planned' /\ Followed'
  <2>1. /\ pc' = [pc EXCEPT ![t] = "failed"]
        /\ UNCHANGED <<rows, prefer, missing, resident, dropping, located>>
    BY <1>9 DEF PutRefused, Transition, planVars, storeVars
  <2> QED BY <1>0, <1>3, <2>1, CalmStep
<1>10. ASSUME NEW t \in Reads, Store(t) PROVE Kept' /\ Planned' /\ Followed'
  <2>1. /\ pc[t] = "fetched" /\ \A u \in Reads : pc'[u] = IF u = t THEN "stored" ELSE pc[u]
        /\ resident' = resident \union Mine(t)
        /\ UNCHANGED <<rows, prefer, missing, dropping, located>>
    BY <1>0, <1>10 DEF Store, Transition, planVars, TypeOK
  <2>2. \A v, k : LiveRow(v, k)' <=> LiveRow(v, k) BY <2>1 DEF LiveRow
  <2>3. Kept'
    <3>1. ASSUME NEW u \in Reads
          PROVE  /\ pc'[u] # "missed"
                 /\ pc'[u] = "stored" => Mine(u) \subseteq resident'
                 /\ pc'[u] = "located" => located'[u] \subseteq resident'
                 /\ pc'[u] = "registered" => \A k \in Batch[u] : LiveRow(Requester[u], k)'
      BY <1>3, <2>1, <2>2 DEF Kept
    <3> QED BY <1>3, <2>1, <2>2, <3>1 DEF Kept, Mine
  <2>4. Planned' BY <1>3, <2>1, <2>2 DEF Planned, LiveRow
  <2>5. Followed' BY <1>3, <2>1 DEF Followed
  <2> QED BY <2>3, <2>4, <2>5
<1>11. ASSUME NEW t \in Reads, Register(t) PROVE Kept' /\ Planned' /\ Followed'
  <2>1. /\ pc[t] = "stored" /\ \A u \in Reads : pc'[u] = IF u = t THEN "registered" ELSE pc[u]
        /\ rows' = rows \union { <<<<0, Requester[t]>>, k>> : k \in Batch[t] }
        /\ UNCHANGED <<prefer, missing, dropping, located, resident>>
    BY <1>0, <1>11 DEF Register, Transition, planVars, storeVars, TypeOK
  <2>2. \A v, k : LiveRow(v, k) => LiveRow(v, k)' BY <2>1 DEF LiveRow
  <2>3. \A k \in Batch[t] : LiveRow(Requester[t], k)' BY <2>1 DEF LiveRow
  <2>4. \A v \in Volumes, k \in Keys : LiveRow(v, k)' => <<k, v>> \in resident
    <3> SUFFICES ASSUME NEW v \in Volumes, NEW k \in Keys, LiveRow(v, k)', ~LiveRow(v, k)
                 PROVE  <<k, v>> \in resident
      BY <1>3 DEF Kept
    <3>1. k \in Batch[t] /\ v = Requester[t] BY <2>1 DEF LiveRow
    <3> QED BY <1>3, <2>1, <3>1 DEF Kept, Mine
  <2>5. Kept'
    <3>1. ASSUME NEW u \in Reads
          PROVE  /\ pc'[u] # "missed"
                 /\ pc'[u] = "stored" => Mine(u) \subseteq resident'
                 /\ pc'[u] = "located" => located'[u] \subseteq resident'
                 /\ pc'[u] = "registered" => \A k \in Batch[u] : LiveRow(Requester[u], k)'
      BY <1>3, <2>1, <2>2, <2>3 DEF Kept
    <3> QED BY <1>3, <2>1, <2>2, <2>4, <3>1 DEF Kept, Mine
  <2>6. Planned'
    <3> SUFFICES ASSUME NEW u \in Reads, pc'[u] = "asked", NEW k \in Batch[u]
                 PROVE  \E v \in Volumes :
                          /\ prefer'[u][v] > 0
                          /\ \/ LiveRow(v, k)'
                             \/ \E q \in missing'[u] : q[2] = v /\ <<q, k>> \in rows'
      BY DEF Planned
    <3>1. pc[u] = "asked" BY <2>1
    <3> QED BY <1>3, <2>1, <2>2, <3>1 DEF Planned
  <2>7. Followed' BY <1>3, <2>1 DEF Followed
  <2> QED BY <2>5, <2>6, <2>7
<1>12. ASSUME NEW t \in Reads, Publish(t) PROVE Kept' /\ Planned' /\ Followed'
  <2> DEFINE p == pub[t]
  <2>1. /\ pc[t] = "registered" /\ \A u \in Reads : pc'[u] = IF u = t THEN "done" ELSE pc[u]
        /\ rows' = { row \in rows : row[1][1] # p[1] }
        /\ missing' = [u \in Reads |-> missing[u] \ {p}]
        /\ UNCHANGED <<prefer, dropping, located, resident>>
    BY <1>0, <1>12 DEF Publish, Transition, DispatchPublished, FoldDirectoryPublished,
                       planVars, storeVars, TypeOK
  <2>2. p[2] = Requester[t] /\ p[1] # 0 BY <2>1 DEF PubsOwn
  <2>3. \A q \in inFlight : q # p => q[1] # p[1] BY <1>0 DEF Pending, IdsDeclared
  <2>4. \A row \in rows : row[1] = p => row[2] \in Batch[t]
    BY <2>2 DEF PubsOwn
  <2> HIDE DEF p
  <2>5. \A v, k : LiveRow(v, k)' <=> LiveRow(v, k) BY <2>1, <2>2 DEF LiveRow
  <2>6. Kept'
    <3>1. ASSUME NEW u \in Reads
          PROVE  /\ pc'[u] # "missed"
                 /\ pc'[u] = "stored" => Mine(u) \subseteq resident'
                 /\ pc'[u] = "located" => located'[u] \subseteq resident'
                 /\ pc'[u] = "registered" => \A k \in Batch[u] : LiveRow(Requester[u], k)'
      BY <1>3, <2>1, <2>5 DEF Kept
    <3> QED BY <1>3, <2>1, <2>5, <3>1 DEF Kept, Mine
  <2>7. Planned'
    <3> SUFFICES ASSUME NEW u \in Reads, pc'[u] = "asked", NEW k \in Batch[u]
                 PROVE  \E v \in Volumes :
                          /\ prefer'[u][v] > 0
                          /\ \/ LiveRow(v, k)'
                             \/ \E q \in missing'[u] : q[2] = v /\ <<q, k>> \in rows'
      BY DEF Planned
    <3>1. pc[u] = "asked" BY <2>1
    <3>2. PICK v \in Volumes :
            /\ prefer[u][v] > 0
            /\ LiveRow(v, k) \/ \E q \in missing[u] : q[2] = v /\ <<q, k>> \in rows
      BY <1>3, <3>1 DEF Planned
    <3>3. CASE LiveRow(v, k) BY <2>1, <2>5, <3>2, <3>3
    <3>4. CASE ~LiveRow(v, k)
      <4>1. PICK q \in missing[u] : q[2] = v /\ <<q, k>> \in rows BY <3>2, <3>4
      <4>2. q # p
        <5> SUFFICES ASSUME q = p PROVE FALSE
          OBVIOUS
        <5>1. k \in Batch[t] BY <2>4, <4>1
        <5>2. LiveRow(Requester[t], k) BY <1>3, <2>1, <5>1 DEF Kept
        <5> QED BY <2>2, <3>4, <4>1, <5>2
      <4>3. q \in inFlight BY <1>0 DEF Waits, MissingInFlight
      <4>4. q \in missing'[u] /\ <<q, k>> \in rows' BY <2>1, <2>3, <4>1, <4>2, <4>3
      <4> QED BY <2>1, <3>2, <4>1, <4>4
    <3> QED BY <3>3, <3>4
  <2>8. Followed' BY <1>3, <2>1 DEF Followed
  <2> QED BY <2>6, <2>7, <2>8
<1>13. ASSUME NEW k \in Keys, NEW v \in Volumes, Deregister(k, v) PROVE FALSE
  BY <1>3, <1>13 DEF Deregister, Kept
<1>14. CASE UNCHANGED vars
  BY <1>3, <1>14 DEF vars, planVars, storeVars, Kept, Planned, Followed, LiveRow, Mine
<1> QED
  BY <1>1, <1>4, <1>5, <1>6, <1>7, <1>8, <1>9, <1>10, <1>11, <1>12, <1>13, <1>14
     DEF Next, Step, Finished

(* The calm holds of every run.                                            *)
LEMMA CalmInvariance ==
  ASSUME SourceOutside
  PROVE  Spec => []Calm
<1>1. Init => Calm
  <2> SUFFICES ASSUME Init PROVE Kept /\ Planned /\ Followed
    BY DEF Calm
  <2>1. \A v \in Volumes, k \in Keys : LiveRow(v, k) => v \in Origins BY DEF Init, LiveRow
  <2>2. \A v \in Origins, k \in Keys : LiveRow(v, k) BY DEF Init, LiveRow
  <2>3. dropping = {} /\ resident = Keys \X Origins /\ \A t \in Reads : pc[t] = "idle"
    BY DEF Init
  <2>4. Kept BY <2>1, <2>2, <2>3 DEF Kept
  <2>5. Planned /\ Followed BY <2>3 DEF Planned, Followed
  <2> QED BY <2>4, <2>5
<1>2. IInv /\ Arrivals /\ PubsOwn /\ Calm /\ [Next]_vars => Calm' BY CalmNext
<1> QED BY <1>1, <1>2, Invariance, ArrivalsInvariance, PubsOwnInvariance, PTL DEF Spec

(* While nothing is evicted a reader released by its gate finds the rows    *)
(* its plan was made for: get_batch never falls back to a volume the plan   *)
(* did not name, so long as every reader has an origin other than itself.   *)
THEOREM NamedSourcesRead ==
  ASSUME SourceOutside
  PROVE  Spec => [](evictions = 0 => NamedSources)
<1>1. Calm => (evictions = 0 => NamedSources) BY DEF Calm, Followed, NamedSources
<1> QED BY <1>1, CalmInvariance, PTL

-----------------------------------------------------------------------------
(***************************************************************************)
(* The fabric is crossed once.  In a burst, where every reader reads once  *)
(* and nothing is evicted, the latest reader of a key to have asked has    *)
(* nobody behind it: it is offered, whatever the cap.  Where a hop from an *)
(* origin costs more than a chain through every reader, that offer comes   *)
(* before each origin, and so does whatever the ranking puts first.        *)
(***************************************************************************)

(* A reader reads once, and is no origin; two reads want the same keys or   *)
(* have none in common.                                                     *)
OneBurst ==
  /\ FanoutCap > 0 /\ Origins # {}
  /\ \A t \in Reads : Requester[t] \notin Origins
  /\ \A t, u \in Reads : Requester[t] = Requester[u] => t = u
  /\ \A t, u \in Reads : Batch[t] = Batch[u] \/ Batch[t] \intersect Batch[u] = {}

(* Peers are near one another, origins between far and deep away; and the   *)
(* fabric's weight makes a hop from an origin dearer than waiting for a     *)
(* chain of all the readers.                                                *)
DearFabric(near, far, deep) ==
  /\ \A t, u \in Reads : t # u => Hop[Requester[t]][Requester[u]] <= near
  /\ \A o \in Origins, t \in Reads :
       far <= Hop[o][Requester[t]] /\ Hop[o][Requester[t]] <= deep
  /\ deep + Cardinality(Reads) * near + Fabric * near < far + Fabric * far

Asked == { t \in Reads : pc[t] # "idle" }

(* A row is an origin's, or of a reader that wants its key.                 *)
RowsSourced ==
  \A row \in rows :
    \/ row[1][1] = 0 /\ row[1][2] \in Origins
    \/ \E u \in Asked : Requester[u] = row[1][2] /\ row[2] \in Batch[u]

(* An id for each ask, in their order.                                      *)
AsksCounted ==
  /\ nextPub = Cardinality(Asked)
  /\ \A t, u \in Asked : pub[t][1] = pub[u][1] => t = u

(* Who asked has its keys, or has declared them and not yet published.      *)
Offers(u) ==
  \/ \A k \in Batch[u] : LiveRow(Requester[u], k)
  \/ pub[u] \in inFlight /\ \A k \in Batch[u] : <<pub[u], k>> \in rows

(* Who is behind a reader asked for the same keys later.                    *)
BehindLater ==
  \A r \in Volumes : \A v \in assigned[r] :
    v \in Origins \/ \E t, u \in Asked : /\ Requester[t] = v /\ Requester[u] = r
                                         /\ Batch[t] = Batch[u] /\ pub[t][1] < pub[u][1]

(* A pending copy arrives after a chain of those declared before it.        *)
ArrivesBy(near, deep) == \A q \in DOMAIN arrival : arrival[q] <= deep + q[1] * near

(* Only the first to ask for a key has an origin in its plan.               *)
FirstCrosses ==
  \A t, u \in Asked : Batch[t] \intersect Batch[u] # {} /\ pub[u][1] < pub[t][1] =>
    \A o \in Origins : prefer[t][o] = 0

LocatedOwn == \A t \in Reads : \A pair \in located[t] : pair[1] \in Batch[t]

Chained(near, deep) ==
  /\ RowsSourced /\ AsksCounted /\ \A u \in Asked : Offers(u)
  /\ BehindLater /\ ArrivesBy(near, deep) /\ FirstCrosses /\ LocatedOwn

(* Products of naturals grow with a factor.                                 *)
LEMMA Scaled ==
  ASSUME NEW a \in Nat, NEW b \in Nat, NEW n \in Nat, a <= b
  PROVE  a * n \in Nat /\ b * n \in Nat /\ a * n <= b * n
<1>1. PICK d \in Nat : b = a + d
  <2>1. b - a \in Nat /\ b = a + (b - a)
    OBVIOUS
  <2> QED BY <2>1
<1>2. b * n = a * n + d * n
  BY <1>1
<1>3. \A x, y \in Nat : x * y \in Nat
  OBVIOUS
<1>4. a * n \in Nat /\ b * n \in Nat /\ d * n \in Nat
  BY <1>3
<1> QED BY <1>2, <1>4

(* Of the reads that asked, one of a kind asked last.                       *)
LEMMA LastAsked ==
  ASSUME IInv, NEW S \in SUBSET Asked, S # {}
  PROVE  \E u \in S : \A t \in S : pub[t][1] <= pub[u][1]
<1> DEFINE N == { pub[t][1] : t \in S }
<1>1. TypeOK /\ Pending
  BY DEF IInv
<1>2. S \subseteq Reads /\ IsFiniteSet(S)
  BY FS_Subset, ConstantsAssumption DEF Asked
<1>3. N \in SUBSET Nat /\ N # {}
  BY <1>1, <1>2 DEF TypeOK, Publications
<1>4. IsFiniteSet(N)
  <2> DEFINE f == [t \in S |-> pub[t][1]]
  <2>1. f \in Surjection(S, N)
    BY Fun_IsSurj
  <2> HIDE DEF f, N
  <2> QED BY <1>2, <2>1, FS_Surjection
<1>5. PICK m \in N : \A n \in N : n <= m
  <2> HIDE DEF N
  <2> QED BY <1>3, <1>4, Greatest
<1>6. PICK u \in S : pub[u][1] = m
  OBVIOUS
<1> QED BY <1>5, <1>6

(* The last to have asked for a key has nobody behind it.                   *)
LEMMA NobodyBehind ==
  ASSUME OneBurst, IInv, BehindLater, NEW k \in Keys, NEW u \in Asked, k \in Batch[u],
         \A t \in Asked : k \in Batch[t] => pub[t][1] <= pub[u][1]
  PROVE  behind[Requester[u]] = 0
<1> DEFINE v == Requester[u]
           R == { r \in Volumes : v \in assigned[r] }
<1>1. u \in Reads /\ v \in Volumes /\ v \notin Origins /\ TypeOK
  BY ConstantsAssumption DEF Asked, OneBurst, IInv
<1>2. ASSUME NEW r \in R PROVE FALSE
  <2>1. PICK t, w \in Asked : /\ Requester[t] = v /\ Requester[w] = r
                              /\ Batch[t] = Batch[w] /\ pub[t][1] < pub[w][1]
    BY <1>1, <1>2 DEF BehindLater
  <2>2. t = u
    BY <1>1, <2>1 DEF OneBurst, Asked
  <2>3. pub[w][1] <= pub[u][1]
    BY <2>1, <2>2
  <2>4. pub[w][1] \in Nat /\ pub[u][1] \in Nat
    BY <1>1 DEF TypeOK, Publications, Asked
  <2> QED BY <2>1, <2>2, <2>3, <2>4
<1>3. R = {}
  BY <1>2
<1>4. behind[v] = Cardinality(R)
  BY <1>1 DEF IInv, Books, BehindExact
<1> HIDE DEF R
<1> QED BY <1>3, <1>4, FS_EmptySet

(* The candidates of an ask.                                                *)
Ranked(t) == Candidates(ServingUnion(Batch[t], Declared(t)), Requester[t])

(* A later reader of a key is offered a peer, before every origin.          *)
LEMMA PeerFirst ==
  ASSUME NEW near \in Nat, NEW far \in Nat, NEW deep \in Nat, OneBurst, DearFabric(near, far, deep),
         IInv, Arrivals, PubsOwn, Chained(near, deep),
         NEW t \in Reads, pc[t] = "idle", nextPub < Cardinality(Reads),
         NEW u \in Asked, Batch[t] \intersect Batch[u] # {}
  PROVE  \E c \in Ranked(t) :
           /\ \A k \in Batch[t] : Serves(c, k, Declared(t))
           /\ \A q \in Ranked(t) : q[2] \in Origins =>
                c # q /\ RanksBefore(c, q, Requester[t]) /\ ~RanksBefore(q, c, Requester[t])
<1> DEFINE r == Requester[t]
<1>1. TypeOK /\ Pending
  BY DEF IInv
<1>2. /\ r \in Volumes /\ nextPub \in Nat /\ Fabric \in Nat /\ Cardinality(Reads) \in Nat
      /\ \A a, b \in Volumes : Hop[a][b] \in Nat
  BY <1>1, FS_CardinalityType, ConstantsAssumption DEF TypeOK
<1>3. PICK k \in Batch[t] : k \in Batch[u]
  OBVIOUS
<1>4. k \in Keys
  BY ConstantsAssumption
<1> DEFINE S == { w \in Asked : k \in Batch[w] }
<1>5. PICK w \in S : \A x \in S : pub[x][1] <= pub[w][1]
  <2>1. S \in SUBSET Asked /\ S # {}
    BY <1>3
  <2> HIDE DEF S
  <2> QED BY <2>1, LastAsked
<1>6. behind[Requester[w]] = 0
  BY <1>4, <1>5, NobodyBehind DEF Chained
<1>7. /\ w \in Reads /\ w # t /\ Batch[w] = Batch[t] /\ Requester[w] \in Volumes
      /\ Requester[w] # r /\ Requester[w] \notin Origins
  BY <1>3, <1>5, ConstantsAssumption DEF Asked, OneBurst
<1> DEFINE v == Requester[w]
           live == \A j \in Batch[w] : LiveRow(v, j)
           c == IF live THEN <<0, v>> ELSE pub[w]
<1>8. Offers(w)
  BY <1>5 DEF Chained
<1>9. /\ c[2] = v /\ c[1] \in Nat /\ c[1] <= nextPub
      /\ c[1] # 0 => c \in DOMAIN arrival
      /\ \A j \in Batch[t] : <<c, j>> \in rows
  <2>1. CASE live
    BY <1>2, <1>7, <2>1 DEF LiveRow
  <2>2. CASE ~live
    <3>1. pub[w] \in inFlight /\ (\A j \in Batch[w] : <<pub[w], j>> \in rows) /\ c = pub[w]
      BY <1>8, <2>2 DEF Offers
    <3>2. pub[w][1] \in 1 .. nextPub /\ pub[w] \in DOMAIN arrival
      BY <1>1, <3>1 DEF Pending, PendingAgree, IdsDeclared
    <3>3. pub[w][2] = v
      BY <1>7 DEF PubsOwn
    <3> QED BY <1>2, <1>7, <3>1, <3>2, <3>3
  <2> QED BY <2>1, <2>2
<1> HIDE DEF c, S
<1>10. Wait(c) \in Nat /\ Wait(c) <= deep + nextPub * near
  <2>1. c[1] * near \in Nat /\ nextPub * near \in Nat /\ c[1] * near <= nextPub * near
    BY <1>2, <1>9, Scaled
  <2>2. CASE c[1] = 0
    BY <2>1, <2>2 DEF Wait
  <2>3. CASE c[1] # 0
    <3>1. arrival[c] \in Nat /\ arrival[c] <= deep + c[1] * near /\ Wait(c) = arrival[c]
      BY <1>9, <2>3 DEF Wait, Arrivals, Chained, ArrivesBy
    <3> QED BY <2>1, <3>1
  <2> QED BY <2>2, <2>3
<1>11. c \in Ranked(t) /\ \A j \in Batch[t] : Serves(c, j, Declared(t))
  <2>1. \A j \in Batch[t] : <<c, j>> \in Declared(t)
    BY <1>9 DEF Declared
  <2>2. c \in ServingUnion(Batch[t], Declared(t))
    <3>1. <<c, k>> \in { row \in Declared(t) : row[2] \in Batch[t] }
      BY <2>1
    <3>2. <<c, k>>[1] = c
      OBVIOUS
    <3> QED BY <3>1, <3>2, Zenon DEF ServingUnion
  <2>3. c[1] # 0 => behind[c[2]] < FanoutCap /\ c \in DOMAIN arrival
    BY <1>6, <1>9 DEF OneBurst
  <2> QED BY <1>7, <1>9, <2>1, <2>2, <2>3 DEF Ranked, Candidates, Serves
<1>12. Score(c, r) \in Nat /\ Score(c, r) < far + Fabric * far
  <2> DEFINE hop == Hop[v][r]
             x == nextPub * near
             y == Cardinality(Reads) * near
             z == Fabric * near
             e == Fabric * hop
  <2>1. hop \in Nat /\ hop <= near
    BY <1>2, <1>7 DEF DearFabric
  <2>2. e \in Nat /\ z \in Nat /\ e <= z
    <3>1. hop * Fabric \in Nat /\ near * Fabric \in Nat /\ hop * Fabric <= near * Fabric
      BY <1>2, <2>1, Scaled
    <3>2. hop * Fabric = Fabric * hop /\ near * Fabric = Fabric * near
      BY <1>2, <2>1
    <3> QED BY <3>1, <3>2
  <2>3. x + near <= y /\ x \in Nat /\ y \in Nat
    <3>1. (nextPub + 1) * near <= y /\ (nextPub + 1) * near \in Nat /\ y \in Nat
      <4>1. nextPub + 1 \in Nat /\ nextPub + 1 <= Cardinality(Reads)
        BY <1>2
      <4> QED BY <1>2, <4>1, Scaled
    <3>2. (nextPub + 1) * near = x + near
      BY <1>2
    <3>3. x \in Nat
      BY <1>2, Scaled
    <3> QED BY <3>1, <3>2, <3>3
  <2>4. Score(c, r) = Wait(c) + hop + e
    BY <1>9 DEF Score
  <2>5. deep + y + z < far + Fabric * far
    BY DEF DearFabric
  <2>6. Fabric * far \in Nat
    BY <1>2, Scaled
  <2> HIDE DEF hop, x, y, z, e
  <2>7. Wait(c) + hop + e <= deep + y + z
    BY <1>10, <2>1, <2>2, <2>3 DEF x
  <2>8. Wait(c) + hop + e \in Nat /\ deep + y + z \in Nat
    BY <1>10, <2>1, <2>2, <2>3
  <2> QED BY <2>4, <2>5, <2>6, <2>7, <2>8
<1>13. ASSUME NEW q \in Ranked(t), q[2] \in Origins
       PROVE  c # q /\ RanksBefore(c, q, r) /\ ~RanksBefore(q, c, r)
  <2>1. q \in Publications
    <3>1. Declared(t) \in SUBSET (Publications \X Keys)
      BY PlanShape
    <3>2. ServingUnion(Batch[t], Declared(t)) \subseteq Publications
      BY <3>1 DEF ServingUnion
    <3> QED BY <3>2 DEF Ranked, Candidates
  <2>2. q[1] \in Nat /\ q[2] \in Volumes
    BY <2>1 DEF Publications
  <2>3. Wait(q) \in Nat
    BY <2>2 DEF Wait, Arrivals, Ranked, Candidates
  <2> DEFINE hop == Hop[q[2]][r]
  <2>4. hop \in Nat /\ far <= hop
    BY <1>2, <1>13, <2>2 DEF DearFabric
  <2>5. Fabric * far \in Nat /\ Fabric * hop \in Nat /\ Fabric * far <= Fabric * hop
    <3>1. far * Fabric \in Nat /\ hop * Fabric \in Nat /\ far * Fabric <= hop * Fabric
      BY <1>2, <2>4, Scaled
    <3>2. hop * Fabric = Fabric * hop /\ far * Fabric = Fabric * far
      BY <1>2, <2>4
    <3> QED BY <3>1, <3>2
  <2>6. Score(q, r) = Wait(q) + hop + Fabric * hop
    BY DEF Score
  <2>7. Score(q, r) \in Nat /\ Score(c, r) < Score(q, r)
    BY <1>12, <2>3, <2>4, <2>5, <2>6
  <2> DEFINE sc == Score(c, r)
             sq == Score(q, r)
             b == behind[q[2]]
  <2>8. b \in Nat
    BY <1>1, <2>2 DEF TypeOK
  <2>9. sc * (1 + behind[c[2]]) = sc
    BY <1>6, <1>9, <1>12
  <2>10. sq * (1 + b) \in Nat /\ sq <= sq * (1 + b)
    <3>1. 1 * sq \in Nat /\ (1 + b) * sq \in Nat /\ 1 * sq <= (1 + b) * sq
      <4>1. 1 \in Nat /\ 1 + b \in Nat /\ 1 <= 1 + b
        BY <2>8
      <4> QED BY <2>7, <4>1, Scaled
    <3>2. (1 + b) * sq = sq * (1 + b) /\ 1 * sq = sq
      BY <2>7, <2>8
    <3> QED BY <3>1, <3>2
  <2> DEFINE lc == IF Spread THEN sc * (1 + behind[c[2]]) ELSE sc
             lq == IF Spread THEN sq * (1 + b) ELSE sq
             nc == IF Spread THEN 0 ELSE behind[c[2]]
             nq == IF Spread THEN 0 ELSE b
  <2>11. lc \in Nat /\ lq \in Nat /\ lc < lq
    BY <1>12, <2>7, <2>9, <2>10
  <2>12. RanksBefore(c, q, r) <=>
           \/ lc < lq
           \/ lc = lq /\ nc < nq
           \/ lc = lq /\ nc = nq /\ c[1] < q[1]
           \/ lc = lq /\ nc = nq /\ c[1] = q[1] /\ c[2] < q[2]
    BY DEF RanksBefore
  <2>13. RanksBefore(q, c, r) <=>
           \/ lq < lc
           \/ lq = lc /\ nq < nc
           \/ lq = lc /\ nq = nc /\ q[1] < c[1]
           \/ lq = lc /\ nq = nc /\ q[1] = c[1] /\ q[2] < c[2]
    BY DEF RanksBefore
  <2> HIDE DEF lc, lq, nc, nq
  <2>14. c # q
    BY <1>7, <1>9, <1>13
  <2> QED BY <2>11, <2>12, <2>13, <2>14
<1> QED BY <1>11, <1>13

(* So who asks for a key after another plans to read it from no origin.     *)
LEMMA PlanAvoids ==
  ASSUME NEW near \in Nat, NEW far \in Nat, NEW deep \in Nat, OneBurst, DearFabric(near, far, deep),
         IInv, Arrivals, PubsOwn, Chained(near, deep),
         NEW t \in Reads, pc[t] = "idle", nextPub < Cardinality(Reads),
         NEW u \in Asked, Batch[t] \intersect Batch[u] # {},
         NEW o \in Origins
  PROVE  Preference(Chosen(t), Requester[t])[o] = 0
<1>1. PICK c \in Ranked(t) :
        /\ \A k \in Batch[t] : Serves(c, k, Declared(t))
        /\ \A q \in Ranked(t) : q[2] \in Origins => c # q /\ ~RanksBefore(q, c, Requester[t])
  BY PeerFirst
<1>2. ASSUME NEW q \in Chosen(t), q[2] = o PROVE FALSE
  <2>1. PICK k \in Batch[t] :
          q \in First({ p \in Ranked(t) : Serves(p, k, Declared(t)) }, Requester[t])
    BY <1>2 DEF Chosen, GreedyCover, Ranked
  <2>2. c \in { p \in Ranked(t) : Serves(p, k, Declared(t)) } /\ q \in Ranked(t)
    BY <1>1, <2>1 DEF First
  <2>3. c # q /\ ~RanksBefore(q, c, Requester[t])
    BY <1>1, <1>2, <2>2
  <2> QED BY <2>1, <2>2, <2>3 DEF First
<1>3. o \in Volumes
  BY ConstantsAssumption
<1> QED BY <1>2, <1>3 DEF Preference

(* The sources of a plan are origins, or readers of the same keys that      *)
(* asked before.                                                            *)
LEMMA PlanPeers ==
  ASSUME OneBurst, IInv, RowsSourced, NEW t \in Reads, pc[t] = "idle", NEW q \in Chosen(t)
  PROVE  \/ q[1] = 0 /\ q[2] \in Origins
         \/ \E u \in Asked : Requester[u] = q[2] /\ Batch[u] = Batch[t] /\ u # t
<1>1. PICK k \in Batch[t] : q \in Ranked(t) /\ <<q, k>> \in Declared(t)
  BY DEF Chosen, GreedyCover, First, Ranked, Serves
<1>2. q[2] # Requester[t]
  BY <1>1 DEF Ranked, Candidates
<1>3. <<q, k>> \in rows
  BY <1>1, <1>2 DEF Declared
<1>4. CASE q[1] = 0 /\ q[2] \in Origins
  BY <1>4
<1>5. CASE \E u \in Asked : Requester[u] = q[2] /\ k \in Batch[u]
  <2>1. PICK u \in Asked : Requester[u] = q[2] /\ k \in Batch[u]
    BY <1>5
  <2>2. u \in Reads /\ u # t
    BY <2>1 DEF Asked
  <2>3. Batch[u] = Batch[t]
    BY <2>1, <2>2 DEF OneBurst
  <2> QED BY <2>1, <2>2, <2>3
<1>6. \/ q[1] = 0 /\ q[2] \in Origins
      \/ \E u \in Asked : Requester[u] = q[2] /\ k \in Batch[u]
  <2> DEFINE row == <<q, k>>
  <2>1. row \in rows /\ row[1] = q /\ row[2] = k
    BY <1>3
  <2> HIDE DEF row
  <2> QED BY <2>1 DEF RowsSourced
<1> QED BY <1>4, <1>5, <1>6

(* The instant a plan completes is within the chain.                        *)
LEMMA PlanArrives ==
  ASSUME NEW near \in Nat, NEW far \in Nat, NEW deep \in Nat, OneBurst, DearFabric(near, far, deep),
         IInv, Arrivals, RowsSourced, ArrivesBy(near, deep), NEW t \in Reads, pc[t] = "idle"
  PROVE  ArrivalOf(ReadTimes(Chosen(t), Requester[t])) <= deep + (nextPub + 1) * near
<1> DEFINE r == Requester[t]
           y == (nextPub + 1) * near
<1>1. TypeOK /\ Pending
  BY DEF IInv
<1>2. /\ r \in Volumes /\ nextPub \in Nat /\ \A a, b \in Volumes : Hop[a][b] \in Nat
      /\ y \in Nat /\ y = nextPub * near + near /\ nextPub * near \in Nat
  <2>1. /\ r \in Volumes /\ nextPub \in Nat /\ \A a, b \in Volumes : Hop[a][b] \in Nat
    BY <1>1, ConstantsAssumption DEF TypeOK
  <2>2. nextPub * near \in Nat
    BY <2>1, Scaled
  <2>3. y = nextPub * near + near
    BY <2>1
  <2> QED BY <2>1, <2>2, <2>3
<1>3. ASSUME NEW q \in Chosen(t) PROVE Wait(q) + Hop[q[2]][r] <= deep + y
  <2>1. q \in Publications /\ q[1] <= nextPub /\ (q[1] # 0 => q \in DOMAIN arrival)
    BY PlanShape
  <2>2. q[1] \in Nat /\ q[2] \in Volumes /\ Hop[q[2]][r] \in Nat
    BY <1>2, <2>1 DEF Publications
  <2>3. CASE q[1] = 0 /\ q[2] \in Origins
    <3>1. Wait(q) = 0 /\ Hop[q[2]][r] <= deep
      BY <2>3 DEF Wait, DearFabric
    <3> QED BY <1>2, <2>2, <3>1
  <2>4. CASE \E u \in Asked : Requester[u] = q[2] /\ Batch[u] = Batch[t] /\ u # t
    <3>1. Hop[q[2]][r] <= near
      BY <2>4 DEF DearFabric, Asked
    <3>2. Wait(q) \in Nat /\ Wait(q) <= deep + nextPub * near
      <4>1. CASE q[1] = 0
        BY <1>2, <4>1 DEF Wait
      <4>2. CASE q[1] # 0
        <5>1. arrival[q] \in Nat /\ arrival[q] <= deep + q[1] * near /\ Wait(q) = arrival[q]
          BY <2>1, <4>2 DEF Wait, Arrivals, ArrivesBy
        <5>2. q[1] * near \in Nat /\ q[1] * near <= nextPub * near
          BY <1>2, <2>1, <2>2, Scaled
        <5> QED BY <1>2, <5>1, <5>2
      <4> QED BY <4>1, <4>2
    <3> QED BY <1>2, <2>2, <3>1, <3>2
  <2> QED BY <2>3, <2>4, PlanPeers
<1> DEFINE at == ArrivalOf(ReadTimes(Chosen(t), r))
<1>4. at = 0 \/ at \in ReadTimes(Chosen(t), r)
  BY <1>1, <1>2, PlanShape, ArrivalType
<1>5. CASE at = 0
  BY <1>2, <1>5
<1>6. CASE at \in ReadTimes(Chosen(t), r)
  <2>1. PICK q \in Chosen(t) : at = Wait(q) + Hop[q[2]][r]
    BY <1>6 DEF ReadTimes
  <2> QED BY <1>3, <2>1
<1> HIDE DEF at, y
<1> QED BY <1>4, <1>5, <1>6 DEF at, y

(* Steps of a read that has asked leave the chain as it is.                 *)
LEMMA ChainStays ==
  ASSUME NEW near, NEW deep, Chained(near, deep), Asked' = Asked,
         UNCHANGED <<nextPub, inFlight, arrival, assigned, pub, prefer>>,
         rows \subseteq rows', LocatedOwn',
         \A row \in rows' \ rows : \E u \in Asked : Requester[u] = row[1][2] /\ row[2] \in Batch[u]
  PROVE  Chained(near, deep)'
<1>1. RowsSourced'
  BY DEF Chained, RowsSourced
<1>2. AsksCounted' /\ BehindLater' /\ ArrivesBy(near, deep)' /\ FirstCrosses'
  BY DEF Chained, AsksCounted, BehindLater, ArrivesBy, FirstCrosses
<1>3. ASSUME NEW u \in Asked PROVE Offers(u)'
  BY DEF Chained, Offers, LiveRow
<1> QED BY <1>1, <1>2, <1>3 DEF Chained

(* An ask adds a link to it.                                                *)
LEMMA AskChains ==
  ASSUME NEW near \in Nat, NEW far \in Nat, NEW deep \in Nat, OneBurst, DearFabric(near, far, deep),
         IInv, Arrivals, PubsOwn, Chained(near, deep), NEW t \in Reads, Ask(t)
  PROVE  Chained(near, deep)'
<1> DEFINE r == Requester[t]
           p == <<nextPub + 1, r>>
           at == ArrivalOf(ReadTimes(Chosen(t), r))
<1>1. TypeOK /\ Pending
  BY DEF IInv
<1>2. /\ r \in Volumes /\ nextPub \in Nat /\ nextPub' = nextPub + 1
      /\ inFlight' = inFlight \union {p}
  BY <1>1, ConstantsAssumption DEF TypeOK, Ask
<1>3. /\ pc[t] = "idle" /\ pc' = [pc EXCEPT ![t] = "asked"]
      /\ arrival' = [q \in DOMAIN arrival \union {p} |->
                       IF q \in DOMAIN arrival THEN arrival[q] ELSE at]
      /\ assigned' = [assigned EXCEPT ![r] = Heads(t)]
      /\ pub' = [pub EXCEPT ![t] = p]
      /\ prefer' = [prefer EXCEPT ![t] = Preference(Chosen(t), r)]
      /\ rows' = Declared(t) /\ located' = located
  BY AskShape DEF FoldRouted
<1>4. rows' = rows \union { <<p, k>> : k \in Batch[t] }
  BY <1>3 DEF Declared
<1>5. /\ p[1] = nextPub + 1 /\ p[2] = r
      /\ \A u \in Reads : pub'[u] = IF u = t THEN p ELSE pub[u]
      /\ \A u \in Reads \ {t} : prefer'[u] = prefer[u]
      /\ prefer'[t] = Preference(Chosen(t), r)
      /\ \A w \in Volumes : assigned'[w] = IF w = r THEN Heads(t) ELSE assigned[w]
  BY <1>1, <1>2, <1>3 DEF TypeOK
<1> HIDE DEF p
<1>6. Asked' = Asked \union {t} /\ t \notin Asked /\ Asked \subseteq Reads
  BY <1>1, <1>3 DEF Asked, TypeOK
<1>7. IsFiniteSet(Asked) /\ Cardinality(Asked') = Cardinality(Asked) + 1 /\ nextPub < Cardinality(Reads)
  <2>1. IsFiniteSet(Reads)
    BY ConstantsAssumption
  <2>2. IsFiniteSet(Asked)
    BY <1>6, <2>1, FS_Subset
  <2>3. Cardinality(Asked \union {t}) = Cardinality(Asked) + 1
    BY <1>6, <2>2, FS_AddElement
  <2>4. (Asked \union {t}) \in SUBSET Reads
    BY <1>6
  <2>5. Cardinality(Asked \union {t}) <= Cardinality(Reads)
    BY <2>1, <2>4, FS_Subset
  <2>6. Cardinality(Reads) \in Nat /\ Cardinality(Asked) \in Nat
    BY <2>1, <2>2, FS_CardinalityType
  <2>7. nextPub = Cardinality(Asked)
    BY DEF Chained, AsksCounted
  <2> QED BY <1>6, <2>2, <2>3, <2>5, <2>6, <2>7
<1>8. \A u \in Asked : pub[u][1] \in Nat /\ pub[u][1] <= nextPub /\ pub'[u] = pub[u] /\ u # t
  BY <1>1, <1>5, <1>6 DEF TypeOK, Publications, Pending, IdsDeclared
<1>9. RowsSourced'
  <2> SUFFICES ASSUME NEW row \in rows'
               PROVE  \/ row[1][1] = 0 /\ row[1][2] \in Origins
                      \/ \E u \in Asked' : Requester[u] = row[1][2] /\ row[2] \in Batch[u]
    BY DEF RowsSourced
  <2>1. CASE row \in rows
    BY <1>6, <2>1 DEF Chained, RowsSourced
  <2>2. CASE row \in { <<p, k>> : k \in Batch[t] }
    BY <1>5, <1>6, <2>2
  <2> QED BY <1>4, <2>1, <2>2
<1>10. AsksCounted'
  <2>1. nextPub' = Cardinality(Asked')
    BY <1>2, <1>7 DEF Chained, AsksCounted
  <2>2. ASSUME NEW u \in Asked', NEW w \in Asked', pub'[u][1] = pub'[w][1] PROVE u = w
    <3>1. CASE u = t /\ w # t
      BY <1>2, <1>5, <1>6, <1>8, <2>2, <3>1
    <3>2. CASE u # t /\ w = t
      BY <1>2, <1>5, <1>6, <1>8, <2>2, <3>2
    <3>3. CASE u # t /\ w # t
      BY <1>6, <1>8, <2>2, <3>3 DEF Chained, AsksCounted
    <3> QED BY <3>1, <3>2, <3>3
  <2> QED BY <2>1, <2>2 DEF AsksCounted
<1>11. ASSUME NEW u \in Asked' PROVE Offers(u)'
  <2>1. CASE u = t
    BY <1>2, <1>4, <1>5, <2>1 DEF Offers
  <2>2. CASE u # t
    <3>1. u \in Asked /\ Offers(u) /\ pub'[u] = pub[u]
      BY <1>6, <1>8, <2>2 DEF Chained
    <3> QED BY <1>2, <1>4, <3>1 DEF Offers, LiveRow
  <2> QED BY <2>1, <2>2
<1>12. BehindLater'
  <2> SUFFICES ASSUME NEW w \in Volumes, NEW v \in assigned'[w], v \notin Origins
               PROVE  \E x, u \in Asked' : /\ Requester[x] = v /\ Requester[u] = w
                                           /\ Batch[x] = Batch[u] /\ pub'[x][1] < pub'[u][1]
    BY DEF BehindLater
  <2>1. CASE w = r
    <3>1. PICK q \in Chosen(t) : q[2] = v
      <4>1. v \in Heads(t)
        BY <1>5, <2>1
      <4> QED BY <4>1, Zenon DEF Heads, First
    <3>2. PICK x \in Asked : Requester[x] = v /\ Batch[x] = Batch[t]
      BY <1>3, <3>1, PlanPeers DEF Chained
    <3>3. pub'[x][1] < pub'[t][1]
      BY <1>2, <1>5, <1>6, <1>8, <3>2
    <3> QED BY <1>6, <2>1, <3>2, <3>3
  <2>2. CASE w # r
    <3>1. PICK x, u \in Asked : /\ Requester[x] = v /\ Requester[u] = w
                                /\ Batch[x] = Batch[u] /\ pub[x][1] < pub[u][1]
      BY <1>5, <2>2 DEF Chained, BehindLater
    <3> QED BY <1>6, <1>8, <3>1
  <2> QED BY <2>1, <2>2
<1>13. ArrivesBy(near, deep)'
  <2>1. at <= deep + (nextPub + 1) * near
    BY <1>3, PlanArrives DEF Chained
  <2> HIDE DEF at
  <2> SUFFICES ASSUME NEW q \in DOMAIN arrival' PROVE arrival'[q] <= deep + q[1] * near
    BY DEF ArrivesBy
  <2>2. CASE q \in DOMAIN arrival
    BY <1>3, <2>2 DEF Chained, ArrivesBy
  <2>3. CASE q \notin DOMAIN arrival
    BY <1>3, <1>5, <2>1, <2>3
  <2> QED BY <2>2, <2>3
<1>14. FirstCrosses'
  <2> SUFFICES ASSUME NEW x \in Asked', NEW u \in Asked', Batch[x] \intersect Batch[u] # {},
                      pub'[u][1] < pub'[x][1], NEW o \in Origins
               PROVE  prefer'[x][o] = 0
    BY DEF FirstCrosses
  <2>1. CASE x = t
    <3>1. u \in Asked
      BY <1>2, <1>5, <1>6, <2>1
    <3> QED BY <1>3, <1>5, <1>7, <2>1, <3>1, PlanAvoids
  <2>2. CASE x # t /\ u = t
    BY <1>2, <1>5, <1>6, <1>8, <2>2
  <2>3. CASE x # t /\ u # t
    <3>1. x \in Asked /\ u \in Asked /\ pub[u][1] < pub[x][1] /\ prefer'[x] = prefer[x]
      BY <1>5, <1>6, <1>8, <2>3
    <3> QED BY <3>1 DEF Chained, FirstCrosses
  <2> QED BY <2>1, <2>2, <2>3
<1>15. LocatedOwn'
  BY <1>3 DEF Chained, LocatedOwn
<1> QED BY <1>9, <1>10, <1>11, <1>12, <1>13, <1>14, <1>15 DEF Chained

(* A publication takes what was pending of it, when its keys are live.      *)
LEMMA PublishChains ==
  ASSUME NEW near, NEW deep, OneBurst, IInv, PubsOwn, Kept, Chained(near, deep),
         NEW t \in Reads, Publish(t)
  PROVE  Chained(near, deep)'
<1> DEFINE p == pub[t]
<1>1. TypeOK /\ Pending
  BY DEF IInv
<1>2. /\ pc[t] = "registered" /\ pc' = [pc EXCEPT ![t] = "done"]
      /\ rows' = { row \in rows : row[1][1] # p[1] } /\ inFlight' = inFlight \ {p}
      /\ arrival' = [q \in DOMAIN arrival \ {p} |-> arrival[q]]
      /\ assigned' = [r \in Volumes |-> IF r \in Drained(p) THEN assigned[r] \ {p[2]}
                                        ELSE assigned[r]]
      /\ UNCHANGED <<nextPub, pub, prefer, located>>
  BY DEF Publish, Transition, DispatchPublished, FoldDirectoryPublished, FoldFanoutPublished, planVars
<1>3. p[1] # 0 /\ p[2] = Requester[t]
  BY <1>2 DEF PubsOwn
<1>4. Asked' = Asked /\ t \in Asked
  BY <1>1, <1>2 DEF Asked, TypeOK
<1>5. RowsSourced' /\ LocatedOwn'
  BY <1>2, <1>4 DEF Chained, RowsSourced, LocatedOwn
<1>6. AsksCounted' /\ FirstCrosses'
  BY <1>2, <1>4 DEF Chained, AsksCounted, FirstCrosses
<1>7. BehindLater'
  <2>1. \A r \in Volumes : assigned'[r] \subseteq assigned[r]
    BY <1>2
  <2> QED BY <1>2, <1>4, <2>1 DEF Chained, BehindLater
<1>8. ArrivesBy(near, deep)'
  BY <1>2 DEF Chained, ArrivesBy
<1>9. ASSUME NEW u \in Asked PROVE Offers(u)'
  <2>1. \A v, k : LiveRow(v, k) => LiveRow(v, k)'
    <3> SUFFICES ASSUME NEW v, NEW k, LiveRow(v, k) PROVE LiveRow(v, k)'
      OBVIOUS
    <3>1. <<<<0, v>>, k>>[1][1] = 0
      OBVIOUS
    <3> QED BY <1>2, <1>3, <3>1 DEF LiveRow
  <2>2. CASE u = t
    <3>1. \A k \in Batch[u] : LiveRow(Requester[u], k)
      BY <1>2, <2>2 DEF Kept
    <3> QED BY <2>1, <3>1 DEF Offers
  <2>3. CASE u # t /\ \A k \in Batch[u] : LiveRow(Requester[u], k)
    BY <2>1, <2>3 DEF Offers
  <2>4. CASE u # t /\ pub[u] \in inFlight /\ \A k \in Batch[u] : <<pub[u], k>> \in rows
    <3>1. pub[u][1] # p[1]
      BY <1>4, <2>4 DEF Chained, AsksCounted
    <3>2. pub[u] \in inFlight'
      BY <1>2, <2>4, <3>1
    <3>3. ASSUME NEW k \in Batch[u] PROVE <<pub[u], k>> \in rows'
      <4>1. <<pub[u], k>>[1] = pub[u] /\ <<pub[u], k>> \in rows
        BY <2>4
      <4> QED BY <1>2, <3>1, <4>1
    <3> QED BY <1>2, <3>2, <3>3 DEF Offers
  <2>5. Offers(u)
    BY DEF Chained
  <2> QED BY <2>2, <2>3, <2>4, <2>5 DEF Offers
<1> QED BY <1>4, <1>5, <1>6, <1>7, <1>8, <1>9 DEF Chained

(* The chain is kept while nothing is evicted.                             *)
LEMMA ChainNext ==
  ASSUME NEW near \in Nat, NEW far \in Nat, NEW deep \in Nat, OneBurst, DearFabric(near, far, deep)
  PROVE  /\ IInv /\ Arrivals /\ PubsOwn /\ Calm /\ (evictions = 0 => Chained(near, deep)) /\ [Next]_vars
         => (evictions = 0 => Chained(near, deep))'
<1> SUFFICES ASSUME IInv, Arrivals, PubsOwn, Calm, evictions = 0 => Chained(near, deep), [Next]_vars,
                    evictions' = 0
             PROVE  Chained(near, deep)'
  OBVIOUS
<1>0. TypeOK /\ Pending /\ \A t \in Reads : Batch[t] \subseteq Keys
  BY ConstantsAssumption DEF IInv
<1>1. ASSUME NEW k \in Keys, NEW v \in Volumes, Evict(k, v) PROVE FALSE
  <2>1. evictions' = evictions + 1 /\ evictions \in Nat
    BY <1>0, <1>1 DEF Evict, TypeOK
  <2> QED BY <2>1
<1>2. evictions' = evictions
  BY <1>1 DEF Next, Step, Finished, Ask, Locate, LocateMiss, Fetch, FetchMiss, Retry, Store,
              PutRefused, Register, Publish, Deregister, vars, storeVars
<1>3. Kept /\ Chained(near, deep)
  BY <1>2 DEF Calm
<1>4. ASSUME NEW t \in Reads, Ask(t) PROVE Chained(near, deep)'
  BY <1>3, <1>4, AskChains
<1>5. ASSUME NEW t \in Reads, Publish(t) PROVE Chained(near, deep)'
  BY <1>3, <1>5, PublishChains
<1>6. ASSUME NEW t \in Reads, NEW to, pc[t] # "idle", to # "idle", pc' = [pc EXCEPT ![t] = to]
      PROVE  Asked' = Asked /\ t \in Asked
  BY <1>0, <1>6 DEF Asked, TypeOK
<1>7. ASSUME NEW t \in Reads, Fetch(t) \/ Store(t) \/ PutRefused(t) PROVE Chained(near, deep)'
  <2>1. \E to \in {"fetched", "stored", "failed"} : pc' = [pc EXCEPT ![t] = to]
    BY <1>7 DEF Fetch, Store, PutRefused, Transition
  <2>2. pc[t] # "idle" /\ UNCHANGED <<nextPub, rows, inFlight, arrival, assigned, pub, prefer, located>>
    BY <1>7 DEF Fetch, Store, PutRefused, Transition, sensorVars, planVars
  <2>3. Asked' = Asked
    BY <1>6, <2>1, <2>2
  <2>4. LocatedOwn'
    BY <1>3, <2>2 DEF Chained, LocatedOwn
  <2> QED BY <1>3, <2>2, <2>3, <2>4, ChainStays
<1>8. ASSUME NEW t \in Reads, Locate(t) PROVE Chained(near, deep)'
  <2>1. /\ pc[t] = "asked" /\ pc' = [pc EXCEPT ![t] = "located"]
        /\ UNCHANGED <<nextPub, rows, inFlight, arrival, assigned, pub, prefer>>
    BY <1>8 DEF Locate, Transition, sensorVars, planVars
  <2>2. Asked' = Asked
    BY <1>6, <2>1
  <2>3. PICK from \in [Batch[t] -> Volumes] :
          /\ \A k \in Batch[t] : from[k] \in Preferred(t, k)
          /\ located' = [located EXCEPT ![t] = { <<k, from[k]>> : k \in Batch[t] }]
    BY <1>8 DEF Locate
  <2>4. LocatedOwn'
    <3>1. located'[t] = { <<k, from[k]>> : k \in Batch[t] }
          /\ \A u \in Reads \ {t} : located'[u] = located[u]
      BY <1>0, <2>3 DEF TypeOK
    <3>2. \A pair \in located'[t] : pair[1] \in Batch[t]
      BY <3>1
    <3> QED BY <1>3, <3>1, <3>2 DEF Chained, LocatedOwn
  <2> QED BY <1>3, <2>1, <2>2, <2>4, ChainStays
<1>9. ASSUME NEW t \in Reads, LocateMiss(t) PROVE FALSE
  <2>1. PICK k \in Batch[t] : Live(k) = {}
    BY <1>9 DEF LocateMiss
  <2>2. PICK o \in Origins : TRUE
    BY DEF OneBurst
  <2>3. o \in Live(k)
    BY <1>0, <1>3, <2>2, ConstantsAssumption DEF Kept, LiveRow, Live, Serves
  <2> QED BY <2>1, <2>3
<1>10. ASSUME NEW t \in Reads, FetchMiss(t) \/ Retry(t) PROVE FALSE
  BY <1>3, <1>10 DEF FetchMiss, Retry, Transition, Kept
<1>11. ASSUME NEW t \in Reads, Register(t) PROVE Chained(near, deep)'
  <2>1. /\ pc[t] = "stored" /\ pc' = [pc EXCEPT ![t] = "registered"]
        /\ rows' = rows \union { <<<<0, Requester[t]>>, k>> : k \in Batch[t] }
        /\ UNCHANGED <<nextPub, inFlight, arrival, assigned, pub, prefer, located>>
    BY <1>11 DEF Register, Transition, sensorVars, planVars
  <2>2. Asked' = Asked /\ t \in Asked
    BY <1>6, <2>1
  <2>3. LocatedOwn'
    BY <1>3, <2>1 DEF Chained, LocatedOwn
  <2>4. rows \subseteq rows' /\ \A row \in rows' \ rows : Requester[t] = row[1][2] /\ row[2] \in Batch[t]
    BY <2>1
  <2> QED BY <1>3, <2>1, <2>2, <2>3, <2>4, ChainStays
<1>12. ASSUME NEW k \in Keys, NEW v \in Volumes, Deregister(k, v) PROVE FALSE
  BY <1>3, <1>12 DEF Deregister, Kept
<1>13. CASE UNCHANGED vars
  <2>1. UNCHANGED <<nextPub, rows, inFlight, arrival, assigned, pub, prefer, located, pc>>
    BY <1>13 DEF vars, sensorVars, planVars
  <2>2. Asked' = Asked /\ LocatedOwn'
    BY <1>3, <2>1 DEF Asked, Chained, LocatedOwn
  <2> QED BY <1>3, <2>1, <2>2, ChainStays
<1> QED
  BY <1>1, <1>4, <1>5, <1>7, <1>8, <1>9, <1>10, <1>11, <1>12, <1>13 DEF Next, Step, Finished

(* Whoever reads a key from an origin asked first among its readers.        *)
LEMMA OneCrossing ==
  ASSUME NEW near, NEW deep, IInv, Followed, Chained(near, deep), NEW k \in Keys
  PROVE  Cardinality(UNION { ReadFrom(v, k) : v \in Origins }) <= 1
<1> DEFINE S == UNION { ReadFrom(v, k) : v \in Origins }
<1>1. ASSUME NEW t \in S
      PROVE  t \in Asked /\ k \in Batch[t] /\ \E o \in Origins : prefer[t][o] > 0
  <2>1. PICK o \in Origins : t \in ReadFrom(o, k)
    BY <1>1
  <2>2. /\ t \in Reads /\ pc[t] \in {"fetched", "stored", "registered", "done"}
        /\ <<k, o>> \in located[t]
    BY <2>1 DEF ReadFrom
  <2>3. <<k, o>>[1] = k /\ <<k, o>>[2] = o
    OBVIOUS
  <2>4. k \in Batch[t]
    BY <2>2, <2>3 DEF Chained, LocatedOwn
  <2>5. prefer[t][o] > 0
    BY <2>2, <2>3 DEF Followed
  <2> QED BY <2>2, <2>4, <2>5 DEF Asked
<1>2. ASSUME NEW t \in S, NEW u \in S, t # u PROVE FALSE
  <2>1. t \in Asked /\ u \in Asked /\ Batch[t] \intersect Batch[u] # {}
    BY <1>1
  <2>2. pub[t][1] \in Nat /\ pub[u][1] \in Nat /\ pub[t][1] # pub[u][1]
    BY <1>2, <2>1 DEF IInv, TypeOK, Publications, Chained, AsksCounted, Asked
  <2>3. CASE pub[u][1] < pub[t][1]
    <3>1. \A o \in Origins : prefer[t][o] = 0
      BY <2>1, <2>3 DEF Chained, FirstCrosses
    <3> QED BY <1>1, <3>1
  <2>4. CASE pub[t][1] < pub[u][1]
    <3>1. \A o \in Origins : prefer[u][o] = 0
      BY <2>1, <2>4 DEF Chained, FirstCrosses
    <3> QED BY <1>1, <3>1
  <2> QED BY <2>2, <2>3, <2>4
<1> HIDE DEF S
<1>3. CASE S = {}
  BY <1>3, FS_EmptySet DEF S
<1>4. CASE S # {}
  <2>1. PICK t \in S : TRUE
    BY <1>4
  <2>2. S = {t}
    BY <1>2, <2>1
  <2>3. Cardinality(S) = 1
    BY <2>2, FS_Singleton
  <2> QED BY <2>3 DEF S
<1> QED BY <1>3, <1>4

(* While nothing is evicted a plan is carried out, and of all the readers   *)
(* of a key one fetches it across the fabric: whatever the cap and the      *)
(* order of asks, landings and publications, refused puts included, in a    *)
(* burst over a fabric dear enough for its size.                            *)
THEOREM FabricCrossedOnce ==
  ASSUME NEW near \in Nat, NEW far \in Nat, NEW deep \in Nat,
         OneBurst, DearFabric(near, far, deep)
  PROVE  Spec => []PlanCarriedOut
<1>1. SourceOutside
  BY DEF OneBurst, SourceOutside
<1>2. Init => Chained(near, deep)
  <2> SUFFICES ASSUME Init PROVE Chained(near, deep)
    OBVIOUS
  <2>1. Asked = {} /\ nextPub = 0 /\ DOMAIN arrival = {}
    BY DEF Init, Asked
  <2>2. \A row \in rows : row[1][1] = 0 /\ row[1][2] \in Origins
    BY DEF Init
  <2>3. BehindLater /\ LocatedOwn
    BY DEF Init, BehindLater, LocatedOwn
  <2>4. AsksCounted
    BY <2>1, FS_EmptySet DEF AsksCounted
  <2>5. RowsSourced
    BY <2>2 DEF RowsSourced
  <2>6. ArrivesBy(near, deep) /\ FirstCrosses
    BY <2>1 DEF ArrivesBy, FirstCrosses
  <2> QED BY <2>1, <2>3, <2>4, <2>5, <2>6 DEF Chained
<1>3. Spec => []Calm
  BY <1>1, CalmInvariance
<1>4. IInv /\ Arrivals /\ PubsOwn /\ Calm /\ (evictions = 0 => Chained(near, deep)) /\ [Next]_vars
      => (evictions = 0 => Chained(near, deep))'
  BY ChainNext
<1>5. ASSUME IInv, Calm, evictions = 0 => Chained(near, deep) PROVE PlanCarriedOut
  <2> SUFFICES ASSUME evictions = 0
               PROVE  /\ NamedSources
                      /\ \A k \in Keys : Cardinality(UNION { ReadFrom(v, k) : v \in Origins }) <= 1
    BY DEF PlanCarriedOut
  <2>1. Followed
    BY <1>5 DEF Calm
  <2>2. NamedSources
    BY <2>1 DEF Followed, NamedSources
  <2> QED BY <1>5, <2>1, <2>2, OneCrossing
<1>6. IInv /\ Calm /\ (evictions = 0 => Chained(near, deep)) => PlanCarriedOut
  BY <1>5
<1>7. Init => (evictions = 0 => Chained(near, deep))
  BY <1>2
<1> QED BY <1>3, <1>4, <1>6, <1>7, Invariance, ArrivalsInvariance, PubsOwnInvariance, PTL DEF Spec
=============================================================================
