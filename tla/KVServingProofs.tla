-------------------------- MODULE KVServingProofs --------------------------
(***************************************************************************)
(* Theorems about KVServing: a request is passed on once, the record of it *)
(* is read once, a pass has a block for each key it publishes, a note of a *)
(* planned pull is spent by the fetch it was made for, a conversation      *)
(* finds its history while nothing is lost, and, where prefill and decode  *)
(* do not share an accelerator, promised prefills do not overlap.          *)
(***************************************************************************)
EXTENDS KVServing, FiniteSetTheorems, WellFoundedInduction, TLAPS

IntPlans == [prefill : Int, decode : Int, source : Int,
             local : Int, match : Int, work : Int, done : Int]

HostPlans == [prefill : Hosts, decode : Hosts, source : Int,
              local : Int, match : Int, work : Int, done : Int]

-----------------------------------------------------------------------------
(* Pricing.                                                                *)

(* What the constants are.                                                 *)
LEMMA HostsNumbered == \A h \in Hosts : h \in Int
BY ServingAssumption

LEMMA ChainsFinite == \A r \in Requests : Len(Chain[r]) \in Int
<1>1. \A r \in Requests : Chain[r] \in Seq(Seq(Int))
  BY ServingAssumption
<1> QED BY <1>1

(* The leading run of a chain that a host holds is no longer than it.      *)
LEMMA RunIsNat ==
  \A r \in Requests : \A h : Run(Chain[r], h) \in Nat /\ Run(Chain[r], h) <= Len(Chain[r])
<1> SUFFICES ASSUME NEW r \in Requests, NEW h
             PROVE  Run(Chain[r], h) \in Nat /\ Run(Chain[r], h) <= Len(Chain[r])
  OBVIOUS
<1> DEFINE S == { n \in 1 .. Len(Chain[r]) : \A i \in 1 .. n : <<Chain[r][i], h>> \in rows }
<1>1. Len(Chain[r]) \in Nat
  BY ServingAssumption
<1>2. IsFiniteSet(1 .. Len(Chain[r])) /\ Cardinality(1 .. Len(Chain[r])) = Len(Chain[r])
  <2>1. 1 \in Int /\ Len(Chain[r]) \in Int
    BY <1>1
  <2>2. /\ IsFiniteSet(1 .. Len(Chain[r]))
        /\ Cardinality(1 .. Len(Chain[r])) = IF 1 > Len(Chain[r]) THEN 0
                                                                 ELSE Len(Chain[r]) - 1 + 1
    BY ONLY <2>1, FS_Interval
  <2> QED BY <1>1, <2>2
<1>3. S \subseteq 1 .. Len(Chain[r])
  OBVIOUS
<1>4. IsFiniteSet(S) /\ Cardinality(S) <= Len(Chain[r])
  BY <1>2, <1>3, FS_Subset
<1>5. Cardinality(S) \in Nat
  BY <1>4, FS_CardinalityType
<1> QED BY <1>4, <1>5 DEF Run

(* The peer a candidate is priced against is nobody, or a host with no     *)
(* less of the chain.                                                      *)
LEMMA NamedIsHost ==
  ASSUME NEW r \in Requests, NEW h \in Hosts, Named(WorthPulling(r, h)) # -1
  PROVE  /\ Named(WorthPulling(r, h)) \in Hosts
         /\ Run(Chain[r], h) <= Run(Chain[r], Named(WorthPulling(r, h)))
<1> DEFINE v == Named(WorthPulling(r, h))
<1>1. v \in WorthPulling(r, h)
  BY DEF Named
<1>2. v \in Hosts /\ 2 * Run(Chain[r], v) > Run(Chain[r], h) * Threshold2
  BY <1>1 DEF WorthPulling, Peer, BestSource
<1> HIDE DEF v
<1>3. Run(Chain[r], h) \in Nat /\ Run(Chain[r], v) \in Nat /\ Threshold2 \in Nat /\ Threshold2 >= 2
  BY RunIsNat, ServingAssumption
<1>4. ASSUME NEW x \in Nat, NEW y \in Nat, NEW t \in Nat, t >= 2, 2 * y > x * t
      PROVE  x <= y
  <2>1. x * t = x * 2 + x * (t - 2)
    BY <1>4
  <2>2. x * (t - 2) >= 0
    BY <1>4
  <2> QED BY <1>4, <2>1, <2>2
<1>5. Run(Chain[r], h) <= Run(Chain[r], v)
  BY <1>2, <1>3, <1>4
<1> QED BY <1>2, <1>5 DEF v

(* A priced plan is whole, starts no earlier than the host's tail, and     *)
(* computes all it does not pull.                                          *)
LEMMA PricedPlan ==
  ASSUME now \in Int, busyUntil \in [Hosts -> Int],
         NEW r \in Requests, NEW h \in Hosts
  PROVE  /\ Priced(r, h) \in IntPlans
         /\ Priced(r, h).prefill = h
         /\ Priced(r, h).source = -1 => Priced(r, h).match = Priced(r, h).local
         /\ busyUntil[h] <= Priced(r, h).done - Priced(r, h).work
         /\ 0 <= Priced(r, h).work
<1> DEFINE local == Run(Chain[r], h)
           peer == Named(WorthPulling(r, h))
           match == IF peer = -1 THEN local ELSE Run(Chain[r], peer)
           fetch == IF peer = -1 THEN 0 ELSE (match - local) * PullTime[peer][h]
           work == fetch + (Len(Chain[r]) - match) * BlockTime
<1>1. local \in Nat /\ match \in Nat /\ match <= Len(Chain[r])
  BY RunIsNat
<1>2. peer = -1 \/ (peer \in Hosts /\ local <= match)
  BY NamedIsHost
<1>3. h \in Int /\ peer \in Int
  <2>1. -1 \in Int /\ \A v \in Hosts : v \in Int
    BY ServingAssumption
  <2> QED BY <1>2, <2>1, Zenon
<1>4. Len(Chain[r]) \in Nat /\ BlockTime \in Nat
  BY ServingAssumption
<1>5. fetch \in Nat
  <2>1. CASE peer = -1
    BY <2>1
  <2>2. CASE peer # -1
    <3> DEFINE pullTime == PullTime[peer][h]
    <3>1. pullTime \in Nat
      <4>1. \A v \in Hosts : PullTime[v][h] \in Nat
        BY ServingAssumption
      <4> QED BY <1>2, <2>2, <4>1
    <3>2. fetch = (match - local) * pullTime
      BY <2>2
    <3>3. match - local \in Nat
      <4> HIDE DEF match, local, peer
      <4> QED BY <1>1, <1>2, <2>2
    <3> HIDE DEF match, local, pullTime
    <3> QED BY <3>1, <3>2, <3>3
  <2> QED BY <2>1, <2>2
<1>6. work \in Nat
  <2> HIDE DEF match, fetch
  <2>1. Len(Chain[r]) - match \in Nat
    BY <1>1, <1>4
  <2>2. (Len(Chain[r]) - match) * BlockTime \in Nat
    BY <1>4, <2>1
  <2> QED BY <1>5, <2>2
<1>7. Later(now, busyUntil[h]) \in Int /\ busyUntil[h] <= Later(now, busyUntil[h])
  BY DEF Later
<1>8. Priced(r, h) = [prefill |-> h, decode |-> -1, source |-> peer, local |-> local,
                      match |-> match, work |-> work,
                      done |-> Later(now, busyUntil[h]) + work]
  BY DEF Priced, PrefillTime
<1>9. peer = -1 => match = local
  OBVIOUS
<1> HIDE DEF local, peer, match, fetch, work
<1> QED BY <1>1, <1>3, <1>6, <1>7, <1>8, <1>9 DEF IntPlans

(* What decide may answer.                                                 *)
LEMMA DecisionPlan ==
  ASSUME now \in Int, busyUntil \in [Hosts -> Int],
         NEW r \in Requests, NEW p \in Decisions(r)
  PROVE  /\ p \in HostPlans
         /\ p # NoPlan
         /\ p.source = -1 => p.match = p.local
         /\ busyUntil[p.prefill] <= p.done - p.work
         /\ 0 <= p.work
<1>1. PICK h \in PrefillChoice(r) :
        \E d \in DecodeChoice(Priced(r, h).done) : p = [Priced(r, h) EXCEPT !.decode = d]
  BY DEF Decisions
<1>2. PICK d \in DecodeChoice(Priced(r, h).done) : p = [Priced(r, h) EXCEPT !.decode = d]
  BY <1>1
<1>3. h \in Hosts
  BY <1>1, ServingAssumption DEF PrefillChoice
<1>4. d \in Hosts
  BY <1>2, ServingAssumption DEF DecodeChoice
<1>5. /\ Priced(r, h) \in IntPlans
      /\ Priced(r, h).prefill = h
      /\ Priced(r, h).source = -1 => Priced(r, h).match = Priced(r, h).local
      /\ busyUntil[h] <= Priced(r, h).done - Priced(r, h).work
      /\ 0 <= Priced(r, h).work
  BY <1>3, PricedPlan
<1>6. p \in HostPlans /\ p.prefill = h
  BY <1>2, <1>3, <1>4, <1>5 DEF IntPlans, HostPlans
<1>7. p # NoPlan
  BY <1>3, <1>6, ServingAssumption DEF NoPlan
<1> QED BY <1>2, <1>3, <1>5, <1>6, <1>7 DEF IntPlans, HostPlans
-----------------------------------------------------------------------------
(* The invariant of a request's way to its host and through its prefill.   *)

(* The variables the argument reads have their types.                      *)
Typed ==
  /\ now \in Int
  /\ busyUntil \in [Hosts -> Int] /\ device \in [Hosts -> Int]
  /\ pc \in [Requests -> Phases] /\ at \in [Requests -> Hosts]
  /\ plan \in [Requests -> HostPlans \union {NoPlan}]
  /\ placed \in [Requests -> HostPlans \union {NoPlan}]
  /\ kv \in [Requests -> Int] /\ uncached \in [Requests -> Int]

(* A request is where it landed until it is answered, and the record of an *)
(* answer that moves it is that answer.                                    *)
Placed(r) ==
  /\ pc[r] \in {"new", "refused"} => at[r] = Landed[r] /\ plan[r] = NoPlan /\ placed[r] = NoPlan
  /\ pc[r] = "asking" =>
       \/ at[r] = Landed[r] /\ plan[r] = NoPlan /\ placed[r] = NoPlan
       \/ plan[r] # NoPlan /\ placed[r] = plan[r] /\ plan[r].prefill = at[r]
  /\ pc[r] = "answered" =>
       /\ plan[r] # NoPlan
       /\ IF plan[r].prefill = at[r] THEN placed[r] = NoPlan
          ELSE placed[r] = plan[r] /\ at[r] = Landed[r]
  /\ pc[r] \notin {"new", "refused", "asking", "answered"} =>
       plan[r] # NoPlan /\ placed[r] = NoPlan /\ plan[r].prefill = at[r]

(* What a request has in hand and what its pass computes follow its plan.  *)
InHand(r) ==
  /\ plan[r] # NoPlan /\ plan[r].source = -1 => plan[r].match = plan[r].local
  /\ pc[r] \in {"new", "refused", "asking", "answered", "sourcing", "pulling", "fetching"} =>
       kv[r] = 0
  /\ pc[r] \in {"sourcing", "pulling", "fetching"} =>
       uncached[r] = Len(Chain[r]) - plan[r].match
  /\ pc[r] \in {"queued", "running"} =>
       kv[r] + uncached[r] = Len(Chain[r]) - plan[r].local

(* The members of a step are decoding on the host that runs it.            *)
Stepping ==
  /\ members \in [Hosts -> SUBSET Requests]
  /\ \A h \in Hosts : \A r \in members[h] : pc[r] = "decoding" /\ plan[r].decode = h

IInv == Typed /\ Stepping /\ \A r \in Requests : Placed(r) /\ InHand(r)

(* The invariant holds initially.                                          *)
LEMMA IInvInit == Init => IInv
<1> SUFFICES ASSUME Init PROVE IInv
  OBVIOUS
<1>1. \A r \in Requests : Landed[r] \in Hosts
  BY ServingAssumption
<1>2. Typed
  BY <1>1 DEF Init, Typed, Phases
<1>3. \A r \in Requests : Placed(r) /\ InHand(r)
  BY DEF Init, Placed, InHand
<1>4. Stepping
  BY DEF Init, Stepping
<1> QED BY <1>2, <1>3, <1>4 DEF IInv

(* A step that leaves a request alone leaves what is said of it.           *)
LEMMA Untouched ==
  ASSUME NEW q, Placed(q), InHand(q),
         pc'[q] = pc[q], at'[q] = at[q], plan'[q] = plan[q], placed'[q] = placed[q],
         kv'[q] = kv[q], uncached'[q] = uncached[q]
  PROVE  Placed(q)' /\ InHand(q)'
BY DEF Placed, InHand

(* A step of one request that is not decoding keeps the invariant if it    *)
(* keeps it for that request.                                              *)
LEMMA OneRequest ==
  ASSUME IInv, NEW r \in Requests, Typed', Placed(r)', InHand(r)',
         pc[r] # "decoding", members' = members,
         \A q \in Requests \ {r} :
           /\ pc'[q] = pc[q] /\ at'[q] = at[q] /\ plan'[q] = plan[q] /\ placed'[q] = placed[q]
           /\ kv'[q] = kv[q] /\ uncached'[q] = uncached[q]
  PROVE  IInv'
<1>1. \A q \in Requests \ {r} : Placed(q)' /\ InHand(q)'
  BY Untouched DEF IInv
<1>2. Stepping'
  <2> SUFFICES ASSUME NEW h \in Hosts, NEW q \in members[h]
               PROVE  pc'[q] = "decoding" /\ plan'[q].decode = h
    BY DEF IInv, Stepping
  <2>1. q \in Requests /\ pc[q] = "decoding" /\ plan[q].decode = h
    BY DEF IInv, Stepping
  <2> QED BY <2>1
<1> QED BY <1>1, <1>2 DEF IInv

(* What a move does to the phases.                                         *)
LEMMA MovesOne ==
  ASSUME IInv, NEW r \in Requests, NEW from, NEW to \in Phases, Moves(r, from, to)
  PROVE  /\ pc' \in [Requests -> Phases]
         /\ pc[r] = from /\ pc'[r] = to
         /\ \A q \in Requests \ {r} : pc'[q] = pc[q]
BY DEF Moves, IInv, Typed

Early == {"new", "refused", "asking", "answered"}
Fetching == {"sourcing", "pulling", "fetching"}
InPass == {"queued", "running"}

(* A served request that moves on, with nothing the invariant reads of it  *)
(* changed.                                                                *)
LEMMA QuietMove ==
  ASSUME IInv, NEW r \in Requests, NEW from \in Phases \ Early, NEW to \in Phases \ Early,
         from # "decoding", to \in Fetching => from \in Fetching, to \in InPass => from \in InPass,
         Moves(r, from, to), members' = members,
         UNCHANGED <<at, plan, placed, kv, uncached>>,
         now' \in Int, busyUntil' \in [Hosts -> Int], device' \in [Hosts -> Int]
  PROVE  IInv'
<1>1. /\ pc' \in [Requests -> Phases] /\ pc[r] = from /\ pc'[r] = to
      /\ \A q \in Requests \ {r} : pc'[q] = pc[q]
  BY MovesOne
<1>2. Typed'
  BY <1>1 DEF IInv, Typed
<1>3. Placed(r)'
  BY <1>1 DEF IInv, Placed, Early
<1>4. InHand(r)'
  BY <1>1 DEF IInv, InHand, Early, Fetching, InPass
<1> QED BY <1>1, <1>2, <1>3, <1>4, OneRequest

(* Every step keeps the invariant.                                         *)
LEMMA IInvStep == IInv /\ [Next]_vars => IInv'
<1> SUFFICES ASSUME IInv, [Next]_vars PROVE IInv'
  OBVIOUS
<1>0. /\ now \in Int /\ busyUntil \in [Hosts -> Int] /\ device \in [Hosts -> Int]
      /\ Typed /\ \A q \in Requests : Placed(q) /\ InHand(q)
  BY DEF IInv, Typed
<1>1. ASSUME NEW r \in Requests, Land(r) PROVE IInv'
  <2>1. /\ pc' \in [Requests -> Phases] /\ pc[r] = "new" /\ pc'[r] = "asking"
        /\ \A q \in Requests \ {r} : pc'[q] = pc[q]
    BY <1>1, MovesOne DEF Land, Phases
  <2>2. UNCHANGED <<now, busyUntil, device, at, plan, placed, kv, uncached, members>>
    BY <1>1 DEF Land, sensorVars, workVars, decodeVars
  <2>4. Typed'
    BY <1>0, <2>1, <2>2 DEF Typed
  <2>5. Placed(r)'
    BY <1>0, <2>1, <2>2 DEF Placed
  <2>6. InHand(r)'
    BY <1>0, <2>1, <2>2 DEF InHand
  <2> QED BY <2>1, <2>2, <2>4, <2>5, <2>6, OneRequest DEF IInv, Typed
<1>2. ASSUME NEW r \in Requests, Refuse(r) PROVE IInv'
  <2>1. /\ pc' \in [Requests -> Phases] /\ pc[r] = "asking" /\ pc'[r] = "refused"
        /\ \A q \in Requests \ {r} : pc'[q] = pc[q]
    BY <1>2, MovesOne DEF Refuse, Phases
  <2>2. UNCHANGED <<now, busyUntil, device, at, plan, placed, kv, uncached, members>>
    BY <1>2 DEF Refuse, sensorVars, workVars, decodeVars
  <2>3. placed[r] = NoPlan
    BY <1>2 DEF Refuse
  <2>4. Typed'
    BY <1>0, <2>1, <2>2, <2>3 DEF Typed
  <2>5. Placed(r)'
    BY <1>0, <2>1, <2>2, <2>3 DEF Placed
  <2>6. InHand(r)'
    BY <1>0, <2>1, <2>2, <2>3 DEF InHand
  <2> QED BY <2>1, <2>2, <2>3, <2>4, <2>5, <2>6, OneRequest DEF IInv, Typed
<1>3. ASSUME NEW r \in Requests, Redirect(r) PROVE IInv'
  <2>1. /\ pc' \in [Requests -> Phases] /\ pc[r] = "answered" /\ pc'[r] = "asking"
        /\ \A q \in Requests \ {r} : pc'[q] = pc[q]
    BY <1>3, MovesOne DEF Redirect, Phases
  <2>2. UNCHANGED <<now, busyUntil, device, plan, placed, kv, uncached, members>>
    BY <1>3 DEF Redirect, sensorVars, workVars, decodeVars
  <2>3. /\ plan[r].prefill # at[r] /\ at' = [at EXCEPT ![r] = plan[r].prefill]
        /\ plan[r].prefill \in Hosts /\ at'[r] = plan[r].prefill
    BY <1>3, <1>0, <2>1 DEF Redirect, Typed, Placed, HostPlans
  <2>4. Typed'
    BY <1>0, <2>1, <2>2, <2>3 DEF Typed
  <2>5. Placed(r)'
    BY <1>0, <2>1, <2>2, <2>3 DEF Placed
  <2>6. InHand(r)'
    BY <1>0, <2>1, <2>2, <2>3 DEF InHand
  <2> QED BY <2>1, <2>2, <2>3, <2>4, <2>5, <2>6, OneRequest DEF IInv, Typed
<1>4. ASSUME NEW r \in Requests, DecideRecorded(r) PROVE IInv'
  <2>1. /\ pc' \in [Requests -> Phases] /\ pc[r] = "asking" /\ pc'[r] = "answered"
        /\ \A q \in Requests \ {r} : pc'[q] = pc[q]
    BY <1>4, MovesOne DEF DecideRecorded, Phases
  <2>2. UNCHANGED <<now, busyUntil, device, at, kv, uncached, members>>
    BY <1>4 DEF DecideRecorded, sensorVars, workVars, decodeVars
  <2>3. /\ placed[r] # NoPlan /\ placed' = [placed EXCEPT ![r] = NoPlan]
        /\ plan' = [plan EXCEPT ![r] = placed[r]] /\ placed[r] \in HostPlans \union {NoPlan}
        /\ placed'[r] = NoPlan /\ plan'[r] = placed[r] /\ placed[r] = plan[r]
        /\ plan[r].prefill = at[r]
    BY <1>4, <1>0, <2>1 DEF DecideRecorded, Typed, Placed
  <2>4. Typed'
    BY <1>0, <2>1, <2>2, <2>3 DEF Typed
  <2>5. Placed(r)'
    BY <1>0, <2>1, <2>2, <2>3 DEF Placed
  <2>6. InHand(r)'
    BY <1>0, <2>1, <2>2, <2>3 DEF InHand
  <2> QED BY <2>1, <2>2, <2>3, <2>4, <2>5, <2>6, OneRequest DEF IInv, Typed
<1>5. ASSUME NEW r \in Requests, Decide(r) PROVE IInv'
  <2>1. /\ pc' \in [Requests -> Phases] /\ pc[r] = "asking" /\ pc'[r] = "answered"
        /\ \A q \in Requests \ {r} : pc'[q] = pc[q]
    BY <1>5, MovesOne DEF Decide, Phases
  <2>2. UNCHANGED <<now, device, at, kv, uncached, members>> /\ placed[r] = NoPlan
    BY <1>5 DEF Decide, workVars, decodeVars
  <2>3. PICK p \in Decisions(r) :
          /\ plan' = [plan EXCEPT ![r] = p]
          /\ FoldCommitted(r, p)
          /\ placed' = IF p.prefill = at[r] THEN placed ELSE [placed EXCEPT ![r] = p]
    BY <1>5 DEF Decide
  <2>4. /\ p \in HostPlans /\ p # NoPlan
        /\ p.source = -1 => p.match = p.local
    BY <1>0, DecisionPlan
  <2>5. busyUntil' = [busyUntil EXCEPT ![p.prefill] = p.done] /\ p.done \in Int
    BY <2>3, <2>4 DEF FoldCommitted, BookTail, HostPlans
  <2>6. Typed'
    BY <1>0, <2>1, <2>2, <2>3, <2>4, <2>5 DEF Typed
  <2>7. plan'[r] = p /\ placed'[r] = IF p.prefill = at[r] THEN NoPlan ELSE p
    BY <1>0, <2>2, <2>3 DEF Typed
  <2>8. at[r] = Landed[r]
    BY <1>0, <2>1, <2>2 DEF Placed
  <2>9. Placed(r)'
    BY <2>1, <2>2, <2>4, <2>7, <2>8 DEF Placed
  <2>10. InHand(r)'
    BY <1>0, <2>1, <2>2, <2>4, <2>7 DEF InHand
  <2> QED BY <1>0, <2>1, <2>2, <2>3, <2>6, <2>9, <2>10, OneRequest DEF Typed
<1>6. ASSUME NEW r \in Requests, Serve(r) PROVE IInv'
  <2> DEFINE to == IF plan[r].source = -1 THEN "queued" ELSE "sourcing"
  <2>1. /\ pc' \in [Requests -> Phases] /\ pc[r] = "answered" /\ pc'[r] = to
        /\ \A q \in Requests \ {r} : pc'[q] = pc[q]
    BY <1>6, MovesOne DEF Serve, Phases
  <2>2. UNCHANGED <<now, busyUntil, device, at, plan, placed, kv, members>>
    BY <1>6 DEF Serve, sensorVars, decodeVars
  <2>3. /\ plan[r].prefill = at[r]
        /\ uncached' = [uncached EXCEPT ![r] = Len(Chain[r]) - plan[r].match]
    BY <1>6 DEF Serve
  <2>4. plan[r] \in HostPlans /\ Len(Chain[r]) \in Int
    BY <1>0, <2>1, ServingAssumption DEF Typed, Placed
  <2>5. plan[r].match \in Int /\ plan[r].local \in Int
    BY <2>4 DEF HostPlans
  <2>6. Typed'
    BY <1>0, <2>1, <2>2, <2>3, <2>4, <2>5 DEF Typed
  <2>7. Placed(r)'
    BY <1>0, <2>1, <2>2, <2>3 DEF Placed
  <2>8. uncached'[r] = Len(Chain[r]) - plan[r].match /\ kv'[r] = 0
    BY <1>0, <2>1, <2>2, <2>3 DEF Typed, InHand
  <2>9. plan[r].source = -1 => plan[r].match = plan[r].local
    BY <1>0, <2>1 DEF InHand, Placed
  <2>10. InHand(r)'
    BY <2>1, <2>2, <2>4, <2>5, <2>8, <2>9 DEF InHand
  <2> QED BY <1>0, <2>1, <2>2, <2>3, <2>6, <2>7, <2>10, OneRequest DEF Typed
<1>7. ASSUME NEW r \in Requests, Pulled(r) PROVE IInv'
  <2>1. /\ pc' \in [Requests -> Phases] /\ pc[r] = "fetching" /\ pc'[r] = "queued"
        /\ \A q \in Requests \ {r} : pc'[q] = pc[q]
    BY <1>7, MovesOne DEF Pulled, Phases
  <2>2. UNCHANGED <<now, busyUntil, device, at, plan, placed, uncached, members>>
    BY <1>7 DEF Pulled, sensorVars, decodeVars
  <2>3. kv' = [kv EXCEPT ![r] = plan[r].match - plan[r].local]
    BY <1>7 DEF Pulled
  <2>4. plan[r] \in HostPlans /\ Len(Chain[r]) \in Int
    BY <1>0, <2>1, ServingAssumption DEF Typed, Placed
  <2>5. plan[r].match \in Int /\ plan[r].local \in Int
    BY <2>4 DEF HostPlans
  <2>6. Typed'
    BY <1>0, <2>1, <2>2, <2>3, <2>4, <2>5 DEF Typed
  <2>7. Placed(r)'
    BY <1>0, <2>1, <2>2 DEF Placed
  <2>8. kv'[r] + uncached'[r] = Len(Chain[r]) - plan[r].local
    BY SMTT(30), <1>0, <2>1, <2>2, <2>3, <2>4, <2>5 DEF Typed, InHand
  <2>9. InHand(r)'
    BY <1>0, <2>1, <2>2, <2>8 DEF InHand
  <2> QED BY <1>0, <2>1, <2>2, <2>3, <2>6, <2>7, <2>9, OneRequest DEF Typed
<1>8. ASSUME NEW r \in Requests, PullMiss(r) PROVE IInv'
  <2>1. /\ pc' \in [Requests -> Phases] /\ pc[r] = "pulling" /\ pc'[r] = "queued"
        /\ \A q \in Requests \ {r} : pc'[q] = pc[q]
    BY <1>8, MovesOne DEF PullMiss, Phases
  <2>2. UNCHANGED <<now, busyUntil, device, at, plan, placed, kv, members>>
    BY <1>8 DEF PullMiss, sensorVars, decodeVars
  <2>3. uncached' = [uncached EXCEPT ![r] = Len(Chain[r]) - plan[r].local]
    BY <1>8 DEF PullMiss
  <2>4. plan[r] \in HostPlans /\ Len(Chain[r]) \in Int
    BY <1>0, <2>1, ServingAssumption DEF Typed, Placed
  <2>5. plan[r].match \in Int /\ plan[r].local \in Int
    BY <2>4 DEF HostPlans
  <2>6. Typed'
    BY <1>0, <2>1, <2>2, <2>3, <2>4, <2>5 DEF Typed
  <2>7. Placed(r)'
    BY <1>0, <2>1, <2>2 DEF Placed
  <2>8. kv'[r] + uncached'[r] = Len(Chain[r]) - plan[r].local
    BY <1>0, <2>1, <2>2, <2>3, <2>4, <2>5 DEF Typed, InHand
  <2>9. InHand(r)'
    BY <1>0, <2>1, <2>2, <2>8 DEF InHand
  <2> QED BY <1>0, <2>1, <2>2, <2>3, <2>6, <2>7, <2>9, OneRequest DEF Typed
<1>9. ASSUME NEW r \in Requests, Publish(r) PROVE IInv'
  <2>1. /\ pc' \in [Requests -> Phases] /\ pc[r] = "running" /\ pc'[r] = "published"
        /\ \A q \in Requests \ {r} : pc'[q] = pc[q]
    BY <1>9, MovesOne DEF Publish, Phases
  <2>2. UNCHANGED <<now, busyUntil, device, at, plan, placed, members>>
    BY <1>9 DEF Publish, sensorVars, decodeVars
  <2>3. kv' = [kv EXCEPT ![r] = 0] /\ uncached' = [uncached EXCEPT ![r] = 0]
    BY <1>9 DEF Publish
  <2>4. Typed'
    BY <1>0, <2>1, <2>2, <2>3 DEF Typed
  <2>5. Placed(r)'
    BY <1>0, <2>1, <2>2 DEF Placed
  <2>6. InHand(r)'
    BY <1>0, <2>1, <2>2 DEF InHand
  <2> QED BY <1>0, <2>1, <2>2, <2>3, <2>4, <2>5, <2>6, OneRequest DEF Typed
<1>10. ASSUME NEW r \in Requests, PullSources(r) PROVE IInv'
  <2>1. Moves(r, "sourcing", "pulling") /\ UNCHANGED <<at, plan, placed, kv, uncached, members>>
    BY <1>10 DEF PullSources, workVars, decodeVars, Answer
  <2>2. now' \in Int /\ busyUntil' \in [Hosts -> Int] /\ device' \in [Hosts -> Int]
    BY <1>10, <1>0 DEF PullSources, sensorVars, workVars, Answer
  <2> QED BY <2>1, <2>2, QuietMove DEF Phases, Early, Fetching, InPass
<1>11. ASSUME NEW r \in Requests, Pull(r) PROVE IInv'
  <2>1. Moves(r, "pulling", "fetching") /\ UNCHANGED <<at, plan, placed, kv, uncached, members>>
    BY <1>11 DEF Pull, workVars, decodeVars
  <2>2. now' \in Int /\ busyUntil' \in [Hosts -> Int] /\ device' \in [Hosts -> Int]
    BY <1>11, <1>0 DEF Pull, sensorVars, workVars
  <2> QED BY <2>1, <2>2, QuietMove DEF Phases, Early, Fetching, InPass
<1>12. ASSUME NEW r \in Requests, StartPass(r) PROVE IInv'
  <2>1. Moves(r, "queued", "running") /\ UNCHANGED <<now, busyUntil, at, plan, placed, kv, uncached, members>>
    BY <1>12 DEF StartPass, sensorVars, decodeVars
  <2>2. pc[r] = "queued"
    BY <2>1 DEF Moves
  <2>3. plan[r].prefill \in Hosts
    BY <1>0, <2>2 DEF Typed, Placed, HostPlans
  <2>4. uncached[r] \in Int /\ BlockTime \in Int
    BY <1>0, ServingAssumption DEF Typed
  <2>5. Later(now, device[plan[r].prefill]) + uncached[r] * BlockTime \in Int
    BY <1>0, <2>3, <2>4 DEF Later
  <2>6. device' \in [Hosts -> Int]
    BY <1>12, <1>0, <2>5 DEF StartPass, PrefillTime
  <2> QED BY <1>0, <2>1, <2>6, QuietMove DEF Phases, Early, Fetching, InPass
<1>13. ASSUME NEW r \in Requests, Finish(r) PROVE IInv'
  <2>1. Moves(r, "published", "prefilled") /\ UNCHANGED <<at, plan, placed, kv, uncached, members>>
    BY <1>13 DEF Finish, workVars, decodeVars
  <2>2. now' \in Int /\ busyUntil' \in [Hosts -> Int] /\ device' \in [Hosts -> Int]
    BY <1>13, <1>0 DEF Finish, sensorVars, workVars, FoldPrefillFinished, Later
  <2> QED BY <2>1, <2>2, QuietMove DEF Phases, Early, Fetching, InPass
<1>14. ASSUME NEW r \in Requests, DecodeHere(r) PROVE IInv'
  <2> DEFINE to == IF Steps(r) = 0 THEN "done" ELSE "decoding"
  <2>1. Moves(r, "prefilled", to) /\ UNCHANGED <<at, plan, placed, kv, uncached, members>>
    BY <1>14 DEF DecodeHere, Admit, workVars
  <2>2. now' \in Int /\ busyUntil' \in [Hosts -> Int] /\ device' \in [Hosts -> Int]
    BY <1>14, <1>0 DEF DecodeHere, Admit, workVars
  <2>3. to \in {"done", "decoding"}
    OBVIOUS
  <2> HIDE DEF to
  <2> QED BY <2>1, <2>2, <2>3, QuietMove DEF Phases, Early, Fetching, InPass
<1>15. ASSUME NEW r \in Requests, HandSources(r) PROVE IInv'
  <2>1. Moves(r, "prefilled", "handing") /\ UNCHANGED <<at, plan, placed, kv, uncached, members>>
    BY <1>15 DEF HandSources, workVars, decodeVars, Answer
  <2>2. now' \in Int /\ busyUntil' \in [Hosts -> Int] /\ device' \in [Hosts -> Int]
    BY <1>15, <1>0 DEF HandSources, sensorVars, workVars, Answer
  <2> QED BY <2>1, <2>2, QuietMove DEF Phases, Early, Fetching, InPass
<1>16. ASSUME NEW r \in Requests, Hand(r) PROVE IInv'
  <2>1. Moves(r, "handing", "moving") /\ UNCHANGED <<at, plan, placed, kv, uncached, members>>
    BY <1>16 DEF Hand, workVars, decodeVars
  <2>2. now' \in Int /\ busyUntil' \in [Hosts -> Int] /\ device' \in [Hosts -> Int]
    BY <1>16, <1>0 DEF Hand, sensorVars, workVars
  <2> QED BY <2>1, <2>2, QuietMove DEF Phases, Early, Fetching, InPass
<1>17. ASSUME NEW r \in Requests, HandMiss(r) PROVE IInv'
  <2> DEFINE to == IF Steps(r) = 0 THEN "done" ELSE "decoding"
  <2>1. Moves(r, "handing", to) /\ UNCHANGED <<at, plan, placed, kv, uncached, members>>
    BY <1>17 DEF HandMiss, Admit, workVars
  <2>2. now' \in Int /\ busyUntil' \in [Hosts -> Int] /\ device' \in [Hosts -> Int]
    BY <1>17, <1>0 DEF HandMiss, Admit, workVars
  <2>3. to \in {"done", "decoding"}
    OBVIOUS
  <2> HIDE DEF to
  <2> QED BY <2>1, <2>2, <2>3, QuietMove DEF Phases, Early, Fetching, InPass
<1>18. ASSUME NEW r \in Requests, Reside(r) PROVE IInv'
  <2>1. Moves(r, "moving", "resided") /\ UNCHANGED <<at, plan, placed, kv, uncached, members>>
    BY <1>18 DEF Reside, workVars, decodeVars
  <2>2. now' \in Int /\ busyUntil' \in [Hosts -> Int] /\ device' \in [Hosts -> Int]
    BY <1>18, <1>0 DEF Reside, sensorVars, workVars
  <2> QED BY <2>1, <2>2, QuietMove DEF Phases, Early, Fetching, InPass
<1>19. ASSUME NEW r \in Requests, DecodeMoved(r) PROVE IInv'
  <2> DEFINE to == IF Steps(r) = 0 THEN "done" ELSE "decoding"
  <2>1. Moves(r, "resided", to) /\ UNCHANGED <<at, plan, placed, kv, uncached, members>>
    BY <1>19 DEF DecodeMoved, Admit, workVars
  <2>2. now' \in Int /\ busyUntil' \in [Hosts -> Int] /\ device' \in [Hosts -> Int]
    BY <1>19, <1>0 DEF DecodeMoved, Admit, workVars
  <2>3. to \in {"done", "decoding"}
    OBVIOUS
  <2> HIDE DEF to
  <2> QED BY <2>1, <2>2, <2>3, QuietMove DEF Phases, Early, Fetching, InPass
<1>26. ASSUME NEW r \in Requests, Grow(r) PROVE IInv'
  <2>1. Moves(r, "emitted", "done") /\ UNCHANGED <<at, plan, placed, kv, uncached, members>>
    BY <1>26 DEF Grow, workVars, decodeVars
  <2>2. now' \in Int /\ busyUntil' \in [Hosts -> Int] /\ device' \in [Hosts -> Int]
    BY <1>26, <1>0 DEF Grow, sensorVars, workVars
  <2> QED BY <2>1, <2>2, QuietMove DEF Phases, Early, Fetching, InPass
<1>20. ASSUME NEW h \in Hosts, StepStart(h) PROVE IInv'
  <2> DEFINE size == Cardinality(Decoding(h))
             free == IF Coupled THEN Later(now, device[h]) ELSE now
  <2>1. UNCHANGED <<now, pc, at, plan, placed, kv, uncached>>
    BY <1>20 DEF StepStart, callVars
  <2>2. Decoding(h) \subseteq Requests
    BY DEF Decoding
  <2>3. size \in Nat
    BY <2>2, FS_Subset, FS_CardinalityType, ServingAssumption
  <2>4. free \in Int
    BY <1>0 DEF Later
  <2>5. StepTime(size) \in Int
    <3> HIDE DEF size
    <3> QED BY <2>3, ServingAssumption DEF StepTime, Later
  <2>6. free + StepTime(size) \in Int
    BY <2>4, <2>5
  <2>7. busyUntil' \in [Hosts -> Int] /\ device' \in [Hosts -> Int]
    BY <1>20, <1>0, <2>6 DEF StepStart, FoldComputeBusy
  <2>8. Typed'
    BY <1>0, <2>1, <2>7 DEF Typed
  <2>9. Stepping'
    BY <1>20, <2>1, <2>2 DEF IInv, Stepping, StepStart, Decoding
  <2>10. \A q \in Requests : Placed(q)' /\ InHand(q)'
    BY <1>0, <2>1, Untouched
  <2> QED BY <2>8, <2>9, <2>10 DEF IInv
<1>21. ASSUME NEW h \in Hosts, StepComplete(h) PROVE IInv'
  <2> DEFINE over == { r \in members[h] : left[r] = 1 }
  <2>1. UNCHANGED <<now, busyUntil, device, at, plan, placed, kv, uncached>>
    BY <1>21 DEF StepComplete, workVars
  <2>2. /\ pc' = [r \in Requests |-> IF r \in over THEN "emitted" ELSE pc[r]]
        /\ members' = [members EXCEPT ![h] = {}]
    BY <1>21 DEF StepComplete, Retired
  <2>3. \A r \in over : r \in Requests /\ pc[r] = "decoding" /\ plan[r].decode = h
    BY DEF IInv, Stepping
  <2>4. Typed'
    BY <1>0, <2>1, <2>2 DEF Typed, Phases
  <2>5. Stepping'
    BY <2>1, <2>2, <2>3 DEF IInv, Stepping
  <2>6. ASSUME NEW q \in Requests PROVE Placed(q)' /\ InHand(q)'
    <3>1. CASE q \in over
      BY <1>0, <2>1, <2>2, <2>3, <3>1 DEF Placed, InHand
    <3>2. CASE q \notin over
      BY <1>0, <2>1, <2>2, <3>2, Untouched
    <3> QED BY <3>1, <3>2
  <2> QED BY <2>4, <2>5, <2>6 DEF IInv
<1>22. ASSUME NEW kept \in rows, Evict(kept[1], kept[2]) PROVE IInv'
  <2>1. UNCHANGED <<now, busyUntil, device, pc, at, plan, placed, kv, uncached, members>>
    BY <1>22 DEF Evict, sensorVars, callVars, workVars, decodeVars
  <2> QED BY <2>1, Untouched DEF IInv, Typed, Stepping
<1>23. CASE Tick
  <2>1. UNCHANGED <<busyUntil, device, pc, at, plan, placed, kv, uncached, members>> /\ now' = now + 1
    BY <1>23 DEF Tick, sensorVars, callVars, workVars, decodeVars
  <2> QED BY <2>1, Untouched DEF IInv, Typed, Stepping
<1>24. CASE UNCHANGED vars
  <2>1. UNCHANGED <<now, busyUntil, device, pc, at, plan, placed, kv, uncached, members>>
    BY <1>24 DEF vars, sensorVars, callVars, workVars, decodeVars
  <2> QED BY <2>1, Untouched DEF IInv, Typed, Stepping
<1>25. CASE Progress
  BY <1>25, <1>1, <1>2, <1>3, <1>4, <1>5, <1>6, <1>7, <1>8, <1>9, <1>10, <1>11,
     <1>12, <1>13, <1>14, <1>15, <1>16, <1>17, <1>18, <1>19, <1>20, <1>21, <1>23, <1>26
     DEF Progress
<1> QED BY <1>22, <1>24, <1>25 DEF Next, Finished

(* In every behaviour, the invariant always holds.                         *)
THEOREM Invariance == Spec => []IInv
<1>1. IInv /\ UNCHANGED vars => IInv'
  BY IInvStep
<1> QED BY IInvInit, IInvStep, PTL DEF Spec

(* A request is passed on once: the host it was sent to serves it under    *)
(* the decision that sent it, for any hosts, chains, prices, delays and    *)
(* losses (serving.py, prefill; scheduler.py, decide).                     *)
THEOREM SentOnce == Spec => []SentOnceServed
<1>1. IInv => SentOnceServed
  BY DEF IInv, Placed, SentOnceServed
<1> QED BY <1>1, Invariance, PTL

(* A recorded answer is there exactly while its one reader is on its way   *)
(* (scheduler.py, _placed).                                                *)
THEOREM PlacedOneReader == Spec => []PlacedAwaited
<1>1. IInv => PlacedAwaited
  BY DEF IInv, Typed, Placed, PlacedAwaited
<1> QED BY <1>1, Invariance, PTL

-----------------------------------------------------------------------------
(* Outcome rows.                                                           *)

Rows == [state : {"none", "refused", "open"}, cached : Int, uncached : Int, moved : Int,
         published : BOOLEAN, decode : Int, handed : Int, missed : BOOLEAN, resident : Int,
         noroom : BOOLEAN, output : Int]

Unopened == {"new", "asking", "answered"}
Prefilling == {"sourcing", "pulling", "fetching", "queued", "running", "published", "prefilled",
               "handing", "moving"}
InDecode == {"resided", "decoding", "emitted"}

(* The row of a request at each stage of its way: until it is handed over  *)
(* nothing is resident for it, and from then on what was brought is.       *)
Booked(r) ==
  /\ ledger[r].state = CASE pc[r] \in Unopened -> "none"
                         [] pc[r] = "refused" -> "refused"
                         [] OTHER -> "open"
  /\ ledger[r].state = "open" => ledger[r].cached + ledger[r].uncached = Len(Chain[r])
  /\ pc[r] \in Fetching =>
       /\ ledger[r].moved = plan[r].match - plan[r].local
       /\ ledger[r].uncached = uncached[r]
  /\ pc[r] \in InPass => kv[r] = ledger[r].moved /\ uncached[r] = ledger[r].uncached
  /\ pc[r] \in Prefilling => ledger[r].resident = 0 /\ ledger[r].handed = 0
  /\ pc[r] \in InDecode =>
       /\ ledger[r].decode = plan[r].decode
       /\ ~ledger[r].noroom => ledger[r].resident = ledger[r].handed
  /\ pc[r] \in {"decoding", "emitted"} => Steps(r) # 0
  /\ pc[r] = "done" =>
       /\ ledger[r].decode = plan[r].decode
       /\ ledger[r].output = Later(1, Output[r])
       /\ ~ledger[r].noroom => ledger[r].resident = ledger[r].handed + Len(Generated(r))

BInv == ledger \in [Requests -> Rows] /\ \A r \in Requests : Booked(r)

(* A request that decodes nothing leaves nothing behind.                   *)
LEMMA NothingGenerated ==
  ASSUME NEW r \in Requests, Steps(r) = 0
  PROVE  Generated(r) = << >> /\ Len(Generated(r)) = 0
<1> DEFINE none == [i \in 1 .. 0 |-> -i]
<1>1. BlocksFor(Steps(r), BlockTokens) = 0
  BY DEF BlocksFor
<1>2. none \in Seq(Int) /\ Len(none) = 0
  OBVIOUS
<1>3. Generated(r) = Extend(Chain[r][Len(Chain[r])], none)
  BY <1>1 DEF Generated, ContinuationKeys
<1> HIDE DEF none
<1>4. Generated(r) = [i \in 1 .. 0 |-> Chain[r][Len(Chain[r])] \o SubSeq(none, 1, i)]
  BY <1>2, <1>3 DEF Extend
<1>5. DOMAIN Generated(r) = 1 .. 0
  BY <1>4
<1>6. Generated(r) = << >>
  BY <1>4
<1> QED BY <1>6

(* How many tokens a request has when it is over.                          *)
LEMMA TokenCount ==
  ASSUME NEW r \in Requests
  PROVE  /\ Steps(r) \in Nat
         /\ 1 + Steps(r) = Later(1, Output[r])
<1>1. Output[r] \in Nat
  BY ServingAssumption
<1> QED BY <1>1 DEF Steps, Later

(* What a generation leaves behind can be counted.                         *)
LEMMA GeneratedLength ==
  ASSUME NEW r \in Requests
  PROVE  Len(Generated(r)) \in Int
<1> DEFINE count == BlocksFor(Steps(r), BlockTokens)
           segments == [i \in 1 .. count |-> -i]
<1>1. Steps(r) \in Nat /\ BlockTokens \in Nat \ {0}
  BY TokenCount, ServingAssumption
<1>2. count \in Nat
  BY <1>1 DEF BlocksFor
<1> HIDE DEF count
<1>3. segments \in Seq(Int) /\ Len(segments) = count
  BY <1>2
<1> HIDE DEF segments
<1>4. Generated(r) = [i \in 1 .. count |-> Chain[r][Len(Chain[r])] \o SubSeq(segments, 1, i)]
  BY <1>3 DEF Generated, ContinuationKeys, Extend, count, segments
<1> QED BY <1>2, <1>4

(* The row a request starts from.                                          *)
LEMMA NoRowIsRow ==
  NoRow \in Rows /\ NoRow.state = "none" /\ NoRow.resident = 0 /\ NoRow.handed = 0
BY DEF NoRow, Rows

(* What a publish of the decode host does to a row.                        *)
LEMMA ResidentRow ==
  ASSUME NEW line \in Rows, NEW n \in Int, NEW ok \in BOOLEAN
  PROVE  LET grown == DecodeResident(line, n, ok)
         IN /\ grown \in Rows /\ grown.state = line.state /\ grown.cached = line.cached
            /\ grown.uncached = line.uncached /\ grown.decode = line.decode
            /\ grown.handed = line.handed
            /\ ~grown.noroom => grown.resident = line.resident + n
            /\ ~grown.noroom => ~line.noroom
<1> DEFINE kept == [line EXCEPT !.resident = @ + n]
           refused == [line EXCEPT !.noroom = TRUE]
<1>1. /\ kept \in Rows /\ kept.state = line.state /\ kept.cached = line.cached
      /\ kept.uncached = line.uncached /\ kept.decode = line.decode
      /\ kept.handed = line.handed /\ kept.noroom = line.noroom
      /\ kept.resident = line.resident + n
  BY DEF Rows
<1>2. /\ refused \in Rows /\ refused.state = line.state /\ refused.cached = line.cached
      /\ refused.uncached = line.uncached /\ refused.decode = line.decode
      /\ refused.handed = line.handed /\ refused.noroom = TRUE
  BY DEF Rows
<1>3. CASE ok
  <2>1. DecodeResident(line, n, ok) = kept
    BY <1>3 DEF DecodeResident
  <2> HIDE DEF kept
  <2> QED BY <1>1, <2>1, Zenon
<1>4. CASE ~ok
  <2>1. DecodeResident(line, n, ok) = refused
    BY <1>4 DEF DecodeResident
  <2> HIDE DEF refused
  <2> QED BY <1>2, <2>1, Zenon
<1> QED BY <1>3, <1>4

(* A step that leaves a request and its row alone leaves what is said.     *)
LEMMA BookedUntouched ==
  ASSUME NEW q, Booked(q),
         pc'[q] = pc[q], plan'[q] = plan[q], ledger'[q] = ledger[q],
         kv'[q] = kv[q], uncached'[q] = uncached[q]
  PROVE  Booked(q)'
BY DEF Booked, Steps, Generated

(* A step of one request keeps the rows if it keeps that request's.        *)
LEMMA OneRow ==
  ASSUME BInv, NEW r \in Requests, NEW line \in Rows, ledger' = [ledger EXCEPT ![r] = line],
         Booked(r)',
         \A q \in Requests \ {r} :
           pc'[q] = pc[q] /\ plan'[q] = plan[q] /\ kv'[q] = kv[q] /\ uncached'[q] = uncached[q]
  PROVE  BInv'
<1>1. ledger' \in [Requests -> Rows] /\ \A q \in Requests \ {r} : ledger'[q] = ledger[q]
  BY DEF BInv
<1>2. \A q \in Requests \ {r} : Booked(q)'
  BY <1>1, BookedUntouched DEF BInv
<1> QED BY <1>1, <1>2 DEF BInv

(* A request moves on and its row stays, in a stage with no more to say.   *)
LEMMA QuietRow ==
  ASSUME IInv, BInv, NEW r \in Requests, NEW from \in Phases, NEW to \in Phases,
         Moves(r, from, to), UNCHANGED <<plan, kv, uncached, ledger>>,
         \/ from \in Unopened /\ to \in Unopened
         \/ from \in Fetching /\ to \in Fetching
         \/ from \in InPass /\ to \in InPass
         \/ from \in Prefilling /\ to \in Prefilling \ (Fetching \union InPass)
  PROVE  BInv'
<1>1. /\ pc[r] = from /\ pc'[r] = to
      /\ \A q \in Requests \ {r} : pc'[q] = pc[q]
  BY MovesOne
<1>2. Booked(r)'
  BY <1>1 DEF BInv, Booked, Unopened, Fetching, InPass, Prefilling, InDecode
<1>3. \A q \in Requests \ {r} : Booked(q)'
  BY <1>1, BookedUntouched DEF BInv
<1> QED BY <1>2, <1>3 DEF BInv

(* A request is admitted on a line that names its decode host.             *)
LEMMA AdmittedRow ==
  ASSUME IInv, BInv, NEW r \in Requests, NEW from \in Prefilling \union {"resided"},
         NEW line \in Rows, Admit(r, from, line), UNCHANGED <<plan, kv, uncached>>,
         line.state = ledger[r].state, line.cached = ledger[r].cached,
         line.uncached = ledger[r].uncached, line.decode = plan[r].decode,
         ~line.noroom => line.resident = line.handed
  PROVE  BInv'
<1> DEFINE to == IF Steps(r) = 0 THEN "done" ELSE "decoding"
           after == IF Steps(r) = 0 THEN Completed(line, 1) ELSE line
<1>1. /\ pc[r] = from /\ pc'[r] = to
      /\ \A q \in Requests \ {r} : pc'[q] = pc[q]
  BY MovesOne DEF Admit, Phases
<1>2. ledger' = [ledger EXCEPT ![r] = after]
  BY DEF Admit
<1>3. after \in Rows
  BY DEF Completed, Rows
<1>4. ledger'[r] = after
  BY <1>2 DEF BInv
<1>5. ledger[r].state = "open" /\ ledger[r].cached + ledger[r].uncached = Len(Chain[r])
  BY <1>1 DEF BInv, Booked, Unopened, Prefilling
<1>6. Booked(r)'
  <2>1. CASE Steps(r) = 0
    <3>1. Len(Generated(r)) = 0 /\ 1 = Later(1, Output[r])
      BY <2>1, NothingGenerated, TokenCount
    <3>2. /\ after.state = line.state /\ after.cached = line.cached
          /\ after.uncached = line.uncached /\ after.decode = line.decode
          /\ after.noroom = line.noroom /\ after.resident = line.resident
          /\ after.handed = line.handed /\ after.output = 1 /\ line.handed \in Int
      BY <2>1 DEF Completed, Rows
    <3>3. ~after.noroom => after.resident = after.handed + Len(Generated(r))
      BY <3>1, <3>2
    <3>4. pc'[r] = "done"
      BY <1>1, <2>1
    <3> QED BY <1>4, <1>5, <3>1, <3>2, <3>3, <3>4
        DEF Booked, Unopened, Fetching, InPass, Prefilling, InDecode, Steps, Generated
  <2>2. CASE Steps(r) # 0
    <3>1. pc'[r] = "decoding" /\ ledger'[r] = line
      BY <1>1, <1>4, <2>2
    <3> QED BY <1>5, <2>2, <3>1
        DEF Booked, Unopened, Fetching, InPass, Prefilling, InDecode, Steps
  <2> QED BY <2>1, <2>2
<1> QED BY <1>1, <1>2, <1>3, <1>6, OneRow

(* Every step keeps the rows.                                              *)
LEMMA BInvStep ==
  ASSUME IInv, BInv, [Next]_vars
  PROVE  BInv'
<1>0. /\ plan \in [Requests -> HostPlans \union {NoPlan}]
      /\ kv \in [Requests -> Int] /\ uncached \in [Requests -> Int]
      /\ \A q \in Requests : Placed(q) /\ InHand(q)
      /\ ledger \in [Requests -> Rows] /\ \A q \in Requests : Booked(q)
  BY DEF IInv, Typed, BInv
<1>1. ASSUME NEW q \in Requests, pc[q] \notin Early
      PROVE  /\ plan[q].match \in Int /\ plan[q].local \in Int /\ plan[q].decode \in Int
             /\ Len(Chain[q]) \in Int
  <2>1. plan[q] \in HostPlans
    BY <1>0, <1>1 DEF Placed, Early
  <2>2. (\A h \in Hosts : h \in Int) /\ Len(Chain[q]) \in Int
    BY HostsNumbered, ChainsFinite
  <2> QED BY <2>1, <2>2 DEF HostPlans
<1>2. ASSUME NEW r \in Requests, Land(r) \/ Redirect(r) PROVE BInv'
  BY <1>2, QuietRow DEF Land, Redirect, workVars, Phases, Unopened
<1>3. ASSUME NEW r \in Requests, DecideRecorded(r) \/ Decide(r) PROVE BInv'
  <2>1. Moves(r, "asking", "answered") /\ UNCHANGED <<kv, uncached, ledger>>
    BY <1>3 DEF DecideRecorded, Decide, workVars
  <2>2. \A q \in Requests \ {r} : plan'[q] = plan[q]
    BY <1>0, <1>3 DEF DecideRecorded, Decide
  <2>3. pc[r] = "asking" /\ pc'[r] = "answered" /\ \A q \in Requests \ {r} : pc'[q] = pc[q]
    BY <2>1, MovesOne DEF Phases
  <2>4. Booked(r)'
    BY <1>0, <2>1, <2>3 DEF Booked, Unopened, Fetching, InPass, Prefilling, InDecode
  <2> QED BY <1>0, <2>1, <2>2, <2>3, <2>4, BookedUntouched DEF BInv
<1>4. ASSUME NEW r \in Requests, Refuse(r) PROVE BInv'
  <2> DEFINE line == [NoRow EXCEPT !.state = "refused"]
  <2>1. /\ pc'[r] = "refused" /\ \A q \in Requests \ {r} : pc'[q] = pc[q]
    BY <1>4, MovesOne DEF Refuse, Phases
  <2>2. UNCHANGED <<plan, kv, uncached>> /\ ledger' = [ledger EXCEPT ![r] = line]
    BY <1>4 DEF Refuse, Add, workVars
  <2>3. line \in Rows /\ line.state = "refused"
    BY NoRowIsRow DEF Rows
  <2>4. Booked(r)'
    BY <1>0, <2>1, <2>2, <2>3 DEF Booked, Unopened, Fetching, InPass, Prefilling, InDecode
  <2> HIDE DEF line
  <2> QED BY <2>1, <2>2, <2>3, <2>4, OneRow
<1>5. ASSUME NEW r \in Requests, Serve(r) PROVE BInv'
  <2> DEFINE line == Accepted(r)
  <2>1. /\ pc[r] = "answered" /\ pc'[r] = IF plan[r].source = -1 THEN "queued" ELSE "sourcing"
        /\ \A q \in Requests \ {r} : pc'[q] = pc[q]
    BY <1>5, MovesOne DEF Serve, Phases
  <2>2. /\ UNCHANGED <<plan, kv>> /\ ledger' = [ledger EXCEPT ![r] = line]
        /\ uncached' = [uncached EXCEPT ![r] = Len(Chain[r]) - plan[r].match]
    BY <1>5 DEF Serve, Add
  <2>3. /\ plan[r].match \in Int /\ plan[r].local \in Int /\ Len(Chain[r]) \in Int
        /\ kv[r] = 0
        /\ plan[r].source = -1 => plan[r].match = plan[r].local
    BY <1>0, <2>1, ServingAssumption DEF Placed, HostPlans, InHand
  <2>4. /\ line \in Rows /\ line.state = "open" /\ line.cached = plan[r].match
        /\ line.uncached = Len(Chain[r]) - plan[r].match
        /\ line.moved = IF plan[r].source = -1 THEN 0 ELSE plan[r].match - plan[r].local
        /\ line.resident = 0 /\ line.handed = 0
    <3> DEFINE moved == IF plan[r].source = -1 THEN 0 ELSE plan[r].match - plan[r].local
    <3>1. moved \in Int /\ Len(Chain[r]) - plan[r].match \in Int
      BY <2>3
    <3> HIDE DEF moved
    <3>2. line = [NoRow EXCEPT !.state = "open", !.cached = plan[r].match,
                               !.uncached = Len(Chain[r]) - plan[r].match, !.moved = moved]
      BY DEF Accepted, moved
    <3>3. /\ line \in Rows /\ line.state = "open" /\ line.cached = plan[r].match
          /\ line.uncached = Len(Chain[r]) - plan[r].match /\ line.moved = moved
          /\ line.resident = NoRow.resident /\ line.handed = NoRow.handed
      BY ZenonT(30), <2>3, <3>1, <3>2, NoRowIsRow DEF Rows
    <3> QED BY <3>3, NoRowIsRow DEF moved
  <2> HIDE DEF line
  <2>5. ledger'[r] = line /\ uncached'[r] = Len(Chain[r]) - plan[r].match /\ kv'[r] = 0
    BY <1>0, <2>2, <2>3
  <2>6. Booked(r)'
    BY <2>1, <2>2, <2>3, <2>4, <2>5 DEF Booked, Unopened, Fetching, InPass, Prefilling, InDecode
  <2>7. \A q \in Requests \ {r} : uncached'[q] = uncached[q] /\ kv'[q] = kv[q] /\ plan'[q] = plan[q]
    BY <1>0, <2>2
  <2> QED BY <2>1, <2>2, <2>4, <2>6, <2>7, OneRow
<1>6. ASSUME NEW r \in Requests,
             PullSources(r) \/ Pull(r) \/ StartPass(r) \/ Finish(r) \/ HandSources(r) \/ Hand(r)
      PROVE  BInv'
  BY <1>6, QuietRow DEF PullSources, Pull, StartPass, Finish, HandSources, Hand, workVars, Phases,
                        Unopened, Fetching, InPass, Prefilling
<1>7. ASSUME NEW r \in Requests, Pulled(r) PROVE BInv'
  <2>1. /\ pc[r] = "fetching" /\ pc'[r] = "queued" /\ \A q \in Requests \ {r} : pc'[q] = pc[q]
    BY <1>7, MovesOne DEF Pulled, Phases
  <2>2. /\ UNCHANGED <<plan, uncached, ledger>>
        /\ kv' = [kv EXCEPT ![r] = plan[r].match - plan[r].local]
    BY <1>7 DEF Pulled
  <2>3. kv'[r] = plan[r].match - plan[r].local /\ \A q \in Requests \ {r} : kv'[q] = kv[q]
    BY <1>0, <2>2
  <2>4. Booked(r)'
    BY <1>0, <2>1, <2>2, <2>3 DEF Booked, Unopened, Fetching, InPass, Prefilling, InDecode
  <2> QED BY <1>0, <2>1, <2>2, <2>3, <2>4, BookedUntouched DEF BInv
<1>8. ASSUME NEW r \in Requests, PullMiss(r) PROVE BInv'
  <2> DEFINE line == [ledger[r] EXCEPT !.cached = plan[r].local,
                                       !.uncached = Len(Chain[r]) - plan[r].local, !.moved = 0]
  <2>1. /\ pc[r] = "pulling" /\ pc'[r] = "queued" /\ \A q \in Requests \ {r} : pc'[q] = pc[q]
    BY <1>8, MovesOne DEF PullMiss, Phases
  <2>2. /\ UNCHANGED <<plan, kv>>
        /\ uncached' = [uncached EXCEPT ![r] = Len(Chain[r]) - plan[r].local]
        /\ ledger' = [ledger EXCEPT ![r].cached = plan[r].local,
                                    ![r].uncached = Len(Chain[r]) - plan[r].local, ![r].moved = 0]
    BY <1>8 DEF PullMiss
  <2>3. plan[r].local \in Int /\ Len(Chain[r]) \in Int /\ kv[r] = 0
    BY <1>0, <1>1, <2>1 DEF InHand, Early
  <2>4. ledger' = [ledger EXCEPT ![r] = line]
    BY <1>0, <2>2
  <2>5. /\ line \in Rows /\ line.state = ledger[r].state /\ line.cached = plan[r].local
        /\ line.uncached = Len(Chain[r]) - plan[r].local /\ line.moved = 0
        /\ line.resident = ledger[r].resident /\ line.handed = ledger[r].handed
    <3>1. ledger[r] \in Rows /\ Len(Chain[r]) - plan[r].local \in Int
      BY <1>0, <2>3
    <3> DEFINE old == ledger[r]
               local == plan[r].local
               rest == Len(Chain[r]) - plan[r].local
    <3>2. old \in Rows /\ local \in Int /\ rest \in Int
      BY <2>3, <3>1
    <3> HIDE DEF old, local, rest
    <3>3. line = [old EXCEPT !.cached = local, !.uncached = rest, !.moved = 0]
      BY DEF old, local, rest
    <3> HIDE DEF line
    <3>4. /\ line \in Rows /\ line.state = old.state /\ line.cached = local
          /\ line.uncached = rest /\ line.moved = 0
          /\ line.resident = old.resident /\ line.handed = old.handed
      <4> DEFINE first == [old EXCEPT !.cached = local]
                 second == [first EXCEPT !.uncached = rest]
      <4>1. /\ first \in Rows /\ first.state = old.state /\ first.cached = local
            /\ first.resident = old.resident /\ first.handed = old.handed
        BY <3>2 DEF Rows
      <4> HIDE DEF first
      <4>2. /\ second \in Rows /\ second.state = first.state /\ second.cached = first.cached
            /\ second.uncached = rest
            /\ second.resident = first.resident /\ second.handed = first.handed
        BY <3>2, <4>1 DEF Rows
      <4>3. line = [second EXCEPT !.moved = 0]
        BY <3>3 DEF first
      <4> HIDE DEF second
      <4>4. /\ line \in Rows /\ line.state = second.state /\ line.cached = second.cached
            /\ line.uncached = second.uncached /\ line.moved = 0
            /\ line.resident = second.resident /\ line.handed = second.handed
        BY <4>2, <4>3 DEF Rows
      <4> QED BY <4>1, <4>2, <4>4
    <3> QED BY <3>4 DEF old, local, rest
  <2> HIDE DEF line
  <2>6. ledger'[r] = line /\ uncached'[r] = Len(Chain[r]) - plan[r].local /\ kv'[r] = 0
    BY <1>0, <2>2, <2>3, <2>4
  <2>9. ledger[r].state = "open" /\ ledger[r].resident = 0 /\ ledger[r].handed = 0
    BY <1>0, <2>1 DEF Booked, Unopened, Prefilling
  <2>10. line.cached + line.uncached = Len(Chain[r])
    BY <2>3, <2>5
  <2>7. Booked(r)'
    BY <2>1, <2>5, <2>6, <2>9, <2>10 DEF Booked, Unopened, Fetching, InPass, Prefilling, InDecode
  <2>8. \A q \in Requests \ {r} : uncached'[q] = uncached[q] /\ kv'[q] = kv[q] /\ plan'[q] = plan[q]
    BY <1>0, <2>2
  <2> QED BY <2>1, <2>4, <2>5, <2>7, <2>8, OneRow
<1>9. ASSUME NEW r \in Requests, Publish(r) PROVE BInv'
  <2>1. PICK ok \in BOOLEAN : ledger' = [ledger EXCEPT ![r].published = ok]
    BY <1>9 DEF Publish
  <2> DEFINE line == [ledger[r] EXCEPT !.published = ok]
  <2>2. /\ pc[r] = "running" /\ pc'[r] = "published" /\ \A q \in Requests \ {r} : pc'[q] = pc[q]
    BY <1>9, MovesOne DEF Publish, Phases
  <2>3. /\ UNCHANGED plan /\ kv' = [kv EXCEPT ![r] = 0] /\ uncached' = [uncached EXCEPT ![r] = 0]
    BY <1>9 DEF Publish
  <2>4. ledger' = [ledger EXCEPT ![r] = line]
    BY <1>0, <2>1
  <2>5. /\ line \in Rows /\ line.state = ledger[r].state /\ line.cached = ledger[r].cached
        /\ line.uncached = ledger[r].uncached
        /\ line.resident = ledger[r].resident /\ line.handed = ledger[r].handed
    BY <1>0 DEF Rows
  <2> HIDE DEF line
  <2>6. ledger'[r] = line
    BY <1>0, <2>4
  <2>7. Booked(r)'
    BY <1>0, <2>2, <2>5, <2>6 DEF Booked, Unopened, Fetching, InPass, Prefilling, InDecode
  <2>8. \A q \in Requests \ {r} : uncached'[q] = uncached[q] /\ kv'[q] = kv[q] /\ plan'[q] = plan[q]
    BY <1>0, <2>3
  <2> QED BY <2>2, <2>4, <2>5, <2>7, <2>8, OneRow
<1>10. ASSUME NEW r \in Requests, NEW from \in {"prefilled", "handing"}, NEW missed \in BOOLEAN,
              Admit(r, from, HandedOff(r, 0, missed)), UNCHANGED <<plan, kv, uncached>>
       PROVE  BInv'
  <2> DEFINE line == HandedOff(r, 0, missed)
  <2>1. pc[r] = from
    BY <1>10 DEF Admit, Moves
  <2>2. plan[r].decode \in Int /\ ledger[r].resident = 0
    BY <1>0, <1>1, <2>1 DEF Booked, Early, Prefilling
  <2>3. /\ line \in Rows /\ line.state = ledger[r].state /\ line.cached = ledger[r].cached
        /\ line.uncached = ledger[r].uncached /\ line.decode = plan[r].decode
        /\ line.resident = 0 /\ line.handed = 0
    BY ZenonT(30), <1>0, <2>2 DEF HandedOff, Rows
  <2>4. Admit(r, from, line)
    BY <1>10
  <2> HIDE DEF line
  <2> QED BY <1>10, <2>3, <2>4, AdmittedRow DEF Prefilling
<1>11. ASSUME NEW r \in Requests, DecodeHere(r) PROVE BInv'
  BY <1>10, <1>11 DEF DecodeHere, workVars
<1>12. ASSUME NEW r \in Requests, HandMiss(r) PROVE BInv'
  BY <1>10, <1>12 DEF HandMiss, workVars
<1>13. ASSUME NEW r \in Requests, Reside(r) PROVE BInv'
  <2> DEFINE handed == HandedOff(r, Len(Chain[r]), FALSE)
  <2>1. PICK ok \in BOOLEAN :
          ledger' = [ledger EXCEPT ![r] = DecodeResident(handed, Len(Chain[r]), ok)]
    BY <1>13 DEF Reside
  <2> DEFINE line == DecodeResident(handed, Len(Chain[r]), ok)
  <2>2. /\ pc[r] = "moving" /\ pc'[r] = "resided" /\ \A q \in Requests \ {r} : pc'[q] = pc[q]
    BY <1>13, MovesOne DEF Reside, Phases
  <2>3. UNCHANGED <<plan, kv, uncached>>
    BY <1>13 DEF Reside
  <2>4. plan[r].decode \in Int /\ Len(Chain[r]) \in Int /\ ledger[r].resident = 0
    BY <1>0, <1>1, <2>2 DEF Booked, Early, Prefilling
  <2>5. /\ handed \in Rows /\ handed.state = ledger[r].state /\ handed.cached = ledger[r].cached
        /\ handed.uncached = ledger[r].uncached /\ handed.decode = plan[r].decode
        /\ handed.resident = 0 /\ handed.handed = Len(Chain[r])
    BY ZenonT(30), <1>0, <2>4 DEF HandedOff, Rows
  <2> HIDE DEF handed
  <2>6. /\ line \in Rows /\ line.state = handed.state /\ line.cached = handed.cached
        /\ line.uncached = handed.uncached /\ line.decode = handed.decode
        /\ line.handed = handed.handed
        /\ ~line.noroom => line.resident = Len(Chain[r])
    <3>1. /\ line \in Rows /\ line.state = handed.state /\ line.cached = handed.cached
          /\ line.uncached = handed.uncached /\ line.decode = handed.decode
          /\ line.handed = handed.handed
          /\ ~line.noroom => line.resident = handed.resident + Len(Chain[r])
      BY <2>4, <2>5, ResidentRow
    <3> QED BY <2>4, <2>5, <3>1
  <2> HIDE DEF line
  <2>7. ledger'[r] = line
    BY <1>0, <2>1 DEF line
  <2>8. Booked(r)'
    <3>1. ledger[r].state = "open" /\ ledger[r].cached + ledger[r].uncached = Len(Chain[r])
      BY <1>0, <2>2 DEF Booked, Unopened
    <3> QED BY <2>2, <2>3, <2>5, <2>6, <2>7, <3>1
        DEF Booked, Unopened, Fetching, InPass, Prefilling, InDecode
  <2> QED BY <2>1, <2>2, <2>3, <2>6, <2>8, OneRow DEF line
<1>14. ASSUME NEW r \in Requests, DecodeMoved(r) PROVE BInv'
  <2>1. pc[r] = "resided" /\ Admit(r, "resided", ledger[r]) /\ UNCHANGED <<plan, kv, uncached>>
    BY <1>14 DEF DecodeMoved, Admit, Moves, workVars
  <2>2. ledger[r] \in Rows /\ ledger[r].decode = plan[r].decode
        /\ (~ledger[r].noroom => ledger[r].resident = ledger[r].handed)
    BY <1>0, <2>1 DEF Booked, InDecode
  <2> QED BY <2>1, <2>2, AdmittedRow
<1>15. ASSUME NEW r \in Requests, Grow(r) PROVE BInv'
  <2> DEFINE size == Len(Generated(r))
  <2>1. PICK ok \in BOOLEAN :
          ledger' = [ledger EXCEPT ![r] =
                       Completed(DecodeResident(ledger[r], size, ok), 1 + Steps(r))]
    BY <1>15 DEF Grow
  <2> DEFINE grown == DecodeResident(ledger[r], size, ok)
             line == Completed(grown, 1 + Steps(r))
  <2>2. /\ pc[r] = "emitted" /\ pc'[r] = "done" /\ \A q \in Requests \ {r} : pc'[q] = pc[q]
    BY <1>15, MovesOne DEF Grow, Phases
  <2>3. UNCHANGED <<plan, kv, uncached>>
    BY <1>15 DEF Grow, workVars
  <2>4. size \in Int
    BY GeneratedLength
  <2> HIDE DEF size
  <2>5. /\ grown \in Rows /\ grown.state = ledger[r].state /\ grown.cached = ledger[r].cached
        /\ grown.uncached = ledger[r].uncached /\ grown.decode = ledger[r].decode
        /\ grown.handed = ledger[r].handed
        /\ ~grown.noroom => grown.resident = ledger[r].resident + size
        /\ ~grown.noroom => ~ledger[r].noroom
    BY <1>0, <2>4, ResidentRow
  <2> HIDE DEF grown
  <2>6. /\ line \in Rows /\ line.state = grown.state /\ line.cached = grown.cached
        /\ line.uncached = grown.uncached /\ line.decode = grown.decode
        /\ line.handed = grown.handed /\ line.noroom = grown.noroom
        /\ line.resident = grown.resident /\ line.output = Later(1, Output[r])
    BY <2>5, TokenCount DEF Completed, Rows
  <2>7. ledger' = [ledger EXCEPT ![r] = line]
    BY <2>1 DEF grown
  <2> HIDE DEF line
  <2>8. ledger'[r] = line
    BY <1>0, <2>7
  <2>9. /\ ledger[r].state = "open" /\ ledger[r].cached + ledger[r].uncached = Len(Chain[r])
        /\ ledger[r].decode = plan[r].decode
        /\ ~ledger[r].noroom => ledger[r].resident = ledger[r].handed
    BY <1>0, <2>2 DEF Booked, Unopened, InDecode
  <2>10. Booked(r)'
    BY <2>2, <2>3, <2>5, <2>6, <2>8, <2>9
    DEF Booked, Unopened, Fetching, InPass, Prefilling, InDecode, Generated, Steps, size
  <2> QED BY <2>2, <2>3, <2>6, <2>7, <2>10, OneRow
<1>16. ASSUME NEW h \in Hosts, StepStart(h) PROVE BInv'
  <2>1. UNCHANGED <<pc, plan, kv, uncached, ledger>>
    BY <1>16 DEF StepStart, callVars
  <2> QED BY <1>0, <2>1, BookedUntouched DEF BInv
<1>17. ASSUME NEW h \in Hosts, StepComplete(h) PROVE BInv'
  <2> DEFINE over == { r \in members[h] : left[r] = 1 }
  <2>1. /\ UNCHANGED <<plan, kv, uncached, ledger>>
        /\ pc' = [r \in Requests |-> IF r \in over THEN "emitted" ELSE pc[r]]
    BY <1>17 DEF StepComplete, Retired, workVars
  <2>2. \A q \in over : q \in Requests /\ pc[q] = "decoding"
    BY DEF IInv, Stepping
  <2> HIDE DEF over
  <2>3. ASSUME NEW q \in Requests PROVE Booked(q)'
    <3>1. CASE q \in over
      <4>1. pc[q] = "decoding" /\ pc'[q] = "emitted"
        BY <2>1, <2>2, <3>1
      <4> QED BY <1>0, <2>1, <4>1
          DEF Booked, Unopened, Fetching, InPass, Prefilling, InDecode, Steps
    <3>2. CASE q \notin over
      BY <1>0, <2>1, <3>2, BookedUntouched
    <3> QED BY <3>1, <3>2
  <2> QED BY <1>0, <2>1, <2>3 DEF BInv
<1>18. ASSUME NEW kept \in rows, Evict(kept[1], kept[2]) PROVE BInv'
  <2>1. UNCHANGED <<pc, plan, kv, uncached, ledger>>
    BY <1>18 DEF Evict, callVars, workVars
  <2> QED BY <1>0, <2>1, BookedUntouched DEF BInv
<1>19. CASE Tick \/ UNCHANGED vars
  <2>1. UNCHANGED <<pc, plan, kv, uncached, ledger>>
    BY <1>19 DEF Tick, vars, callVars, workVars
  <2> QED BY <1>0, <2>1, BookedUntouched DEF BInv
<1>20. CASE Progress
  BY <1>20, <1>2, <1>3, <1>4, <1>5, <1>6, <1>7, <1>8, <1>9, <1>11, <1>12, <1>13, <1>14, <1>15,
     <1>16, <1>17, <1>19 DEF Progress
<1> QED BY <1>18, <1>19, <1>20 DEF Next, Finished

(* The outcome rows add up, for any hosts, workload, prices, delays and    *)
(* losses (metrics.py, Metrics; serving.py, prefill and decode).           *)
THEOREM LedgerAddsUp == Spec => []RowsAddUp
<1>1. Init => BInv
  <2> SUFFICES ASSUME Init PROVE BInv
    OBVIOUS
  <2>1. NoRow \in Rows /\ NoRow.state = "none"
    BY DEF NoRow, Rows
  <2>2. pc = [r \in Requests |-> "new"] /\ ledger = [r \in Requests |-> NoRow]
    BY DEF Init
  <2> QED BY <2>1, <2>2 DEF BInv, Booked, Unopened, Fetching, InPass, Prefilling, InDecode
<1>2. IInv /\ BInv /\ [Next]_vars => BInv'
  BY BInvStep
<1>3. IInv /\ BInv => RowsAddUp
  BY DEF IInv, InHand, BInv, Booked, RowsAddUp, Unopened, InPass
<1> QED BY <1>1, <1>2, <1>3, Invariance, PTL DEF Spec

-----------------------------------------------------------------------------
(* Promised prefills, where decode has an accelerator of its own.          *)

(* The tail of a host's predicted queue covers every prefill promised on   *)
(* it, and no two promises overlap.                                        *)
TailCovers ==
  \A r \in Requests : plan[r] # NoPlan => plan[r].done <= busyUntil[plan[r].prefill]

PInv == TailCovers /\ PromisesDisjoint

(* Only a decision makes a promise, and nothing else lowers a tail.        *)
LEMMA OnlyDecidePromises ==
  ASSUME IInv, ~Coupled, [Next]_vars
  PROVE  \/ \E r \in Requests : Decide(r)
         \/ plan' = plan /\ \A h \in Hosts : busyUntil[h] <= busyUntil'[h]
<1> DEFINE Kept == plan' = plan /\ \A h \in Hosts : busyUntil[h] <= busyUntil'[h]
<1>0. /\ now \in Int /\ busyUntil \in [Hosts -> Int]
      /\ plan \in [Requests -> HostPlans \union {NoPlan}]
      /\ \A r \in Requests : Placed(r)
  BY DEF IInv, Typed
<1>1. (plan' = plan /\ busyUntil' = busyUntil) => Kept
  BY <1>0
<1>2. ASSUME NEW r \in Requests,
             \/ Land(r) \/ Refuse(r) \/ Redirect(r) \/ Serve(r) \/ PullSources(r)
             \/ Pull(r) \/ Pulled(r) \/ PullMiss(r) \/ StartPass(r) \/ Publish(r)
      PROVE  Kept
  BY <1>1, <1>2 DEF Land, Refuse, Redirect, Serve, PullSources, Answer, Pull, Pulled,
                    PullMiss, StartPass, Publish, sensorVars
<1>3. ASSUME NEW r \in Requests,
             \/ DecodeHere(r) \/ HandSources(r) \/ Hand(r) \/ HandMiss(r) \/ Reside(r)
             \/ DecodeMoved(r) \/ Grow(r)
      PROVE  Kept
  BY <1>1, <1>3 DEF DecodeHere, HandSources, Answer, Hand, HandMiss, Reside, DecodeMoved,
                    Grow, Admit, sensorVars
<1>4. ASSUME NEW r \in Requests, DecideRecorded(r) PROVE Kept
  <2>1. pc[r] = "asking" /\ placed[r] # NoPlan /\ plan' = [plan EXCEPT ![r] = placed[r]]
    BY <1>4 DEF DecideRecorded, Moves
  <2>2. placed[r] = plan[r]
    BY <1>0, <2>1 DEF Placed
  <2>3. plan' = plan
    BY <1>0, <2>1, <2>2
  <2> QED BY <1>1, <1>4, <2>3 DEF DecideRecorded, sensorVars
<1>5. ASSUME NEW r \in Requests, Finish(r) PROVE Kept
  BY <1>0, <1>5 DEF Finish, FoldPrefillFinished, Later
<1>6. ASSUME NEW h \in Hosts, StepStart(h) \/ StepComplete(h) PROVE Kept
  BY <1>1, <1>6 DEF StepStart, StepComplete, FoldComputeBusy, callVars
<1>7. ASSUME NEW kept \in rows, Evict(kept[1], kept[2]) PROVE Kept
  BY <1>1, <1>7 DEF Evict, sensorVars, callVars
<1>8. CASE Tick
  BY <1>1, <1>8 DEF Tick, sensorVars, callVars
<1>9. CASE UNCHANGED vars
  BY <1>1, <1>9 DEF vars, sensorVars, callVars
<1>10. Progress => Kept \/ \E r \in Requests : Decide(r)
  BY <1>2, <1>3, <1>4, <1>5, <1>6, <1>8 DEF Progress
<1> QED BY <1>7, <1>9, <1>10 DEF Next, Finished

(* Every step keeps the promises apart: a new one starts at the tail, past *)
(* every other.                                                            *)
LEMMA PInvStep ==
  ASSUME IInv, IInv', ~Coupled, PInv, [Next]_vars
  PROVE  PInv'
<1>0. /\ now \in Int /\ busyUntil \in [Hosts -> Int] /\ busyUntil' \in [Hosts -> Int]
      /\ plan \in [Requests -> HostPlans \union {NoPlan}]
  BY DEF IInv, Typed
<1>1. ASSUME NEW q \in Requests, plan[q] # NoPlan
      PROVE  plan[q].prefill \in Hosts /\ plan[q].done \in Int /\ plan[q].work \in Int
  BY <1>0, <1>1 DEF HostPlans
<1>2. CASE plan' = plan /\ \A h \in Hosts : busyUntil[h] <= busyUntil'[h]
  <2>1. PromisesDisjoint'
    BY <1>2 DEF PInv, PromisesDisjoint
  <2>2. TailCovers'
    <3> SUFFICES ASSUME NEW q \in Requests, plan[q] # NoPlan
                 PROVE  plan[q].done <= busyUntil'[plan[q].prefill]
      BY <1>2 DEF TailCovers
    <3>1. plan[q].done <= busyUntil[plan[q].prefill]
      BY DEF PInv, TailCovers
    <3> QED BY <1>0, <1>1, <1>2, <3>1
  <2> QED BY <2>1, <2>2 DEF PInv
<1>3. ASSUME NEW r \in Requests, Decide(r) PROVE PInv'
  <2>1. PICK p \in Decisions(r) : plan' = [plan EXCEPT ![r] = p] /\ FoldCommitted(r, p)
    BY <1>3 DEF Decide
  <2>2. p \in HostPlans /\ busyUntil[p.prefill] <= p.done - p.work
    BY <1>0, DecisionPlan
  <2>3. p.prefill \in Hosts /\ p.done \in Int /\ p.work \in Int
    BY <2>2 DEF HostPlans
  <2>4. busyUntil' = [busyUntil EXCEPT ![p.prefill] = p.done]
    BY <2>1 DEF FoldCommitted, BookTail
  <2>5. plan'[r] = p /\ \A q \in Requests \ {r} : plan'[q] = plan[q]
    BY <1>0, <2>1
  <2>6. 0 <= p.work
    BY <1>0, DecisionPlan
  <2>7. TailCovers'
    <3> SUFFICES ASSUME NEW q \in Requests, plan'[q] # NoPlan
                 PROVE  plan'[q].done <= busyUntil'[plan'[q].prefill]
      BY DEF TailCovers
    <3>1. CASE q = r
      BY <1>0, <2>3, <2>4, <2>5, <3>1
    <3>2. CASE q # r
      <4>1. plan[q].done <= busyUntil[plan[q].prefill]
        BY <2>5, <3>2 DEF PInv, TailCovers
      <4> QED BY <1>0, <1>1, <2>2, <2>3, <2>4, <2>5, <2>6, <3>2, <4>1
    <3> QED BY <3>1, <3>2
  <2>8. PromisesDisjoint'
    <3> SUFFICES ASSUME NEW a \in Requests, NEW b \in Requests, a # b,
                        plan'[a] # NoPlan, plan'[b] # NoPlan,
                        plan'[a].prefill = plan'[b].prefill
                 PROVE  \/ plan'[a].done <= plan'[b].done - plan'[b].work
                        \/ plan'[b].done <= plan'[a].done - plan'[a].work
      BY DEF PromisesDisjoint
    <3>1. CASE a # r /\ b # r
      BY <2>5, <3>1 DEF PInv, PromisesDisjoint
    <3>2. CASE a = r
      <4>1. plan[b].done <= busyUntil[p.prefill]
        BY <2>5, <3>2 DEF PInv, TailCovers
      <4>2. plan[b].done <= p.done - p.work
        BY <1>0, <1>1, <2>2, <2>3, <2>5, <3>2, <4>1
      <4> QED BY <2>5, <3>2, <4>2
    <3>3. CASE b = r
      <4>1. plan[a].done <= busyUntil[p.prefill]
        BY <2>5, <3>3 DEF PInv, TailCovers
      <4>2. plan[a].done <= p.done - p.work
        BY <1>0, <1>1, <2>2, <2>3, <2>5, <3>3, <4>1
      <4> QED BY <2>5, <3>3, <4>2
    <3> QED BY <3>1, <3>2, <3>3
  <2> QED BY <2>7, <2>8 DEF PInv
<1> QED BY <1>2, <1>3, OnlyDecidePromises

(* Where decode has its own accelerator, the prefills promised on a host   *)
(* never overlap, for any hosts, chains, prices, delays and losses         *)
(* (_selector.py, _predict; _cluster.py).                                  *)
THEOREM PromisesApart ==
  ASSUME ~Coupled
  PROVE  Spec => []PromisesDisjoint
<1>1. Init => PInv
  BY DEF Init, PInv, TailCovers, PromisesDisjoint
<1>2. IInv /\ IInv' /\ PInv /\ [Next]_vars => PInv'
  BY PInvStep
<1>3. PInv => PromisesDisjoint
  BY DEF PInv
<1> QED BY <1>1, <1>2, <1>3, Invariance, PTL DEF Spec
-----------------------------------------------------------------------------
(* Notes of priced pulls.                                                  *)

AllKeys == { Chain[r][i] : r \in Requests, i \in Int }

Notes == [inst : Hosts, keys : SUBSET AllKeys, peer : Int]

(* Where a sequence of notes has one of ks into inst.                      *)
Noted(s, inst, ks) == { j \in 1 .. Len(s) : s[j].inst = inst /\ s[j].keys = ks }

(* The phases in which a decided pull has not been asked about.            *)
Unasked == {"answered", "asking", "sourcing"}

(* No more notes of a pull than requests that will ask about it.           *)
MInv ==
  /\ pulls \in Seq(Notes)
  /\ \A inst, ks : Cardinality(Noted(pulls, inst, ks)) <= Cardinality(Awaiting(inst, ks))

LEMMA NotedFinite ==
  ASSUME NEW s \in Seq(Notes), NEW inst, NEW ks
  PROVE  IsFiniteSet(Noted(s, inst, ks)) /\ Cardinality(Noted(s, inst, ks)) \in Nat
<1>1. Len(s) \in Nat /\ IsFiniteSet(1 .. Len(s))
  BY FS_Interval
<1>2. Noted(s, inst, ks) \in SUBSET (1 .. Len(s))
  BY DEF Noted
<1>3. IsFiniteSet(Noted(s, inst, ks))
  BY <1>1, <1>2, FS_Subset
<1> QED BY <1>3, FS_CardinalityType

LEMMA AwaitingFinite ==
  ASSUME NEW inst, NEW ks
  PROVE  IsFiniteSet(Awaiting(inst, ks)) /\ Cardinality(Awaiting(inst, ks)) \in Nat
<1>1. IsFiniteSet(Requests)
  BY ServingAssumption
<1>2. Awaiting(inst, ks) \in SUBSET Requests
  BY DEF Awaiting
<1>3. IsFiniteSet(Awaiting(inst, ks))
  BY <1>1, <1>2, FS_Subset
<1> QED BY <1>3, FS_CardinalityType

(* One note more is one more of its own pull and of no other.              *)
LEMMA NotedAppend ==
  ASSUME NEW s \in Seq(Notes), NEW n \in Notes, NEW inst, NEW ks
  PROVE  Cardinality(Noted(Append(s, n), inst, ks)) =
           IF n.inst = inst /\ n.keys = ks THEN Cardinality(Noted(s, inst, ks)) + 1
           ELSE Cardinality(Noted(s, inst, ks))
<1> DEFINE t == Append(s, n)
<1>1. /\ Len(s) \in Nat /\ Len(t) = Len(s) + 1 /\ t[Len(s) + 1] = n
      /\ \A j \in 1 .. Len(s) : t[j] = s[j]
  OBVIOUS
<1> HIDE DEF t
<1>2. CASE n.inst = inst /\ n.keys = ks
  <2>1. Noted(t, inst, ks) = Noted(s, inst, ks) \union {Len(s) + 1}
    BY <1>1, <1>2 DEF Noted
  <2>2. Len(s) + 1 \notin Noted(s, inst, ks)
    BY <1>1 DEF Noted
  <2>3. IsFiniteSet(Noted(s, inst, ks))
    BY NotedFinite
  <2>4. Cardinality(Noted(t, inst, ks)) = Cardinality(Noted(s, inst, ks)) + 1
    BY <2>1, <2>2, <2>3, FS_AddElement
  <2> QED BY <1>2, <2>4 DEF t
<1>3. CASE ~(n.inst = inst /\ n.keys = ks)
  <2>1. Noted(t, inst, ks) = Noted(s, inst, ks)
    BY <1>1, <1>3 DEF Noted
  <2> QED BY <1>3, <2>1 DEF t
<1> QED BY <1>2, <1>3

(* Taking a note out leaves the others, one place up from there on.        *)
LEMMA RemoveAtShape ==
  ASSUME NEW s \in Seq(Notes), NEW i \in 1 .. Len(s)
  PROVE  /\ RemoveAt(s, i) \in Seq(Notes)
         /\ Len(RemoveAt(s, i)) = Len(s) - 1
         /\ \A j \in 1 .. Len(s) - 1 : RemoveAt(s, i)[j] = s[IF j < i THEN j ELSE j + 1]
<1> DEFINE a == SubSeq(s, 1, i - 1)
           b == SubSeq(s, i + 1, Len(s))
<1>1. Len(s) \in Nat /\ i \in Nat /\ 1 <= i /\ i <= Len(s)
  OBVIOUS
<1>2. a \in Seq(Notes) /\ Len(a) = i - 1 /\ \A j \in 1 .. i - 1 : a[j] = s[j]
  BY <1>1
<1>3. b \in Seq(Notes) /\ Len(b) = Len(s) - i /\ \A j \in 1 .. Len(s) - i : b[j] = s[i + j]
  BY <1>1
<1>4. RemoveAt(s, i) = a \o b
  BY DEF RemoveAt
<1> HIDE DEF a, b
<1>5. a \o b \in Seq(Notes) /\ Len(a \o b) = Len(s) - 1
  <2>1. a \o b \in Seq(Notes) /\ Len(a \o b) = Len(a) + Len(b)
    <3>1. a \in Seq(Notes) /\ b \in Seq(Notes)
      BY <1>2, <1>3
    <3>2. a \o b \in Seq(Notes)
      BY ONLY <3>1
    <3>3. Len(a \o b) = Len(a) + Len(b)
      BY ONLY <3>1
    <3> QED BY <3>2, <3>3
  <2> QED BY <1>1, <1>2, <1>3, <2>1
<1>6. ASSUME NEW j \in 1 .. Len(s) - 1
      PROVE  (a \o b)[j] = s[IF j < i THEN j ELSE j + 1]
  <2>1. CASE j < i
    <3>1. j \in 1 .. Len(a)
      BY <1>1, <1>2, <2>1
    <3>2. (a \o b)[j] = a[j]
      BY <1>2, <1>3, <3>1
    <3> QED BY <1>2, <2>1, <3>1, <3>2
  <2>2. CASE ~(j < i)
    <3>1. j - (i - 1) \in 1 .. Len(s) - i /\ i + (j - (i - 1)) = j + 1
      BY <1>1, <2>2
    <3>2. (a \o b)[j] = b[j - (i - 1)]
      BY <1>1, <1>2, <1>3, <2>2
    <3> QED BY <1>3, <2>2, <3>1, <3>2
  <2> QED BY <2>1, <2>2
<1> QED BY <1>4, <1>5, <1>6

(* Taking a note out never makes more of any, and one fewer of its own.    *)
LEMMA NotedRemove ==
  ASSUME NEW s \in Seq(Notes), NEW i \in 1 .. Len(s), NEW inst, NEW ks
  PROVE  Cardinality(Noted(RemoveAt(s, i), inst, ks)) <=
           IF i \in Noted(s, inst, ks) THEN Cardinality(Noted(s, inst, ks)) - 1
           ELSE Cardinality(Noted(s, inst, ks))
<1> DEFINE t == RemoveAt(s, i)
           S == Noted(t, inst, ks)
           T == Noted(s, inst, ks) \ {i}
           f == [j \in S |-> IF j < i THEN j ELSE j + 1]
<1>1. /\ t \in Seq(Notes) /\ Len(t) = Len(s) - 1
      /\ \A j \in 1 .. Len(s) - 1 : t[j] = s[IF j < i THEN j ELSE j + 1]
  BY RemoveAtShape
<1>2. Len(s) \in Nat /\ i \in Nat /\ 1 <= i /\ i <= Len(s)
  OBVIOUS
<1> HIDE DEF t
<1>3. ASSUME NEW j \in S
      PROVE  /\ j \in Nat
             /\ (IF j < i THEN j ELSE j + 1) \in T
  <2>1. j \in 1 .. Len(s) - 1 /\ t[j].inst = inst /\ t[j].keys = ks
    BY <1>1 DEF Noted
  <2> DEFINE m == IF j < i THEN j ELSE j + 1
  <2>2. m \in 1 .. Len(s) /\ m # i /\ j \in Nat
    BY <1>2, <2>1
  <2>3. s[m].inst = inst /\ s[m].keys = ks
    BY <1>1, <2>1
  <2> QED BY <2>2, <2>3 DEF Noted
<1> HIDE DEF S, T
<1>4. f \in [S -> T]
  BY <1>3
<1>5. \A j, k \in S : f[j] = f[k] => j = k
  BY <1>2, <1>3
<1>6. f \in Injection(S, T)
  BY <1>4, <1>5 DEF Injection, IsInjective
<1>7. IsFiniteSet(T) /\ Cardinality(T) = IF i \in Noted(s, inst, ks)
                                         THEN Cardinality(Noted(s, inst, ks)) - 1
                                         ELSE Cardinality(Noted(s, inst, ks))
  BY NotedFinite, FS_RemoveElement DEF T
<1>8. Cardinality(S) <= Cardinality(T)
  BY <1>6, <1>7, FS_Injection
<1> QED BY <1>7, <1>8 DEF S, t

(* A nonempty set of places has a first.                                   *)
LEMMA Least ==
  ASSUME NEW S \in SUBSET Nat, S # {}
  PROVE  \E n \in S : \A m \in S : n <= m
<1> DEFINE R == { ss \in Nat \X Nat : ss[1] < ss[2] }
<1>1. IsWellFoundedOn(R, Nat)
  BY NatLessThanWellFounded, Zenon DEF OpToRel
<1>2. PICK n \in S : \A m \in S : ~ (<<m, n>> \in R)
  <2> HIDE DEF R
  <2> QED BY WFMin, <1>1
<1>3. ASSUME NEW m \in S PROVE n <= m
  <2>1. n \in Nat /\ m \in Nat OBVIOUS
  <2>2. m < n => <<m, n>> \in R BY <2>1
  <2> QED BY <1>2, <2>1, <2>2
<1> QED BY <1>3

(* The answer to a fetch takes out a note of that pull if there is one.    *)
LEMMA Answered ==
  ASSUME pulls \in Seq(Notes), NEW inst, NEW ks, FoldFetchAnswered(inst, ks)
  PROVE  /\ pulls' \in Seq(Notes)
         /\ \A i, k : Cardinality(Noted(pulls', i, k)) <= Cardinality(Noted(pulls, i, k))
         /\ \/ Cardinality(Noted(pulls', inst, ks)) = 0
            \/ Cardinality(Noted(pulls', inst, ks)) <= Cardinality(Noted(pulls, inst, ks)) - 1
<1> DEFINE found == Noted(pulls, inst, ks)
           m == Match(inst, ks)
<1>0. \A i, k : Cardinality(Noted(pulls, i, k)) \in Nat
  BY NotedFinite
<1>1. CASE found = {}
  <2>1. m = 0
    BY <1>1 DEF Match, Noted
  <2>2. pulls' = pulls
    BY <2>1 DEF FoldFetchAnswered
  <2>3. Cardinality(found) = 0
    BY <1>1, FS_EmptySet
  <2> QED BY <1>0, <2>2, <2>3
<1>2. CASE found # {}
  <2>1. \E i \in found : \A j \in found : i <= j
    <3>1. found \in SUBSET Nat
      BY DEF Noted
    <3> HIDE DEF found
    <3> QED BY <1>2, <3>1, Least
  <2>2. m = CHOOSE i \in found : \A j \in found : i <= j
    BY <1>2 DEF Match, Noted
  <2>3. m \in found
    BY <2>1, <2>2
  <2>4. m \in 1 .. Len(pulls) /\ m # 0
    BY <2>3 DEF Noted
  <2>5. pulls' = RemoveAt(pulls, m)
    BY <2>4 DEF FoldFetchAnswered
  <2> HIDE DEF found, m
  <2>6. pulls' \in Seq(Notes)
    BY <2>4, <2>5, RemoveAtShape
  <2>7. \A i, k : Cardinality(Noted(pulls', i, k)) <=
                    IF m \in Noted(pulls, i, k) THEN Cardinality(Noted(pulls, i, k)) - 1
                    ELSE Cardinality(Noted(pulls, i, k))
    BY <2>4, <2>5, NotedRemove
  <2>8. \A i, k : Cardinality(Noted(pulls', i, k)) \in Nat
    BY <2>6, NotedFinite
  <2>9. Cardinality(Noted(pulls', inst, ks)) <= Cardinality(Noted(pulls, inst, ks)) - 1
    BY <2>3, <2>7 DEF found
  <2>10. \A i, k : Cardinality(Noted(pulls', i, k)) <= Cardinality(Noted(pulls, i, k))
    BY <1>0, <2>7, <2>8
  <2> QED BY <2>6, <2>9, <2>10
<1> QED BY <1>1, <1>2

(* What awaits is the same where no plan changes and the phases of those   *)
(* with a pull do not enter or leave the wait.                             *)
LEMMA SameAwaiting ==
  ASSUME plan' = plan,
         \A q \in Requests : plan[q].source # -1 => (pc'[q] \in Unasked <=> pc[q] \in Unasked),
         NEW inst, NEW ks
  PROVE  Awaiting(inst, ks)' = Awaiting(inst, ks)
BY DEF Awaiting, Unasked, PullKeys

(* So do the notes there may be, if none is added.                         *)
LEMMA QuietNotes ==
  ASSUME MInv, plan' = plan,
         \A q \in Requests : plan[q].source # -1 => (pc'[q] \in Unasked <=> pc[q] \in Unasked),
         pulls' \in Seq(Notes),
         \A i, k : Cardinality(Noted(pulls', i, k)) <= Cardinality(Noted(pulls, i, k))
  PROVE  MInv'
<1> SUFFICES ASSUME NEW inst, NEW ks
             PROVE  Cardinality(Noted(pulls', inst, ks)) <= Cardinality(Awaiting(inst, ks)')
  BY DEF MInv
<1>1. Awaiting(inst, ks)' = Awaiting(inst, ks)
  BY SameAwaiting
<1>2. Cardinality(Noted(pulls, inst, ks)) <= Cardinality(Awaiting(inst, ks))
  BY DEF MInv
<1>3. Cardinality(Noted(pulls', inst, ks)) <= Cardinality(Noted(pulls, inst, ks))
  OBVIOUS
<1>4. /\ Cardinality(Noted(pulls', inst, ks)) \in Nat /\ Cardinality(Noted(pulls, inst, ks)) \in Nat
      /\ Cardinality(Awaiting(inst, ks)) \in Nat
  BY NotedFinite, AwaitingFinite DEF MInv
<1> QED BY <1>1, <1>2, <1>3, <1>4

(* A request moves outside the wait, or has nothing to pull.               *)
LEMMA QuietPhase ==
  ASSUME IInv, MInv, UNCHANGED <<plan, pulls>>,
         NEW r \in Requests, NEW from \in Phases, NEW to \in Phases, Moves(r, from, to),
         plan[r].source = -1 \/ (from \in Unasked <=> to \in Unasked)
  PROVE  MInv'
<1>1. /\ pc[r] = from /\ pc'[r] = to
      /\ \A q \in Requests \ {r} : pc'[q] = pc[q]
  BY MovesOne
<1>2. \A q \in Requests : plan[q].source # -1 => (pc'[q] \in Unasked <=> pc[q] \in Unasked)
  BY <1>1
<1>3. pulls' \in Seq(Notes)
  BY DEF MInv
<1>4. \A i, k : Cardinality(Noted(pulls', i, k)) <= Cardinality(Noted(pulls, i, k))
  <2> TAKE i, k
  <2>1. Cardinality(Noted(pulls, i, k)) \in Nat
    BY NotedFinite DEF MInv
  <2> QED BY <2>1
<1> QED BY <1>2, <1>3, <1>4, QuietNotes

(* Every step keeps the notes awaited: a decision that notes a pull awaits *)
(* it, and the one step that ends a wait spends a note of it.              *)
LEMMA MInvStep ==
  ASSUME IInv, MInv, [Next]_vars
  PROVE  MInv'
<1>0. /\ now \in Int /\ busyUntil \in [Hosts -> Int]
      /\ plan \in [Requests -> HostPlans \union {NoPlan}] /\ pc \in [Requests -> Phases]
      /\ \A r \in Requests : Placed(r)
  BY DEF IInv, Typed
<1>1. NoPlan.source = -1
  BY DEF NoPlan
<1>2. ASSUME NEW r \in Requests,
             \/ Land(r) \/ Refuse(r) \/ Redirect(r) \/ Serve(r)
      PROVE  MInv'
  <2>1. CASE Land(r)
    <3>1. Moves(r, "new", "asking") /\ UNCHANGED <<plan, pulls>>
      BY <2>1 DEF Land, sensorVars
    <3>2. plan[r].source = -1
      BY <1>0, <1>1, <3>1 DEF Placed, Moves
    <3> QED BY <3>1, <3>2, QuietPhase DEF Phases
  <2>2. CASE Refuse(r)
    <3>1. Moves(r, "asking", "refused") /\ UNCHANGED <<plan, pulls>> /\ placed[r] = NoPlan
      BY <2>2 DEF Refuse, sensorVars
    <3>2. plan[r].source = -1
      BY <1>0, <1>1, <3>1 DEF Placed, Moves
    <3> QED BY <3>1, <3>2, QuietPhase DEF Phases
  <2>3. CASE Redirect(r)
    <3>1. Moves(r, "answered", "asking") /\ UNCHANGED <<plan, pulls>>
      BY <2>3 DEF Redirect, sensorVars
    <3> QED BY <3>1, QuietPhase DEF Phases, Unasked
  <2>4. CASE Serve(r)
    <3>1. /\ Moves(r, "answered", IF plan[r].source = -1 THEN "queued" ELSE "sourcing")
          /\ UNCHANGED <<plan, pulls>>
      BY <2>4 DEF Serve, sensorVars
    <3>2. CASE plan[r].source = -1
      BY <3>1, <3>2, QuietPhase DEF Phases
    <3>3. CASE plan[r].source # -1
      BY <3>1, <3>3, QuietPhase DEF Phases, Unasked
    <3> QED BY <3>2, <3>3
  <2> QED BY <1>2, <2>1, <2>2, <2>3, <2>4
<1>3. ASSUME NEW r \in Requests, DecideRecorded(r) PROVE MInv'
  <2>1. /\ Moves(r, "asking", "answered") /\ placed[r] # NoPlan /\ pulls' = pulls
        /\ plan' = [plan EXCEPT ![r] = placed[r]]
    BY <1>3 DEF DecideRecorded, sensorVars
  <2>2. placed[r] = plan[r]
    BY <1>0, <2>1 DEF Placed, Moves
  <2>3. plan' = plan
    BY <1>0, <2>1, <2>2
  <2> QED BY <2>1, <2>3, QuietPhase DEF Phases, Unasked
<1>4. ASSUME NEW r \in Requests, Decide(r) PROVE MInv'
  <2>1. PICK p \in Decisions(r) : plan' = [plan EXCEPT ![r] = p] /\ FoldCommitted(r, p)
    BY <1>4 DEF Decide
  <2>2. p \in HostPlans
    BY <1>0, DecisionPlan
  <2>3. /\ pc[r] = "asking" /\ pc'[r] = "answered"
        /\ \A q \in Requests \ {r} : pc'[q] = pc[q]
    BY <1>4, MovesOne DEF Decide, Phases
  <2>4. plan[r] = NoPlan
    BY <1>0, <1>4, <2>3 DEF Decide, Placed
  <2>5. plan'[r] = p /\ \A q \in Requests \ {r} : plan'[q] = plan[q]
    BY <1>0, <2>1
  <2>6. pulls' = IF p.source = -1 THEN pulls
                 ELSE Append(pulls, [inst |-> p.prefill, keys |-> PullKeys(r, p), peer |-> p.source])
    BY <2>1 DEF FoldCommitted, NotePull
  <2>7. \A inst, ks : r \notin Awaiting(inst, ks)
    BY <1>1, <2>4 DEF Awaiting
  <2>8. ASSUME NEW inst, NEW ks, NEW q \in Requests
        PROVE  q \in Awaiting(inst, ks)' <=>
                 \/ q \in Awaiting(inst, ks)
                 \/ q = r /\ p.source # -1 /\ p.prefill = inst /\ PullKeys(r, p) = ks
    <3>1. CASE q = r
      BY <2>3, <2>5, <2>7, <3>1 DEF Awaiting, PullKeys
    <3>2. CASE q # r
      BY <2>3, <2>5, <3>2 DEF Awaiting, PullKeys
    <3> QED BY <3>1, <3>2
  <2>11. \A inst, ks : Awaiting(inst, ks) \subseteq Requests /\ Awaiting(inst, ks)' \subseteq Requests
    BY DEF Awaiting
  <2>9. CASE p.source = -1
    <3>1. \A inst, ks : Awaiting(inst, ks)' = Awaiting(inst, ks)
      <4> TAKE inst, ks
      <4> QED BY <2>8, <2>9, <2>11
    <3> QED BY <2>6, <2>9, <3>1 DEF MInv
  <2>10. CASE p.source # -1
    <3> DEFINE n == [inst |-> p.prefill, keys |-> PullKeys(r, p), peer |-> p.source]
    <3>1. n \in Notes /\ n.inst = p.prefill /\ n.keys = PullKeys(r, p)
      <4>1. p.prefill \in Hosts /\ p.source \in Int /\ p.local \in Int /\ p.match \in Int
        BY <2>2 DEF HostPlans
      <4>2. PullKeys(r, p) \in SUBSET AllKeys
        BY <4>1 DEF PullKeys, AllKeys
      <4> QED BY <4>1, <4>2 DEF Notes
    <3>2. pulls' = Append(pulls, n) /\ pulls \in Seq(Notes)
      BY <2>6, <2>10 DEF MInv
    <3> HIDE DEF n
    <3>3. pulls' \in Seq(Notes)
      BY <3>1, <3>2
    <3>4. ASSUME NEW inst, NEW ks
          PROVE  Cardinality(Noted(pulls', inst, ks)) <= Cardinality(Awaiting(inst, ks)')
      <4>1. /\ Cardinality(Noted(pulls, inst, ks)) <= Cardinality(Awaiting(inst, ks))
            /\ Cardinality(Noted(pulls, inst, ks)) \in Nat
            /\ Cardinality(Awaiting(inst, ks)) \in Nat
            /\ IsFiniteSet(Awaiting(inst, ks))
        BY <3>2, NotedFinite, AwaitingFinite DEF MInv
      <4>2. CASE n.inst = inst /\ n.keys = ks
        <5>1. Awaiting(inst, ks)' = Awaiting(inst, ks) \union {r}
          BY <2>8, <2>10, <2>11, <3>1, <4>2
        <5>2. Cardinality(Awaiting(inst, ks)') = Cardinality(Awaiting(inst, ks)) + 1
          BY <2>7, <4>1, <5>1, FS_AddElement
        <5>3. Cardinality(Noted(pulls', inst, ks)) = Cardinality(Noted(pulls, inst, ks)) + 1
          BY <3>1, <3>2, <4>2, NotedAppend
        <5> QED BY <4>1, <5>2, <5>3
      <4>3. CASE ~(n.inst = inst /\ n.keys = ks)
        <5>1. Awaiting(inst, ks)' = Awaiting(inst, ks)
          BY <2>8, <2>11, <3>1, <4>3
        <5>2. Cardinality(Noted(pulls', inst, ks)) = Cardinality(Noted(pulls, inst, ks))
          BY <3>1, <3>2, <4>3, NotedAppend
        <5> QED BY <4>1, <5>1, <5>2
      <4> QED BY <4>2, <4>3
    <3> QED BY <3>3, <3>4 DEF MInv
  <2> QED BY <2>9, <2>10
<1>5. ASSUME NEW r \in Requests, PullSources(r) PROVE MInv'
  <2> DEFINE h == plan[r].prefill
             mine == PullKeys(r, plan[r])
  <2>1. /\ Moves(r, "sourcing", "pulling") /\ plan' = plan
        /\ FoldFetchAnswered(h, mine) /\ pulls \in Seq(Notes)
    BY <1>5 DEF PullSources, Answer, MInv
  <2>2. /\ pc[r] = "sourcing" /\ pc'[r] = "pulling"
        /\ \A q \in Requests \ {r} : pc'[q] = pc[q]
    BY <2>1, MovesOne DEF Phases
  <2>3. /\ pulls' \in Seq(Notes)
        /\ \A i, k : Cardinality(Noted(pulls', i, k)) <= Cardinality(Noted(pulls, i, k))
        /\ \/ Cardinality(Noted(pulls', h, mine)) = 0
           \/ Cardinality(Noted(pulls', h, mine)) <= Cardinality(Noted(pulls, h, mine)) - 1
    <3> HIDE DEF h, mine
    <3> QED BY <2>1, Answered
  <2>4. ASSUME NEW inst, NEW ks
        PROVE  Cardinality(Noted(pulls', inst, ks)) <= Cardinality(Awaiting(inst, ks)')
    <3>1. /\ Cardinality(Noted(pulls, inst, ks)) <= Cardinality(Awaiting(inst, ks))
          /\ Cardinality(Noted(pulls, inst, ks)) \in Nat
          /\ Cardinality(Noted(pulls', inst, ks)) \in Nat
          /\ Cardinality(Awaiting(inst, ks)) \in Nat
          /\ IsFiniteSet(Awaiting(inst, ks))
      BY <2>1, <2>3, NotedFinite, AwaitingFinite DEF MInv
    <3>2. CASE inst = h /\ ks = mine
      <4>1. Awaiting(inst, ks)' = Awaiting(inst, ks) \ {r}
        BY <2>1, <2>2 DEF Awaiting, PullKeys
      <4>2. /\ IsFiniteSet(Awaiting(inst, ks) \ {r})
            /\ Cardinality(Awaiting(inst, ks) \ {r}) \in Nat
            /\ Cardinality(Awaiting(inst, ks) \ {r}) >= Cardinality(Awaiting(inst, ks)) - 1
        <5>1. /\ IsFiniteSet(Awaiting(inst, ks) \ {r})
              /\ Cardinality(Awaiting(inst, ks) \ {r}) =
                   IF r \in Awaiting(inst, ks) THEN Cardinality(Awaiting(inst, ks)) - 1
                   ELSE Cardinality(Awaiting(inst, ks))
          BY <3>1, FS_RemoveElement
        <5>2. Cardinality(Awaiting(inst, ks) \ {r}) \in Nat
          BY <5>1, FS_CardinalityType
        <5> QED BY <3>1, <5>1, <5>2
      <4> HIDE DEF h, mine
      <4>3. \/ Cardinality(Noted(pulls', inst, ks)) = 0
            \/ Cardinality(Noted(pulls', inst, ks)) <= Cardinality(Noted(pulls, inst, ks)) - 1
        BY <2>3, <3>2
      <4> QED BY <3>1, <4>1, <4>2, <4>3
    <3>3. CASE ~(inst = h /\ ks = mine)
      <4>1. Awaiting(inst, ks)' = Awaiting(inst, ks)
        BY <2>1, <2>2, <3>3 DEF Awaiting, PullKeys
      <4>2. Cardinality(Noted(pulls', inst, ks)) <= Cardinality(Noted(pulls, inst, ks))
        BY <2>3
      <4> QED BY <3>1, <4>1, <4>2
    <3> QED BY <3>2, <3>3
  <2> QED BY <2>3, <2>4 DEF MInv
<1>6. ASSUME NEW r \in Requests, HandSources(r) PROVE MInv'
  <2>1. /\ Moves(r, "prefilled", "handing") /\ plan' = plan
        /\ FoldFetchAnswered(plan[r].decode, Keys(r)) /\ pulls \in Seq(Notes)
    BY <1>6 DEF HandSources, Answer, MInv
  <2>2. /\ pc[r] = "prefilled" /\ pc'[r] = "handing"
        /\ \A q \in Requests \ {r} : pc'[q] = pc[q]
    BY <2>1, MovesOne DEF Phases
  <2>3. /\ pulls' \in Seq(Notes)
        /\ \A i, k : Cardinality(Noted(pulls', i, k)) <= Cardinality(Noted(pulls, i, k))
    BY <2>1, Answered
  <2>4. \A q \in Requests : plan[q].source # -1 => (pc'[q] \in Unasked <=> pc[q] \in Unasked)
    BY <2>2 DEF Unasked
  <2> QED BY <2>1, <2>3, <2>4, QuietNotes
<1>7. ASSUME NEW r \in Requests, NEW from \in Phases \ Unasked, NEW to \in Phases \ Unasked,
             Moves(r, from, to), UNCHANGED <<plan, pulls>>
      PROVE  MInv'
  BY <1>7, QuietPhase
<1>8. ASSUME NEW r \in Requests,
             \/ Pull(r) \/ Pulled(r) \/ PullMiss(r) \/ StartPass(r) \/ Publish(r) \/ Finish(r)
      PROVE  MInv'
  <2>1. CASE Pull(r)
    <3>1. Moves(r, "pulling", "fetching") /\ UNCHANGED <<plan, pulls>>
      BY <2>1 DEF Pull, sensorVars
    <3> QED BY <1>7, <3>1 DEF Phases, Unasked
  <2>2. CASE Pulled(r)
    <3>1. Moves(r, "fetching", "queued") /\ UNCHANGED <<plan, pulls>>
      BY <2>2 DEF Pulled, sensorVars
    <3> QED BY <1>7, <3>1 DEF Phases, Unasked
  <2>3. CASE PullMiss(r)
    <3>1. Moves(r, "pulling", "queued") /\ UNCHANGED <<plan, pulls>>
      BY <2>3 DEF PullMiss, sensorVars
    <3> QED BY <1>7, <3>1 DEF Phases, Unasked
  <2>4. CASE StartPass(r)
    <3>1. Moves(r, "queued", "running") /\ UNCHANGED <<plan, pulls>>
      BY <2>4 DEF StartPass, sensorVars
    <3> QED BY <1>7, <3>1 DEF Phases, Unasked
  <2>5. CASE Publish(r)
    <3>1. Moves(r, "running", "published") /\ UNCHANGED <<plan, pulls>>
      BY <2>5 DEF Publish, sensorVars
    <3> QED BY <1>7, <3>1 DEF Phases, Unasked
  <2>6. CASE Finish(r)
    <3>1. Moves(r, "published", "prefilled") /\ UNCHANGED <<plan, pulls>>
      BY <2>6 DEF Finish, FoldPrefillFinished
    <3> QED BY <1>7, <3>1 DEF Phases, Unasked
  <2> QED BY <1>8, <2>1, <2>2, <2>3, <2>4, <2>5, <2>6
<1>9. ASSUME NEW r \in Requests,
             \/ DecodeHere(r) \/ Hand(r) \/ HandMiss(r) \/ Reside(r) \/ DecodeMoved(r) \/ Grow(r)
      PROVE  MInv'
  <2>1. CASE Hand(r)
    <3>1. Moves(r, "handing", "moving") /\ UNCHANGED <<plan, pulls>>
      BY <2>1 DEF Hand, sensorVars
    <3> QED BY <1>7, <3>1 DEF Phases, Unasked
  <2>2. CASE Reside(r)
    <3>1. Moves(r, "moving", "resided") /\ UNCHANGED <<plan, pulls>>
      BY <2>2 DEF Reside, sensorVars
    <3> QED BY <1>7, <3>1 DEF Phases, Unasked
  <2>3. CASE Grow(r)
    <3>1. Moves(r, "emitted", "done") /\ UNCHANGED <<plan, pulls>>
      BY <2>3 DEF Grow, sensorVars
    <3> QED BY <1>7, <3>1 DEF Phases, Unasked
  <2>4. ASSUME NEW from \in {"prefilled", "handing", "resided"}, NEW line, Admit(r, from, line),
               UNCHANGED <<plan, pulls>>
        PROVE  MInv'
    <3>1. Moves(r, from, IF Steps(r) = 0 THEN "done" ELSE "decoding")
      BY <2>4 DEF Admit
    <3>2. CASE Steps(r) = 0
      BY <1>7, <2>4, <3>1, <3>2 DEF Phases, Unasked
    <3>3. CASE Steps(r) # 0
      BY <1>7, <2>4, <3>1, <3>3 DEF Phases, Unasked
    <3> QED BY <3>2, <3>3
  <2>5. CASE DecodeHere(r)
    BY <2>4, <2>5 DEF DecodeHere
  <2>6. CASE HandMiss(r)
    BY <2>4, <2>6 DEF HandMiss
  <2>7. CASE DecodeMoved(r)
    BY <2>4, <2>7 DEF DecodeMoved
  <2> QED BY <1>9, <2>1, <2>2, <2>3, <2>5, <2>6, <2>7
<1>10. ASSUME UNCHANGED <<plan, pulls>>, \A q \in Requests : pc'[q] \in Unasked <=> pc[q] \in Unasked
       PROVE  MInv'
  <2>1. \A i, k : Cardinality(Noted(pulls, i, k)) \in Nat
    BY NotedFinite DEF MInv
  <2>2. pulls' \in Seq(Notes) /\ \A i, k : Cardinality(Noted(pulls', i, k)) <= Cardinality(Noted(pulls, i, k))
    BY <1>10, <2>1 DEF MInv
  <2> QED BY <1>10, <2>2, QuietNotes
<1>11. ASSUME NEW h \in Hosts, StepStart(h) \/ StepComplete(h) PROVE MInv'
  <2>1. CASE StepStart(h)
    BY <1>10, <2>1 DEF StepStart, callVars
  <2>2. CASE StepComplete(h)
    <3> DEFINE over == { r \in members[h] : left[r] = 1 }
    <3>1. pc' = Retired(over) /\ UNCHANGED <<plan, pulls>>
      BY <2>2 DEF StepComplete
    <3>2. \A r \in over : pc[r] = "decoding"
      BY DEF IInv, Stepping
    <3> HIDE DEF over
    <3>3. \A q \in Requests : pc'[q] \in Unasked <=> pc[q] \in Unasked
      BY <3>1, <3>2 DEF Retired, Unasked
    <3> QED BY <1>10, <3>1, <3>3
  <2> QED BY <1>11, <2>1, <2>2
<1>12. ASSUME NEW kept \in rows, Evict(kept[1], kept[2]) PROVE MInv'
  BY <1>10, <1>12 DEF Evict, sensorVars, callVars
<1>13. CASE Tick
  BY <1>10, <1>13 DEF Tick, sensorVars, callVars
<1>14. CASE UNCHANGED vars
  BY <1>10, <1>14 DEF vars, sensorVars, callVars
<1>15. Progress => MInv'
  BY <1>2, <1>3, <1>4, <1>5, <1>6, <1>8, <1>9, <1>11, <1>13 DEF Progress
<1> QED BY <1>12, <1>14, <1>15 DEF Next, Finished

(* Every note of a priced pull has a fetch still to come that spends it,   *)
(* for any hosts, chains, prices, delays and losses: no order of reroutes, *)
(* evictions and handoffs leaves a note behind (_pending.py,               *)
(* RoutedPullSensor).                                                      *)
THEOREM NotesSpent == Spec => []MemosAwaited
<1>1. Init => MInv
  <2> SUFFICES ASSUME Init PROVE MInv
    OBVIOUS
  <2>1. pulls = <<>>
    BY DEF Init
  <2>2. pulls \in Seq(Notes)
    BY <2>1
  <2>3. ASSUME NEW inst, NEW ks
        PROVE  Cardinality(Noted(pulls, inst, ks)) <= Cardinality(Awaiting(inst, ks))
    <3>1. Noted(pulls, inst, ks) = {}
      BY <2>1 DEF Noted
    <3> QED BY <3>1, FS_EmptySet, AwaitingFinite
  <2> QED BY <2>2, <2>3 DEF MInv
<1>2. IInv /\ MInv /\ [Next]_vars => MInv'
  BY MInvStep
<1>3. MInv => MemosAwaited
  BY DEF MInv, MemosAwaited, Noted
<1> QED BY <1>1, <1>2, <1>3, Invariance, PTL DEF Spec

-----------------------------------------------------------------------------
(* What a dialogue leaves on its decode host.                              *)

HeldAt(ks, h) == \A k \in ks : <<k, h>> \in rows

(* The phases after the prefill is published, and those after the chain is *)
(* on the decode host.                                                     *)
Stored == {"published", "prefilled", "handing", "moving"}
Resident == {"resided", "decoding", "emitted", "done"}

(* What a plan found on its host is there, and so is each publish since.   *)
Kept(r) ==
  /\ plan[r] # NoPlan =>
       /\ plan[r].local \in Nat /\ plan[r].local <= Len(Chain[r])
       /\ \A i \in 1 .. plan[r].local : <<Chain[r][i], plan[r].prefill>> \in rows
  /\ pc[r] \in Stored => HeldAt(Keys(r), plan[r].prefill)
  /\ pc[r] \in Resident => HeldAt(Keys(r), plan[r].decode)
  /\ pc[r] = "done" => HeldAt(ToSet(Generated(r)), plan[r].decode)

HInv == losses \in Nat /\ (losses = 0 => \A r \in Requests : Kept(r))

(* A run of n blocks is the first n blocks.                                *)
LEMMA RunHeld ==
  ASSUME NEW r \in Requests, NEW h, NEW i \in 1 .. Run(Chain[r], h)
  PROVE  <<Chain[r][i], h>> \in rows
<1> DEFINE S == { n \in 1 .. Len(Chain[r]) : \A j \in 1 .. n : <<Chain[r][j], h>> \in rows }
<1>1. Len(Chain[r]) \in Nat /\ Run(Chain[r], h) \in Nat /\ i \in Nat /\ 1 <= i /\ i <= Run(Chain[r], h)
  <2>1. Run(Chain[r], h) \in Nat
    BY RunIsNat
  <2>2. Len(Chain[r]) \in Nat
    BY ServingAssumption
  <2> QED BY <2>1, <2>2
<1>2. Run(Chain[r], h) = Cardinality(S)
  BY DEF Run
<1>3. CASE \E n \in S : i <= n
  <2>1. PICK n \in S : i <= n
    BY <1>3
  <2>2. n \in Nat /\ \A j \in 1 .. n : <<Chain[r][j], h>> \in rows
    BY <1>1
  <2> HIDE DEF S
  <2>3. i \in 1 .. n
    BY <1>1, <2>1, <2>2
  <2> QED BY <2>2, <2>3
<1>4. CASE \A n \in S : ~(i <= n)
  <2>1. S \in SUBSET (1 .. i - 1)
    BY <1>1, <1>4
  <2>2. IsFiniteSet(1 .. i - 1) /\ Cardinality(1 .. i - 1) = i - 1
    <3>1. 1 \in Int /\ i - 1 \in Int
      BY <1>1
    <3>2. /\ IsFiniteSet(1 .. i - 1)
          /\ Cardinality(1 .. i - 1) = IF 1 > i - 1 THEN 0 ELSE (i - 1) - 1 + 1
      BY ONLY <3>1, FS_Interval
    <3> QED BY <1>1, <3>2
  <2> HIDE DEF S
  <2>3. Cardinality(S) <= Cardinality(1 .. i - 1)
    BY ONLY <2>1, <2>2, FS_Subset
  <2> QED BY <1>1, <1>2, <2>2, <2>3
<1> QED BY <1>3, <1>4

(* The first n blocks on a host are a run of n at least.                   *)
LEMMA HeldRun ==
  ASSUME NEW r \in Requests, NEW h, NEW m \in Nat, m <= Len(Chain[r]),
         \A i \in 1 .. m : <<Chain[r][i], h>> \in rows
  PROVE  m <= Run(Chain[r], h)
<1> DEFINE S == { n \in 1 .. Len(Chain[r]) : \A j \in 1 .. n : <<Chain[r][j], h>> \in rows }
<1>1. Len(Chain[r]) \in Nat
  BY ServingAssumption
<1>2. IsFiniteSet(1 .. Len(Chain[r])) /\ S \in SUBSET (1 .. Len(Chain[r]))
  <2>1. IsFiniteSet(1 .. Len(Chain[r]))
    BY <1>1, FS_Interval
  <2> QED BY <2>1
<1>3. 1 .. m \in SUBSET S
  BY <1>1
<1>4. Cardinality(1 .. m) = m
  BY FS_Interval
<1>5. Run(Chain[r], h) = Cardinality(S)
  BY DEF Run
<1> HIDE DEF S
<1>6. IsFiniteSet(S)
  BY <1>2, FS_Subset
<1>7. Cardinality(1 .. m) <= Cardinality(S)
  BY <1>3, <1>6, FS_Subset
<1> QED BY <1>4, <1>5, <1>7

(* What a decision calls local is on the host it names.                    *)
LEMMA DecisionLocal ==
  ASSUME NEW r \in Requests, NEW p \in Decisions(r)
  PROVE  /\ p.local \in Nat /\ p.local <= Len(Chain[r])
         /\ \A i \in 1 .. p.local : <<Chain[r][i], p.prefill>> \in rows
<1>1. PICK h \in PrefillChoice(r) :
        \E d \in DecodeChoice(Priced(r, h).done) : p = [Priced(r, h) EXCEPT !.decode = d]
  BY DEF Decisions
<1>2. PICK d \in DecodeChoice(Priced(r, h).done) : p = [Priced(r, h) EXCEPT !.decode = d]
  BY <1>1
<1>3. Priced(r, h).local = Run(Chain[r], h) /\ Priced(r, h).prefill = h
  BY DEF Priced
<1>4. p.local = Run(Chain[r], h) /\ p.prefill = h
  <2>1. p.local = Priced(r, h).local /\ p.prefill = Priced(r, h).prefill
    BY <1>2 DEF Priced
  <2> QED BY <1>3, <2>1
<1> QED BY <1>4, RunIsNat, RunHeld

(* What a generation leaves behind is a sequence of keys.                  *)
LEMMA GeneratedKeys ==
  ASSUME NEW r \in Requests
  PROVE  Generated(r) \in Seq(Seq(Int))
<1> DEFINE count == BlocksFor(Steps(r), BlockTokens)
           segments == [i \in 1 .. count |-> -i]
           stem == Chain[r][Len(Chain[r])]
<1>1. Steps(r) \in Nat /\ BlockTokens \in Nat \ {0}
  BY TokenCount, ServingAssumption
<1>2. count \in Nat
  BY <1>1 DEF BlocksFor
<1> HIDE DEF count
<1>3. segments \in Seq(Int) /\ Len(segments) = count
  BY <1>2
<1>4. stem \in Seq(Int)
  <2>1. Chain[r] \in Seq(Seq(Int)) /\ Len(Chain[r]) > 0
    BY ServingAssumption
  <2> QED BY <2>1
<1>5. Generated(r) = [i \in 1 .. count |-> stem \o SubSeq(segments, 1, i)]
  BY <1>3 DEF Generated, ContinuationKeys, Extend, count
<1> HIDE DEF segments, stem
<1>6. \A i \in 1 .. count : stem \o SubSeq(segments, 1, i) \in Seq(Int)
  <2> TAKE i \in 1 .. count
  <2>1. SubSeq(segments, 1, i) \in Seq(Int)
    BY <1>2, <1>3
  <2> QED BY ONLY <1>4, <2>1
<1> DEFINE key(i) == stem \o SubSeq(segments, 1, i)
<1> HIDE DEF key
<1>7. [i \in 1 .. count |-> key(i)] \in Seq(Seq(Int))
  <2>1. \A i \in 1 .. count : key(i) \in Seq(Int)
    BY <1>6 DEF key
  <2> QED BY <1>2, <2>1
<1> QED BY <1>5, <1>7 DEF key

(* Losses are only counted up, and while there is none no row goes away.   *)
LEMMA RowsStay ==
  ASSUME losses \in Nat, [Next]_vars
  PROVE  losses' \in Nat /\ (losses' = 0 => losses = 0 /\ rows \subseteq rows')
<1> DEFINE Stays == losses' \in Nat /\ (losses' = 0 => losses = 0 /\ rows \subseteq rows')
<1> SUFFICES Stays
  OBVIOUS
<1>1. UNCHANGED <<rows, losses>> => Stays
  OBVIOUS
<1>2. ASSUME NEW ks, NEW h, NEW ok, Store(ks, h, ok) PROVE Stays
  BY <1>2 DEF Store
<1> HIDE DEF Stays
<1>3. ASSUME NEW r \in Requests,
             \/ Land(r) \/ DecideRecorded(r) \/ Decide(r) \/ Refuse(r) \/ Redirect(r) \/ Serve(r)
             \/ PullSources(r) \/ Pull(r) \/ Pulled(r) \/ PullMiss(r) \/ StartPass(r) \/ Finish(r)
      PROVE  Stays
  BY <1>1, <1>3 DEF Land, DecideRecorded, Decide, Refuse, Redirect, Serve, PullSources, Pull,
                    Pulled, PullMiss, StartPass, Finish
<1>4. ASSUME NEW r \in Requests,
             \/ DecodeHere(r) \/ HandSources(r) \/ Hand(r) \/ HandMiss(r) \/ DecodeMoved(r)
      PROVE  Stays
  BY <1>1, <1>4 DEF DecodeHere, HandSources, Hand, HandMiss, DecodeMoved
<1>5. ASSUME NEW r \in Requests, Publish(r) \/ Reside(r) \/ Grow(r) PROVE Stays
  BY <1>2, <1>5 DEF Publish, Reside, Grow
<1>6. ASSUME NEW h \in Hosts, StepStart(h) \/ StepComplete(h) PROVE Stays
  BY <1>1, <1>6 DEF StepStart, StepComplete
<1>7. ASSUME NEW kept \in rows, Evict(kept[1], kept[2]) PROVE Stays
  BY <1>7 DEF Evict, Stays
<1>8. CASE Tick
  BY <1>1, <1>8 DEF Tick
<1>9. CASE UNCHANGED vars
  BY <1>1, <1>9 DEF vars
<1>10. ASSUME NEW r \in Requests,
              \/ Land(r) \/ DecideRecorded(r) \/ Decide(r) \/ Refuse(r) \/ Redirect(r)
              \/ Serve(r) \/ PullSources(r) \/ Pull(r) \/ Pulled(r) \/ PullMiss(r)
              \/ StartPass(r) \/ Publish(r) \/ Finish(r)
              \/ DecodeHere(r) \/ HandSources(r) \/ Hand(r) \/ HandMiss(r) \/ Reside(r)
              \/ DecodeMoved(r) \/ Grow(r)
       PROVE  Stays
  BY <1>3, <1>4, <1>5, <1>10, Zenon
<1>11. Progress => Stays
  BY <1>6, <1>8, <1>10, Zenon DEF Progress
<1> QED BY <1>7, <1>9, <1>11 DEF Next, Finished

(* What is kept stays kept while a request comes to no later stage.        *)
LEMMA KeptStays ==
  ASSUME NEW q, Kept(q), rows \subseteq rows', plan'[q] = plan[q],
         pc'[q] \in Stored => pc[q] \in Stored,
         pc'[q] \in Resident => pc[q] \in Resident,
         pc'[q] = "done" => pc[q] = "done"
  PROVE  Kept(q)'
BY DEF Kept, HeldAt, Keys, Generated, Steps

(* The same for all requests when one of them moves.                       *)
LEMMA KeptMove ==
  ASSUME IInv, \A q \in Requests : Kept(q), rows \subseteq rows', plan' = plan,
         NEW r \in Requests, NEW from \in Phases, NEW to \in Phases, Moves(r, from, to),
         to \in Stored => from \in Stored,
         to \in Resident => from \in Resident,
         to = "done" => from = "done"
  PROVE  \A q \in Requests : Kept(q)'
<1>1. /\ pc[r] = from /\ pc'[r] = to
      /\ \A q \in Requests \ {r} : pc'[q] = pc[q]
  BY MovesOne
<1> QED BY <1>1, KeptStays

(* Or comes to a stage whose publish it has made.                          *)
LEMMA KeptArrives ==
  ASSUME IInv, \A q \in Requests : Kept(q), rows \subseteq rows', plan' = plan,
         NEW r \in Requests, NEW from, NEW to \in Phases \ Early, Moves(r, from, to),
         to \in Stored => HeldAt(Keys(r), plan[r].prefill)',
         to \in Resident => HeldAt(Keys(r), plan[r].decode)',
         to = "done" => HeldAt(ToSet(Generated(r)), plan[r].decode)'
  PROVE  \A q \in Requests : Kept(q)'
<1>1. /\ pc[r] = from /\ pc'[r] = to
      /\ \A q \in Requests \ {r} : pc'[q] = pc[q]
  BY MovesOne
<1>2. \A q \in Requests \ {r} : Kept(q)'
  BY <1>1, KeptStays
<1>3. Kept(r)'
  BY <1>1 DEF Kept
<1> QED BY <1>2, <1>3

(* Every step keeps what is kept: while nothing is lost, each publish is   *)
(* there for good, and the handoff finds the chain.                        *)
LEMMA HInvStep ==
  ASSUME IInv, HInv, [Next]_vars
  PROVE  HInv'
<1>0. /\ plan \in [Requests -> HostPlans \union {NoPlan}] /\ pc \in [Requests -> Phases]
      /\ \A r \in Requests : Placed(r)
  BY DEF IInv, Typed
<1> DEFINE Goal == \A q \in Requests : Kept(q)'
<1>1. losses' \in Nat /\ (losses' = 0 => losses = 0 /\ rows \subseteq rows')
  BY RowsStay DEF HInv
<1> SUFFICES ASSUME losses' = 0, losses = 0, rows \subseteq rows', \A q \in Requests : Kept(q)
             PROVE  Goal
  BY <1>1 DEF HInv
<1> HIDE DEF Goal
<1>2. ASSUME plan' = plan, pc' = pc PROVE Goal
  BY <1>2, KeptStays DEF Goal
<1>3. ASSUME plan' = plan, NEW r \in Requests, NEW from \in Phases, NEW to \in Phases,
             Moves(r, from, to), to \notin Stored \union Resident
      PROVE  Goal
  BY <1>3, KeptMove DEF Goal, Resident
<1>4. ASSUME NEW r \in Requests,
             \/ Land(r) \/ Refuse(r) \/ Redirect(r) \/ Serve(r) \/ PullSources(r) \/ Pull(r)
             \/ Pulled(r) \/ PullMiss(r) \/ StartPass(r)
      PROVE  Goal
  <2>1. CASE Land(r)
    <3>1. Moves(r, "new", "asking") /\ plan' = plan
      BY <2>1 DEF Land
    <3> QED BY <1>3, <3>1 DEF Phases, Stored, Resident
  <2>2. CASE Refuse(r)
    <3>1. Moves(r, "asking", "refused") /\ plan' = plan
      BY <2>2 DEF Refuse
    <3> QED BY <1>3, <3>1 DEF Phases, Stored, Resident
  <2>3. CASE Redirect(r)
    <3>1. Moves(r, "answered", "asking") /\ plan' = plan
      BY <2>3 DEF Redirect
    <3> QED BY <1>3, <3>1 DEF Phases, Stored, Resident
  <2>4. CASE Serve(r)
    <3>1. /\ Moves(r, "answered", IF plan[r].source = -1 THEN "queued" ELSE "sourcing")
          /\ plan' = plan
      BY <2>4 DEF Serve
    <3> DEFINE to == IF plan[r].source = -1 THEN "queued" ELSE "sourcing"
    <3>2. to \in Phases /\ to \notin Stored \union Resident /\ "answered" \in Phases
      BY DEF Phases, Stored, Resident
    <3>3. Moves(r, "answered", to)
      BY <3>1
    <3> HIDE DEF to
    <3> QED BY <1>3, <3>1, <3>2, <3>3
  <2>5. CASE PullSources(r)
    <3>1. Moves(r, "sourcing", "pulling") /\ plan' = plan
      BY <2>5 DEF PullSources
    <3> QED BY <1>3, <3>1 DEF Phases, Stored, Resident
  <2>6. CASE Pull(r)
    <3>1. Moves(r, "pulling", "fetching") /\ plan' = plan
      BY <2>6 DEF Pull
    <3> QED BY <1>3, <3>1 DEF Phases, Stored, Resident
  <2>7. CASE Pulled(r)
    <3>1. Moves(r, "fetching", "queued") /\ plan' = plan
      BY <2>7 DEF Pulled
    <3> QED BY <1>3, <3>1 DEF Phases, Stored, Resident
  <2>8. CASE PullMiss(r)
    <3>1. Moves(r, "pulling", "queued") /\ plan' = plan
      BY <2>8 DEF PullMiss
    <3> QED BY <1>3, <3>1 DEF Phases, Stored, Resident
  <2>9. CASE StartPass(r)
    <3>1. Moves(r, "queued", "running") /\ plan' = plan
      BY <2>9 DEF StartPass
    <3> QED BY <1>3, <3>1 DEF Phases, Stored, Resident
  <2> QED BY <1>4, <2>1, <2>2, <2>3, <2>4, <2>5, <2>6, <2>7, <2>8, <2>9
<1>5. ASSUME NEW r \in Requests, DecideRecorded(r) PROVE Goal
  <2>1. /\ Moves(r, "asking", "answered") /\ placed[r] # NoPlan
        /\ plan' = [plan EXCEPT ![r] = placed[r]]
    BY <1>5 DEF DecideRecorded
  <2>2. placed[r] = plan[r]
    BY <1>0, <2>1 DEF Placed, Moves
  <2>3. plan' = plan
    BY <1>0, <2>1, <2>2
  <2> QED BY <1>3, <2>1, <2>3 DEF Phases, Stored, Resident
<1>6. ASSUME NEW r \in Requests, Decide(r) PROVE Goal
  <2>1. PICK p \in Decisions(r) : plan' = [plan EXCEPT ![r] = p]
    BY <1>6 DEF Decide
  <2>2. /\ pc'[r] = "answered" /\ \A q \in Requests \ {r} : pc'[q] = pc[q]
    BY <1>6, MovesOne DEF Decide, Phases
  <2>3. plan'[r] = p /\ \A q \in Requests \ {r} : plan'[q] = plan[q]
    BY <1>0, <2>1
  <2>4. /\ p.local \in Nat /\ p.local <= Len(Chain[r])
        /\ \A i \in 1 .. p.local : <<Chain[r][i], p.prefill>> \in rows
    BY DecisionLocal
  <2>5. Kept(r)'
    BY <2>2, <2>3, <2>4 DEF Kept, Stored, Resident
  <2>6. \A q \in Requests \ {r} : Kept(q)'
    BY <2>2, <2>3, KeptStays
  <2> QED BY <2>5, <2>6 DEF Goal
<1>7. ASSUME NEW ks, NEW h, NEW ok, Store(ks, h, ok)
      PROVE  \A k \in ks : <<k, h>> \in rows'
  <2>1. ~(losses' = losses + 1)
    OBVIOUS
  <2> QED BY <1>7, <2>1 DEF Store
<1>8. ASSUME NEW r \in Requests, Publish(r) PROVE Goal
  <2> DEFINE new == { Chain[r][i] : i \in (plan[r].local + 1) .. Len(Chain[r]) }
  <2>1. Moves(r, "running", "published") /\ plan' = plan
    BY <1>8 DEF Publish
  <2>2. \A k \in new : <<k, plan[r].prefill>> \in rows'
    <3>1. \E ok \in BOOLEAN : Store(new, plan[r].prefill, ok)
      BY <1>8 DEF Publish
    <3> HIDE DEF new
    <3> QED BY <1>7, <3>1
  <2>3. plan[r] # NoPlan
    BY <1>0, <2>1 DEF Placed, Moves
  <2>4. HeldAt(Keys(r), plan[r].prefill)'
    <3> SUFFICES ASSUME NEW i \in 1 .. Len(Chain[r])
                 PROVE  <<Chain[r][i], plan[r].prefill>> \in rows'
      BY <2>1 DEF HeldAt, Keys
    <3>1. Len(Chain[r]) \in Nat /\ plan[r].local \in Nat
      BY <2>3, ServingAssumption DEF Kept
    <3>2. CASE i <= plan[r].local
      <4>1. <<Chain[r][i], plan[r].prefill>> \in rows
        BY <2>3, <3>1, <3>2 DEF Kept
      <4> QED BY <4>1
    <3>3. CASE ~(i <= plan[r].local)
      <4>1. i \in (plan[r].local + 1) .. Len(Chain[r])
        BY <3>1, <3>3
      <4> QED BY <2>2, <4>1
    <3> QED BY <3>2, <3>3
  <2> QED BY <2>1, <2>4, KeptArrives DEF Goal, Phases, Early, Stored, Resident
<1>9. ASSUME NEW r \in Requests, Finish(r) \/ HandSources(r) \/ Hand(r) PROVE Goal
  <2>1. CASE Finish(r)
    <3>1. Moves(r, "published", "prefilled") /\ plan' = plan
      BY <2>1 DEF Finish
    <3> QED BY <3>1, KeptMove DEF Goal, Phases, Stored, Resident
  <2>2. CASE HandSources(r)
    <3>1. Moves(r, "prefilled", "handing") /\ plan' = plan
      BY <2>2 DEF HandSources
    <3> QED BY <3>1, KeptMove DEF Goal, Phases, Stored, Resident
  <2>3. CASE Hand(r)
    <3>1. Moves(r, "handing", "moving") /\ plan' = plan
      BY <2>3 DEF Hand
    <3> QED BY <3>1, KeptMove DEF Goal, Phases, Stored, Resident
  <2> QED BY <1>9, <2>1, <2>2, <2>3
<1>10. ASSUME NEW r \in Requests, Reside(r) PROVE Goal
  <2>1. Moves(r, "moving", "resided") /\ plan' = plan
    BY <1>10 DEF Reside
  <2>2. \E ok \in BOOLEAN : Store(Keys(r), plan[r].decode, ok)
    BY <1>10 DEF Reside
  <2>3. \A k \in Keys(r) : <<k, plan[r].decode>> \in rows'
    BY <1>7, <2>2
  <2>4. HeldAt(Keys(r), plan[r].decode)'
    BY <2>1, <2>3 DEF HeldAt, Keys
  <2> QED BY <2>1, <2>4, KeptArrives DEF Goal, Phases, Early, Stored, Resident
<1>11. ASSUME NEW r \in Requests, NEW from, NEW line, Admit(r, from, line), plan' = plan,
              HeldAt(Keys(r), plan[r].decode)
       PROVE  Goal
  <2>1. HeldAt(Keys(r), plan[r].decode)'
    BY <1>11 DEF HeldAt, Keys
  <2>2. CASE Steps(r) = 0
    <3>1. Moves(r, from, "done")
      BY <1>11, <2>2 DEF Admit
    <3>2. ToSet(Generated(r)) = {}
      BY <2>2, NothingGenerated DEF ToSet
    <3>3. HeldAt(ToSet(Generated(r)), plan[r].decode)'
      BY <3>2 DEF HeldAt, Generated, Steps
    <3> QED BY <1>11, <2>1, <3>1, <3>3, KeptArrives DEF Goal, Phases, Early, Stored
  <2>3. CASE Steps(r) # 0
    <3>1. Moves(r, from, "decoding")
      BY <1>11, <2>3 DEF Admit
    <3> QED BY <1>11, <2>1, <3>1, KeptArrives DEF Goal, Phases, Early, Stored
  <2> QED BY <2>2, <2>3
<1>12. ASSUME NEW r \in Requests, DecodeHere(r) PROVE Goal
  <2>1. /\ Admit(r, "prefilled", HandedOff(r, 0, FALSE)) /\ plan' = plan
        /\ plan[r].decode = plan[r].prefill
    BY <1>12 DEF DecodeHere
  <2>2. pc[r] = "prefilled"
    BY <2>1 DEF Admit, Moves
  <2>3. HeldAt(Keys(r), plan[r].decode)
    BY <2>1, <2>2 DEF Kept, Stored
  <2> QED BY <1>11, <2>1, <2>3
<1>13. ASSUME NEW r \in Requests, HandMiss(r) PROVE Goal
  <2>1. pc[r] = "handing"
    BY <1>13 DEF HandMiss, Admit, Moves
  <2>2. HeldAt(Keys(r), plan[r].prefill)
    BY <2>1 DEF Kept, Stored
  <2>3. plan[r].prefill \in Hosts
    <3>1. plan[r] # NoPlan
      BY <1>0, <2>1 DEF Placed
    <3> QED BY <1>0, <3>1 DEF HostPlans
  <2>4. \A k \in Keys(r) : plan[r].prefill \in Holders(k)
    BY <2>2, <2>3 DEF HeldAt, Holders
  <2>5. \E k \in Keys(r) : Holders(k) = {}
    BY <1>13 DEF HandMiss
  <2> QED BY <2>4, <2>5
<1>14. ASSUME NEW r \in Requests, DecodeMoved(r) PROVE Goal
  <2>1. Admit(r, "resided", ledger[r]) /\ plan' = plan
    BY <1>14 DEF DecodeMoved
  <2>2. pc[r] = "resided"
    BY <2>1 DEF Admit, Moves
  <2>3. HeldAt(Keys(r), plan[r].decode)
    BY <2>2 DEF Kept, Resident
  <2> QED BY <1>11, <2>1, <2>3
<1>15. ASSUME NEW r \in Requests, Grow(r) PROVE Goal
  <2>1. Moves(r, "emitted", "done") /\ plan' = plan
    BY <1>15 DEF Grow
  <2>2. \E ok \in BOOLEAN : Store(ToSet(Generated(r)), plan[r].decode, ok)
    BY <1>15 DEF Grow
  <2>3. \A k \in ToSet(Generated(r)) : <<k, plan[r].decode>> \in rows'
    BY <1>7, <2>2
  <2>4. HeldAt(ToSet(Generated(r)), plan[r].decode)'
    BY <2>1, <2>3 DEF HeldAt, Generated, Steps
  <2>5. HeldAt(Keys(r), plan[r].decode)'
    <3>1. HeldAt(Keys(r), plan[r].decode)
      BY <2>1 DEF Kept, Resident, Moves
    <3> QED BY <2>1, <3>1 DEF HeldAt, Keys
  <2> QED BY <2>1, <2>4, <2>5, KeptArrives DEF Goal, Phases, Early, Stored
<1>16. ASSUME NEW h \in Hosts, StepStart(h) \/ StepComplete(h) PROVE Goal
  <2>1. CASE StepStart(h)
    BY <1>2, <2>1 DEF StepStart, callVars
  <2>2. CASE StepComplete(h)
    <3> DEFINE over == { r \in members[h] : left[r] = 1 }
    <3>1. pc' = Retired(over) /\ plan' = plan
      BY <2>2 DEF StepComplete
    <3>2. \A r \in over : pc[r] = "decoding"
      BY DEF IInv, Stepping
    <3> HIDE DEF over
    <3>3. \A q \in Requests : IF q \in over THEN pc[q] = "decoding" /\ pc'[q] = "emitted"
                              ELSE pc'[q] = pc[q]
      BY <3>1, <3>2 DEF Retired
    <3> QED BY <3>1, <3>3, KeptStays DEF Goal, Stored, Resident
  <2> QED BY <1>16, <2>1, <2>2
<1>17. ASSUME NEW kept \in rows, Evict(kept[1], kept[2]) PROVE Goal
  BY <1>2, <1>17 DEF Evict, callVars
<1>18. CASE Tick
  BY <1>2, <1>18 DEF Tick, callVars
<1>19. CASE UNCHANGED vars
  BY <1>2, <1>19 DEF vars, callVars
<1>20. ASSUME NEW r \in Requests,
              \/ Land(r) \/ DecideRecorded(r) \/ Decide(r) \/ Refuse(r) \/ Redirect(r)
              \/ Serve(r) \/ PullSources(r) \/ Pull(r) \/ Pulled(r) \/ PullMiss(r)
              \/ StartPass(r) \/ Publish(r) \/ Finish(r)
              \/ DecodeHere(r) \/ HandSources(r) \/ Hand(r) \/ HandMiss(r) \/ Reside(r)
              \/ DecodeMoved(r) \/ Grow(r)
       PROVE  Goal
  BY <1>4, <1>5, <1>6, <1>8, <1>9, <1>10, <1>12, <1>13, <1>14, <1>15, <1>20, Zenon
<1>21. Progress => Goal
  BY <1>16, <1>18, <1>20, Zenon DEF Progress
<1> QED BY <1>17, <1>19, <1>21 DEF Next, Finished

(* While nothing was evicted or refused, the next turn of a conversation   *)
(* finds the whole of the last one on the host that decoded it, for any    *)
(* hosts, prices and interleaving, and any workload in which a turn's keys *)
(* begin with the last turn's and its answer's (_generator.py,             *)
(* make_workload; serving.py, decode).                                     *)
THEOREM HistoryKept ==
  ASSUME TurnsContinue
  PROVE  Spec => []HistoryFound
<1>1. Init => HInv
  <2> SUFFICES ASSUME Init PROVE HInv
    OBVIOUS
  <2>1. losses = 0 /\ plan = [r \in Requests |-> NoPlan] /\ pc = [r \in Requests |-> "new"]
    BY DEF Init
  <2> QED BY <2>1 DEF HInv, Kept, Stored, Resident
<1>2. IInv /\ HInv /\ [Next]_vars => HInv'
  BY HInvStep
<1>3. HInv => HistoryFound
  <2> SUFFICES ASSUME HInv, losses = 0, NEW r \in Requests, NEW q \in Previous[r],
                      pc[q] = "done", IsPrefix(Chain[q], Chain[r])
               PROVE  Run(Chain[r], plan[q].decode) >= Len(Chain[q]) + Len(Generated(q))
    BY DEF HistoryFound
  <2> DEFINE c == Chain[q]
             g == Generated(q)
             d == plan[q].decode
             m == Len(c) + Len(g)
  <2>1. q \in Requests
    BY ServingAssumption
  <2>2. HeldAt(Keys(q), d) /\ HeldAt(ToSet(g), d)
    BY <2>1 DEF HInv, Kept, Resident
  <2>3. c \in Seq(Seq(Int)) /\ g \in Seq(Seq(Int)) /\ Chain[r] \in Seq(Seq(Int))
    BY <2>1, GeneratedKeys, ServingAssumption
  <2>4. IsPrefix(c \o g, Chain[r])
    BY <2>1 DEF TurnsContinue
  <2>5. Keys(q) = { c[i] : i \in 1 .. Len(c) } /\ ToSet(g) = { g[i] : i \in DOMAIN g }
    BY DEF Keys, ToSet
  <2> HIDE DEF c, g, d
  <2>6. /\ Len(c) \in Nat /\ Len(g) \in Nat /\ DOMAIN g = 1 .. Len(g) /\ m \in Nat
        /\ c \o g \in Seq(Seq(Int)) /\ Len(c \o g) = m
    BY <2>3
  <2>7. /\ m <= Len(Chain[r])
        /\ SubSeq(c \o g, 1, m) = SubSeq(Chain[r], 1, m)
    BY <2>4, <2>6 DEF IsPrefix
  <2>8. ASSUME NEW i \in 1 .. m PROVE <<Chain[r][i], d>> \in rows
    <3>1. SubSeq(c \o g, 1, m)[i] = (c \o g)[i] /\ SubSeq(Chain[r], 1, m)[i] = Chain[r][i]
      BY <2>3, <2>6, <2>7
    <3>2. Chain[r][i] = (c \o g)[i]
      BY <2>7, <3>1
    <3>3. CASE i <= Len(c)
      <4>1. (c \o g)[i] = c[i] /\ i \in 1 .. Len(c)
        BY <2>3, <2>6, <3>3
      <4> QED BY <2>2, <2>5, <3>2, <4>1 DEF HeldAt
    <3>4. CASE ~(i <= Len(c))
      <4>1. (c \o g)[i] = g[i - Len(c)] /\ i - Len(c) \in DOMAIN g
        BY <2>3, <2>6, <3>4
      <4> QED BY <2>2, <2>5, <3>2, <4>1 DEF HeldAt
    <3> QED BY <3>3, <3>4
  <2>9. m <= Run(Chain[r], d)
    BY <2>6, <2>7, <2>8, HeldRun
  <2>10. Run(Chain[r], d) \in Nat
    BY RunIsNat
  <2> QED BY <2>6, <2>9, <2>10 DEF c, g, d
<1> QED BY <1>1, <1>2, <1>3, Invariance, PTL DEF Spec
=============================================================================
