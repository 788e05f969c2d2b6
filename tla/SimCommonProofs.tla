-------------------------- MODULE SimCommonProofs --------------------------
(***************************************************************************)
(* Theorems about the package sim_common: its event loop (AsyncEngine)     *)
(* implements VirtualLoop, runs simultaneous callbacks in the order they   *)
(* were made, and reports a deadlock only when there is one, for any       *)
(* number of handles and any times; a resource (Channels) that serializes  *)
(* serves its transfers in the order they were charged, each for its solo  *)
(* cost, and is never idle while one waits; and one that shares implements *)
(* FairShare where its divisions are exact.                                *)
(***************************************************************************)
EXTENDS AsyncEngine, Channels, FiniteSetTheorems, TLAPS

-----------------------------------------------------------------------------
(***************************************************************************)
(* The event loop.                                                         *)
(***************************************************************************)
-----------------------------------------------------------------------------
(* Queues of handles.                                                      *)

Distinct(s) == \A i, j \in 1 .. Len(s) : s[i] = s[j] => i = j

(* What an empty queue holds.                                              *)
LEMMA EmptyQueue == ToSet(<<>>) = {} /\ Distinct(<<>>)
  BY DEF ToSet, Distinct

(* What appending does to a queue that has not got x.                      *)
LEMMA AppendedQueue ==
  ASSUME NEW S, NEW s \in Seq(S), NEW x \in S
  PROVE  /\ Append(s, x) \in Seq(S)
         /\ ToSet(Append(s, x)) = ToSet(s) \union {x}
         /\ Distinct(s) /\ x \notin ToSet(s) => Distinct(Append(s, x))
<1>1. ToSet(Append(s, x)) = ToSet(s) \union {x}
  <2>1. ASSUME NEW y \in ToSet(s) PROVE y \in ToSet(Append(s, x))
    <3>1. PICK i \in 1 .. Len(s) : y = s[i]
      BY <2>1 DEF ToSet
    <3>2. Append(s, x)[i] = y /\ i \in 1 .. Len(Append(s, x))
      BY <3>1
    <3> QED BY <3>2 DEF ToSet
  <2>2. x \in ToSet(Append(s, x))
    <3>1. Append(s, x)[Len(s) + 1] = x /\ Len(s) + 1 \in 1 .. Len(Append(s, x))
      OBVIOUS
    <3> QED BY <3>1 DEF ToSet
  <2>3. ASSUME NEW y \in ToSet(Append(s, x)) PROVE y \in ToSet(s) \union {x}
    <3>1. PICK i \in 1 .. Len(Append(s, x)) : y = Append(s, x)[i]
      BY <2>3 DEF ToSet
    <3>2. i = Len(s) + 1 => y = x
      BY <3>1
    <3>3. i # Len(s) + 1 => i \in 1 .. Len(s) /\ y = s[i]
      BY <3>1
    <3> QED BY <3>2, <3>3 DEF ToSet
  <2> QED BY <2>1, <2>2, <2>3
<1>2. ASSUME Distinct(s), x \notin ToSet(s) PROVE Distinct(Append(s, x))
  <2>1. \A i \in 1 .. Len(s) : s[i] # x
    BY <1>2 DEF ToSet
  <2> QED BY <1>2, <2>1 DEF Distinct
<1> QED BY <1>1, <1>2

(* What taking the head does to a queue without repetitions.               *)
LEMMA TakenQueue ==
  ASSUME NEW S, NEW s \in Seq(S), s # <<>>, Distinct(s)
  PROVE  /\ Head(s) \in S /\ Tail(s) \in Seq(S)
         /\ Head(s) \in ToSet(s)
         /\ ToSet(Tail(s)) = ToSet(s) \ {Head(s)}
         /\ Distinct(Tail(s))
<1>1. Head(s) \in S /\ Tail(s) \in Seq(S) /\ Len(s) \in Nat /\ Len(s) >= 1
      /\ Len(Tail(s)) = Len(s) - 1 /\ Head(s) = s[1]
      /\ \A i \in 1 .. Len(Tail(s)) : Tail(s)[i] = s[i + 1]
  OBVIOUS
<1>2. Head(s) \in ToSet(s)
  BY <1>1 DEF ToSet
<1>3. ASSUME NEW y \in ToSet(Tail(s)) PROVE y \in ToSet(s) \ {Head(s)}
  <2>1. PICK i \in 1 .. Len(Tail(s)) : y = Tail(s)[i]
    BY <1>1, <1>3 DEF ToSet
  <2>2. y = s[i + 1] /\ i + 1 \in 1 .. Len(s) /\ i + 1 # 1
    BY <1>1, <2>1
  <2> QED BY <1>1, <2>2 DEF ToSet, Distinct
<1>4. ASSUME NEW y \in ToSet(s) \ {Head(s)} PROVE y \in ToSet(Tail(s))
  <2>1. PICK i \in 1 .. Len(s) : y = s[i]
    BY <1>4 DEF ToSet
  <2>2. i # 1
    BY <1>1, <1>4, <2>1
  <2>3. i - 1 \in 1 .. Len(Tail(s)) /\ Tail(s)[i - 1] = y
    BY <1>1, <2>1, <2>2
  <2>4. DOMAIN Tail(s) = 1 .. Len(Tail(s))
    BY <1>1
  <2> QED BY <2>3, <2>4 DEF ToSet
<1>5. Distinct(Tail(s))
  <2> SUFFICES ASSUME NEW i \in 1 .. Len(Tail(s)), NEW j \in 1 .. Len(Tail(s)),
                      Tail(s)[i] = Tail(s)[j]
               PROVE  i = j
    BY DEF Distinct
  <2>1. s[i + 1] = s[j + 1] /\ i + 1 \in 1 .. Len(s) /\ j + 1 \in 1 .. Len(s)
    BY <1>1
  <2>2. i + 1 = j + 1
    BY <2>1 DEF Distinct
  <2> QED BY <2>2
<1> QED BY <1>1, <1>2, <1>3, <1>4, <1>5

(* A tick's batch is what was ready and the timers now due, each once.     *)
LEMMA BatchOfAll ==
  ASSUME NEW timers, IsFiniteSet(ToSet(ready) \union timers), NEW s \in Orders(timers)
  PROVE  /\ s \in Seq(ToSet(ready) \union timers)
         /\ ToSet(s) = ToSet(ready) \union timers
         /\ Distinct(s)
<1> DEFINE all == ToSet(ready) \union timers
           n == Cardinality(all)
<1>1. s \in [1 .. n -> all] /\ ToSet(s) = all
  BY DEF Orders
<1>2. n \in Nat
  BY FS_CardinalityType
<1> HIDE DEF all, n
<1>3. IsFiniteSet(1 .. n) /\ Cardinality(1 .. n) = n
  BY <1>2, FS_Interval
<1>4. DOMAIN s = 1 .. n /\ Len(s) = n /\ s \in Seq(all)
  BY <1>1, <1>2
<1>5. \A y \in all : \E i \in 1 .. n : s[i] = y
  BY <1>1, <1>4 DEF ToSet
<1>6. s \in Surjection(1 .. n, all)
  BY <1>1, <1>5 DEF Surjection
<1>7. Cardinality(all) = n
  BY DEF n
<1>8. s \in Injection(1 .. n, all)
  BY <1>3, <1>6, <1>7, FS_SurjSameCardinalityImpliesInj
<1>9. Distinct(s)
  BY <1>4, <1>8 DEF Injection, Distinct, IsInjective
<1> QED BY <1>1, <1>4, <1>9 DEF all

-----------------------------------------------------------------------------
(* The inductive invariant.                                                *)

Typed ==
  /\ clock \in Nat /\ running \in Nat
  /\ made \in Nat /\ 1 <= made /\ made <= MaxHandles
  /\ ready \in Seq(1 .. made) /\ batch \in Seq(1 .. made)
  /\ scheduled \subseteq 1 .. made /\ cancelled \subseteq 1 .. made
  /\ when \in [Handles -> Nat] /\ due \in [Handles -> Nat]
  /\ stopping \in BOOLEAN /\ raised \in BOOLEAN

(* A handle is in one place, once.                                         *)
Separate ==
  /\ Distinct(ready) /\ Distinct(batch)
  /\ ToSet(ready) \intersect ToSet(batch) = {}
  /\ ToSet(ready) \intersect scheduled = {}
  /\ ToSet(batch) \intersect scheduled = {}

(* What is ready is due now, and a timer is due when it says, or at once.  *)
Timely ==
  /\ \A h \in ToSet(ready) \union ToSet(batch) : due[h] = clock
  /\ \A h \in scheduled :
       \/ due[h] = when[h] /\ clock <= when[h]
       \/ due[h] = clock /\ when[h] <= clock

(* Once a deadlock is reported, nothing is left.                           *)
Quiet ==
  raised => /\ ready = <<>> /\ batch = <<>> /\ scheduled = {}
            /\ running = 0 /\ ~stopping

IInv == Typed /\ Separate /\ Timely /\ Quiet

(* The members of a queue.                                                 *)
LEMMA QueueMembers ==
  ASSUME NEW S, NEW s \in Seq(S)
  PROVE  ToSet(s) \subseteq S
  BY DEF ToSet

(* A queue over a set is one over any larger set.                          *)
LEMMA WiderQueue ==
  ASSUME NEW S, NEW T, S \subseteq T, NEW s \in Seq(S)
  PROVE  s \in Seq(T)
<1>1. Len(s) \in Nat /\ s \in [1 .. Len(s) -> S]
  OBVIOUS
<1>2. s \in [1 .. Len(s) -> T]
  BY <1>1
<1> QED BY <1>1, <1>2

(* What a tick does: all that is ready or due is in the batch, the rest    *)
(* stays scheduled, nothing live is lost, and if the clock moved it moved  *)
(* to the earliest instant at which something live is due.                 *)
LEMMA TickMoves ==
  ASSUME IInv, Tick
  PROVE  /\ ready' = <<>>
         /\ batch' \in Seq(1 .. made) /\ Distinct(batch')
         /\ scheduled' \subseteq scheduled
         /\ ToSet(batch') \subseteq ToSet(ready) \union scheduled
         /\ ToSet(batch') \intersect scheduled' = {}
         /\ Live' = Live
         /\ clock' \in Nat /\ clock <= clock'
         /\ \A h \in ToSet(batch') : due[h] = clock'
         /\ \A h \in scheduled' : when[h] > clock' /\ due[h] = when[h]
         /\ clock' # clock => \E c \in Live : due[c] = clock' /\ \A d \in Live : due[c] <= due[d]
<1> DEFINE timers == scheduled \ CancelledHead
<1>1. /\ made \in Nat /\ clock \in Nat /\ 1 .. made \subseteq Handles
      /\ when \in [Handles -> Nat] /\ due \in [Handles -> Nat]
      /\ ready \in Seq(1 .. made) /\ scheduled \subseteq 1 .. made
  BY SMTT(30), LoopAssumption DEF IInv, Typed, Handles
<1>2. ToSet(ready) \subseteq 1 .. made
  BY <1>1, QueueMembers
<1>3. CancelledHead \subseteq cancelled /\ timers \subseteq scheduled
  BY DEF CancelledHead
<1>4. batch = <<>> /\ cancelled' = cancelled
  BY DEF Tick, AtRest
<1> HIDE DEF timers
<1>5. PICK t \in Nat :
        /\ Drain(timers, t)
        /\ \/ t = clock
           \/ /\ ready = <<>> /\ t > clock
              /\ \E h \in timers : when[h] = t /\ \A g \in timers : g = h \/ Before(h, g)
  <2>1. CASE ready # <<>>
    BY <1>1, <2>1 DEF Tick, timers
  <2>2. CASE ready = <<>>
    <3>1. PICK h \in timers : /\ \A g \in timers : g = h \/ Before(h, g)
                              /\ Drain(timers, IF when[h] > clock THEN when[h] ELSE clock)
      BY <2>2 DEF Tick, timers
    <3>2. when[h] \in Nat
      BY <1>1, <1>3
    <3>3. CASE when[h] > clock
      BY <2>2, <3>1, <3>2, <3>3
    <3>4. CASE ~(when[h] > clock)
      BY <1>1, <3>1, <3>4
    <3> QED BY <3>3, <3>4
  <2> QED BY <2>1, <2>2
<1> DEFINE drained == { h \in timers : when[h] <= t }
<1>6. /\ clock' = t /\ scheduled' = timers \ drained /\ ready' = <<>>
      /\ batch' \in Orders(drained)
  BY <1>5 DEF Drain
<1>7. drained \subseteq timers
  OBVIOUS
<1>8. IsFiniteSet(ToSet(ready) \union drained)
  <2>1. IsFiniteSet(1 .. made)
    BY <1>1, FS_Interval
  <2>2. ToSet(ready) \union drained \subseteq 1 .. made
    BY <1>1, <1>2, <1>3, <1>7
  <2> HIDE DEF drained
  <2> QED BY <2>1, <2>2, FS_Subset
<1>9. /\ batch' \in Seq(ToSet(ready) \union drained)
      /\ ToSet(batch') = ToSet(ready) \union drained
      /\ Distinct(batch')
  <2> HIDE DEF drained
  <2> QED BY <1>6, <1>8, BatchOfAll
<1>10. batch' \in Seq(1 .. made)
  <2>1. ToSet(ready) \union drained \subseteq 1 .. made
    BY <1>1, <1>2, <1>3, <1>7
  <2> HIDE DEF drained
  <2> QED BY <1>9, <2>1, WiderQueue
<1>11. \A h \in timers : when[h] \in Nat /\ due[h] \in Nat
                         /\ \/ due[h] = when[h] /\ clock <= when[h]
                            \/ due[h] = clock /\ when[h] <= clock
  BY <1>1, <1>3 DEF IInv, Timely
<1>12. clock <= t
  BY <1>1, <1>5
<1>13. ToSet(batch') \intersect scheduled' = {}
  <2>1. ToSet(ready) \intersect scheduled = {}
    BY DEF IInv, Separate
  <2> QED BY <1>3, <1>6, <1>7, <1>9, <2>1
<1>14. \A h \in timers : when[h] > t => due[h] = when[h]
  BY <1>1, <1>11, <1>12
<1>15. \A h \in scheduled' : when[h] > clock' /\ due[h] = when[h]
  BY <1>6, <1>11, <1>14
<1>16. \A h \in timers : t # clock => when[h] >= t
  <2>1. SUFFICES ASSUME NEW g \in timers, t # clock PROVE when[g] >= t
    OBVIOUS
  <2>2. PICK h \in timers : when[h] = t /\ (g = h \/ Before(h, g))
    BY <1>5, <2>1
  <2> QED BY <1>11, <2>1, <2>2 DEF Before
<1>17. \A h \in ToSet(batch') : due[h] = clock'
  <2>1. SUFFICES ASSUME NEW h \in ToSet(ready) \union drained PROVE due[h] = t
    BY <1>6, <1>9
  <2>2. CASE h \in ToSet(ready)
    <3>1. due[h] = clock
      BY <2>2 DEF IInv, Timely
    <3>2. ready # <<>>
      BY <2>2, EmptyQueue
    <3> QED BY <1>5, <3>1, <3>2
  <2>3. CASE h \in drained
    <3>1. h \in timers /\ when[h] <= t
      BY <2>3
    <3>2. when[h] \in Nat /\ due[h] \in Nat
          /\ \/ due[h] = when[h] /\ clock <= when[h]
             \/ due[h] = clock /\ when[h] <= clock
      BY <1>11, <3>1
    <3>3. t # clock => when[h] >= t
      BY <1>16, <3>1
    <3> HIDE DEF drained
    <3> QED BY <1>1, <1>12, <3>1, <3>2, <3>3
  <2> QED BY <2>1, <2>2, <2>3
<1>18. Live' = Live
  <2>1. Live' = (ToSet(ready) \union timers) \ cancelled
    BY <1>4, <1>6, <1>7, <1>9, EmptyQueue DEF Live
  <2>2. Live = (ToSet(ready) \union scheduled) \ cancelled
    BY <1>4, EmptyQueue DEF Live
  <2> QED BY <1>3, <2>1, <2>2 DEF timers
<1>19. clock' # clock => \E c \in Live : due[c] = clock' /\ \A d \in Live : due[c] <= due[d]
  <2> SUFFICES ASSUME t # clock
               PROVE  \E c \in Live : due[c] = t /\ \A d \in Live : due[c] <= due[d]
    BY <1>6
  <2>1. PICK h \in timers : when[h] = t /\ \A g \in timers : g = h \/ Before(h, g)
    BY <1>5
  <2>2. ready = <<>> /\ t > clock
    BY <1>5
  <2>3. Live = scheduled \ cancelled
    BY <1>4, <2>2, EmptyQueue DEF Live
  <2>4. Live \subseteq timers
    BY <1>3, <2>3 DEF timers
  <2>5. h \notin cancelled
    <3>1. SUFFICES ASSUME h \in cancelled PROVE FALSE
      OBVIOUS
    <3>2. h \in scheduled /\ h \notin CancelledHead
      BY DEF timers
    <3>3. PICK g \in scheduled \ cancelled : ~Before(h, g)
      BY <3>1, <3>2 DEF CancelledHead
    <3>4. g \in timers /\ g # h
      BY <2>3, <2>4, <3>1, <3>3
    <3> QED BY <2>1, <3>3, <3>4
  <2>6. h \in Live
    BY <1>3, <2>3, <2>5
  <2>7. \A d \in timers : due[d] \in Nat /\ when[d] \in Nat /\ when[d] >= t /\ due[d] = when[d]
    BY <1>1, <1>11, <1>16, <2>2
  <2>8. due[h] = t /\ \A d \in Live : due[h] <= due[d]
    BY <2>1, <2>4, <2>7
  <2> QED BY <2>6, <2>8
<1> QED BY <1>3, <1>6, <1>7, <1>9, <1>10, <1>12, <1>13, <1>15, <1>17, <1>18, <1>19

(* Making a handle: it is new, and due when it says or at once.            *)
LEMMA MakesNew ==
  ASSUME IInv, NEW t \in Nat, Make(t)
  PROVE  /\ made + 1 \in Handles /\ made' = made + 1 /\ running # 0
         /\ when' \in [Handles -> Nat] /\ due' \in [Handles -> Nat]
         /\ when'[made + 1] = t /\ due'[made + 1] = (IF t > clock THEN t ELSE clock)
         /\ \A h \in 1 .. made : when'[h] = when[h] /\ due'[h] = due[h]
         /\ due' = [due EXCEPT ![made + 1] = due'[made + 1]]
         /\ 1 .. made \subseteq 1 .. made' /\ made + 1 \in 1 .. made'
         /\ made + 1 \notin ToSet(ready) \union ToSet(batch) \union scheduled
         /\ ToSet(ready) \union ToSet(batch) \union scheduled \subseteq 1 .. made
<1>1. /\ made \in Nat /\ clock \in Nat /\ 1 .. made \subseteq Handles
      /\ when \in [Handles -> Nat] /\ due \in [Handles -> Nat]
      /\ ready \in Seq(1 .. made) /\ batch \in Seq(1 .. made) /\ scheduled \subseteq 1 .. made
      /\ MaxHandles \in Nat
  BY SMTT(30), LoopAssumption DEF IInv, Typed, Handles
<1>2. made < MaxHandles /\ made' = made + 1 /\ running # 0
      /\ when' = [when EXCEPT ![made + 1] = t]
      /\ due' = [due EXCEPT ![made + 1] = IF t > clock THEN t ELSE clock]
  BY DEF Make
<1>3. made + 1 \in Handles
  BY <1>1, <1>2 DEF Handles
<1>4. \A h \in 1 .. made : h # made + 1 /\ h \in Handles
  BY <1>1
<1>5. ToSet(ready) \union ToSet(batch) \union scheduled \subseteq 1 .. made
  BY <1>1, QueueMembers
<1>6. 1 .. made \subseteq 1 .. made' /\ made + 1 \in 1 .. made'
  BY <1>1, <1>2
<1>7. when'[made + 1] = t /\ due'[made + 1] = (IF t > clock THEN t ELSE clock)
  BY <1>1, <1>2, <1>3
<1>8. \A h \in 1 .. made : when'[h] = when[h] /\ due'[h] = due[h]
  BY <1>1, <1>2, <1>4
<1>9. when' \in [Handles -> Nat] /\ due' \in [Handles -> Nat]
  BY <1>1, <1>2
<1> QED BY <1>2, <1>3, <1>4, <1>5, <1>6, <1>7, <1>8, <1>9

(* Initially, the invariant holds.                                         *)
LEMMA IInvInit == Init => IInv
<1> SUFFICES ASSUME Init PROVE IInv
  OBVIOUS
<1>1. Typed
  <2>1. made = 1 /\ made <= MaxHandles /\ ready = <<1>> /\ batch = <<>>
    BY LoopAssumption DEF Init
  <2>2. ready \in Seq(1 .. made) /\ batch \in Seq(1 .. made)
    BY <2>1
  <2>3. when \in [Handles -> Nat] /\ due \in [Handles -> Nat]
    BY DEF Init
  <2>4. stopping \in BOOLEAN /\ raised \in BOOLEAN
    BY DEF Init
  <2>5. clock \in Nat /\ running \in Nat /\ scheduled = {} /\ cancelled = {}
    BY DEF Init
  <2> QED BY <2>1, <2>2, <2>3, <2>4, <2>5 DEF Typed
<1>2. ToSet(ready) = {1} /\ ToSet(batch) = {} /\ Distinct(ready) /\ Distinct(batch)
  BY DEF Init, ToSet, Distinct
<1>3. Separate
  BY <1>2 DEF Init, Separate
<1>4. Timely
  BY <1>2, LoopAssumption DEF Init, Timely, Handles
<1> QED BY <1>1, <1>3, <1>4 DEF IInv, Quiet, Init

(* Every step preserves the invariant.                                     *)
LEMMA IInvStep == IInv /\ [Next]_vars => IInv'
<1> SUFFICES ASSUME IInv, [Next]_vars PROVE IInv'
  OBVIOUS
<1>1. /\ made \in Nat /\ clock \in Nat /\ running \in Nat /\ 1 <= made /\ made <= MaxHandles
      /\ MaxHandles \in Nat /\ MaxTime \in Nat
      /\ ready \in Seq(1 .. made) /\ batch \in Seq(1 .. made) /\ scheduled \subseteq 1 .. made
      /\ Distinct(ready) /\ Distinct(batch)
  BY LoopAssumption DEF IInv, Typed, Separate
<1>2. CASE CallSoon
  <2>1. Make(clock) /\ ready' = Append(ready, made + 1)
        /\ UNCHANGED <<clock, scheduled, batch, running, cancelled, stopping, raised>>
    BY <1>2 DEF CallSoon
  <2> DEFINE new == made + 1
  <2>2. /\ new \in Handles /\ made' = new /\ running # 0
        /\ when' \in [Handles -> Nat] /\ due' \in [Handles -> Nat]
        /\ due'[new] = clock
        /\ \A h \in 1 .. made : when'[h] = when[h] /\ due'[h] = due[h]
        /\ 1 .. made \subseteq 1 .. made' /\ new \in 1 .. made'
        /\ new \notin ToSet(ready) \union ToSet(batch) \union scheduled
        /\ ToSet(ready) \union ToSet(batch) \union scheduled \subseteq 1 .. made
    BY <1>1, <2>1, MakesNew
  <2>3. ready \in Seq(1 .. made') /\ batch \in Seq(1 .. made')
    BY <1>1, <2>2, WiderQueue
  <2>4. /\ ready' \in Seq(1 .. made') /\ Distinct(ready')
        /\ ToSet(ready') = ToSet(ready) \union {new}
    BY <1>1, <2>1, <2>2, <2>3, AppendedQueue
  <2>5. new <= MaxHandles /\ new \in Nat /\ 1 <= new
    BY <1>1, <2>2 DEF Handles
  <2> HIDE DEF new
  <2>6. Typed'
    BY <1>1, <2>1, <2>2, <2>3, <2>4, <2>5 DEF IInv, Typed
  <2>7. Separate'
    BY <2>1, <2>2, <2>4 DEF IInv, Separate
  <2>8. Timely'
    BY <2>1, <2>2, <2>4 DEF IInv, Timely
  <2>9. Quiet'
    BY <2>1, <2>2 DEF IInv, Quiet
  <2> QED BY <2>6, <2>7, <2>8, <2>9 DEF IInv
<1>3. ASSUME NEW t \in 0 .. MaxTime, CallAt(t) PROVE IInv'
  <2>1. Make(t) /\ scheduled' = scheduled \union {made + 1}
        /\ UNCHANGED <<clock, ready, batch, running, cancelled, stopping, raised>>
    BY <1>3 DEF CallAt
  <2> DEFINE new == made + 1
  <2>0. t \in Nat
    BY <1>1
  <2>2. /\ new \in Handles /\ made' = new /\ running # 0
        /\ when' \in [Handles -> Nat] /\ due' \in [Handles -> Nat]
        /\ when'[new] = t /\ due'[new] = (IF t > clock THEN t ELSE clock)
        /\ \A h \in 1 .. made : when'[h] = when[h] /\ due'[h] = due[h]
        /\ 1 .. made \subseteq 1 .. made' /\ new \in 1 .. made'
        /\ new \notin ToSet(ready) \union ToSet(batch) \union scheduled
        /\ ToSet(ready) \union ToSet(batch) \union scheduled \subseteq 1 .. made
    BY <2>0, <2>1, MakesNew
  <2>3. ready \in Seq(1 .. made') /\ batch \in Seq(1 .. made')
    BY <1>1, <2>2, WiderQueue
  <2>5. new <= MaxHandles /\ new \in Nat /\ 1 <= new
    BY <1>1, <2>2 DEF Handles
  <2>10. \/ due'[new] = when'[new] /\ clock <= when'[new]
         \/ due'[new] = clock /\ when'[new] <= clock
    BY <1>1, <2>0, <2>2
  <2>11. scheduled' = scheduled \union {new}
    BY <2>1
  <2> HIDE DEF new
  <2>6. Typed'
    BY <1>1, <2>1, <2>2, <2>3, <2>5, <2>11 DEF IInv, Typed
  <2>7. Separate'
    BY <2>1, <2>2, <2>11 DEF IInv, Separate
  <2>8. Timely'
    BY <2>1, <2>2, <2>10, <2>11 DEF IInv, Timely
  <2>9. Quiet'
    BY <2>1, <2>2 DEF IInv, Quiet
  <2> QED BY <2>6, <2>7, <2>8, <2>9 DEF IInv
<1>4. ASSUME NEW h \in Handles, Cancel(h) PROVE IInv'
  BY <1>4 DEF Cancel, IInv, Typed, Separate, Timely, Quiet
<1>5. CASE Stop
  BY <1>5 DEF Stop, IInv, Typed, Separate, Timely, Quiet
<1>6. CASE Return
  BY <1>6 DEF Return, IInv, Typed, Separate, Timely, Quiet
<1>7. CASE Tick
  <2>1. /\ ready' = <<>>
        /\ batch' \in Seq(1 .. made) /\ Distinct(batch')
        /\ scheduled' \subseteq scheduled
        /\ ToSet(batch') \intersect scheduled' = {}
        /\ clock' \in Nat
        /\ \A h \in ToSet(batch') : due[h] = clock'
        /\ \A h \in scheduled' : when[h] > clock' /\ due[h] = when[h]
    BY <1>7, TickMoves
  <2>2. UNCHANGED <<running, made, when, due, cancelled, stopping, raised>> /\ ~raised
    BY <1>7 DEF Tick, AtRest
  <2>3. Typed'
    BY <1>1, <2>1, <2>2 DEF IInv, Typed
  <2>4. Separate'
    BY <2>1, EmptyQueue DEF Separate
  <2>5. Timely'
    <3>1. \A h \in scheduled' : when[h] \in Nat
      BY <1>1, <2>1 DEF IInv, Typed, Handles
    <3> QED BY <2>1, <2>2, <3>1, EmptyQueue DEF Timely
  <2> QED BY <2>2, <2>3, <2>4, <2>5 DEF IInv, Quiet
<1>8. CASE Deadlock
  BY <1>8 DEF Deadlock, AtRest, IInv, Typed, Separate, Timely, Quiet
<1>9. ASSUME batch # <<>>, batch' = Tail(batch), running' \in Nat, ~raised,
             UNCHANGED <<clock, ready, scheduled, made, when, due, cancelled, stopping, raised>>
      PROVE  IInv'
  <2>1. /\ batch' \in Seq(1 .. made) /\ Distinct(batch')
        /\ ToSet(batch') = ToSet(batch) \ {Head(batch)}
    BY <1>1, <1>9, TakenQueue
  <2>2. Typed'
    BY <1>9, <2>1 DEF IInv, Typed
  <2>3. Separate'
    BY <1>9, <2>1 DEF IInv, Separate
  <2>4. Timely'
    BY <1>9, <2>1 DEF IInv, Timely
  <2> QED BY <1>9, <2>2, <2>3, <2>4 DEF IInv, Quiet
<1>10. CASE Run
  <2>1. Head(batch) \in Nat
    BY <1>1, <1>10, TakenQueue DEF Run
  <2> QED BY <1>9, <1>10, <2>1 DEF Run, IInv, Quiet
<1>11. CASE Skip
  BY <1>1, <1>9, <1>11 DEF Skip, IInv, Quiet
<1>12. CASE UNCHANGED vars
  BY <1>12 DEF vars, IInv, Typed, Separate, Timely, Quiet
<1> QED BY <1>2, <1>3, <1>4, <1>5, <1>6, <1>7, <1>8, <1>10, <1>11, <1>12
        DEF Next, Callback, Ended

(* In every behaviour, the invariant always holds.                         *)
THEOREM Invariance == Spec => []IInv
<1>1. IInv /\ UNCHANGED vars => IInv'
  BY IInvStep
<1> QED BY IInvInit, IInvStep, PTL DEF Spec

(* A deadlock is reported only when nothing is left that could run         *)
(* (_run_once).                                                            *)
THEOREM DeadlocksAreReal == Spec => []DeadlockReal
<1>1. IInv => DeadlockReal
  BY EmptyQueue DEF IInv, Quiet, DeadlockReal, Live
<1> QED BY <1>1, Invariance, PTL

-----------------------------------------------------------------------------
(* The loop implements VirtualLoop.                                        *)

(* What was made still waits, has run or was cancelled, and what has run   *)
(* does not wait.                                                          *)
Settled ==
  /\ ran \subseteq 1 .. made
  /\ ran \intersect (ToSet(ready) \union ToSet(batch) \union scheduled) = {}
  /\ 1 .. made \subseteq Live \union ran \union cancelled

LEMMA SettledStep == IInv /\ Settled /\ [Next]_vars => Settled'
<1> SUFFICES ASSUME IInv, Settled, [Next]_vars PROVE Settled'
  OBVIOUS
<1>1. /\ made \in Nat /\ MaxTime \in Nat
      /\ ready \in Seq(1 .. made) /\ batch \in Seq(1 .. made) /\ Distinct(batch)
  BY LoopAssumption DEF IInv, Typed, Separate
<1>2. ASSUME NEW t \in Nat, Make(t), UNCHANGED <<batch, cancelled, ran>>,
             ToSet(ready') \union scheduled' = ToSet(ready) \union scheduled \union {made + 1}
      PROVE  Settled'
  <2> DEFINE new == made + 1
  <2>1. /\ made' = new /\ 1 .. made \subseteq 1 .. made' /\ new \in 1 .. made'
        /\ 1 .. made' = (1 .. made) \union {new} /\ new \notin 1 .. made
    <3>1. made' = made + 1
      BY <1>2 DEF Make
    <3> QED BY <1>1, <3>1
  <2> HIDE DEF new
  <2>2. ToSet(ready') \union scheduled' = ToSet(ready) \union scheduled \union {new}
    BY <1>2 DEF new
  <2>3. ran' = ran /\ batch' = batch /\ cancelled' = cancelled
    BY <1>2
  <2>4. Live' \union cancelled' = Live \union cancelled \union {new}
    BY <2>2, <2>3 DEF Live
  <2> QED BY <2>1, <2>2, <2>3, <2>4 DEF Settled
<1>3. CASE CallSoon
  <2>1. ToSet(ready') = ToSet(ready) \union {made + 1}
    <3>1. ready \in Seq(Nat) /\ made + 1 \in Nat
      BY <1>1, WiderQueue
    <3> QED BY <1>3, <3>1, AppendedQueue DEF CallSoon
  <2>2. ToSet(ready') \union scheduled' = ToSet(ready) \union scheduled \union {made + 1}
    BY <1>3, <2>1 DEF CallSoon
  <2> QED BY <1>1, <1>2, <1>3, <2>2 DEF CallSoon, IInv, Typed
<1>4. ASSUME NEW t \in 0 .. MaxTime, CallAt(t) PROVE Settled'
  <2>1. t \in Nat
    BY <1>1
  <2> QED BY <1>2, <1>4, <2>1 DEF CallAt
<1>5. ASSUME NEW h \in Handles, Cancel(h) PROVE Settled'
  BY <1>5 DEF Cancel, Settled, Live
<1>6. CASE Stop \/ Return \/ UNCHANGED vars
  BY <1>6 DEF Stop, Return, vars, Settled, Live
<1>7. CASE Tick
  <2>1. /\ ready' = <<>> /\ scheduled' \subseteq scheduled /\ Live' = Live
        /\ ToSet(batch') \subseteq ToSet(ready) \union scheduled
    BY <1>7, TickMoves
  <2>2. UNCHANGED <<made, cancelled, ran>>
    BY <1>7 DEF Tick
  <2> QED BY <2>1, <2>2, EmptyQueue DEF Settled
<1>8. CASE Deadlock
  <2>1. scheduled \subseteq cancelled /\ scheduled' = {}
        /\ UNCHANGED <<ready, batch, made, cancelled, ran>>
    BY <1>8 DEF Deadlock, CancelledHead
  <2>2. Live' = Live
    BY <2>1 DEF Live
  <2> QED BY <2>1, <2>2 DEF Settled
<1>9. ASSUME batch # <<>>, batch' = Tail(batch), UNCHANGED <<ready, scheduled, made, cancelled>>
      PROVE  /\ ToSet(batch') = ToSet(batch) \ {Head(batch)} /\ Head(batch) \in 1 .. made
             /\ Head(batch) \notin ToSet(ready) \union scheduled
             /\ Live' = Live \ {Head(batch)}
  <2>1. /\ ToSet(batch') = ToSet(batch) \ {Head(batch)} /\ Head(batch) \in ToSet(batch)
        /\ Head(batch) \in 1 .. made
    BY <1>1, <1>9, TakenQueue
  <2>2. Head(batch) \notin ToSet(ready) \union scheduled
    BY <2>1 DEF IInv, Separate
  <2> QED BY <1>9, <2>1, <2>2 DEF Live
<1>10. CASE Run
  <2>1. ran' = ran \union {Head(batch)} /\ UNCHANGED <<ready, scheduled, made, cancelled>>
        /\ batch # <<>> /\ batch' = Tail(batch)
    BY <1>10 DEF Run
  <2> QED BY <1>9, <2>1 DEF Settled
<1>11. CASE Skip
  <2>1. Head(batch) \in cancelled /\ UNCHANGED <<ready, scheduled, made, cancelled, ran>>
        /\ batch # <<>> /\ batch' = Tail(batch)
    BY <1>11 DEF Skip
  <2> QED BY <1>9, <2>1 DEF Settled
<1> QED BY <1>3, <1>4, <1>5, <1>6, <1>7, <1>8, <1>10, <1>11 DEF Next, Callback, Ended

(* Every step of the loop is a step of VirtualLoop, or leaves it alone.    *)
LEMMA StepsKeepTime == IInv /\ Settled /\ [Next]_vars => [Virtual!Next]_(Virtual!vars)
<1> SUFFICES ASSUME IInv, Settled, [Next]_vars PROVE [Virtual!Next]_(Virtual!vars)
  OBVIOUS
<1>1. /\ made \in Nat /\ clock \in Nat /\ 1 .. made \subseteq Handles
      /\ ready \in Seq(1 .. made) /\ batch \in Seq(1 .. made) /\ scheduled \subseteq 1 .. made
      /\ Distinct(batch) /\ MaxTime \in Nat
  BY LoopAssumption DEF IInv, Typed, Separate, Handles
<1>2. ASSUME UNCHANGED <<clock, due, ran, cancelled>>, Live' = Live PROVE UNCHANGED Virtual!vars
  BY <1>2 DEF Virtual!vars
<1>3. ASSUME NEW t \in Nat, Make(t), UNCHANGED <<clock, cancelled, ran>>,
             Live' = (ToSet(ready) \union ToSet(batch) \union scheduled \union {made + 1}) \ cancelled
      PROVE  Virtual!Next
  <2> DEFINE new == made + 1
  <2>1. /\ new \in Handles /\ due'[new] = (IF t > clock THEN t ELSE clock)
        /\ due' = [due EXCEPT ![new] = due'[new]]
        /\ new \notin ToSet(ready) \union ToSet(batch) \union scheduled
    BY <1>3, MakesNew
  <2>2. new \notin 1 .. made
    BY <1>1
  <2>3. new \notin cancelled /\ new \notin ran
    BY <1>1, <2>2 DEF IInv, Typed, Settled
  <2>4. due'[new] >= clock
    BY <1>1, <2>1
  <2>5. Live' = Live \union {new} /\ new \notin Live
    BY <1>3, <2>1, <2>3 DEF Live
  <2> HIDE DEF new
  <2>6. Virtual!Schedule(new)
    BY <1>3, <2>1, <2>3, <2>4, <2>5 DEF Virtual!Schedule
  <2> QED BY <2>1, <2>6 DEF Virtual!Next
<1>4. CASE CallSoon
  <2>1. ToSet(ready') = ToSet(ready) \union {made + 1}
    <3>1. ready \in Seq(Nat) /\ made + 1 \in Nat
      BY <1>1, WiderQueue
    <3> QED BY <1>4, <3>1, AppendedQueue DEF CallSoon
  <2> QED BY <1>1, <1>3, <1>4, <2>1 DEF CallSoon, Live
<1>5. ASSUME NEW t \in 0 .. MaxTime, CallAt(t) PROVE Virtual!Next
  <2>1. t \in Nat
    BY <1>1
  <2> QED BY <1>3, <1>5, <2>1 DEF CallAt, Live
<1>6. ASSUME NEW h \in Handles, Cancel(h) PROVE [Virtual!Next]_(Virtual!vars)
  <2>1. /\ Live' = Live \ {h} /\ UNCHANGED <<clock, due, ran>>
        /\ cancelled' = cancelled \union {h} /\ h \in 1 .. made
    BY <1>6 DEF Cancel, Live
  <2>2. CASE h \in Live
    <3>1. h \notin ran
      BY <2>2 DEF Settled, Live
    <3>2. Virtual!Cancel(h)
      BY <2>1, <2>2, <3>1 DEF Virtual!Cancel
    <3> QED BY <1>6, <3>2 DEF Virtual!Next
  <2>3. CASE h \notin Live
    <3>1. h \in ran \union cancelled
      BY <2>1, <2>3 DEF Settled
    <3> QED BY <2>1, <2>3, <3>1 DEF Virtual!vars
  <2> QED BY <2>2, <2>3
<1>7. CASE Stop \/ Return \/ UNCHANGED vars
  BY <1>2, <1>7 DEF Stop, Return, vars, Live
<1>8. CASE Tick
  <2>1. Live' = Live /\ UNCHANGED <<due, ran, cancelled>>
    BY <1>8, TickMoves DEF Tick
  <2>2. CASE clock' = clock
    BY <1>2, <2>1, <2>2
  <2>3. CASE clock' # clock
    <3>1. PICK c \in Live : due[c] = clock' /\ \A d \in Live : due[c] <= due[d]
      BY <1>8, <2>3, TickMoves
    <3>2. clock' > clock
      BY <1>1, <1>8, <2>3, TickMoves
    <3>3. Virtual!Advance
      BY <2>1, <3>1, <3>2 DEF Virtual!Advance
    <3> QED BY <3>3 DEF Virtual!Next
  <2> QED BY <2>2, <2>3
<1>9. CASE Deadlock
  <2>1. scheduled \subseteq cancelled
    BY <1>9 DEF Deadlock, CancelledHead
  <2>2. Live' = Live
    BY <1>9, <2>1 DEF Deadlock, Live
  <2> QED BY <1>2, <1>9, <2>2 DEF Deadlock
<1>10. ASSUME batch # <<>>, batch' = Tail(batch),
              UNCHANGED <<clock, ready, scheduled, due, cancelled>>
       PROVE  Live' = Live \ {Head(batch)} /\ Head(batch) \in ToSet(batch)
              /\ Head(batch) \in 1 .. made
  <2>1. /\ ToSet(batch') = ToSet(batch) \ {Head(batch)} /\ Head(batch) \in ToSet(batch)
        /\ Head(batch) \in 1 .. made
    BY <1>1, <1>10, TakenQueue
  <2> QED BY <1>10, <2>1 DEF Live, IInv, Separate
<1>11. CASE Run
  <2> DEFINE h == Head(batch)
  <2>1. /\ Live' = Live \ {h} /\ h \in ToSet(batch) /\ h \in Handles /\ h \notin cancelled
        /\ UNCHANGED <<clock, due, cancelled>> /\ ran' = ran \union {h}
    BY <1>1, <1>10, <1>11 DEF Run
  <2> HIDE DEF h
  <2>2. h \in Live /\ due[h] = clock
    BY <2>1 DEF Live, IInv, Timely
  <2>3. Virtual!Fire(h)
    BY <2>1, <2>2 DEF Virtual!Fire
  <2> QED BY <2>1, <2>3 DEF Virtual!Next
<1>12. CASE Skip
  <2>1. /\ Live' = Live \ {Head(batch)} /\ Head(batch) \in cancelled
        /\ UNCHANGED <<clock, due, cancelled, ran>>
    BY <1>10, <1>12 DEF Skip
  <2>2. Live' = Live
    BY <2>1 DEF Live
  <2> QED BY <1>2, <2>1, <2>2
<1> QED BY <1>4, <1>5, <1>6, <1>7, <1>8, <1>9, <1>11, <1>12 DEF Next, Callback, Ended

(* The loop implements VirtualLoop, for any number of handles, any times   *)
(* and any callbacks, whether its batches are shuffled or not: what it is  *)
(* given runs once, at the instant it is due, or is cancelled before and   *)
(* never runs (_run_once).                                                 *)
THEOREM LoopKeepsTime == Spec => KeepsTime
<1>1. Init => Virtual!Init /\ Settled
  <2> SUFFICES ASSUME Init PROVE Virtual!Init /\ Settled
    OBVIOUS
  <2>1. ToSet(ready) = {1} /\ ToSet(batch) = {} /\ scheduled = {} /\ cancelled = {} /\ ran = {}
        /\ made = 1
    BY DEF Init, ToSet
  <2>2. Live = {1} /\ 1 .. made = {1} /\ 1 \in Handles
    BY <2>1, LoopAssumption DEF Live, Handles
  <2> QED BY <2>1, <2>2 DEF Init, Virtual!Init, Settled
<1> QED BY <1>1, StepsKeepTime, SettledStep, Invariance, PTL DEF Spec, KeepsTime, Virtual!Spec

-----------------------------------------------------------------------------
(* Simultaneous callbacks run in the order they were made.                 *)

(* g and h are both timers, or both not, and for the same instant.         *)
Alike(g, h) == (g \in soon <=> h \in soon) /\ when[g] = when[h]

(* The ready queue is in order and behind the batch, the batch is in order *)
(* where that is promised, and its timers are ahead of those still         *)
(* scheduled.                                                              *)
Ordered ==
  /\ soon \subseteq 1 .. made
  /\ ToSet(ready) \subseteq soon /\ scheduled \intersect soon = {}
  /\ \A i, j \in 1 .. Len(ready) : i < j => ready[i] < ready[j]
  /\ \A i, j \in 1 .. Len(batch) : i < j /\ Alike(batch[i], batch[j]) => batch[i] < batch[j]
  /\ \A h \in ToSet(batch), g \in ToSet(ready) : h \in soon => h < g
  /\ \A h \in ToSet(batch) \ soon, g \in scheduled : when[g] = when[h] => h < g

(* The batch of a tick is in order.                                        *)
LEMMA TickOrders ==
  ASSUME ~Shuffled, IInv, Ordered, Tick
  PROVE  /\ \A i, j \in 1 .. Len(batch') :
              i < j /\ Alike(batch'[i], batch'[j]) => batch'[i] < batch'[j]
<1>1. /\ made \in Nat /\ clock \in Nat /\ 1 .. made \subseteq Handles
      /\ ready \in Seq(1 .. made) /\ scheduled \subseteq 1 .. made
      /\ when \in [Handles -> Nat]
  BY LoopAssumption DEF IInv, Typed, Handles
<1>2. PICK drained \in SUBSET scheduled : batch' \in Orders(drained)
  BY DEF Tick, Drain
<1>3. ToSet(ready) \subseteq 1 .. made
  BY <1>1, QueueMembers
<1>4. IsFiniteSet(ToSet(ready) \union drained)
  <2>1. IsFiniteSet(1 .. made)
    BY <1>1, FS_Interval
  <2> QED BY <1>1, <1>2, <1>3, <2>1, FS_Subset
<1> DEFINE s == batch'
           n == Len(ready)
<1>5. s \in Seq(ToSet(ready) \union drained) /\ ToSet(s) = ToSet(ready) \union drained /\ Distinct(s)
  BY <1>2, <1>4, BatchOfAll
<1>6. /\ IsPrefix(ready, s)
      /\ \A i, j \in n + 1 .. Len(s) : i < j => Before(s[i], s[j])
  BY <1>2 DEF Orders
<1> HIDE DEF s
<1>7. n \in Nat /\ Len(s) \in Nat /\ \A i \in 1 .. Len(s) : s[i] \in 1 .. made
  <2>1. ToSet(ready) \union drained \subseteq 1 .. made
    BY <1>1, <1>2, <1>3
  <2>2. s \in Seq(1 .. made)
    BY <1>5, <2>1, WiderQueue
  <2> QED BY SMTT(30), <1>1, <2>2
<1>8. n <= Len(s) /\ \A i \in 1 .. n : s[i] = ready[i]
  <2>1. n <= Len(s) /\ SubSeq(ready, 1, n) = SubSeq(s, 1, n)
    BY <1>6 DEF IsPrefix
  <2>2. \A i \in 1 .. n : SubSeq(ready, 1, n)[i] = ready[i]
    BY <1>1, <1>7
  <2>3. \A i \in 1 .. n : SubSeq(s, 1, n)[i] = s[i]
    BY <1>5, <1>7, <2>1
  <2> QED BY <2>1, <2>2, <2>3
<1>9. \A i \in 1 .. n : s[i] \in soon
  BY SMTT(30), <1>1, <1>8 DEF Ordered, ToSet
<1>10. \A i \in n + 1 .. Len(s) : s[i] \notin soon
  <2> SUFFICES ASSUME NEW i \in n + 1 .. Len(s) PROVE s[i] \notin soon
    OBVIOUS
  <2>1. s[i] \notin ToSet(ready)
    <3> SUFFICES ASSUME s[i] \in ToSet(ready) PROVE FALSE
      OBVIOUS
    <3>1. PICK j \in 1 .. n : s[i] = ready[j]
      BY SMTT(30), <1>1 DEF ToSet
    <3>2. s[i] = s[j] /\ i \in 1 .. Len(s) /\ j \in 1 .. Len(s) /\ i # j
      BY <1>7, <1>8, <3>1
    <3> QED BY <1>5, <3>2 DEF Distinct
  <2>2. s[i] \in ToSet(s)
    BY <1>5, <1>7 DEF ToSet
  <2> QED BY <1>2, <1>5, <2>1, <2>2 DEF Ordered
<1> SUFFICES ASSUME NEW i \in 1 .. Len(s), NEW j \in 1 .. Len(s), i < j, Alike(s[i], s[j])
             PROVE  s[i] < s[j]
  BY DEF s
<1>11. CASE i \in 1 .. n
  <2>1. s[j] \in soon
    BY <1>9, <1>11 DEF Alike
  <2>2. j \in 1 .. n
    BY <1>7, <1>10, <2>1
  <2> QED BY <1>8, <1>11, <2>2 DEF Ordered
<1>12. CASE i \notin 1 .. n
  <2>1. i \in n + 1 .. Len(s) /\ j \in n + 1 .. Len(s)
    BY <1>7, <1>12
  <2>2. Before(s[i], s[j]) /\ when[s[i]] = when[s[j]]
    BY <1>6, <2>1 DEF Alike
  <2>3. when[s[i]] \in Nat /\ when[s[j]] \in Nat
    BY <1>1, <1>7
  <2> QED BY <2>2, <2>3 DEF Before
<1> QED BY <1>11, <1>12

(* Every step keeps the order.                                             *)
LEMMA OrderedStep ==
  ASSUME ~Shuffled, IInv, Ordered, [Next]_vars
  PROVE  Ordered'
<1>1. /\ made \in Nat /\ clock \in Nat /\ 1 .. made \subseteq Handles /\ MaxTime \in Nat
      /\ ready \in Seq(1 .. made) /\ batch \in Seq(1 .. made) /\ scheduled \subseteq 1 .. made
      /\ Distinct(batch)
  BY LoopAssumption DEF IInv, Typed, Separate, Handles
<1>2. ToSet(ready) \subseteq 1 .. made /\ ToSet(batch) \subseteq 1 .. made
      /\ (\A i \in 1 .. Len(ready) : ready[i] \in 1 .. made)
      /\ (\A i \in 1 .. Len(batch) : batch[i] \in 1 .. made)
  BY <1>1, QueueMembers
<1> DEFINE new == made + 1
<1>3. new \notin 1 .. made /\ \A h \in 1 .. made : h < new
  BY <1>1
<1>4. CASE CallSoon
  <2>1. /\ Make(clock) /\ ready' = Append(ready, new) /\ soon' = soon \union {new}
        /\ UNCHANGED <<scheduled, batch>>
    BY <1>4 DEF CallSoon
  <2>2. /\ \A h \in 1 .. made : when'[h] = when[h]
        /\ made' = new /\ 1 .. made \subseteq 1 .. made' /\ new \in 1 .. made'
    BY <1>1, <2>1, MakesNew
  <2>3. ToSet(ready') = ToSet(ready) \union {new}
    <3>1. ready \in Seq(Nat) /\ made + 1 \in Nat
      BY <1>1, WiderQueue
    <3> QED BY <2>1, <3>1, AppendedQueue
  <2>4. \A i, j \in 1 .. Len(ready') : i < j => ready'[i] < ready'[j]
    <3>1. /\ Len(ready) \in Nat /\ Len(ready') = Len(ready) + 1
          /\ ready'[Len(ready) + 1] = new
          /\ \A i \in 1 .. Len(ready) : ready'[i] = ready[i]
      BY <1>1, <2>1
    <3> SUFFICES ASSUME NEW i \in 1 .. Len(ready'), NEW j \in 1 .. Len(ready'), i < j
                 PROVE  ready'[i] < ready'[j]
      OBVIOUS
    <3>2. i \in 1 .. Len(ready)
      BY <3>1
    <3>3. CASE j = Len(ready) + 1
      BY <1>2, <1>3, <3>1, <3>2, <3>3
    <3>4. CASE j # Len(ready) + 1
      <4>1. j \in 1 .. Len(ready)
        BY <3>1, <3>4
      <4> QED BY <3>1, <3>2, <4>1 DEF Ordered
    <3> QED BY <3>3, <3>4
  <2>5. \A h \in 1 .. made : h \in soon' <=> h \in soon
    BY <1>3, <2>1
  <2> HIDE DEF new
  <2>6. \A i, j \in 1 .. Len(batch') :
          i < j /\ Alike(batch[i], batch[j])' => batch'[i] < batch'[j]
    BY <1>2, <2>1, <2>2, <2>5 DEF Ordered, Alike
  <2>7. \A h \in ToSet(batch'), g \in ToSet(ready') : h \in soon' => h < g
    BY <1>2, <1>3, <2>1, <2>3, <2>5 DEF Ordered
  <2>8. \A h \in ToSet(batch') \ soon', g \in scheduled' : when'[g] = when'[h] => h < g
    BY <1>1, <1>2, <2>1, <2>2 DEF Ordered
  <2>9. soon' \subseteq 1 .. made' /\ ToSet(ready') \subseteq soon' /\ scheduled' \intersect soon' = {}
    BY <1>1, <1>3, <2>1, <2>2, <2>3 DEF Ordered
  <2> QED BY <2>1, <2>4, <2>6, <2>7, <2>8, <2>9 DEF Ordered, Alike
<1>5. ASSUME NEW t \in 0 .. MaxTime, CallAt(t) PROVE Ordered'
  <2>1. /\ Make(t) /\ scheduled' = scheduled \union {new} /\ UNCHANGED <<ready, batch, soon>>
    BY <1>5 DEF CallAt
  <2>0. t \in Nat
    BY <1>1
  <2>2. /\ \A h \in 1 .. made : when'[h] = when[h]
        /\ 1 .. made \subseteq 1 .. made'
    BY <2>0, <2>1, MakesNew
  <2> HIDE DEF new
  <2>3. \A i, j \in 1 .. Len(batch') :
          i < j /\ Alike(batch[i], batch[j])' => batch'[i] < batch'[j]
    BY <1>2, <2>1, <2>2 DEF Ordered, Alike
  <2>4. \A h \in ToSet(batch') \ soon', g \in scheduled' : when'[g] = when'[h] => h < g
    BY <1>1, <1>2, <1>3, <2>1, <2>2 DEF Ordered
  <2>5. soon' \subseteq 1 .. made' /\ scheduled' \intersect soon' = {}
    BY <1>3, <2>1, <2>2 DEF Ordered
  <2> QED BY <2>1, <2>3, <2>4, <2>5 DEF Ordered, Alike
<1>6. CASE Tick
  <2>1. /\ ready' = <<>> /\ ToSet(ready') = {} /\ Len(ready') = 0
        /\ scheduled' \subseteq scheduled
        /\ \A h \in ToSet(batch') : due[h] = clock'
        /\ \A h \in scheduled' : when[h] > clock' /\ due[h] = when[h]
        /\ ToSet(batch') \subseteq ToSet(ready) \union scheduled
    BY <1>6, TickMoves, EmptyQueue
  <2>2. UNCHANGED <<made, when, soon>>
    BY <1>6 DEF Tick
  <2>3. \A i, j \in 1 .. Len(batch') : i < j /\ Alike(batch'[i], batch'[j]) => batch'[i] < batch'[j]
    BY <1>6, TickOrders
  <2>4. \A h \in ToSet(batch') \ soon : h \notin scheduled' /\ when[h] <= clock'
    <3> SUFFICES ASSUME NEW h \in ToSet(batch') \ soon PROVE when[h] <= clock' /\ h \notin scheduled'
      OBVIOUS
    <3>1. h \in scheduled
      BY <2>1 DEF Ordered
    <3>2. h \notin scheduled'
      BY <1>6, TickMoves
    <3>3. due[h] = clock' /\ clock' \in Nat /\ clock <= clock' /\ when[h] \in Nat /\ due[h] \in Nat
      BY <1>1, <1>6, <3>1, TickMoves DEF IInv, Typed
    <3>4. \/ due[h] = when[h] /\ clock <= when[h]
          \/ due[h] = clock /\ when[h] <= clock
      BY <3>1 DEF IInv, Timely
    <3>5. when[h] <= clock'
      BY <1>1, <3>3, <3>4
    <3> QED BY <3>2, <3>5
  <2>5. \A h \in ToSet(batch') \ soon', g \in scheduled' : when'[g] = when'[h] => h < g
    <3>1. clock' \in Nat /\ \A h \in scheduled : when[h] \in Nat
      BY <1>1, <1>6, TickMoves DEF IInv, Typed
    <3>2. \A h \in ToSet(batch') \ soon : when[h] \in Nat
      BY <2>1, <3>1 DEF Ordered
    <3> QED BY <2>1, <2>2, <2>4, <3>1, <3>2
  <2> QED BY <2>1, <2>2, <2>3, <2>5 DEF Ordered, Alike
<1>7. ASSUME batch # <<>>, batch' = Tail(batch),
             UNCHANGED <<ready, scheduled, made, when, soon>>
      PROVE  Ordered'
  <2>1. ToSet(batch') \subseteq ToSet(batch)
    BY <1>1, <1>7, TakenQueue
  <2>2. /\ Len(batch) \in Nat /\ Len(batch') = Len(batch) - 1
        /\ \A i \in 1 .. Len(batch') : batch'[i] = batch[i + 1] /\ i + 1 \in 1 .. Len(batch)
    BY <1>1, <1>7
  <2>3. \A i, j \in 1 .. Len(batch') : i < j /\ Alike(batch'[i], batch'[j]) => batch'[i] < batch'[j]
    BY <2>2 DEF Ordered
  <2> QED BY <1>7, <2>1, <2>3 DEF Ordered, Alike
<1>8. CASE Run
  BY <1>7, <1>8 DEF Run
<1>9. CASE Skip
  BY <1>7, <1>9 DEF Skip
<1>10. CASE Deadlock
  BY <1>10 DEF Deadlock, Ordered, Alike
<1>11. ASSUME NEW h \in Handles, Cancel(h) PROVE Ordered'
  BY <1>11 DEF Cancel, Ordered, Alike
<1>12. CASE Stop \/ Return \/ UNCHANGED vars
  BY <1>12 DEF Stop, Return, vars, Ordered, Alike
<1> QED BY <1>4, <1>5, <1>6, <1>8, <1>9, <1>10, <1>11, <1>12 DEF Next, Callback, Ended

(* Callbacks made by call_soon, and timers for one instant, run in the     *)
(* order they were made, if no seed shuffles them (_SeqTimerHandle).       *)
THEOREM RunsInOrder == Spec => InOrder
<1> DEFINE Step == \A g, h \in Handles :
                     /\ ~Shuffled /\ running = 0 /\ running' = h
                     /\ g \in Live' /\ (g \in soon <=> h \in soon) /\ when[g] = when[h]
                     => h < g
<1>1. IInv /\ (~Shuffled => Ordered) /\ [Next]_vars => [Step]_vars
  <2> SUFFICES ASSUME IInv, ~Shuffled, Ordered, Next,
                      NEW g \in Handles, NEW h \in Handles,
                      running = 0, running' = h, g \in Live', Alike(g, h)
               PROVE  h < g
    BY DEF Alike
  <2>1. h # 0
    BY LoopAssumption DEF Handles
  <2>2. Run
    BY <2>1 DEF Next, Callback, CallSoon, CallAt, Cancel, Stop, Return, Make, Tick, Deadlock,
                Skip, Ended, vars
  <2>3. /\ batch # <<>> /\ h = Head(batch) /\ batch' = Tail(batch)
        /\ UNCHANGED <<ready, scheduled, cancelled>>
    BY <2>2 DEF Run
  <2>4. batch \in Seq(1 .. made) /\ Distinct(batch) /\ made \in Nat
    BY DEF IInv, Typed, Separate
  <2>5. /\ ToSet(batch') = ToSet(batch) \ {h} /\ h \in ToSet(batch)
    BY <2>3, <2>4, TakenQueue
  <2>6. CASE g \in ToSet(batch) /\ g # h
    <3>1. Len(batch) \in Nat /\ Len(batch) >= 1 /\ h = batch[1]
      BY <2>3, <2>4
    <3>2. PICK j \in 1 .. Len(batch) : g = batch[j]
      BY <2>4, <2>6 DEF ToSet
    <3>3. 1 \in 1 .. Len(batch) /\ 1 < j
      BY <2>6, <3>1, <3>2
    <3>4. Alike(batch[1], batch[j])
      BY <3>1, <3>2 DEF Alike
    <3> QED BY <3>1, <3>2, <3>3, <3>4 DEF Ordered
  <2>7. CASE g \in ToSet(ready)
    BY <2>5, <2>7 DEF Ordered, Alike
  <2>8. CASE g \in scheduled
    BY <2>5, <2>8 DEF Ordered, Alike
  <2> QED BY <2>3, <2>5, <2>6, <2>7, <2>8 DEF Live
<1>2. Init => Ordered
  <2> SUFFICES ASSUME Init PROVE Ordered
    OBVIOUS
  <2>1. ToSet(ready) = {1} /\ ToSet(batch) = {} /\ Len(ready) = 1 /\ Len(batch) = 0
    BY DEF Init, ToSet
  <2> QED BY <2>1 DEF Init, Ordered
<1>3. IInv /\ (~Shuffled => Ordered) /\ [Next]_vars => (~Shuffled => Ordered)'
  BY OrderedStep
<1> QED BY <1>1, <1>2, <1>3, Invariance, PTL DEF Spec, InOrder

-----------------------------------------------------------------------------
(***************************************************************************)
(* Resources that serialize.                                               *)
(***************************************************************************)

(* The variables the argument reads have their types.                      *)
TransfersTyped ==
  /\ now \in Nat /\ stamped \in Nat
  /\ start \in [Transfers -> Nat] /\ remaining \in [Transfers -> Nat]
  /\ stamp \in [Transfers -> Nat]
  /\ alarm \in [Transfers -> Nat] /\ ended \in [Transfers -> Nat]
  /\ phase \in [Transfers -> {"away", "queued", "serving", "ended"}]
  /\ queue \in [Keys -> Seq(Transfers)]

(* A transfer is stamped when it is charged, each with a number of its     *)
(* own, and not before its time.                                           *)
Stamped ==
  /\ \A t \in Transfers : IF phase[t] = "away" THEN stamp[t] = 0
                          ELSE stamp[t] \in 1 .. stamped /\ start[t] <= now
  /\ \A t, u \in Transfers : stamp[t] = stamp[u] /\ stamp[t] # 0 => t = u

(* The queue of a resource has those that wait for it, in order, and only  *)
(* while it is busy.                                                       *)
Waits ==
  /\ \A k \in Keys : \A i \in 1 .. Len(queue[k]) :
       Key[queue[k][i]] = k /\ phase[queue[k][i]] = "queued"
  /\ \A t \in Transfers : phase[t] = "queued" =>
       \E i \in 1 .. Len(queue[Key[t]]) : queue[Key[t]][i] = t
  /\ \A k \in Keys : \A i, j \in 1 .. Len(queue[k]) :
       i < j => stamp[queue[k][i]] < stamp[queue[k][j]]
  /\ \A k \in Keys : queue[k] # <<>> => In(k, "serving") # {}

(* When a transfer that was started ends or ended.                         *)
Off(t) == IF phase[t] = "serving" THEN alarm[t] ELSE ended[t]

(* What it had to wait for.                                                *)
Free(t) == { ended[u] : u \in Earlier(t) } \union {start[t]}

(* A transfer that was started came after those before it, at the last of  *)
(* what it had to wait for.                                                *)
TimelyTransfer(t) ==
  phase[t] \in {"serving", "ended"} =>
    /\ \A u \in Earlier(t) : phase[u] = "ended"
    /\ Off(t) - Solo(t) \in Free(t)
    /\ \A e \in Free(t) : e <= Off(t) - Solo(t)

Turns ==
  /\ TransfersTyped /\ Stamped /\ Waits
  /\ \A t \in Transfers : phase[t] = "ended" => ended[t] <= now
  /\ \A t \in Transfers : TimelyTransfer(t)

TInv == mode = "serialize" => Turns

-----------------------------------------------------------------------------
(* The cost of a transfer on its own is a natural number.                  *)
LEMMA SoloNat ==
  ASSUME remaining \in [Transfers -> Nat], NEW t \in Transfers
  PROVE  Solo(t) \in Nat
<1>1. Latency[t] \in Nat /\ remaining[t] \in Nat /\ Capacity[t] \in Nat \ {0}
  BY ChannelsAssumption
<1>2. remaining[t] \div Capacity[t] \in Nat
  BY <1>1
<1> QED BY <1>1, <1>2 DEF Solo

(* Of two transfers of a resource that were charged, one is the earlier.   *)
LEMMA EarlierOrLater ==
  ASSUME TransfersTyped, Stamped, NEW t \in Transfers, NEW u \in Transfers, Key[t] = Key[u], t # u,
         phase[t] # "away", phase[u] # "away"
  PROVE  \/ stamp[t] < stamp[u] /\ t \in Earlier(u)
         \/ stamp[u] < stamp[t] /\ u \in Earlier(t)
<1>1. /\ stamp[t] \in Nat /\ stamp[u] \in Nat /\ stamp[t] >= 1 /\ stamp[u] >= 1
      /\ stamp[t] # stamp[u]
  BY DEF TransfersTyped, Stamped
<1> QED BY <1>1 DEF Earlier

(* So a resource serves one transfer at a time.                            *)
LEMMA OneServed ==
  ASSUME Turns, NEW t \in Transfers, NEW u \in Transfers, Key[t] = Key[u],
         phase[t] = "serving", phase[u] = "serving"
  PROVE  t = u
<1> SUFFICES ASSUME t # u PROVE FALSE
  OBVIOUS
<1>1. t \in Earlier(u) \/ u \in Earlier(t)
  BY EarlierOrLater DEF Turns
<1> QED BY <1>1 DEF Turns, TimelyTransfer

(* A transfer that was started, and is not touched, stays timely: those    *)
(* before it have ended.                                                   *)
LEMMA TimelyStays ==
  ASSUME NEW t \in Transfers, TimelyTransfer(t), Earlier(t)' = Earlier(t), remaining' = remaining,
         start' = start, phase'[t] = phase[t], alarm'[t] = alarm[t], ended'[t] = ended[t],
         \A u \in Transfers : phase[u] = "ended" => phase'[u] = "ended" /\ ended'[u] = ended[u]
  PROVE  TimelyTransfer(t)'
<1> SUFFICES ASSUME phase[t] \in {"serving", "ended"} PROVE TimelyTransfer(t)'
  BY DEF TimelyTransfer
<1>1. \A u \in Earlier(t) : /\ u \in Transfers /\ phase[u] = "ended"
                           /\ phase'[u] = "ended" /\ ended'[u] = ended[u]
  BY DEF TimelyTransfer, Earlier
<1>2. Free(t)' = Free(t)
  BY <1>1 DEF Free
<1>3. Off(t)' = Off(t) /\ Solo(t)' = Solo(t)
  BY DEF Off, Solo
<1> QED BY <1>1, <1>2, <1>3 DEF TimelyTransfer

(* A transfer starts now, when those before it have ended, either on being *)
(* charged or on the end of one of them.                                   *)
LEMMA TimelyStarts ==
  ASSUME remaining \in [Transfers -> Nat], remaining' = remaining, now \in Nat,
         NEW t \in Transfers, phase'[t] = "serving", alarm'[t] = now + Solo(t),
         start'[t] \in Nat, start'[t] <= now,
         \A u \in Earlier(t)' : phase'[u] = "ended" /\ ended'[u] \in Nat /\ ended'[u] <= now,
         start'[t] = now \/ \E u \in Earlier(t)' : ended'[u] = now
  PROVE  TimelyTransfer(t)'
<1>1. Solo(t)' = Solo(t) /\ Solo(t) \in Nat
  BY SoloNat DEF Solo
<1>2. Off(t)' - Solo(t)' = now
  BY <1>1 DEF Off
<1>3. now \in Free(t)' /\ \A e \in Free(t)' : e <= now
  BY DEF Free
<1> QED BY <1>2, <1>3 DEF TimelyTransfer

-----------------------------------------------------------------------------
(* The first transfer in a queue that is started after the one in service. *)
LEMMA FinishTurns ==
  ASSUME Turns, NEW t \in Transfers, Finish(t)
  PROVE  Turns'
<1> DEFINE k == Key[t]
           waiting == queue[k]
           ph == [phase EXCEPT ![t] = "ended"]
<1>0. /\ TransfersTyped /\ Stamped /\ Waits
      /\ \A u \in Transfers : TimelyTransfer(u) /\ (phase[u] = "ended" => ended[u] <= now)
  BY DEF Turns
<1>1. /\ phase[t] = "serving" /\ alarm[t] = now /\ ended' = [ended EXCEPT ![t] = now]
      /\ StartNext(k, waiting, ph)
      /\ UNCHANGED <<now, start, stamped, stamp, remaining>>
  BY DEF Finish
<1>2. k \in Keys /\ waiting \in Seq(Transfers)
  BY <1>0, ChannelsAssumption DEF TransfersTyped
<1>3. /\ ended' \in [Transfers -> Nat] /\ ended'[t] = now
      /\ \A u \in Transfers \ {t} : ended'[u] = ended[u]
  BY <1>0, <1>1 DEF TransfersTyped
<1>4. \A u \in Transfers : Earlier(u)' = Earlier(u)
  BY <1>1 DEF Earlier
<1>5. \A u \in Transfers : ph[u] = IF u = t THEN "ended" ELSE phase[u]
  BY <1>0 DEF TransfersTyped
<1>6. TimelyTransfer(t)' \/ phase'[t] # "ended"
  <2> SUFFICES ASSUME phase'[t] = "ended" PROVE TimelyTransfer(t)'
    OBVIOUS
  <2>1. \A u \in Earlier(t) : u \in Transfers /\ phase[u] = "ended" /\ u # t
    BY <1>0, <1>1 DEF TimelyTransfer, Earlier, TransfersTyped
  <2>2. Free(t)' = Free(t)
    BY <1>1, <1>3, <1>4, <2>1 DEF Free
  <2>3. Off(t) = now /\ Off(t)' = now /\ Solo(t)' = Solo(t)
    BY <1>1, <1>3 DEF Off, Solo
  <2>4. \A u \in Earlier(t) : phase'[u] = "ended"
    <3> TAKE u \in Earlier(t)
    <3>1. CASE waiting = <<>>
      BY <1>1, <1>5, <2>1, <3>1 DEF StartNext
    <3>2. CASE waiting # <<>>
      <4>1. Head(waiting) = waiting[1] /\ 1 \in 1 .. Len(waiting)
        BY <1>2, <3>2
      <4>2. phase[Head(waiting)] = "queued"
        BY <1>0, <1>2, <4>1 DEF Waits
      <4>3. phase' = [ph EXCEPT ![Head(waiting)] = "serving"]
        BY <1>1, <3>2 DEF StartNext
      <4>4. /\ u # Head(waiting) /\ ph[u] = "ended"
            /\ ph \in [Transfers -> {"away", "queued", "serving", "ended"}]
        <5>1. ph \in [Transfers -> {"away", "queued", "serving", "ended"}]
          BY <1>0 DEF TransfersTyped
        <5>2. ph[u] = "ended" /\ u # Head(waiting)
          <6> HIDE DEF ph, waiting
          <6> QED BY <1>5, <2>1, <4>2
        <5> QED BY <5>1, <5>2
      <4> QED BY <2>1, <4>3, <4>4
    <3> QED BY <3>1, <3>2
  <2> QED BY <1>0, <1>1, <1>4, <2>2, <2>3, <2>4 DEF TimelyTransfer
<1>7. CASE waiting = <<>>
  <2>1. queue' = queue /\ phase' = ph /\ alarm' = alarm
    BY <1>0, <1>1, <1>2, <1>7 DEF StartNext, TransfersTyped
  <2>2. TransfersTyped'
    BY <1>0, <1>1, <1>3, <1>5, <2>1 DEF TransfersTyped
  <2>3. Stamped'
    BY <1>0, <1>1, <1>5, <2>1 DEF Stamped, TransfersTyped
  <2>4. Waits'
    <3>1. \A j \in Keys : \A i \in 1 .. Len(queue[j]) :
            Key[queue[j][i]] = j /\ phase'[queue[j][i]] = "queued"
      <4> TAKE j \in Keys
      <4> TAKE i \in 1 .. Len(queue[j])
      <4>1. Key[queue[j][i]] = j /\ phase[queue[j][i]] = "queued"
        BY <1>0 DEF Waits
      <4>2. queue[j] \in Seq(Transfers)
        BY <1>0 DEF TransfersTyped
      <4>3. queue[j][i] \in Transfers
        BY <4>2
      <4> QED BY <1>1, <1>5, <2>1, <4>1, <4>3
    <3>2. \A u \in Transfers : phase'[u] = "queued" =>
            \E i \in 1 .. Len(queue[Key[u]]) : queue[Key[u]][i] = u
      BY <1>0, <1>5, <2>1 DEF Waits
    <3>3. ASSUME NEW j \in Keys, queue[j] # <<>> PROVE In(j, "serving")' # {}
      <4>1. PICK u \in In(j, "serving") : TRUE
        BY <1>0, <3>3 DEF Waits
      <4>2. u \in Transfers /\ Key[u] = j /\ phase[u] = "serving" /\ u # t
        BY <1>7, <3>3, <4>1 DEF In
      <4>3. phase'[u] = "serving"
        BY <1>5, <2>1, <4>2
      <4> QED BY <4>2, <4>3 DEF In
    <3> QED BY <1>0, <1>1, <2>1, <3>1, <3>2, <3>3 DEF Waits
  <2>5. \A u \in Transfers : TimelyTransfer(u)'
    <3> TAKE u \in Transfers
    <3>1. CASE u = t
      BY <1>5, <1>6, <2>1, <3>1
    <3>2. CASE u # t
      BY <1>0, <1>1, <1>3, <1>4, <1>5, <2>1, <3>2, TimelyStays
    <3> QED BY <3>1, <3>2
  <2>6. \A u \in Transfers : phase'[u] = "ended" => ended'[u] <= now'
    BY <1>0, <1>1, <1>3, <1>5, <2>1 DEF TransfersTyped
  <2> QED BY <2>2, <2>3, <2>4, <2>5, <2>6 DEF Turns
<1>8. CASE waiting # <<>>
  <2>0. PICK h \in Transfers : h = Head(waiting)
    BY <1>2, <1>8
  <2>1. /\ queue' = [queue EXCEPT ![k] = Tail(waiting)]
        /\ phase' = [ph EXCEPT ![h] = "serving"]
        /\ alarm' = [alarm EXCEPT ![h] = now + Solo(h)]
    BY <1>1, <1>8, <2>0 DEF StartNext
  <2>2. /\ Len(waiting) \in Nat /\ Len(waiting) >= 1 /\ h = waiting[1] /\ h \in Transfers
        /\ Tail(waiting) \in Seq(Transfers) /\ Len(Tail(waiting)) = Len(waiting) - 1
        /\ \A i \in 1 .. Len(waiting) - 1 : Tail(waiting)[i] = waiting[i + 1]
    BY <1>2, <1>8, <2>0
  <2>3. Key[h] = k /\ phase[h] = "queued" /\ h # t
    BY <1>0, <1>1, <1>2, <2>2 DEF Waits
  <2> HIDE DEF k, waiting
  <2>4. \A u \in Transfers : phase'[u] = IF u = h THEN "serving" ELSE IF u = t THEN "ended" ELSE phase[u]
    BY <1>0, <2>1, <2>2 DEF TransfersTyped
  <2>5. Solo(h) \in Nat
    BY <1>0, <2>2, SoloNat DEF TransfersTyped
  <2>6. TransfersTyped'
    <3>1. alarm' \in [Transfers -> Nat]
      <4>1. now + Solo(h) \in Nat
        BY SMTT(30), <1>0, <2>5 DEF TransfersTyped
      <4> QED BY <1>0, <2>1, <4>1 DEF TransfersTyped
    <3>2. queue' \in [Keys -> Seq(Transfers)]
      BY <1>0, <2>1, <2>2 DEF TransfersTyped
    <3>3. phase' \in [Transfers -> {"away", "queued", "serving", "ended"}]
      BY <1>0, <2>1 DEF TransfersTyped
    <3> QED BY <1>0, <1>1, <1>3, <3>1, <3>2, <3>3 DEF TransfersTyped
  <2>7. Stamped'
    BY <1>0, <1>1, <2>3, <2>4 DEF Stamped
  <2>8. queue'[k] = Tail(waiting) /\ \A j \in Keys \ {k} : queue'[j] = queue[j]
    BY <1>0, <1>2, <2>1 DEF TransfersTyped
  <2>9. \A i \in 2 .. Len(waiting) : /\ waiting[i] \in Transfers /\ waiting[i] # h
                                     /\ Key[waiting[i]] = k /\ phase[waiting[i]] = "queued"
                                     /\ stamp[h] < stamp[waiting[i]]
    <3> TAKE i \in 2 .. Len(waiting)
    <3>1. i \in 1 .. Len(waiting) /\ 1 \in 1 .. Len(waiting) /\ 1 < i
      BY <2>2
    <3>2. stamp[waiting[1]] < stamp[waiting[i]]
      BY <1>0, <1>2, <3>1 DEF Waits, waiting
    <3>3. /\ waiting[i] \in Transfers /\ Key[waiting[i]] = k /\ phase[waiting[i]] = "queued"
      BY <1>0, <1>2, <3>1 DEF Waits, waiting
    <3>4. stamp[h] \in Nat
      BY <1>0, <2>2 DEF TransfersTyped
    <3> QED BY <2>2, <3>2, <3>3, <3>4
  <2>10. Waits'
    <3>1. ASSUME NEW j \in Keys, NEW i \in 1 .. Len(queue'[j])
          PROVE  Key[queue'[j][i]] = j /\ phase'[queue'[j][i]] = "queued"
      <4>1. CASE j = k
        <5>1. i + 1 \in 2 .. Len(waiting) /\ queue'[j][i] = waiting[i + 1]
          BY <2>2, <2>8, <3>1, <4>1
        <5> QED BY <1>1, <2>4, <2>9, <4>1, <5>1
      <4>2. CASE j # k
        <5>1. /\ queue'[j][i] = queue[j][i] /\ i \in 1 .. Len(queue[j])
              /\ queue[j][i] \in Transfers
          <6>1. queue'[j] = queue[j] /\ queue[j] \in Seq(Transfers)
            BY <1>0, <2>8, <4>2 DEF TransfersTyped
          <6> QED BY <3>1, <6>1
        <5>2. Key[queue[j][i]] = j /\ phase[queue[j][i]] = "queued"
          BY <1>0, <5>1 DEF Waits
        <5> QED BY <1>1, <2>3, <2>4, <4>2, <5>1, <5>2
      <4> QED BY <4>1, <4>2
    <3>2. ASSUME NEW u \in Transfers, phase'[u] = "queued"
          PROVE  \E i \in 1 .. Len(queue'[Key[u]]) : queue'[Key[u]][i] = u
      <4>1. phase[u] = "queued" /\ u # h
        BY <1>1, <2>4, <3>2
      <4>2. PICK i \in 1 .. Len(queue[Key[u]]) : queue[Key[u]][i] = u
        BY <1>0, <4>1 DEF Waits
      <4>3. CASE Key[u] = k
        <5>1. i # 1 /\ i \in 1 .. Len(waiting) /\ waiting[i] = u
          BY <2>2, <4>1, <4>2, <4>3 DEF waiting
        <5>2. i - 1 \in 1 .. Len(waiting) - 1 /\ Tail(waiting)[i - 1] = waiting[i]
          <6>1. i - 1 \in 1 .. Len(waiting) - 1 /\ (i - 1) + 1 = i
            BY <2>2, <5>1
          <6> QED BY <2>2, <6>1
        <5> QED BY <2>2, <2>8, <4>3, <5>1, <5>2
      <4>4. CASE Key[u] # k
        <5>1. Key[u] \in Keys
          BY ChannelsAssumption
        <5> QED BY <2>8, <4>2, <4>4, <5>1
      <4> QED BY <4>3, <4>4
    <3>3. ASSUME NEW j \in Keys, NEW a \in 1 .. Len(queue'[j]), NEW b \in 1 .. Len(queue'[j]), a < b
          PROVE  stamp[queue'[j][a]] < stamp[queue'[j][b]]
      <4>1. CASE j = k
        <5>1. /\ a + 1 \in 1 .. Len(waiting) /\ b + 1 \in 1 .. Len(waiting) /\ a + 1 < b + 1
              /\ queue'[j][a] = waiting[a + 1] /\ queue'[j][b] = waiting[b + 1]
          <6>1. a \in 1 .. Len(waiting) - 1 /\ b \in 1 .. Len(waiting) - 1
            BY <2>2, <2>8, <3>3, <4>1
          <6>2. queue'[j][a] = waiting[a + 1] /\ queue'[j][b] = waiting[b + 1]
            BY <2>2, <2>8, <4>1, <6>1
          <6>3. a + 1 \in 1 .. Len(waiting) /\ b + 1 \in 1 .. Len(waiting) /\ a + 1 < b + 1
            BY <2>2, <3>3, <6>1
          <6> QED BY <6>2, <6>3
        <5> QED BY <1>0, <1>2, <5>1 DEF Waits, waiting
      <4>2. CASE j # k
        BY <1>0, <2>8, <3>3, <4>2 DEF Waits
      <4> QED BY <4>1, <4>2
    <3>4. ASSUME NEW j \in Keys, queue'[j] # <<>> PROVE In(j, "serving")' # {}
      <4>1. CASE j = k
        BY <2>2, <2>3, <2>4, <4>1 DEF In
      <4>2. CASE j # k
        <5>1. PICK u \in In(j, "serving") : TRUE
          BY <1>0, <2>8, <3>4, <4>2 DEF Waits
        <5>2. u \in Transfers /\ Key[u] = j /\ phase[u] = "serving" /\ u # t
          BY <4>2, <5>1 DEF In, k
        <5>3. phase'[u] = "serving"
          BY <2>4, <5>2
        <5> QED BY <5>2, <5>3 DEF In
      <4> QED BY <4>1, <4>2
    <3> QED BY <1>1, <3>1, <3>2, <3>3, <3>4 DEF Waits
  <2>11. ASSUME NEW u \in Earlier(h)
         PROVE  u \in Transfers /\ phase'[u] = "ended" /\ ended'[u] \in Nat /\ ended'[u] <= now
    <3>1. /\ u \in Transfers /\ Key[u] = k /\ stamp[u] \in Nat /\ stamp[h] \in Nat
          /\ 1 <= stamp[u] /\ stamp[u] < stamp[h] /\ u # h
      <4>1. u \in Transfers /\ Key[u] = Key[h] /\ stamp[u] \in 1 .. stamp[h] - 1
        BY <2>11 DEF Earlier
      <4>2. stamp[u] \in Nat /\ stamp[h] \in Nat
        BY <1>0, <4>1 DEF TransfersTyped
      <4> QED BY <2>3, <4>1, <4>2
    <3>2. phase[u] # "away"
      BY <1>0, <3>1 DEF Stamped
    <3>3. phase[u] # "queued"
      <4> SUFFICES ASSUME phase[u] = "queued" PROVE FALSE
        OBVIOUS
      <4>1. PICK i \in 1 .. Len(waiting) : waiting[i] = u
        BY <1>0, <3>1 DEF Waits, waiting
      <4>2. i \in 2 .. Len(waiting)
        BY <2>2, <3>1, <4>1
      <4>3. stamp[h] < stamp[u]
        BY <2>9, <4>1, <4>2
      <4> QED BY <3>1, <4>3
    <3>4. CASE u = t
      BY <1>0, <1>3, <2>3, <2>4, <3>4 DEF TransfersTyped
    <3>5. CASE u # t
      <4>1. phase[u] # "serving"
        BY <1>1, <3>1, <3>5, OneServed DEF k
      <4>2. phase[u] = "ended"
        BY <1>0, <3>1, <3>2, <3>3, <4>1 DEF TransfersTyped
      <4> QED BY <1>0, <1>3, <2>4, <3>1, <3>5, <4>2 DEF TransfersTyped
    <3> QED BY <3>4, <3>5
  <2>12. t \in Earlier(h)
    <3>1. phase[t] # "away" /\ phase[h] # "away" /\ Key[t] = Key[h]
      BY <1>1, <2>3 DEF k
    <3>2. h \notin Earlier(t)
      BY <1>0, <1>1, <2>3 DEF TimelyTransfer
    <3> QED BY <1>0, <2>2, <2>3, <3>1, <3>2, EarlierOrLater
  <2>13. TimelyTransfer(h)'
    <3>1. phase'[h] = "serving" /\ alarm'[h] = now + Solo(h)
      BY <1>0, <2>1, <2>2, <2>4 DEF TransfersTyped
    <3>2. start'[h] \in Nat /\ start'[h] <= now
      BY <1>0, <1>1, <2>2, <2>3 DEF Stamped, TransfersTyped
    <3>3. \E u \in Earlier(h)' : ended'[u] = now
      BY <1>3, <1>4, <2>2, <2>12
    <3>4. \A u \in Earlier(h)' : phase'[u] = "ended" /\ ended'[u] \in Nat /\ ended'[u] <= now
      BY <1>4, <2>2, <2>11
    <3>5. remaining \in [Transfers -> Nat] /\ remaining' = remaining /\ now \in Nat
      BY <1>0, <1>1 DEF TransfersTyped
    <3> QED BY <2>2, <3>1, <3>2, <3>3, <3>4, <3>5, TimelyStarts
  <2>14. \A u \in Transfers : TimelyTransfer(u)'
    <3> TAKE u \in Transfers
    <3>1. CASE u = t
      BY <1>6, <2>3, <2>4, <3>1
    <3>2. CASE u = h
      BY <2>13, <3>2
    <3>3. CASE u # t /\ u # h
      <4>1. /\ phase'[u] = phase[u] /\ alarm'[u] = alarm[u] /\ ended'[u] = ended[u]
        BY <1>0, <1>3, <2>1, <2>4, <3>3 DEF TransfersTyped
      <4>2. \A v \in Transfers : phase[v] = "ended" => phase'[v] = "ended" /\ ended'[v] = ended[v]
        BY <1>1, <1>3, <2>3, <2>4
      <4> QED BY <1>0, <1>1, <1>4, <4>1, <4>2, TimelyStays
    <3> QED BY <3>1, <3>2, <3>3
  <2>15. \A u \in Transfers : phase'[u] = "ended" => ended'[u] <= now'
    <3> TAKE u \in Transfers
    <3>1. now \in Nat /\ now' = now
      BY <1>0, <1>1 DEF TransfersTyped
    <3>2. CASE u = t
      BY <1>3, <3>1, <3>2
    <3>3. CASE u # t
      BY <1>0, <1>3, <2>4, <3>1, <3>3
    <3> QED BY <3>2, <3>3
  <2> QED BY <2>6, <2>7, <2>10, <2>14, <2>15 DEF Turns
<1> QED BY <1>7, <1>8

(* A transfer that is charged starts at once on an idle resource, and      *)
(* waits behind all others on a busy one.                                  *)
LEMMA ChargeTurns ==
  ASSUME Turns, NEW t \in Transfers, ChargeSerial(t)
  PROVE  Turns'
<1> DEFINE k == Key[t]
           waiting == Append(queue[k], t)
           queued == [phase EXCEPT ![t] = "queued"]
<1>0. /\ TransfersTyped /\ Stamped /\ Waits
      /\ \A u \in Transfers : TimelyTransfer(u) /\ (phase[u] = "ended" => ended[u] <= now)
  BY DEF Turns
<1>1. /\ phase[t] = "away" /\ start[t] = now
      /\ stamped' = stamped + 1 /\ stamp' = [stamp EXCEPT ![t] = stamped + 1]
      /\ UNCHANGED <<now, start, remaining, ended>>
  BY DEF ChargeSerial, Stamp
<1>2. k \in Keys /\ queue[k] \in Seq(Transfers) /\ Len(queue[k]) \in Nat
  BY <1>0, ChannelsAssumption DEF TransfersTyped
<1>3. /\ waiting \in Seq(Transfers) /\ Len(waiting) = Len(queue[k]) + 1
      /\ waiting[Len(queue[k]) + 1] = t
      /\ \A i \in 1 .. Len(queue[k]) : waiting[i] = queue[k][i]
  BY <1>2
<1>4. \A u \in Transfers : queued[u] = IF u = t THEN "queued" ELSE phase[u]
  BY <1>0 DEF TransfersTyped
<1>5. /\ stamp' \in [Transfers -> Nat] /\ stamp'[t] = stamped + 1
      /\ \A u \in Transfers \ {t} : stamp'[u] = stamp[u] /\ stamp[u] \in Nat /\ stamp[u] <= stamped
  BY <1>0, <1>1 DEF TransfersTyped, Stamped
<1>6. stamped \in Nat /\ now \in Nat
  BY <1>0 DEF TransfersTyped
<1>7. \A u \in Transfers \ {t} : Earlier(u)' = Earlier(u)
  <2> TAKE u \in Transfers \ {t}
  <2>1. t \notin Earlier(u)'
    BY <1>5, <1>6 DEF Earlier
  <2>2. t \notin Earlier(u)
    BY <1>0, <1>1 DEF Earlier, Stamped
  <2>3. \A v \in Transfers \ {t} : v \in Earlier(u)' <=> v \in Earlier(u)
    BY <1>5 DEF Earlier
  <2>4. Earlier(u) \subseteq Transfers /\ Earlier(u)' \subseteq Transfers
    BY DEF Earlier
  <2> QED BY <2>1, <2>2, <2>3, <2>4
<1>8. Stamped' \/ phase'[t] = "away" \/ \E u \in Transfers \ {t} : (phase'[u] = "away") # (phase[u] = "away")
  <2> SUFFICES ASSUME phase'[t] # "away",
                      \A u \in Transfers \ {t} : (phase'[u] = "away") = (phase[u] = "away")
               PROVE  Stamped'
    OBVIOUS
  <2>1. ASSUME NEW u \in Transfers
        PROVE  IF phase'[u] = "away" THEN stamp'[u] = 0
               ELSE stamp'[u] \in 1 .. stamped' /\ start'[u] <= now'
    <3>1. CASE u = t
      BY <1>1, <1>5, <1>6, <3>1
    <3>2. CASE u # t
      BY <1>0, <1>1, <1>5, <1>6, <3>2 DEF Stamped
    <3> QED BY <3>1, <3>2
  <2>2. ASSUME NEW u \in Transfers, NEW v \in Transfers, stamp'[u] = stamp'[v], stamp'[u] # 0
        PROVE  u = v
    <3>1. CASE u # t /\ v # t
      BY <1>0, <1>5, <2>2, <3>1 DEF Stamped
    <3>2. CASE u = t \/ v = t
      BY <1>5, <1>6, <2>2, <3>2
    <3> QED BY <3>1, <3>2
  <2> QED BY <2>1, <2>2 DEF Stamped
<1>9. ASSUME NEW i \in 1 .. Len(queue[k])
      PROVE  /\ queue[k][i] \in Transfers /\ queue[k][i] # t
             /\ Key[queue[k][i]] = k /\ phase[queue[k][i]] = "queued"
  BY <1>0, <1>1, <1>2, <1>9 DEF Waits
<1>10. ASSUME NEW j \in Keys \ {k}, NEW i \in 1 .. Len(queue[j])
       PROVE  /\ queue[j][i] \in Transfers /\ queue[j][i] # t
              /\ Key[queue[j][i]] = j /\ phase[queue[j][i]] = "queued"
  <2>1. queue[j] \in Seq(Transfers)
    BY <1>0 DEF TransfersTyped
  <2>2. queue[j][i] \in Transfers
    BY <1>10, <2>1
  <2> QED BY <1>0, <1>1, <1>10, <2>2 DEF Waits
<1> HIDE DEF waiting
<1>11. CASE In(k, "serving") = {} /\ StartNext(k, waiting, queued)
  <2>1. queue[k] = <<>>
    BY <1>0, <1>2, <1>11 DEF Waits
  <2>2. waiting # <<>> /\ Head(waiting) = t /\ Tail(waiting) = <<>>
    BY <1>2, <2>1 DEF waiting
  <2>3. /\ queue' = queue
        /\ phase' = [queued EXCEPT ![t] = "serving"]
        /\ alarm' = [alarm EXCEPT ![t] = now + Solo(t)]
    <3>1. queue' = [queue EXCEPT ![k] = <<>>]
      BY <1>11, <2>2 DEF StartNext
    <3> QED BY <1>0, <1>2, <1>11, <2>1, <2>2, <3>1 DEF StartNext, TransfersTyped
  <2>4. \A u \in Transfers : phase'[u] = IF u = t THEN "serving" ELSE phase[u]
    BY <1>0, <2>3 DEF TransfersTyped
  <2>5. Solo(t) \in Nat
    BY <1>0, SoloNat DEF TransfersTyped
  <2>6. TransfersTyped'
    <3>1. now + Solo(t) \in Nat
      BY <1>6, <2>5
    <3>2. alarm' \in [Transfers -> Nat] /\ phase' \in [Transfers -> {"away", "queued", "serving", "ended"}]
      BY <1>0, <2>3, <3>1 DEF TransfersTyped
    <3> QED BY <1>0, <1>1, <1>5, <1>6, <2>3, <3>2 DEF TransfersTyped
  <2>7. Stamped'
    BY <1>1, <1>8, <2>4
  <2>8. Waits'
    <3>1. ASSUME NEW j \in Keys, NEW i \in 1 .. Len(queue[j])
          PROVE  /\ j # k /\ Key[queue[j][i]] = j /\ phase'[queue[j][i]] = "queued"
                 /\ queue[j][i] \in Transfers /\ stamp'[queue[j][i]] = stamp[queue[j][i]]
      <4>1. j # k
        BY <2>1, <3>1
      <4> QED BY <1>5, <1>10, <2>4, <3>1, <4>1
    <3>2. \A u \in Transfers : phase'[u] = "queued" =>
            \E i \in 1 .. Len(queue[Key[u]]) : queue[Key[u]][i] = u
      BY <1>0, <2>4 DEF Waits
    <3>3. ASSUME NEW j \in Keys, NEW a \in 1 .. Len(queue[j]), NEW b \in 1 .. Len(queue[j]), a < b
          PROVE  stamp'[queue[j][a]] < stamp'[queue[j][b]]
      BY SMTT(30), <1>0, <3>1, <3>3 DEF Waits
    <3>4. ASSUME NEW j \in Keys, queue[j] # <<>> PROVE In(j, "serving")' # {}
      <4>1. PICK u \in In(j, "serving") : TRUE
        BY <1>0, <3>4 DEF Waits
      <4>2. u \in Transfers /\ Key[u] = j /\ phase'[u] = "serving"
        BY <2>4, <4>1 DEF In
      <4> QED BY <4>2 DEF In
    <3>5. \A j \in Keys : \A a, b \in 1 .. Len(queue[j]) :
            a < b => stamp'[queue[j][a]] < stamp'[queue[j][b]]
      BY <3>3
    <3>6. \A j \in Keys : \A i \in 1 .. Len(queue[j]) :
            Key[queue[j][i]] = j /\ phase'[queue[j][i]] = "queued"
      BY <3>1
    <3>7. queue' = queue
      BY <2>3
    <3> QED BY <3>2, <3>4, <3>5, <3>6, <3>7 DEF Waits
  <2>9. ASSUME NEW u \in Earlier(t)'
        PROVE  phase'[u] = "ended" /\ ended'[u] \in Nat /\ ended'[u] <= now
    <3>1. u \in Transfers /\ Key[u] = k /\ stamp'[u] \in 1 .. stamped
      BY <1>5, <1>6, <2>9 DEF Earlier
    <3>2. u # t /\ stamp[u] # 0
      BY <1>5, <1>6, <3>1
    <3>3. phase[u] # "away" /\ phase[u] # "serving"
      BY <1>0, <1>11, <3>1, <3>2 DEF Stamped, In
    <3>4. phase[u] # "queued"
      BY <1>0, <2>1, <3>1 DEF Waits
    <3>5. phase[u] = "ended"
      BY <1>0, <3>1, <3>3, <3>4 DEF TransfersTyped
    <3> QED BY <1>0, <1>1, <2>4, <3>1, <3>2, <3>5 DEF TransfersTyped
  <2>10. TimelyTransfer(t)'
    <3>1. phase'[t] = "serving" /\ alarm'[t] = now + Solo(t)
      BY <1>0, <2>3, <2>4 DEF TransfersTyped
    <3>2. start'[t] = now
      BY <1>1
    <3>3. remaining \in [Transfers -> Nat] /\ remaining' = remaining
      BY <1>0, <1>1 DEF TransfersTyped
    <3> QED BY <1>6, <2>9, <3>1, <3>2, <3>3, TimelyStarts
  <2>11. \A u \in Transfers : TimelyTransfer(u)'
    <3> TAKE u \in Transfers
    <3>1. CASE u = t
      BY <2>10, <3>1
    <3>2. CASE u # t
      <4>1. phase'[u] = phase[u] /\ alarm'[u] = alarm[u] /\ ended'[u] = ended[u]
        BY <1>0, <1>1, <2>3, <2>4, <3>2 DEF TransfersTyped
      <4>2. \A v \in Transfers : phase[v] = "ended" => phase'[v] = "ended" /\ ended'[v] = ended[v]
        BY <1>1, <2>4
      <4> QED BY <1>0, <1>1, <1>7, <3>2, <4>1, <4>2, TimelyStays
    <3> QED BY <3>1, <3>2
  <2>12. \A u \in Transfers : phase'[u] = "ended" => ended'[u] <= now'
    BY <1>0, <1>1, <2>4
  <2> QED BY <2>6, <2>7, <2>8, <2>11, <2>12 DEF Turns
<1>12. CASE /\ In(k, "serving") # {} /\ phase' = queued /\ alarm' = alarm
            /\ queue' = [queue EXCEPT ![k] = waiting]
  <2>1. queue'[k] = waiting /\ \A j \in Keys \ {k} : queue'[j] = queue[j]
    BY <1>0, <1>2, <1>12 DEF TransfersTyped
  <2>2. \A u \in Transfers : phase'[u] = IF u = t THEN "queued" ELSE phase[u]
    BY <1>4, <1>12
  <2>3. TransfersTyped'
    <3>1. queue' \in [Keys -> Seq(Transfers)]
      BY <1>0, <1>3, <1>12 DEF TransfersTyped
    <3>2. phase' \in [Transfers -> {"away", "queued", "serving", "ended"}]
      BY <1>0, <1>12 DEF TransfersTyped
    <3> QED BY <1>0, <1>1, <1>5, <1>6, <1>12, <3>1, <3>2 DEF TransfersTyped
  <2>4. Stamped'
    BY <1>1, <1>8, <2>2
  <2>5. Waits'
    <3>1. ASSUME NEW j \in Keys, NEW i \in 1 .. Len(queue'[j])
          PROVE  Key[queue'[j][i]] = j /\ phase'[queue'[j][i]] = "queued"
      <4>1. CASE j # k
        BY <1>10, <2>1, <2>2, <3>1, <4>1
      <4>2. CASE j = k /\ i = Len(queue[k]) + 1
        BY <1>3, <2>1, <2>2, <4>2
      <4>3. CASE j = k /\ i # Len(queue[k]) + 1
        <5>1. i \in 1 .. Len(queue[k]) /\ queue'[j][i] = queue[k][i]
          BY <1>2, <1>3, <2>1, <3>1, <4>3
        <5> QED BY <1>9, <2>2, <4>3, <5>1
      <4> QED BY <4>1, <4>2, <4>3
    <3>2. ASSUME NEW u \in Transfers, phase'[u] = "queued"
          PROVE  \E i \in 1 .. Len(queue'[Key[u]]) : queue'[Key[u]][i] = u
      <4>1. CASE u = t
        BY <1>2, <1>3, <2>1, <4>1
      <4>2. CASE u # t
        <5>1. PICK i \in 1 .. Len(queue[Key[u]]) : queue[Key[u]][i] = u
          BY <1>0, <2>2, <3>2, <4>2 DEF Waits
        <5>2. CASE Key[u] = k
          <6>1. i \in 1 .. Len(waiting) /\ waiting[i] = u
            BY <1>2, <1>3, <5>1, <5>2
          <6> QED BY <2>1, <5>2, <6>1
        <5>3. CASE Key[u] # k
          <6>1. Key[u] \in Keys
            BY ChannelsAssumption
          <6> QED BY <2>1, <5>1, <5>3, <6>1
        <5> QED BY <5>2, <5>3
      <4> QED BY <4>1, <4>2
    <3>3. ASSUME NEW j \in Keys, NEW a \in 1 .. Len(queue'[j]), NEW b \in 1 .. Len(queue'[j]), a < b
          PROVE  stamp'[queue'[j][a]] < stamp'[queue'[j][b]]
      <4>1. CASE j # k
        <5>1. queue'[j] = queue[j] /\ j \in Keys \ {k}
          BY <2>1, <4>1
        <5>2. stamp[queue[j][a]] < stamp[queue[j][b]]
          BY <1>0, <3>3, <5>1 DEF Waits
        <5> QED BY <1>5, <1>10, <3>3, <5>1, <5>2
      <4>2. CASE j = k
        <5>1. a \in 1 .. Len(queue[k]) /\ queue'[j][a] = queue[k][a]
          BY <1>2, <1>3, <2>1, <3>3, <4>2
        <5>2. stamp'[queue'[j][a]] = stamp[queue[k][a]] /\ stamp[queue[k][a]] \in Nat
              /\ stamp[queue[k][a]] <= stamped
          BY <1>5, <1>9, <5>1
        <5>3. CASE b = Len(queue[k]) + 1
          <6>1. queue'[j][b] = t
            BY <1>3, <2>1, <4>2, <5>3
          <6> QED BY <1>5, <1>6, <5>2, <6>1
        <5>4. CASE b # Len(queue[k]) + 1
          <6>1. b \in 1 .. Len(queue[k]) /\ queue'[j][b] = queue[k][b]
            BY <1>2, <1>3, <2>1, <3>3, <4>2, <5>4
          <6>2. stamp[queue[k][a]] < stamp[queue[k][b]]
            BY <1>0, <1>2, <3>3, <5>1, <6>1 DEF Waits
          <6>3. stamp'[queue'[j][b]] = stamp[queue[k][b]]
            BY <1>5, <1>9, <6>1
          <6> QED BY <5>2, <6>2, <6>3
        <5> QED BY <5>3, <5>4
      <4> QED BY <4>1, <4>2
    <3>4. ASSUME NEW j \in Keys, queue'[j] # <<>> PROVE In(j, "serving")' # {}
      <4>1. In(j, "serving") # {}
        BY <1>0, <1>12, <2>1, <3>4 DEF Waits
      <4>2. PICK u \in In(j, "serving") : TRUE
        BY <4>1
      <4>3. u \in Transfers /\ Key[u] = j /\ phase'[u] = "serving"
        BY <1>1, <2>2, <4>2 DEF In
      <4> QED BY <4>3 DEF In
    <3> QED BY <3>1, <3>2, <3>3, <3>4 DEF Waits
  <2>6. \A u \in Transfers : TimelyTransfer(u)'
    <3> TAKE u \in Transfers
    <3>1. CASE u = t
      BY <2>2, <3>1 DEF TimelyTransfer
    <3>2. CASE u # t
      <4>1. phase'[u] = phase[u] /\ alarm'[u] = alarm[u] /\ ended'[u] = ended[u]
        BY <1>1, <1>12, <2>2, <3>2
      <4>2. \A v \in Transfers : phase[v] = "ended" => phase'[v] = "ended" /\ ended'[v] = ended[v]
        BY <1>1, <2>2
      <4> QED BY <1>0, <1>1, <1>7, <3>2, <4>1, <4>2, TimelyStays
    <3> QED BY <3>1, <3>2
  <2>7. \A u \in Transfers : phase'[u] = "ended" => ended'[u] <= now'
    BY <1>0, <1>1, <2>2
  <2> QED BY <2>3, <2>4, <2>5, <2>6, <2>7 DEF Turns
<1> QED BY <1>11, <1>12 DEF ChargeSerial, waiting

(* Time passes to the next timer.                                          *)
LEMMA ElapseTurns ==
  ASSUME Turns, Elapse
  PROVE  Turns'
<1>0. /\ TransfersTyped /\ Stamped /\ Waits
      /\ \A u \in Transfers : TimelyTransfer(u) /\ (phase[u] = "ended" => ended[u] <= now)
  BY DEF Turns
<1>1. PICK n \in Alarms : now < n /\ now' = n
  BY DEF Elapse
<1>2. UNCHANGED <<start, stamped, stamp, phase, remaining, alarm, queue, ended>>
  BY DEF Elapse
<1>3. now \in Nat /\ n \in Nat
  BY <1>0 DEF Alarms, TransfersTyped
<1>4. TransfersTyped'
  BY <1>0, <1>1, <1>2, <1>3 DEF TransfersTyped
<1>5. Stamped'
  <2>1. \A u \in Transfers : start[u] \in Nat
    BY <1>0 DEF TransfersTyped
  <2> QED BY <1>0, <1>1, <1>2, <1>3, <2>1 DEF Stamped
<1>6. Waits'
  BY <1>0, <1>2 DEF Waits, In
<1>7. \A u \in Transfers : TimelyTransfer(u)'
  BY ZenonT(30), <1>0, <1>2 DEF TimelyTransfer, Off, Free, Solo, Earlier
<1>8. \A u \in Transfers : phase'[u] = "ended" => ended'[u] <= now'
  <2>1. \A u \in Transfers : ended[u] \in Nat
    BY <1>0 DEF TransfersTyped
  <2> QED BY <1>0, <1>1, <1>2, <1>3, <2>1
<1> QED BY <1>4, <1>5, <1>6, <1>7, <1>8 DEF Turns

(* A resource that serializes starts its transfers in the order they were  *)
(* charged, each the moment the one before it ends or it is charged, and   *)
(* for its solo cost, for any transfers, resources, latencies and          *)
(* bandwidths (resources.py, _SerializeChannel).                           *)
THEOREM TurnsTaken == ChannelsSpec => []TakesTurns
<1>1. ChannelsInit => TInv
  <2> SUFFICES ASSUME ChannelsInit PROVE Turns
    BY DEF TInv
  <2>1. TransfersTyped
    <3>1. start \in [Transfers -> Nat] /\ remaining \in [Transfers -> Nat]
      <4>1. start \in [Transfers -> Instants] /\ remaining \in [Transfers -> Sizes]
        BY DEF ChannelsInit
      <4>2. Instants \subseteq Nat /\ Sizes \subseteq Nat
        BY ChannelsAssumption
      <4> QED BY <4>1, <4>2
    <3>2. /\ now = 0 /\ stamped = 0 /\ stamp = [t \in Transfers |-> 0]
          /\ phase = [t \in Transfers |-> "away"] /\ alarm = [t \in Transfers |-> 0]
          /\ queue = [k \in Keys |-> <<>>] /\ ended = [t \in Transfers |-> 0]
      BY DEF ChannelsInit
    <3> QED BY <3>1, <3>2 DEF TransfersTyped
  <2>2. Stamped /\ Waits
    BY DEF ChannelsInit, Stamped, Waits
  <2>3. \A t \in Transfers : phase[t] = "away"
    BY DEF ChannelsInit
  <2> QED BY <2>1, <2>2, <2>3 DEF Turns, TimelyTransfer
<1>2. TInv /\ [ChannelsNext]_channelVars => TInv'
  <2> SUFFICES ASSUME TInv, [ChannelsNext]_channelVars, mode' = "serialize" PROVE Turns'
    BY DEF TInv
  <2>1. mode' = mode
    BY DEF ChannelsNext, Progress, Enter, Complete, Finish, ChargeShared, ChargeSerial, Elapse, Finished, channelVars
  <2>2. Turns /\ mode = "serialize"
    BY <2>1 DEF TInv
  <2>3. \A t \in Transfers : phase[t] \notin {"warming", "active"}
    BY <2>2 DEF Turns, TransfersTyped
  <2>4. ASSUME NEW t \in Transfers, Enter(t) \/ Complete(t) \/ ChargeShared(t) PROVE FALSE
    BY <2>2, <2>3, <2>4 DEF Enter, Complete, ChargeShared
  <2>5. CASE UNCHANGED channelVars
    <3>1. UNCHANGED <<now, start, stamped, stamp, phase, remaining, alarm, queue, ended>>
      BY <2>5 DEF channelVars
    <3>2. TransfersTyped' /\ Stamped'
      BY <2>2, <3>1 DEF Turns, TransfersTyped, Stamped
    <3>3. Waits'
      BY <2>2, <3>1 DEF Turns, Waits, In
    <3>4. \A t \in Transfers : TimelyTransfer(t)'
      BY <2>2, <3>1 DEF Turns, TimelyTransfer, Off, Free, Solo, Earlier
    <3>5. \A t \in Transfers : phase'[t] = "ended" => ended'[t] <= now'
      BY <2>2, <3>1 DEF Turns
    <3> QED BY <3>2, <3>3, <3>4, <3>5 DEF Turns
  <2> QED BY <2>2, <2>4, <2>5, FinishTurns, ChargeTurns, ElapseTurns DEF ChannelsNext, Progress, Finished
<1>3. TInv => TakesTurns
  BY DEF TInv, Turns, TimelyTransfer, TakesTurns, Off, Free
<1> QED BY <1>1, <1>2, <1>3, PTL DEF ChannelsSpec

-----------------------------------------------------------------------------
(***************************************************************************)
(* Resources that share.                                                   *)
(***************************************************************************)

(* Every division a channel makes is exact: the bytes its transfers have   *)
(* moved since the last update are a whole number for each of them, and so *)
(* is the time each would take for what it had left then, at its share.    *)
WholeShares ==
  \A t \in Transfers : phase[t] = "active" =>
    LET k == Key[t]
        n == Cardinality(In(k, "active"))
    IN /\ ((now - last[k]) * capacity[k]) % n = 0
       /\ (remaining[t] * n) % capacity[k] = 0

SharesTyped ==
  /\ now \in Nat /\ start \in [Transfers -> Nat] /\ remaining \in [Transfers -> Nat]
  /\ alarm \in [Transfers -> Nat]
  /\ capacity \in [Keys -> Nat] /\ last \in [Keys -> Nat]
  /\ phase \in [Transfers -> {"away", "warming", "active", "ended"}]

(* The handle of an active transfer fires when it will have moved what it  *)
(* had left at the last update, at the share it got then.                  *)
Due(t) ==
  /\ now <= alarm[t]
  /\ (alarm[t] - last[Key[t]]) * capacity[Key[t]] = remaining[t] * Cardinality(In(Key[t], "active"))

Rated ==
  /\ SharesTyped
  /\ \A k \in Keys : last[k] <= now
  /\ \A t \in Transfers : phase[t] \in {"warming", "active"} => capacity[Key[t]] > 0
  /\ \A t \in Transfers : phase[t] = "active" => Due(t)

(* In the other mode nothing is shared.                                    *)
SInv ==
  \/ mode = "progressive" /\ Rated
  \/ mode = "serialize" /\ phase \in [Transfers -> {"away", "queued", "serving", "ended"}]

-----------------------------------------------------------------------------
(* Arithmetic: an exact division, and comparing multiples of one number.   *)
LEMMA ExactDivision ==
  ASSUME NEW a \in Nat, NEW n \in Nat \ {0}
  PROVE  a \div n \in Nat /\ (a % n = 0 => (a \div n) * n = a)
OBVIOUS

LEMMA ComparedMultiples ==
  ASSUME NEW a \in Nat, NEW b \in Nat, NEW n \in Nat \ {0}
  PROVE  /\ a * n \in Nat /\ b * n \in Nat
         /\ a < b => a * n < b * n
         /\ a * n <= b * n => a <= b
         /\ a * n < b * n => a < b
         /\ a * n = b * n => a = b
<1>1. \A x, y \in Nat : x < y => x * n < y * n
  <2> SUFFICES ASSUME NEW x \in Nat, NEW y \in Nat, x < y PROVE x * n < y * n
    OBVIOUS
  <2>1. PICK d \in Nat \ {0} : y = x + d
    <3>1. y - x \in Nat \ {0} /\ y = x + (y - x)
      OBVIOUS
    <3> QED BY <3>1
  <2>2. y * n = x * n + d * n
    BY <2>1
  <2>3. x * n \in Nat /\ d * n \in Nat \ {0}
    OBVIOUS
  <2> QED BY <2>2, <2>3
<1>2. a * n \in Nat /\ b * n \in Nat
  OBVIOUS
<1>3. a < b => a * n < b * n
  BY <1>1
<1>4. b < a => b * n < a * n
  BY <1>1
<1> QED BY <1>2, <1>3, <1>4

(* The active transfers of a resource are finitely many, and one of them   *)
(* makes them some.                                                        *)
LEMMA SomeActive ==
  ASSUME NEW k \in Keys
  PROVE  /\ IsFiniteSet(In(k, "active")) /\ Cardinality(In(k, "active")) \in Nat
         /\ \A t \in In(k, "active") : Cardinality(In(k, "active")) \in Nat \ {0}
<1>1. IsFiniteSet(In(k, "active"))
  BY ChannelsAssumption, FS_Subset DEF In
<1>2. Cardinality(In(k, "active")) \in Nat
  BY <1>1, FS_CardinalityType
<1>3. In(k, "active") # {} => Cardinality(In(k, "active")) # 0
  BY <1>1, FS_EmptySet
<1> QED BY <1>1, <1>2, <1>3

(* What an active transfer has moved since the last update, and has left.  *)
Account(t) ==
  LET k == Key[t]
      n == Cardinality(In(k, "active"))
  IN /\ k \in Keys /\ n \in Nat \ {0} /\ capacity[k] \in Nat \ {0}
     /\ Moved(k) \in Nat /\ Moved(k) * n = (now - last[k]) * capacity[k]
     /\ Moved(k) <= remaining[t]
     /\ now < alarm[t] => Moved(k) < remaining[t]
     /\ now = alarm[t] => Moved(k) = remaining[t]

Accounts == \A t \in Transfers : phase[t] = "active" => Account(t)

(* While shares are whole, an active transfer has bytes left until its     *)
(* handle fires, and none then.                                            *)
LEMMA MovesUntilDue == Rated /\ WholeShares => Accounts
<1> SUFFICES ASSUME Rated, WholeShares, NEW t \in Transfers, phase[t] = "active" PROVE Account(t)
  BY DEF Accounts
<1> DEFINE k == Key[t]
           n == Cardinality(In(k, "active"))
           c == capacity[k]
           e == now - last[k]
           d == alarm[t] - last[k]
           r == remaining[t]
           m == Moved(k)
<1>1. k \in Keys /\ n \in Nat \ {0}
  BY SomeActive, ChannelsAssumption DEF In
<1>2. c \in Nat \ {0} /\ e \in Nat /\ d \in Nat /\ e <= d /\ r \in Nat /\ (now < alarm[t] => e < d)
      /\ (now = alarm[t] => e = d)
  BY <1>1 DEF Rated, SharesTyped, Due
<1>3. d * c = r * n
  BY DEF Rated, Due
<1>4. (e * c) % n = 0 /\ m = (e * c) \div n
  BY DEF WholeShares, Moved
<1> HIDE DEF k, n, c, e, d, r, m
<1>5. e * c \in Nat /\ (e < d => e * c < d * c)
  BY <1>2, ComparedMultiples
<1>6. m \in Nat /\ m * n = e * c
  BY <1>1, <1>4, <1>5, ExactDivision
<1>7. (e < d => m < r) /\ (e = d => m = r)
  <2>1. e < d => m * n < r * n
    BY <1>3, <1>5, <1>6
  <2>2. e = d => m * n = r * n
    BY <1>3, <1>6
  <2> QED BY <1>1, <1>2, <1>6, <2>1, <2>2, ComparedMultiples
<1>8. m <= r
  BY <1>2, <1>6, <1>7
<1> QED BY <1>1, <1>2, <1>6, <1>7, <1>8 DEF Account, k, n, c, e, d, r, m

(* The same of the next state.                                             *)
LEMMA MovesUntilDueNext == Rated' /\ WholeShares' => Accounts'
BY MovesUntilDue, PTL

(* An update re-rates the transfers that are active after it, by what each *)
(* has left then.                                                          *)
LEMMA Rerated ==
  ASSUME Rated, WholeShares', NEW t \in Transfers, NEW p \in {"active", "ended"},
         phase[t] \in {"warming", "active"}, phase' = [phase EXCEPT ![t] = p],
         remaining' = Advanced(Key[t]), last' = [last EXCEPT ![Key[t]] = now],
         Recompute(Key[t], In(Key[t], "active")', Advanced(Key[t])),
         UNCHANGED <<now, start, capacity>>
  PROVE  Rated'
<1> DEFINE k == Key[t]
<1>1. k \in Keys /\ Key \in [Transfers -> Keys]
  BY ChannelsAssumption
<1>2. SharesTyped /\ capacity[k] \in Nat \ {0} /\ now \in Nat /\ last[k] \in Nat /\ last[k] <= now
  BY <1>1 DEF Rated, SharesTyped
<1>3. remaining' \in [Transfers -> Nat]
  <2>1. ASSUME NEW u \in Transfers, u \in In(k, "active") PROVE Moved(k) \in Nat
    <3>1. (now - last[k]) * capacity[k] \in Nat
      <4>1. now - last[k] \in Nat
        BY <1>2
      <4> QED BY <1>2, <4>1, ComparedMultiples
    <3>2. Cardinality(In(k, "active")) \in Nat \ {0}
      BY <1>1, <2>1, SomeActive
    <3> QED BY <3>1, <3>2, ExactDivision DEF Moved
  <2>2. \A u \in Transfers : remaining[u] \in Nat
    BY <1>2 DEF SharesTyped
  <2>3. remaining' = [u \in Transfers |-> IF u \notin In(k, "active") THEN remaining[u]
                                         ELSE IF remaining[u] < Moved(k) THEN 0
                                         ELSE remaining[u] - Moved(k)]
    BY DEF Advanced, Moved
  <2> QED BY <2>1, <2>2, <2>3
<1>4. ASSUME NEW u \in In(k, "active")'
      PROVE  alarm'[u] \in Nat /\ Due(u)'
  <2> DEFINE n == Cardinality(In(k, "active")')
             r == remaining'[u]
             c == capacity[k]
             q == (r * n) \div c
  <2>1. u \in Transfers /\ Key[u] = k /\ phase'[u] = "active"
    BY <1>4 DEF In
  <2>2. n \in Nat \ {0}
    <3>1. IsFiniteSet(In(k, "active")')
      BY ChannelsAssumption, FS_Subset DEF In
    <3> QED BY <1>4, <3>1, FS_CardinalityType, FS_EmptySet
  <2>3. alarm'[u] = now + q
    BY <1>4, <2>1 DEF Recompute
  <2>4. (r * n) % c = 0
    BY <2>1 DEF WholeShares
  <2>5. r \in Nat /\ c \in Nat \ {0}
    BY <1>2, <1>3, <2>1
  <2>6. last'[k] = now /\ now' = now /\ capacity'[k] = c
    BY <1>1, <1>2 DEF SharesTyped
  <2>7. Cardinality(In(k, "active"))' = n
    OBVIOUS
  <2> HIDE DEF n, r, c
  <2>8. r * n \in Nat
    BY <2>2, <2>5, ComparedMultiples
  <2>9. q \in Nat /\ q * c = r * n
    BY <2>4, <2>5, <2>8, ExactDivision
  <2> HIDE DEF q
  <2>10. alarm'[u] \in Nat /\ now' <= alarm'[u] /\ alarm'[u] - last'[k] = q
    BY <1>2, <2>3, <2>6, <2>9
  <2> QED BY <2>1, <2>6, <2>7, <2>9, <2>10 DEF Due, r
<1>5. \A u \in Transfers : u \notin In(k, "active")' => alarm'[u] = alarm[u]
  BY DEF Recompute
<1>6. SharesTyped'
  <2>1. alarm' \in [Transfers -> Nat]
    <3>1. alarm' = [u \in Transfers |-> alarm'[u]]
      BY DEF Recompute
    <3>2. \A u \in Transfers : alarm[u] \in Nat
      BY <1>2 DEF SharesTyped
    <3> QED BY <1>4, <1>5, <3>1, <3>2
  <2>2. last' \in [Keys -> Nat] /\ phase' \in [Transfers -> {"away", "warming", "active", "ended"}]
    BY <1>1, <1>2 DEF SharesTyped
  <2> QED BY <1>2, <1>3, <2>1, <2>2 DEF SharesTyped
<1>7. \A j \in Keys : last'[j] <= now'
  BY <1>1, <1>2 DEF Rated, SharesTyped
<1>8. \A u \in Transfers : phase'[u] \in {"warming", "active"} => capacity'[Key[u]] > 0
  BY <1>2 DEF Rated, SharesTyped
<1>9. ASSUME NEW u \in Transfers, phase'[u] = "active", Key[u] # k PROVE Due(u)'
  <2>1. u # t /\ phase[u] = "active" /\ u \notin In(k, "active")' /\ u \notin In(k, "active")
    BY <1>2, <1>9 DEF SharesTyped, In
  <2>2. Key[u] \in Keys /\ last'[Key[u]] = last[Key[u]] /\ alarm'[u] = alarm[u]
    BY <1>1, <1>2, <1>5, <1>9, <2>1 DEF SharesTyped
  <2>3. In(Key[u], "active")' = In(Key[u], "active")
    BY <1>2, <1>9 DEF SharesTyped, In
  <2>4. remaining'[u] = remaining[u]
    BY <2>1 DEF Advanced
  <2> QED BY <2>1, <2>2, <2>3, <2>4 DEF Rated, Due
<1>10. \A u \in Transfers : phase'[u] = "active" => Due(u)'
  BY <1>4, <1>9 DEF In
<1> QED BY <1>6, <1>7, <1>8, <1>10 DEF Rated

(* A transfer that is charged takes nothing from those under way.          *)
LEMMA ChargeRated ==
  ASSUME Rated, NEW t \in Transfers, ChargeShared(t)
  PROVE  Rated'
<1> DEFINE k == Key[t]
<1>1. k \in Keys /\ Key \in [Transfers -> Keys] /\ SharesTyped /\ phase[t] = "away"
      /\ Latency[t] \in Nat /\ Capacity[t] \in Nat \ {0}
  BY ChannelsAssumption DEF Rated, ChargeShared, Stamp
<1>2. /\ phase' = [phase EXCEPT ![t] = "warming"] /\ alarm' = [alarm EXCEPT ![t] = now + Latency[t]]
      /\ capacity' = [capacity EXCEPT ![k] = IF capacity[k] = 0 THEN Capacity[t] ELSE capacity[k]]
      /\ last' = [last EXCEPT ![k] = IF capacity[k] = 0 THEN now ELSE last[k]]
      /\ UNCHANGED <<now, start, remaining>>
  BY DEF ChargeShared
<1>3. SharesTyped'
  BY <1>1, <1>2 DEF SharesTyped
<1>4. \A j \in Keys : last'[j] <= now'
  BY <1>1, <1>2 DEF Rated, SharesTyped
<1>5. \A u \in Transfers : phase'[u] \in {"warming", "active"} => capacity'[Key[u]] > 0
  <2>1. capacity'[k] > 0
    BY <1>1, <1>2 DEF SharesTyped
  <2>2. \A u \in Transfers : u # t => phase'[u] = phase[u]
    BY <1>1, <1>2 DEF SharesTyped
  <2>3. \A j \in Keys : j # k => capacity'[j] = capacity[j]
    BY <1>1, <1>2 DEF SharesTyped
  <2> QED BY <1>1, <2>1, <2>2, <2>3 DEF Rated
<1>6. ASSUME NEW u \in Transfers, phase'[u] = "active" PROVE Due(u)'
  <2>1. u # t /\ phase[u] = "active" /\ alarm'[u] = alarm[u]
    BY <1>1, <1>2, <1>6 DEF SharesTyped
  <2>2. Key[u] \in Keys /\ capacity[Key[u]] > 0 /\ Due(u)
    BY <1>1, <2>1 DEF Rated
  <2>3. capacity'[Key[u]] = capacity[Key[u]] /\ last'[Key[u]] = last[Key[u]]
    BY <1>1, <1>2, <2>2 DEF SharesTyped
  <2>4. In(Key[u], "active")' = In(Key[u], "active")
    BY <1>1, <1>2 DEF SharesTyped, In
  <2> QED BY <1>2, <2>1, <2>2, <2>3, <2>4 DEF Due
<1> QED BY <1>3, <1>4, <1>5, <1>6 DEF Rated

(* Time passes to the first alarm.                                         *)
LEMMA ElapseRated ==
  ASSUME Rated, Elapse
  PROVE  /\ Rated' /\ now' \in Nat /\ now < now'
         /\ \A u \in Transfers : phase[u] = "active" => now' <= alarm[u]
<1>1. PICK n \in Alarms : now < n /\ (\A m \in Alarms : n <= m) /\ now' = n
  BY DEF Elapse
<1>2. UNCHANGED <<start, phase, remaining, alarm, capacity, last>>
  BY DEF Elapse
<1>3. n \in Nat
  BY DEF Alarms, Rated, SharesTyped
<1>4. \A u \in Transfers : phase[u] = "active" => n <= alarm[u]
  BY <1>1 DEF Alarms
<1>5. SharesTyped'
  BY <1>1, <1>2, <1>3 DEF Rated, SharesTyped
<1>6. \A k \in Keys : last'[k] <= now'
  BY <1>1, <1>2, <1>3 DEF Rated, SharesTyped
<1>7. \A u \in Transfers : phase[u] = "active" => Due(u)'
  BY <1>1, <1>2, <1>4 DEF Rated, Due, In
<1> QED BY <1>1, <1>2, <1>3, <1>4, <1>5, <1>6, <1>7 DEF Rated

LEMMA SInvInit == ChannelsInit => SInv
<1> SUFFICES ASSUME ChannelsInit PROVE SInv
  OBVIOUS
<1>1. /\ start \in [Transfers -> Instants] /\ nbytes \in [Transfers -> Sizes]
      /\ Sizes \subseteq Nat /\ Instants \subseteq Nat
  BY ChannelsAssumption DEF ChannelsInit
<1>2. SharesTyped
  BY <1>1 DEF ChannelsInit, SharesTyped
<1>3. \A k \in Keys : last[k] <= now
  BY DEF ChannelsInit
<1>4. \A t \in Transfers : phase[t] = "away"
  BY DEF ChannelsInit
<1> QED BY <1>2, <1>3, <1>4 DEF ChannelsInit, SInv, Rated

(* A step of a channel that shares is a re-rating, a charge or time.       *)
LEMMA EnterRates ==
  ASSUME Rated, WholeShares', NEW t \in Transfers, Enter(t)
  PROVE  Rated'
<1>1. /\ phase[t] = "warming" /\ phase' = [phase EXCEPT ![t] = "active"]
      /\ remaining' = Advanced(Key[t]) /\ last' = [last EXCEPT ![Key[t]] = now]
      /\ UNCHANGED <<now, start, capacity>>
  BY DEF Enter
<1>2. In(Key[t], "active")' = In(Key[t], "active") \union {t}
  BY <1>1 DEF In, Rated, SharesTyped
<1>3. Recompute(Key[t], In(Key[t], "active")', Advanced(Key[t]))
  BY <1>2 DEF Enter
<1> QED BY <1>1, <1>3, Rerated

LEMMA CompleteRates ==
  ASSUME Rated, WholeShares', NEW t \in Transfers, Complete(t)
  PROVE  Rated'
<1>1. /\ phase[t] = "active" /\ phase' = [phase EXCEPT ![t] = "ended"]
      /\ remaining' = Advanced(Key[t]) /\ last' = [last EXCEPT ![Key[t]] = now]
      /\ UNCHANGED <<now, start, capacity>>
  BY DEF Complete
<1>2. In(Key[t], "active")' = In(Key[t], "active") \ {t}
  BY <1>1 DEF In, Rated, SharesTyped
<1>3. Recompute(Key[t], In(Key[t], "active")', Advanced(Key[t]))
  BY <1>2 DEF Complete
<1> QED BY <1>1, <1>3, Rerated

LEMMA SInvStep == SInv /\ WholeShares' /\ [ChannelsNext]_channelVars => SInv'
<1> SUFFICES ASSUME SInv, WholeShares', [ChannelsNext]_channelVars PROVE SInv'
  OBVIOUS
<1>1. mode' = mode
  BY DEF ChannelsNext, Progress, Enter, Complete, Finish, ChargeShared, ChargeSerial, Elapse, Finished, channelVars
<1>2. CASE mode = "progressive"
  <2>1. Rated /\ \A t \in Transfers : phase[t] # "serving"
    BY <1>2 DEF SInv, Rated, SharesTyped
  <2>2. CASE UNCHANGED channelVars
    BY <2>1, <2>2 DEF channelVars, SInv, Rated, SharesTyped, Due, In
  <2>3. CASE Progress
    <3>1. ASSUME NEW t \in Transfers, Finish(t) \/ ChargeSerial(t) PROVE FALSE
      BY <1>2, <2>1, <3>1 DEF Finish, ChargeSerial
    <3>2. Rated'
      BY <2>1, <2>3, <3>1, EnterRates, CompleteRates, ChargeRated, ElapseRated DEF Progress
    <3> QED BY <1>1, <1>2, <3>2 DEF SInv
  <2> QED BY <2>2, <2>3 DEF ChannelsNext, Finished
<1>3. CASE mode = "serialize"
  <2> DEFINE Phases == {"away", "queued", "serving", "ended"}
  <2>1. phase \in [Transfers -> Phases]
    BY <1>3 DEF SInv
  <2>2. ASSUME NEW t \in Transfers, Enter(t) \/ Complete(t) \/ ChargeShared(t) PROVE FALSE
    BY <1>3, <2>1, <2>2 DEF Enter, Complete, ChargeShared
  <2>3. ASSUME NEW k, NEW waiting, NEW ph \in [Transfers -> Phases], StartNext(k, waiting, ph)
        PROVE  phase' \in [Transfers -> Phases]
    BY <2>3 DEF StartNext
  <2>4. ASSUME NEW t \in Transfers, Finish(t) PROVE phase' \in [Transfers -> Phases]
    <3>1. [phase EXCEPT ![t] = "ended"] \in [Transfers -> Phases]
      BY <2>1
    <3> HIDE DEF Phases
    <3> QED BY <2>3, <2>4, <3>1 DEF Finish
  <2>5. ASSUME NEW t \in Transfers, ChargeSerial(t) PROVE phase' \in [Transfers -> Phases]
    <3>1. [phase EXCEPT ![t] = "queued"] \in [Transfers -> Phases]
      BY <2>1
    <3> HIDE DEF Phases
    <3> QED BY <2>3, <2>5, <3>1 DEF ChargeSerial
  <2>6. ASSUME UNCHANGED channelVars \/ Elapse PROVE phase' \in [Transfers -> Phases]
    BY <2>1, <2>6 DEF channelVars, Elapse
  <2> HIDE DEF Phases
  <2>7. phase' \in [Transfers -> Phases]
    BY <2>2, <2>4, <2>5, <2>6 DEF ChannelsNext, Progress, Finished
  <2> QED BY <1>1, <1>3, <2>7 DEF SInv, Phases
<1> QED BY <1>2, <1>3 DEF SInv

-----------------------------------------------------------------------------
(* What the ideal sharing sees of a channel that shares.                   *)
IdealViewed ==
  /\ \A t \in Transfers : (t \in Ideal!Moving) = (phase[t] = "active")
  /\ \A t \in Transfers : (IdealPhase[t] = "moving") = (phase[t] = "active")
  /\ \A t \in Transfers : (IdealPhase[t] = "ended") = (phase[t] = "ended")
  /\ \A t \in Transfers : (IdealPhase[t] = "away") = (phase[t] \in {"away", "warming"})
  /\ \A k \in Keys : Ideal!Sharing(k) = Cardinality(In(k, "active"))

LEMMA IdealView == Rated /\ mode = "progressive" => IdealViewed
<1> SUFFICES ASSUME Rated, mode = "progressive" PROVE IdealViewed
  OBVIOUS
<1>1. \A t \in Transfers : phase[t] \in {"away", "warming", "active", "ended"}
  BY DEF Rated, SharesTyped
<1>2. /\ \A t \in Transfers : (IdealPhase[t] = "moving") = (phase[t] = "active")
      /\ \A t \in Transfers : (IdealPhase[t] = "ended") = (phase[t] = "ended")
      /\ \A t \in Transfers : (IdealPhase[t] = "away") = (phase[t] \in {"away", "warming"})
  BY <1>1 DEF IdealPhase
<1>3. \A t \in Transfers : (t \in Ideal!Moving) = (phase[t] = "active")
  BY <1>2 DEF Ideal!Moving
<1>4. ASSUME NEW k \in Keys PROVE Ideal!Sharing(k) = Cardinality(In(k, "active"))
  <2>1. { t \in Ideal!Moving : Key[t] = k } = In(k, "active")
    BY <1>2 DEF Ideal!Moving, In
  <2>2. Ideal!Sharing(k) = Cardinality({ t \in Ideal!Moving : Key[t] = k })
    BY DEF Ideal!Sharing, Ideal!Cardinality, Cardinality
  <2> QED BY <2>1, <2>2
<1> QED BY <1>2, <1>3, <1>4 DEF IdealViewed

(* The same of the next state.                                             *)
LEMMA IdealViewNext == Rated' /\ (mode = "progressive")' => IdealViewed'
BY IdealView, PTL

(* An update moves no bytes: what it debits is what had already moved.     *)
LEMMA UpdateMovesNothing ==
  ASSUME Rated, WholeShares, Rated', WholeShares',
         NEW t \in Transfers, NEW p \in {"active", "ended"},
         phase[t] \in {"warming", "active"}, phase' = [phase EXCEPT ![t] = p],
         phase[t] = "active" => p = "ended" /\ alarm[t] = now,
         remaining' = Advanced(Key[t]), last' = [last EXCEPT ![Key[t]] = now],
         UNCHANGED <<now, capacity>>
  PROVE  IdealLeft' = IdealLeft /\ (phase[t] = "active" => IdealLeft[t] = 0)
<1> DEFINE k == Key[t]
<1>1. k \in Keys /\ Key \in [Transfers -> Keys]
  BY ChannelsAssumption
<1>2. SharesTyped /\ SharesTyped'
  BY DEF Rated
<1>3. Accounts /\ Accounts'
  BY MovesUntilDue, MovesUntilDueNext
<1>4. ASSUME NEW u \in Transfers, phase'[u] = "active", Key[u] = k PROVE Moved(k)' = 0
  <2>1. Moved(k)' \in Nat /\ Cardinality(In(k, "active"))' \in Nat \ {0}
        /\ Moved(k)' * Cardinality(In(k, "active"))' = (now' - last'[k]) * capacity'[k]
    BY <1>3, <1>4 DEF Accounts, Account
  <2>2. now' - last'[k] = 0 /\ capacity'[k] \in Nat
    BY <1>1, <1>2 DEF SharesTyped
  <2>3. Moved(k)' * Cardinality(In(k, "active"))' = 0 * Cardinality(In(k, "active"))'
    BY <2>1, <2>2
  <2> QED BY <2>1, <2>3, ComparedMultiples
<1>5. ASSUME NEW u \in Transfers PROVE IdealLeft'[u] = IdealLeft[u]
  <2>1. IdealLeft[u] = (IF phase[u] = "active" THEN remaining[u] - Moved(Key[u]) ELSE remaining[u])
    BY DEF IdealLeft
  <2>2. IdealLeft'[u] = (IF phase'[u] = "active" THEN remaining'[u] - Moved(Key[u])' ELSE remaining'[u])
    BY DEF IdealLeft
  <2>3. remaining'[u] \in Nat /\ remaining[u] \in Nat
    BY <1>2 DEF SharesTyped
  <2>4. CASE Key[u] = k /\ phase[u] = "active"
    <3>1. Moved(k) \in Nat /\ Moved(k) <= remaining[u]
      BY <1>3, <2>4 DEF Accounts, Account
    <3>2. remaining'[u] = remaining[u] - Moved(k)
      BY <2>3, <2>4, <3>1 DEF Advanced, Moved, In
    <3>3. CASE phase'[u] = "active"
      BY <1>4, <2>1, <2>2, <2>3, <2>4, <3>2, <3>3
    <3>4. CASE phase'[u] # "active"
      BY <2>1, <2>2, <2>4, <3>2, <3>4
    <3> QED BY <3>3, <3>4
  <2>5. CASE ~(Key[u] = k /\ phase[u] = "active")
    <3>1. remaining'[u] = remaining[u]
      BY <2>5 DEF Advanced, In
    <3>2. CASE Key[u] = k
      <4>1. CASE phase'[u] = "active"
        BY <1>4, <2>1, <2>2, <2>3, <2>5, <3>1, <3>2, <4>1
      <4>2. CASE phase'[u] # "active"
        BY <2>1, <2>2, <2>5, <3>1, <3>2, <4>2
      <4> QED BY <4>1, <4>2
    <3>3. CASE Key[u] # k
      <4>1. phase'[u] = phase[u]
        BY <1>2, <3>3 DEF SharesTyped
      <4>2. In(Key[u], "active")' = In(Key[u], "active")
        BY <1>2, <3>3 DEF SharesTyped, In
      <4>3. Moved(Key[u])' = Moved(Key[u])
        BY <1>1, <1>2, <3>3, <4>2 DEF Moved, SharesTyped
      <4> QED BY <2>1, <2>2, <3>1, <4>1, <4>3
    <3> QED BY <3>2, <3>3
  <2> QED BY <2>4, <2>5
<1>6. IdealLeft' = IdealLeft
  BY <1>5 DEF IdealLeft
<1>7. ASSUME phase[t] = "active" PROVE IdealLeft[t] = 0
  <2>1. Moved(k) = remaining[t] /\ remaining[t] \in Nat
    BY <1>2, <1>3, <1>7 DEF Accounts, Account, SharesTyped
  <2> QED BY <1>7, <2>1 DEF IdealLeft
<1> QED BY <1>6, <1>7

(* Every step of a channel that shares is one of the ideal sharing, or one *)
(* it does not see.                                                        *)
LEMMA EnterJoins ==
  ASSUME Rated, WholeShares, Rated', WholeShares', mode = "progressive",
         NEW t \in Transfers, Enter(t)
  PROVE  Ideal!Next
<1>1. /\ phase[t] = "warming" /\ phase' = [phase EXCEPT ![t] = "active"]
      /\ remaining' = Advanced(Key[t]) /\ last' = [last EXCEPT ![Key[t]] = now]
      /\ UNCHANGED <<now, capacity, mode>>
  BY DEF Enter
<1>2. IdealLeft' = IdealLeft
  BY <1>1, UpdateMovesNothing
<1>3. IdealViewed
  BY IdealView
<1>4. IdealPhase[t] = "away" /\ IdealPhase' = [IdealPhase EXCEPT ![t] = "moving"]
  <2>1. phase'[t] = "active" /\ \A u \in Transfers \ {t} : phase'[u] = phase[u]
    BY <1>1 DEF Rated, SharesTyped
  <2>2. IdealPhase'[t] = "moving"
    BY <1>1, <2>1 DEF IdealPhase
  <2>3. \A u \in Transfers \ {t} : IdealPhase'[u] = IdealPhase[u]
    BY <1>1, <2>1 DEF IdealPhase
  <2>4. /\ IdealPhase' = [u \in Transfers |-> IdealPhase'[u]]
        /\ IdealPhase = [u \in Transfers |-> IdealPhase[u]]
    BY DEF IdealPhase
  <2>5. IdealPhase' = [IdealPhase EXCEPT ![t] = "moving"]
    BY <2>2, <2>3, <2>4
  <2> QED BY <1>1, <1>3, <2>5 DEF IdealViewed
<1> QED BY <1>1, <1>2, <1>4 DEF Ideal!Next, Ideal!Join

LEMMA CompleteLeaves ==
  ASSUME Rated, WholeShares, Rated', WholeShares', mode = "progressive",
         NEW t \in Transfers, Complete(t)
  PROVE  Ideal!Next
<1>1. /\ phase[t] = "active" /\ alarm[t] = now /\ phase' = [phase EXCEPT ![t] = "ended"]
      /\ remaining' = Advanced(Key[t]) /\ last' = [last EXCEPT ![Key[t]] = now]
      /\ UNCHANGED <<now, capacity, mode>>
  BY DEF Complete
<1>2. IdealLeft' = IdealLeft /\ IdealLeft[t] = 0
  BY <1>1, UpdateMovesNothing
<1>3. IdealViewed
  BY IdealView
<1>4. IdealPhase[t] = "moving" /\ IdealPhase' = [IdealPhase EXCEPT ![t] = "ended"]
  <2>1. phase'[t] = "ended" /\ \A u \in Transfers \ {t} : phase'[u] = phase[u]
    BY <1>1 DEF Rated, SharesTyped
  <2>2. IdealPhase'[t] = "ended"
    BY <1>1, <2>1 DEF IdealPhase
  <2>3. \A u \in Transfers \ {t} : IdealPhase'[u] = IdealPhase[u]
    BY <1>1, <2>1 DEF IdealPhase
  <2>4. /\ IdealPhase' = [u \in Transfers |-> IdealPhase'[u]]
        /\ IdealPhase = [u \in Transfers |-> IdealPhase[u]]
    BY DEF IdealPhase
  <2>5. IdealPhase' = [IdealPhase EXCEPT ![t] = "ended"]
    BY <2>2, <2>3, <2>4
  <2> QED BY <1>1, <1>3, <2>5 DEF IdealViewed
<1> QED BY <1>1, <1>2, <1>4 DEF Ideal!Next, Ideal!Leave

(* The first charge of a resource gives it its bandwidth; no other charge  *)
(* is seen.                                                                *)
LEMMA ChargeLearns ==
  ASSUME Rated, mode = "progressive", NEW t \in Transfers, ChargeShared(t)
  PROVE  [Ideal!Next]_(Ideal!vars)
<1> DEFINE k == Key[t]
<1>1. k \in Keys /\ Key \in [Transfers -> Keys] /\ SharesTyped /\ phase[t] = "away"
      /\ Capacity[t] \in Nat \ {0}
  BY ChannelsAssumption DEF Rated, ChargeShared, Stamp
<1>2. /\ phase' = [phase EXCEPT ![t] = "warming"]
      /\ capacity' = [capacity EXCEPT ![k] = IF capacity[k] = 0 THEN Capacity[t] ELSE capacity[k]]
      /\ last' = [last EXCEPT ![k] = IF capacity[k] = 0 THEN now ELSE last[k]]
      /\ UNCHANGED <<now, mode, remaining>>
  BY DEF ChargeShared
<1>3. \A u \in Transfers : (phase'[u] = "active") = (phase[u] = "active")
                         /\ (phase'[u] = "ended") = (phase[u] = "ended")
  BY <1>1, <1>2 DEF SharesTyped
<1>4. IdealPhase' = IdealPhase
  BY <1>2, <1>3 DEF IdealPhase
<1>5. \A u \in Transfers : phase[u] = "active" =>
        /\ capacity'[Key[u]] = capacity[Key[u]] /\ last'[Key[u]] = last[Key[u]]
  <2>1. \A u \in Transfers : phase[u] = "active" => Key[u] \in Keys /\ capacity[Key[u]] > 0
    BY <1>1 DEF Rated
  <2> QED BY <1>1, <1>2, <2>1 DEF SharesTyped
<1>6. IdealLeft' = IdealLeft
  <2>1. ASSUME NEW u \in Transfers PROVE IdealLeft'[u] = IdealLeft[u]
    <3>1. CASE phase[u] = "active"
      <4>1. In(Key[u], "active")' = In(Key[u], "active")
        BY <1>3 DEF In
      <4>2. Moved(Key[u])' = Moved(Key[u])
        BY <1>2, <1>5, <3>1, <4>1 DEF Moved
      <4> QED BY <1>2, <1>3, <3>1, <4>2 DEF IdealLeft
    <3>2. CASE phase[u] # "active"
      BY <1>2, <1>3, <3>2 DEF IdealLeft
    <3> QED BY <3>1, <3>2
  <2> QED BY <2>1 DEF IdealLeft
<1>7. CASE capacity' = capacity
  BY <1>2, <1>4, <1>6, <1>7 DEF Ideal!vars
<1>8. CASE capacity' # capacity
  <2>1. \A u \in Ideal!Moving : capacity'[Key[u]] = capacity[Key[u]]
    BY <1>5, IdealView DEF IdealViewed, Ideal!Moving
  <2>2. Ideal!Learn
    BY <1>2, <1>4, <1>6, <1>8, <2>1 DEF Ideal!Learn
  <2> QED BY <2>2 DEF Ideal!Next
<1> QED BY <1>7, <1>8

(* While time passes each active transfer moves its share.                 *)
LEMMA ElapseFlows ==
  ASSUME Rated, WholeShares, Rated', WholeShares', mode = "progressive", Elapse
  PROVE  Ideal!Flow
<1>1. UNCHANGED <<mode, phase, remaining, alarm, capacity, last>>
  BY DEF Elapse
<1>2. now \in Nat /\ now' \in Nat /\ now < now'
      /\ \A u \in Transfers : phase[u] = "active" => now' <= alarm[u]
  BY ElapseRated DEF Rated, SharesTyped
<1>3. Accounts /\ Accounts'
  BY MovesUntilDue, MovesUntilDueNext
<1>4. IdealViewed
  BY IdealView
<1>5. IdealPhase' = IdealPhase
  BY <1>1 DEF IdealPhase
<1>6. ASSUME NEW u \in Ideal!Moving
      PROVE  /\ IdealLeft[u] > 0 /\ IdealLeft'[u] >= 0
             /\ Ideal!Sharing(Key[u]) * (IdealLeft[u] - IdealLeft'[u]) = (now' - now) * capacity[Key[u]]
  <2> DEFINE k == Key[u]
             n == Cardinality(In(k, "active"))
             c == capacity[k]
             m == Moved(k)
             w == Moved(k)'
             l == last[k]
             r == remaining[u]
  <2>1. u \in Transfers /\ phase[u] = "active" /\ phase'[u] = "active"
    BY <1>1, <1>4 DEF IdealViewed, Ideal!Moving
  <2>2. k \in Keys /\ n \in Nat \ {0} /\ c \in Nat \ {0} /\ m \in Nat /\ m * n = (now - l) * c
        /\ m < r
    BY <1>2, <1>3, <2>1 DEF Accounts, Account, Rated, SharesTyped
  <2>3. l \in Nat /\ r \in Nat
    BY <2>1, <2>2 DEF Rated, SharesTyped
  <2>4. In(k, "active")' = In(k, "active") /\ capacity'[k] = c /\ last'[k] = l /\ remaining'[u] = r
    BY <1>1 DEF In
  <2>5. w \in Nat /\ w * Cardinality(In(k, "active"))' = (now' - last'[k]) * capacity'[k]
        /\ w <= remaining'[u]
    BY <1>3, <2>1 DEF Accounts, Account
  <2>6. w * n = (now' - l) * c /\ w <= r
    BY <2>4, <2>5
  <2>7. IdealLeft[u] = r - m /\ IdealLeft'[u] = r - w
    BY <2>1, <2>4 DEF IdealLeft
  <2>8. Ideal!Sharing(k) = n
    BY <1>4, <2>2 DEF IdealViewed
  <2> HIDE DEF n, c, m, w, l, r
  <2>9. n * (w - m) = (now' - now) * c
    <3>1. n * (w - m) = w * n - m * n
      BY <2>2, <2>5
    <3>2. (now' - l) * c - (now - l) * c = (now' - now) * c
      BY <1>2, <2>2, <2>3
    <3> QED BY <2>2, <2>6, <3>1, <3>2
  <2>10. IdealLeft[u] - IdealLeft'[u] = w - m /\ IdealLeft[u] > 0 /\ IdealLeft'[u] >= 0
    BY <2>2, <2>3, <2>5, <2>6, <2>7
  <2> QED BY <2>8, <2>9, <2>10 DEF c
<1>7. ASSUME NEW u \in Transfers \ Ideal!Moving PROVE IdealLeft'[u] = IdealLeft[u]
  BY <1>1, <1>4, <1>7 DEF IdealViewed, IdealLeft
<1> QED BY <1>1, <1>2, <1>5, <1>6, <1>7 DEF Ideal!Flow

(* In the other mode only time is seen to pass.                            *)
LEMMA SerialUnseen ==
  ASSUME SInv, mode = "serialize", [ChannelsNext]_channelVars, SInv'
  PROVE  [Ideal!Next]_(Ideal!vars)
<1>1. /\ mode' = mode
      /\ phase \in [Transfers -> {"away", "queued", "serving", "ended"}]
      /\ phase' \in [Transfers -> {"away", "queued", "serving", "ended"}]
  <2>1. mode' = mode
    BY DEF ChannelsNext, Progress, Enter, Complete, Finish, ChargeShared, ChargeSerial, Elapse, Finished, channelVars
  <2> QED BY <2>1 DEF SInv
<1>2. IdealPhase' = IdealPhase /\ \A t \in Transfers : IdealPhase[t] = "away"
  BY <1>1 DEF IdealPhase
<1>3. ASSUME NEW t \in Transfers, Enter(t) \/ Complete(t) \/ ChargeShared(t) PROVE FALSE
  BY <1>1, <1>3 DEF Enter, Complete, ChargeShared
<1>4. UNCHANGED <<remaining, capacity>>
  BY <1>3 DEF ChannelsNext, Progress, Finish, ChargeSerial, Elapse, Finished, channelVars
<1>5. IdealLeft' = IdealLeft
  BY <1>1, <1>4 DEF IdealLeft
<1>6. CASE now' = now
  BY <1>2, <1>4, <1>5, <1>6 DEF Ideal!vars
<1>7. CASE Elapse
  <2>1. now' > now
    BY <1>7 DEF Elapse
  <2>2. Ideal!Moving = {}
    BY <1>2 DEF Ideal!Moving
  <2>3. Ideal!Flow
    BY <1>2, <1>4, <1>5, <2>1, <2>2 DEF Ideal!Flow
  <2> QED BY <2>3 DEF Ideal!Next
<1> QED BY <1>3, <1>6, <1>7 DEF ChannelsNext, Progress, Finish, ChargeSerial, Finished, channelVars

LEMMA StepsShare ==
  ASSUME SInv, WholeShares, SInv', WholeShares', [ChannelsNext]_channelVars
  PROVE  [Ideal!Next]_(Ideal!vars)
<1>1. CASE mode = "serialize"
  BY <1>1, SerialUnseen
<1>2. CASE mode = "progressive"
  <2>1. mode' = mode
    BY DEF ChannelsNext, Progress, Enter, Complete, Finish, ChargeShared, ChargeSerial, Elapse, Finished, channelVars
  <2>2. Rated /\ Rated' /\ \A t \in Transfers : phase[t] # "serving"
    BY <1>2, <2>1 DEF SInv, Rated, SharesTyped
  <2>3. ASSUME NEW t \in Transfers, Finish(t) \/ ChargeSerial(t) PROVE FALSE
    BY <1>2, <2>2, <2>3 DEF Finish, ChargeSerial
  <2>4. CASE UNCHANGED channelVars
    BY <2>4 DEF channelVars, Ideal!vars, IdealPhase, IdealLeft, Moved, In
  <2>5. CASE Elapse
    BY <1>2, <2>2, <2>5, ElapseFlows DEF Ideal!Next
  <2> QED BY <1>2, <2>2, <2>3, <2>4, <2>5, EnterJoins, CompleteLeaves, ChargeLearns
      DEF ChannelsNext, Progress, Finished
<1> QED BY <1>1, <1>2 DEF SInv

(* Re-rating at entries and completions only, a channel shares its         *)
(* bandwidth ideally at every instant, in every behaviour whose shares     *)
(* stay whole: for any transfers, any resources and any overlap of their   *)
(* arrivals, warm-ups and completions (resources.py, _ProgressiveChannel). *)
THEOREM SharedFairly == ChannelsSpec /\ []WholeShares => SharesFairly
<1>1. ChannelsInit => Ideal!Init
  BY DEF ChannelsInit, Ideal!Init, IdealPhase
<1> QED BY <1>1, SInvInit, SInvStep, StepsShare, PTL DEF ChannelsSpec, SharesFairly, Ideal!Spec
=============================================================================
