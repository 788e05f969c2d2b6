------------------------- MODULE HostComputeProofs -------------------------
(***************************************************************************)
(* What holds of a serving host's compute for any prefills and requests,   *)
(* any costs, arrivals and batch size, coupled or not, and whether or not  *)
(* reports to the control plane raise.                                     *)
(*                                                                         *)
(* The prefill queue and the decode engine have an inductive invariant     *)
(* each.  The queue's adds to OneOwner that a device is booked to the end  *)
(* of what it was booked for, and that a waiter was granted the device in  *)
(* its turn.  The engine's adds to NobodyForgotten that batch and queue    *)
(* hold each request once, unresolved and with tokens left to generate.    *)
(***************************************************************************)
EXTENDS HostCompute, FiniteSetTheorems, SequenceTheorems, TLAPS

Types ==
  /\ now \in Nat
  /\ busyUntil \in [Devices -> Nat]
  /\ running \in BOOLEAN
  /\ pass \in [Passes -> {"new", "waiting", "granted", "claimed", "done"}]
  /\ submitted \in [Passes -> Nat] /\ passEnd \in [Passes -> Nat]
  /\ batch \in Seq(Decodes) /\ pending \in Seq(Decodes) /\ members \in Seq(Decodes)
  /\ remaining \in [Decodes -> Nat] /\ last \in [Decodes -> Nat] /\ tbt \in [Decodes -> Nat]
  /\ call \in [Decodes -> {"new", "reporting", "parked", "returned", "raised"}]
  /\ slot \in [Decodes -> {"open", "result", "exception"}]
  /\ loop \in {"idle", "created", "announcing", "stepping", "reporting"}
  /\ stepEnd \in Nat

(* One owner, and the device marked busy while there is one and while       *)
(* anybody waits.                                                           *)
Ownership ==
  /\ \A p, q \in Owners : p = q
  /\ running <=> Owners # {}
  /\ Waiting # {} => running

(* Whoever was granted the device has waited longest.                       *)
InTurn ==
  /\ \A p \in Passes : submitted[p] <= now
  /\ \A p \in Passes : pass[p] = "granted" =>
       \A q \in Waiting : submitted[p] <= submitted[q]

(* A device is booked at least to the end of the pass and of the step on    *)
(* it, and what was booked second starts when the first is over.            *)
Booked ==
  /\ \A p \in Passes : pass[p] = "claimed" => passEnd[p] <= busyUntil[Device("prefill")]
  /\ loop \in {"announcing", "stepping"} =>
       /\ stepEnd <= busyUntil[Device("decode")]
       /\ Len(members) \in 1 .. MaxBatch
       /\ Coupled => \A p \in Passes : pass[p] = "claimed" =>
            \/ passEnd[p] <= stepEnd - StepCost[Len(members)]
            \/ stepEnd <= passEnd[p] - Cost[p]

QueueInv == Ownership /\ InTurn /\ Booked

(* What the engine holds, it holds once.                                    *)
Once(b, p) ==
  /\ \A i, j \in 1 .. Len(b) : b[i] = b[j] => i = j
  /\ \A i, j \in 1 .. Len(p) : p[i] = p[j] => i = j
  /\ \A i \in 1 .. Len(b), j \in 1 .. Len(p) : b[i] # p[j]

HeldOnce == Once(batch, pending)

(* What it holds was admitted and is not resolved.                          *)
HeldOpen ==
  \A d \in Members(batch) \union Members(pending) :
    call[d] \in {"reporting", "parked", "raised"} /\ slot[d] = "open" /\ remaining[d] > 0

Slots ==
  /\ Len(batch) <= MaxBatch
  /\ pending # <<>> => Len(batch) = MaxBatch
  /\ loop = "created" => batch # <<>>

(* Every request that waits is held, and somebody steps.                    *)
Answerable ==
  \A d \in Decodes :
    /\ call[d] = "new" => slot[d] = "open" /\ remaining[d] = 0
    /\ call[d] \in {"reporting", "parked"} /\ slot[d] = "open" =>
         d \in Members(batch) \union Members(pending)
    /\ call[d] = "parked" /\ slot[d] = "open" => loop # "idle"
    /\ slot[d] = "result" => remaining[d] = 0

EngineInv == HeldOnce /\ HeldOpen /\ Slots /\ Answerable

(* A request is admitted at the instant it is due, and its gaps cover what  *)
(* it has generated since.                                                  *)
GapsInv ==
  \A d \in Decodes :
    /\ call[d] = "new" => now <= Due[d]
    /\ call[d] # "new" /\ Output[d] > 1 =>
         /\ remaining[d] <= Output[d] - 1
         /\ last[d] - Due[d] <= tbt[d] * (Output[d] - 1 - remaining[d])

IInv == Types /\ QueueInv /\ EngineInv /\ GapsInv

-----------------------------------------------------------------------------
(***************************************************************************)
(* The operators the actions are built from.                               *)
(***************************************************************************)

(* A claim ends a natural number of units after the device is free, and     *)
(* after now.                                                               *)
LEMMA ClaimAfter ==
  ASSUME Types, NEW engine \in Devices, NEW cost \in Nat
  PROVE  /\ Claim(engine, cost) \in Nat
         /\ busyUntil[Device(engine)] <= Claim(engine, cost) - cost
         /\ now <= Claim(engine, cost) - cost
BY SMTT(30) DEF Types, Claim, Later, Device, Devices

(* A batch and a queue made of who stays, then the first m that queued; and *)
(* of the rest of the queue.                                                *)
Promoted(n, f, m, b, p) ==
  /\ b \in Seq(Decodes) /\ Len(b) = n + m /\ Len(b) <= MaxBatch
  /\ \A i \in 1 .. n : b[i] = batch[f[i]]
  /\ \A i \in 1 .. m : b[n + i] = pending[i]
  /\ p \in Seq(Decodes) /\ Len(p) = Len(pending) - m
  /\ \A i \in 1 .. Len(p) : p[i] = pending[m + i]
  /\ p # <<>> => Len(b) = MaxBatch

(* That is what a step that ends leaves.                                    *)
LEMMA PromotedShape ==
  ASSUME Types, Slots, NEW n \in 0 .. Len(batch), NEW f \in [1 .. n -> 1 .. Len(batch)],
         NEW b, NEW p,
         b = Promote(Staying(f)).batch, p = Promote(Staying(f)).pending
  PROVE  \E m \in 0 .. Len(pending) : Promoted(n, f, m, b, p)
<1> DEFINE kept == Staying(f)
           m == IF Len(pending) < MaxBatch - Len(kept) THEN Len(pending)
                ELSE MaxBatch - Len(kept)
           head == SubSeq(pending, 1, m)
           tail == SubSeq(pending, m + 1, Len(pending))
<1>1. /\ batch \in Seq(Decodes) /\ pending \in Seq(Decodes)
      /\ Len(batch) \in Nat /\ Len(pending) \in Nat
      /\ MaxBatch \in Nat /\ Len(batch) <= MaxBatch
  <2>1. MaxBatch \in Nat BY HostAssumption
  <2>2. batch \in Seq(Decodes) /\ pending \in Seq(Decodes) BY DEF Types
  <2> QED BY <2>1, <2>2 DEF Slots
<1>2. /\ kept \in Seq(Decodes) /\ Len(kept) = n
      /\ \A i \in 1 .. n : kept[i] = batch[f[i]]
  <2>1. kept = [i \in 1 .. n |-> batch[f[i]]]
    BY DEF Staying
  <2>2. \A i \in 1 .. n : batch[f[i]] \in Decodes
    BY <1>1
  <2> HIDE DEF kept
  <2> QED BY <2>1, <2>2
<1> HIDE DEF kept
<1>3. m \in 0 .. Len(pending) /\ n + m <= MaxBatch
  BY <1>1, <1>2
<1>4. b = kept \o head /\ p = tail
  BY DEF Promote, kept
<1>5. m < Len(pending) => n + m = MaxBatch
  BY <1>1, <1>2
<1> HIDE DEF m
<1>6. /\ head \in Seq(Decodes) /\ Len(head) = m
      /\ \A i \in 1 .. m : head[i] = pending[i]
  BY <1>1, <1>3
<1>7. /\ tail \in Seq(Decodes) /\ Len(tail) = Len(pending) - m
      /\ \A i \in 1 .. Len(tail) : tail[i] = pending[m + i]
  BY <1>1, <1>3
<1> HIDE DEF head, tail
<1>8. /\ b \in Seq(Decodes) /\ Len(b) = n + m
      /\ \A i \in 1 .. n : b[i] = batch[f[i]]
      /\ \A i \in 1 .. m : b[n + i] = pending[i]
  <2>1. n \in Nat /\ m \in Nat BY <1>1, <1>3
  <2>2. b \in Seq(Decodes) /\ Len(b) = n + m
    <3>1. kept \in Seq(Decodes) /\ Len(kept) = n /\ head \in Seq(Decodes) /\ Len(head) = m
      BY <1>2, <1>6
    <3> QED BY <1>4, <3>1, ConcatProperties
  <2>5. \A i \in 1 .. n + m : b[i] = IF i <= n THEN kept[i] ELSE head[i - n]
    BY <1>2, <1>4, <1>6, ConcatProperties
  <2>3. \A i \in 1 .. n : b[i] = kept[i] BY <2>1, <2>5
  <2>4. \A i \in 1 .. m : b[n + i] = head[i]
    <3> SUFFICES ASSUME NEW i \in 1 .. m PROVE b[n + i] = head[i]
      OBVIOUS
    <3>1. n + i \in 1 .. n + m /\ ~ (n + i <= n) /\ (n + i) - n = i BY <2>1
    <3> QED BY <2>5, <3>1
  <2>6. \A i \in 1 .. n : b[i] = batch[f[i]] BY <1>2, <2>3, Zenon
  <2>7. \A i \in 1 .. m : b[n + i] = pending[i] BY <1>6, <2>4, Zenon
  <2> QED BY <2>2, <2>6, <2>7, Zenon
<1>9. p # <<>> => Len(b) = MaxBatch
  BY <1>1, <1>3, <1>4, <1>5, <1>7, <1>8
<1> QED BY <1>3, <1>4, <1>7, <1>8, <1>9 DEF Promoted

(* Nobody is lost or doubled on the way: the batch is who stays and the     *)
(* head of the queue, the queue is the rest of it.                          *)
HandedOn(gone, b, p) ==
  /\ b \in Seq(Decodes) /\ p \in Seq(Decodes)
  /\ Len(b) <= MaxBatch /\ (p # <<>> => Len(b) = MaxBatch)
  /\ Once(b, p)
  /\ \A d \in Members(b) \union Members(p) :
       d \in (Members(batch) \union Members(pending)) \ (gone \ Members(pending))
  /\ \A d \in Members(batch) \union Members(pending) :
       d \in Members(b) \union Members(p) \union gone
  /\ \E m \in 0 .. Len(pending) :
       Members(b) \ Members(batch) = Members(SubSeq(pending, 1, m))

LEMMA PromotedHeld ==
  ASSUME Types, Slots, HeldOnce, NEW gone,
         NEW n \in 0 .. Len(batch), NEW f \in [1 .. n -> 1 .. Len(batch)],
         Walks(f, batch, gone), NEW b, NEW p,
         b = Promote(Staying(f)).batch, p = Promote(Staying(f)).pending
  PROVE  HandedOn(gone, b, p)
<1>0. /\ batch \in Seq(Decodes) /\ pending \in Seq(Decodes)
      /\ Len(batch) \in Nat /\ Len(pending) \in Nat /\ n \in Nat
  BY DEF Types
<1>c. PICK m \in 0 .. Len(pending) : Promoted(n, f, m, b, p)
  BY PromotedShape
<1>1. /\ b \in Seq(Decodes) /\ Len(b) = n + m /\ Len(b) <= MaxBatch
      /\ \A i \in 1 .. n : b[i] = batch[f[i]]
      /\ \A i \in 1 .. m : b[n + i] = pending[i]
      /\ p \in Seq(Decodes) /\ Len(p) = Len(pending) - m
      /\ \A i \in 1 .. Len(p) : p[i] = pending[m + i]
      /\ p # <<>> => Len(b) = MaxBatch
  BY <1>c DEF Promoted
<1>2. m \in Nat /\ m <= Len(pending) BY <1>0
<1>3. ASSUME NEW i \in 1 .. Len(b)
      PROVE  \/ i \in 1 .. n /\ f[i] \in 1 .. Len(batch) /\ b[i] = batch[f[i]]
             \/ i - n \in 1 .. m /\ i - n \in 1 .. Len(pending) /\ b[i] = pending[i - n]
  <2>1. CASE i <= n BY SMTT(30), <1>0, <1>1, <2>1
  <2>2. CASE i > n
    <3>1. i - n \in 1 .. m BY <1>0, <1>1, <1>2, <2>2
    <3>2. b[n + (i - n)] = pending[i - n] BY <1>1, <3>1
    <3>3. n + (i - n) = i BY <1>0
    <3> QED BY <1>0, <1>2, <3>1, <3>2, <3>3
  <2> QED BY <1>0, <2>1, <2>2
<1>4. \A i \in 1 .. Len(p) : m + i \in 1 .. Len(pending) /\ p[i] = pending[m + i]
  BY <1>0, <1>1, <1>2
<1>5. \A i, j \in 1 .. n : i # j => f[i] # f[j]
  <2> SUFFICES ASSUME NEW i \in 1 .. n, NEW j \in 1 .. n, i # j PROVE f[i] # f[j]
    OBVIOUS
  <2>1. f[i] \in Nat /\ f[j] \in Nat BY <1>0
  <2>2. i < j => f[i] < f[j] BY DEF Walks
  <2>3. j < i => f[j] < f[i] BY DEF Walks
  <2> QED BY <1>0, <2>1, <2>2, <2>3
<1>b. /\ \A i, j \in 1 .. Len(batch) : batch[i] = batch[j] => i = j
      /\ \A i, j \in 1 .. Len(pending) : pending[i] = pending[j] => i = j
      /\ \A i \in 1 .. Len(batch), j \in 1 .. Len(pending) : batch[i] # pending[j]
  BY DEF HeldOnce, Once
<1>6. Once(b, p)
  <2>1. ASSUME NEW i \in 1 .. Len(b), NEW j \in 1 .. Len(b), b[i] = b[j] PROVE i = j
    <3>1. CASE i \in 1 .. n /\ j \in 1 .. n
      <4>1. /\ f[i] \in 1 .. Len(batch) /\ f[j] \in 1 .. Len(batch)
            /\ b[i] = batch[f[i]] /\ b[j] = batch[f[j]]
        BY <1>1, <3>1
      <4>2. f[i] = f[j] BY <1>b, <2>1, <4>1
      <4> QED BY <1>5, <3>1, <4>2
    <3>2. CASE i \in 1 .. n /\ j \notin 1 .. n
      <4>1. f[i] \in 1 .. Len(batch) /\ b[i] = batch[f[i]] BY <1>1, <3>2
      <4>2. j - n \in 1 .. Len(pending) /\ b[j] = pending[j - n] BY <1>3, <3>2
      <4>3. batch[f[i]] # pending[j - n] BY <1>b, <4>1, <4>2
      <4> QED BY <2>1, <4>1, <4>2, <4>3
    <3>3. CASE i \notin 1 .. n /\ j \in 1 .. n
      <4>1. f[j] \in 1 .. Len(batch) /\ b[j] = batch[f[j]] BY <1>1, <3>3
      <4>2. i - n \in 1 .. Len(pending) /\ b[i] = pending[i - n] BY <1>3, <3>3
      <4>3. batch[f[j]] # pending[i - n] BY <1>b, <4>1, <4>2
      <4> QED BY <2>1, <4>1, <4>2, <4>3
    <3>4. CASE i \notin 1 .. n /\ j \notin 1 .. n
      <4>1. /\ i - n \in 1 .. Len(pending) /\ j - n \in 1 .. Len(pending)
            /\ b[i] = pending[i - n] /\ b[j] = pending[j - n]
        BY <1>3, <3>4
      <4>2. i - n = j - n BY <1>b, <2>1, <4>1
      <4> QED BY <1>0, <1>1, <1>2, <4>2
    <3> QED BY <3>1, <3>2, <3>3, <3>4
  <2>2. ASSUME NEW i \in 1 .. Len(p), NEW j \in 1 .. Len(p), p[i] = p[j] PROVE i = j
    <3>1. /\ m + i \in 1 .. Len(pending) /\ m + j \in 1 .. Len(pending)
          /\ p[i] = pending[m + i] /\ p[j] = pending[m + j]
      BY <1>4
    <3>2. m + i = m + j BY <1>b, <2>2, <3>1
    <3> QED BY <1>0, <1>1, <1>2, <3>2
  <2>3. ASSUME NEW i \in 1 .. Len(b), NEW j \in 1 .. Len(p) PROVE b[i] # p[j]
    <3>1. CASE i \in 1 .. n
      <4>1. f[i] \in 1 .. Len(batch) /\ b[i] = batch[f[i]] BY <1>1, <3>1
      <4>2. m + j \in 1 .. Len(pending) /\ p[j] = pending[m + j] BY <1>4
      <4>3. batch[f[i]] # pending[m + j] BY <1>b, <4>1, <4>2
      <4> QED BY <4>1, <4>2, <4>3, Zenon
    <3>2. CASE i \notin 1 .. n
      <4>1. i - n \in 1 .. m /\ i - n \in 1 .. Len(pending) /\ b[i] = pending[i - n]
        BY <1>3, <3>2, Zenon
      <4>2. m + j \in 1 .. Len(pending) /\ p[j] = pending[m + j] BY <1>4
      <4>3. i - n # m + j BY <1>0, <1>1, <1>2, <4>1
      <4>4. pending[i - n] # pending[m + j] BY <1>b, <4>1, <4>2, <4>3, Zenon
      <4> QED BY <4>1, <4>2, <4>4, Zenon
    <3> QED BY <3>1, <3>2
  <2> QED BY <2>1, <2>2, <2>3 DEF Once
<1>7. ASSUME NEW d \in Members(b) \union Members(p)
      PROVE  d \in (Members(batch) \union Members(pending)) \ (gone \ Members(pending))
  <2>1. CASE d \in Members(b)
    <3>1. PICK i \in 1 .. Len(b) : d = b[i] BY <2>1 DEF Members
    <3>2. CASE i \in 1 .. n
      <4>1. f[i] \in 1 .. Len(batch) /\ d = batch[f[i]] BY <1>1, <3>1, <3>2
      <4>2. batch[f[i]] \notin gone BY <3>2, <4>1 DEF Walks
      <4> QED BY <4>1, <4>2 DEF Members
    <3>3. CASE i \notin 1 .. n
      <4>1. d \in Members(pending) BY <1>3, <3>1, <3>3 DEF Members
      <4> QED BY <4>1
    <3> QED BY <3>2, <3>3
  <2>2. CASE d \in Members(p)
    <3>1. d \in Members(pending) BY <1>4, <2>2 DEF Members
    <3> QED BY <3>1
  <2> QED BY <2>1, <2>2
<1>8. ASSUME NEW d \in Members(batch) \union Members(pending)
      PROVE  d \in Members(b) \union Members(p) \union gone
  <2>1. CASE d \in Members(batch) /\ d \notin gone
    <3>1. PICK i \in 1 .. Len(batch) : d = batch[i] BY <2>1 DEF Members
    <3>2. PICK j \in 1 .. n : f[j] = i BY <2>1, <3>1 DEF Walks
    <3>3. j \in 1 .. Len(b) /\ b[j] = d BY <1>0, <1>1, <1>2, <3>1, <3>2
    <3> QED BY <3>3 DEF Members
  <2>2. CASE d \in Members(pending)
    <3>1. PICK i \in 1 .. Len(pending) : d = pending[i] BY <2>2 DEF Members
    <3>2. CASE i <= m
      <4>1. n + i \in 1 .. Len(b) /\ b[n + i] = d BY <1>0, <1>1, <1>2, <3>1, <3>2
      <4> QED BY <4>1 DEF Members
    <3>3. CASE i > m
      <4>1. i - m \in 1 .. Len(p) /\ m + (i - m) = i BY <1>0, <1>1, <1>2, <3>3
      <4>2. p[i - m] = d BY <1>4, <3>1, <4>1
      <4> QED BY <4>1, <4>2 DEF Members
    <3> QED BY <1>0, <1>2, <3>2, <3>3
  <2> QED BY <2>1, <2>2
<1>9. Members(b) \ Members(batch) = Members(SubSeq(pending, 1, m))
  <2>1. /\ Len(SubSeq(pending, 1, m)) = m
        /\ \A i \in 1 .. m : SubSeq(pending, 1, m)[i] = pending[i]
    BY <1>0, <1>2
  <2>2. Members(SubSeq(pending, 1, m)) = { pending[i] : i \in 1 .. m }
    BY <2>1 DEF Members
  <2>3. ASSUME NEW d \in Members(b) \ Members(batch) PROVE d \in { pending[i] : i \in 1 .. m }
    <3>1. PICK i \in 1 .. Len(b) : d = b[i] BY DEF Members
    <3>2. i \notin 1 .. n
      <4> SUFFICES ASSUME i \in 1 .. n PROVE d \in Members(batch)
        BY <2>3
      <4>1. f[i] \in 1 .. Len(batch) /\ d = batch[f[i]] BY <1>1, <3>1
      <4> QED BY <4>1, Zenon DEF Members
    <3> QED BY <1>3, <3>1, <3>2
  <2>4. ASSUME NEW i \in 1 .. m PROVE pending[i] \in Members(b) \ Members(batch)
    <3>1. i \in 1 .. Len(pending) BY <1>0, <1>2
    <3>2. n + i \in 1 .. Len(b)
      <4>1. i \in Nat /\ 1 <= i /\ i <= m BY SMTT(30), <1>2
      <4>2. Len(b) = n + m BY <1>1, Zenon
      <4> QED BY SMTT(30), <1>0, <1>2, <4>1, <4>2
    <3>5. b[n + i] = pending[i] BY <1>1
    <3>3. pending[i] \in Members(b) BY <3>2, <3>5 DEF Members
    <3>4. pending[i] \notin Members(batch) BY <1>b, <3>1 DEF Members
    <3> QED BY <3>3, <3>4
  <2> QED BY <2>2, <2>3, <2>4
<1> QED BY <1>1, <1>6, <1>7, <1>8, <1>9 DEF HandedOn

-----------------------------------------------------------------------------
(***************************************************************************)
(* Types.                                                                  *)
(***************************************************************************)

LEMMA InitTypes == Init => Types
<1> SUFFICES ASSUME Init PROVE Types
  OBVIOUS
<1>1. batch \in Seq(Decodes) /\ pending \in Seq(Decodes) /\ members \in Seq(Decodes)
  BY DEF Init
<1> QED BY <1>1 DEF Init, Types, Devices

(* Freezing the batch and booking its step. *)
LEMMA BeginStepTypes ==
  ASSUME Types, Slots, batch # <<>>, BeginStep
  PROVE  /\ Len(batch) \in 1 .. MaxBatch /\ StepCost[Len(batch)] \in Nat
         /\ members' = batch /\ stepEnd' = Claim("decode", StepCost[Len(batch)])
         /\ stepEnd' \in Nat
         /\ busyUntil' = [busyUntil EXCEPT ![Device("decode")] = stepEnd']
         /\ busyUntil' \in [Devices -> Nat]
         /\ loop' \in {"announcing", "stepping"}
<1>1. batch \in Seq(Decodes) /\ MaxBatch \in Nat
  BY HostAssumption DEF Types
<1>2. Len(batch) \in 1 .. MaxBatch
  BY <1>1 DEF Slots
<1>3. StepCost[Len(batch)] \in Nat
  BY <1>2, HostAssumption
<1>4. Claim("decode", StepCost[Len(batch)]) \in Nat
  BY <1>3, ClaimAfter DEF Devices
<1>5. /\ members' = batch /\ stepEnd' = Claim("decode", StepCost[Len(batch)])
      /\ busyUntil' = [busyUntil EXCEPT ![Device("decode")] = stepEnd']
      /\ loop' \in {"announcing", "stepping"}
  BY DEF BeginStep
<1>6. busyUntil' \in [Devices -> Nat]
  BY <1>4, <1>5 DEF Types
<1> QED BY <1>2, <1>3, <1>4, <1>5, <1>6

LEMMA TypesNext ==
  ASSUME Types, Slots, HeldOnce, HeldOpen, [Next]_vars
  PROVE  Types'
<1> USE DEF passVars, slotVars, stepVars
<1>1. ASSUME NEW p \in Passes, PassStep(p) PROVE Types'
  <2>1. CASE PassIsEmpty(p) BY <2>1 DEF PassIsEmpty, Types
  <2>2. CASE PassTakesDevice(p)
    <3>1. Claim("prefill", Cost[p]) \in Nat
      BY HostAssumption, ClaimAfter DEF Devices
    <3> QED BY <2>2, <3>1 DEF PassTakesDevice, Occupy, Types
  <2>3. CASE PassQueues(p) BY <2>3 DEF PassQueues, Types
  <2>4. CASE PassResumes(p)
    <3>1. Claim("prefill", Cost[p]) \in Nat
      BY HostAssumption, ClaimAfter DEF Devices
    <3> QED BY <2>4, <3>1 DEF PassResumes, Occupy, Types
  <2>5. CASE PassEnds(p) BY <2>5 DEF PassEnds, HandOff, Types
  <2> QED BY <1>1, <2>1, <2>2, <2>3, <2>4, <2>5 DEF PassStep
<1>2. ASSUME NEW d \in Decodes, CallStep(d) PROVE Types'
  <2>1. CASE AdmitNothing(d) BY <2>1 DEF AdmitNothing, Types
  <2>2. CASE Admit(d)
    <3>1. Output[d] - 1 \in Nat BY <2>2, HostAssumption DEF Admit
    <3>2. batch' \in Seq(Decodes) /\ pending' \in Seq(Decodes)
      <4>1. batch \in Seq(Decodes) /\ pending \in Seq(Decodes) BY DEF Types
      <4>2. Append(batch, d) \in Seq(Decodes) /\ Append(pending, d) \in Seq(Decodes) BY <4>1
      <4> QED BY <2>2, <4>1, <4>2 DEF Admit
    <3> QED BY <2>2, <3>1, <3>2 DEF Admit, Types
  <2>3. CASE Admitted(d) BY <2>3 DEF Admitted, EnsureStepping, Types
  <2>4. CASE AdmitRaises(d) BY <2>4 DEF AdmitRaises, Types
  <2>5. CASE Returns(d) BY <2>5 DEF Returns, Types
  <2> QED BY <1>2, <2>1, <2>2, <2>3, <2>4, <2>5 DEF CallStep
<1>3. CASE StepStarts
  <2>1. batch # <<>> BY <1>3 DEF StepStarts, Slots
  <2> QED BY <1>3, <2>1, BeginStepTypes DEF StepStarts, Types
<1>4. CASE Announced BY <1>4 DEF Announced, Types
<1>5. CASE StepEnds
  <2> DEFINE stepped == Members(members) \intersect Members(batch)
             left == [d \in Decodes |-> IF d \in stepped THEN remaining[d] - 1 ELSE remaining[d]]
             finished == { d \in stepped : left[d] = 0 }
  <2>1. PICK n \in 0 .. Len(batch) : \E f \in [1 .. n -> 1 .. Len(batch)] :
          /\ Walks(f, batch, finished)
          /\ batch' = Promote(Staying(f)).batch /\ pending' = Promote(Staying(f)).pending
    BY <1>5 DEF StepEnds
  <2>2. batch' \in Seq(Decodes) /\ pending' \in Seq(Decodes)
    <3> HIDE DEF finished
    <3>1. HandedOn(finished, batch', pending') BY <2>1, PromotedHeld
    <3> QED BY <3>1 DEF HandedOn
  <2>3. \A d \in stepped : remaining[d] > 0 BY DEF HeldOpen
  <2>4. remaining' \in [Decodes -> Nat]
    <3>1. remaining' = left BY <1>5 DEF StepEnds
    <3>2. \A d \in Decodes : left[d] \in Nat BY <2>3 DEF Types
    <3> QED BY <3>1, <3>2
  <2>5. last' \in [Decodes -> Nat] /\ tbt' \in [Decodes -> Nat]
    BY <1>5 DEF StepEnds, WorstGap, Later, Types
  <2>6. slot' \in [Decodes -> {"open", "result", "exception"}]
    BY <1>5 DEF StepEnds, Types
  <2>7. loop' = "reporting" /\ UNCHANGED <<now, busyUntil, passVars, call, members, stepEnd>>
    BY <1>5 DEF StepEnds
  <2> QED BY <2>2, <2>4, <2>5, <2>6, <2>7 DEF Types
<1>6. CASE StepReported
  <2>1. CASE batch = <<>> BY <1>6, <2>1 DEF StepReported, Types
  <2>2. CASE batch # <<>>
    BY <1>6, <2>2, BeginStepTypes DEF StepReported, Types
  <2> QED BY <2>1, <2>2
<1>7. CASE StepDies
  <2>1. batch' \in Seq(Decodes) /\ pending' \in Seq(Decodes)
    BY <1>7 DEF StepDies
  <2>2. slot' \in [Decodes -> {"open", "result", "exception"}]
    BY <1>7 DEF StepDies, Types
  <2> QED BY <1>7, <2>1, <2>2 DEF StepDies, Types
<1>8. CASE Tick BY <1>8 DEF Tick, Types
<1>9. CASE UNCHANGED vars BY <1>9 DEF vars, Types
<1> QED BY <1>1, <1>2, <1>3, <1>4, <1>5, <1>6, <1>7, <1>8, <1>9 DEF Next, LoopStep, Finished

-----------------------------------------------------------------------------
(***************************************************************************)
(* The prefill queue.                                                      *)
(***************************************************************************)

LEMMA InitQueue == Init => QueueInv
<1> SUFFICES ASSUME Init PROVE QueueInv
  OBVIOUS
<1>1. Ownership BY DEF Init, Ownership, Owners, Waiting
<1>2. InTurn BY HostAssumption DEF Init, InTurn, Waiting
<1>3. Booked BY DEF Init, Booked
<1> QED BY <1>1, <1>2, <1>3 DEF QueueInv

(* Booking the device for a pass: after whatever has it, a step included.   *)
LEMMA OccupyBooked ==
  ASSUME Types, Booked, NEW p \in Passes, Occupy(p),
         pass' = [pass EXCEPT ![p] = "claimed"],
         \A q \in Passes \ {p} : pass[q] # "claimed",
         UNCHANGED <<loop, members, stepEnd>>
  PROVE  Booked'
<1> DEFINE stop == Claim("prefill", Cost[p])
<1>1. /\ stop \in Nat /\ Cost[p] \in Nat
      /\ busyUntil[Device("prefill")] <= stop - Cost[p]
  BY HostAssumption, ClaimAfter DEF Devices
<1>2. /\ passEnd' = [passEnd EXCEPT ![p] = stop]
      /\ busyUntil' = [busyUntil EXCEPT ![Device("prefill")] = stop]
  BY DEF Occupy
<1> HIDE DEF stop
<1>3. /\ passEnd'[p] = stop /\ busyUntil'[Device("prefill")] = stop
      /\ busyUntil[Device("decode")] <= busyUntil'[Device("decode")]
      /\ busyUntil[Device("decode")] \in Nat /\ busyUntil[Device("prefill")] \in Nat
      /\ busyUntil'[Device("decode")] \in Nat
  BY <1>1, <1>2 DEF Types, Device, Devices
<1>4. \A q \in Passes : pass'[q] = "claimed" => q = p
  BY DEF Types
<1>5. ASSUME loop \in {"announcing", "stepping"}
      PROVE  /\ stepEnd <= busyUntil'[Device("decode")]
             /\ Len(members) \in 1 .. MaxBatch
             /\ Coupled => stepEnd <= stop - Cost[p]
  <2>1. /\ stepEnd <= busyUntil[Device("decode")] /\ Len(members) \in 1 .. MaxBatch
        /\ stepEnd \in Nat
    BY <1>5 DEF Booked, Types
  <2>2. Coupled => Device("decode") = Device("prefill") BY DEF Device
  <2> QED BY <1>1, <1>3, <2>1, <2>2
<1> QED BY <1>1, <1>3, <1>4, <1>5 DEF Booked

(* Booking it for a step: after whatever has it, a pass included.           *)
LEMMA BeginStepBooked ==
  ASSUME Types, Slots, Booked, batch # <<>>, BeginStep, UNCHANGED passVars
  PROVE  Booked'
<1> DEFINE cost == StepCost[Len(batch)]
<1>1. /\ Len(batch) \in 1 .. MaxBatch /\ cost \in Nat /\ members' = batch
      /\ stepEnd' = Claim("decode", cost) /\ stepEnd' \in Nat
      /\ busyUntil' = [busyUntil EXCEPT ![Device("decode")] = stepEnd']
  BY BeginStepTypes
<1>2. busyUntil[Device("decode")] <= stepEnd' - cost
  BY <1>1, ClaimAfter DEF Devices
<1> HIDE DEF cost
<1>3. /\ busyUntil'[Device("decode")] = stepEnd'
      /\ busyUntil[Device("prefill")] <= busyUntil'[Device("prefill")]
      /\ busyUntil[Device("decode")] \in Nat /\ busyUntil[Device("prefill")] \in Nat
      /\ busyUntil'[Device("prefill")] \in Nat
  BY SMTT(30), <1>1, <1>2 DEF Types, Device, Devices
<1>4. pass' = pass /\ passEnd' = passEnd BY DEF passVars
<1>5. ASSUME NEW p \in Passes, pass[p] = "claimed"
      PROVE  /\ passEnd[p] <= busyUntil'[Device("prefill")]
             /\ Coupled => passEnd[p] <= stepEnd' - cost
  <2>1. passEnd[p] <= busyUntil[Device("prefill")] /\ passEnd[p] \in Nat
    BY <1>5 DEF Booked, Types
  <2>2. Coupled => Device("decode") = Device("prefill") BY DEF Device
  <2> QED BY <1>1, <1>2, <1>3, <2>1, <2>2
<1> QED BY <1>1, <1>3, <1>4, <1>5 DEF Booked, cost

LEMMA QueueNext ==
  ASSUME Types, QueueInv, Slots, [Next]_vars
  PROVE  QueueInv'
<1> USE DEF passVars, slotVars, stepVars
<1>0. Ownership /\ InTurn /\ Booked BY DEF QueueInv
<1>1. ASSUME NEW p \in Passes, PassIsEmpty(p) PROVE QueueInv'
  <2>1. /\ pass[p] = "new" /\ pass' = [pass EXCEPT ![p] = "done"]
        /\ UNCHANGED <<now, busyUntil, running, submitted, passEnd, loop, members, stepEnd>>
    BY <1>1 DEF PassIsEmpty
  <2>2. Owners' = Owners /\ Waiting' = Waiting
    BY <2>1 DEF Types, Owners, Waiting
  <2>3. Ownership' BY <1>0, <2>1, <2>2 DEF Ownership
  <2>4. InTurn' BY <1>0, <2>1, <2>2 DEF InTurn, Types
  <2>5. Booked' BY <1>0, <2>1 DEF Booked, Types, Device
  <2> QED BY <2>3, <2>4, <2>5 DEF QueueInv
<1>2. ASSUME NEW p \in Passes, PassTakesDevice(p) PROVE QueueInv'
  <2>1. /\ pass[p] = "new" /\ ~running /\ running' = TRUE
        /\ pass' = [pass EXCEPT ![p] = "claimed"]
        /\ submitted' = [submitted EXCEPT ![p] = now] /\ Occupy(p)
        /\ UNCHANGED <<now, loop, members, stepEnd>>
    BY <1>2 DEF PassTakesDevice
  <2>2. Owners = {} /\ Waiting = {} BY <1>0, <2>1 DEF Ownership
  <2>3. Owners' = {p} /\ Waiting' = {}
    BY <2>1, <2>2 DEF Types, Owners, Waiting
  <2>4. Ownership' BY <2>1, <2>3 DEF Ownership
  <2>5. InTurn' BY <1>0, <2>1, <2>3 DEF InTurn, Types
  <2>6. Booked'
    <3>1. \A q \in Passes \ {p} : pass[q] # "claimed" BY <2>2 DEF Owners
    <3> QED BY <1>0, <2>1, <3>1, OccupyBooked
  <2> QED BY <2>4, <2>5, <2>6 DEF QueueInv
<1>3. ASSUME NEW p \in Passes, PassQueues(p) PROVE QueueInv'
  <2>1. /\ pass[p] = "new" /\ running
        /\ pass' = [pass EXCEPT ![p] = "waiting"]
        /\ submitted' = [submitted EXCEPT ![p] = now]
        /\ UNCHANGED <<now, busyUntil, running, passEnd, loop, members, stepEnd>>
    BY <1>3 DEF PassQueues
  <2>2. Owners' = Owners /\ Waiting' = Waiting \union {p}
    BY <2>1 DEF Types, Owners, Waiting
  <2>3. Ownership' BY <1>0, <2>1, <2>2 DEF Ownership
  <2>4. InTurn' BY <1>0, <2>1, <2>2 DEF InTurn, Types
  <2>5. Booked' BY <1>0, <2>1 DEF Booked, Types, Device
  <2> QED BY <2>3, <2>4, <2>5 DEF QueueInv
<1>4. ASSUME NEW p \in Passes, PassResumes(p) PROVE QueueInv'
  <2>1. /\ pass[p] = "granted" /\ pass' = [pass EXCEPT ![p] = "claimed"] /\ Occupy(p)
        /\ UNCHANGED <<now, running, submitted, loop, members, stepEnd>>
    BY <1>4 DEF PassResumes
  <2>2. Owners' = Owners /\ Waiting' = Waiting
    BY <2>1 DEF Types, Owners, Waiting
  <2>3. Ownership' BY <1>0, <2>1, <2>2 DEF Ownership
  <2>4. InTurn' BY <1>0, <2>1, <2>2 DEF InTurn, Types
  <2>5. Booked'
    <3>1. \A q \in Passes \ {p} : pass[q] # "claimed"
      BY <1>0, <2>1 DEF Ownership, Owners
    <3> QED BY <1>0, <2>1, <3>1, OccupyBooked
  <2> QED BY <2>3, <2>4, <2>5 DEF QueueInv
<1>5. ASSUME NEW p \in Passes, PassEnds(p) PROVE QueueInv'
  <2>1. /\ pass[p] = "claimed" /\ HandOff(p)
        /\ UNCHANGED <<now, busyUntil, submitted, passEnd, loop, members, stepEnd>>
    BY <1>5 DEF PassEnds
  <2>2. Owners = {p} BY <1>0, <2>1 DEF Ownership, Owners
  <2>3. CASE Waiting = {}
    <3>1. running' = FALSE /\ pass' = [pass EXCEPT ![p] = "done"]
      BY <2>1, <2>3 DEF HandOff
    <3>2. Owners' = {} /\ Waiting' = {}
      BY <2>2, <2>3, <3>1 DEF Types, Owners, Waiting
    <3>3. \A q \in Passes : pass'[q] \notin {"granted", "claimed"}
      BY <3>2 DEF Owners
    <3>4. Ownership' BY <3>1, <3>2 DEF Ownership
    <3>5. InTurn' BY <1>0, <2>1, <3>2, <3>3 DEF InTurn
    <3>6. Booked' BY <1>0, <2>1, <3>3 DEF Booked, Device
    <3> QED BY <3>4, <3>5, <3>6 DEF QueueInv
  <2>4. CASE Waiting # {}
    <3>1. PICK next \in Waiting :
            /\ \A q \in Waiting \ {next} : Before(next, q)
            /\ pass' = [pass EXCEPT ![p] = "done", ![next] = "granted"]
      BY <2>1, <2>4 DEF HandOff
    <3>2. running' = running BY <2>1, <2>4 DEF HandOff
    <3>3. next # p /\ next \in Passes /\ pass'[next] = "granted" /\ pass'[p] = "done"
      BY <2>1, <3>1 DEF Waiting, Types
    <3>4. \A q \in Passes \ {p, next} : pass'[q] = pass[q]
      BY <3>1, <3>3 DEF Types
    <3>5. Owners' = {next} /\ Waiting' = Waiting \ {next}
      <4>1. \A q \in Passes : pass'[q] \in {"granted", "claimed"} <=> q = next
        BY <2>2, <3>3, <3>4 DEF Owners
      <4>2. \A q \in Passes : pass'[q] = "waiting" <=> q \in Waiting \ {next}
        BY <2>1, <3>3, <3>4 DEF Waiting
      <4> QED BY <3>3, <4>1, <4>2 DEF Owners, Waiting
    <3>6. Ownership'
      BY <1>0, <2>2, <3>2, <3>5 DEF Ownership
    <3>7. InTurn'
      <4>1. \A q \in Passes : submitted[q] \in Nat BY DEF Types
      <4>2. \A q \in Waiting \ {next} : submitted[next] <= submitted[q]
        BY <3>1, <3>3, <4>1 DEF Before, Waiting
      <4>3. \A q \in Passes : pass'[q] = "granted" => q = next BY <3>5 DEF Owners
      <4> QED BY <1>0, <2>1, <3>5, <4>2, <4>3 DEF InTurn
    <3>8. Booked'
      <4>1. \A q \in Passes : pass'[q] # "claimed" BY <3>3, <3>5 DEF Owners
      <4> QED BY <1>0, <2>1, <4>1 DEF Booked, Device
    <3> QED BY <3>6, <3>7, <3>8 DEF QueueInv
  <2> QED BY <2>3, <2>4
<1>6. ASSUME batch # <<>>, BeginStep, UNCHANGED <<now, passVars>> PROVE QueueInv'
  <2>1. Booked' BY <1>0, <1>6, BeginStepBooked
  <2>2. Owners' = Owners /\ Waiting' = Waiting BY <1>6 DEF Owners, Waiting
  <2> QED BY <1>0, <1>6, <2>1, <2>2 DEF QueueInv, Ownership, InTurn
<1>7. ASSUME UNCHANGED <<now, passVars, busyUntil, members, stepEnd>>,
             loop' \in {"announcing", "stepping"} => loop \in {"announcing", "stepping"}
      PROVE  QueueInv'
  <2>1. Owners' = Owners /\ Waiting' = Waiting BY <1>7 DEF Owners, Waiting
  <2>2. Booked' BY <1>0, <1>7 DEF Booked, Device
  <2> QED BY <1>0, <1>7, <2>1, <2>2 DEF QueueInv, Ownership, InTurn
<1>8. CASE Tick
  <2>1. now' = now + 1 /\ UNCHANGED <<busyUntil, passVars, stepVars>> BY <1>8 DEF Tick
  <2>2. Owners' = Owners /\ Waiting' = Waiting BY <2>1 DEF Owners, Waiting
  <2>3. Booked' BY <1>0, <2>1 DEF Booked, Device
  <2>4. InTurn' BY <1>0, <2>1, <2>2 DEF InTurn, Types
  <2> QED BY <1>0, <2>1, <2>2, <2>3, <2>4 DEF QueueInv, Ownership
<1>9. ASSUME NEW d \in Decodes, CallStep(d) PROVE QueueInv'
  <2>1. /\ UNCHANGED <<now, passVars, busyUntil, members, stepEnd>>
        /\ loop' \in {"announcing", "stepping"} => loop \in {"announcing", "stepping"}
    BY <1>9 DEF CallStep, AdmitNothing, Admit, Admitted, AdmitRaises, Returns, EnsureStepping
  <2> QED BY <1>7, <2>1
<1>10. CASE StepStarts
  BY <1>6, <1>10 DEF StepStarts, Slots
<1>11. CASE StepReported
  <2>1. CASE batch = <<>> BY <1>7, <1>11, <2>1 DEF StepReported
  <2>2. CASE batch # <<>> BY <1>6, <1>11, <2>2 DEF StepReported
  <2> QED BY <2>1, <2>2
<1>12. CASE Announced BY <1>7, <1>12 DEF Announced
<1>13. CASE StepEnds BY <1>7, <1>13 DEF StepEnds
<1>14. CASE StepDies BY <1>7, <1>14 DEF StepDies
<1>15. CASE UNCHANGED vars BY <1>7, <1>15 DEF vars
<1> QED
  BY <1>1, <1>2, <1>3, <1>4, <1>5, <1>8, <1>9, <1>10, <1>11, <1>12, <1>13, <1>14, <1>15
     DEF Next, PassStep, LoopStep, Finished

-----------------------------------------------------------------------------
(***************************************************************************)
(* The decode engine.                                                      *)
(***************************************************************************)

LEMMA InitEngine == Init => EngineInv
<1> SUFFICES ASSUME Init PROVE EngineInv
  OBVIOUS
<1>1. batch = <<>> /\ pending = <<>> /\ Len(batch) = 0 /\ Len(pending) = 0 BY DEF Init
<1>2. HeldOnce BY <1>1 DEF HeldOnce, Once
<1>3. HeldOpen BY <1>1 DEF HeldOpen, Members
<1>4. Slots BY <1>1, HostAssumption DEF Init, Slots
<1>5. Answerable BY DEF Init, Answerable
<1> QED BY <1>2, <1>3, <1>4, <1>5 DEF EngineInv

(* One more at the end of what is held. *)
LEMMA AppendMembers ==
  ASSUME NEW s \in Seq(Decodes), NEW d \in Decodes
  PROVE  /\ Members(Append(s, d)) = Members(s) \union {d}
         /\ Len(Append(s, d)) = Len(s) + 1 /\ Append(s, d) # <<>>
         /\ d \notin Members(s) /\ (\A i, j \in 1 .. Len(s) : s[i] = s[j] => i = j) =>
              \A i, j \in 1 .. Len(s) + 1 : Append(s, d)[i] = Append(s, d)[j] => i = j
<1> DEFINE t == Append(s, d)
<1>1. /\ Len(s) \in Nat /\ Len(t) = Len(s) + 1 /\ t # <<>>
      /\ \A i \in 1 .. Len(s) : t[i] = s[i]
      /\ t[Len(s) + 1] = d
  OBVIOUS
<1> HIDE DEF t
<1>2. \A i \in 1 .. Len(t) : i \in 1 .. Len(s) \/ i = Len(s) + 1
  BY <1>1
<1>3. 1 .. Len(s) \subseteq 1 .. Len(t) /\ Len(s) + 1 \in 1 .. Len(t)
  BY <1>1
<1>4. Members(t) = Members(s) \union {d}
  BY <1>1, <1>2, <1>3 DEF Members
<1>5. ASSUME d \notin Members(s), \A i, j \in 1 .. Len(s) : s[i] = s[j] => i = j,
             NEW i \in 1 .. Len(s) + 1, NEW j \in 1 .. Len(s) + 1, t[i] = t[j]
      PROVE  i = j
  <2>1. \A k \in 1 .. Len(s) : s[k] # d BY <1>5 DEF Members
  <2> QED BY <1>1, <1>2, <1>5, <2>1
<1> QED BY <1>1, <1>4, <1>5 DEF t

(* What is held is a request. *)
LEMMA HeldDecodes ==
  ASSUME Types
  PROVE  Members(batch) \union Members(pending) \subseteq Decodes
<1>1. batch \in Seq(Decodes) /\ pending \in Seq(Decodes) BY DEF Types
<1> QED BY <1>1 DEF Members

LEMMA AdmitEngine ==
  ASSUME Types, EngineInv, NEW d \in Decodes, Admit(d)
  PROVE  EngineInv'
<1> DEFINE Held == Members(batch) \union Members(pending)
<1>0. HeldOnce /\ HeldOpen /\ Slots /\ Answerable BY DEF EngineInv
<1>1. /\ call[d] = "new" /\ call' = [call EXCEPT ![d] = "reporting"]
      /\ remaining' = [remaining EXCEPT ![d] = Output[d] - 1]
      /\ Output[d] > 1 /\ slot' = slot /\ loop' = loop
  BY DEF Admit, stepVars
<1>2. d \notin Held BY <1>0, <1>1 DEF HeldOpen
<1>3. /\ batch \in Seq(Decodes) /\ pending \in Seq(Decodes) /\ MaxBatch \in Nat
      /\ Len(batch) \in Nat
  BY HostAssumption DEF Types
<1>4. /\ Members(batch') \union Members(pending') = Held \union {d}
      /\ HeldOnce' /\ Slots'
  <2>1. CASE Len(batch) < MaxBatch
    <3>1. batch' = Append(batch, d) /\ pending' = pending BY <2>1 DEF Admit
    <3>2. pending = <<>> BY <1>0, <1>3, <2>1 DEF Slots
    <3>3. Len(batch') = Len(batch) + 1 /\ Members(batch') = Members(batch) \union {d}
          /\ batch' # <<>>
      BY <1>3, <3>1, AppendMembers
    <3>4. Len(pending') = 0 BY <3>1, <3>2
    <3>5. \A i, j \in 1 .. Len(batch') : batch'[i] = batch'[j] => i = j
      <4>1. d \notin Members(batch) BY <1>2
      <4>2. \A i, j \in 1 .. Len(batch) : batch[i] = batch[j] => i = j
        BY <1>0 DEF HeldOnce, Once
      <4>3. \A i, j \in 1 .. Len(batch) + 1 : Append(batch, d)[i] = Append(batch, d)[j] => i = j
        BY <1>3, <4>1, <4>2, AppendMembers
      <4> QED BY <3>1, <3>3, <4>3
    <3>6. HeldOnce' BY <3>4, <3>5 DEF HeldOnce, Once
    <3>7. Slots' BY <1>3, <2>1, <3>1, <3>2, <3>3 DEF Slots
    <3> QED BY <3>1, <3>3, <3>6, <3>7
  <2>2. CASE ~(Len(batch) < MaxBatch)
    <3>1. batch' = batch /\ pending' = Append(pending, d) BY <2>2 DEF Admit
    <3>2. Len(pending') = Len(pending) + 1 /\ Members(pending') = Members(pending) \union {d}
      BY <1>3, <3>1, AppendMembers
    <3>3. \A i, j \in 1 .. Len(pending') : pending'[i] = pending'[j] => i = j
      BY <1>0, <1>2, <1>3, <3>1, <3>2, AppendMembers DEF HeldOnce, Once
    <3>4. \A i \in 1 .. Len(batch), j \in 1 .. Len(pending') : batch[i] # pending'[j]
      <4> SUFFICES ASSUME NEW i \in 1 .. Len(batch), NEW j \in 1 .. Len(pending')
                   PROVE  batch[i] # pending'[j]
        OBVIOUS
      <4>1. batch[i] \in Members(batch) BY DEF Members
      <4>2. pending'[j] \in Members(pending) \union {d} BY <3>2 DEF Members
      <4>3. \A x \in Members(pending) : batch[i] # x BY <1>0 DEF HeldOnce, Once, Members
      <4> QED BY <1>2, <4>1, <4>2, <4>3
    <3>5. HeldOnce' BY <1>0, <3>1, <3>3, <3>4 DEF HeldOnce, Once
    <3>6. Slots' BY <1>0, <1>1, <1>3, <2>2, <3>1 DEF Slots
    <3> QED BY <3>1, <3>2, <3>5, <3>6
  <2> QED BY <2>1, <2>2
<1>5. slot[d] = "open" /\ remaining'[d] > 0 /\ call'[d] = "reporting"
  <2>1. slot[d] = "open" BY <1>0, <1>1 DEF Answerable
  <2>2. remaining'[d] = Output[d] - 1 BY <1>1 DEF Types
  <2>3. call'[d] = "reporting" BY <1>1 DEF Types
  <2>4. Output[d] \in Nat BY HostAssumption
  <2> QED BY <1>1, <2>1, <2>2, <2>3, <2>4
<1>6. \A e \in Decodes \ {d} : remaining'[e] = remaining[e] /\ call'[e] = call[e]
  BY <1>1 DEF Types
<1>7. Held \subseteq Decodes BY <1>3 DEF Members
<1> HIDE DEF Held
<1>8. HeldOpen'
  <2> SUFFICES ASSUME NEW e \in Held \union {d}
               PROVE  /\ call'[e] \in {"reporting", "parked", "raised"}
                      /\ slot'[e] = "open" /\ remaining'[e] > 0
    BY <1>4 DEF HeldOpen
  <2>1. CASE e = d BY <1>1, <1>5, <2>1
  <2>2. CASE e # d
    <3>1. e \in Held /\ e \in Decodes \ {d} BY <1>7, <2>2
    <3>2. call[e] \in {"reporting", "parked", "raised"} /\ slot[e] = "open" /\ remaining[e] > 0
      BY <1>0, <3>1 DEF HeldOpen, Held
    <3> QED BY <1>1, <1>6, <3>1, <3>2
  <2> QED BY <2>1, <2>2
<1>9. Answerable'
  <2> SUFFICES ASSUME NEW e \in Decodes
               PROVE  /\ call'[e] = "new" => slot'[e] = "open" /\ remaining'[e] = 0
                      /\ call'[e] \in {"reporting", "parked"} /\ slot'[e] = "open" =>
                           e \in Held \union {d}
                      /\ call'[e] = "parked" /\ slot'[e] = "open" => loop' # "idle"
                      /\ slot'[e] = "result" => remaining'[e] = 0
    BY <1>4 DEF Answerable
  <2>1. CASE e = d BY <1>1, <1>5, <2>1
  <2>2. CASE e # d BY <1>0, <1>1, <1>6, <2>2 DEF Answerable, Held
  <2> QED BY <2>1, <2>2
<1> QED BY <1>4, <1>8, <1>9 DEF EngineInv

LEMMA StepEndsEngine ==
  ASSUME Types, EngineInv, StepEnds
  PROVE  EngineInv'
<1> DEFINE stepped == Members(members) \intersect Members(batch)
           left == [d \in Decodes |-> IF d \in stepped THEN remaining[d] - 1 ELSE remaining[d]]
           finished == { d \in stepped : left[d] = 0 }
           Held == Members(batch) \union Members(pending)
<1>0. HeldOnce /\ HeldOpen /\ Slots /\ Answerable BY DEF EngineInv
<1>1. PICK n \in 0 .. Len(batch) : \E f \in [1 .. n -> 1 .. Len(batch)] :
        /\ Walks(f, batch, finished)
        /\ batch' = Promote(Staying(f)).batch /\ pending' = Promote(Staying(f)).pending
  BY DEF StepEnds
<1>2. /\ remaining' = left /\ loop' = "reporting" /\ call' = call
      /\ slot' = [d \in Decodes |-> IF d \in finished THEN "result" ELSE slot[d]]
  BY DEF StepEnds
<1>3. finished \subseteq Held /\ Held \subseteq Decodes
  BY HeldDecodes
<1>4. \A d \in finished : d \notin Members(pending)
  BY <1>0 DEF HeldOnce, Once, Members
<1>5. \A d \in Decodes : d \in finished => left[d] = 0
  OBVIOUS
<1>6. \A d \in Held \ finished : left[d] > 0
  <2> SUFFICES ASSUME NEW d \in Held, d \notin finished PROVE left[d] > 0
    OBVIOUS
  <2>1. d \in Decodes /\ remaining[d] \in Nat /\ remaining[d] > 0
    BY <1>0, <1>3 DEF HeldOpen, Types
  <2>2. CASE d \in stepped
    <3>1. left[d] = remaining[d] - 1 /\ left[d] # 0 BY <2>1, <2>2
    <3> QED BY <2>1, <3>1
  <2>3. CASE d \notin stepped
    <3>1. left[d] = remaining[d] BY <2>1, <2>3
    <3> QED BY <2>1, <3>1
  <2> QED BY <2>2, <2>3
<1>7. \A d \in Decodes : remaining[d] = 0 => left[d] = 0
  BY <1>0 DEF HeldOpen
<1> HIDE DEF finished, left
<1>8. /\ Len(batch') <= MaxBatch /\ (pending' # <<>> => Len(batch') = MaxBatch)
      /\ Once(batch', pending')
      /\ \A d \in Members(batch') \union Members(pending') :
           d \in Held \ (finished \ Members(pending))
      /\ \A d \in Held : d \in Members(batch') \union Members(pending') \union finished
  <2> HIDE DEF Held
  <2>1. HandedOn(finished, batch', pending') BY <1>0, <1>1, PromotedHeld
  <2> QED BY <2>1 DEF HandedOn, Held
<1>9. /\ Members(batch') \union Members(pending') = Held \ finished
  BY <1>3, <1>4, <1>8 
<1> HIDE DEF Held
<1>10. HeldOpen'
  <2> SUFFICES ASSUME NEW d \in Held \ finished
               PROVE  /\ call[d] \in {"reporting", "parked", "raised"}
                      /\ slot'[d] = "open" /\ left[d] > 0
    BY <1>2, <1>9 DEF HeldOpen
  <2>1. call[d] \in {"reporting", "parked", "raised"} /\ slot[d] = "open"
    BY <1>0 DEF HeldOpen, Held
  <2> QED BY <1>2, <1>3, <1>6, <2>1
<1>11. Answerable'
  <2> SUFFICES ASSUME NEW d \in Decodes
               PROVE  /\ call[d] = "new" => slot'[d] = "open" /\ left[d] = 0
                      /\ call[d] \in {"reporting", "parked"} /\ slot'[d] = "open" =>
                           d \in Held \ finished
                      /\ slot'[d] = "result" => left[d] = 0
    BY <1>2, <1>9 DEF Answerable
  <2>1. slot'[d] = IF d \in finished THEN "result" ELSE slot[d] BY <1>2
  <2>2. call[d] = "new" => slot[d] = "open" /\ remaining[d] = 0 /\ d \notin finished
    BY <1>0, <1>3 DEF Answerable, HeldOpen, Held
  <2>3. call[d] \in {"reporting", "parked"} /\ slot[d] = "open" => d \in Held
    BY <1>0 DEF Answerable, Held
  <2>4. slot[d] = "result" => remaining[d] = 0 BY <1>0 DEF Answerable
  <2> QED BY <1>5, <1>7, <2>1, <2>2, <2>3, <2>4
<1>12. Slots' BY <1>2, <1>8 DEF Slots
<1> QED BY <1>8, <1>10, <1>11, <1>12 DEF EngineInv, HeldOnce

LEMMA EngineNext ==
  ASSUME Types, EngineInv, [Next]_vars
  PROVE  EngineInv'
<1> USE DEF passVars, slotVars, stepVars
<1>0. HeldOnce /\ HeldOpen /\ Slots /\ Answerable BY DEF EngineInv
<1>1. ASSUME UNCHANGED <<slotVars, call>>, loop' \in {"idle", "created"} => loop' = loop
      PROVE  EngineInv'
  <2>1. HeldOnce' BY <1>0, <1>1 DEF HeldOnce, Once
  <2>2. HeldOpen' BY <1>0, <1>1 DEF HeldOpen, Members
  <2>3. Slots' BY <1>0, <1>1 DEF Slots
  <2>4. Answerable' BY <1>0, <1>1 DEF Answerable, Members
  <2> QED BY <2>1, <2>2, <2>3, <2>4 DEF EngineInv
<1>2. ASSUME NEW p \in Passes, PassStep(p) PROVE EngineInv'
  <2>1. UNCHANGED <<slotVars, call, loop>>
    BY <1>2 DEF PassStep, PassIsEmpty, PassTakesDevice, PassQueues, PassResumes, PassEnds
  <2> QED BY <1>1, <2>1
<1>3. ASSUME NEW d \in Decodes, AdmitNothing(d) PROVE EngineInv'
  <2>1. /\ call[d] = "new" /\ call' = [call EXCEPT ![d] = "returned"]
        /\ slot' = [slot EXCEPT ![d] = "result"]
        /\ UNCHANGED <<batch, pending, remaining, loop>>
    BY <1>3 DEF AdmitNothing
  <2>2. d \notin Members(batch) \union Members(pending) BY <1>0, <2>1 DEF HeldOpen
  <2>3. \A e \in Decodes \ {d} : call'[e] = call[e] /\ slot'[e] = slot[e]
    BY <2>1 DEF Types
  <2>4. HeldOnce' BY <1>0, <2>1 DEF HeldOnce, Once
  <2>5. Members(batch) \union Members(pending) \subseteq Decodes \ {d}
    BY <2>2, HeldDecodes
  <2>6. HeldOpen' BY <1>0, <2>1, <2>3, <2>5 DEF HeldOpen, Members
  <2>7. Slots' BY <1>0, <2>1 DEF Slots
  <2>8. Answerable'
    <3>1. call'[d] = "returned" /\ slot'[d] = "result" /\ remaining[d] = 0
      BY <1>0, <2>1 DEF Answerable, Types
    <3> QED BY <1>0, <2>1, <2>3, <3>1 DEF Answerable, Members
  <2> QED BY <2>4, <2>6, <2>7, <2>8 DEF EngineInv
<1>4. ASSUME NEW d \in Decodes, Admit(d) PROVE EngineInv'
  BY <1>4, AdmitEngine
<1>5. ASSUME NEW d \in Decodes, Admitted(d) PROVE EngineInv'
  <2>1. /\ call[d] = "reporting" /\ call' = [call EXCEPT ![d] = "parked"]
        /\ loop' = IF loop = "idle" /\ batch # <<>> THEN "created" ELSE loop
        /\ UNCHANGED slotVars
    BY <1>5 DEF Admitted, EnsureStepping
  <2>2. \A e \in Decodes \ {d} : call'[e] = call[e] BY <2>1 DEF Types
  <2>3. HeldOnce' BY <1>0, <2>1 DEF HeldOnce, Once
  <2>4. HeldOpen' BY SMTT(30), <1>0, <2>1 DEF HeldOpen, Members, Types
  <2>5. Slots' BY <1>0, <2>1 DEF Slots
  <2>6. call'[d] = "parked" BY <2>1 DEF Types
  <2>7. slot[d] = "open" => loop' # "idle"
    <3>1. slot[d] = "open" => d \in Members(batch) \union Members(pending)
      BY <1>0, <2>1 DEF Answerable
    <3>2. pending # <<>> => batch # <<>>
      BY <1>0, HostAssumption DEF Slots, Types
    <3>3. d \in Members(batch) => batch # <<>> BY DEF Members, Types
    <3>4. d \in Members(pending) => pending # <<>> BY DEF Members, Types
    <3> QED BY <2>1, <3>1, <3>2, <3>3, <3>4
  <2>8. loop # "idle" => loop' # "idle" BY <2>1
  <2>9. Answerable'
    BY <1>0, <2>1, <2>2, <2>6, <2>7, <2>8 DEF Answerable, Members
  <2> QED BY <2>3, <2>4, <2>5, <2>9 DEF EngineInv
<1>6. ASSUME NEW d \in Decodes, AdmitRaises(d) \/ Returns(d) PROVE EngineInv'
  <2>1. /\ call[d] \in {"reporting", "parked"}
        /\ call'[d] \in {"returned", "raised"}
        /\ slot[d] = "open" => call'[d] = "raised"
        /\ \A e \in Decodes \ {d} : call'[e] = call[e]
        /\ UNCHANGED <<slotVars, loop>>
    BY <1>6 DEF AdmitRaises, Returns, Types
  <2>3. HeldOnce' BY <1>0, <2>1 DEF HeldOnce, Once
  <2>4. HeldOpen'
    <3>1. \A e \in Members(batch) \union Members(pending) : e \in Decodes BY HeldDecodes
    <3> QED BY <1>0, <2>1, <3>1 DEF HeldOpen, Members
  <2>5. Slots' BY <1>0, <2>1 DEF Slots
  <2>6. Answerable' BY <1>0, <2>1 DEF Answerable, Members
  <2> QED BY <2>3, <2>4, <2>5, <2>6 DEF EngineInv
<1>7. CASE StepStarts BY <1>1, <1>7 DEF StepStarts, BeginStep
<1>8. CASE Announced BY <1>1, <1>8 DEF Announced
<1>9. CASE StepEnds BY <1>9, StepEndsEngine
<1>10. CASE StepReported
  <2>1. CASE batch = <<>>
    <3>1. loop' = "idle" /\ UNCHANGED <<slotVars, call>> BY <1>10, <2>1 DEF StepReported
    <3>2. pending = <<>>
      BY <1>0, <2>1, HostAssumption DEF Slots
    <3>3. Members(batch) \union Members(pending) = {} BY <2>1, <3>2 DEF Members
    <3>4. HeldOnce' BY <1>0, <3>1 DEF HeldOnce, Once
    <3>5. HeldOpen' BY <1>0, <3>1 DEF HeldOpen, Members
    <3>6. Slots' BY <1>0, <3>1 DEF Slots
    <3>7. Answerable' BY <1>0, <3>1, <3>3 DEF Answerable, Members
    <3> QED BY <3>4, <3>5, <3>6, <3>7 DEF EngineInv
  <2>2. CASE batch # <<>>
    BY <1>1, <1>10, <2>2 DEF StepReported, BeginStep
  <2> QED BY <2>1, <2>2
<1>11. CASE StepDies
  <2> DEFINE Held == Members(batch) \union Members(pending)
  <2>1. /\ slot' = [d \in Decodes |-> IF d \in Held /\ slot[d] = "open" THEN "exception"
                                      ELSE slot[d]]
        /\ batch' = <<>> /\ pending' = <<>> /\ loop' = "idle"
        /\ UNCHANGED <<call, remaining>>
    BY <1>11 DEF StepDies
  <2>2. Members(batch') \union Members(pending') = {} BY <2>1 DEF Members
  <2>3. HeldOnce' BY <2>1 DEF HeldOnce, Once
  <2>4. HeldOpen' BY <2>2 DEF HeldOpen
  <2>5. Slots' BY <2>1, HostAssumption DEF Slots
  <2>6. Answerable'
    <3> SUFFICES ASSUME NEW d \in Decodes
                 PROVE  /\ call[d] = "new" => slot'[d] = "open" /\ remaining[d] = 0
                        /\ ~(call[d] \in {"reporting", "parked"} /\ slot'[d] = "open")
                        /\ slot'[d] = "result" => remaining[d] = 0
      BY <2>1 DEF Answerable
    <3>1. call[d] = "new" => slot[d] = "open" /\ remaining[d] = 0 /\ d \notin Held
      BY <1>0 DEF Answerable, HeldOpen
    <3>2. call[d] \in {"reporting", "parked"} /\ slot[d] = "open" => d \in Held
      BY <1>0 DEF Answerable
    <3>3. slot[d] = "result" => remaining[d] = 0 BY <1>0 DEF Answerable
    <3> HIDE DEF Held
    <3> QED BY <2>1, <3>1, <3>2, <3>3
  <2> QED BY <2>3, <2>4, <2>5, <2>6 DEF EngineInv
<1>12. CASE Tick BY <1>1, <1>12 DEF Tick
<1>13. CASE UNCHANGED vars BY <1>1, <1>13 DEF vars
<1> QED
  BY <1>2, <1>3, <1>4, <1>5, <1>6, <1>7, <1>8, <1>9, <1>10, <1>11, <1>12, <1>13
     DEF Next, CallStep, LoopStep, Finished

-----------------------------------------------------------------------------
(***************************************************************************)
(* The gaps between tokens.                                                *)
(***************************************************************************)

LEMMA InitGaps == Init => GapsInv
BY HostAssumption DEF Init, GapsInv

(* One more gap, none of them longer than the worst, reaches one gap        *)
(* further.                                                                 *)
LEMMA OneMoreGap ==
  ASSUME NEW w \in Nat, NEW v \in Nat, NEW k \in Nat, NEW a \in Int, NEW b \in Int,
         NEW due \in Int, w <= v, b - a <= v, a - due <= w * k
  PROVE  b - due <= v * (k + 1)
<1>1. w * k \in Nat /\ v * k \in Nat OBVIOUS
<1>2. w * k <= v * k
  <2>1. (v - w) * k \in Nat
    <3>1. v - w \in Nat OBVIOUS
    <3>2. \A x, y \in Nat : x * y \in Nat OBVIOUS
    <3> QED BY <3>1, <3>2
  <2>2. v * k = w * k + (v - w) * k OBVIOUS
  <2> QED BY <1>1, <2>1, <2>2
<1>3. v * (k + 1) = v * k + v OBVIOUS
<1> QED BY <1>1, <1>2, <1>3

(* A step that ends closes one gap of each request it stepped.              *)
LEMMA StepEndsGaps ==
  ASSUME Types, EngineInv, GapsInv, StepEnds
  PROVE  GapsInv'
<1> DEFINE stepped == Members(members) \intersect Members(batch)
<1>1. /\ remaining' = [d \in Decodes |-> IF d \in stepped THEN remaining[d] - 1 ELSE remaining[d]]
      /\ tbt' = [d \in Decodes |-> IF d \in stepped THEN WorstGap(d) ELSE tbt[d]]
      /\ last' = [d \in Decodes |-> IF d \in stepped THEN stepEnd ELSE last[d]]
      /\ call' = call /\ now' = now
  BY DEF StepEnds
<1>2. \A d \in stepped : remaining[d] > 0 BY DEF EngineInv, HeldOpen
<1> HIDE DEF stepped
<1> SUFFICES ASSUME NEW d \in Decodes
             PROVE  /\ call[d] = "new" => now <= Due[d]
                    /\ call[d] # "new" /\ Output[d] > 1 =>
                         /\ remaining'[d] <= Output[d] - 1
                         /\ last'[d] - Due[d] <= tbt'[d] * (Output[d] - 1 - remaining'[d])
  BY <1>1 DEF GapsInv
<1>3. CASE d \notin stepped
  BY <1>1, <1>3 DEF GapsInv
<1>4. CASE d \in stepped
  <2>1. call[d] = "new" => now <= Due[d] BY DEF GapsInv
  <2>2. ASSUME call[d] # "new", Output[d] > 1
        PROVE  /\ remaining'[d] <= Output[d] - 1
               /\ last'[d] - Due[d] <= tbt'[d] * (Output[d] - 1 - remaining'[d])
    <3> DEFINE k == Output[d] - 1 - remaining[d]
    <3>1. /\ remaining[d] \in Nat /\ tbt[d] \in Nat /\ last[d] \in Nat /\ stepEnd \in Nat
          /\ Output[d] \in Nat /\ Due[d] \in Nat
      BY HostAssumption DEF Types
    <3>2. /\ remaining[d] <= Output[d] - 1
          /\ last[d] - Due[d] <= tbt[d] * k
      BY <2>2 DEF GapsInv
    <3>3. k \in Nat BY <3>1, <3>2
    <3>4. /\ remaining'[d] = remaining[d] - 1 /\ last'[d] = stepEnd
          /\ tbt'[d] = WorstGap(d)
      BY <1>1, <1>4
    <3>5. /\ tbt'[d] \in Nat /\ tbt[d] <= tbt'[d] /\ stepEnd - last[d] <= tbt'[d]
      BY <3>1, <3>4 DEF WorstGap, Later
    <3>6. Output[d] - 1 - remaining'[d] = k + 1 BY <3>1, <3>4
    <3> HIDE DEF k
    <3>7. stepEnd - Due[d] <= tbt'[d] * (k + 1)
      BY <3>1, <3>2, <3>3, <3>5, OneMoreGap
    <3> QED BY <3>1, <3>2, <3>4, <3>6, <3>7
  <2> QED BY <2>1, <2>2
<1> QED BY <1>3, <1>4

LEMMA GapsNext ==
  ASSUME Types, EngineInv, GapsInv, [Next]_vars
  PROVE  GapsInv'
<1> USE DEF passVars, slotVars, stepVars
<1>1. ASSUME UNCHANGED <<now, remaining, last, tbt>>,
             \A d \in Decodes : (call'[d] = "new") <=> (call[d] = "new")
      PROVE  GapsInv'
  BY <1>1 DEF GapsInv
<1>2. ASSUME NEW p \in Passes, PassStep(p) PROVE GapsInv'
  <2>1. UNCHANGED <<now, slotVars, call>>
    BY <1>2 DEF PassStep, PassIsEmpty, PassTakesDevice, PassQueues, PassResumes, PassEnds
  <2> QED BY <1>1, <2>1
<1>3. ASSUME NEW d \in Decodes, AdmitNothing(d) PROVE GapsInv'
  <2>1. /\ call'[d] = "returned" /\ ~(Output[d] > 1)
        /\ \A e \in Decodes \ {d} : call'[e] = call[e]
        /\ UNCHANGED <<now, remaining, last, tbt>>
    <3>1. Output[d] \in Nat BY HostAssumption
    <3>2. ~(Output[d] > 1) BY <1>3, <3>1 DEF AdmitNothing
    <3>3. call' = [call EXCEPT ![d] = "returned"] /\ UNCHANGED <<now, remaining, last, tbt>>
      BY <1>3 DEF AdmitNothing
    <3> QED BY <3>2, <3>3 DEF Types
  <2> QED BY <2>1 DEF GapsInv
<1>4. ASSUME NEW d \in Decodes, Admit(d) PROVE GapsInv'
  <2>1. /\ call[d] = "new" /\ Due[d] <= now /\ Output[d] > 1
        /\ call' = [call EXCEPT ![d] = "reporting"]
        /\ remaining' = [remaining EXCEPT ![d] = Output[d] - 1]
        /\ last' = [last EXCEPT ![d] = now]
        /\ UNCHANGED <<now, tbt>>
    BY <1>4 DEF Admit
  <2>2. /\ call'[d] = "reporting" /\ remaining'[d] = Output[d] - 1 /\ last'[d] = now
    BY <2>1 DEF Types
  <2>3. \A e \in Decodes \ {d} :
          call'[e] = call[e] /\ remaining'[e] = remaining[e] /\ last'[e] = last[e]
    BY <2>1 DEF Types
  <2>4. now \in Nat /\ Due[d] \in Nat /\ Output[d] \in Nat /\ tbt[d] \in Nat
    BY HostAssumption DEF Types
  <2>5. now = Due[d] BY <2>1, <2>4 DEF GapsInv
  <2>6. tbt[d] * (Output[d] - 1 - remaining'[d]) = 0
    <3>1. Output[d] - 1 - remaining'[d] = 0 BY <2>2, <2>4
    <3> QED BY <2>4, <3>1
  <2>7. /\ remaining'[d] <= Output[d] - 1
        /\ last'[d] - Due[d] <= tbt'[d] * (Output[d] - 1 - remaining'[d])
    <3>1. tbt' = tbt BY <2>1
    <3>2. last'[d] - Due[d] = 0 BY <2>2, <2>4, <2>5
    <3> QED BY <2>2, <2>4, <2>6, <3>1, <3>2
  <2> SUFFICES ASSUME NEW e \in Decodes
               PROVE  /\ call'[e] = "new" => now' <= Due[e]
                      /\ call'[e] # "new" /\ Output[e] > 1 =>
                           /\ remaining'[e] <= Output[e] - 1
                           /\ last'[e] - Due[e] <= tbt'[e] * (Output[e] - 1 - remaining'[e])
    BY DEF GapsInv
  <2>8. CASE e = d BY <2>2, <2>7, <2>8
  <2>9. CASE e # d
    <3>1. call'[e] = call[e] /\ remaining'[e] = remaining[e] /\ last'[e] = last[e]
      BY <2>3, <2>9
    <3> QED BY <2>1, <3>1 DEF GapsInv
  <2> QED BY <2>8, <2>9
<1>5. ASSUME NEW d \in Decodes, Admitted(d) \/ AdmitRaises(d) \/ Returns(d) PROVE GapsInv'
  <2>1. /\ call[d] # "new" /\ call'[d] # "new"
        /\ \A e \in Decodes \ {d} : call'[e] = call[e]
        /\ UNCHANGED <<now, remaining, last, tbt>>
    BY <1>5 DEF Admitted, AdmitRaises, Returns, Types
  <2> QED BY <1>1, <2>1
<1>6. CASE StepStarts BY <1>1, <1>6 DEF StepStarts
<1>7. CASE Announced BY <1>1, <1>7 DEF Announced
<1>8. CASE StepEnds BY <1>8, StepEndsGaps
<1>9. CASE StepReported BY <1>1, <1>9 DEF StepReported
<1>10. CASE StepDies BY <1>1, <1>10 DEF StepDies
<1>11. CASE Tick
  <2>1. now' = now + 1 /\ UNCHANGED <<remaining, last, tbt, call>> /\ ~Ready
    BY <1>11 DEF Tick
  <2>2. \A d \in Decodes : call[d] = "new" => ~(Due[d] <= now) BY <2>1 DEF Ready
  <2>3. \A d \in Decodes : call[d] = "new" => now' <= Due[d]
    BY <2>1, <2>2, HostAssumption DEF Types
  <2> QED BY <2>1, <2>3 DEF GapsInv
<1>12. CASE UNCHANGED vars BY <1>1, <1>12 DEF vars
<1> QED
  BY <1>2, <1>3, <1>4, <1>5, <1>6, <1>7, <1>8, <1>9, <1>10, <1>11, <1>12
     DEF Next, CallStep, LoopStep, Finished

-----------------------------------------------------------------------------
(***************************************************************************)
(* The results.                                                            *)
(***************************************************************************)

(* Queue, engine and gaps keep their invariants, whatever the costs, the    *)
(* arrivals and the batch size, and whichever reports raise.                *)
THEOREM Invariance == Spec => []IInv
<1>1. Init => IInv
  BY InitTypes, InitQueue, InitEngine, InitGaps DEF IInv
<1>2. ASSUME IInv, [Next]_vars PROVE IInv'
  <2>1. /\ Types /\ QueueInv /\ EngineInv /\ GapsInv
        /\ HeldOnce /\ HeldOpen /\ Slots
    BY <1>2 DEF IInv, EngineInv
  <2>2. Types' BY <1>2, <2>1, TypesNext
  <2>3. QueueInv' BY <1>2, <2>1, QueueNext
  <2>4. EngineInv' BY <1>2, <2>1, EngineNext
  <2>5. GapsInv' BY <1>2, <2>1, GapsNext
  <2> QED BY <2>2, <2>3, <2>4, <2>5 DEF IInv
<1> QED BY <1>1, <1>2, PTL DEF Spec

(* The device is handed over, never released into a race: _hand_off of the  *)
(* prefill queue and the two claims on a coupled host's accelerator.        *)
THEOREM QueueHasOneOwner == Spec => []OneOwner
<1>1. ASSUME IInv PROVE OneOwner
  <2>1. Types /\ Ownership /\ Booked BY <1>1 DEF IInv, QueueInv
  <2>2. Cardinality(Owners) <= 1
    <3>1. CASE Owners = {} BY <3>1, FS_EmptySet
    <3>2. CASE Owners # {}
      <4>1. PICK p \in Owners : TRUE BY <3>2
      <4>2. Owners = {p} BY <2>1, <4>1 DEF Ownership
      <4>3. Cardinality({p}) = 1 BY FS_Singleton
      <4> QED BY <4>2, <4>3
    <3> QED BY <3>1, <3>2
  <2> QED BY <2>1, <2>2 DEF Ownership, Booked, OneOwner
<1> QED BY <1>1, Invariance, PTL

(* No admitted request is lost between admit, the step task and _abandon.   *)
THEOREM EngineForgetsNobody == Spec => []NobodyForgotten
<1>1. IInv => NobodyForgotten
  BY DEF IInv, EngineInv, Slots, Answerable, NobodyForgotten
<1> QED BY <1>1, Invariance, PTL

(* The time between tokens that _step_complete reports accounts for the     *)
(* whole decode.                                                            *)
THEOREM GapsReachLastToken == Spec => []GapsCoverDecode
<1>1. IInv => GapsCoverDecode
  BY DEF IInv, GapsInv, GapsCoverDecode
<1> QED BY <1>1, Invariance, PTL

(* First come, first served: what any one step may let onto the device and  *)
(* into the batch.                                                          *)
Orderly ==
  /\ \A p \in Passes : pass[p] # "claimed" /\ pass'[p] = "claimed" =>
       \A q \in Waiting \ {p} : submitted[q] >= submitted'[p]
  /\ pending # <<>> =>
       \E n \in 0 .. Len(pending) :
         Members(batch') \ Members(batch) = Members(SubSeq(pending, 1, n))

(* A step that lets nobody into the batch lets in the first none.           *)
LEMMA NobodyLetIn ==
  ASSUME Types, Members(batch') \subseteq Members(batch)
  PROVE  \E n \in 0 .. Len(pending) :
           Members(batch') \ Members(batch) = Members(SubSeq(pending, 1, n))
<1>1. pending \in Seq(Decodes) BY DEF Types
<1>2. 0 \in 0 .. Len(pending) /\ Len(SubSeq(pending, 1, 0)) = 0 BY <1>1
<1>3. Members(SubSeq(pending, 1, 0)) = {} BY <1>2 DEF Members
<1> QED BY <1>2, <1>3

LEMMA OrderlyNext ==
  ASSUME IInv, [Next]_vars
  PROVE  Orderly
<1> USE DEF passVars, slotVars, stepVars
<1>0. Types /\ Ownership /\ InTurn /\ HeldOnce /\ HeldOpen /\ Slots
  BY DEF IInv, QueueInv, EngineInv
<1>1. ASSUME pass' = pass, batch' = batch PROVE Orderly
  <2>1. Members(batch') = Members(batch) BY <1>1
  <2> QED BY <1>0, <1>1, <2>1, NobodyLetIn DEF Orderly
<1>2. ASSUME NEW p \in Passes, PassStep(p) PROVE Orderly
  <2>1. batch' = batch
    BY <1>2 DEF PassStep, PassIsEmpty, PassTakesDevice, PassQueues, PassResumes, PassEnds
  <2>2. pending # <<>> =>
          \E n \in 0 .. Len(pending) :
            Members(batch') \ Members(batch) = Members(SubSeq(pending, 1, n))
    <3>1. Members(batch') = Members(batch) BY <2>1
    <3> QED BY <1>0, <3>1, NobodyLetIn
  <2> SUFFICES ASSUME NEW r \in Passes, pass[r] # "claimed", pass'[r] = "claimed",
                      NEW q \in Waiting \ {r}
               PROVE  submitted[q] >= submitted'[r]
    BY <2>2 DEF Orderly
  <2>3. CASE PassTakesDevice(p)
    <3>1. Waiting = {} BY <1>0, <2>3 DEF PassTakesDevice, Ownership
    <3> QED BY <3>1
  <2>4. CASE PassResumes(p)
    <3>1. /\ pass[p] = "granted" /\ pass' = [pass EXCEPT ![p] = "claimed"]
          /\ submitted' = submitted
      BY <2>4 DEF PassResumes
    <3>2. r = p BY <1>0, <3>1 DEF Types
    <3>3. submitted[p] <= submitted[q] BY <1>0, <3>1 DEF InTurn
    <3>4. submitted[p] \in Nat /\ submitted[q] \in Nat BY <1>0 DEF Types, Waiting
    <3> QED BY <3>1, <3>2, <3>3, <3>4
  <2>5. CASE PassIsEmpty(p) \/ PassQueues(p) \/ PassEnds(p)
    <3>1. pass'[r] # "claimed"
      BY <1>0, <2>5 DEF PassIsEmpty, PassQueues, PassEnds, HandOff, Types
    <3> QED BY <3>1
  <2> QED BY <1>2, <2>3, <2>4, <2>5 DEF PassStep
<1>3. ASSUME NEW d \in Decodes, CallStep(d) PROVE Orderly
  <2>1. pass' = pass
    BY <1>3 DEF CallStep, AdmitNothing, Admit, Admitted, AdmitRaises, Returns
  <2>2. pending # <<>> => batch' = batch
    <3>1. pending # <<>> => ~(Len(batch) < MaxBatch)
      BY <1>0, HostAssumption DEF Slots, Types
    <3> QED BY <1>3, <3>1 DEF CallStep, AdmitNothing, Admit, Admitted, AdmitRaises, Returns
  <2>3. pending # <<>> => Members(batch') \subseteq Members(batch) BY <2>2
  <2> QED BY <1>0, <2>1, <2>3, NobodyLetIn DEF Orderly
<1>4. CASE StepEnds
  <2> DEFINE stepped == Members(members) \intersect Members(batch)
             left == [d \in Decodes |-> IF d \in stepped THEN remaining[d] - 1 ELSE remaining[d]]
             finished == { d \in stepped : left[d] = 0 }
  <2>1. PICK n \in 0 .. Len(batch) : \E f \in [1 .. n -> 1 .. Len(batch)] :
          /\ Walks(f, batch, finished)
          /\ batch' = Promote(Staying(f)).batch /\ pending' = Promote(Staying(f)).pending
    BY <1>4 DEF StepEnds
  <2> HIDE DEF finished
  <2>2. HandedOn(finished, batch', pending') BY <1>0, <2>1, PromotedHeld
  <2>3. \E m \in 0 .. Len(pending) :
          Members(batch') \ Members(batch) = Members(SubSeq(pending, 1, m))
    BY <2>2 DEF HandedOn
  <2>4. pass' = pass BY <1>4 DEF StepEnds
  <2> QED BY <2>3, <2>4 DEF Orderly
<1>5. CASE StepDies
  <2>1. pass' = pass /\ batch' = <<>> BY <1>5 DEF StepDies
  <2>2. Members(batch') \subseteq Members(batch) BY <2>1 DEF Members
  <2> QED BY <1>0, <2>1, <2>2, NobodyLetIn DEF Orderly
<1>6. CASE StepStarts BY <1>1, <1>6 DEF StepStarts
<1>7. CASE Announced BY <1>1, <1>7 DEF Announced
<1>8. CASE StepReported BY <1>1, <1>8 DEF StepReported
<1>9. CASE Tick BY <1>1, <1>9 DEF Tick
<1>10. CASE UNCHANGED vars BY <1>1, <1>10 DEF vars
<1> QED
  BY <1>2, <1>3, <1>4, <1>5, <1>6, <1>7, <1>8, <1>9, <1>10 DEF Next, LoopStep, Finished

(* No prefill takes the device past one that has waited longer, and the     *)
(* batch lets the queued in in the order they queued.                       *)
THEOREM NobodyOvertakes == Spec => NoOvertaking
<1>1. IInv /\ [Next]_vars => [Orderly]_vars BY OrderlyNext
<1>2. [][Orderly]_vars => NoOvertaking BY PTL DEF NoOvertaking, Orderly
<1> QED BY <1>1, <1>2, Invariance, PTL DEF Spec
=============================================================================
