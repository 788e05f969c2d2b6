---------------------------- MODULE HostCompute ----------------------------
(***************************************************************************)
(* One serving host's compute: the accelerator and its prefill queue       *)
(* (kvcache_sim/workload/_accelerator.py) and the decode engine            *)
(* (kvcache_sim/data/_decode.py), which book the same device when the host *)
(* is coupled and one device each when it is not.                          *)
(*                                                                         *)
(* Time is the loop's virtual clock.  It moves only when nothing is ready, *)
(* and a hop to the control plane takes as long as it likes.  A task runs  *)
(* from one suspension to the next in one action; what a resolved future   *)
(* wakes runs later, in any order with whatever else is ready.             *)
(***************************************************************************)
EXTENDS Integers, Sequences, FiniteSets

CONSTANTS
  Passes,       \* prefill submissions; integers, their tags
  Cost,         \* Cost[p]: what the uncached tokens of p cost, 0 for none
  Decodes,      \* requests to decode
  Output,       \* Output[d]: output_tokens, the first of which prefill made
  Due,          \* Due[x]: the instant the workload submits x
  MaxBatch,     \* slots of the decode batch
  StepCost,     \* StepCost[n]: a step of n members
  Coupled,      \* whether prefill and decode share one accelerator
  HopsMayFail   \* whether a report to the control plane may raise

ASSUME HostAssumption ==
  /\ Passes \subseteq Nat /\ IsFiniteSet(Passes) /\ IsFiniteSet(Decodes)
  /\ Cost \in [Passes -> Nat] /\ Output \in [Decodes -> Nat]
  /\ Due \in [Passes \union Decodes -> Nat]
  /\ MaxBatch \in Nat \ {0} /\ StepCost \in [1 .. MaxBatch -> Nat \ {0}]
  /\ Coupled \in BOOLEAN /\ HopsMayFail \in BOOLEAN

VARIABLES
  now,        \* the loop's clock
  busyUntil,  \* each device's occupancy, SimulatedAccelerator.busy_until
  running,    \* _PrefillQueue._running
  pass,       \* where each prefill is
  submitted,  \* _Queued.submitted
  passEnd,    \* when the device is done with the pass
  batch,      \* DecodeEngine.batch
  pending,    \* DecodeEngine.pending
  remaining,  \* _Active.remaining
  last,       \* _Active.last_token_time
  tbt,        \* _Active.tbt_max
  call,       \* where each admit call is
  slot,       \* the slot's future: "open", "result" or "exception"
  loop,       \* where the step task is, "idle" when there is none
  members,    \* the batch as the running step froze it
  stepEnd     \* when the running step ends

passVars == <<running, pass, submitted, passEnd>>
slotVars == <<batch, pending, remaining, last, tbt, slot>>
stepVars == <<loop, members, stepEnd>>
vars == <<now, busyUntil, passVars, slotVars, call, stepVars>>

Devices == {"prefill", "decode"}
Device(engine) == IF Coupled THEN "prefill" ELSE engine

Init ==
  /\ now = 0 /\ busyUntil = [d \in Devices |-> 0]
  /\ running = FALSE
  /\ pass = [p \in Passes |-> "new"]
  /\ submitted = [p \in Passes |-> 0] /\ passEnd = [p \in Passes |-> 0]
  /\ batch = <<>> /\ pending = <<>>
  /\ remaining = [d \in Decodes |-> 0] /\ last = [d \in Decodes |-> 0]
  /\ tbt = [d \in Decodes |-> 0]
  /\ call = [d \in Decodes |-> "new"] /\ slot = [d \in Decodes |-> "open"]
  /\ loop = "idle" /\ members = <<>> /\ stepEnd = 0

Later(a, b) == IF a > b THEN a ELSE b
Members(s) == { s[i] : i \in 1 .. Len(s) }

(* Faulty: a claim does not look at who has the device. *)
ClaimFromNow(engine, cost) == now + cost

(* claim_prefill and claim_step: after whatever already has the device.    *)
Claim(engine, cost) == Later(now, busyUntil[Device(engine)]) + cost

-----------------------------------------------------------------------------
(***************************************************************************)
(* The prefill queue.                                                      *)
(***************************************************************************)

Waiting == { p \in Passes : pass[p] = "waiting" }

Before(p, q) ==
  \/ submitted[p] < submitted[q]
  \/ submitted[p] = submitted[q] /\ p < q

Occupy(p) ==
  /\ passEnd' = [passEnd EXCEPT ![p] = Claim("prefill", Cost[p])]
  /\ busyUntil' = [busyUntil EXCEPT ![Device("prefill")] = Claim("prefill", Cost[p])]

(* prefill with nothing to compute does not queue.                         *)
PassIsEmpty(p) ==
  /\ pass[p] = "new" /\ Due[p] <= now
  /\ Cost[p] = 0
  /\ pass' = [pass EXCEPT ![p] = "done"]
  /\ UNCHANGED <<now, busyUntil, running, submitted, passEnd, slotVars, call, stepVars>>

(* run, on an idle device: taken and booked at once.                       *)
PassTakesDevice(p) ==
  /\ pass[p] = "new" /\ Due[p] <= now
  /\ Cost[p] > 0 /\ ~running
  /\ running' = TRUE
  /\ pass' = [pass EXCEPT ![p] = "claimed"]
  /\ submitted' = [submitted EXCEPT ![p] = now]
  /\ Occupy(p)
  /\ UNCHANGED <<now, slotVars, call, stepVars>>

PassQueues(p) ==
  /\ pass[p] = "new" /\ Due[p] <= now
  /\ Cost[p] > 0 /\ running
  /\ pass' = [pass EXCEPT ![p] = "waiting"]
  /\ submitted' = [submitted EXCEPT ![p] = now]
  /\ UNCHANGED <<now, busyUntil, running, passEnd, slotVars, call, stepVars>>

(* Faulty: a resumed pass gives way to whoever else is waiting. *)
PassResumesContends(p) ==
  /\ pass[p] = "granted"
  /\ IF Waiting = {}
     THEN pass' = [pass EXCEPT ![p] = "claimed"] /\ Occupy(p)
     ELSE /\ \E next \in Waiting :
               pass' = [pass EXCEPT ![p] = "waiting", ![next] = "granted"]
          /\ UNCHANGED <<busyUntil, passEnd>>
  /\ UNCHANGED <<now, running, submitted, slotVars, call, stepVars>>

(* A granted waiter is resumed, and books the device.                      *)
PassResumes(p) ==
  /\ pass[p] = "granted"
  /\ pass' = [pass EXCEPT ![p] = "claimed"]
  /\ Occupy(p)
  /\ UNCHANGED <<now, running, submitted, slotVars, call, stepVars>>

(* Faulty: the device goes free, and the one woken takes it if it can. *)
HandOffReleases(ended) ==
  /\ running' = FALSE
  /\ IF Waiting = {} THEN pass' = [pass EXCEPT ![ended] = "done"]
     ELSE \E next \in Waiting : pass' = [pass EXCEPT ![ended] = "done", ![next] = "granted"]

(* Faulty: the device goes to any waiter. *)
HandOffToAny(ended) ==
  IF Waiting = {}
  THEN running' = FALSE /\ pass' = [pass EXCEPT ![ended] = "done"]
  ELSE /\ running' = running
       /\ \E next \in Waiting :
            pass' = [pass EXCEPT ![ended] = "done", ![next] = "granted"]

(* _hand_off: the device passes to the first waiter without going free.    *)
HandOff(ended) ==
  IF Waiting = {}
  THEN running' = FALSE /\ pass' = [pass EXCEPT ![ended] = "done"]
  ELSE /\ running' = running
       /\ \E next \in Waiting :
            /\ \A q \in Waiting \ {next} : Before(next, q)
            /\ pass' = [pass EXCEPT ![ended] = "done", ![next] = "granted"]

PassEnds(p) ==
  /\ pass[p] = "claimed" /\ passEnd[p] <= now
  /\ HandOff(p)
  /\ UNCHANGED <<now, busyUntil, submitted, passEnd, slotVars, call, stepVars>>

-----------------------------------------------------------------------------
(***************************************************************************)
(* The decode engine.                                                      *)
(***************************************************************************)

(* admit, with nothing left to generate: retired on the spot.              *)
AdmitNothing(d) ==
  /\ call[d] = "new" /\ Due[d] <= now
  /\ Output[d] <= 1
  /\ slot' = [slot EXCEPT ![d] = "result"]
  /\ call' = [call EXCEPT ![d] = "returned"]
  /\ UNCHANGED <<now, busyUntil, passVars, batch, pending, remaining, last, tbt, stepVars>>

(* Faulty: the cap is off by one. *)
AdmitOneMore(d) ==
  /\ call[d] = "new" /\ Due[d] <= now
  /\ Output[d] > 1
  /\ remaining' = [remaining EXCEPT ![d] = Output[d] - 1]
  /\ last' = [last EXCEPT ![d] = now]
  /\ IF Len(batch) <= MaxBatch
     THEN batch' = Append(batch, d) /\ UNCHANGED pending
     ELSE pending' = Append(pending, d) /\ UNCHANGED batch
  /\ call' = [call EXCEPT ![d] = "reporting"]
  /\ UNCHANGED <<now, busyUntil, passVars, tbt, slot, stepVars>>

(* admit up to its report: into the batch, or behind it.                   *)
Admit(d) ==
  /\ call[d] = "new" /\ Due[d] <= now
  /\ Output[d] > 1
  /\ remaining' = [remaining EXCEPT ![d] = Output[d] - 1]
  /\ last' = [last EXCEPT ![d] = now]
  /\ IF Len(batch) < MaxBatch
     THEN batch' = Append(batch, d) /\ UNCHANGED pending
     ELSE pending' = Append(pending, d) /\ UNCHANGED batch
  /\ call' = [call EXCEPT ![d] = "reporting"]
  /\ UNCHANGED <<now, busyUntil, passVars, tbt, slot, stepVars>>

(* _ensure_stepping: a step task, unless there is one or nothing to step.  *)
EnsureStepping ==
  loop' = IF loop = "idle" /\ batch # <<>> THEN "created" ELSE loop

Admitted(d) ==
  /\ call[d] = "reporting"
  /\ EnsureStepping
  /\ call' = [call EXCEPT ![d] = "parked"]
  /\ UNCHANGED <<now, busyUntil, passVars, slotVars, members, stepEnd>>

(* The report raises: the call ends, its slot stays where it was put.      *)
AdmitRaises(d) ==
  /\ HopsMayFail
  /\ call[d] = "reporting"
  /\ call' = [call EXCEPT ![d] = "raised"]
  /\ UNCHANGED <<now, busyUntil, passVars, slotVars, stepVars>>

(* The caller's future is resolved, one way or the other.                  *)
Returns(d) ==
  /\ call[d] = "parked" /\ slot[d] # "open"
  /\ call' = [call EXCEPT ![d] = IF slot[d] = "result" THEN "returned" ELSE "raised"]
  /\ UNCHANGED <<now, busyUntil, passVars, slotVars, stepVars>>

(* The top of _run_steps: freeze the members, book the step, announce it   *)
(* on a coupled host.                                                      *)
BeginStep ==
  /\ members' = batch
  /\ stepEnd' = Claim("decode", StepCost[Len(batch)])
  /\ busyUntil' = [busyUntil EXCEPT ![Device("decode")] = stepEnd']
  /\ loop' = IF Coupled THEN "announcing" ELSE "stepping"

StepStarts ==
  /\ loop = "created"
  /\ BeginStep
  /\ UNCHANGED <<now, passVars, slotVars, call>>

Announced ==
  /\ loop = "announcing"
  /\ loop' = "stepping"
  /\ UNCHANGED <<now, busyUntil, passVars, slotVars, call, members, stepEnd>>

(* Faulty: the last gap replaces the worst. *)
LatestGap(d) == stepEnd - last[d]

(* The worst gap so far, the one this step closes included.                *)
WorstGap(d) == Later(tbt[d], stepEnd - last[d])

(* Faulty: the newest queued request is promoted first. *)
PromoteNewest(staying) ==
  LET n == IF Len(pending) < MaxBatch - Len(staying) THEN Len(pending)
           ELSE MaxBatch - Len(staying)
      keep == Len(pending) - n
  IN [batch |-> staying \o SubSeq(pending, keep + 1, Len(pending)),
      pending |-> SubSeq(pending, 1, keep)]

(* The queued requests that the slots left free admit, first come first.   *)
Promote(staying) ==
  LET n == IF Len(pending) < MaxBatch - Len(staying) THEN Len(pending)
           ELSE MaxBatch - Len(staying)
  IN [batch |-> staying \o SubSeq(pending, 1, n),
      pending |-> SubSeq(pending, n + 1, Len(pending))]

(* f walks the positions of s that hold none of gone, first to last.       *)
Walks(f, s, gone) ==
  /\ \A i, j \in DOMAIN f : i < j => f[i] < f[j]
  /\ \A i \in 1 .. Len(s) : s[i] \notin gone <=> \E j \in DOMAIN f : f[j] = i

(* The batch without the members that left, in the order it had.           *)
Staying(f) == [i \in DOMAIN f |-> batch[f[i]]]

(* _step_complete up to its report: a token each, the finished retired,    *)
(* the queued promoted into the slots that leaves.                         *)
StepEnds ==
  LET stepped == Members(members) \intersect Members(batch)
      left == [d \in Decodes |-> IF d \in stepped THEN remaining[d] - 1 ELSE remaining[d]]
      finished == { d \in stepped : left[d] = 0 }
  IN /\ loop = "stepping" /\ stepEnd <= now
     /\ remaining' = left
     /\ tbt' = [d \in Decodes |-> IF d \in stepped THEN WorstGap(d) ELSE tbt[d]]
     /\ last' = [d \in Decodes |-> IF d \in stepped THEN stepEnd ELSE last[d]]
     /\ slot' = [d \in Decodes |-> IF d \in finished THEN "result" ELSE slot[d]]
     /\ \E n \in 0 .. Len(batch) : \E f \in [1 .. n -> 1 .. Len(batch)] :
          /\ Walks(f, batch, finished)
          /\ batch' = Promote(Staying(f)).batch /\ pending' = Promote(Staying(f)).pending
     /\ loop' = "reporting"
     /\ UNCHANGED <<now, busyUntil, passVars, call, members, stepEnd>>

(* The report is back: another step, or the task ends.                     *)
StepReported ==
  /\ loop = "reporting"
  /\ IF batch = <<>>
     THEN loop' = "idle" /\ UNCHANGED <<busyUntil, members, stepEnd>>
     ELSE BeginStep
  /\ UNCHANGED <<now, passVars, slotVars, call>>

(* Faulty: the queued are dropped without a word. *)
StepDiesForgetsPending ==
  /\ HopsMayFail
  /\ loop \in {"announcing", "reporting"}
  /\ slot' = [d \in Decodes |->
                IF d \in Members(batch) /\ slot[d] = "open" THEN "exception" ELSE slot[d]]
  /\ batch' = <<>> /\ pending' = <<>>
  /\ loop' = "idle"
  /\ UNCHANGED <<now, busyUntil, passVars, remaining, last, tbt, call, members, stepEnd>>

(* A report raises in the step task: _abandon fails everything it held.    *)
StepDies ==
  /\ HopsMayFail
  /\ loop \in {"announcing", "reporting"}
  /\ slot' = [d \in Decodes |->
                IF d \in Members(batch) \union Members(pending) /\ slot[d] = "open"
                THEN "exception" ELSE slot[d]]
  /\ batch' = <<>> /\ pending' = <<>>
  /\ loop' = "idle"
  /\ UNCHANGED <<now, busyUntil, passVars, remaining, last, tbt, call, members, stepEnd>>

-----------------------------------------------------------------------------
(* What is due at this instant and runs before the clock moves.            *)
Ready ==
  \/ \E p \in Passes : \/ pass[p] = "new" /\ Due[p] <= now
                       \/ pass[p] = "granted"
                       \/ pass[p] = "claimed" /\ passEnd[p] <= now
  \/ \E d \in Decodes : \/ call[d] = "new" /\ Due[d] <= now
                        \/ call[d] = "parked" /\ slot[d] # "open"
  \/ loop = "created"
  \/ loop = "stepping" /\ stepEnd <= now

(* The timers still to come.                                               *)
Timers ==
  { Due[p] : p \in { q \in Passes : pass[q] = "new" } }
  \union { passEnd[p] : p \in { q \in Passes : pass[q] = "claimed" } }
  \union { Due[d] : d \in { e \in Decodes : call[e] = "new" } }
  \union (IF loop \in {"announcing", "stepping"} THEN {stepEnd} ELSE {})

Tick ==
  /\ ~Ready
  /\ \E w \in Timers : w > now
  /\ now' = now + 1
  /\ UNCHANGED <<busyUntil, passVars, slotVars, call, stepVars>>

Finished ==
  /\ \A p \in Passes : pass[p] = "done"
  /\ \A d \in Decodes : call[d] \in {"returned", "raised"}
  /\ loop = "idle"
  /\ UNCHANGED vars

PassStep(p) ==
  PassIsEmpty(p) \/ PassTakesDevice(p) \/ PassQueues(p) \/ PassResumes(p) \/ PassEnds(p)

CallStep(d) == AdmitNothing(d) \/ Admit(d) \/ Admitted(d) \/ AdmitRaises(d) \/ Returns(d)

LoopStep == StepStarts \/ Announced \/ StepEnds \/ StepReported \/ StepDies

Next ==
  \/ \E p \in Passes : PassStep(p)
  \/ \E d \in Decodes : CallStep(d)
  \/ LoopStep
  \/ Tick
  \/ Finished

(* The loop runs what is ready, time passes, and a hop answers.            *)
Fairness ==
  /\ \A p \in Passes : WF_vars(PassStep(p))
  /\ \A d \in Decodes : WF_vars(CallStep(d))
  /\ WF_vars(LoopStep) /\ WF_vars(Tick)

Spec == Init /\ [][Next]_vars
FairSpec == Spec /\ Fairness

-----------------------------------------------------------------------------
(***************************************************************************)
(* Properties.                                                             *)
(***************************************************************************)

Owners == { p \in Passes : pass[p] \in {"granted", "claimed"} }

(* "Ownership is handed over, never released into a race": one pass at most *)
(* has the prefill queue's device, it is marked busy exactly while one has, *)
(* and nobody waits for a device that is free; and on a coupled host the    *)
(* pass in progress and the step in progress never hold it at the same time *)
(* ("so a prefill and a decode step cannot each think they have the         *)
(* device").                                                                *)
OneOwner ==
  /\ Cardinality(Owners) <= 1
  /\ running <=> Owners # {}
  /\ Waiting # {} => running
  /\ Coupled /\ loop \in {"announcing", "stepping"} =>
       \A p \in Passes : pass[p] = "claimed" =>
         \/ passEnd[p] <= stepEnd - StepCost[Len(members)]
         \/ stepEnd <= passEnd[p] - Cost[p]

(* First come, first served, on the device and in the batch: no pass takes  *)
(* the device past one that has waited longer, and the requests let into    *)
(* the batch while others queue are the ones that have queued longest.      *)
NoOvertaking ==
  [][/\ \A p \in Passes : pass[p] # "claimed" /\ pass'[p] = "claimed" =>
          \A q \in Waiting \ {p} : submitted[q] >= submitted'[p]
     /\ pending # <<>> =>
          \E n \in 0 .. Len(pending) :
            Members(batch') \ Members(batch) = Members(SubSeq(pending, 1, n))]_vars

(* A caller waiting for its tokens has its future in the engine's hands,    *)
(* and a step task runs: no request is lost, or left in a batch that        *)
(* nothing steps, though reports may raise before the task is started, the  *)
(* task may end while a call is still reporting, and a dying task hands its *)
(* exception to all it held; and nobody queues for a slot that is free.     *)
NobodyForgotten ==
  /\ Len(batch) <= MaxBatch
  /\ pending # <<>> => Len(batch) = MaxBatch
  /\ \A d \in Decodes :
       /\ call[d] \in {"reporting", "parked"} /\ slot[d] = "open" =>
            d \in Members(batch) \union Members(pending)
       /\ call[d] = "parked" /\ slot[d] = "open" => loop # "idle"
       /\ slot[d] = "result" => remaining[d] = 0

(* The gaps a request is charged cover its whole decode, waiting for a slot *)
(* included: so many gaps of at most tbt_max reach from its admission to    *)
(* its last token.                                                          *)
GapsCoverDecode ==
  \A d \in Decodes : call[d] # "new" /\ Output[d] > 1 =>
    last[d] - Due[d] <= tbt[d] * (Output[d] - 1 - remaining[d])

(* Every prefill runs and every admitted request is answered, or told why   *)
(* not.                                                                     *)
AllAnswered ==
  <>( /\ \A p \in Passes : pass[p] = "done"
      /\ \A d \in Decodes : call[d] \in {"returned", "raised"} )
=============================================================================
