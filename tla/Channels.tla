------------------------------ MODULE Channels ------------------------------
(***************************************************************************)
(* Contention for links and volumes (sim_common/resources.py): transfers   *)
(* that use one resource take turns on it, or share it.                    *)
(*                                                                         *)
(* Timers are those of VirtualLoop, which AsyncEngine implements: one      *)
(* fires at its instant, those of one instant in any order.  Each transfer *)
(* has one timer, its handle; cancelling and replacing it is setting it to *)
(* another time.  Times and bytes are integers, in units fine enough for   *)
(* every division to be exact.                                             *)
(***************************************************************************)
EXTENDS Integers, FiniteSets, Sequences, SequencesExt

CONSTANTS
  Transfers,
  Keys,        \* resource keys
  Key,         \* Key[t]: the resource a transfer uses
  Latency,     \* Latency[t]
  Capacity,    \* Capacity[t]: its solo bandwidth
  Sizes,       \* the nbytes a transfer may have
  Instants     \* when a transfer may be charged

ASSUME ChannelsAssumption ==
  /\ IsFiniteSet(Transfers) /\ Key \in [Transfers -> Keys]
  /\ Latency \in [Transfers -> Nat] /\ Capacity \in [Transfers -> Nat \ {0}]
  /\ Sizes \subseteq Nat /\ Instants \subseteq Nat

VARIABLES
  now,
  mode,        \* "serialize" or "progressive"
  start,       \* when each transfer is charged
  nbytes,      \* the bytes it moves
  stamped,     \* ResourceRegistry._seq
  stamp,       \* its seq
  phase,       \* where it is
  remaining,   \* its remaining
  alarm,       \* when its handle fires
  queue,       \* _SerializeChannel._queue, by key
  capacity,    \* _ProgressiveChannel._capacity, by key; 0 before the first transfer
  last,        \* _ProgressiveChannel._last_update, by key
  ended        \* when it ended

channelVars == <<now, mode, start, nbytes, stamped, stamp, phase, remaining, alarm, queue,
          capacity, last, ended>>

(* A charge that costs nothing never reaches the registry (transport.py,   *)
(* _contended).                                                            *)
ChannelsInit ==
  /\ now = 0
  /\ mode \in {"serialize", "progressive"}
  /\ start \in [Transfers -> Instants]
  /\ nbytes \in [Transfers -> Sizes]
  /\ \A t \in Transfers : Latency[t] + nbytes[t] > 0
  /\ stamped = 0 /\ stamp = [t \in Transfers |-> 0]
  /\ phase = [t \in Transfers |-> "away"]
  /\ remaining = nbytes
  /\ alarm = [t \in Transfers |-> 0]
  /\ queue = [k \in Keys |-> <<>>]
  /\ capacity = [k \in Keys |-> 0] /\ last = [k \in Keys |-> 0]
  /\ ended = [t \in Transfers |-> 0]

In(k, p) == { t \in Transfers : Key[t] = k /\ phase[t] = p }

-----------------------------------------------------------------------------
(***************************************************************************)
(* _ProgressiveChannel.                                                    *)
(***************************************************************************)

(* _advance: what is left to each active transfer after the bytes moved    *)
(* since the last update.                                                  *)
Advanced(k) ==
  LET active == In(k, "active")
      moved == ((now - last[k]) * capacity[k]) \div Cardinality(active)
  IN [t \in Transfers |-> IF t \notin active THEN remaining[t]
                          ELSE IF remaining[t] < moved THEN 0 ELSE remaining[t] - moved]

(* _recompute: equal shares, and every completion at its new time.         *)
Recompute(k, active, left) ==
  alarm' = [t \in Transfers |->
              IF t \in active THEN now + (left[t] * Cardinality(active)) \div capacity[k]
              ELSE alarm[t]]

Enter(t) ==
  LET k == Key[t]
  IN /\ phase[t] = "warming" /\ alarm[t] = now
     /\ remaining' = Advanced(k) /\ last' = [last EXCEPT ![k] = now]
     /\ phase' = [phase EXCEPT ![t] = "active"]
     /\ Recompute(k, In(k, "active") \union {t}, Advanced(k))
     /\ UNCHANGED <<now, mode, start, nbytes, stamped, stamp, queue, capacity, ended>>

(* Faulty: those who stay keep their old share. *)
CompleteKeepsShares(t) ==
  /\ phase[t] = "active" /\ alarm[t] = now
  /\ remaining' = Advanced(Key[t]) /\ last' = [last EXCEPT ![Key[t]] = now]
  /\ phase' = [phase EXCEPT ![t] = "ended"] /\ ended' = [ended EXCEPT ![t] = now]
  /\ UNCHANGED <<now, mode, start, nbytes, stamped, stamp, alarm, queue, capacity>>

(* Faulty: the transfer is not taken from the active ones. *)
CompleteNotPopped(t) ==
  LET k == Key[t]
  IN /\ phase[t] = "active" /\ alarm[t] = now
     /\ remaining' = Advanced(k) /\ last' = [last EXCEPT ![k] = now]
     /\ ended' = [ended EXCEPT ![t] = now]
     /\ Recompute(k, In(k, "active"), Advanced(k))
     /\ UNCHANGED <<now, mode, start, nbytes, stamped, stamp, phase, queue, capacity>>

Complete(t) ==
  LET k == Key[t]
  IN /\ phase[t] = "active" /\ alarm[t] = now
     /\ remaining' = Advanced(k) /\ last' = [last EXCEPT ![k] = now]
     /\ phase' = [phase EXCEPT ![t] = "ended"] /\ ended' = [ended EXCEPT ![t] = now]
     /\ Recompute(k, In(k, "active") \ {t}, Advanced(k))
     /\ UNCHANGED <<now, mode, start, nbytes, stamped, stamp, queue, capacity>>

-----------------------------------------------------------------------------
(***************************************************************************)
(* _SerializeChannel.                                                      *)
(***************************************************************************)
Solo(t) == Latency[t] + remaining[t] \div Capacity[t]

(* _start_next, of a queue that may be empty.                              *)
StartNext(k, waiting, ph) ==
  /\ queue' = [queue EXCEPT ![k] = IF waiting = <<>> THEN <<>> ELSE Tail(waiting)]
  /\ IF waiting = <<>> THEN phase' = ph /\ UNCHANGED alarm
     ELSE /\ phase' = [ph EXCEPT ![Head(waiting)] = "serving"]
          /\ alarm' = [alarm EXCEPT ![Head(waiting)] = now + Solo(Head(waiting))]

Finish(t) ==
  /\ phase[t] = "serving" /\ alarm[t] = now
  /\ ended' = [ended EXCEPT ![t] = now]
  /\ StartNext(Key[t], queue[Key[t]], [phase EXCEPT ![t] = "ended"])
  /\ UNCHANGED <<now, mode, start, nbytes, stamped, stamp, remaining, capacity, last>>

-----------------------------------------------------------------------------
(***************************************************************************)
(* ResourceRegistry.transfer: stamp the transfer, make the channel if it   *)
(* is the first of its key, and register it.                               *)
(***************************************************************************)
Stamp(t) ==
  /\ phase[t] = "away" /\ start[t] = now
  /\ stamped' = stamped + 1 /\ stamp' = [stamp EXCEPT ![t] = stamped + 1]

ChargeShared(t) ==
  LET k == Key[t]
  IN /\ mode = "progressive" /\ Stamp(t)
     /\ capacity' = [capacity EXCEPT ![k] = IF @ = 0 THEN Capacity[t] ELSE @]
     /\ last' = [last EXCEPT ![k] = IF capacity[k] = 0 THEN now ELSE @]
     /\ phase' = [phase EXCEPT ![t] = "warming"]
     /\ alarm' = [alarm EXCEPT ![t] = now + Latency[t]]
     /\ UNCHANGED <<now, mode, start, nbytes, remaining, queue, ended>>

(* Faulty: started whether the resource is busy or not. *)
ChargeSerialEager(t) ==
  /\ mode = "serialize" /\ Stamp(t)
  /\ StartNext(Key[t], Append(queue[Key[t]], t), [phase EXCEPT ![t] = "queued"])
  /\ UNCHANGED <<now, mode, start, nbytes, remaining, capacity, last, ended>>

ChargeSerial(t) ==
  LET k == Key[t]
      waiting == Append(queue[k], t)
      queued == [phase EXCEPT ![t] = "queued"]
  IN /\ mode = "serialize" /\ Stamp(t)
     /\ \/ In(k, "serving") = {} /\ StartNext(k, waiting, queued)
        \/ /\ In(k, "serving") # {}
           /\ queue' = [queue EXCEPT ![k] = waiting] /\ phase' = queued
           /\ UNCHANGED alarm
     /\ UNCHANGED <<now, mode, start, nbytes, remaining, capacity, last, ended>>

-----------------------------------------------------------------------------
(* The loop: the instants at which a timer is still to fire.               *)
Alarms ==
  { start[t] : t \in { u \in Transfers : phase[u] = "away" } }
    \union { alarm[t] : t \in { u \in Transfers : phase[u] \in {"warming", "active", "serving"} } }

Elapse ==
  /\ \E n \in Alarms : now < n /\ (\A m \in Alarms : n <= m) /\ now' = n
  /\ UNCHANGED <<mode, start, nbytes, stamped, stamp, phase, remaining, alarm, queue,
                 capacity, last, ended>>

Finished == (\A t \in Transfers : phase[t] = "ended") /\ UNCHANGED channelVars

Progress ==
  \/ \E t \in Transfers : Enter(t) \/ Complete(t) \/ Finish(t) \/ ChargeShared(t) \/ ChargeSerial(t)
  \/ Elapse

ChannelsNext == Progress \/ Finished

ChannelsSpec == ChannelsInit /\ [][ChannelsNext]_channelVars

(* The loop runs until every transfer it knows of has ended.               *)
FairChannelsSpec == ChannelsSpec /\ WF_channelVars(Progress)

-----------------------------------------------------------------------------
(***************************************************************************)
(* Properties.                                                             *)
(***************************************************************************)
Moved(k) == ((now - last[k]) * capacity[k]) \div Cardinality(In(k, "active"))

(* What the ideal sharing sees: a transfer moves bytes once it is active,  *)
(* and what is left to it is what was left at the last update, less its    *)
(* share since.  In the other mode nothing is shared.                      *)
IdealPhase ==
  [t \in Transfers |->
     IF mode = "progressive" /\ phase[t] = "active" THEN "moving"
     ELSE IF mode = "progressive" /\ phase[t] = "ended" THEN "ended" ELSE "away"]
IdealLeft ==
  [t \in Transfers |->
     IF phase[t] = "active" THEN remaining[t] - Moved(Key[t]) ELSE remaining[t]]

Ideal == INSTANCE FairShare WITH phase <- IdealPhase, left <- IdealLeft, bandwidth <- capacity

(* Re-rating at entries and completions only, the channel shares its       *)
(* bandwidth ideally at every instant: equal shares, none of it unused,    *)
(* and each transfer ends the moment its last byte has moved, through any  *)
(* overlap of arrivals, warm-ups and completions (_ProgressiveChannel).    *)
SharesFairly == Ideal!Spec

(* The transfer registered before t on its resource.                       *)
Earlier(t) == { u \in Transfers : Key[u] = Key[t] /\ stamp[u] \in 1 .. stamp[t] - 1 }

(* A serialized transfer takes its solo cost from the later of its charge  *)
(* and the end of the one charged before it, in the order they were        *)
(* charged, and the resource is never idle while one waits                 *)
(* (_SerializeChannel).                                                    *)
TakesTurns ==
  \A t \in Transfers : mode = "serialize" /\ phase[t] = "ended" =>
    /\ \A u \in Earlier(t) : phase[u] = "ended"
    /\ LET free == { ended[u] : u \in Earlier(t) } \union {start[t]}
       IN ended[t] - Solo(t) \in free /\ \A e \in free : e <= ended[t] - Solo(t)

(* Every transfer that is charged ends.                                    *)
AllCharged == <>(\A t \in Transfers : phase[t] = "ended")
=============================================================================
