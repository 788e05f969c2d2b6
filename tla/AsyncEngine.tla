---------------------------- MODULE AsyncEngine ----------------------------
(***************************************************************************)
(* The event loop every program runs on (sim_common/async_engine.py): an   *)
(* asyncio loop on a virtual clock.  A handle is a callback given to       *)
(* call_soon or call_at; handles are numbered as they are made, which is   *)
(* also the order of _timer_seq.  A callback may do anything a callback    *)
(* can do to the loop: call_soon, call_at, cancel and stop, in any order.  *)
(***************************************************************************)
EXTENDS Naturals, FiniteSets, Sequences, SequencesExt

CONSTANTS
  MaxHandles,   \* bound on the handles made in a run
  MaxTime,      \* bound on the times they are scheduled for
  Shuffled      \* whether a random_seed was given

ASSUME LoopAssumption ==
  MaxHandles \in Nat \ {0} /\ MaxTime \in Nat /\ Shuffled \in BOOLEAN

Handles == 1 .. MaxHandles

VARIABLES
  clock,       \* _clock
  ready,       \* _ready
  scheduled,   \* _scheduled
  batch,       \* what is left of the tick's batch
  running,     \* the handle whose callback runs, or 0
  made,        \* how many handles have been made
  when,        \* _when of a timer; when a call_soon was made
  due,         \* the instant at which a handle ought to run
  soon,        \* the handles made by call_soon; the others are timers
  cancelled,   \* the handles with _cancelled set
  stopping,    \* _stopping: the driving future is done
  raised,      \* whether the loop reported a deadlock
  ran          \* the handles whose callbacks were run (history)

vars == <<clock, ready, scheduled, batch, running, made, when, due, soon,
          cancelled, stopping, raised, ran>>

(* run_until_complete makes the first handle: the first step of its task.  *)
Init ==
  /\ clock = 0 /\ ready = <<1>> /\ scheduled = {} /\ batch = <<>>
  /\ running = 0 /\ made = 1
  /\ when = [h \in Handles |-> 0] /\ due = [h \in Handles |-> 0]
  /\ soon = {1}
  /\ cancelled = {} /\ stopping = FALSE /\ raised = FALSE
  /\ ran = {}

-----------------------------------------------------------------------------
(***************************************************************************)
(* What a callback does to the loop.                                       *)
(***************************************************************************)
Make(t) ==
  /\ running # 0 /\ made < MaxHandles
  /\ made' = made + 1
  /\ when' = [when EXCEPT ![made + 1] = t]
  /\ due' = [due EXCEPT ![made + 1] = IF t > clock THEN t ELSE clock]

CallSoon ==
  /\ Make(clock)
  /\ ready' = Append(ready, made + 1)
  /\ soon' = soon \union {made + 1}
  /\ UNCHANGED <<clock, scheduled, batch, running, cancelled, stopping, raised, ran>>

(* The time may be in the past; the timer is then due at once.             *)
CallAt(t) ==
  /\ Make(t)
  /\ scheduled' = scheduled \union {made + 1}
  /\ UNCHANGED <<clock, ready, batch, running, soon, cancelled, stopping, raised, ran>>

(* A cancelled handle stays where it is.                                   *)
Cancel(h) ==
  /\ running # 0 /\ h \in 1 .. made
  /\ cancelled' = cancelled \union {h}
  /\ UNCHANGED <<clock, ready, scheduled, batch, running, made, when, due, soon,
                 stopping, raised, ran>>

Stop ==
  /\ running # 0 /\ ~stopping
  /\ stopping' = TRUE
  /\ UNCHANGED <<clock, ready, scheduled, batch, running, made, when, due, soon,
                 cancelled, raised, ran>>

Return ==
  /\ running # 0
  /\ running' = 0
  /\ UNCHANGED <<clock, ready, scheduled, batch, made, when, due, soon, cancelled,
                 stopping, raised, ran>>

-----------------------------------------------------------------------------
(***************************************************************************)
(* _run_once.                                                              *)
(***************************************************************************)

(* _SeqTimerHandle.__lt__.                                                 *)
Before(g, h) == when[g] < when[h] \/ (when[g] = when[h] /\ g < h)

(* Faulty: cancelled timers are left at the head. *)
CancelledHeadKept == {}

(* Cancelled timers at the head of the schedule: those before every timer  *)
(* that is not cancelled.                                                  *)
CancelledHead ==
  { h \in scheduled : /\ h \in cancelled
                      /\ \A g \in scheduled \ cancelled : Before(h, g) }

(* Faulty: timers compared by time alone, as asyncio's own are. *)
OrdersByTime(timers) ==
  LET all == ToSet(ready) \union timers
      ordered(s) ==
        /\ IsPrefix(ready, s)
        /\ \A i, j \in Len(ready) + 1 .. Len(s) : i < j => when[s[i]] <= when[s[j]]
  IN { s \in [1 .. Cardinality(all) -> all] : ToSet(s) = all /\ ordered(s) }

(* The orders in which a tick may run what was ready and the timers now    *)
(* due: the ready queue first, then the timers in heap order, unless a     *)
(* seed shuffles them.                                                     *)
Orders(timers) ==
  LET all == ToSet(ready) \union timers
      ordered(s) ==
        /\ IsPrefix(ready, s)
        /\ \A i, j \in Len(ready) + 1 .. Len(s) : i < j => Before(s[i], s[j])
  IN { s \in [1 .. Cardinality(all) -> all] :
         ToSet(s) = all /\ (Shuffled \/ ordered(s)) }

AtRest == running = 0 /\ batch = <<>> /\ ~raised

(* Faulty: a timer due exactly now is left for later. *)
DrainEarlier(timers, t) ==
  LET now == { h \in timers : when[h] < t }
  IN /\ clock' = t
     /\ scheduled' = timers \ now
     /\ ready' = <<>>
     /\ batch' \in Orders(now)

(* Faulty: timers within one unit of the clock are taken too, as the       *)
(* clock resolution of asyncio's own loop has it.                          *)
DrainResolution(timers, t) ==
  LET now == { h \in timers : when[h] <= t + 1 }
  IN /\ clock' = t
     /\ scheduled' = timers \ now
     /\ ready' = <<>>
     /\ batch' \in Orders(now)

(* The rest of a tick once the clock reads t: move every timer now due,    *)
(* then take everything that is ready.                                     *)
Drain(timers, t) ==
  LET now == { h \in timers : when[h] <= t }
  IN /\ clock' = t
     /\ scheduled' = timers \ now
     /\ ready' = <<>>
     /\ batch' \in Orders(now)

Tick ==
  /\ AtRest /\ ~stopping
  /\ LET timers == scheduled \ CancelledHead
     IN \/ ready # <<>> /\ Drain(timers, clock)
        \/ /\ ready = <<>>
           /\ \E h \in timers :
                /\ \A g \in timers : g = h \/ Before(h, g)
                /\ Drain(timers, IF when[h] > clock THEN when[h] ELSE clock)
  /\ UNCHANGED <<running, made, when, due, soon, cancelled, stopping, raised, ran>>

(* Nothing is ready, no timer is left, and the driving future is not done. *)
Deadlock ==
  /\ AtRest /\ ~stopping
  /\ ready = <<>> /\ scheduled \ CancelledHead = {}
  /\ scheduled' = {}
  /\ raised' = TRUE
  /\ UNCHANGED <<clock, ready, batch, running, made, when, due, soon, cancelled, stopping, ran>>

(* Faulty: a handle is run whether it was cancelled or not. *)
RunCancelledToo ==
  /\ running = 0 /\ batch # <<>>
  /\ running' = Head(batch) /\ batch' = Tail(batch)
  /\ ran' = ran \union {Head(batch)}
  /\ UNCHANGED <<clock, ready, scheduled, made, when, due, soon, cancelled, stopping, raised>>

Run ==
  /\ running = 0 /\ batch # <<>>
  /\ Head(batch) \notin cancelled
  /\ running' = Head(batch) /\ batch' = Tail(batch)
  /\ ran' = ran \union {Head(batch)}
  /\ UNCHANGED <<clock, ready, scheduled, made, when, due, soon, cancelled, stopping, raised>>

Skip ==
  /\ running = 0 /\ batch # <<>>
  /\ Head(batch) \in cancelled
  /\ batch' = Tail(batch)
  /\ UNCHANGED <<clock, ready, scheduled, running, made, when, due, soon, cancelled,
                 stopping, raised, ran>>

(* run_forever has left its loop, after the tick in which it was stopped.  *)
Ended ==
  /\ running = 0 /\ batch = <<>> /\ (stopping \/ raised)
  /\ UNCHANGED vars

Callback ==
  \/ CallSoon
  \/ \E t \in 0 .. MaxTime : CallAt(t)
  \/ \E h \in Handles : Cancel(h)
  \/ Stop
  \/ Return

Next == Callback \/ Tick \/ Deadlock \/ Run \/ Skip \/ Ended

Spec == Init /\ [][Next]_vars

(* Callbacks return, and the loop is driven until it stops.                *)
FairSpec == Spec /\ WF_vars(Return) /\ WF_vars(Tick \/ Deadlock \/ Run \/ Skip)
-----------------------------------------------------------------------------
(***************************************************************************)
(* Properties.                                                             *)
(***************************************************************************)

(* The handles that are still to run.                                      *)
Live == (ToSet(ready) \union ToSet(batch) \union scheduled) \ cancelled

(* A handle cancelled after it ran was not dropped.                        *)
Virtual == INSTANCE VirtualLoop
             WITH Callbacks <- Handles, now <- clock, pending <- Live,
                  dropped <- cancelled \ ran

(* The loop keeps the promise of VirtualLoop: every callback given to it   *)
(* runs once at most, at the instant it is due and not when the clock      *)
(* reads anything else; one cancelled before never runs, and no other is   *)
(* lost; and the clock moves only when nothing is due and only to an       *)
(* instant at which something wanted is due, cancelled timers in the heap  *)
(* notwithstanding (_run_once).                                            *)
KeepsTime == Virtual!Spec

(* Callbacks made by call_soon run in the order they were made, and so do  *)
(* timers for one instant, whatever was cancelled or scheduled in between  *)
(* (_SeqTimerHandle, "simultaneous timers fire in scheduling order"),      *)
(* unless a seed shuffles them.                                            *)
InOrder ==
  [][\A g, h \in Handles :
       /\ ~Shuffled /\ running = 0 /\ running' = h
       /\ g \in Live' /\ (g \in soon <=> h \in soon) /\ when[g] = when[h]
       => h < g]_vars

(* A deadlock is reported only when nothing is left that could run and the *)
(* driving future is not done (_run_once, "Fail loudly").                  *)
DeadlockReal == raised => Live = {} /\ ~stopping

(* Whatever is scheduled runs, unless it is cancelled or the run ends:     *)
(* nothing leaves the queues any other way (_run_once).                    *)
AllRun == \A h \in Handles : h \in Live ~> (h \in ran \union cancelled \/ stopping)
=============================================================================
