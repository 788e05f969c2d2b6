---------------------------- MODULE VirtualLoop ----------------------------
(***************************************************************************)
(* What an event loop on a virtual clock promises: a callback runs once,   *)
(* at the instant it is due, or is cancelled before and never runs; and    *)
(* the clock moves only when nothing is due, to the earliest instant at    *)
(* which a callback that is still wanted is due.                           *)
(***************************************************************************)
EXTENDS Naturals

CONSTANT Callbacks

VARIABLES
  now,
  due,       \* when each callback is due
  pending,   \* the callbacks still to run
  ran,       \* those that have run
  dropped    \* those cancelled before they ran

vars == <<now, due, pending, ran, dropped>>

Init ==
  /\ now = 0 /\ due = [c \in Callbacks |-> 0]
  /\ pending \subseteq Callbacks /\ ran = {} /\ dropped = {}

(* A callback may be due now, never in the past, and is given once.        *)
Schedule(c) ==
  /\ c \in Callbacks \ (pending \union ran \union dropped)
  /\ due'[c] >= now
  /\ due' = [due EXCEPT ![c] = due'[c]]
  /\ pending' = pending \union {c}
  /\ UNCHANGED <<now, ran, dropped>>

Cancel(c) ==
  /\ c \in pending
  /\ pending' = pending \ {c} /\ dropped' = dropped \union {c}
  /\ UNCHANGED <<now, due, ran>>

Fire(c) ==
  /\ c \in pending /\ due[c] = now
  /\ pending' = pending \ {c} /\ ran' = ran \union {c}
  /\ UNCHANGED <<now, due, dropped>>

Advance ==
  \E c \in pending :
    /\ due[c] > now
    /\ \A d \in pending : due[c] <= due[d]
    /\ now' = due[c]
    /\ UNCHANGED <<due, pending, ran, dropped>>

Next ==
  \/ \E c \in Callbacks : Schedule(c) \/ Cancel(c) \/ Fire(c)
  \/ Advance

Spec == Init /\ [][Next]_vars
=============================================================================
