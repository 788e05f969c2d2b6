----------------------------- MODULE FairShare -----------------------------
(***************************************************************************)
(* Ideal sharing of a resource: at every instant the transfers that move   *)
(* bytes over it get equal shares of its bandwidth, all of it, and one     *)
(* ends the moment its bytes are exhausted.                                *)
(***************************************************************************)
EXTENDS Integers, FiniteSets

CONSTANTS
  Transfers,
  Key          \* Key[t]: the resource a transfer uses

VARIABLES
  now,
  phase,       \* "away", "moving" or "ended"
  left,        \* the bytes a transfer still has to move
  bandwidth    \* of each resource, once known

vars == <<now, phase, left, bandwidth>>

Moving == { t \in Transfers : phase[t] = "moving" }
Sharing(k) == Cardinality({ t \in Moving : Key[t] = k })

Init == now = 0 /\ phase = [t \in Transfers |-> "away"]

(* The bandwidth is that of the first to come.                             *)
Join(t) ==
  /\ phase[t] = "away"
  /\ phase' = [phase EXCEPT ![t] = "moving"]
  /\ UNCHANGED <<now, left, bandwidth>>

Learn ==
  /\ bandwidth' # bandwidth
  /\ \A t \in Moving : bandwidth'[Key[t]] = bandwidth[Key[t]]
  /\ UNCHANGED <<now, phase, left>>

Leave(t) ==
  /\ phase[t] = "moving" /\ left[t] = 0
  /\ phase' = [phase EXCEPT ![t] = "ended"]
  /\ UNCHANGED <<now, left, bandwidth>>

(* Time passes while every transfer that moves has bytes left; nobody is   *)
(* carried past the end of its own.                                        *)
Flow ==
  /\ now' > now
  /\ \A t \in Moving :
       /\ left[t] > 0 /\ left'[t] >= 0
       /\ Sharing(Key[t]) * (left[t] - left'[t]) = (now' - now) * bandwidth[Key[t]]
  /\ \A t \in Transfers \ Moving : left'[t] = left[t]
  /\ UNCHANGED <<phase, bandwidth>>

Next == Flow \/ Learn \/ \E t \in Transfers : Join(t) \/ Leave(t)

Spec == Init /\ [][Next]_vars
=============================================================================
