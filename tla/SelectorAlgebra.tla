-------------------------- MODULE SelectorAlgebra --------------------------
(***************************************************************************)
(* proposed/selector.py: what a control plane's ranking is built from.      *)
(*                                                                         *)
(* A Selection names sources, carries what orders them (key: the readings   *)
(* each stage took, by source), a gate that says when they are usable      *)
(* (ready) and the way to read the key (fold).  A ranking is a base that    *)
(* produces a Selection and a chain of stages that annotate, order, cut or  *)
(* judge it; FirstMatch falls from one ranking to the next.  select is      *)
(* synchronous, so one stage is one action here; only the gate is awaited.  *)
(*                                                                         *)
(* Ids and readings are small numbers; a gate is its existence; a fold and  *)
(* a bound read the key as FoldNames says.  An exception of the code ends   *)
(* the chain with outcome "refused".                                        *)
(***************************************************************************)
EXTENDS Integers, Sequences, FiniteSets

CONSTANTS
  Ids,         \* volume ids, numbers ordered as the code orders its strings
  Readings,    \* what one stage can measure of one source
  Subjects,    \* subject types a selector may be written for
  MaxStages,   \* bound: stages applied to one base
  Everything,  \* sources = None: every holder, in directory order
  Nothing      \* key = None, fold = None

FoldNames == {"first", "last", "total"}

ASSUME IdsAreNumbers == Ids \subseteq Nat /\ Readings \subseteq Nat /\ 0 \in Readings
ASSUME StagesBounded == MaxStages \in Nat
ASSUME MarkersApart  == Everything \notin Seq(Ids)

VARIABLES
  answer,    \* the Selection the chain has built so far
  subject,   \* the subject_type of the ranking that built it
  outcome,   \* "unasked", "building", "refused" (an exception), "settled" (it travelled)
  stages,    \* stages applied so far
  opened,    \* whether the gate's event has happened
  measured,  \* history: what was measured of each source, stage by stage
  gated      \* history: whether the producer of the answer gave it a gate

vars == <<answer, subject, outcome, stages, opened, measured, gated>>

Named(seq) == {seq[i] : i \in DOMAIN seq}

\* A Selection: the sources named, and by source what each stage measured of it.
IsSelection(a) ==
  /\ DOMAIN a = {"sources", "key", "ready", "fold"}
  /\ a.sources = Everything \/ a.sources \in Seq(Ids)
  /\ a.key # Nothing =>
       /\ a.sources # Everything
       /\ DOMAIN a.key = Named(a.sources)
  /\ a.ready \in BOOLEAN
-----------------------------------------------------------------------------
(* Selection: its builders and its operations *)

NamedOnce(seq) == \A i, j \in DOMAIN seq : i # j => seq[i] # seq[j]

Of(seq, ready) ==
  [sources |-> seq, key |-> Nothing, ready |-> ready, fold |-> Nothing]

Keyed(seq, dims, ready) ==
  [Of(seq, ready) EXCEPT !.key = [s \in Named(seq) |-> dims[s]]]

Priced(seq, price, ready) == Keyed(seq, [s \in Named(seq) |-> <<price[s]>>], ready)

Universe == Of(Everything, FALSE)

Abstain == Of(<<>>, FALSE)

Abstains(a) == a.sources = <<>>

\* Neither empty names a source.
NamesNobody(a) == a.sources \in {Everything, <<>>}

Annotated(a, reading) ==
  [a EXCEPT !.key = [s \in Named(a.sources) |->
     Append(IF a.key = Nothing THEN <<>> ELSE a.key[s], reading[s])]]

\* What only, take and require raise on: cutting the universe would answer with
\* nobody, and a cut may keep only what was named.
Cuttable(a, kept) == a.sources # Everything /\ kept \in Seq(Named(a.sources))

\* Mutant: a cut leaves the dropped sources in the key.
OnlyKeepsKey(a, kept) == [a EXCEPT !.sources = kept]

\* Mutant: a cut is rebuilt without the gate.
OnlyUngated(a, kept) ==
  [Of(kept, FALSE) EXCEPT
     !.key = IF a.key = Nothing THEN Nothing ELSE [s \in Named(kept) |-> a.key[s]],
     !.fold = a.fold]

Only(a, kept) ==
  [a EXCEPT !.sources = kept,
            !.key = IF a.key = Nothing THEN Nothing ELSE [s \in Named(kept) |-> a.key[s]]]

Leading(a, n) ==
  IF a.sources = Everything THEN <<>> ELSE SubSeq(a.sources, 1, IF n < Len(a.sources) THEN n ELSE Len(a.sources))

Required(a, ok) == IF Abstains(a) \/ a.sources[1] \in ok THEN a ELSE Abstain

Settled(a) == [a EXCEPT !.ready = FALSE, !.fold = Nothing]
-----------------------------------------------------------------------------
(* Ordering: _comparable, _ordered, _best, Bounded *)

Total(dims) ==
  LET upto[i \in 0 .. Len(dims)] == IF i = 0 THEN 0 ELSE upto[i - 1] + dims[i]
  IN  upto[Len(dims)]

\* The figure one fold makes of one source's dimensions.
Figure(f, dims) ==
  CASE f = "first" -> dims[1]
    [] f = "last"  -> dims[Len(dims)]
    [] f = "total" -> Total(dims)

Orderable(a) == ~NamesNobody(a) /\ a.key # Nothing

\* What orders one source; the id is compared last.
Comparable(a, s) ==
  IF a.fold = Nothing THEN Append(a.key[s], s) ELSE <<Figure(a.fold, a.key[s]), s>>

LexLess(x, y) ==
  \E i \in DOMAIN x : x[i] < y[i] /\ \A j \in 1 .. i - 1 : x[j] = y[j]

Before(a, s, t) == LexLess(Comparable(a, s), Comparable(a, t))

\* The orders a sort may leave: the only one, the id leaving no ties.
Sorts(a) ==
  {p \in [DOMAIN a.sources -> Named(a.sources)] :
     /\ Named(p) = Named(a.sources)
     /\ \A i, j \in DOMAIN p : i < j => Before(a, p[i], p[j])}

\* What _ordered may answer: nothing to order by leaves the answer as it was.
Ordered(a) ==
  IF Orderable(a) THEN {[a EXCEPT !.sources = p] : p \in Sorts(a)} ELSE {a}

\* Mutant: the one pass compares the dimensions as they stand, fold or not.
LeastUnfolded(a) ==
  IF Orderable(a)
  THEN {s \in Named(a.sources) : \A t \in Named(a.sources) \ {s} :
          LexLess(Append(a.key[s], s), Append(a.key[t], t))}
  ELSE {a.sources[1]}

\* What the one pass of _best may pick; keyed by nothing, the leader stands.
Least(a) ==
  IF Orderable(a)
  THEN {s \in Named(a.sources) : \A t \in Named(a.sources) \ {s} : Before(a, s, t)}
  ELSE {a.sources[1]}

Best(a) == IF NamesNobody(a) THEN {a} ELSE {Only(a, <<s>>) : s \in Least(a)}

\* A bound: at most limit on what one fold makes of the dimensions.
Bounds == FoldNames \X Readings

Inside(a, b, s) == Figure(b[1], a.key[s]) <= b[2]

\* The sources inside a bound, in the order they were handed over.
Kept(a, b) ==
  LET upto[i \in 0 .. Len(a.sources)] ==
        IF i = 0 THEN <<>>
        ELSE IF Inside(a, b, a.sources[i]) THEN Append(upto[i - 1], a.sources[i]) ELSE upto[i - 1]
  IN  upto[Len(a.sources)]

\* An abstention has nothing to test; an unkeyed answer has no dimension to read.
Bounded(a, b) == IF Abstains(a) THEN a ELSE Only(a, Kept(a, b))
-----------------------------------------------------------------------------
(* FirstMatch: a fold of otherwise seeded with the abstention, stopped by   *)
(* the first answer that decides; an exhausted chain answers with the seed. *)

FirstMatch(links) ==
  LET deciding == {i \in DOMAIN links : ~Abstains(links[i])}
      first    == CHOOSE i \in deciding : \A j \in deciding : i <= j
  IN  IF deciding = {} THEN Abstain ELSE links[first]

OneSubject(subjects) == Cardinality(subjects) <= 1
-----------------------------------------------------------------------------
Init ==
  /\ answer = Universe
  /\ subject \in Subjects
  /\ outcome = "unasked"
  /\ stages = 0
  /\ opened = FALSE
  /\ measured = [s \in Ids |-> <<>>]
  /\ gated = FALSE

\* The base of the chain answers with a.
Answer(a, given, taken) ==
  /\ outcome = "unasked"
  /\ outcome' = "building"
  /\ answer' = a
  /\ gated' = given
  /\ measured' = taken
  /\ UNCHANGED <<subject, stages, opened>>

\* A producer handed a repeated source raises.
RefuseBase(seq) ==
  /\ outcome = "unasked"
  /\ ~NamedOnce(seq)
  /\ outcome' = "refused"
  /\ UNCHANGED <<answer, subject, stages, opened, measured, gated>>

AnswerOf(seq, ready) ==
  /\ NamedOnce(seq)
  /\ Answer(Of(seq, ready), ready, measured)

AnswerKeyed(seq, dims, ready) ==
  /\ NamedOnce(seq)
  /\ Answer(Keyed(seq, dims, ready), ready, dims)

AnswerPriced(seq, price, ready) ==
  /\ NamedOnce(seq)
  /\ Answer(Priced(seq, price, ready), ready, [s \in Ids |-> <<price[s]>>])

\* NaiveKeySelector.select
AnswerUniverse == Answer(Universe, FALSE, measured)

AnswerAbstain == Answer(Abstain, FALSE, measured)

\* One stage above the chain: what it makes of the answer, or the exception.
Stage(ok, a) ==
  /\ outcome = "building"
  /\ stages < MaxStages
  /\ stages' = stages + 1
  /\ IF ok THEN answer' = a /\ outcome' = outcome
           ELSE outcome' = "refused" /\ UNCHANGED answer
  /\ UNCHANGED <<subject, opened>>

\* _Annotated.select: every source is measured; both empties go back untouched.
Annotate(reading) ==
  /\ Stage(TRUE, IF NamesNobody(answer) THEN answer ELSE Annotated(answer, reading))
  /\ measured' = IF NamesNobody(answer) THEN measured
                 ELSE [s \in Ids |->
                         Append(IF answer.key = Nothing THEN <<>> ELSE measured[s], reading[s])]
  /\ UNCHANGED gated

\* _load_at: what each source has lately been sent; absent is nothing.
LoadAt(load) == [s \in Ids |-> IF s \in DOMAIN load THEN load[s] ELSE 0]

Balance(load) == Annotate(LoadAt(load))

WithFold(f) ==
  /\ Stage(TRUE, [answer EXCEPT !.fold = f])
  /\ UNCHANGED <<measured, gated>>

OrderedStage ==
  /\ \E a \in Ordered(answer) : Stage(TRUE, a)
  /\ UNCHANGED <<measured, gated>>

BestStage ==
  /\ \E a \in Best(answer) : Stage(TRUE, a)
  /\ UNCHANGED <<measured, gated>>

\* Selection.only raises rather than cut the universe or keep a stranger.
BoundedStage(b) ==
  /\ Stage(Abstains(answer) \/ (Orderable(answer) /\ Cuttable(answer, Kept(answer, b))),
           Bounded(answer, b))
  /\ UNCHANGED <<measured, gated>>

Take(n) ==
  /\ Stage(Cuttable(answer, Leading(answer, n)), Only(answer, Leading(answer, n)))
  /\ UNCHANGED <<measured, gated>>

Require(ok) ==
  /\ Stage(answer.sources # Everything, Required(answer, ok))
  /\ gated' = (gated /\ (NamesNobody(answer) \/ answer.sources[1] \in ok))
  /\ UNCHANGED measured

\* FirstMatch over this ranking and one that answers other.
Fallback(other, kind, taken) ==
  /\ Stage(OneSubject({subject, kind}), FirstMatch(<<answer, other>>))
  /\ IF Abstains(answer)
     THEN /\ gated' = (other.ready /\ ~Abstains(other))
          /\ measured' = taken
     ELSE UNCHANGED <<gated, measured>>

\* The awaited peer registers.
Open ==
  /\ ~opened
  /\ opened' = TRUE
  /\ UNCHANGED <<answer, subject, outcome, stages, measured, gated>>

\* settled: the gate is awaited and spent where the answer crosses a boundary.
Settle ==
  /\ outcome = "building"
  /\ answer.ready => opened
  /\ answer' = Settled(answer)
  /\ outcome' = "settled"
  /\ UNCHANGED <<subject, stages, opened, measured, gated>>

\* Lists a producer can be handed, repeats included.
Given == UNION {[1 .. n -> Ids] : n \in 0 .. Cardinality(Ids)}

Dims == UNION {[Ids -> [1 .. n -> Readings]] : n \in 1 .. 2}

Bases ==
  \/ \E seq \in Given : RefuseBase(seq)
  \/ \E seq \in Given, ready \in BOOLEAN :
       \/ AnswerOf(seq, ready)
       \/ \E dims \in Dims : AnswerKeyed(seq, dims, ready)
       \/ \E price \in [Ids -> Readings] : AnswerPriced(seq, price, ready)
  \/ AnswerUniverse
  \/ AnswerAbstain

\* What the next ranking of a chain answers, with what it measured.
Tails ==
  LET flat == [s \in Ids |-> <<0>>]
  IN  {<<Universe, flat>>, <<Abstain, flat>>}
        \cup {<<Priced(<<s>>, [t \in Ids |-> 0], TRUE), flat>> : s \in Ids}

Stages ==
  \/ \E reading \in [Ids -> Readings] : Annotate(reading)
  \/ \E S \in SUBSET Ids : \E load \in [S -> Readings] : Balance(load)
  \/ \E f \in FoldNames \cup {Nothing} : WithFold(f)
  \/ OrderedStage
  \/ BestStage
  \/ \E b \in Bounds : BoundedStage(b)
  \/ \E n \in 0 .. Cardinality(Ids) : Take(n)
  \/ \E ok \in SUBSET Ids : Require(ok)
  \/ \E tail \in Tails, kind \in Subjects : Fallback(tail[1], kind, tail[2])

Next == Bases \/ Stages \/ Open \/ Settle

Spec == Init /\ [][Next]_vars
-----------------------------------------------------------------------------
(* Properties *)

\* Selection.key: whatever chain built an answer, its key covers exactly the
\* sources named, and at each position stands what that stage measured of that
\* source (annotated, only, take, _ordered, _best and Bounded carry it).
KeyCovers ==
  /\ IsSelection(answer)
  /\ answer.key # Nothing =>
       \A s \in Named(answer.sources) : answer.key[s] = measured[s]

\* A gate rides through every cut and order until it is spent, so no answer
\* crosses a boundary before the peer it was gated on has registered (settled).
GateRides ==
  /\ outcome = "building" => answer.ready = gated
  /\ outcome = "settled"  => ~answer.ready /\ (gated => opened)

\* _best takes one pass and still leaves the source a sort of the same answer
\* would have put in front, whatever the fold.
BestLeads ==
  Orderable(answer) =>
    /\ Ordered(answer) # {}
    /\ \A o \in Ordered(answer) : Best(answer) = {Only(answer, <<o.sources[1]>>)}

=============================================================================
