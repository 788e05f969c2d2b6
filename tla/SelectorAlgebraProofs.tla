----------------------- MODULE SelectorAlgebraProofs -----------------------
(***************************************************************************)
(* Whatever stages a chain applies, in whatever order and number, to any    *)
(* base over any set of volumes: the key stays with the sources, the gate   *)
(* stays with the answer, and the single best source is the one a sort puts *)
(* in front.                                                               *)
(***************************************************************************)
EXTENDS SelectorAlgebra, FiniteSetTheorems, FunctionTheorems, NaturalsInduction,
        WellFoundedInduction, TLAPS

Fields == {"sources", "key", "ready", "fold"}

(* The two invariants are inductive together: what a stage does to the key   *)
(* depends on what was measured, never on the gate, and the other way round. *)
Inv == KeyCovers /\ GateRides

(* An answer that satisfies both, for the sources measured and the gate given. *)
Good(a, taken, given) ==
  /\ IsSelection(a)
  /\ a.key # Nothing => \A s \in Named(a.sources) : a.key[s] = taken[s]
  /\ a.ready = given
-----------------------------------------------------------------------------
(* What sequences name. *)
LEMMA NamedOf ==
  ASSUME NEW S, NEW seq \in Seq(S)
  PROVE  Named(seq) \subseteq S
BY DEF Named

LEMMA NamedFits ==
  ASSUME NEW seq \in Seq(Ids), NEW kept \in Seq(Named(seq))
  PROVE  kept \in Seq(Ids)
<1>1. Named(seq) \subseteq Ids BY NamedOf
<1> QED BY <1>1

LEMMA NobodyNamed == Named(<<>>) = {}
BY DEF Named

LEMMA GivenNamed ==
  ASSUME NEW seq \in Given
  PROVE  seq \in Seq(Ids)
BY DEF Given
-----------------------------------------------------------------------------
(* The operations on a Selection. *)
LEMMA OnlyFields ==
  ASSUME NEW a, DOMAIN a = Fields, NEW kept
  PROVE  /\ DOMAIN Only(a, kept) = Fields
         /\ Only(a, kept).sources = kept
         /\ Only(a, kept).ready = a.ready
         /\ Only(a, kept).key =
              IF a.key = Nothing THEN Nothing ELSE [s \in Named(kept) |-> a.key[s]]
BY DEF Only, Fields

(* A cut of a good answer is a good answer. *)
LEMMA CutGood ==
  ASSUME NEW a, NEW taken, NEW given, Good(a, taken, given), NEW kept, Cuttable(a, kept)
  PROVE  Good(Only(a, kept), taken, given)
<1>1. DOMAIN a = Fields /\ a.ready \in BOOLEAN BY DEF Good, IsSelection, Fields
<1>2. /\ a.sources \in Seq(Ids) /\ kept \in Seq(Named(a.sources))
      /\ a.sources # Everything
  BY DEF Cuttable, Good, IsSelection
<1>3. Named(kept) \subseteq Named(a.sources) /\ kept \in Seq(Ids)
  BY <1>2, NamedOf, NamedFits
<1> DEFINE w == Only(a, kept)
<1>4. /\ DOMAIN w = Fields /\ w.sources = kept /\ w.ready = a.ready
      /\ w.key = IF a.key = Nothing THEN Nothing ELSE [s \in Named(kept) |-> a.key[s]]
  BY <1>1, OnlyFields
<1> HIDE DEF w
<1>5. ASSUME w.key # Nothing
      PROVE  DOMAIN w.key = Named(kept) /\ \A s \in Named(kept) : w.key[s] = taken[s]
  <2>1. a.key # Nothing /\ w.key = [s \in Named(kept) |-> a.key[s]] BY <1>4, <1>5
  <2>2. \A s \in Named(a.sources) : a.key[s] = taken[s] BY <2>1 DEF Good
  <2> QED BY <1>3, <2>1, <2>2
<1>6. kept # Everything BY <1>3, MarkersApart
<1>7. IsSelection(w)
  BY <1>1, <1>3, <1>4, <1>5, <1>6 DEF IsSelection, Fields
<1>8. Good(w, taken, given)
  BY <1>4, <1>5, <1>7 DEF Good
<1> QED BY <1>8 DEF w

LEMMA OfGood ==
  ASSUME NEW seq, seq = Everything \/ seq \in Seq(Ids), NEW ready \in BOOLEAN, NEW taken
  PROVE  Good(Of(seq, ready), taken, ready)
BY DEF Of, Good, IsSelection

LEMMA KeyedGood ==
  ASSUME NEW seq \in Given, NEW dims, NEW ready \in BOOLEAN
  PROVE  Good(Keyed(seq, dims, ready), dims, ready)
<1> DEFINE a == Keyed(seq, dims, ready)
<1>1. /\ DOMAIN a = Fields /\ a.sources = seq /\ a.ready = ready
      /\ a.key = [s \in Named(seq) |-> dims[s]]
  BY DEF Keyed, Of, Fields
<1>2. seq \in Seq(Ids) /\ seq # Everything BY GivenNamed, MarkersApart
<1> HIDE DEF a
<1>3. Good(a, dims, ready) BY <1>1, <1>2 DEF Good, IsSelection, Fields
<1> QED BY <1>3 DEF a

(* Replacing what is neither source nor key. *)
LEMMA FoldGood ==
  ASSUME NEW a, NEW taken, NEW given, Good(a, taken, given), NEW f
  PROVE  Good([a EXCEPT !.fold = f], taken, given)
<1> DEFINE w == [a EXCEPT !.fold = f]
<1>1. DOMAIN a = Fields BY DEF Good, IsSelection, Fields
<1>2. /\ DOMAIN w = Fields /\ w.sources = a.sources /\ w.key = a.key /\ w.ready = a.ready
  BY <1>1 DEF Fields
<1> HIDE DEF w
<1>3. Good(w, taken, given) BY <1>2 DEF Good, IsSelection, Fields
<1> QED BY <1>3 DEF w

LEMMA SortGood ==
  ASSUME NEW a, NEW taken, NEW given, Good(a, taken, given), NEW o \in Ordered(a)
  PROVE  Good(o, taken, given)
<1>1. CASE o = a BY <1>1
<1>2. CASE o # a
  <2>1. PICK p \in Sorts(a) : o = [a EXCEPT !.sources = p] BY <1>2 DEF Ordered
  <2>2. Orderable(a) BY <1>2 DEF Ordered
  <2>3. a.sources \in Seq(Ids) BY <2>2 DEF Orderable, NamesNobody, Good, IsSelection
  <2>4. p \in [DOMAIN a.sources -> Named(a.sources)] /\ Named(p) = Named(a.sources)
    BY <2>1 DEF Sorts
  <2>5. p \in Seq(Named(a.sources)) BY <2>3, <2>4
  <2>6. p \in Seq(Ids) /\ p # Everything BY <2>3, <2>5, NamedFits, MarkersApart
  <2>7. DOMAIN a = Fields BY DEF Good, IsSelection, Fields
  <2>8. /\ DOMAIN o = Fields /\ o.sources = p /\ o.key = a.key /\ o.ready = a.ready
    BY <2>1, <2>7 DEF Fields
  <2> QED BY <2>4, <2>6, <2>8 DEF Good, IsSelection, Fields
<1> QED BY <1>1, <1>2

LEMMA BestGood ==
  ASSUME NEW a, NEW taken, NEW given, Good(a, taken, given), NEW o \in Best(a)
  PROVE  Good(o, taken, given)
<1>1. CASE NamesNobody(a) BY <1>1 DEF Best
<1>2. CASE ~NamesNobody(a)
  <2>1. PICK s \in Least(a) : o = Only(a, <<s>>) BY <1>2 DEF Best
  <2>2. a.sources \in Seq(Ids) /\ a.sources # <<>> /\ a.sources # Everything
    BY <1>2 DEF NamesNobody, Good, IsSelection
  <2>3. s \in Named(a.sources)
    <3>1. CASE Orderable(a) BY <3>1, <2>1 DEF Least
    <3>2. CASE ~Orderable(a)
      <4>1. s = a.sources[1] BY <3>2, <2>1 DEF Least
      <4>2. 1 \in DOMAIN a.sources BY <2>2
      <4> QED BY <4>1, <4>2 DEF Named
    <3> QED BY <3>1, <3>2
  <2>4. Cuttable(a, <<s>>) BY <2>2, <2>3 DEF Cuttable
  <2> QED BY <2>1, <2>4, CutGood
<1> QED BY <1>1, <1>2
-----------------------------------------------------------------------------
(* The steps: a base that answers, a stage above it. *)
LEMMA AnswerKeeps ==
  ASSUME Inv, NEW a, NEW given \in BOOLEAN, NEW taken, Answer(a, given, taken),
         Good(a, taken, given)
  PROVE  Inv'
<1>1. answer' = a /\ measured' = taken /\ gated' = given /\ outcome' = "building"
  BY DEF Answer
<1>2. KeyCovers' BY <1>1 DEF Good, KeyCovers
<1>3. GateRides' BY <1>1 DEF Good, GateRides
<1> QED BY <1>2, <1>3 DEF Inv

LEMMA StageKeeps ==
  ASSUME Inv, NEW ok \in BOOLEAN, NEW a, Stage(ok, a),
         ok => Good(a, measured', gated'),
         ~ok => UNCHANGED measured \/ Abstains(answer)
  PROVE  Inv'
<1>1. CASE ok
  <2>1. answer' = a /\ outcome' = "building" BY <1>1 DEF Stage
  <2>2. KeyCovers' BY <1>1, <2>1 DEF Good, KeyCovers
  <2>3. GateRides' BY <1>1, <2>1 DEF Good, GateRides
  <2> QED BY <2>2, <2>3 DEF Inv
<1>2. CASE ~ok
  <2>1. outcome' = "refused" /\ UNCHANGED answer BY <1>2 DEF Stage
  <2>2. GateRides' BY <2>1 DEF GateRides
  <2>3. Abstains(answer) => Named(answer.sources) = {} BY NobodyNamed DEF Abstains
  <2>4. IsSelection(answer)' BY <2>1 DEF Inv, KeyCovers, IsSelection
  <2>5. KeyCovers' BY <1>2, <2>1, <2>3, <2>4 DEF Inv, KeyCovers
  <2> QED BY <2>2, <2>5 DEF Inv
<1> QED BY <1>1, <1>2

LEMMA BuildingGood ==
  ASSUME Inv, outcome = "building"
  PROVE  Good(answer, measured, gated)
BY DEF Inv, KeyCovers, GateRides, Good

LEMMA BasesKeep ==
  ASSUME Inv, Bases
  PROVE  Inv'
<1>1. ASSUME NEW seq \in Given, RefuseBase(seq)
      PROVE  Inv'
  <2>1. UNCHANGED <<answer, measured, gated>> /\ outcome' = "refused" BY <1>1 DEF RefuseBase
  <2>2. KeyCovers' BY <2>1 DEF Inv, KeyCovers, IsSelection
  <2> QED BY <2>1, <2>2 DEF Inv, GateRides
<1>2. ASSUME NEW seq \in Given, NEW ready \in BOOLEAN, AnswerOf(seq, ready)
      PROVE  Inv'
  <2>1. Good(Of(seq, ready), measured, ready) BY OfGood, GivenNamed
  <2> QED BY <1>2, <2>1, AnswerKeeps DEF AnswerOf
<1>3. ASSUME NEW seq \in Given, NEW ready \in BOOLEAN, NEW dims, AnswerKeyed(seq, dims, ready)
      PROVE  Inv'
  BY <1>3, KeyedGood, AnswerKeeps DEF AnswerKeyed
<1>4. ASSUME NEW seq \in Given, NEW ready \in BOOLEAN, NEW price,
             AnswerPriced(seq, price, ready)
      PROVE  Inv'
  <2> DEFINE one == [s \in Named(seq) |-> <<price[s]>>]
             all == [s \in Ids |-> <<price[s]>>]
  <2>1. Good(Keyed(seq, one, ready), one, ready) BY KeyedGood
  <2>2. Named(seq) \subseteq Ids BY GivenNamed, NamedOf
  <2>3. \A s \in Named(seq) : one[s] = all[s] BY <2>2
  <2>4. Keyed(seq, one, ready).sources = seq BY DEF Keyed, Of
  <2>5. Good(Keyed(seq, one, ready), all, ready)
    <3> HIDE DEF one, all
    <3> QED BY <2>1, <2>3, <2>4 DEF Good
  <2> QED BY <1>4, <2>5, AnswerKeeps DEF AnswerPriced, Priced
<1>5. CASE AnswerUniverse
  <2>1. Good(Universe, measured, FALSE) BY OfGood DEF Universe
  <2> QED BY <1>5, <2>1, AnswerKeeps DEF AnswerUniverse
<1>6. CASE AnswerAbstain
  <2>1. <<>> \in Seq(Ids) OBVIOUS
  <2>2. Good(Of(<<>>, FALSE), measured, FALSE) BY <2>1, OfGood
  <2> QED BY <1>6, <2>2, AnswerKeeps DEF AnswerAbstain, Abstain
<1> QED BY <1>1, <1>2, <1>3, <1>4, <1>5, <1>6 DEF Bases

LEMMA AnnotateKeeps ==
  ASSUME Inv, NEW reading, Annotate(reading)
  PROVE  Inv'
<1> DEFINE a == IF NamesNobody(answer) THEN answer ELSE Annotated(answer, reading)
<1>1. Stage(TRUE, a) /\ gated' = gated BY DEF Annotate
<1>2. Good(answer, measured, gated) BY <1>1, BuildingGood DEF Stage
<1>3. CASE NamesNobody(answer)
  <2>1. a = answer /\ measured' = measured BY <1>3 DEF Annotate
  <2> HIDE DEF a
  <2>2. Good(a, measured', gated') BY <1>1, <1>2, <2>1
  <2> QED BY <1>1, <2>2, StageKeeps
<1>4. CASE ~NamesNobody(answer)
  <2> DEFINE old(f, s) == IF answer.key = Nothing THEN <<>> ELSE f[s]
  <2>1. DOMAIN answer = Fields BY <1>2 DEF Good, IsSelection, Fields
  <2>2. /\ DOMAIN a = Fields /\ a.sources = answer.sources /\ a.ready = answer.ready
        /\ a.key = [s \in Named(answer.sources) |-> Append(old(answer.key, s), reading[s])]
    BY <1>4, <2>1 DEF Annotated, Fields
  <2>3. measured' = [s \in Ids |-> Append(old(measured, s), reading[s])]
    BY <1>4 DEF Annotate
  <2>4. answer.sources # Everything /\ answer.sources \in Seq(Ids)
    BY <1>2, <1>4 DEF Good, NamesNobody, IsSelection
  <2>5. Named(answer.sources) \subseteq Ids BY <2>4, NamedOf
  <2>6. \A s \in Named(answer.sources) : old(answer.key, s) = old(measured, s)
    BY <1>2 DEF Good
  <2> HIDE DEF a, old
  <2>7. DOMAIN a.key = Named(a.sources) /\ \A s \in Named(a.sources) : a.key[s] = measured'[s]
    BY <2>2, <2>3, <2>5, <2>6
  <2>8. IsSelection(a) BY <1>2, <2>2, <2>4, <2>7 DEF Good, IsSelection, Fields
  <2>9. Good(a, measured', gated')
    BY <1>1, <1>2, <2>2, <2>7, <2>8 DEF Good
  <2> QED BY <1>1, <2>9, StageKeeps
<1> QED BY <1>3, <1>4

LEMMA WithFoldKeeps ==
  ASSUME Inv, NEW f, WithFold(f)
  PROVE  Inv'
<1>1. Stage(TRUE, [answer EXCEPT !.fold = f]) /\ UNCHANGED <<measured, gated>> BY DEF WithFold
<1>2. Good(answer, measured, gated) BY <1>1, BuildingGood DEF Stage
<1>3. Good([answer EXCEPT !.fold = f], measured', gated') BY <1>1, <1>2, FoldGood
<1> QED BY <1>1, <1>3, StageKeeps

LEMMA OrderKeeps ==
  ASSUME Inv, OrderedStage \/ BestStage
  PROVE  Inv'
<1>1. PICK a \in Ordered(answer) \cup Best(answer) : Stage(TRUE, a)
  BY DEF OrderedStage, BestStage
<1>2. UNCHANGED <<measured, gated>> BY DEF OrderedStage, BestStage
<1>3. Good(answer, measured, gated) BY <1>1, BuildingGood DEF Stage
<1>4. Good(a, measured', gated') BY <1>1, <1>2, <1>3, SortGood, BestGood
<1> QED BY <1>1, <1>4, StageKeeps

LEMMA CutKeeps ==
  ASSUME Inv, UNCHANGED <<measured, gated>>, NEW ok \in BOOLEAN, NEW kept,
         NEW a, Stage(ok, a),
         ok => a = answer \/ (Cuttable(answer, kept) /\ a = Only(answer, kept))
  PROVE  Inv'
<1>1. Good(answer, measured, gated) BY BuildingGood DEF Stage
<1>2. ok => Good(a, measured', gated') BY <1>1, CutGood
<1> QED BY <1>2, StageKeeps

LEMMA RequireKeeps ==
  ASSUME Inv, NEW ok, Require(ok)
  PROVE  Inv'
<1> DEFINE named == answer.sources # Everything
           a == Required(answer, ok)
<1>1. Stage(named, a) /\ measured' = measured BY DEF Require
<1>2. gated' = (gated /\ (NamesNobody(answer) \/ answer.sources[1] \in ok)) BY DEF Require
<1>3. Good(answer, measured, gated) BY <1>1, BuildingGood DEF Stage
<1>4. ASSUME named PROVE Good(a, measured', gated')
  <2>1. gated \in BOOLEAN BY <1>3 DEF Good, IsSelection
  <2>2. CASE Abstains(answer) \/ answer.sources[1] \in ok
    <3>1. a = answer BY <2>2 DEF Required
    <3>2. gated' = gated BY <1>2, <2>1, <2>2 DEF Abstains, NamesNobody
    <3> QED BY <1>1, <1>3, <3>1, <3>2
  <2>3. CASE ~(Abstains(answer) \/ answer.sources[1] \in ok)
    <3>1. a = Of(<<>>, FALSE) BY <2>3 DEF Required, Abstain
    <3>2. gated' = FALSE BY <1>2, <1>4, <2>3 DEF Abstains, NamesNobody
    <3>3. <<>> \in Seq(Ids) OBVIOUS
    <3>4. Good(Of(<<>>, FALSE), measured', FALSE) BY <3>3, OfGood
    <3> QED BY <3>1, <3>2, <3>4
  <2> QED BY <2>2, <2>3
<1>5. named \in BOOLEAN OBVIOUS
<1> HIDE DEF named, a
<1> QED BY <1>1, <1>4, <1>5, StageKeeps

(* What a chain of two answers. *)
LEMMA FirstOfTwo ==
  ASSUME NEW a, NEW b
  PROVE  FirstMatch(<<a, b>>) = IF ~Abstains(a) THEN a ELSE IF ~Abstains(b) THEN b ELSE Abstain
<1> DEFINE links == <<a, b>>
           deciding == {i \in DOMAIN links : ~Abstains(links[i])}
           first == CHOOSE i \in deciding : \A j \in deciding : i <= j
<1>1. DOMAIN links = {1, 2} /\ links[1] = a /\ links[2] = b OBVIOUS
<1>2. FirstMatch(links) = IF deciding = {} THEN Abstain ELSE links[first] BY DEF FirstMatch
<1>3. CASE ~Abstains(a)
  <2>1. 1 \in deciding /\ \A j \in deciding : 1 <= j BY <1>1, <1>3
  <2>2. \A i \in deciding : (\A j \in deciding : i <= j) => i = 1 BY <1>1, <2>1
  <2>3. first = 1 BY <2>1, <2>2
  <2> QED BY <1>1, <1>2, <1>3, <2>1, <2>3
<1>4. CASE Abstains(a) /\ ~Abstains(b)
  <2>1. deciding = {2} BY <1>1, <1>4
  <2>2. first = 2 BY <2>1
  <2> QED BY <1>1, <1>2, <1>4, <2>1, <2>2
<1>5. CASE Abstains(a) /\ Abstains(b)
  <2>1. deciding = {} BY <1>1, <1>5
  <2> QED BY <1>2, <1>5, <2>1
<1> QED BY <1>3, <1>4, <1>5

(* The answers a next link may give are good for what it measured. *)
LEMMA TailsGood ==
  ASSUME NEW tail \in Tails
  PROVE  Good(tail[1], tail[2], tail[1].ready)
<1> DEFINE flat == [s \in Ids |-> <<0>>]
           zero == [t \in Ids |-> 0]
<1>1. CASE tail = <<Universe, flat>>
  <2>1. Good(Of(Everything, FALSE), flat, FALSE) BY OfGood
  <2> QED BY <1>1, <2>1 DEF Universe, Good
<1>2. CASE tail = <<Abstain, flat>>
  <2>1. <<>> \in Seq(Ids) OBVIOUS
  <2>2. Good(Of(<<>>, FALSE), flat, FALSE) BY <2>1, OfGood
  <2> QED BY <1>2, <2>2 DEF Abstain, Good
<1>3. ASSUME NEW s \in Ids, tail = <<Priced(<<s>>, zero, TRUE), flat>>
      PROVE  Good(tail[1], tail[2], tail[1].ready)
  <2> DEFINE one == [t \in Named(<<s>>) |-> <<zero[t]>>]
             a == Of(<<s>>, TRUE)
             k == Keyed(<<s>>, one, TRUE)
  <2>1. Named(<<s>>) = {s} BY DEF Named
  <2>2. /\ DOMAIN k = Fields /\ k.sources = <<s>> /\ k.ready = TRUE
        /\ k.key = [t \in Named(<<s>>) |-> one[t]]
    BY DEF Keyed, Of, Fields
  <2>a. <<s>> \in Seq(Ids) OBVIOUS
  <2>3. <<s>> \in Seq(Ids) /\ <<s>> # Everything BY <2>a, MarkersApart
  <2>4. \A t \in Named(<<s>>) : one[t] = flat[t] BY <2>1
  <2>5. tail[1] = k /\ tail[2] = flat BY <1>3 DEF Priced
  <2> HIDE DEF k, one, flat
  <2> QED BY <2>2, <2>3, <2>4, <2>5 DEF Good, IsSelection, Fields
<1> QED BY <1>1, <1>2, <1>3 DEF Tails

LEMMA FallbackKeeps ==
  ASSUME Inv, NEW tail \in Tails, NEW kind, Fallback(tail[1], kind, tail[2])
  PROVE  Inv'
<1> DEFINE other == tail[1]
           ok == OneSubject({subject, kind})
           a == FirstMatch(<<answer, other>>)
<1>1. Stage(ok, a) BY DEF Fallback
<1>2. Good(answer, measured, gated) BY <1>1, BuildingGood DEF Stage
<1>3. a = IF ~Abstains(answer) THEN answer ELSE IF ~Abstains(other) THEN other ELSE Abstain
  BY FirstOfTwo
<1>4. CASE ~Abstains(answer)
  <2>1. UNCHANGED <<gated, measured>> BY <1>4 DEF Fallback
  <2>2. a = answer BY <1>3, <1>4
  <2>3. ok \in BOOLEAN BY DEF OneSubject
  <2> HIDE DEF a, ok
  <2>4. Good(a, measured', gated') BY <1>2, <2>1, <2>2
  <2> QED BY <1>1, <2>1, <2>3, <2>4, StageKeeps
<1>5. CASE Abstains(answer)
  <2>1. gated' = (other.ready /\ ~Abstains(other)) /\ measured' = tail[2] BY <1>5 DEF Fallback
  <2>2. Good(other, tail[2], other.ready) BY TailsGood
  <2>3. ok \in BOOLEAN BY DEF OneSubject
  <2>4. CASE ~Abstains(other)
    <3>1. a = other BY <1>3, <1>5, <2>4
    <3>2. other.ready \in BOOLEAN BY <2>2 DEF Good, IsSelection
    <3>3. gated' = other.ready BY <2>1, <2>4, <3>2
    <3> HIDE DEF a, ok, other
    <3>4. Good(a, measured', gated') BY <2>1, <2>2, <3>1, <3>3
    <3> QED BY <1>1, <1>5, <2>3, <3>4, StageKeeps
  <2>5. CASE Abstains(other)
    <3>1. a = Of(<<>>, FALSE) BY <1>3, <1>5, <2>5 DEF Abstain
    <3>2. gated' = FALSE BY <2>1, <2>5
    <3>3. <<>> \in Seq(Ids) OBVIOUS
    <3>4. Good(Of(<<>>, FALSE), measured', FALSE) BY <3>3, OfGood
    <3> HIDE DEF a, ok, other
    <3>5. Good(a, measured', gated') BY <3>1, <3>2, <3>4
    <3> QED BY <1>1, <1>5, <2>3, <3>5, StageKeeps
  <2> QED BY <2>4, <2>5
<1> QED BY <1>4, <1>5

LEMMA StagesKeep ==
  ASSUME Inv, Stages
  PROVE  Inv'
<1>1. ASSUME NEW reading, Annotate(reading) PROVE Inv' BY <1>1, AnnotateKeeps
<1>2. ASSUME NEW load, Balance(load) PROVE Inv' BY <1>2, AnnotateKeeps DEF Balance
<1>3. ASSUME NEW f, WithFold(f) PROVE Inv' BY <1>3, WithFoldKeeps
<1>4. CASE OrderedStage \/ BestStage BY <1>4, OrderKeeps
<1>5. ASSUME NEW b, BoundedStage(b) PROVE Inv'
  <2> DEFINE kept == Kept(answer, b)
             ok == Abstains(answer) \/ (Orderable(answer) /\ Cuttable(answer, kept))
  <2>1. /\ UNCHANGED <<measured, gated>> /\ Stage(ok, Bounded(answer, b))
        /\ ok \in BOOLEAN
    BY <1>5 DEF BoundedStage, Abstains, Orderable, NamesNobody
  <2>2. ok => \/ Bounded(answer, b) = answer
              \/ Cuttable(answer, kept) /\ Bounded(answer, b) = Only(answer, kept)
    BY DEF Bounded
  <2> HIDE DEF ok, kept
  <2> QED BY <2>1, <2>2, CutKeeps
<1>6. ASSUME NEW n, Take(n) PROVE Inv'
  <2> DEFINE kept == Leading(answer, n)
             ok == Cuttable(answer, kept)
  <2>1. /\ UNCHANGED <<measured, gated>> /\ Stage(ok, Only(answer, kept))
        /\ ok \in BOOLEAN
    BY <1>6 DEF Take, Cuttable
  <2>2. ok => Cuttable(answer, kept) OBVIOUS
  <2> HIDE DEF ok, kept
  <2> QED BY <2>1, <2>2, CutKeeps
<1>7. ASSUME NEW ok, Require(ok) PROVE Inv' BY <1>7, RequireKeeps
<1>8. ASSUME NEW tail \in Tails, NEW kind, Fallback(tail[1], kind, tail[2]) PROVE Inv'
  BY <1>8, FallbackKeeps
<1> QED BY <1>1, <1>2, <1>3, <1>4, <1>5, <1>6, <1>7, <1>8 DEF Stages

LEMMA InitInv == Init => Inv
<1> SUFFICES ASSUME Init PROVE Inv OBVIOUS
<1>1. Good(Of(Everything, FALSE), measured, FALSE) BY OfGood
<1>2. answer = Of(Everything, FALSE) BY DEF Init, Universe
<1>3. KeyCovers BY <1>1, <1>2 DEF KeyCovers, Good
<1>4. GateRides BY DEF Init, GateRides
<1> QED BY <1>3, <1>4 DEF Inv

LEMMA NextInv == Inv /\ [Next]_vars => Inv'
<1> SUFFICES ASSUME Inv, [Next]_vars PROVE Inv' OBVIOUS
<1>1. CASE Bases BY <1>1, BasesKeep
<1>2. CASE Stages BY <1>2, StagesKeep
<1>3. CASE Open
  <2>1. UNCHANGED <<answer, measured, gated, outcome>> /\ opened' BY <1>3 DEF Open
  <2>2. KeyCovers' BY <2>1 DEF Inv, KeyCovers, IsSelection
  <2> QED BY <2>1, <2>2 DEF Inv, GateRides
<1>4. CASE Settle
  <2> DEFINE w == Settled(answer)
  <2>1. /\ answer' = w /\ UNCHANGED <<measured, gated, opened>> /\ outcome' = "settled"
        /\ outcome = "building" /\ (answer.ready => opened)
    BY <1>4 DEF Settle
  <2>2. Good(answer, measured, gated) BY <2>1, BuildingGood
  <2>3. DOMAIN answer = Fields BY <2>2 DEF Good, IsSelection, Fields
  <2>4. /\ DOMAIN w = Fields /\ w.sources = answer.sources /\ w.key = answer.key
        /\ w.ready = FALSE
    BY <2>3 DEF Settled, Fields
  <2> HIDE DEF w
  <2>5. KeyCovers'
    BY <2>1, <2>2, <2>4 DEF Good, IsSelection, KeyCovers, Fields
  <2>6. GateRides' BY <2>1, <2>2, <2>4 DEF Good, GateRides
  <2> QED BY <2>5, <2>6 DEF Inv
<1>5. CASE UNCHANGED vars
  BY <1>5 DEF vars, Inv, KeyCovers, GateRides, IsSelection
<1> QED BY <1>1, <1>2, <1>3, <1>4, <1>5 DEF Next

(* For every set of volumes and readings and any number of stages, the key   *)
(* covers exactly the sources named and holds what was measured of each      *)
(* (annotated, only, take, require, _ordered, _best, Bounded, FirstMatch).    *)
THEOREM KeyCoversAlways == Spec => []KeyCovers
<1>1. Inv => KeyCovers BY DEF Inv
<1> QED BY <1>1, InitInv, NextInv, PTL DEF Spec

(* The gate a producer gave rides to the boundary and is spent there, so no   *)
(* answer travels before its peer has registered (settled).                   *)
THEOREM GateRidesAlways == Spec => []GateRides
<1>1. Inv => GateRides BY DEF Inv
<1> QED BY <1>1, InitInv, NextInv, PTL DEF Spec
-----------------------------------------------------------------------------
(* Comparing numbers position by position is asymmetric. *)
LEMMA LexAsymmetric ==
  ASSUME NEW x \in Seq(Int), NEW y \in Seq(Int), Len(x) = Len(y), LexLess(x, y), LexLess(y, x)
  PROVE  FALSE
<1>0. DOMAIN x = 1 .. Len(x) /\ DOMAIN y = 1 .. Len(y) OBVIOUS
<1>1. PICK i \in DOMAIN x : x[i] < y[i] /\ \A k \in 1 .. i - 1 : x[k] = y[k]
  BY DEF LexLess
<1>2. PICK j \in DOMAIN y : y[j] < x[j] /\ \A k \in 1 .. j - 1 : y[k] = x[k]
  BY Zenon DEF LexLess
<1>3. i \in 1 .. Len(x) /\ j \in 1 .. Len(x) /\ x[i] \in Int /\ y[i] \in Int
      /\ x[j] \in Int /\ y[j] \in Int
  BY <1>0
<1>4. CASE i < j
  <2>1. i \in 1 .. j - 1 BY <1>3, <1>4
  <2> QED BY <1>1, <1>2, <1>3, <2>1
<1>5. CASE j < i
  <2>1. j \in 1 .. i - 1 BY <1>3, <1>5
  <2> QED BY SMTT(30), <1>1, <1>2, <1>3, <2>1
<1>6. CASE i = j BY <1>1, <1>2, <1>3, <1>6
<1> QED BY <1>3, <1>4, <1>5, <1>6

(* _best's one pass picks exactly the source a sort of the same answer leaves *)
(* in front, for any fold whose figures are numbers (_comparable).            *)
THEOREM BestIsHeadOfSort ==
  ASSUME NEW a, Orderable(a), a.sources \in Seq(Ids), DOMAIN a = Fields,
         \A s, t \in Named(a.sources) : /\ Comparable(a, s) \in Seq(Int)
                                        /\ Len(Comparable(a, s)) = Len(Comparable(a, t)),
         NEW o \in Ordered(a)
  PROVE  Best(a) = {Only(a, <<o.sources[1]>>)}
<1>1. PICK p \in Sorts(a) : o = [a EXCEPT !.sources = p] BY DEF Ordered
<1>2. o.sources = p BY <1>1 DEF Fields
<1>3. /\ p \in [DOMAIN a.sources -> Named(a.sources)] /\ Named(p) = Named(a.sources)
      /\ \A i, j \in DOMAIN p : i < j => Before(a, p[i], p[j])
  BY DEF Sorts
<1>4. a.sources # <<>> /\ a.sources # Everything BY DEF Orderable, NamesNobody
<1>5. 1 \in DOMAIN p /\ DOMAIN p = 1 .. Len(a.sources) BY <1>3, <1>4
<1>6. \A t \in Named(a.sources) \ {p[1]} : Before(a, p[1], t)
  <2> SUFFICES ASSUME NEW t \in Named(a.sources), t # p[1] PROVE Before(a, p[1], t)
    OBVIOUS
  <2>1. PICK j \in DOMAIN p : t = p[j] BY <1>3 DEF Named
  <2>2. 1 < j BY <1>5, <2>1
  <2> QED BY <1>3, <1>5, <2>1, <2>2
<1>7. p[1] \in Named(a.sources) BY <1>3, <1>5
<1>8. p[1] \in Least(a) BY <1>6, <1>7 DEF Least
<1>9. ASSUME NEW s \in Least(a) PROVE s = p[1]
  <2> SUFFICES ASSUME s # p[1] PROVE FALSE OBVIOUS
  <2>1. s \in Named(a.sources) /\ Before(a, s, p[1]) BY <1>7, <1>9 DEF Least
  <2>2. Before(a, p[1], s) BY <1>6, <2>1
  <2> QED BY <1>7, <2>1, <2>2, LexAsymmetric DEF Before
<1>10. Least(a) = {p[1]} BY <1>8, <1>9
<1>11. Best(a) = {Only(a, <<s>>) : s \in Least(a)} BY <1>4 DEF Best, NamesNobody
<1> QED BY <1>2, <1>10, <1>11
-----------------------------------------------------------------------------
(* Orders and running folds. *)

(* A set of numbers has a least one. *)
LEMMA LeastNumber ==
  ASSUME NEW S \in SUBSET Nat, S # {}
  PROVE  \E n \in S : \A m \in S : n <= m
<1> DEFINE R == { ss \in Nat \X Nat : ss[1] < ss[2] }
<1>1. IsWellFoundedOn(R, Nat)
  BY NatLessThanWellFounded, Zenon DEF OpToRel
<1>2. PICK n \in S : \A m \in S : ~ (<<m, n>> \in R)
  <2> HIDE DEF R
  <2> QED BY WFMin, <1>1
<1>3. ASSUME NEW m \in S PROVE n <= m
  <2>1. n \in Nat /\ m \in Nat OBVIOUS
  <2>2. m < n => <<m, n>> \in R BY <2>1
  <2> QED BY <1>2, <2>1, <2>2
<1> QED BY <1>3

(* A finite set under a strict total order can be listed in that order: each *)
(* element stands after as many as are below it. *)
LEMMA OrderLists ==
  ASSUME NEW S, IsFiniteSet(S), NEW R,
         \A s \in S : <<s, s>> \notin R,
         \A s, t, u \in S : <<s, t>> \in R /\ <<t, u>> \in R => <<s, u>> \in R,
         \A s, t \in S : s = t \/ <<s, t>> \in R \/ <<t, s>> \in R
  PROVE  \E p \in [1 .. Cardinality(S) -> S] :
            /\ Named(p) = S
            /\ \A i, j \in 1 .. Cardinality(S) : i < j => <<p[i], p[j]>> \in R
<1> DEFINE n == Cardinality(S)
           below(s) == {t \in S : <<t, s>> \in R}
           r == [s \in S |-> Cardinality(below(s)) + 1]
<1>1. n \in Nat /\ IsFiniteSet(1 .. n) /\ Cardinality(1 .. n) = n
  <2>1. n \in Nat BY FS_CardinalityType
  <2> QED BY <2>1, FS_Interval
<1>2. ASSUME NEW s \in S PROVE IsFiniteSet(below(s)) /\ Cardinality(below(s)) \in 0 .. n - 1
  <2>1. below(s) \in SUBSET (S \ {s}) OBVIOUS
  <2>2. IsFiniteSet(S \ {s}) /\ Cardinality(S \ {s}) = n - 1 BY FS_RemoveElement
  <2> HIDE DEF below, n
  <2>3. IsFiniteSet(below(s)) /\ Cardinality(below(s)) <= n - 1 BY <2>1, <2>2, FS_Subset
  <2>4. Cardinality(below(s)) \in Nat BY <2>3, FS_CardinalityType
  <2> QED BY <1>1, <2>3, <2>4
<1>3. r \in [S -> 1 .. n]
  <2> SUFFICES ASSUME NEW s \in S PROVE Cardinality(below(s)) + 1 \in 1 .. n OBVIOUS
  <2> HIDE DEF below, n
  <2> QED BY <1>1, <1>2
<1>4. ASSUME NEW s \in S, NEW t \in S, <<s, t>> \in R PROVE r[s] < r[t]
  <2>1. below(s) \in SUBSET (below(t) \ {s}) BY <1>4
  <2>2. s \in below(t) BY <1>4
  <2>3. IsFiniteSet(below(t) \ {s}) /\ Cardinality(below(t) \ {s}) = Cardinality(below(t)) - 1
    BY <1>2, <2>2, FS_RemoveElement
  <2>6. r[s] = Cardinality(below(s)) + 1 /\ r[t] = Cardinality(below(t)) + 1 OBVIOUS
  <2> HIDE DEF r, below, n
  <2>4. Cardinality(below(s)) <= Cardinality(below(t)) - 1 BY <2>1, <2>3, FS_Subset
  <2>5. Cardinality(below(s)) \in Nat /\ Cardinality(below(t)) \in Nat BY <1>1, <1>2
  <2> QED BY <2>4, <2>5, <2>6
<1> HIDE DEF r, below
<1>5. \A s \in S : r[s] \in Nat /\ r[s] \in 1 .. n BY <1>1, <1>3
<1>6. \A s, t \in S : r[s] = r[t] => s = t
  <2> SUFFICES ASSUME NEW s \in S, NEW t \in S, r[s] = r[t], s # t PROVE FALSE OBVIOUS
  <2>1. ~(r[s] < r[t]) /\ ~(r[t] < r[s]) BY <1>5
  <2> QED BY <1>4, <2>1
<1>7. r \in Injection(S, 1 .. n) BY <1>3, <1>6, Zenon DEF Injection, IsInjective
<1>8. r \in Surjection(S, 1 .. n)
  <2>1. IsFiniteSet(1 .. n) /\ Cardinality(S) = Cardinality(1 .. n) BY <1>1
  <2> HIDE DEF n
  <2> QED BY <1>7, <2>1, FS_Injection
<1>9. \A i \in 1 .. n : \E s \in S : r[s] = i BY <1>8 DEF Surjection
<1> DEFINE p == [i \in 1 .. n |-> CHOOSE s \in S : r[s] = i]
<1>10. \A i \in 1 .. n : p[i] \in S /\ r[p[i]] = i BY <1>9
<1>11. DOMAIN p = 1 .. n /\ p \in [1 .. n -> S] BY <1>10
<1> HIDE DEF p
<1>12. ASSUME NEW s \in S PROVE \E i \in 1 .. n : p[i] = s
  <2>1. r[s] \in 1 .. n /\ p[r[s]] \in S /\ r[p[r[s]]] = r[s] BY <1>5, <1>10
  <2>2. p[r[s]] = s BY <1>6, <2>1
  <2> QED BY <2>1, <2>2
<1>13. Named(p) = S BY <1>10, <1>11, <1>12 DEF Named
<1>14. ASSUME NEW i \in 1 .. n, NEW j \in 1 .. n, i < j PROVE <<p[i], p[j]>> \in R
  <2>1. /\ p[i] \in S /\ r[p[i]] = i
        /\ p[j] \in S /\ r[p[j]] = j
    BY <1>10
  <2>2. p[i] # p[j] BY <1>14, <2>1
  <2>3. <<p[j], p[i]>> \in R => j < i BY <1>4, <2>1
  <2>4. ~(j < i) BY <1>1, <1>14
  <2> QED BY <2>1, <2>2, <2>3, <2>4
<1> QED BY <1>11, <1>13, <1>14

(* What holds at the start of a run and goes on from each step to the next   *)
(* holds all along it. *)
LEMMA RunKeeps ==
  ASSUME NEW N \in Nat, NEW g, NEW T, g[0] \in T[0],
         \A k \in 1 .. N : g[k - 1] \in T[k - 1] => g[k] \in T[k]
  PROVE  \A k \in 0 .. N : g[k] \in T[k]
<1> DEFINE Bad == { k \in 0 .. N : g[k] \notin T[k] }
<1>1. SUFFICES ASSUME Bad # {} PROVE FALSE OBVIOUS
<1>2. PICK m \in Bad : \A k \in Bad : m <= k
  <2>1. Bad \in SUBSET Nat OBVIOUS
  <2> HIDE DEF Bad
  <2> QED BY <1>1, <2>1, LeastNumber
<1>3. m \in 1 .. N /\ m - 1 \in 0 .. N /\ m - 1 < m OBVIOUS
<1>4. g[m - 1] \in T[m - 1] BY <1>2, <1>3
<1> QED BY <1>2, <1>3, <1>4

(* A run of N steps from a base. *)
Runs(g, N, base, step) ==
  g[0] = base /\ \A k \in 1 .. N : g[k] = step[<<k, g[k - 1]>>]

(* A step taken from one number to the next can be run up to any number. *)
LEMMA RunExists ==
  ASSUME NEW N \in Nat, NEW T, NEW base \in T, NEW step \in [(1 .. N) \X T -> T]
  PROVE  \E g \in [0 .. N -> T] : Runs(g, N, base, step)
<1> DEFINE Next1(g, k) == IF k = 0 THEN base ELSE step[<<k, g[k - 1]>>]
           P(n) == \E g : g = [k \in 0 .. n |-> Next1(g, k)]
           Bad == { n \in 0 .. N : ~P(n) }
<1>1. P(0)
  <2> DEFINE g == [k \in 0 .. 0 |-> base]
  <2>1. g = [k \in 0 .. 0 |-> Next1(g, k)] OBVIOUS
  <2> HIDE DEF g
  <2> QED BY <2>1
<1>2. ASSUME NEW n \in Nat, P(n) PROVE P(n + 1)
  <2>1. PICK g : g = [k \in 0 .. n |-> Next1(g, k)] BY <1>2
  <2> DEFINE h == [k \in 0 .. n + 1 |-> IF k = n + 1 THEN step[<<n + 1, g[n]>>] ELSE g[k]]
  <2>2. \A k \in 0 .. n : k \in 0 .. n + 1 /\ k # n + 1 OBVIOUS
  <2>3. \A k \in 0 .. n : h[k] = g[k] BY <2>2
  <2>4. n + 1 \in 0 .. n + 1 /\ h[n + 1] = step[<<n + 1, g[n]>>] OBVIOUS
  <2>5. DOMAIN h = 0 .. n + 1 /\ h = [k \in 0 .. n + 1 |-> h[k]] OBVIOUS
  <2> HIDE DEF h
  <2>6. ASSUME NEW k \in 0 .. n + 1 PROVE h[k] = Next1(h, k)
    <3>1. CASE k = n + 1
      <4>1. k # 0 /\ k - 1 = n /\ n \in 0 .. n BY <3>1
      <4> QED BY <2>3, <2>4, <3>1, <4>1
    <3>2. CASE k # n + 1
      <4>1. k \in 0 .. n /\ (k # 0 => k - 1 \in 0 .. n) BY <3>2
      <4>2. g[k] = Next1(g, k) BY <2>1, <4>1
      <4> QED BY <2>3, <4>1, <4>2
    <3> QED BY <3>1, <3>2
  <2>7. h = [k \in 0 .. n + 1 |-> Next1(h, k)]
    <3> HIDE DEF Next1
    <3> QED BY <2>5, <2>6
  <2> QED BY <2>7
<1> HIDE DEF P
<1>3. Bad = {}
  <2> SUFFICES ASSUME Bad # {} PROVE FALSE OBVIOUS
  <2>1. PICK m \in Bad : \A k \in Bad : m <= k
    <3>1. Bad \in SUBSET Nat OBVIOUS
    <3> HIDE DEF Bad
    <3> QED BY <3>1, LeastNumber
  <2>2. m \in 0 .. N /\ m # 0 BY <1>1
  <2>3. m - 1 \in Nat /\ m - 1 \in 0 .. N /\ (m - 1) + 1 = m BY <2>2
  <2>4. P(m - 1) BY <2>1, <2>3
  <2>5. P((m - 1) + 1) BY <1>2, <2>3, <2>4
  <2> QED BY <2>1, <2>3, <2>5
<1>4. P(N)
  <2>1. N \in 0 .. N OBVIOUS
  <2> QED BY <1>3, <2>1
<1>5. PICK g : g = [k \in 0 .. N |-> Next1(g, k)] BY <1>4 DEF P
<1>6. 0 \in 0 .. N /\ \A k \in 1 .. N : k \in 0 .. N /\ k # 0 OBVIOUS
<1>7. g[0] = base BY <1>5, <1>6
<1>8. \A k \in 1 .. N : g[k] = step[<<k, g[k - 1]>>] BY <1>5, <1>6
<1>9. g = [k \in 0 .. N |-> g[k]]
  <2> HIDE DEF Next1
  <2> QED BY <1>5
<1>10. \A k \in 0 .. N : g[k] \in T
  <2> DEFINE S == [k \in 0 .. N |-> T]
  <2>1. \A k \in 0 .. N : S[k] = T OBVIOUS
  <2> HIDE DEF S
  <2>2. g[0] \in S[0] BY <1>6, <1>7, <2>1
  <2>3. ASSUME NEW k \in 1 .. N, g[k - 1] \in S[k - 1] PROVE g[k] \in S[k]
    <3>1. k - 1 \in 0 .. N /\ k \in 0 .. N OBVIOUS
    <3>2. g[k - 1] \in T /\ S[k] = T BY <2>1, <2>3, <3>1
    <3>3. step[<<k, g[k - 1]>>] \in T BY <3>2
    <3> QED BY <1>8, <3>2, <3>3
  <2>4. \A k \in 0 .. N : g[k] \in S[k] BY <2>2, <2>3, RunKeeps
  <2> QED BY <2>1, <2>4
<1>11. g \in [0 .. N -> T] BY <1>9, <1>10
<1> QED BY <1>7, <1>8, <1>11 DEF Runs

(* A total of numbers is a number (the fold "total"). *)
LEMMA TotalNat ==
  ASSUME NEW n \in Nat, NEW dims \in [1 .. n -> Nat]
  PROVE  Total(dims) \in Nat
<1> DEFINE step == [q \in (1 .. n) \X Nat |-> q[2] + dims[q[1]]]
           Is(f) == f = [i \in 0 .. n |-> IF i = 0 THEN 0 ELSE f[i - 1] + dims[i]]
           T == [k \in 0 .. n |-> Nat]
<1>1. Len(dims) = n OBVIOUS
<1>2. \E f : Is(f)
  <2>1. PICK g \in [0 .. n -> Nat] : /\ g[0] = 0
                                     /\ \A k \in 1 .. n : g[k] = step[<<k, g[k - 1]>>]
    <3> DEFINE zero == 0
               S == Nat
    <3>1. step \in [(1 .. n) \X S -> S] /\ zero \in S OBVIOUS
    <3> HIDE DEF step, zero, S
    <3>2. \E g \in [0 .. n -> S] : Runs(g, n, zero, step) BY <3>1, RunExists
    <3> QED BY <3>2 DEF zero, S, Runs
  <2>2. \A k \in 1 .. n : k - 1 \in 0 .. n OBVIOUS
  <2>3. \A k \in 1 .. n : g[k] = g[k - 1] + dims[k] BY <2>1, <2>2
  <2>4. ASSUME NEW k \in 0 .. n PROVE g[k] = IF k = 0 THEN 0 ELSE g[k - 1] + dims[k]
    BY <2>1, <2>3
  <2> QED BY <2>4
<1>3. Total(dims) = (CHOOSE f : Is(f))[n] BY <1>1 DEF Total
<1> DEFINE f == CHOOSE g : Is(g)
<1>4. Is(f)
  <2> HIDE DEF Is
  <2> QED BY <1>2
<1>5. f[n] = Total(dims) BY <1>3
<1> HIDE DEF f
<1>6. f[0] = 0 /\ \A k \in 1 .. n : f[k] = f[k - 1] + dims[k]
  <2>1. 0 \in 0 .. n /\ \A k \in 1 .. n : k \in 0 .. n /\ k # 0 OBVIOUS
  <2> QED BY <1>4, <2>1
<1>7. n \in 0 .. n /\ \A k \in 0 .. n : T[k] = Nat OBVIOUS
<1>8. \A k \in 1 .. n : k \in 0 .. n /\ k - 1 \in 0 .. n /\ dims[k] \in Nat OBVIOUS
<1> HIDE DEF T
<1>9. ASSUME NEW k \in 1 .. n, f[k - 1] \in T[k - 1] PROVE f[k] \in T[k]
  <2>1. T[k - 1] = Nat /\ T[k] = Nat BY <1>7, <1>8
  <2> QED BY <1>6, <1>8, <1>9, <2>1
<1>10. \A k \in 0 .. n : f[k] \in T[k] 
  <2>1. f[0] \in T[0] BY <1>6, <1>7
  <2> HIDE DEF Is
  <2> QED BY <1>9, <2>1, RunKeeps
<1> QED BY <1>5, <1>7, <1>10
-----------------------------------------------------------------------------
(* What a cut keeps is named once when what it cuts is. *)

LEMMA AppendedOnce ==
  ASSUME NEW q \in Seq(Ids), NamedOnce(q), NEW x \in Ids, x \notin Named(q)
  PROVE  NamedOnce(Append(q, x)) /\ Named(Append(q, x)) = Named(q) \cup {x}
<1> DEFINE w == Append(q, x)
<1>1. DOMAIN q = 1 .. Len(q) /\ DOMAIN w = 1 .. Len(q) + 1 /\ Len(q) \in Nat OBVIOUS
<1>2. \A i \in 1 .. Len(q) : w[i] = q[i] /\ q[i] \in Named(q) BY <1>1 DEF Named
<1>3. w[Len(q) + 1] = x OBVIOUS
<1> HIDE DEF w
<1>4. \A i \in DOMAIN w : i \in 1 .. Len(q) \/ i = Len(q) + 1 BY <1>1
<1>5. ASSUME NEW i \in DOMAIN w, NEW j \in DOMAIN w, i # j PROVE w[i] # w[j]
  <2>1. CASE i \in 1 .. Len(q) /\ j \in 1 .. Len(q) BY <1>1, <1>2, <1>5, <2>1 DEF NamedOnce
  <2>2. CASE i = Len(q) + 1 BY <1>2, <1>3, <1>4, <1>5, <2>2
  <2>3. CASE j = Len(q) + 1 BY <1>2, <1>3, <1>4, <1>5, <2>3
  <2> QED BY <1>4, <2>1, <2>2, <2>3
<1>6. Named(w) \subseteq Named(q) \cup {x} BY <1>2, <1>3, <1>4 DEF Named
<1>7. Named(q) \cup {x} \subseteq Named(w)
  <2>1. Len(q) + 1 \in DOMAIN w /\ \A i \in DOMAIN q : i \in DOMAIN w BY <1>1
  <2> QED BY <1>1, <1>2, <1>3, <2>1 DEF Named
<1>8. NamedOnce(w) BY <1>5 DEF NamedOnce
<1> QED BY <1>6, <1>7, <1>8 DEF w

LEMMA KeptOnce ==
  ASSUME NEW a, a.sources \in Seq(Ids), NamedOnce(a.sources), NEW b
  PROVE  NamedOnce(Kept(a, b))
<1> DEFINE seq == a.sources
           n == Len(seq)
           In == {k \in 1 .. n : Inside(a, b, seq[k])}
           step == [p \in (1 .. n) \X Seq(Ids) |->
                      IF p[1] \in In THEN Append(p[2], seq[p[1]]) ELSE p[2]]
           Is(f) == f = [i \in 0 .. n |->
                           IF i = 0 THEN <<>>
                           ELSE IF Inside(a, b, seq[i]) THEN Append(f[i - 1], seq[i])
                                ELSE f[i - 1]]
           f == CHOOSE g : Is(g)
           Upto(k) == {seq[j] : j \in 1 .. k}
           T == [k \in 0 .. n |->
                   {q \in Seq(Ids) : NamedOnce(q) /\ Named(q) \subseteq Upto(k)}]
<1>1. n \in Nat /\ \A k \in 1 .. n : seq[k] \in Ids /\ k \in DOMAIN seq OBVIOUS
<1>2. Kept(a, b) = f[n] BY DEF Kept
<1> HIDE DEF seq, n
<1>3. \E g : Is(g)
  <2>1. PICK g \in [0 .. n -> Seq(Ids)] : /\ g[0] = <<>>
                                          /\ \A k \in 1 .. n : g[k] = step[<<k, g[k - 1]>>]
    <3> DEFINE none == <<>>
               S == Seq(Ids)
    <3>1. none \in S OBVIOUS
    <3>2. step \in [(1 .. n) \X S -> S]
      <4> SUFFICES ASSUME NEW k \in 1 .. n, NEW q \in Seq(Ids)
                   PROVE  (IF k \in In THEN Append(q, seq[k]) ELSE q) \in Seq(Ids)
        OBVIOUS
      <4>1. Append(q, seq[k]) \in Seq(Ids) BY <1>1
      <4> QED BY <4>1
    <3> HIDE DEF step, none, S
    <3>3. \E g \in [0 .. n -> S] : Runs(g, n, none, step) BY <1>1, <3>1, <3>2, RunExists
    <3> QED BY <3>3 DEF none, S, Runs
  <2>2. \A k \in 1 .. n : k - 1 \in 0 .. n BY <1>1
  <2>3. ASSUME NEW k \in 1 .. n
        PROVE  g[k] = IF Inside(a, b, seq[k]) THEN Append(g[k - 1], seq[k]) ELSE g[k - 1]
    <3>1. <<k, g[k - 1]>> \in (1 .. n) \X Seq(Ids) BY <2>2
    <3>2. k \in In <=> Inside(a, b, seq[k]) OBVIOUS
    <3> HIDE DEF In
    <3> QED BY <2>1, <3>1, <3>2
  <2>4. ASSUME NEW k \in 0 .. n
        PROVE  g[k] = IF k = 0 THEN <<>>
                      ELSE IF Inside(a, b, seq[k]) THEN Append(g[k - 1], seq[k]) ELSE g[k - 1]
    <3>1. k # 0 => k \in 1 .. n BY <1>1
    <3>2. CASE k = 0 BY <2>1, <3>2
    <3>3. CASE k # 0 BY <2>3, <3>1, <3>3
    <3> QED BY <3>2, <3>3
  <2> QED BY <2>4
<1>4. Is(f)
  <2> HIDE DEF Is
  <2> QED BY <1>3
<1> HIDE DEF f
<1>5. f[0] = <<>> /\ \A k \in 1 .. n : f[k] = IF Inside(a, b, seq[k]) THEN Append(f[k - 1], seq[k])
                                             ELSE f[k - 1]
  <2>1. 0 \in 0 .. n /\ \A k \in 1 .. n : k \in 0 .. n /\ k # 0 BY <1>1
  <2> QED BY <1>4, <2>1
<1> HIDE DEF Is
<1>6. \A k \in 0 .. n : T[k] = {q \in Seq(Ids) : /\ NamedOnce(q)
                                                 /\ Named(q) \subseteq Upto(k)}
  OBVIOUS
<1> HIDE DEF T
<1>7. f[0] \in T[0]
  <2>1. 0 \in 0 .. n BY <1>1
  <2>2. <<>> \in Seq(Ids) /\ NamedOnce(<<>>) BY DEF NamedOnce
  <2> QED BY <1>5, <1>6, <2>1, <2>2, NobodyNamed
<1>8. ASSUME NEW k \in 1 .. n, f[k - 1] \in T[k - 1] PROVE f[k] \in T[k]
  <2>1. k - 1 \in 0 .. n /\ k \in 0 .. n /\ k \in 1 .. k BY <1>1
  <2>2. \A j \in 1 .. k - 1 : j \in 1 .. k /\ j # k /\ j \in 1 .. n BY <1>1
  <2> DEFINE q == f[k - 1]
  <2>3. q \in Seq(Ids) /\ NamedOnce(q) /\ Named(q) \subseteq Upto(k - 1)
    BY <1>6, <1>8, <2>1
  <2> HIDE DEF q
  <2>4. Upto(k - 1) \subseteq Upto(k) /\ seq[k] \in Upto(k) BY <2>1, <2>2
  <2>5. CASE ~Inside(a, b, seq[k])
    <3>1. f[k] = q BY <1>5, <2>5 DEF q
    <3> HIDE DEF Upto
    <3> QED BY <1>6, <2>1, <2>3, <2>4, <3>1
  <2>6. CASE Inside(a, b, seq[k])
    <3>1. f[k] = Append(q, seq[k]) BY <1>5, <2>6 DEF q
    <3>2. \A j \in 1 .. k - 1 : seq[j] # seq[k] BY <1>1, <2>2 DEF NamedOnce, seq
    <3>3. seq[k] \in Ids /\ seq[k] \notin Named(q)
      <4>1. seq[k] \notin Upto(k - 1) BY <3>2
      <4> QED BY <1>1, <2>3, <4>1
    <3>4. NamedOnce(Append(q, seq[k])) /\ Named(Append(q, seq[k])) = Named(q) \cup {seq[k]}
      BY <2>3, <3>3, AppendedOnce
    <3>5. Append(q, seq[k]) \in Seq(Ids) BY <2>3, <3>3
    <3> HIDE DEF Upto
    <3>6. Named(Append(q, seq[k])) \subseteq Upto(k) BY <2>3, <2>4, <3>4
    <3> DEFINE w == Append(q, seq[k])
    <3>7. w \in Seq(Ids) /\ NamedOnce(w) /\ Named(w) \subseteq Upto(k) /\ f[k] = w
      BY <3>1, <3>4, <3>5, <3>6
    <3> HIDE DEF w
    <3>8. f[k] \in {p \in Seq(Ids) : NamedOnce(p) /\ Named(p) \subseteq Upto(k)} BY <3>7
    <3> QED BY <1>6, <2>1, <3>8
  <2> QED BY <2>5, <2>6
<1>9. n \in 0 .. n BY <1>1
<1>10. f[n] \in T[n] BY <1>1, <1>7, <1>8, <1>9, RunKeeps
<1> QED BY <1>2, <1>6, <1>9, <1>10
-----------------------------------------------------------------------------
(* Comparing numbers position by position. *)

(* The earlier of two positions, and what comes before it. *)
LEMMA EarlierOf ==
  ASSUME NEW i \in Nat \ {0}, NEW j \in Nat \ {0}
  PROVE  \E m \in {i, j} : /\ m = i \/ m \in 1 .. i - 1
                           /\ m = j \/ m \in 1 .. j - 1
                           /\ 1 .. m - 1 \subseteq 1 .. i - 1 /\ 1 .. m - 1 \subseteq 1 .. j - 1
<1>1. CASE i <= j BY <1>1
<1>2. CASE j <= i BY <1>2
<1> QED BY <1>1, <1>2

LEMMA LexTransitive ==
  ASSUME NEW x \in Seq(Int), NEW y \in Seq(Int), NEW z \in Seq(Int),
         Len(x) = Len(y), Len(y) = Len(z), LexLess(x, y), LexLess(y, z)
  PROVE  LexLess(x, z)
<1> DEFINE Places == 1 .. Len(x)
<1>1. PICK i \in DOMAIN x : x[i] < y[i] /\ \A k \in 1 .. i - 1 : x[k] = y[k]
  BY DEF LexLess
<1>2. PICK j \in DOMAIN y : y[j] < z[j] /\ \A k \in 1 .. j - 1 : y[k] = z[k]
  BY Zenon DEF LexLess
<1>3. DOMAIN x = Places /\ DOMAIN y = Places OBVIOUS
<1>4. \A k \in Places : x[k] \in Int /\ y[k] \in Int /\ z[k] \in Int OBVIOUS
<1>5. \A k \in Places : k \in Nat \ {0} OBVIOUS
<1> HIDE DEF Places
<1>6. PICK m \in {i, j} : /\ m = i \/ m \in 1 .. i - 1
                          /\ m = j \/ m \in 1 .. j - 1
                          /\ 1 .. m - 1 \subseteq 1 .. i - 1 /\ 1 .. m - 1 \subseteq 1 .. j - 1
  BY <1>3, <1>5, EarlierOf
<1>7. m \in Places BY <1>3
<1>8. x[m] < y[m] \/ x[m] = y[m] BY <1>1, <1>6, Zenon
<1>9. y[m] < z[m] \/ y[m] = z[m] BY <1>2, <1>6, Zenon
<1>10. x[m] < y[m] \/ y[m] < z[m] BY <1>1, <1>2, Zenon
<1>11. x[m] < z[m]
  <2> DEFINE p == x[m]
             q == y[m]
             r == z[m]
  <2>1. p \in Int /\ q \in Int /\ r \in Int BY <1>4, <1>7
  <2>2. (p < q \/ p = q) /\ (q < r \/ q = r) /\ (p < q \/ q < r) BY <1>8, <1>9, <1>10
  <2> HIDE DEF p, q, r
  <2>3. p < r BY <2>1, <2>2
  <2> QED BY <2>3 DEF p, r
<1>12. \A k \in 1 .. m - 1 : x[k] = z[k]
  <2> SUFFICES ASSUME NEW k \in 1 .. m - 1 PROVE x[k] = z[k] OBVIOUS
  <2>1. k \in 1 .. i - 1 /\ k \in 1 .. j - 1 BY <1>6, Zenon
  <2>2. x[k] = y[k] BY <1>1, <2>1, Zenon
  <2>3. y[k] = z[k] BY <1>2, <2>1, Zenon
  <2> QED BY <2>2, <2>3, Zenon
<1> QED BY <1>3, <1>7, <1>11, <1>12, Zenon DEF LexLess

LEMMA LexTotal ==
  ASSUME NEW x \in Seq(Int), NEW y \in Seq(Int), Len(x) = Len(y),
         NEW d \in 1 .. Len(x), x[d] # y[d]
  PROVE  LexLess(x, y) \/ LexLess(y, x)
<1> DEFINE D == {k \in 1 .. Len(x) : x[k] # y[k]}
<1>1. PICK m \in D : \A k \in D : m <= k
  <2>1. D \in SUBSET Nat /\ d \in D OBVIOUS
  <2> HIDE DEF D
  <2> QED BY <2>1, LeastNumber
<1>2. m \in 1 .. Len(x) /\ x[m] # y[m] OBVIOUS
<1>3. ASSUME NEW k \in 1 .. m - 1 PROVE x[k] = y[k]
  <2>1. m \in Nat /\ Len(x) \in Nat /\ m <= Len(x) BY <1>2
  <2>3. k \in 1 .. Len(x) /\ ~(m <= k) BY <2>1
  <2>2. k \notin D BY <1>1, <2>3
  <2> QED BY <2>2, <2>3
<1> HIDE DEF D
<1>4. m \in DOMAIN x /\ m \in DOMAIN y /\ x[m] \in Int /\ y[m] \in Int BY <1>2
<1>5. x[m] < y[m] \/ y[m] < x[m] BY <1>2, <1>4
<1> QED BY <1>3, <1>4, <1>5 DEF LexLess
-----------------------------------------------------------------------------
(* An answer that an order can be read from: a fold that reads a key, sources *)
(* named once, and as many readings of one of them as of another. *)
Readable(a) ==
  /\ a.fold \in FoldNames \cup {Nothing}
  /\ a.sources # Everything => NamedOnce(a.sources)
  /\ a.key # Nothing =>
       \E n \in Nat \ {0} : \A s \in Named(a.sources) : a.key[s] \in [1 .. n -> Readings]

LEMMA FigureNat ==
  ASSUME NEW n \in Nat \ {0}, NEW dims \in [1 .. n -> Readings], NEW f \in FoldNames
  PROVE  Figure(f, dims) \in Nat
<1>1. Len(dims) = n /\ 1 \in 1 .. n /\ n \in 1 .. n OBVIOUS
<1>2. dims \in [1 .. n -> Nat] /\ dims[1] \in Nat /\ dims[n] \in Nat
  BY <1>1, IdsAreNumbers
<1>3. n \in Nat OBVIOUS
<1>4. Total(dims) \in Nat BY <1>2, <1>3, TotalNat
<1>5. CASE f = "first" BY <1>2, <1>5 DEF Figure
<1>6. CASE f = "last" BY <1>1, <1>2, <1>6 DEF Figure
<1>7. CASE f = "total" BY <1>4, <1>7 DEF Figure
<1> QED BY <1>5, <1>6, <1>7 DEF FoldNames

(* What is compared of two sources are numbers, as many of each, their ids last. *)
LEMMA ComparableFits ==
  ASSUME NEW a, IsSelection(a), Readable(a), Orderable(a)
  PROVE  \E m \in Nat \ {0} : \A s \in Named(a.sources) :
            Comparable(a, s) \in Seq(Int) /\ Len(Comparable(a, s)) = m /\ Comparable(a, s)[m] = s
<1>1. a.key # Nothing /\ a.sources \in Seq(Ids)
  BY DEF Orderable, IsSelection
<1>2. PICK n \in Nat \ {0} : \A s \in Named(a.sources) : a.key[s] \in [1 .. n -> Readings]
  BY <1>1 DEF Readable
<1>3. \A s \in Named(a.sources) : s \in Int
  <2>1. Named(a.sources) \subseteq Ids BY <1>1, NamedOf
  <2>2. Ids \subseteq Int BY IdsAreNumbers
  <2> QED BY <2>1, <2>2
<1>4. CASE a.fold = Nothing
  <2>1. ASSUME NEW s \in Named(a.sources)
        PROVE  /\ Comparable(a, s) \in Seq(Int) /\ Len(Comparable(a, s)) = n + 1
               /\ Comparable(a, s)[n + 1] = s
    <3> DEFINE dims == a.key[s]
    <3>1. dims \in [1 .. n -> Readings] /\ s \in Int BY <1>2, <1>3
    <3>2. Comparable(a, s) = Append(dims, s) BY <1>4 DEF Comparable
    <3> HIDE DEF dims
    <3>3. dims \in [1 .. n -> Int]
      <4>1. Readings \subseteq Int BY IdsAreNumbers
      <4> QED BY <3>1, <4>1
    <3>4. dims \in Seq(Int) /\ Len(dims) = n BY <3>3
    <3> QED BY <3>1, <3>2, <3>4
  <2>2. n + 1 \in Nat \ {0} OBVIOUS
  <2> QED BY <2>1, <2>2
<1>5. CASE a.fold # Nothing
  <2>1. a.fold \in FoldNames BY <1>5 DEF Readable
  <2>2. ASSUME NEW s \in Named(a.sources)
        PROVE  /\ Comparable(a, s) \in Seq(Int) /\ Len(Comparable(a, s)) = 2
               /\ Comparable(a, s)[2] = s
    <3> DEFINE fig == Figure(a.fold, a.key[s])
    <3>1. fig \in Nat /\ s \in Int BY <1>2, <1>3, <2>1, FigureNat
    <3>2. Comparable(a, s) = <<fig, s>> BY <1>5 DEF Comparable
    <3> HIDE DEF fig
    <3> QED BY <3>1, <3>2
  <2>3. 2 \in Nat \ {0} OBVIOUS
  <2> QED BY <2>2, <2>3
<1> QED BY <1>4, <1>5

(* A source never comes before itself. *)
LEMMA BeforeOrders ==
  ASSUME NEW a, IsSelection(a), Readable(a), Orderable(a)
  PROVE  /\ \A s \in Named(a.sources) : ~Before(a, s, s)
         /\ \A s, t, u \in Named(a.sources) : Before(a, s, t) /\ Before(a, t, u) => Before(a, s, u)
         /\ \A s, t \in Named(a.sources) : s = t \/ Before(a, s, t) \/ Before(a, t, s)
<1>1. PICK m \in Nat \ {0} : \A s \in Named(a.sources) :
         Comparable(a, s) \in Seq(Int) /\ Len(Comparable(a, s)) = m /\ Comparable(a, s)[m] = s
  BY ComparableFits
<1>2. ASSUME NEW s \in Named(a.sources) PROVE ~Before(a, s, s)
  BY <1>1, LexAsymmetric DEF Before
<1>3. ASSUME NEW s \in Named(a.sources), NEW t \in Named(a.sources), NEW u \in Named(a.sources),
             Before(a, s, t), Before(a, t, u)
      PROVE  Before(a, s, u)
  BY <1>1, <1>3, LexTransitive DEF Before
<1>4. ASSUME NEW s \in Named(a.sources), NEW t \in Named(a.sources), s # t
      PROVE  Before(a, s, t) \/ Before(a, t, s)
  <2> DEFINE x == Comparable(a, s)
             y == Comparable(a, t)
  <2>1. /\ x \in Seq(Int) /\ y \in Seq(Int) /\ Len(x) = Len(y)
        /\ m \in 1 .. Len(x) /\ x[m] # y[m]
    BY <1>1, <1>4
  <2> HIDE DEF x, y
  <2>2. LexLess(x, y) \/ LexLess(y, x) BY <2>1, LexTotal
  <2> QED BY <2>2 DEF Before, x, y
<1> QED BY <1>2, <1>3, <1>4

(* A sort leaves an order (_ordered). *)
LEMMA SortsExist ==
  ASSUME NEW a, IsSelection(a), Readable(a), Orderable(a)
  PROVE  Sorts(a) # {}
<1> DEFINE seq == a.sources
           n == Len(seq)
           S == Named(seq)
           R == {p \in S \X S : Before(a, p[1], p[2])}
<1>1. seq \in Seq(Ids) /\ NamedOnce(seq) /\ n \in Nat /\ DOMAIN seq = 1 .. n
  BY DEF Orderable, NamesNobody, IsSelection, Readable
<1>2. \A s, t \in S : <<s, t>> \in R <=> Before(a, s, t) OBVIOUS
<1>3. seq \in Bijection(1 .. n, S)
  <2>1. seq \in [1 .. n -> S] BY <1>1 DEF Named
  <2>2. \A i, j \in 1 .. n : seq[i] = seq[j] => i = j BY <1>1 DEF NamedOnce
  <2>3. \A s \in S : \E i \in 1 .. n : seq[i] = s BY <1>1 DEF Named
  <2> HIDE DEF seq, S, n
  <2>4. seq \in Injection(1 .. n, S) BY <2>1, <2>2, Zenon DEF Injection, IsInjective
  <2>5. seq \in Surjection(1 .. n, S) BY <2>1, <2>3 DEF Surjection
  <2> QED BY <2>4, <2>5 DEF Bijection
<1>4. \A s \in S : ~Before(a, s, s) BY BeforeOrders
<1>5. \A s, t, u \in S : Before(a, s, t) /\ Before(a, t, u) => Before(a, s, u) BY BeforeOrders
<1>6. \A s, t \in S : s = t \/ Before(a, s, t) \/ Before(a, t, s) BY BeforeOrders
<1>7. S = Named(a.sources) /\ DOMAIN a.sources = 1 .. n BY <1>1
<1> HIDE DEF R, S, n, seq
<1>8. IsFiniteSet(S) /\ Cardinality(S) = n
  <2>1. IsFiniteSet(1 .. n) /\ Cardinality(1 .. n) = n BY <1>1, FS_Interval
  <2>2. ExistsBijection(1 .. n, S) BY <1>3 DEF ExistsBijection
  <2> QED BY <2>1, <2>2, FS_Bijection
<1>9. /\ \A s \in S : <<s, s>> \notin R
      /\ \A s, t, u \in S : <<s, t>> \in R /\ <<t, u>> \in R => <<s, u>> \in R
      /\ \A s, t \in S : s = t \/ <<s, t>> \in R \/ <<t, s>> \in R
  BY <1>2, <1>4, <1>5, <1>6
<1>10. PICK p \in [1 .. Cardinality(S) -> S] :
          /\ Named(p) = S
          /\ \A i, j \in 1 .. Cardinality(S) : i < j => <<p[i], p[j]>> \in R
  BY <1>8, <1>9, OrderLists
<1>11. p \in [1 .. n -> S] /\ \A i, j \in 1 .. n : i < j => Before(a, p[i], p[j])
  <2>1. p \in [1 .. n -> S] BY <1>8, <1>10
  <2>2. \A i, j \in 1 .. n : i < j => <<p[i], p[j]>> \in R BY <1>8, <1>10
  <2> QED BY <1>2, <2>1, <2>2
<1>12. p \in Sorts(a) BY <1>7, <1>10, <1>11 DEF Sorts
<1> QED BY <1>12

(* One pass and a sort agree on every answer that can be ordered. *)
LEMMA LeadsOrdered ==
  ASSUME IsSelection(answer), Readable(answer)
  PROVE  BestLeads
<1> SUFFICES ASSUME Orderable(answer)
             PROVE  /\ Ordered(answer) # {}
                    /\ \A o \in Ordered(answer) :
                          Best(answer) = {Only(answer, <<o.sources[1]>>)}
  BY DEF BestLeads
<1>1. answer.sources \in Seq(Ids) /\ DOMAIN answer = Fields
  BY DEF Orderable, NamesNobody, IsSelection, Fields
<1>2. Ordered(answer) # {} BY SortsExist DEF Ordered
<1>3. \A s, t \in Named(answer.sources) :
         Comparable(answer, s) \in Seq(Int) /\ Len(Comparable(answer, s)) = Len(Comparable(answer, t))
  BY ComparableFits
<1>4. ASSUME NEW o \in Ordered(answer) PROVE Best(answer) = {Only(answer, <<o.sources[1]>>)}
  BY <1>1, <1>3, BestIsHeadOfSort
<1> QED BY <1>2, <1>4
-----------------------------------------------------------------------------
(* Every operation leaves an answer readable. *)

LEMMA OnlyReadable ==
  ASSUME NEW a, IsSelection(a), Readable(a), NEW kept, Cuttable(a, kept), NamedOnce(kept)
  PROVE  Readable(Only(a, kept))
<1> DEFINE w == Only(a, kept)
<1>1. DOMAIN a = Fields BY DEF IsSelection, Fields
<1>2. /\ w.sources = kept /\ w.fold = a.fold
      /\ w.key = IF a.key = Nothing THEN Nothing ELSE [s \in Named(kept) |-> a.key[s]]
  BY <1>1 DEF Only, Fields
<1>3. Named(kept) \subseteq Named(a.sources) BY NamedOf DEF Cuttable
<1> HIDE DEF w
<1>4. w.key # Nothing =>
        \E n \in Nat \ {0} : \A s \in Named(w.sources) : w.key[s] \in [1 .. n -> Readings]
  <2> SUFFICES ASSUME w.key # Nothing
               PROVE  \E n \in Nat \ {0} : \A s \in Named(w.sources) :
                         w.key[s] \in [1 .. n -> Readings]
    OBVIOUS
  <2>1. a.key # Nothing BY <1>2
  <2>2. PICK n \in Nat \ {0} : \A s \in Named(a.sources) : a.key[s] \in [1 .. n -> Readings]
    BY <2>1 DEF Readable
  <2>3. \A s \in Named(kept) : w.key[s] = a.key[s] BY <1>2, <2>1
  <2>4. \A s \in Named(w.sources) : w.key[s] \in [1 .. n -> Readings] BY <1>2, <1>3, <2>2, <2>3
  <2> QED BY <2>4
<1>5. Readable(w) BY <1>2, <1>4 DEF Readable
<1> QED BY <1>5 DEF w

LEMMA OfReadable ==
  ASSUME NEW seq, NamedOnce(seq) \/ seq = Everything, NEW ready
  PROVE  Readable(Of(seq, ready))
BY DEF Readable, Of

LEMMA KeyedReadable ==
  ASSUME NEW seq \in Given, NamedOnce(seq), NEW n \in Nat \ {0},
         NEW dims \in [Named(seq) -> [1 .. n -> Readings]], NEW ready
  PROVE  Readable(Keyed(seq, dims, ready))
<1> DEFINE w == Keyed(seq, dims, ready)
<1>1. w.sources = seq /\ w.fold = Nothing /\ w.key = [s \in Named(seq) |-> dims[s]]
  BY DEF Keyed, Of
<1> HIDE DEF w
<1>2. \A s \in Named(w.sources) : w.key[s] \in [1 .. n -> Readings] BY <1>1
<1>3. Readable(w) BY <1>1, <1>2 DEF Readable
<1> QED BY <1>3 DEF w

LEMMA AnnotatedReadable ==
  ASSUME NEW a, IsSelection(a), Readable(a), a.sources \in Seq(Ids), a.sources # Everything,
         NEW reading \in [Ids -> Readings]
  PROVE  Readable(Annotated(a, reading))
<1> DEFINE w == Annotated(a, reading)
           old(s) == IF a.key = Nothing THEN <<>> ELSE a.key[s]
<1>1. DOMAIN a = Fields BY DEF IsSelection, Fields
<1>2. /\ w.sources = a.sources /\ w.fold = a.fold
      /\ w.key = [s \in Named(a.sources) |-> Append(old(s), reading[s])]
  BY <1>1 DEF Annotated, Fields
<1>3. Named(a.sources) \subseteq Ids BY NamedOf
<1>4. \E n \in Nat : \A s \in Named(a.sources) : old(s) \in [1 .. n -> Readings]
  <2>1. CASE a.key = Nothing
    <3>1. \A s \in Named(a.sources) : old(s) \in [1 .. 0 -> Readings] BY <2>1
    <3> QED BY <3>1
  <2>2. CASE a.key # Nothing
    <3>1. PICK n \in Nat \ {0} : \A s \in Named(a.sources) : a.key[s] \in [1 .. n -> Readings]
      BY <2>2 DEF Readable
    <3>2. \A s \in Named(a.sources) : old(s) = a.key[s] BY <2>2
    <3> HIDE DEF old
    <3> QED BY <3>1, <3>2
  <2> QED BY <2>1, <2>2
<1> HIDE DEF w, old
<1>5. PICK n \in Nat : \A s \in Named(a.sources) : old(s) \in [1 .. n -> Readings] BY <1>4
<1>6. n + 1 \in Nat \ {0} OBVIOUS
<1>7. ASSUME NEW s \in Named(a.sources) PROVE w.key[s] \in [1 .. n + 1 -> Readings]
  <2> DEFINE q == old(s)
  <2>1. q \in [1 .. n -> Readings] /\ reading[s] \in Readings BY <1>3, <1>5
  <2>2. w.key[s] = Append(q, reading[s]) BY <1>2
  <2> HIDE DEF q
  <2>3. q \in Seq(Readings) /\ Len(q) = n BY <2>1
  <2> DEFINE v == Append(q, reading[s])
  <2>4. v \in Seq(Readings) /\ Len(v) = n + 1 BY <2>1, <2>3
  <2> HIDE DEF v
  <2>5. v \in [1 .. n + 1 -> Readings] BY <2>4
  <2> QED BY <2>2, <2>5 DEF v
<1>8. Readable(w) BY <1>2, <1>6, <1>7 DEF Readable
<1> QED BY <1>8 DEF w

LEMMA SortReadable ==
  ASSUME NEW a, IsSelection(a), Readable(a), NEW o \in Ordered(a)
  PROVE  Readable(o)
<1>1. CASE o = a BY <1>1
<1>2. CASE o # a
  <2>1. Orderable(a) BY <1>2 DEF Ordered
  <2>2. PICK p \in Sorts(a) : o = [a EXCEPT !.sources = p] BY <1>2 DEF Ordered
  <2>3. a.sources \in Seq(Ids) /\ a.sources # Everything /\ DOMAIN a = Fields
    BY <2>1 DEF Orderable, NamesNobody, IsSelection, Fields
  <2>4. o.sources = p /\ o.key = a.key /\ o.fold = a.fold BY <2>2, <2>3 DEF Fields
  <2>5. /\ p \in [DOMAIN a.sources -> Named(a.sources)] /\ Named(p) = Named(a.sources)
        /\ \A i, j \in DOMAIN p : i < j => Before(a, p[i], p[j])
    BY DEF Sorts
  <2>6. \A s \in Named(a.sources) : ~Before(a, s, s) BY <2>1, BeforeOrders
  <2>7. ASSUME NEW i \in DOMAIN p, NEW j \in DOMAIN p, i # j PROVE p[i] # p[j]
    <3>1. i \in Nat /\ j \in Nat /\ p[i] \in Named(a.sources) /\ p[j] \in Named(a.sources)
      BY <2>3, <2>5
    <3>2. i < j \/ j < i BY <2>7, <3>1
    <3>3. Before(a, p[i], p[j]) \/ Before(a, p[j], p[i]) BY <2>5, <3>2
    <3> QED BY <2>6, <3>1, <3>3
  <2>8. NamedOnce(p) BY <2>7 DEF NamedOnce
  <2> QED BY <2>3, <2>4, <2>5, <2>8 DEF Readable
<1> QED BY <1>1, <1>2

LEMMA BestReadable ==
  ASSUME NEW a, IsSelection(a), Readable(a), NEW o \in Best(a)
  PROVE  Readable(o)
<1>1. CASE NamesNobody(a) BY <1>1 DEF Best
<1>2. CASE ~NamesNobody(a)
  <2>1. PICK s \in Least(a) : o = Only(a, <<s>>) BY <1>2 DEF Best
  <2>2. a.sources \in Seq(Ids) /\ a.sources # <<>> /\ a.sources # Everything
    BY <1>2 DEF NamesNobody, IsSelection
  <2>3. s \in Named(a.sources)
    <3>1. CASE Orderable(a) BY <3>1, <2>1 DEF Least
    <3>2. CASE ~Orderable(a)
      <4>1. s = a.sources[1] BY <3>2, <2>1 DEF Least
      <4>2. 1 \in DOMAIN a.sources BY <2>2
      <4> QED BY <4>1, <4>2 DEF Named
    <3> QED BY <3>1, <3>2
  <2>4. Cuttable(a, <<s>>) /\ NamedOnce(<<s>>) BY <2>2, <2>3 DEF Cuttable, NamedOnce
  <2> QED BY <2>1, <2>4, OnlyReadable
<1> QED BY <1>1, <1>2

LEMMA LeadingOnce ==
  ASSUME NEW a, a.sources # Everything, a.sources \in Seq(Ids), NamedOnce(a.sources),
         NEW n \in Nat
  PROVE  NamedOnce(Leading(a, n))
<1> DEFINE m == IF n < Len(a.sources) THEN n ELSE Len(a.sources)
           seq == a.sources
<1>1. m \in 0 .. Len(seq) /\ DOMAIN seq = 1 .. Len(seq) /\ Len(seq) \in Nat OBVIOUS
<1>2. Leading(a, n) = SubSeq(seq, 1, m) BY DEF Leading
<1> HIDE DEF m, seq
<1>3. \A i \in 1 .. m : i \in DOMAIN seq BY <1>1
<1>4. seq \in Seq(Ids) /\ NamedOnce(seq) BY DEF seq
<1> DEFINE w == SubSeq(seq, 1, m)
<1>5. DOMAIN w = 1 .. m /\ \A i \in 1 .. m : w[i] = seq[i] BY <1>1, <1>4
<1> HIDE DEF w
<1>6. NamedOnce(w) BY <1>3, <1>4, <1>5 DEF NamedOnce
<1> QED BY <1>2, <1>6 DEF w
-----------------------------------------------------------------------------
LEMMA StageReadable ==
  ASSUME Readable(answer), NEW ok \in BOOLEAN, NEW a, Stage(ok, a), ok => Readable(a)
  PROVE  Readable(answer')
<1>1. (answer' = a /\ ok) \/ answer' = answer BY DEF Stage
<1> QED BY <1>1

LEMMA BasesReadable ==
  ASSUME Readable(answer), Bases
  PROVE  Readable(answer')
<1>1. ASSUME NEW seq \in Given, RefuseBase(seq)
      PROVE  Readable(answer')
  BY <1>1 DEF RefuseBase
<1>2. ASSUME NEW seq \in Given, NEW ready \in BOOLEAN, AnswerOf(seq, ready)
      PROVE  Readable(answer')
  BY <1>2, OfReadable DEF AnswerOf, Answer
<1>3. ASSUME NEW seq \in Given, NEW ready \in BOOLEAN, NEW dims \in Dims,
             AnswerKeyed(seq, dims, ready)
      PROVE  Readable(answer')
  <2>1. PICK n \in 1 .. 2 : dims \in [Ids -> [1 .. n -> Readings]] BY DEF Dims
  <2>2. Named(seq) \subseteq Ids BY GivenNamed, NamedOf
  <2> DEFINE some == [s \in Named(seq) |-> dims[s]]
  <2>3. some \in [Named(seq) -> [1 .. n -> Readings]] /\ n \in Nat \ {0} BY <2>1, <2>2
  <2>4. Keyed(seq, dims, ready) = Keyed(seq, some, ready) BY DEF Keyed
  <2>5. answer' = Keyed(seq, some, ready) /\ NamedOnce(seq) BY <1>3, <2>4 DEF AnswerKeyed, Answer
  <2> HIDE DEF some
  <2> QED BY <2>3, <2>5, KeyedReadable
<1>4. ASSUME NEW seq \in Given, NEW ready \in BOOLEAN, NEW price \in [Ids -> Readings],
             AnswerPriced(seq, price, ready)
      PROVE  Readable(answer')
  <2>1. Named(seq) \subseteq Ids BY GivenNamed, NamedOf
  <2> DEFINE one == [s \in Named(seq) |-> <<price[s]>>]
             n == 1
  <2>2. one \in [Named(seq) -> [1 .. n -> Readings]] /\ n \in Nat \ {0} BY <2>1
  <2>3. answer' = Keyed(seq, one, ready) /\ NamedOnce(seq)
    BY <1>4 DEF AnswerPriced, Answer, Priced
  <2> HIDE DEF one, n
  <2> QED BY <2>2, <2>3, KeyedReadable
<1>5. CASE AnswerUniverse BY <1>5, OfReadable DEF AnswerUniverse, Answer, Universe
<1>6. CASE AnswerAbstain
  <2>1. NamedOnce(<<>>) BY DEF NamedOnce
  <2> QED BY <1>6, <2>1, OfReadable DEF AnswerAbstain, Answer, Abstain
<1> QED BY <1>1, <1>2, <1>3, <1>4, <1>5, <1>6 DEF Bases

LEMMA AnnotateReadable ==
  ASSUME IsSelection(answer), Readable(answer), NEW reading \in [Ids -> Readings],
         Annotate(reading)
  PROVE  Readable(answer')
<1>1. Stage(TRUE, IF NamesNobody(answer) THEN answer ELSE Annotated(answer, reading))
  BY DEF Annotate
<1>2. CASE NamesNobody(answer) BY <1>1, <1>2, StageReadable
<1>3. CASE ~NamesNobody(answer)
  <2>1. answer.sources \in Seq(Ids) /\ answer.sources # Everything
    BY <1>3 DEF NamesNobody, IsSelection
  <2>2. Readable(Annotated(answer, reading)) BY <2>1, AnnotatedReadable
  <2> QED BY <1>1, <1>3, <2>2, StageReadable
<1> QED BY <1>2, <1>3

LEMMA TailsReadable ==
  ASSUME NEW tail \in Tails
  PROVE  Readable(tail[1])
<1> DEFINE flat == [s \in Ids |-> <<0>>]
           zero == [t \in Ids |-> 0]
<1>1. CASE tail = <<Universe, flat>> BY <1>1, OfReadable DEF Universe
<1>2. CASE tail = <<Abstain, flat>>
  <2>1. NamedOnce(<<>>) BY DEF NamedOnce
  <2> QED BY <1>2, <2>1, OfReadable DEF Abstain
<1>3. ASSUME NEW s \in Ids, tail = <<Priced(<<s>>, zero, TRUE), flat>>
      PROVE  Readable(tail[1])
  <2> DEFINE w == tail[1]
  <2>1. Named(<<s>>) = {s} /\ NamedOnce(<<s>>) BY DEF Named, NamedOnce
  <2>2. w.sources = <<s>> /\ w.fold = Nothing /\ w.key = [t \in {s} |-> <<0>>]
    BY <1>3, <2>1 DEF Priced, Keyed, Of
  <2>3. \A t \in Named(w.sources) : w.key[t] \in [1 .. 1 -> Readings]
    BY <2>1, <2>2, IdsAreNumbers
  <2>4. 1 \in Nat \ {0} OBVIOUS
  <2> HIDE DEF w
  <2>5. Readable(w) BY <2>1, <2>2, <2>3, <2>4 DEF Readable
  <2> QED BY <2>5 DEF w
<1> QED BY <1>1, <1>2, <1>3 DEF Tails

LEMMA StagesReadable ==
  ASSUME IsSelection(answer), Readable(answer), Stages
  PROVE  Readable(answer')
<1>0. DOMAIN answer = Fields BY DEF IsSelection, Fields
<1>1. ASSUME NEW reading \in [Ids -> Readings], Annotate(reading) PROVE Readable(answer')
  BY <1>1, AnnotateReadable
<1>2. ASSUME NEW S \in SUBSET Ids, NEW load \in [S -> Readings], Balance(load)
      PROVE  Readable(answer')
  <2>1. LoadAt(load) \in [Ids -> Readings] BY IdsAreNumbers DEF LoadAt
  <2> QED BY <1>2, <2>1, AnnotateReadable DEF Balance
<1>3. ASSUME NEW f \in FoldNames \cup {Nothing}, WithFold(f) PROVE Readable(answer')
  <2> DEFINE w == [answer EXCEPT !.fold = f]
  <2>1. w.sources = answer.sources /\ w.key = answer.key /\ w.fold = f BY <1>0 DEF Fields
  <2>2. Stage(TRUE, w) BY <1>3 DEF WithFold
  <2> HIDE DEF w
  <2>3. Readable(w) BY <2>1 DEF Readable
  <2> QED BY <2>2, <2>3, StageReadable
<1>4. CASE OrderedStage \/ BestStage
  <2>1. PICK a \in Ordered(answer) \cup Best(answer) : Stage(TRUE, a)
    BY <1>4 DEF OrderedStage, BestStage
  <2>2. Readable(a) BY SortReadable, BestReadable
  <2> QED BY <2>1, <2>2, StageReadable
<1>5. ASSUME NEW b \in Bounds, BoundedStage(b) PROVE Readable(answer')
  <2> DEFINE kept == Kept(answer, b)
             ok == Abstains(answer) \/ (Orderable(answer) /\ Cuttable(answer, kept))
  <2>1. Stage(ok, Bounded(answer, b)) /\ ok \in BOOLEAN
    BY <1>5 DEF BoundedStage, Abstains, Orderable, NamesNobody
  <2>2. ASSUME ok PROVE Readable(Bounded(answer, b))
    <3>1. CASE Abstains(answer) BY <3>1 DEF Bounded
    <3>2. CASE ~Abstains(answer)
      <4>1. Orderable(answer) /\ Cuttable(answer, kept) BY <2>2, <3>2
      <4>2. answer.sources \in Seq(Ids) /\ NamedOnce(answer.sources)
        BY <4>1 DEF Cuttable, IsSelection, Readable
      <4>3. NamedOnce(kept) BY <4>2, KeptOnce
      <4>4. Bounded(answer, b) = Only(answer, kept) BY <3>2 DEF Bounded
      <4> HIDE DEF kept
      <4> QED BY <4>1, <4>3, <4>4, OnlyReadable
    <3> QED BY <3>1, <3>2
  <2> HIDE DEF ok, kept
  <2> QED BY <2>1, <2>2, StageReadable
<1>6. ASSUME NEW n \in 0 .. Cardinality(Ids), Take(n) PROVE Readable(answer')
  <2> DEFINE kept == Leading(answer, n)
             ok == Cuttable(answer, kept)
  <2>1. Stage(ok, Only(answer, kept)) /\ ok \in BOOLEAN BY <1>6 DEF Take, Cuttable
  <2>2. ASSUME ok PROVE Readable(Only(answer, kept))
    <3>1. answer.sources # Everything /\ answer.sources \in Seq(Ids) /\ NamedOnce(answer.sources)
      BY <2>2 DEF Cuttable, IsSelection, Readable
    <3>2. NamedOnce(kept)
      <4>1. n \in Nat OBVIOUS
      <4> QED BY <3>1, <4>1, LeadingOnce
    <3> HIDE DEF kept
    <3> QED BY <2>2, <3>2, OnlyReadable
  <2> HIDE DEF ok, kept
  <2> QED BY <2>1, <2>2, StageReadable
<1>7. ASSUME NEW ok, Require(ok) PROVE Readable(answer')
  <2>1. Stage(answer.sources # Everything, Required(answer, ok)) BY <1>7 DEF Require
  <2>2. NamedOnce(<<>>) BY DEF NamedOnce
  <2>3. Readable(Abstain) BY <2>2, OfReadable DEF Abstain
  <2>4. Readable(Required(answer, ok)) BY <2>3 DEF Required
  <2> QED BY <2>1, <2>4, StageReadable
<1>8. ASSUME NEW tail \in Tails, NEW kind, Fallback(tail[1], kind, tail[2])
      PROVE  Readable(answer')
  <2>1. Stage(OneSubject({subject, kind}), FirstMatch(<<answer, tail[1]>>)) BY <1>8 DEF Fallback
  <2>2. OneSubject({subject, kind}) \in BOOLEAN BY DEF OneSubject
  <2>3. NamedOnce(<<>>) BY DEF NamedOnce
  <2>4. Readable(Abstain) BY <2>3, OfReadable DEF Abstain
  <2>5. Readable(FirstMatch(<<answer, tail[1]>>)) BY <2>4, FirstOfTwo, TailsReadable
  <2> QED BY <2>1, <2>2, <2>5, StageReadable
<1> QED BY <1>1, <1>2, <1>3, <1>4, <1>5, <1>6, <1>7, <1>8 DEF Stages

(* Whatever built an answer, the one pass of _best leaves the source that a   *)
(* sort of it would have put in front, and there is such a sort: no chain     *)
(* names a source twice or loses one's readings, and every fold's figures are *)
(* numbers (_comparable, _ordered, _best).                                    *)
THEOREM BestLeadsAlways == Spec => []BestLeads
<1>1. Init => Readable(answer)
  <2> SUFFICES ASSUME Init PROVE Readable(answer) OBVIOUS
  <2>1. answer = Of(Everything, FALSE) BY DEF Init, Universe
  <2> QED BY <2>1, OfReadable
<1>2. Inv /\ Readable(answer) /\ [Next]_vars => Inv' /\ Readable(answer')
  <2> SUFFICES ASSUME Inv, Readable(answer), [Next]_vars PROVE Readable(answer')
    BY NextInv
  <2>1. IsSelection(answer) BY DEF Inv, KeyCovers
  <2>2. CASE Bases BY <2>2, BasesReadable
  <2>3. CASE Stages BY <2>1, <2>3, StagesReadable
  <2>4. CASE Open BY <2>4 DEF Open
  <2>5. CASE Settle
    <3> DEFINE w == Settled(answer)
    <3>1. DOMAIN answer = Fields BY <2>1 DEF IsSelection, Fields
    <3>2. w.sources = answer.sources /\ w.key = answer.key /\ w.fold = Nothing
      BY <3>1 DEF Settled, Fields
    <3>3. answer' = w BY <2>5 DEF Settle
    <3> HIDE DEF w
    <3>4. Readable(w) BY <3>2 DEF Readable
    <3> QED BY <3>3, <3>4
  <2>6. CASE UNCHANGED vars BY <2>6 DEF vars
  <2> QED BY <2>2, <2>3, <2>4, <2>5, <2>6 DEF Next
<1>3. Inv /\ Readable(answer) => BestLeads
  BY LeadsOrdered DEF Inv, KeyCovers
<1> DEFINE R == Readable(answer)
<1>4. R' <=> Readable(answer') OBVIOUS
<1>5. Inv /\ R /\ [Next]_vars => (Inv /\ R)' BY <1>2, <1>4
<1>6. Init => Inv /\ R BY <1>1, InitInv
<1> HIDE DEF R
<1>7. Inv /\ R => BestLeads BY <1>3 DEF R
<1> QED BY <1>5, <1>6, <1>7, PTL DEF Spec
=============================================================================
