------------------------ MODULE SimulationRunProofs ------------------------
(***************************************************************************)
(* Theorems about SimulationRun, for any trainers, readers, plans, machine *)
(* and release times: the process-wide factory is given back, no payload   *)
(* is read before its put is paid for, every read takes what a scheduler   *)
(* predicts, the ledger attributes every byte to the right pair, the       *)
(* outcome rows are complete, and the determinism gate names the event at  *)
(* which two runs part.                                                    *)
(*                                                                         *)
(* The argument follows a thread through the sleeps of its operation.      *)
(* What is left of them tells which rows the operation has written: the    *)
(* write row of a put and the fabric row of a get are both written by the  *)
(* last sleep, collapsed or not.  The rows of the serving volume's charges *)
(* are written one sleep at a time or all at the end; either way each read *)
(* can be given a row of its own, since every charge appends one.          *)
(***************************************************************************)
EXTENDS SimulationRun, FiniteSetTheorems, SequenceTheorems, WellFoundedInduction, TLAPS

-----------------------------------------------------------------------------
(* What the variables hold.                                                *)

Parts == [kind : {"xfer", "store", "mem"}, op : {"put", "get", "read", "write", "copy"},
          from : Volumes, to : Volumes, dt : Nat]

Row == [at : Nat, kind : {"compute", "burst"}, what : Volumes \cup {Mesh}]
         \cup [at : Nat, kind : {"xfer", "store", "mem"}, what : Parts]

Ledgers == [rows : SUBSET [id : Items, released : Nat, done : Nat], edges : Seq(Volumes \X Volumes),
            transfer : Nat, origin : Nat, wallclock : Nat, total : Nat]

TaskPcs == {"idle", "created", "released", "locating", "located", "awaiting", "routed",
            "putting", "getting", "keeping", "done", "failed", "stray"}

DriverPcs == {"start", "generating", "putting", "notifying", "notified", "gathering",
              "returned", "raised", "refused", "closed"}

Sleepings == Seq(Seq(Parts))

Drivers == [pc : DriverPcs, turn : Nat \ {0}, wake : Nat, sleeps : Sleepings, src : {Unbound}]

Tasks == [pc : TaskPcs, wake : Nat, sleeps : Sleepings, src : Volumes \cup {Unbound},
          from : Volumes \cup {Unbound}, opened : Nat]

(* A run is of one kind, and only a direct one has items that fail.        *)
Configured ==
  /\ run.workload \in {"put_get", "weight_sync", "routed"}
  /\ run.config \in Configurations
  /\ run.device \in Devices
  /\ run.release \in [Items -> Nat]
  /\ run.route \in [Items -> {Trainers[1]} \cup Items]
  /\ run.missing \subseteq Items
  /\ ~Direct => run.missing = {}

Typed ==
  /\ Configured
  /\ now \in Nat
  /\ main \in Drivers /\ main.turn <= Len(Publishers)
  /\ task \in [Items -> Tasks]
  /\ pub \in Tasks
  /\ stored \subseteq Volumes /\ listed \in Seq(Origins) /\ ready \subseteq Items
  /\ ledger \in Ledgers
  /\ trace \in Seq(Row)

-----------------------------------------------------------------------------
(* Where the threads are.                                                  *)

Putting == main.pc \in {"putting", "notifying", "notified"}

Preparing == main.pc \in {"start", "generating"} \/ Putting

(* Who holds the substitution.                                             *)
Holder ==
  IF Putting THEN Publishers[main.turn] ELSE IF main.pc = "gathering" THEN Mesh ELSE Nobody

SomeFailed == \E i \in Items : task[i].pc = "failed"

AllDone == \A i \in Items : task[i].pc = "done"

(* An item is where its kind of run takes it, bound to its own node once   *)
(* it has asked, and named a source once it has been answered.             *)
Placed(th, i) ==
  /\ th.pc # "putting"
  /\ Direct => th.pc \notin {"awaiting", "routed", "keeping"}
  /\ ~Direct => th.pc \notin {"locating", "located"}
  /\ th.pc = "failed" => i \in run.missing
  /\ th.pc \in {"locating", "located", "routed", "getting", "keeping", "done"} => th.src = i
  /\ th.pc \in {"located", "routed", "getting", "keeping", "done"} => th.from \in Volumes
  /\ th.pc = "routed" => th.from = run.route[i]

Places ==
  /\ owner = Holder /\ main.pc # "refused"
  /\ ~Direct => ~Putting
  /\ Direct /\ (main.pc = "notified" \/ ~Preparing) => listed # <<>>
  /\ pub.pc \in {"idle", "created", "putting", "done"}
  /\ Direct => pub.pc = "idle"
  /\ Preparing => pub.pc = "idle" /\ \A i \in Items : task[i].pc = "idle"
  /\ ~Preparing => \A i \in Items : task[i].pc # "idle"
  /\ \A i \in Items : Placed(task[i], i) /\ (task[i].pc = "stray" => SomeFailed)
  /\ main.pc = "returned" => AllDone
  /\ main.pc = "raised" => SomeFailed
  /\ main.pc = "closed" => AllDone \/ SomeFailed

(* What is left of the sleeps of an operation.                             *)
Tails(parts) ==
  LET s == Sleeps(parts) IN { SubSeq(s, k, Len(s)) : k \in 1 .. Len(s) }

(* A reader that keeps what it read is one that a route names.             *)
Staged(th, i) ==
  /\ th.pc = "getting" => th.sleeps \in Tails(GetParts(i, th.from))
  /\ th.pc = "keeping" => IsRelay(i) /\ th.sleeps \in Tails(PutParts(i, i))

Stages ==
  /\ main.pc = "putting" => main.sleeps \in Tails(PutParts(Publishers[main.turn], Publishers[main.turn]))
  /\ pub.pc = "putting" => pub.sleeps \in Tails(PutParts(Publishers[1], Publishers[1]))
  /\ \A i \in Items : Staged(task[i], i)

Base == Typed /\ Places /\ Stages

-----------------------------------------------------------------------------
(* The clock, and the prices.                                              *)

Awake(th) == Asleep(th) => now <= th.wake

(* What of a read is left to charge after the sleep that is under way.     *)
Owed(sleeps) ==
  IF Len(sleeps) = 3 THEN Duration(sleeps[2]) + Duration(sleeps[3])
  ELSE IF Len(sleeps) = 2 THEN Duration(sleeps[2]) ELSE 0

(* A read that is under way is on its price.                               *)
OnTime(th, i) ==
  th.pc = "getting" => th.wake + Owed(th.sleeps) = th.opened + ReadTime(th.from, i, Bytes)

Timed ==
  /\ Awake(main) /\ Awake(pub) /\ \A i \in Items : Awake(task[i])
  /\ \A k \in DOMAIN trace : trace[k].at <= now
  /\ \A i \in Items : OnTime(task[i], i)

(* The rows of storage writes and of fabric charges in a trace.            *)
WritesIn(rows, v) ==
  { k \in DOMAIN rows : rows[k].kind = "store" /\ rows[k].what.op = "write" /\ rows[k].what.to = v }

FetchesIn(rows, i) ==
  { k \in DOMAIN rows : rows[k].kind = "xfer" /\ rows[k].what.op = "get" /\ rows[k].what.to = i }

(* Who has read.                                                           *)
Read(i) == task[i].pc \in {"keeping", "done"}

(* A read has one row of its fabric charge, on the price.                  *)
OnPrice ==
  \A i \in Items :
    IF Read(i) THEN \E k \in DOMAIN trace :
                      /\ FetchesIn(trace, i) = {k}
                      /\ trace[k].at = task[i].opened + ReadTime(task[i].from, i, Bytes)
    ELSE FetchesIn(trace, i) = {}

(* A charge of the serving volume is over, for a read that has arrived and *)
(* for one with fewer sleeps left than it takes to come to it.             *)
Place(op) == IF op = "read" THEN 3 ELSE 2

Over(th, op) ==
  \/ th.pc \in {"keeping", "done"}
  \/ th.pc = "getting" /\ ~run.config.collapse_charges /\ Len(th.sleeps) < Place(op)

(* Each has a row of its own.                                              *)
OwnRows(row, op) ==
  /\ \A i \in Items : Over(task[i], op) => row[i] \in ServingRows(task[i].from, op, EndedAt(i, op))
  /\ \A i, j \in Items : Over(task[i], op) /\ Over(task[j], op) /\ row[i] = row[j] => i = j

OnRecord ==
  \A op \in Serving : ChargeOf(op) > 0 => \E row \in [Items -> Nat] : OwnRows(row, op)

(* An edge of the ledger for each.                                         *)
Counted ==
  /\ Range(ledger.edges) = { <<task[i].from, i>> : i \in { j \in Items : Read(j) } }
  /\ ledger.transfer = Bytes * Len(ledger.edges)
  /\ Len(ledger.edges) = Cardinality({ j \in Items : Read(j) })
  /\ ledger.origin = Bytes * Cardinality({ j \in Items : Read(j) /\ task[j].from \in Origins })

-----------------------------------------------------------------------------
(* Whose put has been paid for.                                            *)
Paid(v) ==
  \/ /\ Direct
     /\ \E k \in 1 .. Len(Publishers) :
          /\ Publishers[k] = v
          /\ k < main.turn \/ (k = main.turn /\ main.pc \notin {"start", "generating", "putting"})
  \/ ~Direct /\ v = Publishers[1] /\ pub.pc = "done"
  \/ ~Direct /\ v \in Items /\ task[v].pc = "done" /\ IsRelay(v)

(* What an item reads from has been paid for, and was before it opened it. *)
Sourced(th) ==
  /\ th.pc \in {"located", "getting", "keeping", "done"} => Paid(th.from)
  /\ th.pc \in {"getting", "keeping", "done"} =>
       \E k \in WritesIn(trace, th.from) : trace[k].at <= th.opened

Settled ==
  /\ \A v \in Volumes : IF Paid(v) THEN \E k \in DOMAIN trace : WritesIn(trace, v) = {k}
                        ELSE WritesIn(trace, v) = {}
  /\ \A k \in 1 .. Len(listed) : Direct /\ Paid(listed[k])
  /\ ~Direct => \A v \in ready : Paid(v)
  /\ \A i \in Items : Sourced(task[i])

-----------------------------------------------------------------------------
(* The outcome rows.                                                       *)
Rowed ==
  /\ \A r, s \in ledger.rows : r.id = s.id => r = s
  /\ { r.id : r \in ledger.rows } = { i \in Items : task[i].pc = "done" }
  /\ \A r \in ledger.rows : r.done <= now
  /\ ledger.total = IF Preparing THEN 0 ELSE Cardinality(Items)
  /\ main.pc \notin {"returned", "closed"} => ledger.wallclock = 0
  /\ main.pc = "gathering" /\ AllDone => \E r \in ledger.rows : r.done = now
  /\ main.pc = "returned" => /\ \A r \in ledger.rows : r.done <= ledger.wallclock
                             /\ \E r \in ledger.rows : r.done = ledger.wallclock

-----------------------------------------------------------------------------
(* Folds of sequences, unrolled.                                           *)

(* A set of natural numbers that is not empty has a least element.         *)
LEMMA Least ==
  ASSUME NEW S \in SUBSET Nat, S # {}
  PROVE  \E n \in S : \A m \in S : n <= m
<1> DEFINE R == { ss \in Nat \X Nat : ss[1] < ss[2] }
<1>1. IsWellFoundedOn(R, Nat)
  BY NatLessThanWellFounded, Zenon DEF OpToRel
<1>2. PICK n \in S : \A m \in S : ~ (<<m, n>> \in R)
  <2> HIDE DEF R
  <2> QED BY WFMin, <1>1
<1>3. ASSUME NEW m \in S PROVE n <= m
  <2>1. n \in Nat /\ m \in Nat OBVIOUS
  <2>2. m < n => <<m, n>> \in R BY <2>1
  <2> QED BY <1>2, <2>1, <2>2
<1> QED BY <1>3

(* The greatest of some first positions is taken from them by FoldLeft.    *)
LEMMA Greatest ==
  ASSUME NEW n \in Nat, NEW s \in SUBSET (1 .. n + 1), n + 1 \in s
  PROVE  Max(s) = n + 1 /\ s \ {Max(s)} \in SUBSET (1 .. n)
<1>1. \A y \in s : n + 1 >= y
  OBVIOUS
<1>2. ASSUME NEW x \in s, \A y \in s : x >= y PROVE x = n + 1
  <2>1. x >= n + 1 /\ x \in 1 .. n + 1
    BY <1>2
  <2> QED BY <2>1
<1>3. Max(s) = n + 1
  BY <1>1, <1>2 DEF Max
<1> QED BY <1>3

LEMMA FirstPositions ==
  ASSUME NEW N \in Nat, NEW k \in 1 .. N
  PROVE  /\ Max(1 .. k) = k /\ (1 .. k) \ {k} = 1 .. (k - 1)
         /\ 1 .. k \in SUBSET (1 .. N) /\ 1 .. k # {}
<1>1. k - 1 \in Nat /\ (k - 1) + 1 = k /\ k \in 1 .. k /\ 1 .. k \in SUBSET (1 .. N)
  OBVIOUS
<1>2. Max(1 .. k) = k
  BY <1>1, Greatest
<1> QED BY <1>1, <1>2

LEMMA MaxIn ==
  ASSUME NEW N \in Nat, NEW s \in SUBSET (1 .. N), s # {}
  PROVE  Max(s) \in s
<1> DEFINE above == { N - x : x \in s }
<1>1. above \in SUBSET Nat /\ above # {}
  <2>1. \A x \in s : N - x \in Nat
    OBVIOUS
  <2> QED BY <2>1
<1>2. PICK m \in above : \A n \in above : m <= n
  <2> HIDE DEF above
  <2> QED BY <1>1, Least
<1>3. PICK x \in s : m = N - x
  BY <1>2
<1>4. ASSUME NEW y \in s PROVE x >= y
  <2>1. N - y \in above /\ x \in 1 .. N /\ y \in 1 .. N
    OBVIOUS
  <2>2. N - x <= N - y
    BY <1>2, <1>3, <2>1
  <2> QED BY <2>1, <2>2
<1> QED BY <1>4 DEF Max

(* The fold of a step over the sets of first positions, by the greatest.   *)
Folding(g, N, base, step) ==
  \A s \in SUBSET (1 .. N) :
    g[s] = IF s = {} THEN base ELSE step[<<Max(s), g[s \ {Max(s)}]>>]

(* A step that stays in T can be folded.                                   *)
LEMMA FoldExists ==
  ASSUME NEW N \in Nat, NEW T, NEW base \in T, NEW step \in [(1 .. N) \X T -> T]
  PROVE  \E g \in [SUBSET (1 .. N) -> T] : Folding(g, N, base, step)
<1> DEFINE D(n) == SUBSET (1 .. n)
           Stepped(g, s) == IF s = {} THEN base ELSE step[<<Max(s), g[s \ {Max(s)}]>>]
           P(n) == \E g \in [D(n) -> T] : \A s \in D(n) : g[s] = Stepped(g, s)
           Bad == { n \in 0 .. N : ~P(n) }
<1>1. P(0)
  <2> DEFINE g == [s \in D(0) |-> base]
  <2>1. \A s \in D(0) : s = {}
    OBVIOUS
  <2>2. g \in [D(0) -> T] /\ \A s \in D(0) : g[s] = Stepped(g, s)
    BY <2>1
  <2> QED BY <2>2
<1>2. ASSUME NEW n \in Nat, n + 1 <= N, P(n) PROVE P(n + 1)
  <2>1. PICK g \in [D(n) -> T] : \A s \in D(n) : g[s] = Stepped(g, s)
    BY <1>2
  <2> DEFINE h == [s \in D(n + 1) |-> IF n + 1 \in s THEN step[<<n + 1, g[s \ {n + 1}]>>]
                                      ELSE g[s]]
  <2>2. ASSUME NEW s \in D(n + 1), n + 1 \in s
        PROVE  Max(s) = n + 1 /\ s \ {Max(s)} \in D(n) /\ s # {}
    BY <2>2, Greatest
  <2>3. ASSUME NEW s \in D(n + 1), n + 1 \notin s PROVE s \in D(n)
    BY <2>3
  <2>4. ASSUME NEW s \in D(n) PROVE s \in D(n + 1) /\ h[s] = g[s] /\ n + 1 \notin s
    OBVIOUS
  <2>5. \A s \in D(n + 1) : h[s] \in T
    <3> TAKE s \in D(n + 1)
    <3>1. CASE n + 1 \in s
      <4>1. s \ {n + 1} \in D(n)
        BY <2>2, <3>1
      <4>2. <<n + 1, g[s \ {n + 1}]>> \in (1 .. N) \X T
        BY <1>2, <2>1, <4>1
      <4> QED BY <3>1, <4>2
    <3>2. CASE n + 1 \notin s
      BY <2>1, <2>3, <3>2
    <3> QED BY <3>1, <3>2
  <2>6. \A s \in D(n + 1) : h[s] = Stepped(h, s)
    <3> TAKE s \in D(n + 1)
    <3>1. CASE n + 1 \in s
      <4>1. h[s] = step[<<n + 1, g[s \ {n + 1}]>>]
        BY <3>1
      <4>2. Max(s) = n + 1 /\ s \ {n + 1} \in D(n) /\ s # {}
        BY <2>2, <3>1
      <4>3. h[s \ {n + 1}] = g[s \ {n + 1}]
        BY <2>4, <4>2
      <4> HIDE DEF h, D
      <4> QED BY <4>1, <4>2, <4>3
    <3>2. CASE n + 1 \notin s
      <4>1. s \in D(n) /\ h[s] = g[s] /\ g[s] = Stepped(g, s)
        BY <2>1, <2>3, <3>2
      <4>2. ASSUME s # {} PROVE h[s \ {Max(s)}] = g[s \ {Max(s)}]
        <5>1. s \ {Max(s)} \in D(n)
          BY <4>1
        <5> QED BY <2>4, <5>1
      <4> HIDE DEF h, D
      <4> QED BY <4>1, <4>2
    <3> QED BY <3>1, <3>2
  <2>7. h \in [D(n + 1) -> T]
    BY <2>5
  <2> HIDE DEF h
  <2> QED BY <2>6, <2>7
<1> HIDE DEF P
<1>3. Bad = {}
  <2> SUFFICES ASSUME Bad # {} PROVE FALSE
    OBVIOUS
  <2>1. PICK m \in Bad : \A k \in Bad : m <= k
    <3>1. Bad \in SUBSET Nat
      OBVIOUS
    <3> HIDE DEF Bad
    <3> QED BY <3>1, Least
  <2>2. m \in 0 .. N /\ m # 0
    BY <1>1
  <2>3. m - 1 \in Nat /\ m - 1 \in 0 .. N /\ (m - 1) + 1 = m /\ m <= N
    BY <2>2
  <2>4. P(m - 1)
    BY <2>1, <2>3
  <2>5. P((m - 1) + 1)
    BY <1>2, <2>3, <2>4
  <2> QED BY <2>1, <2>3, <2>5
<1>4. PICK g \in [SUBSET (1 .. N) -> T] : \A s \in SUBSET (1 .. N) : g[s] = Stepped(g, s)
  <2>1. N \in 0 .. N
    OBVIOUS
  <2>2. P(N)
    BY <1>3, <2>1
  <2> QED BY <2>2 DEF P
<1> QED BY <1>4 DEF Folding

(* What has been folded when the first k elements have been taken.         *)
LEMMA DurationSteps ==
  ASSUME NEW parts \in Seq(Parts)
  PROVE  \E d : /\ d[0] = 0 /\ Duration(parts) = d[Len(parts)]
                /\ \A k \in 1 .. Len(parts) : d[k] = d[k - 1] + parts[k].dt
<1> DEFINE N == Len(parts)
           step == [p \in (1 .. N) \X Nat |-> p[2] + parts[p[1]].dt]
           Folds(g) == g = [s \in SUBSET (1 .. N) |->
                              IF s = {} THEN 0 ELSE g[s \ {Max(s)}] + parts[Max(s)].dt]
           g == CHOOSE g : Folds(g)
           d == [k \in 0 .. N |-> g[1 .. k]]
<1>1. N \in Nat /\ DOMAIN parts = 1 .. N /\ \A k \in 1 .. N : parts[k].dt \in Nat
  <2>1. ASSUME NEW k \in 1 .. N PROVE parts[k].dt \in Nat
    <3>1. parts[k] \in Parts
      OBVIOUS
    <3> QED BY <3>1 DEF Parts
  <2> QED BY <2>1
<1>2. Duration(parts) = g[1 .. N]
  BY <1>1 DEF Duration, FoldLeft, MapThenFoldSet
<1>3. \E f : Folds(f)
  <2>1. step \in [(1 .. N) \X Nat -> Nat]
    BY <1>1
  <2>2. PICK f \in [SUBSET (1 .. N) -> Nat] :
           \A s \in SUBSET (1 .. N) :
             f[s] = IF s = {} THEN 0 ELSE step[<<Max(s), f[s \ {Max(s)}]>>]
    <3> DEFINE T == Nat
           base == 0
    <3>1. N \in Nat /\ base \in T /\ step \in [(1 .. N) \X T -> T]
      BY <1>1, <2>1
    <3> HIDE DEF step, N, T, base
    <3>2. \E f \in [SUBSET (1 .. N) -> T] : Folding(f, N, base, step)
      BY <3>1, FoldExists
    <3> QED BY <3>2 DEF T, base, Folding
  <2>3. ASSUME NEW s \in SUBSET (1 .. N), s # {} PROVE Max(s) \in 1 .. N
    BY <2>3, MaxIn, <1>1
  <2>4. ASSUME NEW s \in SUBSET (1 .. N), s # {}
        PROVE  step[<<Max(s), f[s \ {Max(s)}]>>] = f[s \ {Max(s)}] + parts[Max(s)].dt
    <3>1. <<Max(s), f[s \ {Max(s)}]>> \in (1 .. N) \X Nat
      BY <2>2, <2>3, <2>4
    <3> QED BY <3>1
  <2> HIDE DEF step
  <2>5. Folds(f)
    BY <2>2, <2>4
  <2> QED BY <2>5
<1>4. Folds(g)
  BY <1>3
<1> HIDE DEF g
<1>5. ASSUME NEW k \in 1 .. N PROVE g[1 .. k] = g[1 .. (k - 1)] + parts[k].dt
  <2>1. /\ Max(1 .. k) = k /\ (1 .. k) \ {k} = 1 .. (k - 1)
        /\ 1 .. k \in SUBSET (1 .. N) /\ 1 .. k # {}
    BY <1>1, FirstPositions
  <2> QED BY <1>4, <2>1
<1>6. g[1 .. 0] = 0
  <2>1. 1 .. 0 = {} /\ 1 .. 0 \in SUBSET (1 .. N)
    OBVIOUS
  <2> QED BY <1>4, <2>1
<1>7. /\ d[0] = 0 /\ d[N] = g[1 .. N]
      /\ \A k \in 1 .. N : d[k] = d[k - 1] + parts[k].dt
  BY <1>1, <1>5, <1>6
<1> HIDE DEF d
<1> QED BY <1>2, <1>7

(* A row is kept, or it is free.                                           *)
Taken(rows, p) == IF p.kind = "xfer" \/ p.dt > 0 THEN Append(rows, p) ELSE rows

LEMMA EmittedSteps ==
  ASSUME NEW parts \in Seq(Parts)
  PROVE  \E d : /\ d[0] = <<>> /\ Emitted(parts) = d[Len(parts)]
                /\ \A k \in 1 .. Len(parts) : d[k] = Taken(d[k - 1], parts[k])
<1> DEFINE N == Len(parts)
           step == [p \in (1 .. N) \X Seq(Parts) |-> Taken(p[2], parts[p[1]])]
           Folds(g) == g = [s \in SUBSET (1 .. N) |->
                              IF s = {} THEN <<>> ELSE Taken(g[s \ {Max(s)}], parts[Max(s)])]
           g == CHOOSE g : Folds(g)
           d == [k \in 0 .. N |-> g[1 .. k]]
<1>1. N \in Nat /\ DOMAIN parts = 1 .. N /\ \A k \in 1 .. N : parts[k] \in Parts
  OBVIOUS
<1>2. Emitted(parts) = g[1 .. N]
  BY <1>1 DEF Emitted, Taken, FoldLeft, MapThenFoldSet
<1>3. \E f : Folds(f)
  <2>1. step \in [(1 .. N) \X Seq(Parts) -> Seq(Parts)]
    BY <1>1 DEF Taken
  <2>2. PICK f \in [SUBSET (1 .. N) -> Seq(Parts)] :
           \A s \in SUBSET (1 .. N) :
             f[s] = IF s = {} THEN <<>> ELSE step[<<Max(s), f[s \ {Max(s)}]>>]
    <3> DEFINE T == Seq(Parts)
           base == <<>>
    <3>1. N \in Nat /\ base \in T /\ step \in [(1 .. N) \X T -> T]
      BY <1>1, <2>1
    <3> HIDE DEF step, N, T, base
    <3>2. \E f \in [SUBSET (1 .. N) -> T] : Folding(f, N, base, step)
      BY <3>1, FoldExists
    <3> QED BY <3>2 DEF T, base, Folding
  <2>3. ASSUME NEW s \in SUBSET (1 .. N), s # {} PROVE Max(s) \in 1 .. N
    BY <2>3, MaxIn, <1>1
  <2>4. ASSUME NEW s \in SUBSET (1 .. N), s # {}
        PROVE  step[<<Max(s), f[s \ {Max(s)}]>>] = Taken(f[s \ {Max(s)}], parts[Max(s)])
    <3>1. <<Max(s), f[s \ {Max(s)}]>> \in (1 .. N) \X Seq(Parts)
      BY <2>2, <2>3, <2>4
    <3> QED BY <3>1
  <2> HIDE DEF step
  <2>5. Folds(f)
    BY <2>2, <2>4
  <2> QED BY <2>5
<1>4. Folds(g)
  BY <1>3
<1> HIDE DEF g
<1>5. ASSUME NEW k \in 1 .. N PROVE g[1 .. k] = Taken(g[1 .. (k - 1)], parts[k])
  <2>1. /\ Max(1 .. k) = k /\ (1 .. k) \ {k} = 1 .. (k - 1)
        /\ 1 .. k \in SUBSET (1 .. N) /\ 1 .. k # {}
    BY <1>1, FirstPositions
  <2> QED BY <1>4, <2>1
<1>6. g[1 .. 0] = <<>>
  <2>1. 1 .. 0 = {} /\ 1 .. 0 \in SUBSET (1 .. N)
    OBVIOUS
  <2> QED BY <1>4, <2>1
<1>7. /\ d[0] = <<>> /\ d[N] = g[1 .. N]
      /\ \A k \in 1 .. N : d[k] = Taken(d[k - 1], parts[k])
  BY <1>1, <1>5, <1>6
<1> HIDE DEF d
<1> QED BY <1>2, <1>7

LEMMA RecordTransferType ==
  ASSUME NEW l \in Ledgers, NEW p \in Parts
  PROVE  RecordTransfer(l, p) \in Ledgers
<1>1. Bytes \in Nat
  BY RunAssumption DEF Bytes
<1>2. /\ l.edges \in Seq(Volumes \X Volumes) /\ l.transfer \in Nat /\ l.origin \in Nat
      /\ <<p.from, p.to>> \in Volumes \X Volumes
  BY DEF Ledgers, Parts
<1>3. Append(l.edges, <<p.from, p.to>>) \in Seq(Volumes \X Volumes)
  BY <1>2
<1>4. /\ l.transfer + Bytes \in Nat
      /\ l.origin + (IF p.from \in Origins THEN Bytes ELSE 0) \in Nat
  BY <1>1, <1>2
<1> DEFINE T == Seq(Volumes \X Volumes)
<1> HIDE DEF T
<1>5. Append(l.edges, <<p.from, p.to>>) \in T /\ l \in [rows : SUBSET [id : Items, released : Nat, done : Nat],
        edges : T, transfer : Nat, origin : Nat, wallclock : Nat, total : Nat]
  BY <1>3 DEF T, Ledgers
<1>6. RecordTransfer(l, p) \in [rows : SUBSET [id : Items, released : Nat, done : Nat],
        edges : T, transfer : Nat, origin : Nat, wallclock : Nat, total : Nat]
  BY <1>4, <1>5 DEF RecordTransfer
<1> QED BY <1>6 DEF T, Ledgers

LEMMA AccountedSteps ==
  ASSUME NEW parts \in Seq(Parts), NEW l \in Ledgers
  PROVE  \E d : /\ d[0] = l /\ Accounted(l, parts) = d[Len(parts)]
                /\ \A k \in 1 .. Len(parts) : d[k] = RecordTransfer(d[k - 1], parts[k])
<1> DEFINE N == Len(parts)
           step == [p \in (1 .. N) \X Ledgers |-> RecordTransfer(p[2], parts[p[1]])]
           Folds(g) == g = [s \in SUBSET (1 .. N) |->
                              IF s = {} THEN l ELSE RecordTransfer(g[s \ {Max(s)}], parts[Max(s)])]
           g == CHOOSE g : Folds(g)
           d == [k \in 0 .. N |-> g[1 .. k]]
<1>1. N \in Nat /\ DOMAIN parts = 1 .. N /\ \A k \in 1 .. N : parts[k] \in Parts
  OBVIOUS
<1>2. Accounted(l, parts) = g[1 .. N]
  BY <1>1 DEF Accounted, FoldLeft, MapThenFoldSet
<1>3. \E f : Folds(f)
  <2>1. step \in [(1 .. N) \X Ledgers -> Ledgers]
    BY <1>1, RecordTransferType
  <2>2. PICK f \in [SUBSET (1 .. N) -> Ledgers] :
           \A s \in SUBSET (1 .. N) :
             f[s] = IF s = {} THEN l ELSE step[<<Max(s), f[s \ {Max(s)}]>>]
    <3> DEFINE T == Ledgers
           base == l
    <3>1. N \in Nat /\ base \in T /\ step \in [(1 .. N) \X T -> T]
      BY <1>1, <2>1
    <3> HIDE DEF step, N, T, base
    <3>2. \E f \in [SUBSET (1 .. N) -> T] : Folding(f, N, base, step)
      BY <3>1, FoldExists
    <3> QED BY <3>2 DEF T, base, Folding
  <2>3. ASSUME NEW s \in SUBSET (1 .. N), s # {} PROVE Max(s) \in 1 .. N
    BY <2>3, MaxIn, <1>1
  <2>4. ASSUME NEW s \in SUBSET (1 .. N), s # {}
        PROVE  step[<<Max(s), f[s \ {Max(s)}]>>] = RecordTransfer(f[s \ {Max(s)}], parts[Max(s)])
    <3>1. <<Max(s), f[s \ {Max(s)}]>> \in (1 .. N) \X Ledgers
      BY <2>2, <2>3, <2>4
    <3> QED BY <3>1
  <2> HIDE DEF step
  <2>5. Folds(f)
    BY <2>2, <2>4
  <2> QED BY <2>5
<1>4. Folds(g)
  BY <1>3
<1> HIDE DEF g
<1>5. ASSUME NEW k \in 1 .. N PROVE g[1 .. k] = RecordTransfer(g[1 .. (k - 1)], parts[k])
  <2>1. /\ Max(1 .. k) = k /\ (1 .. k) \ {k} = 1 .. (k - 1)
        /\ 1 .. k \in SUBSET (1 .. N) /\ 1 .. k # {}
    BY <1>1, FirstPositions
  <2> QED BY <1>4, <2>1
<1>6. g[1 .. 0] = l
  <2>1. 1 .. 0 = {} /\ 1 .. 0 \in SUBSET (1 .. N)
    OBVIOUS
  <2> QED BY <1>4, <2>1
<1>7. /\ d[0] = l /\ d[N] = g[1 .. N]
      /\ \A k \in 1 .. N : d[k] = RecordTransfer(d[k - 1], parts[k])
  BY <1>1, <1>5, <1>6
<1> HIDE DEF d
<1> QED BY <1>2, <1>7

(* An operation has at most three components.                              *)
LEMMA OneComponent ==
  ASSUME NEW p \in Parts
  PROVE  /\ <<p>> \in Seq(Parts) /\ Duration(<<p>>) = p.dt
         /\ Emitted(<<p>>) = Taken(<<>>, p)
         /\ \A l \in Ledgers : Accounted(l, <<p>>) = RecordTransfer(l, p)
<1> DEFINE s == <<p>>
<1>1. s \in Seq(Parts) /\ Len(s) = 1 /\ s[1] = p /\ p.dt \in Nat
  BY DEF Parts
<1> HIDE DEF s
<1>2. Duration(s) = p.dt
  <2>1. PICK d : /\ d[0] = 0 /\ Duration(s) = d[Len(s)]
                 /\ \A k \in 1 .. Len(s) : d[k] = d[k - 1] + s[k].dt
    BY <1>1, DurationSteps
  <2> QED BY <1>1, <2>1
<1>3. Emitted(s) = Taken(<<>>, p)
  <2>1. PICK d : /\ d[0] = <<>> /\ Emitted(s) = d[Len(s)]
                 /\ \A k \in 1 .. Len(s) : d[k] = Taken(d[k - 1], s[k])
    BY <1>1, EmittedSteps
  <2> QED BY <1>1, <2>1
<1>4. ASSUME NEW l \in Ledgers PROVE Accounted(l, s) = RecordTransfer(l, p)
  <2>1. PICK d : /\ d[0] = l /\ Accounted(l, s) = d[Len(s)]
                 /\ \A k \in 1 .. Len(s) : d[k] = RecordTransfer(d[k - 1], s[k])
    BY <1>1, AccountedSteps
  <2> QED BY <1>1, <2>1
<1> QED BY <1>1, <1>2, <1>3, <1>4 DEF s

LEMMA TwoComponents ==
  ASSUME NEW p \in Parts, NEW q \in Parts
  PROVE  /\ <<p, q>> \in Seq(Parts) /\ Duration(<<p, q>>) = p.dt + q.dt
         /\ Emitted(<<p, q>>) = Taken(Taken(<<>>, p), q)
         /\ \A l \in Ledgers :
              Accounted(l, <<p, q>>) = RecordTransfer(RecordTransfer(l, p), q)
<1> DEFINE s == <<p, q>>
<1>1. s \in Seq(Parts) /\ Len(s) = 2 /\ s[1] = p /\ s[2] = q /\ p.dt \in Nat /\ q.dt \in Nat
  BY DEF Parts
<1> HIDE DEF s
<1>2. Duration(s) = p.dt + q.dt
  <2>1. PICK d : /\ d[0] = 0 /\ Duration(s) = d[Len(s)]
                 /\ \A k \in 1 .. Len(s) : d[k] = d[k - 1] + s[k].dt
    BY <1>1, DurationSteps
  <2>2. d[1] = d[0] + s[1].dt /\ d[2] = d[1] + s[2].dt
    BY <1>1, <2>1
  <2> QED BY <1>1, <2>1, <2>2
<1>3. Emitted(s) = Taken(Taken(<<>>, p), q)
  <2>1. PICK d : /\ d[0] = <<>> /\ Emitted(s) = d[Len(s)]
                 /\ \A k \in 1 .. Len(s) : d[k] = Taken(d[k - 1], s[k])
    BY <1>1, EmittedSteps
  <2>2. d[1] = Taken(d[0], s[1]) /\ d[2] = Taken(d[1], s[2])
    BY <1>1, <2>1
  <2> QED BY <1>1, <2>1, <2>2
<1>4. ASSUME NEW l \in Ledgers
      PROVE  Accounted(l, s) = RecordTransfer(RecordTransfer(l, p), q)
  <2>1. PICK d : /\ d[0] = l /\ Accounted(l, s) = d[Len(s)]
                 /\ \A k \in 1 .. Len(s) : d[k] = RecordTransfer(d[k - 1], s[k])
    BY <1>1, AccountedSteps
  <2>2. d[1] = RecordTransfer(d[0], s[1]) /\ d[2] = RecordTransfer(d[1], s[2])
    BY <1>1, <2>1
  <2> QED BY <1>1, <2>1, <2>2
<1> QED BY <1>1, <1>2, <1>3, <1>4 DEF s

LEMMA ThreeComponents ==
  ASSUME NEW p \in Parts, NEW q \in Parts, NEW r \in Parts
  PROVE  /\ <<p, q, r>> \in Seq(Parts) /\ Duration(<<p, q, r>>) = p.dt + q.dt + r.dt
         /\ Emitted(<<p, q, r>>) = Taken(Taken(Taken(<<>>, p), q), r)
         /\ \A l \in Ledgers :
              Accounted(l, <<p, q, r>>)
                = RecordTransfer(RecordTransfer(RecordTransfer(l, p), q), r)
<1> DEFINE s == <<p, q, r>>
<1>1. /\ s \in Seq(Parts) /\ Len(s) = 3 /\ s[1] = p /\ s[2] = q /\ s[3] = r
      /\ p.dt \in Nat /\ q.dt \in Nat /\ r.dt \in Nat
  BY DEF Parts
<1> HIDE DEF s
<1>2. Duration(s) = p.dt + q.dt + r.dt
  <2>1. PICK d : /\ d[0] = 0 /\ Duration(s) = d[Len(s)]
                 /\ \A k \in 1 .. Len(s) : d[k] = d[k - 1] + s[k].dt
    BY <1>1, DurationSteps
  <2>2. d[1] = d[0] + s[1].dt /\ d[2] = d[1] + s[2].dt /\ d[3] = d[2] + s[3].dt
    BY <1>1, <2>1
  <2> QED BY <1>1, <2>1, <2>2
<1>3. Emitted(s) = Taken(Taken(Taken(<<>>, p), q), r)
  <2>1. PICK d : /\ d[0] = <<>> /\ Emitted(s) = d[Len(s)]
                 /\ \A k \in 1 .. Len(s) : d[k] = Taken(d[k - 1], s[k])
    BY <1>1, EmittedSteps
  <2>2. d[1] = Taken(d[0], s[1]) /\ d[2] = Taken(d[1], s[2]) /\ d[3] = Taken(d[2], s[3])
    BY <1>1, <2>1
  <2> QED BY <1>1, <2>1, <2>2
<1>4. ASSUME NEW l \in Ledgers
      PROVE  Accounted(l, s) = RecordTransfer(RecordTransfer(RecordTransfer(l, p), q), r)
  <2>1. PICK d : /\ d[0] = l /\ Accounted(l, s) = d[Len(s)]
                 /\ \A k \in 1 .. Len(s) : d[k] = RecordTransfer(d[k - 1], s[k])
    BY <1>1, AccountedSteps
  <2>2. /\ d[1] = RecordTransfer(d[0], s[1]) /\ d[2] = RecordTransfer(d[1], s[2])
        /\ d[3] = RecordTransfer(d[2], s[3])
    BY <1>1, <2>1
  <2> QED BY <1>1, <2>1, <2>2
<1> QED BY <1>1, <1>2, <1>3, <1>4 DEF s

-----------------------------------------------------------------------------
(* The costs and the components.                                           *)

LEMMA CostNat ==
  ASSUME NEW a, NEW b
  PROVE  /\ Bytes \in Nat \ {0}
         /\ NetworkTime(a, b, Bytes) \in Nat
         /\ StorageTime(Bytes, "read") \in Nat /\ StorageTime(Bytes, "write") \in Nat
         /\ MemCopyTime(Bytes) \in Nat
<1>1. Bytes \in Nat \ {0}
  BY RunAssumption DEF Bytes
<1>2. ASSUME NEW c \in Cost PROVE Priced(c, Bytes) \in Nat
  <2>1. c[1] \in Nat /\ c[2] \in Nat
    BY DEF Cost
  <2>2. Bytes * c[2] \in Nat
    BY <1>1, <2>1
  <2> QED BY <1>1, <2>1, <2>2 DEF Priced
<1>3. /\ Profile.storage["read"] \in Cost /\ Profile.storage["write"] \in Cost
      /\ Profile.ram \in Cost
      /\ \A t \in {"shm", "nvlink", "rdma"} : Profile.tiers[t] \in Cost
  BY RunAssumption DEF MachineProfile
<1>4. Locality(a, b) \in {"shm", "nvlink", "rdma"}
  BY DEF Locality
<1> QED BY <1>1, <1>2, <1>3, <1>4
        DEF NetworkTime, NetworkRate, StorageTime, StorageRate, MemCopyTime

(* A configured run sleeps for what its settings say.                      *)
LEMMA SettingsType ==
  ASSUME NEW c \in Configurations
  PROVE  c.collapse_charges \in BOOLEAN /\ c.controller_rtt \in Nat
<1>1. PICK env \in Environments, args \in CommandLines : c = Configure(env, RunFlags(args))
  BY DEF Configurations
<1> DEFINE flags == RunFlags(args)
<1>2. /\ DOMAIN flags = {"collapse_charges", "controller_rtt"}
      /\ flags.collapse_charges \in {TRUE, Unset}
      /\ flags.controller_rtt \in Nat \cup {Unset}
  BY SettingsAssumption DEF RunFlags
<1>3. /\ DOMAIN SimConfig = {"collapse_charges", "controller_rtt"}
      /\ SimConfig.collapse_charges = FALSE /\ SimConfig.controller_rtt = 0
  BY DEF SimConfig
<1>4. /\ DOMAIN env = {"collapse_charges", "controller_rtt"}
      /\ env["controller_rtt"] \in Nat \cup {Unset}
  BY <1>3, SettingsAssumption
<1> HIDE DEF flags
<1>5. /\ Given(flags) \subseteq DOMAIN flags /\ Given(env) \subseteq DOMAIN env
      /\ \A f \in Given(flags) : flags[f] # Unset
      /\ \A f \in Given(env) : env[f] # Unset
  BY DEF Given
<1>8. /\ DOMAIN FromEnv(env) = Given(env)
      /\ "collapse_charges" \in Given(env) => FromEnv(env)["collapse_charges"] \in BOOLEAN
      /\ "controller_rtt" \in Given(env) =>
           FromEnv(env)["controller_rtt"] = env["controller_rtt"]
  <2>1. ASSUME NEW f \in Given(env)
        PROVE  FromEnv(env)[f] = IF f = "collapse_charges" THEN BoolEnv(env[f]) ELSE env[f]
    BY DEF FromEnv
  <2>2. DOMAIN FromEnv(env) = Given(env)
    BY DEF FromEnv
  <2>3. \A x : BoolEnv(x) \in BOOLEAN
    BY DEF BoolEnv
  <2>4. "controller_rtt" # "collapse_charges"
    OBVIOUS
  <2> QED BY <2>1, <2>2, <2>3, <2>4, Zenon
<1>9. \A f \in {"collapse_charges", "controller_rtt"} :
        c[f] = IF f \in Given(flags) THEN flags[f]
               ELSE IF f \in Given(env) THEN FromEnv(env)[f] ELSE SimConfig[f]
  BY <1>1, <1>3 DEF Configure, flags
<1>10. c["collapse_charges"] \in BOOLEAN
  BY <1>2, <1>3, <1>5, <1>8, <1>9
<1>11. c["controller_rtt"] \in Nat
  BY <1>2, <1>3, <1>4, <1>5, <1>8, <1>9, SettingsAssumption
<1> QED BY <1>10, <1>11

-----------------------------------------------------------------------------
(* The rows a sleep writes.                                                *)

LEMMA RowSets == \A v : Writes(v) = WritesIn(trace, v) /\ Fetches(v) = FetchesIn(trace, v)
BY DEF Writes, WritesIn, Fetches, FetchesIn

(* What a volume's put and a reader's get are made of.                     *)
PutXfer(v) == Part("xfer", "put", v, v, NetworkTime(v, v, Bytes))
PutWrite(v) == Part("store", "write", v, v, StorageTime(Bytes, "write"))
GetRead(d) == Part("store", "read", d, d, StorageTime(Bytes, "read"))
GetCopy(d) == Part("mem", "copy", d, d, MemCopyTime(Bytes))
GetXfer(i, d) == Part("xfer", "get", d, i, NetworkTime(d, i, Bytes))

LEMMA Components ==
  ASSUME NEW v \in Volumes, NEW d \in Volumes
  PROVE  /\ PutXfer(v) \in Parts /\ PutWrite(v) \in Parts
         /\ GetRead(d) \in Parts /\ GetCopy(d) \in Parts /\ GetXfer(v, d) \in Parts
BY CostNat DEF PutXfer, PutWrite, GetRead, GetCopy, GetXfer, Part, Parts

(* The rows of some components are stamped now.                            *)
LEMMA RowsType ==
  ASSUME now \in Nat, NEW q \in Seq(Parts)
  PROVE  /\ Rows(q) \in Seq(Row) /\ Len(Rows(q)) = Len(q) /\ DOMAIN Rows(q) = 1 .. Len(q)
         /\ \A k \in 1 .. Len(q) : Rows(q)[k] = [at |-> now, kind |-> q[k].kind, what |-> q[k]]
<1>1. DOMAIN q = 1 .. Len(q) /\ Len(q) \in Nat
  OBVIOUS
<1>2. ASSUME NEW k \in 1 .. Len(q)
      PROVE  [at |-> now, kind |-> q[k].kind, what |-> q[k]] \in Row
  <2>1. q[k] \in Parts
    OBVIOUS
  <2>2. q[k].kind \in {"xfer", "store", "mem"}
    BY <2>1 DEF Parts
  <2> HIDE DEF Parts
  <2>3. [at |-> now, kind |-> q[k].kind, what |-> q[k]]
           \in [at : Nat, kind : {"xfer", "store", "mem"}, what : Parts]
    BY <2>1, <2>2
  <2> QED BY <2>3 DEF Row
<1>3. Rows(q) = [k \in 1 .. Len(q) |-> [at |-> now, kind |-> q[k].kind, what |-> q[k]]]
  BY <1>1 DEF Rows
<1>4. Rows(q) \in [1 .. Len(q) -> Row]
  BY <1>2, <1>3
<1>5. Rows(q) \in Seq(Row) /\ Len(Rows(q)) = Len(q)
  BY <1>1, <1>4
<1> QED BY <1>1, <1>3, <1>5

LEMMA ShortSequences ==
  ASSUME NEW S, NEW q \in Seq(S)
  PROVE  /\ Len(q) = 1 => q = <<q[1]>>
         /\ Len(q) = 2 => q = <<q[1], q[2]>>
         /\ Len(q) = 3 => q = <<q[1], q[2], q[3]>>
<1>1. ASSUME Len(q) = 1 PROVE q = <<q[1]>>
  <2> DEFINE u == <<q[1]>>
  <2>1. q[1] \in S
    BY <1>1
  <2>2. u \in Seq(S) /\ Len(u) = 1 /\ u[1] = q[1]
    BY <2>1
  <2>3. \A k \in 1 .. Len(q) : q[k] = u[k]
    BY <1>1, <2>2
  <2> HIDE DEF u
  <2>4. q = u
    BY <1>1, <2>2, <2>3, SeqEqual
  <2> QED BY <2>4 DEF u
<1>2. ASSUME Len(q) = 2 PROVE q = <<q[1], q[2]>>
  <2> DEFINE u == <<q[1], q[2]>>
  <2>1. q[1] \in S /\ q[2] \in S
    <3>1. 1 \in 1 .. Len(q) /\ 2 \in 1 .. Len(q)
      BY <1>2
    <3> QED BY <3>1, ElementOfSeq
  <2>2. u \in Seq(S) /\ Len(u) = 2 /\ u[1] = q[1] /\ u[2] = q[2]
    BY <2>1
  <2>3. \A k \in 1 .. Len(q) : q[k] = u[k]
    BY <1>2, <2>2
  <2> HIDE DEF u
  <2>4. q = u
    BY <1>2, <2>2, <2>3, SeqEqual
  <2> QED BY <2>4 DEF u
<1>3. ASSUME Len(q) = 3 PROVE q = <<q[1], q[2], q[3]>>
  <2> DEFINE u == <<q[1], q[2], q[3]>>
  <2>1. q[1] \in S /\ q[2] \in S /\ q[3] \in S
    <3>1. 1 \in 1 .. Len(q) /\ 2 \in 1 .. Len(q) /\ 3 \in 1 .. Len(q)
      BY <1>3
    <3> QED BY <3>1, ElementOfSeq
  <2>2. u \in Seq(S) /\ Len(u) = 3 /\ u[1] = q[1] /\ u[2] = q[2] /\ u[3] = q[3]
    BY <2>1
  <2>3. \A k \in 1 .. Len(q) : q[k] = u[k]
    BY <1>3, <2>2
  <2> HIDE DEF u
  <2>4. q = u
    BY <1>3, <2>2, <2>3, SeqEqual
  <2> QED BY <2>4 DEF u
<1> QED BY <1>1, <1>2, <1>3

LEMMA Rests ==
  ASSUME NEW a, NEW b, NEW c
  PROVE  /\ Len(<<a>>) = 1 /\ Len(<<a, b>>) = 2 /\ Len(<<a, b, c>>) = 3
         /\ SubSeq(<<a>>, 1, 1) = <<a>>
         /\ SubSeq(<<a, b>>, 1, 2) = <<a, b>> /\ SubSeq(<<a, b>>, 2, 2) = <<b>>
         /\ SubSeq(<<a, b, c>>, 1, 3) = <<a, b, c>> /\ SubSeq(<<a, b, c>>, 2, 3) = <<b, c>>
         /\ SubSeq(<<a, b, c>>, 3, 3) = <<c>>
<1> DEFINE S == {a, b, c}
           one == <<a>>
           two == <<a, b>>
           three == <<a, b, c>>
<1>1. /\ one \in Seq(S) /\ two \in Seq(S) /\ three \in Seq(S)
      /\ Len(one) = 1 /\ Len(two) = 2 /\ Len(three) = 3
      /\ one[1] = a /\ two[1] = a /\ two[2] = b /\ three[1] = a /\ three[2] = b /\ three[3] = c
  OBVIOUS
<1> HIDE DEF S, one, two, three
<1>2. SubSeq(one, 1, 1) = one /\ SubSeq(two, 1, 2) = two /\ SubSeq(three, 1, 3) = three
  BY <1>1, SubSeqFull
<1>3. SubSeq(two, 2, 2) = <<b>>
  <2>1. \A k \in 2 .. 2 : two[k] \in S
    BY <1>1
  <2>2. /\ SubSeq(two, 2, 2) \in Seq(S) /\ Len(SubSeq(two, 2, 2)) = 1
        /\ \A k \in 1 .. 2 - 2 + 1 : SubSeq(two, 2, 2)[k] = two[2 + k - 1]
    BY <2>1, SubSeqProperties
  <2>3. SubSeq(two, 2, 2)[1] = b
    BY <1>1, <2>2
  <2> QED BY <2>2, <2>3, ShortSequences
<1>4. SubSeq(three, 2, 3) = <<b, c>>
  <2>1. \A k \in 2 .. 3 : three[k] \in S
    BY <1>1
  <2>2. /\ SubSeq(three, 2, 3) \in Seq(S) /\ Len(SubSeq(three, 2, 3)) = 2
        /\ \A k \in 1 .. 3 - 2 + 1 : SubSeq(three, 2, 3)[k] = three[2 + k - 1]
    BY SMTT(30), <2>1, SubSeqProperties
  <2>3. SubSeq(three, 2, 3)[1] = b /\ SubSeq(three, 2, 3)[2] = c
    BY <1>1, <2>2
  <2> QED BY <2>2, <2>3, ShortSequences
<1>5. SubSeq(three, 3, 3) = <<c>>
  <2>1. \A k \in 3 .. 3 : three[k] \in S
    BY SMTT(30), <1>1
  <2>2. /\ SubSeq(three, 3, 3) \in Seq(S) /\ Len(SubSeq(three, 3, 3)) = 1
        /\ \A k \in 1 .. 3 - 3 + 1 : SubSeq(three, 3, 3)[k] = three[3 + k - 1]
    BY <2>1, SubSeqProperties
  <2>3. SubSeq(three, 3, 3)[1] = c
    BY <1>1, <2>2
  <2> QED BY <2>2, <2>3, ShortSequences
<1> QED BY <1>1, <1>2, <1>3, <1>4, <1>5 DEF one, two, three

(* What is left of a put's sleeps.                                         *)
LEMMA PutTails ==
  ASSUME Configured, NEW v \in Volumes, NEW s \in Tails(PutParts(v, v))
  PROVE  \/ s = << <<PutXfer(v), PutWrite(v)>> >>
         \/ s = << <<PutXfer(v)>>, <<PutWrite(v)>> >>
            /\ << <<PutWrite(v)>> >> \in Tails(PutParts(v, v))
         \/ s = << <<PutWrite(v)>> >>
<1> DEFINE x == PutXfer(v)
           w == PutWrite(v)
           z == Sleeps(<<x, w>>)
<1>1. PutParts(v, v) = <<x, w>>
  BY DEF PutParts, PutXfer, PutWrite
<1>2. run.config.collapse_charges \in BOOLEAN
  BY SettingsType DEF Configured
<1> HIDE DEF x, w
<1>3. PICK k \in 1 .. Len(z) : s = SubSeq(z, k, Len(z))
  BY <1>1 DEF Tails
<1>4. CASE run.config.collapse_charges
  <2>1. z = << <<x, w>> >>
    BY <1>4 DEF Sleeps
  <2> HIDE DEF z
  <2>2. k = 1 /\ Len(z) = 1 /\ s = << <<x, w>> >>
    <3>1. Len(z) = 1
      BY <2>1, Rests
    <3>2. k = 1
      BY <3>1
    <3> QED BY <1>3, <2>1, <3>1, <3>2, Rests, Zenon
  <2> QED BY <2>2 DEF x, w
<1>5. CASE ~run.config.collapse_charges
  <2>1. z = << <<x>>, <<w>> >>
    BY <1>5 DEF Sleeps
  <2> HIDE DEF z
  <2>2. /\ Len(z) = 2 /\ << <<x>>, <<w>> >> = SubSeq(z, 1, Len(z))
        /\ << <<w>> >> = SubSeq(z, 2, Len(z)) /\ 2 \in 1 .. Len(z)
    BY <2>1, Rests
  <2>3. << <<w>> >> \in Tails(PutParts(v, v))
    BY <1>1, <2>2 DEF Tails, z
  <2>4. k = 1 => s = << <<x>>, <<w>> >>
    BY <1>3, <2>2
  <2>5. k = 2 => s = << <<w>> >>
    BY <1>3, <2>2
  <2>6. k \in {1, 2}
    BY <2>2
  <2> QED BY <2>3, <2>4, <2>5, <2>6 DEF x, w
<1> QED BY <1>2, <1>4, <1>5

(* What is left of a get's sleeps.                                         *)
LEMMA GetTails ==
  ASSUME Configured, NEW i \in Volumes, NEW d \in Volumes, NEW s \in Tails(GetParts(i, d))
  PROVE  /\ \/ s = << <<GetRead(d), GetCopy(d), GetXfer(i, d)>> >>
            \/ s = << <<GetRead(d)>>, <<GetCopy(d)>>, <<GetXfer(i, d)>> >>
               /\ << <<GetCopy(d)>>, <<GetXfer(i, d)>> >> \in Tails(GetParts(i, d))
            \/ s = << <<GetCopy(d)>>, <<GetXfer(i, d)>> >>
               /\ << <<GetXfer(i, d)>> >> \in Tails(GetParts(i, d))
            \/ s = << <<GetXfer(i, d)>> >>
         /\ IF run.config.collapse_charges
            THEN s = << <<GetRead(d), GetCopy(d), GetXfer(i, d)>> >>
            ELSE s \in { << <<GetRead(d)>>, <<GetCopy(d)>>, <<GetXfer(i, d)>> >>,
                         << <<GetCopy(d)>>, <<GetXfer(i, d)>> >>, << <<GetXfer(i, d)>> >> }
<1> DEFINE r == GetRead(d)
           c == GetCopy(d)
           x == GetXfer(i, d)
           z == Sleeps(<<r, c, x>>)
<1>1. GetParts(i, d) = <<r, c, x>>
  BY DEF GetParts, GetRead, GetCopy, GetXfer
<1>2. run.config.collapse_charges \in BOOLEAN
  BY SettingsType DEF Configured
<1> HIDE DEF r, c, x
<1>3. PICK k \in 1 .. Len(z) : s = SubSeq(z, k, Len(z))
  BY <1>1 DEF Tails
<1>4. CASE run.config.collapse_charges
  <2>1. z = << <<r, c, x>> >>
    BY <1>4 DEF Sleeps
  <2> HIDE DEF z
  <2>2. k = 1 /\ Len(z) = 1 /\ s = << <<r, c, x>> >>
    <3>1. Len(z) = 1
      BY <2>1, Rests
    <3>2. k = 1
      BY <3>1
    <3> QED BY <1>3, <2>1, <3>1, <3>2, Rests, Zenon
  <2> QED BY <1>4, <2>2 DEF r, c, x
<1>5. CASE ~run.config.collapse_charges
  <2>1. z = << <<r>>, <<c>>, <<x>> >>
    BY <1>5 DEF Sleeps
  <2> HIDE DEF z
  <2>2. /\ << <<r>>, <<c>>, <<x>> >> = SubSeq(z, 1, Len(z))
        /\ << <<c>>, <<x>> >> = SubSeq(z, 2, Len(z)) /\ 2 \in 1 .. Len(z)
        /\ << <<x>> >> = SubSeq(z, 3, Len(z)) /\ 3 \in 1 .. Len(z)
    BY <2>1, Rests
  <2>3. << <<c>>, <<x>> >> \in Tails(GetParts(i, d)) /\ << <<x>> >> \in Tails(GetParts(i, d))
    BY <1>1, <2>2 DEF Tails, z
  <2>4. k = 1 => s = << <<r>>, <<c>>, <<x>> >>
    BY <1>3, <2>2
  <2>5. k = 2 => s = << <<c>>, <<x>> >>
    BY <1>3, <2>1, <2>2, Rests
  <2>6. k = 3 => s = << <<x>> >>
    BY <1>3, <2>1, <2>2, Rests
  <2>7. k \in {1, 2, 3}
    BY <2>1, Rests
  <2> QED BY <1>5, <2>3, <2>4, <2>5, <2>6, <2>7 DEF r, c, x
<1> QED BY <1>2, <1>4, <1>5

LEMMA Appended ==
  ASSUME NEW a, NEW b, NEW c
  PROVE  /\ Append(<<>>, a) = <<a>> /\ Append(<<a>>, b) = <<a, b>>
         /\ Append(<<a, b>>, c) = <<a, b, c>>
<1> DEFINE S == {a, b, c}
           one == <<a>>
           two == <<a, b>>
<1>1. /\ one \in Seq(S) /\ Len(one) = 1 /\ one[1] = a
      /\ two \in Seq(S) /\ Len(two) = 2 /\ two[1] = a /\ two[2] = b
      /\ <<>> \in Seq(S) /\ Len(<<>>) = 0 /\ a \in S /\ b \in S /\ c \in S
  OBVIOUS
<1> HIDE DEF S, one, two
<1>2. Append(<<>>, a) \in Seq(S) /\ Len(Append(<<>>, a)) = 1 /\ Append(<<>>, a)[1] = a
  BY <1>1, AppendProperties
<1>3. /\ Append(one, b) \in Seq(S) /\ Len(Append(one, b)) = 2
      /\ Append(one, b)[1] = a /\ Append(one, b)[2] = b
  <2>1. /\ Append(one, b) \in Seq(S) /\ Len(Append(one, b)) = Len(one) + 1
        /\ \A k \in 1 .. Len(one) : Append(one, b)[k] = one[k]
        /\ Append(one, b)[Len(one) + 1] = b
    BY <1>1, AppendProperties
  <2> QED BY <1>1, <2>1
<1>4. /\ Append(two, c) \in Seq(S) /\ Len(Append(two, c)) = 3
      /\ Append(two, c)[1] = a /\ Append(two, c)[2] = b /\ Append(two, c)[3] = c
  <2>0. two \in Seq(S) /\ c \in S
    BY <1>1
  <2>1. /\ Append(two, c) \in Seq(S) /\ Len(Append(two, c)) = Len(two) + 1
        /\ \A k \in 1 .. Len(two) : Append(two, c)[k] = two[k]
        /\ Append(two, c)[Len(two) + 1] = c
    BY <2>0, AppendProperties
  <2> QED BY <1>1, <2>1
<1> QED BY <1>2, <1>3, <1>4, ShortSequences DEF one, two

(* The rows of what was kept of a put.                                     *)
LEMMA PutRows ==
  ASSUME now \in Nat, NEW v \in Volumes,
         NEW q \in {<<>>, <<PutXfer(v)>>, <<PutWrite(v)>>, <<PutXfer(v), PutWrite(v)>>}
  PROVE  /\ q \in Seq(Parts) /\ Rows(q) \in Seq(Row) /\ Len(Rows(q)) = Len(q)
         /\ \A k \in 1 .. Len(Rows(q)) : Rows(q)[k].at = now
         /\ \A i : FetchesIn(Rows(q), i) = {}
         /\ \A u : WritesIn(Rows(q), u)
                     = IF u = v /\ q \in {<<PutWrite(v)>>, <<PutXfer(v), PutWrite(v)>>}
                       THEN {Len(q)} ELSE {}
<1> DEFINE x == PutXfer(v)
           w == PutWrite(v)
<1>1. x \in Parts /\ w \in Parts
  BY Components
<1>2. /\ x.kind = "xfer" /\ x.op = "put"
      /\ w.kind = "store" /\ w.op = "write" /\ w.to = v
  BY DEF PutXfer, PutWrite, Part
<1> HIDE DEF x, w
<1>3. q \in {<<>>, <<x>>, <<w>>, <<x, w>>}
  BY DEF x, w
<1>4. q \in Seq(Parts)
  <2>1. <<>> \in Seq(Parts) /\ <<x>> \in Seq(Parts) /\ <<w>> \in Seq(Parts)
        /\ <<x, w>> \in Seq(Parts)
    BY <1>1
  <2> QED BY <1>3, <2>1
<1>5. /\ Rows(q) \in Seq(Row) /\ Len(Rows(q)) = Len(q) /\ DOMAIN Rows(q) = 1 .. Len(q)
      /\ \A k \in 1 .. Len(q) : Rows(q)[k] = [at |-> now, kind |-> q[k].kind, what |-> q[k]]
  BY <1>4, RowsType
<1>6. \A k \in 1 .. Len(q) : /\ Rows(q)[k].at = now /\ Rows(q)[k].kind = q[k].kind
                             /\ Rows(q)[k].what = q[k]
  BY <1>5
<1>7. \A k \in 1 .. Len(q) : q[k] = x \/ q[k] = w
  BY <1>3
<1>8. ASSUME NEW i PROVE FetchesIn(Rows(q), i) = {}
  BY <1>2, <1>5, <1>6, <1>7 DEF FetchesIn
<1>9. ASSUME NEW u
      PROVE  WritesIn(Rows(q), u) = IF u = v /\ q \in {<<w>>, <<x, w>>} THEN {Len(q)} ELSE {}
  <2>1. WritesIn(Rows(q), u) = { k \in 1 .. Len(q) : q[k] = w /\ u = v }
    BY <1>2, <1>5, <1>6, <1>7 DEF WritesIn
  <2>2. CASE q = <<>>
    BY <2>1, <2>2
  <2>3. CASE q = <<x>>
    <3>1. Len(q) = 1 /\ q[1] = x /\ x # w /\ q # <<w>> /\ q # <<x, w>>
      BY <1>2, <2>3
    <3> QED BY <2>1, <3>1
  <2>4. CASE q = <<w>>
    <3>1. Len(q) = 1 /\ q[1] = w
      BY <2>4
    <3> QED BY <2>1, <2>4, <3>1
  <2>5. CASE q = <<x, w>>
    <3>1. Len(q) = 2 /\ q[1] = x /\ x # w /\ q[2] = w
      BY <1>2, <2>5
    <3> QED BY <2>1, <2>5, <3>1
  <2> QED BY <1>3, <2>2, <2>3, <2>4, <2>5
<1> QED BY <1>4, <1>5, <1>6, <1>8, <1>9 DEF x, w

(* A sleep of a put: the write row comes with the last one.                *)
LEMMA PutSleep ==
  ASSUME Configured, now \in Nat, NEW v \in Volumes, NEW s \in Tails(PutParts(v, v))
  PROVE  /\ s \in Seq(Seq(Parts)) /\ Len(s) \in {1, 2}
         /\ Len(s) # 1 => Tail(s) \in Tails(PutParts(v, v)) /\ Duration(s[2]) \in Nat
         /\ Duration(s[1]) \in Nat
         /\ \A l \in Ledgers : Accounted(l, s[1]) = l
         /\ Rows(Emitted(s[1])) \in Seq(Row)
         /\ \A k \in 1 .. Len(Rows(Emitted(s[1]))) : Rows(Emitted(s[1]))[k].at = now
         /\ \A i : FetchesIn(Rows(Emitted(s[1])), i) = {}
         /\ \A u : WritesIn(Rows(Emitted(s[1])), u)
                     = IF u = v /\ Len(s) = 1 /\ StorageTime(Bytes, "write") > 0
                       THEN {Len(Rows(Emitted(s[1])))} ELSE {}
<1> DEFINE x == PutXfer(v)
           w == PutWrite(v)
           cost == StorageTime(Bytes, "write")
<1>1. x \in Parts /\ w \in Parts
  BY Components
<1>2. /\ x.kind = "xfer" /\ x.op = "put" /\ w.kind = "store" /\ w.op = "write" /\ w.dt = cost
      /\ x.dt \in Nat /\ w.dt \in Nat
  BY CostNat DEF PutXfer, PutWrite, Part
<1>3. \A l \in Ledgers : RecordTransfer(l, x) = l /\ RecordTransfer(l, w) = l
  BY <1>2 DEF RecordTransfer
<1> HIDE DEF x, w, cost
<1>4. \/ s = << <<x, w>> >>
      \/ s = << <<x>>, <<w>> >> /\ << <<w>> >> \in Tails(PutParts(v, v))
      \/ s = << <<w>> >>
  BY PutTails DEF x, w
<1>5. /\ <<x>> \in Seq(Parts) /\ Duration(<<x>>) = x.dt /\ Emitted(<<x>>) = <<x>>
      /\ \A l \in Ledgers : Accounted(l, <<x>>) = l
  BY <1>1, <1>2, <1>3, OneComponent, Appended DEF Taken
<1>6. /\ <<w>> \in Seq(Parts) /\ Duration(<<w>>) = w.dt
      /\ Emitted(<<w>>) = IF cost > 0 THEN <<w>> ELSE <<>>
      /\ \A l \in Ledgers : Accounted(l, <<w>>) = l
  BY SMTT(30), <1>1, <1>2, <1>3, OneComponent, Appended DEF Taken
<1>7. /\ <<x, w>> \in Seq(Parts) /\ Duration(<<x, w>>) = x.dt + w.dt
      /\ Emitted(<<x, w>>) = IF cost > 0 THEN <<x, w>> ELSE <<x>>
      /\ \A l \in Ledgers : Accounted(l, <<x, w>>) = l
  BY <1>1, <1>2, <1>3, TwoComponents, Appended DEF Taken
<1> DEFINE q == Emitted(s[1])
           last == <<w>>
<1>8. /\ s \in Seq(Seq(Parts)) /\ Len(s) \in {1, 2}
      /\ Len(s) # 1 => s[1] = <<x>> /\ s[2] = <<w>> /\ Tail(s) \in Tails(PutParts(v, v))
      /\ Len(s) = 1 => s[1] = <<w>> \/ s[1] = <<x, w>>
  <2>1. ASSUME s = << <<x, w>> >> PROVE s \in Seq(Seq(Parts)) /\ Len(s) = 1 /\ s[1] = <<x, w>>
    BY <1>7, <2>1
  <2>2. ASSUME s = << <<w>> >> PROVE s \in Seq(Seq(Parts)) /\ Len(s) = 1 /\ s[1] = <<w>>
    BY <1>6, <2>2
  <2>3. ASSUME s = << <<x>>, <<w>> >>
        PROVE  /\ s \in Seq(Seq(Parts)) /\ Len(s) = 2 /\ s[1] = <<x>> /\ s[2] = <<w>>
               /\ Tail(s) = << <<w>> >>
    BY <1>5, <1>6, <2>3
  <2> QED BY <1>4, <2>1, <2>2, <2>3
<1>9. /\ q \in {<<>>, <<x>>, <<w>>, <<x, w>>}
      /\ Len(s) # 1 => q = <<x>>
      /\ Len(s) = 1 /\ cost > 0 => q \in {<<w>>, <<x, w>>}
      /\ Len(s) = 1 /\ ~(cost > 0) => q \in {<<>>, <<x>>}
  BY <1>5, <1>6, <1>7, <1>8
<1>10. <<x>> \notin {<<w>>, <<x, w>>} /\ <<>> \notin {<<w>>, <<x, w>>}
  BY <1>2
<1>11. /\ Duration(s[1]) \in Nat
       /\ Len(s) # 1 => Duration(s[2]) \in Nat
       /\ \A l \in Ledgers : Accounted(l, s[1]) = l
  BY <1>2, <1>5, <1>6, <1>7, <1>8
<1> HIDE DEF q
<1>12. /\ Rows(q) \in Seq(Row) /\ Len(Rows(q)) = Len(q)
       /\ \A k \in 1 .. Len(Rows(q)) : Rows(q)[k].at = now
       /\ \A i : FetchesIn(Rows(q), i) = {}
       /\ \A u : WritesIn(Rows(q), u)
                   = IF u = v /\ q \in {<<w>>, <<x, w>>} THEN {Len(q)} ELSE {}
  BY <1>9, PutRows DEF x, w
<1>13. q \in {<<w>>, <<x, w>>} <=> Len(s) = 1 /\ cost > 0
  BY <1>8, <1>9, <1>10
<1>14. \A u : WritesIn(Rows(q), u)
                = IF u = v /\ Len(s) = 1 /\ cost > 0 THEN {Len(Rows(q))} ELSE {}
  BY <1>12, <1>13
<1> QED BY <1>8, <1>11, <1>12, <1>14 DEF q, cost

(* The rows of what was kept of a get.                                     *)
ReadKept(d) == {<<>>, <<GetRead(d)>>, <<GetCopy(d)>>, <<GetRead(d), GetCopy(d)>>}

LEMMA GetRows ==
  ASSUME now \in Nat, NEW i \in Volumes, NEW d \in Volumes, NEW p \in ReadKept(d), NEW q,
         q = p \/ q = Append(p, GetXfer(i, d))
  PROVE  /\ q \in Seq(Parts) /\ Rows(q) \in Seq(Row) /\ Len(Rows(q)) = Len(q)
         /\ \A k \in 1 .. Len(Rows(q)) : Rows(q)[k].at = now
         /\ \A u : WritesIn(Rows(q), u) = {}
         /\ q = p => \A j : FetchesIn(Rows(q), j) = {}
         /\ q = Append(p, GetXfer(i, d)) =>
              \A j : FetchesIn(Rows(q), j) = IF j = i THEN {Len(q)} ELSE {}
<1> DEFINE r == GetRead(d)
           c == GetCopy(d)
           x == GetXfer(i, d)
<1>1. r \in Parts /\ c \in Parts /\ x \in Parts
  BY Components
<1>2. /\ r.kind = "store" /\ r.op = "read" /\ c.kind = "mem" /\ c.op = "copy"
      /\ x.kind = "xfer" /\ x.op = "get" /\ x.to = i
  BY DEF GetRead, GetCopy, GetXfer, Part
<1> HIDE DEF r, c, x
<1>3. p \in {<<>>, <<r>>, <<c>>, <<r, c>>} /\ q \in {p, Append(p, x)}
  BY DEF ReadKept, r, c, x
<1>4. p \in Seq(Parts) /\ \A k \in 1 .. Len(p) : p[k] = r \/ p[k] = c
  <2>1. CASE p = <<>>
    BY <2>1
  <2>2. CASE p = <<r>> \/ p = <<c>>
    <3>1. <<r>> \in Seq(Parts) /\ <<c>> \in Seq(Parts)
      BY <1>1
    <3>2. /\ Len(<<r>>) = 1 /\ <<r>>[1] = r /\ Len(<<c>>) = 1 /\ <<c>>[1] = c
      OBVIOUS
    <3>3. CASE p = <<r>>
      BY <3>1, <3>2, <3>3
    <3>4. CASE p = <<c>>
      BY <3>1, <3>2, <3>4
    <3> QED BY <2>2, <3>3, <3>4
  <2>3. CASE p = <<r, c>>
    BY <1>1, <2>3
  <2> QED BY <1>3, <2>1, <2>2, <2>3
<1>5. /\ Append(p, x) \in Seq(Parts) /\ Len(Append(p, x)) = Len(p) + 1
      /\ \A k \in 1 .. Len(p) : Append(p, x)[k] = p[k]
      /\ Append(p, x)[Len(p) + 1] = x
  BY <1>1, <1>4, AppendProperties
<1>6. q \in Seq(Parts) /\ \A k \in 1 .. Len(q) : q[k] = r \/ q[k] = c \/ q[k] = x
  BY <1>3, <1>4, <1>5
<1>7. /\ Rows(q) \in Seq(Row) /\ Len(Rows(q)) = Len(q) /\ DOMAIN Rows(q) = 1 .. Len(q)
      /\ \A k \in 1 .. Len(q) : Rows(q)[k] = [at |-> now, kind |-> q[k].kind, what |-> q[k]]
  BY <1>6, RowsType
<1>8. \A k \in 1 .. Len(q) : /\ Rows(q)[k].at = now /\ Rows(q)[k].kind = q[k].kind
                             /\ Rows(q)[k].what = q[k]
  <2> TAKE k \in 1 .. Len(q)
  <2>1. Rows(q)[k] = [at |-> now, kind |-> q[k].kind, what |-> q[k]]
    BY <1>7
  <2> QED BY <2>1
<1>9. ASSUME NEW u PROVE WritesIn(Rows(q), u) = {}
  BY <1>2, <1>6, <1>7, <1>8 DEF WritesIn
<1>10. ASSUME NEW j PROVE FetchesIn(Rows(q), j) = { k \in 1 .. Len(q) : q[k] = x /\ j = i }
  <2>1. \A k \in 1 .. Len(q) :
          q[k].kind = "xfer" /\ q[k].op = "get" /\ q[k].to = j <=> q[k] = x /\ j = i
    BY <1>2, <1>6
  <2>2. FetchesIn(Rows(q), j)
          = { k \in 1 .. Len(q) : q[k].kind = "xfer" /\ q[k].op = "get" /\ q[k].to = j }
    BY <1>7, <1>8 DEF FetchesIn
  <2> QED BY <2>1, <2>2
<1>11. x # r /\ x # c
  BY <1>2
<1>12. q = p => \A j : FetchesIn(Rows(q), j) = {}
  BY <1>4, <1>10, <1>11
<1>13. q = Append(p, x) => \A j : FetchesIn(Rows(q), j) = IF j = i THEN {Len(q)} ELSE {}
  <2> SUFFICES ASSUME q = Append(p, x), NEW j
               PROVE  FetchesIn(Rows(q), j) = IF j = i THEN {Len(q)} ELSE {}
    OBVIOUS
  <2>1. Len(p) \in Nat /\ Len(q) = Len(p) + 1 /\ q[Len(q)] = x
    BY <1>4, <1>5
  <2>2. \A k \in 1 .. Len(q) : q[k] = x <=> k = Len(q)
    BY <1>4, <1>5, <1>11, <2>1
  <2> QED BY <1>10, <2>1, <2>2
<1> QED BY <1>6, <1>7, <1>8, <1>9, <1>12, <1>13 DEF x

(* An edge in the ledger.                                                  *)
Transferred(l, i, d) ==
  [l EXCEPT !.transfer = @ + Bytes,
            !.origin = @ + (IF d \in Origins THEN Bytes ELSE 0),
            !.edges = Append(@, <<d, i>>)]

(* What a sleep of a get counts.                                           *)
Counts(i, d, s) ==
  \A l \in Ledgers : Accounted(l, s[1]) = IF Len(s) = 1 THEN Transferred(l, i, d) ELSE l

(* A sleep of a get: the fabric row and the edge come with the last one,   *)
(* and what is owed falls by each.                                         *)
LEMMA GetSleep ==
  ASSUME Configured, now \in Nat, NEW i \in Volumes, NEW d \in Volumes,
         NEW s \in Tails(GetParts(i, d))
  PROVE  /\ s \in Seq(Seq(Parts)) /\ Len(s) \in {1, 2, 3}
         /\ Len(s) # 1 => /\ Tail(s) \in Tails(GetParts(i, d)) /\ Duration(s[2]) \in Nat
                          /\ Owed(s) = Duration(s[2]) + Owed(Tail(s))
                          /\ Owed(Tail(s)) \in Nat
         /\ Len(s) = 1 => Owed(s) = 0
         /\ Duration(s[1]) \in Nat /\ Owed(s) \in Nat
         /\ Counts(i, d, s)
         /\ Emitted(s[1]) \in Seq(Parts) /\ Rows(Emitted(s[1])) \in Seq(Row)
         /\ \A k \in 1 .. Len(Rows(Emitted(s[1]))) : Rows(Emitted(s[1]))[k].at = now
         /\ \A u : WritesIn(Rows(Emitted(s[1])), u) = {}
         /\ \A j : FetchesIn(Rows(Emitted(s[1])), j)
                     = IF j = i /\ Len(s) = 1 THEN {Len(Rows(Emitted(s[1])))} ELSE {}
<1> DEFINE r == GetRead(d)
           c == GetCopy(d)
           x == GetXfer(i, d)
<1>1. r \in Parts /\ c \in Parts /\ x \in Parts
  BY Components
<1>2. /\ r.kind = "store" /\ r.op = "read" /\ c.kind = "mem" /\ c.op = "copy"
      /\ x.kind = "xfer" /\ x.op = "get" /\ x.to = i /\ x.from = d
      /\ r.dt \in Nat /\ c.dt \in Nat /\ x.dt \in Nat
  BY CostNat DEF GetRead, GetCopy, GetXfer, Part
<1>3. \A l \in Ledgers : /\ RecordTransfer(l, r) = l /\ RecordTransfer(l, c) = l
                         /\ RecordTransfer(l, x) = Transferred(l, i, d)
  BY <1>2 DEF RecordTransfer, Transferred
<1> HIDE DEF r, c, x
<1>4. \/ s = << <<r, c, x>> >>
      \/ s = << <<r>>, <<c>>, <<x>> >> /\ << <<c>>, <<x>> >> \in Tails(GetParts(i, d))
      \/ s = << <<c>>, <<x>> >> /\ << <<x>> >> \in Tails(GetParts(i, d))
      \/ s = << <<x>> >>
  BY GetTails DEF r, c, x
<1>5. /\ <<r>> \in Seq(Parts) /\ Duration(<<r>>) = r.dt
      /\ Emitted(<<r>>) \in {<<>>, <<r>>}
      /\ \A l \in Ledgers : Accounted(l, <<r>>) = l
  BY <1>1, <1>2, <1>3, OneComponent, Appended DEF Taken
<1>6. /\ <<c>> \in Seq(Parts) /\ Duration(<<c>>) = c.dt
      /\ Emitted(<<c>>) \in {<<>>, <<c>>}
      /\ \A l \in Ledgers : Accounted(l, <<c>>) = l
  BY <1>1, <1>2, <1>3, OneComponent, Appended DEF Taken
<1>7. /\ <<x>> \in Seq(Parts) /\ Duration(<<x>>) = x.dt
      /\ Emitted(<<x>>) = Append(<<>>, x)
      /\ \A l \in Ledgers : Accounted(l, <<x>>) = Transferred(l, i, d)
  BY <1>1, <1>2, <1>3, OneComponent, Appended DEF Taken
<1>8. /\ <<r, c, x>> \in Seq(Parts) /\ Duration(<<r, c, x>>) = r.dt + c.dt + x.dt
      /\ \A l \in Ledgers : Accounted(l, <<r, c, x>>) = Transferred(l, i, d)
  BY <1>1, <1>2, <1>3, ThreeComponents
<1>9. \E p \in {<<>>, <<r>>, <<c>>, <<r, c>>} : Emitted(<<r, c, x>>) = Append(p, x)
  <2> DEFINE p == Taken(Taken(<<>>, r), c)
  <2>1. Emitted(<<r, c, x>>) = Taken(p, x)
    BY <1>1, ThreeComponents
  <2>2. p \in {<<>>, <<r>>, <<c>>, <<r, c>>}
    BY Appended DEF Taken
  <2> HIDE DEF p
  <2>3. Taken(p, x) = Append(p, x)
    BY <1>2 DEF Taken
  <2> QED BY <2>1, <2>2, <2>3
<1>10. ASSUME s = << <<r, c, x>> >>
       PROVE  s \in Seq(Seq(Parts)) /\ Len(s) = 1 /\ s[1] = <<r, c, x>>
  BY <1>8, <1>10
<1>11. ASSUME s = << <<x>> >> PROVE s \in Seq(Seq(Parts)) /\ Len(s) = 1 /\ s[1] = <<x>>
  BY <1>7, <1>11
<1>12. ASSUME s = << <<c>>, <<x>> >>
       PROVE  /\ s \in Seq(Seq(Parts)) /\ Len(s) = 2 /\ s[1] = <<c>> /\ s[2] = <<x>>
              /\ Tail(s) = << <<x>> >> /\ Len(Tail(s)) = 1
  BY <1>6, <1>7, <1>12
<1>13. ASSUME s = << <<r>>, <<c>>, <<x>> >>
       PROVE  /\ s \in Seq(Seq(Parts)) /\ Len(s) = 3
              /\ s[1] = <<r>> /\ s[2] = <<c>> /\ s[3] = <<x>>
              /\ Tail(s) = << <<c>>, <<x>> >> /\ Len(Tail(s)) = 2 /\ Tail(s)[2] = <<x>>
  BY <1>5, <1>6, <1>7, <1>13
<1>14. \A t : Owed(t) = IF Len(t) = 3 THEN Duration(t[2]) + Duration(t[3])
                        ELSE IF Len(t) = 2 THEN Duration(t[2]) ELSE 0
  BY DEF Owed
<1>15. /\ s \in Seq(Seq(Parts)) /\ Len(s) \in {1, 2, 3}
       /\ Len(s) # 1 => /\ Tail(s) \in Tails(GetParts(i, d)) /\ Duration(s[2]) \in Nat
                        /\ Owed(s) = Duration(s[2]) + Owed(Tail(s))
                        /\ Owed(Tail(s)) \in Nat
       /\ Len(s) = 1 => Owed(s) = 0
       /\ Duration(s[1]) \in Nat /\ Owed(s) \in Nat
  <2>1. CASE s = << <<r, c, x>> >>
    BY <1>2, <1>8, <1>10, <1>14, <2>1
  <2>2. CASE s = << <<x>> >>
    BY <1>2, <1>7, <1>11, <1>14, <2>2
  <2>3. CASE s = << <<c>>, <<x>> >> /\ << <<x>> >> \in Tails(GetParts(i, d))
    BY <1>2, <1>6, <1>7, <1>12, <1>14, <2>3
  <2>4. CASE s = << <<r>>, <<c>>, <<x>> >> /\ << <<c>>, <<x>> >> \in Tails(GetParts(i, d))
    <3>1. Owed(s) = c.dt + x.dt
      BY <1>6, <1>7, <1>13, <1>14, <2>4
    <3>2. Owed(Tail(s)) = x.dt
      BY <1>7, <1>13, <1>14, <2>4
    <3>3. Duration(s[1]) = r.dt /\ Duration(s[2]) = c.dt
      BY <1>5, <1>6, <1>13, <2>4
    <3>4. /\ s \in Seq(Seq(Parts)) /\ Len(s) = 3 /\ Tail(s) \in Tails(GetParts(i, d))
      BY <1>13, <2>4
    <3> QED BY <1>2, <3>1, <3>2, <3>3, <3>4
  <2> QED BY <1>4, <2>1, <2>2, <2>3, <2>4
<1>16. /\ Len(s) = 1 => s[1] = <<x>> \/ s[1] = <<r, c, x>>
       /\ Len(s) # 1 => s[1] = <<r>> \/ s[1] = <<c>>
  BY <1>4, <1>10, <1>11, <1>12, <1>13
<1>17. \A l \in Ledgers : Accounted(l, s[1]) = IF Len(s) = 1 THEN Transferred(l, i, d) ELSE l
  BY <1>5, <1>6, <1>7, <1>8, <1>16
<1> DEFINE q == Emitted(s[1])
<1>18. \E p \in {<<>>, <<r>>, <<c>>, <<r, c>>} :
          q = IF Len(s) = 1 THEN Append(p, x) ELSE p
  <2>1. CASE Len(s) = 1
    BY <1>7, <1>9, <1>16, <2>1
  <2>2. CASE Len(s) # 1
    BY <1>5, <1>6, <1>16, <2>2
  <2> QED BY <2>1, <2>2
<1> HIDE DEF q
<1>19. PICK p \in {<<>>, <<r>>, <<c>>, <<r, c>>} : q = IF Len(s) = 1 THEN Append(p, x) ELSE p
  BY <1>18
<1>20. /\ q \in Seq(Parts) /\ Rows(q) \in Seq(Row) /\ Len(Rows(q)) = Len(q)
       /\ \A k \in 1 .. Len(Rows(q)) : Rows(q)[k].at = now
       /\ \A u : WritesIn(Rows(q), u) = {}
       /\ q = p => \A j : FetchesIn(Rows(q), j) = {}
       /\ q = Append(p, x) => \A j : FetchesIn(Rows(q), j) = IF j = i THEN {Len(q)} ELSE {}
  <2>1. p \in ReadKept(d) /\ (q = p \/ q = Append(p, GetXfer(i, d)))
    BY <1>19 DEF ReadKept, r, c, x
  <2>2. /\ q \in Seq(Parts) /\ Rows(q) \in Seq(Row) /\ Len(Rows(q)) = Len(q)
        /\ \A k \in 1 .. Len(Rows(q)) : Rows(q)[k].at = now
        /\ \A u : WritesIn(Rows(q), u) = {}
        /\ q = p => \A j : FetchesIn(Rows(q), j) = {}
        /\ q = Append(p, GetXfer(i, d)) =>
             \A j : FetchesIn(Rows(q), j) = IF j = i THEN {Len(q)} ELSE {}
    BY <2>1, GetRows
  <2> QED BY <2>2 DEF x
<1>21. \A j : FetchesIn(Rows(q), j) = IF j = i /\ Len(s) = 1 THEN {Len(Rows(q))} ELSE {}
  BY <1>19, <1>20
<1> QED BY <1>15, <1>17, <1>20, <1>21 DEF q, Counts

(* The charge of the serving volume that a sleep ends, how long after the  *)
(* read was opened, and its component.                                     *)
Ending(s, op) == Len(s) = IF run.config.collapse_charges THEN 1 ELSE Place(op)

Lasts(op, i, d) == IF run.config.collapse_charges THEN ReadTime(d, i, Bytes) ELSE EndsAfter(op)

PartOf(op, d) == IF op = "read" THEN GetRead(d) ELSE GetCopy(d)

(* A sleep that ends it ends when it should, and leaves its row.           *)
LEMMA GetLeft ==
  ASSUME Configured, now \in Nat, NEW i \in Volumes, NEW d \in Volumes,
         NEW s \in Tails(GetParts(i, d)), NEW op \in Serving, Ending(s, op)
  PROVE  /\ Owed(s) + Lasts(op, i, d) = ReadTime(d, i, Bytes)
         /\ ChargeOf(op) > 0 =>
              \E n \in 1 .. Len(Emitted(s[1])) : Emitted(s[1])[n] = PartOf(op, d)
<1> DEFINE r == GetRead(d)
           c == GetCopy(d)
           x == GetXfer(i, d)
           p == PartOf(op, d)
<1>1. r \in Parts /\ c \in Parts /\ x \in Parts
  BY Components
<1>2. /\ r.dt \in Nat /\ c.dt \in Nat /\ x.dt \in Nat /\ x.kind = "xfer"
      /\ r.kind = "store" /\ c.kind = "mem"
      /\ ReadTime(d, i, Bytes) = r.dt + c.dt + x.dt
      /\ ChargeOf("read") = r.dt /\ ChargeOf("copy") = c.dt
  BY CostNat DEF GetRead, GetCopy, GetXfer, Part, ReadTime, ChargeOf
<1>3. \/ op = "read" /\ p = r /\ ChargeOf(op) = r.dt /\ EndsAfter(op) = r.dt /\ Place(op) = 3
      \/ op = "copy" /\ p = c /\ ChargeOf(op) = c.dt /\ EndsAfter(op) = r.dt + c.dt /\ Place(op) = 2
  BY <1>2 DEF Serving, EndsAfter, PartOf, Place
<1>4. /\ run.config.collapse_charges => s = << <<r, c, x>> >>
      /\ ~run.config.collapse_charges =>
           s \in { << <<r>>, <<c>>, <<x>> >>, << <<c>>, <<x>> >>, << <<x>> >> }
  BY GetTails
<1> SUFFICES /\ Owed(s) + Lasts(op, i, d) = ReadTime(d, i, Bytes)
             /\ ChargeOf(op) > 0 =>
                  \E n \in 1 .. Len(Emitted(s[1])) : Emitted(s[1])[n] = p
  OBVIOUS
<1> HIDE DEF r, c, x, p
<1>5. CASE run.config.collapse_charges
  <2>1. Len(s) = 1 /\ s[1] = <<r, c, x>>
    BY <1>4, <1>5
  <2>2. Owed(s) = 0 /\ Lasts(op, i, d) = ReadTime(d, i, Bytes)
    BY <1>5, <2>1 DEF Owed, Lasts
  <2>3. Emitted(s[1]) = Taken(Taken(Taken(<<>>, r), c), x)
    BY <1>1, <2>1, ThreeComponents
  <2>4. \A rows : Taken(rows, x) = Append(rows, x)
    BY <1>2 DEF Taken
  <2>5. CASE p = r /\ ChargeOf(op) = r.dt
    <3>1. SUFFICES ASSUME r.dt > 0
                   PROVE  \E n \in 1 .. Len(Emitted(s[1])) : Emitted(s[1])[n] = p
      BY <1>2, <2>2, <2>5
    <3>2. Taken(<<>>, r) = <<r>>
      BY <3>1, Appended DEF Taken
    <3>3. Taken(<<r>>, c) \in {<<r>>, <<r, c>>}
      BY Appended DEF Taken
    <3>4. Emitted(s[1]) \in {<<r, x>>, <<r, c, x>>}
      <4>1. Append(<<r>>, x) = <<r, x>> /\ Append(<<r, c>>, x) = <<r, c, x>>
        BY Appended
      <4> QED BY <2>3, <2>4, <3>2, <3>3, <4>1, Zenon
    <3>5. Len(Emitted(s[1])) \in {2, 3} /\ Emitted(s[1])[1] = r
      BY <3>4
    <3> QED BY <2>5, <3>5
  <2>6. CASE p = c /\ ChargeOf(op) = c.dt
    <3>1. SUFFICES ASSUME c.dt > 0
                   PROVE  \E n \in 1 .. Len(Emitted(s[1])) : Emitted(s[1])[n] = p
      BY <1>2, <2>2, <2>6
    <3>2. Taken(<<>>, r) \in {<<>>, <<r>>}
      BY Appended DEF Taken
    <3>3. Taken(<<>>, c) = <<c>> /\ Taken(<<r>>, c) = <<r, c>>
      BY <3>1, Appended DEF Taken
    <3>4. Emitted(s[1]) \in {<<c, x>>, <<r, c, x>>}
      <4>1. Append(<<c>>, x) = <<c, x>> /\ Append(<<r, c>>, x) = <<r, c, x>>
        BY Appended
      <4> QED BY <2>3, <2>4, <3>2, <3>3, <4>1, Zenon
    <3>5. \/ Len(Emitted(s[1])) = 2 /\ Emitted(s[1])[1] = c
          \/ Len(Emitted(s[1])) = 3 /\ Emitted(s[1])[2] = c
      BY <3>4
    <3> QED BY <2>6, <3>5
  <2> QED BY <1>3, <2>5, <2>6
<1>6. CASE ~run.config.collapse_charges
  <2>1. Len(s) = Place(op) /\ Lasts(op, i, d) = EndsAfter(op)
    BY <1>6 DEF Ending, Lasts
  <2>2. CASE op = "read"
    <3>1. s = << <<r>>, <<c>>, <<x>> >>
      BY <1>3, <1>4, <1>6, <2>1, <2>2
    <3>2. Len(s) = 3 /\ s[1] = <<r>> /\ s[2] = <<c>> /\ s[3] = <<x>>
      BY <3>1
    <3>3. Owed(s) = c.dt + x.dt
      BY <1>1, <3>2, OneComponent DEF Owed
    <3>4. r.dt > 0 => Emitted(s[1]) = <<r>>
      BY <1>1, <3>2, OneComponent, Appended DEF Taken
    <3>5. Len(<<r>>) = 1 /\ <<r>>[1] = r
      OBVIOUS
    <3>6. r.dt > 0 => \E n \in 1 .. Len(Emitted(s[1])) : Emitted(s[1])[n] = r
      BY <3>4, <3>5
    <3> QED BY <1>2, <1>3, <2>1, <2>2, <3>3, <3>6
  <2>3. CASE op = "copy"
    <3>1. s = << <<c>>, <<x>> >>
      <4>1. Len(s) = 2
        BY <1>3, <2>1, <2>3
      <4>2. Len(<< <<r>>, <<c>>, <<x>> >>) = 3 /\ Len(<< <<x>> >>) = 1
        OBVIOUS
      <4> QED BY <1>4, <1>6, <4>1, <4>2
    <3>2. Len(s) = 2 /\ s[1] = <<c>> /\ s[2] = <<x>>
      BY <3>1
    <3>3. Owed(s) = x.dt
      BY <1>1, <3>2, OneComponent DEF Owed
    <3>4. c.dt > 0 => Emitted(s[1]) = <<c>>
      BY <1>1, <3>2, OneComponent, Appended DEF Taken
    <3>5. Len(<<c>>) = 1 /\ <<c>>[1] = c
      OBVIOUS
    <3>6. c.dt > 0 => \E n \in 1 .. Len(Emitted(s[1])) : Emitted(s[1])[n] = c
      BY <3>4, <3>5
    <3> QED BY <1>2, <1>3, <2>1, <2>3, <3>3, <3>6
  <2> QED BY <1>3, <2>2, <2>3
<1> QED BY <1>5, <1>6 DEF p

(* A whole read takes what a scheduler predicts, and a sleep of it is the  *)
(* first of what is left.                                                  *)
LEMMA ReadPriced ==
  ASSUME Configured, now \in Nat, NEW i \in Volumes, NEW d \in Volumes
  PROVE  LET s == Sleeps(GetParts(i, d)) IN
         /\ s \in Tails(GetParts(i, d)) /\ Duration(s[1]) + Owed(s) = ReadTime(d, i, Bytes)
         /\ run.config.collapse_charges \/ Len(s) = 3
<1> DEFINE r == GetRead(d)
           c == GetCopy(d)
           x == GetXfer(i, d)
           s == Sleeps(GetParts(i, d))
<1>1. r \in Parts /\ c \in Parts /\ x \in Parts /\ GetParts(i, d) = <<r, c, x>>
  BY Components DEF GetParts, GetRead, GetCopy, GetXfer
<1>2. /\ r.dt \in Nat /\ c.dt \in Nat /\ x.dt \in Nat
      /\ ReadTime(d, i, Bytes) = r.dt + c.dt + x.dt
  BY CostNat DEF GetRead, GetCopy, GetXfer, Part, ReadTime
<1>3. run.config.collapse_charges \in BOOLEAN
  BY SettingsType DEF Configured
<1> HIDE DEF r, c, x
<1>4. CASE run.config.collapse_charges
  <2>1. s = << <<r, c, x>> >>
    BY <1>1, <1>4 DEF Sleeps
  <2> HIDE DEF s
  <2>2. Len(s) = 1 /\ s[1] = <<r, c, x>> /\ s = SubSeq(s, 1, Len(s))
    BY <2>1, Rests
  <2>3. Duration(s[1]) + Owed(s) = ReadTime(d, i, Bytes)
    BY <1>1, <1>2, <2>2, ThreeComponents DEF Owed
  <2>4. s \in Tails(GetParts(i, d))
    BY <2>2 DEF Tails, s
  <2> QED BY <1>4, <2>3, <2>4 DEF s
<1>5. CASE ~run.config.collapse_charges
  <2>1. s = << <<r>>, <<c>>, <<x>> >>
    BY <1>1, <1>5 DEF Sleeps
  <2> HIDE DEF s
  <2>2. /\ Len(s) = 3 /\ s[1] = <<r>> /\ s[2] = <<c>> /\ s[3] = <<x>>
        /\ s = SubSeq(s, 1, Len(s))
    BY <2>1, Rests
  <2>3. Duration(s[1]) + Owed(s) = ReadTime(d, i, Bytes)
    BY <1>1, <1>2, <2>2, OneComponent DEF Owed
  <2>4. s \in Tails(GetParts(i, d))
    BY <2>2 DEF Tails, s
  <2> QED BY <2>2, <2>3, <2>4 DEF s
<1> QED BY <1>3, <1>4, <1>5

LEMMA WholePut ==
  ASSUME Configured, NEW v \in Volumes
  PROVE  Sleeps(PutParts(v, v)) \in Tails(PutParts(v, v))
<1> DEFINE x == PutXfer(v)
           w == PutWrite(v)
           s == Sleeps(PutParts(v, v))
<1>1. PutParts(v, v) = <<x, w>>
  BY DEF PutParts, PutXfer, PutWrite
<1>2. run.config.collapse_charges \in BOOLEAN
  BY SettingsType DEF Configured
<1> HIDE DEF x, w
<1>3. CASE run.config.collapse_charges
  <2>1. s = << <<x, w>> >>
    BY <1>1, <1>3 DEF Sleeps
  <2> HIDE DEF s
  <2>2. Len(s) = 1 /\ s = SubSeq(s, 1, Len(s))
    BY <2>1, Rests
  <2> QED BY <2>2 DEF Tails, s
<1>4. CASE ~run.config.collapse_charges
  <2>1. s = << <<x>>, <<w>> >>
    BY <1>1, <1>4 DEF Sleeps
  <2> HIDE DEF s
  <2>2. Len(s) = 2 /\ s = SubSeq(s, 1, Len(s))
    BY <2>1, Rests
  <2> QED BY <2>2 DEF Tails, s
<1> QED BY <1>2, <1>3, <1>4

-----------------------------------------------------------------------------
(* What a step leaves alone, and what it adds to the trace.                *)

(* The configuration of a run never changes.                               *)
LEMMA SameRun ==
  ASSUME run' = run
  PROVE  /\ Direct' = Direct /\ Publishers' = Publishers /\ Configured' = Configured
         /\ \A parts : Tails(parts)' = Tails(parts)
         /\ \A i : IsRelay(i)' = IsRelay(i)
         /\ \A th, i : Placed(th, i)' = Placed(th, i) /\ Staged(th, i)' = Staged(th, i)
<1>1. Direct' = Direct
  BY DEF Direct
<1>2. Publishers' = Publishers
  BY DEF Publishers, BurstPublishers, SyncPublishers, RoutedPublishers
<1>3. Configured' = Configured
  BY <1>1, Zenon DEF Configured
<1>4. \A parts : Tails(parts)' = Tails(parts)
  BY DEF Tails, Sleeps
<1>5. \A i : IsRelay(i)' = IsRelay(i)
  BY <1>1, Zenon DEF IsRelay
<1>6. ASSUME NEW th, NEW i PROVE Placed(th, i)' = Placed(th, i)
  BY <1>1, Zenon DEF Placed
<1>7. ASSUME NEW th, NEW i PROVE Staged(th, i)' = Staged(th, i)
  BY <1>4, <1>5, Zenon DEF Staged
<1> QED BY <1>1, <1>2, <1>3, <1>4, <1>5, <1>6, <1>7

(* The publishers of a run are trainers, each once.                        *)
LEMMA PublishersType ==
  ASSUME Configured
  PROVE  /\ Publishers \in Seq(Origins) /\ Len(Publishers) \in Nat \ {0}
         /\ Publishers[1] = Trainers[1]
         /\ \A k \in 1 .. Len(Publishers) : Publishers[k] \in Origins
         /\ \A k, l \in 1 .. Len(Publishers) : Publishers[k] = Publishers[l] => k = l
         /\ run.workload # "weight_sync" => Len(Publishers) = 1
<1>1. /\ Trainers \in Seq(Origins) /\ Len(Trainers) \in Nat \ {0}
      /\ \A k, l \in 1 .. Len(Trainers) : Trainers[k] = Trainers[l] => k = l
  <2>1. Trainers \in Seq(Origins) /\ Trainers # <<>> /\ IsInjective(Trainers)
    BY RunAssumption
  <2>2. DOMAIN Trainers = 1 .. Len(Trainers) /\ Len(Trainers) \in Nat \ {0}
    BY <2>1, EmptySeq
  <2> QED BY <2>1, <2>2 DEF IsInjective
<1>2. Trainers[1] \in Origins
  BY <1>1, ElementOfSeq
<1>3. Publishers = Trainers \/ Publishers = <<Trainers[1]>>
  BY DEF Configured, Publishers, BurstPublishers, SyncPublishers, RoutedPublishers
<1>4. run.workload # "weight_sync" => Publishers = <<Trainers[1]>>
  BY DEF Configured, Publishers, BurstPublishers, SyncPublishers, RoutedPublishers
<1>5. CASE Publishers = <<Trainers[1]>>
  BY <1>2, <1>5
<1>6. CASE Publishers = Trainers
  <2>1. \A k \in 1 .. Len(Trainers) : Trainers[k] \in Origins
    BY <1>1, ElementOfSeq
  <2>2. run.workload # "weight_sync" => Len(Publishers) = 1
    BY <1>4
  <2> QED BY <1>1, <1>6, <2>1, <2>2
<1> QED BY <1>3, <1>5, <1>6

(* A trace that is longer by the rows b.                                   *)
LEMMA RowsAdded ==
  ASSUME NEW a \in Seq(Row), NEW b \in Seq(Row)
  PROVE  /\ a \o b \in Seq(Row) /\ Len(a \o b) = Len(a) + Len(b)
         /\ \A k \in 1 .. Len(a) : (a \o b)[k] = a[k]
         /\ \A k \in 1 .. Len(b) : (a \o b)[Len(a) + k] = b[k]
         /\ \A v : WritesIn(a \o b, v) = WritesIn(a, v) \cup { Len(a) + k : k \in WritesIn(b, v) }
         /\ \A v : FetchesIn(a \o b, v) = FetchesIn(a, v) \cup { Len(a) + k : k \in FetchesIn(b, v) }
<1> DEFINE c == a \o b
           m == Len(a)
           n == Len(b)
<1>1. /\ c \in Seq(Row) /\ Len(c) = m + n
      /\ \A k \in 1 .. m : c[k] = a[k]
      /\ \A k \in 1 .. n : c[m + k] = b[k]
  <2>1. /\ a \o b \in Seq(Row) /\ Len(a \o b) = Len(a) + Len(b)
        /\ \A k \in 1 .. Len(a) + Len(b) :
             (a \o b)[k] = IF k <= Len(a) THEN a[k] ELSE b[k - Len(a)]
    BY ConcatProperties
  <2>2. m \in Nat /\ n \in Nat
    OBVIOUS
  <2>3. ASSUME NEW k \in 1 .. m PROVE c[k] = a[k]
    BY <2>1, <2>2
  <2>4. ASSUME NEW k \in 1 .. n PROVE c[m + k] = b[k]
    <3>1. m + k \in 1 .. m + n /\ ~(m + k <= m) /\ (m + k) - m = k
      BY <2>2
    <3> QED BY <2>1, <3>1
  <2> QED BY <2>1, <2>3, <2>4
<1>2. m \in Nat /\ n \in Nat /\ DOMAIN a = 1 .. m /\ DOMAIN b = 1 .. n
  OBVIOUS
<1> HIDE DEF c
<1>3. DOMAIN c = 1 .. m + n
  BY <1>1
<1>4. \A k \in DOMAIN c : k \in 1 .. m \/ (k - m \in 1 .. n /\ k = m + (k - m))
  BY <1>2, <1>3
<1>5. \A k \in 1 .. m : k \in DOMAIN c
  BY <1>2, <1>3
<1>6. \A k \in 1 .. n : m + k \in DOMAIN c
  BY <1>2, <1>3
<1> HIDE DEF m, n
<1>7. ASSUME NEW v PROVE WritesIn(c, v) = WritesIn(a, v) \cup { m + k : k \in WritesIn(b, v) }
  <2> DEFINE P(r) == r.kind = "store" /\ r.what.op = "write" /\ r.what.to = v
  <2>1. /\ WritesIn(c, v) = { k \in DOMAIN c : P(c[k]) }
        /\ WritesIn(a, v) = { k \in DOMAIN a : P(a[k]) }
        /\ WritesIn(b, v) = { k \in DOMAIN b : P(b[k]) }
    BY DEF WritesIn
  <2> HIDE DEF P
  <2> QED BY <1>1, <1>2, <1>4, <1>5, <1>6, <2>1
<1>8. ASSUME NEW v PROVE FetchesIn(c, v) = FetchesIn(a, v) \cup { m + k : k \in FetchesIn(b, v) }
  <2> DEFINE P(r) == r.kind = "xfer" /\ r.what.op = "get" /\ r.what.to = v
  <2>1. /\ FetchesIn(c, v) = { k \in DOMAIN c : P(c[k]) }
        /\ FetchesIn(a, v) = { k \in DOMAIN a : P(a[k]) }
        /\ FetchesIn(b, v) = { k \in DOMAIN b : P(b[k]) }
    BY DEF FetchesIn
  <2> HIDE DEF P
  <2> QED BY <1>1, <1>2, <1>4, <1>5, <1>6, <2>1
<1> QED BY <1>1, <1>7, <1>8 DEF c, m, n

(* A step writes rows that are stamped now: the storage write of the       *)
(* volumes in w, the fabric charge of the readers in f.                    *)
Grows(w, f) ==
  /\ trace' \in Seq(Row)
  /\ \A k \in DOMAIN trace : k \in DOMAIN trace' /\ trace'[k] = trace[k]
  /\ \A k \in DOMAIN trace' : k \in DOMAIN trace \/ trace'[k].at = now
  /\ \A v : IF v \in w THEN \E k \in DOMAIN trace' :
                              /\ WritesIn(trace', v) = WritesIn(trace, v) \cup {k}
                              /\ trace'[k].at = now
            ELSE WritesIn(trace', v) = WritesIn(trace, v)
  /\ \A v : IF v \in f THEN \E k \in DOMAIN trace' :
                              /\ FetchesIn(trace', v) = FetchesIn(trace, v) \cup {k}
                              /\ trace'[k].at = now
            ELSE FetchesIn(trace', v) = FetchesIn(trace, v)

(* A row of a component, that a step writes.                               *)
Told(part) ==
  \E k \in DOMAIN trace' :
     k \notin DOMAIN trace /\ trace'[k] = [at |-> now, kind |-> part.kind, what |-> part]

LEMMA ToldBy ==
  ASSUME trace \in Seq(Row), NEW b \in Seq(Row), trace' = trace \o b, NEW part,
         NEW n \in 1 .. Len(b), b[n] = [at |-> now, kind |-> part.kind, what |-> part]
  PROVE  Told(part)
<1>1. Len(trace) \in Nat /\ DOMAIN trace = 1 .. Len(trace) /\ n \in Nat /\ n >= 1
  OBVIOUS
<1>2. Len(trace') = Len(trace) + Len(b) /\ trace'[Len(trace) + n] = b[n] /\ trace' \in Seq(Row)
  BY RowsAdded
<1>3. Len(trace) + n \in DOMAIN trace' /\ Len(trace) + n \notin DOMAIN trace
  BY <1>1, <1>2
<1> QED BY <1>2, <1>3 DEF Told

LEMMA GrowsBy ==
  ASSUME trace \in Seq(Row), NEW b \in Seq(Row), trace' = trace \o b, NEW w, NEW f,
         \A k \in 1 .. Len(b) : b[k].at = now,
         \A v : IF v \in w THEN \E k \in 1 .. Len(b) : WritesIn(b, v) = {k} ELSE WritesIn(b, v) = {},
         \A v : IF v \in f THEN \E k \in 1 .. Len(b) : FetchesIn(b, v) = {k} ELSE FetchesIn(b, v) = {}
  PROVE  Grows(w, f)
<1> DEFINE a == trace
           c == trace'
           m == Len(trace)
           n == Len(b)
<1>1. /\ c \in Seq(Row) /\ Len(c) = m + n
      /\ \A k \in 1 .. m : c[k] = a[k]
      /\ \A k \in 1 .. n : c[m + k] = b[k]
      /\ \A v : WritesIn(c, v) = WritesIn(a, v) \cup { m + k : k \in WritesIn(b, v) }
      /\ \A v : FetchesIn(c, v) = FetchesIn(a, v) \cup { m + k : k \in FetchesIn(b, v) }
  BY RowsAdded
<1>2. m \in Nat /\ n \in Nat /\ DOMAIN a = 1 .. m /\ DOMAIN c = 1 .. m + n
  BY <1>1
<1>3. \A k \in 1 .. m : k \in DOMAIN c
  BY <1>2
<1>4. \A k \in 1 .. n : m + k \in DOMAIN c /\ c[m + k].at = now
  <2> TAKE k \in 1 .. n
  <2>1. m + k \in DOMAIN c
    BY <1>2
  <2> QED BY <1>1, <2>1
<1>5. \A k \in DOMAIN c : k \in 1 .. m \/ (k - m \in 1 .. n /\ k = m + (k - m))
  BY <1>2
<1>6. \A k \in DOMAIN c : k \in DOMAIN a \/ c[k].at = now
  <2> TAKE k \in DOMAIN c
  <2>1. CASE k \in 1 .. m
    BY <1>2, <2>1
  <2>2. CASE k - m \in 1 .. n /\ k = m + (k - m)
    BY <1>4, <2>2
  <2> QED BY <1>5, <2>1, <2>2
<1> HIDE DEF a, c, m, n
<1>7. ASSUME NEW v, v \in w
      PROVE  \E k \in DOMAIN c : WritesIn(c, v) = WritesIn(a, v) \cup {k} /\ c[k].at = now
  <2>1. PICK k \in 1 .. n : WritesIn(b, v) = {k}
    BY <1>7 DEF n
  <2>2. WritesIn(c, v) = WritesIn(a, v) \cup {m + k}
    BY <1>1, <2>1
  <2> QED BY <1>4, <2>2
<1>8. ASSUME NEW v, v \notin w PROVE WritesIn(c, v) = WritesIn(a, v)
  <2>1. WritesIn(b, v) = {}
    BY <1>8
  <2>2. WritesIn(c, v) = WritesIn(a, v) \cup { m + k : k \in WritesIn(b, v) }
    BY <1>1
  <2> QED BY <2>1, <2>2
<1>9. ASSUME NEW v, v \in f
      PROVE  \E k \in DOMAIN c : FetchesIn(c, v) = FetchesIn(a, v) \cup {k} /\ c[k].at = now
  <2>1. PICK k \in 1 .. n : FetchesIn(b, v) = {k}
    BY <1>9 DEF n
  <2>2. FetchesIn(c, v) = FetchesIn(a, v) \cup {m + k}
    BY <1>1, <2>1
  <2> QED BY <1>4, <2>2
<1>10. ASSUME NEW v, v \notin f PROVE FetchesIn(c, v) = FetchesIn(a, v)
  <2>1. FetchesIn(b, v) = {}
    BY <1>10
  <2>2. FetchesIn(c, v) = FetchesIn(a, v) \cup { m + k : k \in FetchesIn(b, v) }
    BY <1>1
  <2> QED BY <2>1, <2>2
<1>11. \A k \in DOMAIN a : k \in DOMAIN c /\ c[k] = a[k]
  BY <1>1, <1>2, <1>3
<1>12. c \in Seq(Row)
  BY <1>1
<1>13. \A v : IF v \in w THEN \E k \in DOMAIN c : WritesIn(c, v) = WritesIn(a, v) \cup {k} /\ c[k].at = now
              ELSE WritesIn(c, v) = WritesIn(a, v)
  BY <1>7, <1>8
<1>14. \A v : IF v \in f THEN \E k \in DOMAIN c : FetchesIn(c, v) = FetchesIn(a, v) \cup {k} /\ c[k].at = now
              ELSE FetchesIn(c, v) = FetchesIn(a, v)
  BY <1>9, <1>10
<1> QED BY <1>6, <1>11, <1>12, <1>13, <1>14, Zenon DEF Grows, a, c

LEMMA GrowsNot ==
  ASSUME trace \in Seq(Row), trace' = trace
  PROVE  Grows({}, {})
BY DEF Grows

(* A row of another kind: the producer's compute, the burst's own.         *)
LEMMA GrowsOther ==
  ASSUME trace \in Seq(Row), now \in Nat, NEW kind \in {"compute", "burst"},
         NEW what \in Volumes \cup {Mesh},
         trace' = trace \o << [at |-> now, kind |-> kind, what |-> what] >>
  PROVE  Grows({}, {})
<1> DEFINE r == [at |-> now, kind |-> kind, what |-> what]
           b == <<r>>
<1>1. r \in Row /\ r.at = now /\ r.kind \notin {"store", "xfer"}
  BY DEF Row
<1> HIDE DEF r
<1>2. b \in Seq(Row) /\ Len(b) = 1 /\ b[1] = r /\ DOMAIN b = 1 .. 1
  BY <1>1
<1>3. trace' = trace \o b
  BY DEF r
<1> HIDE DEF b
<1>4. \A k \in 1 .. Len(b) : b[k] = r
  BY <1>2
<1>5. \A k \in 1 .. Len(b) : b[k].at = now
  BY <1>1, <1>4
<1>6. ASSUME NEW v PROVE WritesIn(b, v) = {}
  <2>1. \A k \in DOMAIN b : b[k].kind # "store"
    BY <1>1, <1>2, <1>4
  <2> QED BY <2>1 DEF WritesIn
<1>7. ASSUME NEW v PROVE FetchesIn(b, v) = {}
  <2>1. \A k \in DOMAIN b : b[k].kind # "xfer"
    BY <1>1, <1>2, <1>4
  <2> QED BY <2>1 DEF FetchesIn
<1> QED BY <1>2, <1>3, <1>5, <1>6, <1>7, GrowsBy

-----------------------------------------------------------------------------
(* The threads a step leaves behind.                                       *)

(* A thread whose location, timer and sleeps a step may have set.          *)
Moved(new, th, pc, wake, sleeps) ==
  new.pc = pc /\ new.wake = wake /\ new.sleeps = sleeps /\ new.src = th.src

Kept(new, th) == new.from = th.from /\ new.opened = th.opened

LEMMA DriverAt ==
  ASSUME NEW th \in Drivers, NEW pc \in DriverPcs, NEW new, new = [th EXCEPT !.pc = pc]
  PROVE  new \in Drivers /\ new.turn = th.turn /\ Moved(new, th, pc, th.wake, th.sleeps)
BY DEF Drivers, Moved

LEMMA DriverUntil ==
  ASSUME NEW th \in Drivers, NEW pc \in DriverPcs, NEW w \in Nat, NEW new,
         new = [th EXCEPT !.pc = pc, !.wake = w]
  PROVE  new \in Drivers /\ new.turn = th.turn /\ Moved(new, th, pc, w, th.sleeps)
BY DEF Drivers, Moved

LEMMA TaskAt ==
  ASSUME NEW th \in Tasks, NEW pc \in TaskPcs, NEW new, new = [th EXCEPT !.pc = pc]
  PROVE  new \in Tasks /\ Moved(new, th, pc, th.wake, th.sleeps) /\ Kept(new, th)
BY DEF Tasks, Moved, Kept

LEMMA TaskUntil ==
  ASSUME NEW th \in Tasks, NEW pc \in TaskPcs, NEW w \in Nat, NEW new,
         new = [th EXCEPT !.pc = pc, !.wake = w]
  PROVE  new \in Tasks /\ Moved(new, th, pc, w, th.sleeps) /\ Kept(new, th)
BY DEF Tasks, Moved, Kept

LEMMA TaskBound ==
  ASSUME NEW th \in Tasks, NEW v \in Volumes
  PROVE  /\ Bound(th, v) \in Tasks /\ Bound(th, v).src = v /\ Kept(Bound(th, v), th)
         /\ Moved(Bound(th, v), Bound(th, v), th.pc, th.wake, th.sleeps)
<1> DEFINE new == Bound(th, v)
<1>1. new = [th EXCEPT !.src = v]
  BY DEF Bound
<1> HIDE DEF new
<1>2. /\ new \in Tasks /\ new.src = v /\ new.pc = th.pc /\ new.wake = th.wake
      /\ new.sleeps = th.sleeps /\ Kept(new, th)
  BY <1>1 DEF Tasks, Kept
<1> QED BY <1>2 DEF new, Moved

(* One way to or from a service.                                           *)
LEMMA LegTakes ==
  ASSUME Configured, now \in Nat
  PROVE  run.config.controller_rtt \in Nat /\ now + run.config.controller_rtt \in Nat
         /\ now + run.config.controller_rtt >= now
<1>1. run.config.controller_rtt \in Nat
  BY SettingsType DEF Configured
<1> QED BY <1>1

LEMMA DriverLeg ==
  ASSUME Configured, now \in Nat, NEW th \in Drivers, NEW pc \in DriverPcs
  PROVE  /\ Leg(th, pc) \in Drivers /\ Leg(th, pc).turn = th.turn /\ Leg(th, pc).pc = pc
         /\ Leg(th, pc).wake >= now
<1> DEFINE new == Leg(th, pc)
           w == now + run.config.controller_rtt
<1>1. new = [th EXCEPT !.pc = pc, !.wake = w] /\ w \in Nat /\ w >= now
  BY LegTakes DEF Leg
<1> HIDE DEF new, w
<1>2. new \in Drivers /\ new.turn = th.turn /\ Moved(new, th, pc, w, th.sleeps)
  BY <1>1 DEF Drivers, Moved
<1>3. new.pc = pc /\ new.wake >= now
  BY <1>1, <1>2 DEF Moved
<1>4. Leg(th, pc) = new
  BY DEF new
<1> QED BY <1>2, <1>3, <1>4

LEMMA TaskLeg ==
  ASSUME Configured, now \in Nat, NEW th \in Tasks, NEW pc \in TaskPcs
  PROVE  /\ Leg(th, pc) \in Tasks /\ Leg(th, pc).pc = pc /\ Leg(th, pc).wake >= now
         /\ Leg(th, pc).sleeps = th.sleeps /\ Leg(th, pc).src = th.src /\ Kept(Leg(th, pc), th)
<1> DEFINE new == Leg(th, pc)
           w == now + run.config.controller_rtt
<1>1. new = [th EXCEPT !.pc = pc, !.wake = w] /\ w \in Nat /\ w >= now
  BY LegTakes DEF Leg
<1> HIDE DEF new, w
<1>2. new \in Tasks /\ Moved(new, th, pc, w, th.sleeps) /\ Kept(new, th)
  BY <1>1, TaskUntil
<1> QED BY <1>1, <1>2 DEF Moved, new

(* The first sleep of a put, and of a get.                                 *)
LEMMA DriverPuts ==
  ASSUME Configured, now \in Nat, NEW th \in Drivers, NEW v \in Volumes, NEW new,
         new = Charging(th, "putting", PutParts(v, v))
  PROVE  /\ new \in Drivers /\ new.turn = th.turn /\ new.pc = "putting"
         /\ new.sleeps \in Tails(PutParts(v, v)) /\ new.wake >= now
<1> DEFINE s == Sleeps(PutParts(v, v))
           w == now + Duration(s[1])
<1>1. s \in Tails(PutParts(v, v))
  BY WholePut
<1>2. new = [th EXCEPT !.pc = "putting", !.sleeps = s, !.wake = w] /\ "putting" \in DriverPcs
  BY DEF Charging, DriverPcs
<1> HIDE DEF s
<1>0. s \in Sleepings /\ Duration(s[1]) \in Nat
  BY <1>1, PutSleep DEF Sleepings
<1>3. s \in Sleepings /\ w \in Nat /\ w >= now
  BY <1>0
<1> HIDE DEF w
<1>4. new \in Drivers /\ new.turn = th.turn /\ Moved(new, th, "putting", w, s)
  BY <1>2, <1>3 DEF Drivers, Moved
<1> QED BY <1>1, <1>3, <1>4 DEF Moved

LEMMA TaskPuts ==
  ASSUME Configured, now \in Nat, NEW th \in Tasks, NEW v \in Volumes, NEW pc \in TaskPcs, NEW new,
         new = Charging(th, pc, PutParts(v, v))
  PROVE  /\ new \in Tasks /\ new.pc = pc /\ new.src = th.src /\ Kept(new, th)
         /\ new.sleeps \in Tails(PutParts(v, v)) /\ new.wake >= now
<1> DEFINE s == Sleeps(PutParts(v, v))
           w == now + Duration(s[1])
<1>1. s \in Tails(PutParts(v, v))
  BY WholePut
<1>2. new = [th EXCEPT !.pc = pc, !.sleeps = s, !.wake = w]
  BY DEF Charging
<1> HIDE DEF s
<1>0. s \in Sleepings /\ Duration(s[1]) \in Nat
  BY <1>1, PutSleep DEF Sleepings
<1>3. s \in Sleepings /\ w \in Nat /\ w >= now
  BY <1>0
<1> HIDE DEF w
<1>4. new \in Tasks /\ Moved(new, th, pc, w, s) /\ Kept(new, th)
  BY <1>2, <1>3 DEF Tasks, Moved, Kept
<1> QED BY <1>1, <1>3, <1>4 DEF Moved

LEMMA TaskOpens ==
  ASSUME Configured, now \in Nat, NEW i \in Volumes, NEW th \in Tasks, th.src = i,
         th.from \in Volumes, NEW new, new = Opened(th)
  PROVE  /\ new \in Tasks /\ new.src = i /\ new.from = th.from
         /\ owner # Mesh => new.pc = "stray"
         /\ owner = Mesh =>
              /\ new.pc = "getting" /\ new.opened = now
              /\ new.sleeps \in Tails(GetParts(i, th.from)) /\ new.wake >= now
              /\ new.wake + Owed(new.sleeps) = now + ReadTime(th.from, i, Bytes)
              /\ run.config.collapse_charges \/ Len(new.sleeps) = 3
<1> DEFINE d == th.from
           s == Sleeps(GetParts(i, d))
           w == now + Duration(s[1])
<1>1. /\ s \in Tails(GetParts(i, d)) /\ Duration(s[1]) + Owed(s) = ReadTime(d, i, Bytes)
      /\ run.config.collapse_charges \/ Len(s) = 3
  BY ReadPriced
<1>2. CASE owner = Mesh
  <2> DEFINE mid == [th EXCEPT !.pc = "getting", !.sleeps = s, !.wake = w]
  <2>1. new = [mid EXCEPT !.opened = now] /\ "getting" \in TaskPcs
    BY <1>2 DEF Opened, Charging, TaskPcs
  <2> HIDE DEF s
  <2>2. s \in Sleepings /\ Duration(s[1]) \in Nat /\ Owed(s) \in Nat
    BY <1>1, GetSleep DEF Sleepings
  <2>3. /\ w \in Nat /\ w >= now
        /\ w + Owed(s) = now + ReadTime(d, i, Bytes)
    BY <1>1, <2>2
  <2> HIDE DEF w
  <2>4. mid \in Tasks /\ Moved(mid, th, "getting", w, s) /\ Kept(mid, th)
    BY <2>1, <2>2, <2>3 DEF Tasks, Moved, Kept
  <2> HIDE DEF mid
  <2>5. /\ new \in Tasks /\ Moved(new, mid, mid.pc, mid.wake, mid.sleeps) /\ new.from = mid.from
        /\ new.opened = now
    BY <2>1, <2>4 DEF Tasks, Moved
  <2>6. /\ new \in Tasks /\ new.src = i /\ new.from = d /\ new.pc = "getting" /\ new.opened = now
        /\ new.sleeps = s /\ new.wake = w
    BY <2>4, <2>5 DEF Moved, Kept
  <2> QED BY <1>1, <1>2, <2>3, <2>6
<1>3. CASE owner # Mesh
  <2>1. new = [th EXCEPT !.pc = "stray"] /\ "stray" \in TaskPcs
    BY <1>3 DEF Opened, TaskPcs
  <2>2. new \in Tasks /\ Moved(new, th, "stray", th.wake, th.sleeps) /\ Kept(new, th)
    BY <2>1, TaskAt
  <2> QED BY <1>3, <2>2 DEF Moved, Kept
<1> QED BY <1>2, <1>3

(* The next sleep of an operation.                                         *)
LEMMA DriverSleeps ==
  ASSUME Configured, now \in Nat, NEW th \in Drivers, NEW v \in Volumes, NEW new,
         th.sleeps \in Tails(PutParts(v, v)), Len(th.sleeps) # 1, new = NextSleep(th)
  PROVE  /\ new \in Drivers /\ new.turn = th.turn /\ new.pc = th.pc
         /\ new.sleeps \in Tails(PutParts(v, v)) /\ new.wake >= now
<1> DEFINE s == th.sleeps
           w == now + Duration(s[2])
           rest == Tail(s)
<1>0. rest \in Tails(PutParts(v, v)) /\ Duration(s[2]) \in Nat
  BY PutSleep
<1>1. rest \in Tails(PutParts(v, v)) /\ w \in Nat /\ w >= now
  BY <1>0
<1>2. rest \in Sleepings
  BY <1>1, PutSleep DEF Sleepings
<1>3. new = [th EXCEPT !.sleeps = rest, !.wake = w]
  BY DEF NextSleep, Drivers
<1> HIDE DEF w, rest
<1>4. new \in Drivers /\ new.turn = th.turn /\ Moved(new, th, th.pc, w, rest)
  BY <1>1, <1>2, <1>3 DEF Drivers, Moved
<1> QED BY <1>1, <1>4 DEF Moved

LEMMA TaskSleeps ==
  ASSUME Configured, now \in Nat, NEW th \in Tasks, NEW v \in Volumes, NEW new,
         th.sleeps \in Tails(PutParts(v, v)), Len(th.sleeps) # 1, new = NextSleep(th)
  PROVE  /\ new \in Tasks /\ new.pc = th.pc /\ new.src = th.src /\ Kept(new, th)
         /\ new.sleeps \in Tails(PutParts(v, v)) /\ new.wake >= now
<1> DEFINE s == th.sleeps
           w == now + Duration(s[2])
           rest == Tail(s)
<1>0. rest \in Tails(PutParts(v, v)) /\ Duration(s[2]) \in Nat
  BY PutSleep
<1>1. rest \in Tails(PutParts(v, v)) /\ w \in Nat /\ w >= now
  BY <1>0
<1>2. rest \in Sleepings
  BY <1>1, PutSleep DEF Sleepings
<1>3. new = [th EXCEPT !.sleeps = rest, !.wake = w]
  BY DEF NextSleep, Tasks
<1> HIDE DEF w, rest
<1>4. new \in Tasks /\ Moved(new, th, th.pc, w, rest) /\ Kept(new, th)
  BY <1>1, <1>2, <1>3 DEF Tasks, Moved, Kept
<1> QED BY <1>1, <1>4 DEF Moved

LEMMA ReadSleeps ==
  ASSUME Configured, now \in Nat, NEW th \in Tasks, NEW i \in Volumes, NEW d \in Volumes, NEW new,
         th.sleeps \in Tails(GetParts(i, d)), Len(th.sleeps) # 1, new = NextSleep(th)
  PROVE  /\ new \in Tasks /\ new.pc = th.pc /\ new.src = th.src /\ Kept(new, th)
         /\ new.sleeps \in Tails(GetParts(i, d)) /\ new.wake >= now
         /\ new.wake + Owed(new.sleeps) = now + Owed(th.sleeps)
         /\ Len(new.sleeps) + 1 = Len(th.sleeps)
<1> DEFINE s == th.sleeps
           w == now + Duration(s[2])
           rest == Tail(s)
<1>1. /\ Duration(s[2]) \in Nat /\ rest \in Tails(GetParts(i, d))
      /\ Owed(s) = Duration(s[2]) + Owed(rest) /\ Owed(rest) \in Nat
  BY GetSleep
<1>6. Len(rest) + 1 = Len(s)
  <2>1. s \in Seq(Seq(Parts)) /\ Len(s) \in {1, 2, 3}
    BY GetSleep
  <2> HIDE DEF s
  <2>2. s # <<>>
    <3> SUFFICES ASSUME s = <<>> PROVE FALSE
      OBVIOUS
    <3>1. Len(s) = 0
      OBVIOUS
    <3> QED BY <2>1, <3>1
  <2>3. Len(Tail(s)) = Len(s) - 1
    BY <2>1, <2>2, HeadTailProperties
  <2> QED BY <2>1, <2>3
<1>2. rest \in Sleepings
  BY <1>1, GetSleep DEF Sleepings
<1>3. w \in Nat /\ w >= now /\ w + Owed(rest) = now + Owed(s)
  BY <1>1
<1>4. new = [th EXCEPT !.sleeps = rest, !.wake = w]
  BY DEF NextSleep, Tasks
<1> HIDE DEF w, rest
<1>5. new \in Tasks /\ Moved(new, th, th.pc, w, rest) /\ Kept(new, th)
  BY <1>2, <1>3, <1>4 DEF Tasks, Moved, Kept
<1> QED BY <1>1, <1>3, <1>5, <1>6 DEF Moved

-----------------------------------------------------------------------------
(* Types, places and stages, from step to step.                            *)

(* A step of one item.                                                     *)
LEMMA ItemStep ==
  ASSUME Base, NEW i \in Items, NEW th \in Tasks, task' = [task EXCEPT ![i] = th],
         ~Preparing, main.pc # "closed", task[i].pc \notin {"done", "failed"},
         UNCHANGED <<run, now, owner, main, listed>>,
         pub' \in Tasks, pub' = pub \/ (~Direct /\ pub'.pc = "created"),
         stored' \subseteq Volumes, ready' \subseteq Items, ledger' \in Ledgers, trace' \in Seq(Row),
         th.pc # "idle", Placed(th, i), Staged(th, i), th.pc = "stray" => owner # Mesh
  PROVE  Base'
<1>1. run' = run
  OBVIOUS
<1>2. /\ Direct' = Direct /\ Publishers' = Publishers /\ Configured' = Configured
      /\ \A parts : Tails(parts)' = Tails(parts)
      /\ \A t, j : Placed(t, j)' = Placed(t, j) /\ Staged(t, j)' = Staged(t, j)
  BY <1>1, SameRun
<1>3. /\ Preparing' = Preparing /\ Putting' = Putting /\ Holder' = Holder
  BY <1>2 DEF Preparing, Putting, Holder
<1>4. task \in [Items -> Tasks] /\ \A j \in Items : task'[j] = IF j = i THEN th ELSE task[j]
  BY DEF Base, Typed
<1>5. task' \in [Items -> Tasks]
  BY <1>4
<1>6. Typed'
  BY <1>2, <1>5, Zenon DEF Base, Typed
<1>7. SomeFailed => SomeFailed'
  BY <1>4 DEF SomeFailed
<1>8. main.pc \in {"gathering", "raised"}
  <2>1. main.pc # "returned"
    BY DEF Base, Places, AllDone
  <2>2. main.pc \in DriverPcs
    BY DEF Base, Typed, Drivers
  <2> QED BY <2>1, <2>2 DEF Preparing, Putting, DriverPcs, Base, Places
<1>9. owner # Mesh => SomeFailed
  BY <1>8 DEF Base, Places, Holder, Putting
<1>10. \A j \in Items : Placed(task'[j], j) /\ (task'[j].pc = "stray" => SomeFailed')
  BY <1>4, <1>7, <1>9 DEF Base, Places
<1>11. \A j \in Items : Staged(task'[j], j)
  BY <1>4 DEF Base, Stages
<1>12. \A j \in Items : task'[j].pc # "idle"
  BY <1>4 DEF Base, Places
<1>13. /\ pub'.pc \in {"idle", "created", "putting", "done"}
       /\ Direct => pub'.pc = "idle"
       /\ pub'.pc = "putting" => pub' = pub
  BY DEF Base, Places
<1>14. Places'
  BY <1>2, <1>3, <1>7, <1>8, <1>10, <1>12, <1>13 DEF Base, Places
<1>15. Stages'
  BY <1>2, <1>8, <1>11, <1>13 DEF Base, Stages
<1> QED BY <1>6, <1>14, <1>15 DEF Base

(* A step of the driving coroutine, which leaves the others where they are.*)
LEMMA DriverStep ==
  ASSUME Base, NEW th \in Drivers, main' = th,
         UNCHANGED <<run, now, task, pub, ready>>,
         stored' \subseteq Volumes, listed' \in Seq(Origins), ledger' \in Ledgers, trace' \in Seq(Row),
         th.turn <= Len(Publishers), th.pc # "refused",
         owner' = Holder', ~Direct => ~Putting', Preparing' = Preparing,
         Direct /\ (th.pc = "notified" \/ ~Preparing) => listed' # <<>>,
         th.pc = "putting" =>
           th.sleeps \in Tails(PutParts(Publishers[th.turn], Publishers[th.turn])),
         th.pc = "returned" => AllDone, th.pc = "raised" => SomeFailed,
         th.pc = "closed" => AllDone \/ SomeFailed
  PROVE  Base'
<1>1. run' = run
  OBVIOUS
<1>2. /\ Direct' = Direct /\ Publishers' = Publishers /\ Configured' = Configured
      /\ \A parts : Tails(parts)' = Tails(parts)
      /\ \A t, j : Placed(t, j)' = Placed(t, j) /\ Staged(t, j)' = Staged(t, j)
  BY <1>1, SameRun
<1>3. SomeFailed' = SomeFailed /\ AllDone' = AllDone
  BY DEF SomeFailed, AllDone
<1>4. Typed'
  BY <1>2, Zenon DEF Base, Typed
<1>5. Places'
  BY <1>2, <1>3 DEF Base, Places
<1>6. Stages'
  BY <1>2 DEF Base, Stages
<1> QED BY <1>4, <1>5, <1>6 DEF Base

(* A step of the publication task.                                         *)
LEMMA PubStep ==
  ASSUME Base, NEW th \in Tasks, pub' = th, ~Direct, pub.pc # "idle",
         UNCHANGED <<run, now, owner, main, task, listed, ready>>,
         stored' \subseteq Volumes, ledger' \in Ledgers, trace' \in Seq(Row),
         th.pc \in {"putting", "done"},
         th.pc = "putting" => th.sleeps \in Tails(PutParts(Publishers[1], Publishers[1]))
  PROVE  Base'
<1>1. run' = run
  OBVIOUS
<1>2. /\ Direct' = Direct /\ Publishers' = Publishers /\ Configured' = Configured
      /\ \A parts : Tails(parts)' = Tails(parts)
      /\ \A t, j : Placed(t, j)' = Placed(t, j) /\ Staged(t, j)' = Staged(t, j)
  BY <1>1, SameRun
<1>3. SomeFailed' = SomeFailed /\ AllDone' = AllDone
  BY DEF SomeFailed, AllDone
<1>4. /\ Preparing' = Preparing /\ Putting' = Putting /\ Holder' = Holder /\ ~Preparing
  BY <1>2 DEF Preparing, Putting, Holder, Base, Places
<1>5. Typed'
  BY <1>2, Zenon DEF Base, Typed
<1>6. Places'
  BY <1>2, <1>3, <1>4 DEF Base, Places
<1>7. Stages'
  BY <1>2 DEF Base, Stages
<1> QED BY <1>5, <1>6, <1>7 DEF Base

-----------------------------------------------------------------------------
(* What each operation of the driving coroutine does.                      *)

LEMMA GenerateTakes ==
  ASSUME Configured
  PROVE  GenerateTime \in Nat
<1> DEFINE a == 2 * Elements * EffectiveFlops(run.device)
           b == Bytes * MemBandwidth(run.device)
<1>1. /\ Elements \in Nat /\ Bytes \in Nat /\ Profile.gpu_flops_default \in Nat
      /\ Profile.cpu_flops \in Nat /\ Profile.gpu_mem \in Nat /\ Profile.ram[2] \in Nat
      /\ \A f \in DOMAIN Profile.gpu_flops : Profile.gpu_flops[f] \in Nat
  <2>1. Elements \in Nat /\ Bytes \in Nat
    BY RunAssumption DEF Bytes
  <2>2. MachineProfile(Profile)
    BY RunAssumption
  <2>3. Profile.ram \in Cost
    BY <2>2 DEF MachineProfile
  <2>4. Profile.ram[2] \in Nat
    BY <2>3 DEF Cost
  <2> QED BY <2>1, <2>2, <2>4 DEF MachineProfile
<1>2. EffectiveFlops(run.device) \in Nat /\ MemBandwidth(run.device) \in Nat
  BY <1>1 DEF EffectiveFlops, MemBandwidth
<1>3. a \in Nat /\ b \in Nat
  BY <1>1, <1>2
<1>4. GenerateTime = Max({a, b})
  BY DEF GenerateTime, ComputeTime
<1> HIDE DEF a, b
<1>5. \E m \in {a, b} : \A y \in {a, b} : m >= y
  BY <1>3
<1>6. Max({a, b}) \in {a, b}
  BY <1>5 DEF Max
<1> QED BY <1>3, <1>4, <1>6

LEMMA GenerateShape ==
  ASSUME Base, Generate
  PROVE  /\ main' \in Drivers /\ main'.turn = main.turn /\ main'.pc = "generating" /\ main'.wake >= now
         /\ Grows({}, {})
<1> DEFINE w == now + GenerateTime
<1>1. now \in Nat /\ main \in Drivers /\ GenerateTime \in Nat /\ trace \in Seq(Row)
  BY GenerateTakes DEF Base, Typed
<1>2. main' = [main EXCEPT !.pc = "generating", !.wake = w] /\ w \in Nat /\ w >= now
      /\ "generating" \in DriverPcs
  BY <1>1 DEF Generate, DriverPcs
<1> HIDE DEF w
<1>3. main' \in Drivers /\ main'.turn = main.turn /\ Moved(main', main, "generating", w, main.sleeps)
  BY <1>1, <1>2 DEF Drivers, Moved
<1> QED BY <1>1, <1>2, <1>3, GrowsNot DEF Moved, Generate

(* A row of a computation, or of the burst.                                *)
LEMMA Recorded ==
  ASSUME Base, NEW kind \in {"compute", "burst"}, NEW what \in Volumes \cup {Mesh},
         trace' = Record(kind, what)
  PROVE  Grows({}, {})
<1> DEFINE r == [at |-> now, kind |-> kind, what |-> what]
<1>1. now \in Nat /\ trace \in Seq(Row) /\ trace' = Append(trace, r)
  BY DEF Record, Base, Typed
<1>2. r \in Row
  BY <1>1 DEF Row
<1> HIDE DEF r
<1>3. Append(trace, r) = trace \o <<r>>
  BY <1>1, <1>2, AppendIsConcat
<1>4. trace' = trace \o << [at |-> now, kind |-> kind, what |-> what] >>
  BY <1>1, <1>3 DEF r
<1> QED BY <1>1, <1>4, GrowsOther

LEMMA PutOpens ==
  ASSUME Base, NEW th \in Drivers, th.turn \in 1 .. Len(Publishers), PutOpen(Nobody, th)
  PROVE  /\ main' \in Drivers /\ main'.turn = th.turn /\ main'.pc = "putting" /\ main'.wake >= now
         /\ main'.sleeps \in Tails(PutParts(Publishers[th.turn], Publishers[th.turn]))
         /\ owner' = Publishers[th.turn] /\ stored' \subseteq Volumes
<1> DEFINE p == Publishers[th.turn]
<1>1. p \in Volumes /\ Configured /\ now \in Nat /\ stored \subseteq Volumes
  BY PublishersType DEF Base, Typed, Volumes
<1>2. /\ owner' = p /\ stored' = stored \cup {p}
      /\ main' = Charging(th, "putting", PutParts(p, p))
  BY DEF PutOpen, Entered, SelectVolume
<1> HIDE DEF p
<1>3. /\ main' \in Drivers /\ main'.turn = th.turn /\ main'.pc = "putting"
      /\ main'.sleeps \in Tails(PutParts(p, p)) /\ main'.wake >= now
  BY <1>1, <1>2, DriverPuts
<1> QED BY <1>1, <1>2, <1>3 DEF p

LEMMA PublishFirstShape ==
  ASSUME Base, PublishFirst
  PROVE  /\ main' \in Drivers /\ main'.turn = main.turn /\ main'.pc = "putting" /\ main'.wake >= now
         /\ main'.sleeps \in Tails(PutParts(Publishers[main.turn], Publishers[main.turn]))
         /\ owner' = Publishers[main.turn] /\ stored' \subseteq Volumes
         /\ Grows({}, {}) /\ main.pc \in {"start", "generating"} /\ Direct
         /\ UNCHANGED <<run, now, task, pub, listed, ready, ledger>>
<1>1. /\ main.pc \in {"start", "generating"} /\ Direct /\ PutOpen(owner, main)
      /\ trace' = trace \/ trace' = Record("compute", Publishers[1])
  BY DEF PublishFirst, Due, Direct
<1>2. owner = Nobody
  BY <1>1 DEF Base, Places, Holder, Putting
<1>3. main \in Drivers /\ main.turn \in 1 .. Len(Publishers) /\ trace \in Seq(Row) /\ now \in Nat
  BY PublishersType DEF Base, Typed, Drivers
<1>4. /\ main' \in Drivers /\ main'.turn = main.turn /\ main'.pc = "putting" /\ main'.wake >= now
      /\ main'.sleeps \in Tails(PutParts(Publishers[main.turn], Publishers[main.turn]))
      /\ owner' = Publishers[main.turn] /\ stored' \subseteq Volumes
  BY <1>1, <1>2, <1>3, PutOpens
<1>5. Grows({}, {})
  <2>1. CASE trace' = trace
    BY <1>3, <2>1, GrowsNot
  <2>2. CASE trace' = Record("compute", Publishers[1])
    <3>1. Publishers[1] \in Volumes \cup {Mesh}
      BY PublishersType DEF Base, Typed, Volumes
    <3> QED BY <2>2, <3>1, Recorded
  <2> QED BY <1>1, <2>1, <2>2
<1>6. UNCHANGED <<run, now, task, pub, listed, ready, ledger>>
  BY <1>1 DEF PutOpen
<1> QED BY <1>1, <1>4, <1>5, <1>6

LEMMA PublishNextShape ==
  ASSUME Base, PublishNext
  PROVE  /\ main' \in Drivers /\ main'.turn = main.turn + 1 /\ main'.pc = "putting" /\ main'.wake >= now
         /\ main'.sleeps \in Tails(PutParts(Publishers[main.turn + 1], Publishers[main.turn + 1]))
         /\ owner' = Publishers[main.turn + 1] /\ stored' \subseteq Volumes
         /\ Grows({}, {}) /\ main.pc = "notified" /\ main.turn + 1 \in 1 .. Len(Publishers)
         /\ UNCHANGED <<run, now, task, pub, listed, ready, ledger>>
<1> DEFINE th == [main EXCEPT !.turn = @ + 1]
<1>1. /\ main.pc = "notified" /\ main.turn < Len(Publishers) /\ trace' = trace
      /\ PutOpen(Nobody, th)
  BY DEF PublishNext, Due, Left
<1>2. /\ main \in Drivers /\ main.turn \in Nat \ {0} /\ Len(Publishers) \in Nat /\ trace \in Seq(Row)
  BY PublishersType DEF Base, Typed, Drivers
<1>3. th \in Drivers /\ th.turn = main.turn + 1
  BY <1>2 DEF Drivers
<1> HIDE DEF th
<1>4. th.turn \in 1 .. Len(Publishers)
  BY <1>1, <1>2, <1>3
<1>5. /\ main' \in Drivers /\ main'.turn = th.turn /\ main'.pc = "putting" /\ main'.wake >= now
      /\ main'.sleeps \in Tails(PutParts(Publishers[th.turn], Publishers[th.turn]))
      /\ owner' = Publishers[th.turn] /\ stored' \subseteq Volumes
  BY <1>1, <1>3, <1>4, PutOpens
<1>6. Grows({}, {})
  BY <1>1, <1>2, GrowsNot
<1>7. UNCHANGED <<run, now, task, pub, listed, ready, ledger>>
  BY <1>1 DEF PutOpen
<1> QED BY <1>1, <1>3, <1>4, <1>5, <1>6, <1>7

(* The storage row of a put comes with its last sleep, when it costs.      *)
Written(v, sleeps) == IF Len(sleeps) = 1 /\ StorageTime(Bytes, "write") > 0 THEN {v} ELSE {}

LEMMA PutEmits ==
  ASSUME Base, NEW v \in Volumes, NEW s \in Tails(PutParts(v, v)),
         trace' = trace \o Rows(Emitted(s[1]))
  PROVE  Grows(Written(v, s), {}) /\ Accounted(ledger, s[1]) = ledger /\ Len(s) \in Nat
<1> DEFINE b == Rows(Emitted(s[1]))
<1>1. /\ b \in Seq(Row) /\ \A k \in 1 .. Len(b) : b[k].at = now
      /\ \A i : FetchesIn(b, i) = {}
      /\ \A u : WritesIn(b, u)
                  = IF u = v /\ Len(s) = 1 /\ StorageTime(Bytes, "write") > 0 THEN {Len(b)} ELSE {}
      /\ \A l \in Ledgers : Accounted(l, s[1]) = l
      /\ Len(s) \in {1, 2}
  BY PutSleep DEF Base, Typed
<1> HIDE DEF b
<1>2. ASSUME NEW u
      PROVE  IF u \in Written(v, s) THEN \E k \in 1 .. Len(b) : WritesIn(b, u) = {k}
             ELSE WritesIn(b, u) = {}
  <2>1. CASE u = v /\ Len(s) = 1 /\ StorageTime(Bytes, "write") > 0
    <3>1. WritesIn(b, u) = {Len(b)}
      BY <1>1, <2>1
    <3>2. Len(b) \in DOMAIN b
      BY <3>1 DEF WritesIn
    <3>3. DOMAIN b = 1 .. Len(b)
      BY <1>1
    <3> QED BY <2>1, <3>1, <3>2, <3>3 DEF Written
  <2>2. CASE ~ (u = v /\ Len(s) = 1 /\ StorageTime(Bytes, "write") > 0)
    BY <1>1, <2>2 DEF Written
  <2> QED BY <2>1, <2>2
<1>3. trace \in Seq(Row) /\ ledger \in Ledgers /\ trace' = trace \o b
  BY DEF b, Base, Typed
<1>4. Grows(Written(v, s), {})
  BY <1>1, <1>2, <1>3, GrowsBy
<1> QED BY <1>1, <1>3, <1>4

LEMMA PutChargeShape ==
  ASSUME Base, PutCharge
  PROVE  /\ main' \in Drivers /\ main'.turn = main.turn /\ main'.wake >= now
         /\ main'.pc = IF Len(main.sleeps) = 1 THEN "notifying" ELSE "putting"
         /\ main'.pc = "putting" =>
              main'.sleeps \in Tails(PutParts(Publishers[main.turn], Publishers[main.turn]))
         /\ Grows(Written(Publishers[main.turn], main.sleeps), {}) /\ main.pc = "putting"
         /\ ledger' = ledger
<1> DEFINE p == Publishers[main.turn]
           s == main.sleeps
<1>1. /\ main.pc = "putting" /\ Emit(s[1])
      /\ main' = IF Len(s) = 1 THEN Leg(main, "notifying") ELSE NextSleep(main)
  BY DEF PutCharge, Due, LastSleep
<1>2. /\ p \in Volumes /\ s \in Tails(PutParts(p, p)) /\ main \in Drivers /\ Configured /\ now \in Nat
  BY <1>1, PublishersType DEF Base, Typed, Stages, Volumes, Drivers
<1> HIDE DEF p
<1>3. Grows(Written(p, s), {}) /\ Accounted(ledger, s[1]) = ledger
  BY <1>1, <1>2, PutEmits DEF Emit
<1>4. ledger' = ledger
  BY <1>1, <1>3 DEF Emit
<1>5. CASE Len(s) = 1
  <2>1. main' = Leg(main, "notifying") /\ "notifying" \in DriverPcs
    BY <1>1, <1>5 DEF DriverPcs
  <2>2. main' \in Drivers /\ main'.turn = main.turn /\ main'.pc = "notifying" /\ main'.wake >= now
    BY <1>2, <2>1, DriverLeg
  <2> QED BY <1>1, <1>3, <1>4, <1>5, <2>2 DEF p
<1>6. CASE Len(s) # 1
  <2>1. main' = NextSleep(main)
    BY <1>1, <1>6
  <2>2. /\ main' \in Drivers /\ main'.turn = main.turn /\ main'.pc = main.pc
        /\ main'.sleeps \in Tails(PutParts(p, p)) /\ main'.wake >= now
    BY <1>2, <1>6, <2>1, DriverSleeps
  <2> QED BY <1>1, <1>3, <1>4, <1>6, <2>2 DEF p
<1> QED BY <1>5, <1>6

LEMMA PutListedShape ==
  ASSUME Base, PutListed
  PROVE  /\ main' \in Drivers /\ main'.turn = main.turn /\ main'.wake >= now
         /\ main'.pc = "notified" /\ main.pc = "notifying" /\ Grows({}, {})
         /\ listed' \in Seq(Origins) /\ Len(listed') = Len(listed) + 1
         /\ \A k \in 1 .. Len(listed) : listed'[k] = listed[k]
         /\ listed'[Len(listed) + 1] = Publishers[main.turn]
<1>1. /\ main.pc = "notifying" /\ listed' = Append(listed, Publishers[main.turn])
      /\ main' = Leg(main, "notified") /\ trace' = trace /\ "notified" \in DriverPcs
  BY DEF PutListed, Due, DriverPcs
<1>2. /\ Publishers[main.turn] \in Origins /\ listed \in Seq(Origins) /\ main \in Drivers
      /\ Configured /\ now \in Nat /\ trace \in Seq(Row)
  BY PublishersType DEF Base, Typed, Drivers
<1>3. main' \in Drivers /\ main'.turn = main.turn /\ main'.pc = "notified" /\ main'.wake >= now
  BY <1>1, <1>2, DriverLeg
<1>4. /\ listed' \in Seq(Origins) /\ Len(listed') = Len(listed) + 1
      /\ \A k \in 1 .. Len(listed) : listed'[k] = listed[k]
      /\ listed'[Len(listed) + 1] = Publishers[main.turn]
  BY <1>1, <1>2, AppendProperties
<1> QED BY <1>1, <1>2, <1>3, <1>4, GrowsNot

LEMMA ReleaseItemsShape ==
  ASSUME Base, ReleaseItems
  PROVE  /\ main' \in Drivers /\ main'.turn = main.turn /\ main'.pc = "gathering"
         /\ Direct => main.pc = "notified" /\ main.turn = Len(Publishers)
         /\ ~Direct => main.pc = "generating"
         /\ owner' = Mesh /\ ledger' = [ledger EXCEPT !.total = @ + Cardinality(Items)]
         /\ task' \in [Items -> Tasks]
         /\ \A i \in Items : task'[i].pc = "created" /\ task'[i].wake = now
         /\ Grows({}, {})
<1>1. /\ \/ main.pc = "notified" /\ main.turn = Len(Publishers) /\ trace' = Record("burst", Mesh)
         \/ main.pc = "generating" /\ ~Direct /\ trace' = Record("compute", Publishers[1])
      /\ owner' = Mesh
      /\ ledger' = [ledger EXCEPT !.total = @ + Cardinality(Items)]
      /\ main' = [main EXCEPT !.pc = "gathering"]
      /\ task' = [i \in Items |-> [Idle EXCEPT !.pc = "created", !.wake = now, !.src = main.src]]
  BY DEF ReleaseItems, Due, Entered, Left
<1>2. /\ Direct => main.pc = "notified" /\ main.turn = Len(Publishers)
      /\ ~Direct => main.pc = "generating"
  <2>1. main.pc = "generating" /\ ~Direct => TRUE
    OBVIOUS
  <2>2. main.pc = "notified" => Direct
    BY DEF Base, Places, Putting
  <2> QED BY <1>1, <2>2
<1>3. Publishers[1] \in Volumes \cup {Mesh} /\ Mesh \in Volumes \cup {Mesh}
  BY PublishersType DEF Base, Typed, Volumes
<1>4. Grows({}, {})
  BY <1>1, <1>3, Recorded
<1>5. main \in Drivers /\ main.src = Unbound /\ now \in Nat
  BY DEF Base, Typed, Drivers
<1>6. main' \in Drivers /\ main'.turn = main.turn /\ main'.pc = "gathering"
  <2>1. main' = [main EXCEPT !.pc = "gathering"] /\ "gathering" \in DriverPcs
    BY <1>1 DEF DriverPcs
  <2> QED BY <1>5, <2>1 DEF Drivers
<1> DEFINE t == [Idle EXCEPT !.pc = "created", !.wake = now, !.src = main.src]
<1>7. t \in Tasks /\ t.pc = "created" /\ t.wake = now
  <2>1. t = [pc |-> "created", wake |-> now, sleeps |-> <<>>, src |-> Unbound, from |-> Unbound,
             opened |-> 0]
    <3>1. t = [Idle EXCEPT !.pc = "created", !.wake = now, !.src = Unbound]
      BY <1>5
    <3> HIDE DEF t
    <3> QED BY <3>1 DEF Idle
  <2>2. "created" \in TaskPcs /\ <<>> \in Sleepings
    BY DEF TaskPcs, Sleepings
  <2> HIDE DEF t
  <2> QED BY <1>5, <2>1, <2>2 DEF Tasks
<1> HIDE DEF t
<1>8. task' = [i \in Items |-> t]
  BY <1>1 DEF t
<1>9. task' \in [Items -> Tasks] /\ \A i \in Items : task'[i].pc = "created" /\ task'[i].wake = now
  BY <1>7, <1>8
<1> QED BY <1>1, <1>2, <1>4, <1>6, <1>9

LEMMA GatherShape ==
  ASSUME Base, Gather
  PROVE  /\ main' \in Drivers /\ main'.turn = main.turn /\ main.pc = "gathering"
         /\ \/ AllDone /\ main'.pc = "returned" /\ ledger' = [ledger EXCEPT !.wallclock = now]
            \/ SomeFailed /\ main'.pc = "raised" /\ ledger' = ledger
         /\ owner' = Nobody /\ Grows({}, {})
<1>1. /\ main.pc = "gathering" /\ owner' = Nobody /\ trace' = trace
      /\ \/ /\ AllDone /\ main' = [main EXCEPT !.pc = "returned"]
            /\ ledger' = [ledger EXCEPT !.wallclock = now]
         \/ SomeFailed /\ main' = [main EXCEPT !.pc = "raised"] /\ ledger' = ledger
  BY DEF Gather, AllDone, SomeFailed, Left
<1>2. main \in Drivers /\ trace \in Seq(Row) /\ "returned" \in DriverPcs /\ "raised" \in DriverPcs
  BY DEF Base, Typed, DriverPcs
<1>3. Grows({}, {})
  BY <1>1, <1>2, GrowsNot
<1>4. CASE main' = [main EXCEPT !.pc = "returned"] /\ AllDone /\ ledger' = [ledger EXCEPT !.wallclock = now]
  <2>1. main' \in Drivers /\ main'.turn = main.turn /\ main'.pc = "returned"
    BY <1>2, <1>4 DEF Drivers
  <2> QED BY <1>1, <1>3, <1>4, <2>1
<1>5. CASE main' = [main EXCEPT !.pc = "raised"] /\ SomeFailed /\ ledger' = ledger
  <2>1. main' \in Drivers /\ main'.turn = main.turn /\ main'.pc = "raised"
    BY <1>2, <1>5 DEF Drivers
  <2> QED BY <1>1, <1>3, <1>5, <2>1
<1> QED BY <1>1, <1>4, <1>5

LEMMA CloseShape ==
  ASSUME Base, Close
  PROVE  /\ main' \in Drivers /\ main'.turn = main.turn /\ main'.pc = "closed"
         /\ main.pc \in {"returned", "raised"} /\ Grows({}, {})
<1>1. /\ main.pc \in {"returned", "raised"} /\ main' = [main EXCEPT !.pc = "closed"]
      /\ trace' = trace
  BY DEF Close, Base, Places
<1>2. main \in Drivers /\ trace \in Seq(Row) /\ "closed" \in DriverPcs
  BY DEF Base, Typed, DriverPcs
<1>3. main' \in Drivers /\ main'.turn = main.turn /\ main'.pc = "closed"
  BY <1>1, <1>2 DEF Drivers
<1> QED BY <1>1, <1>2, <1>3, GrowsNot

-----------------------------------------------------------------------------
(* What each operation of an item, and the publication, does.              *)

(* The task an item's step leaves.                                         *)
Turned(i, new) == task' = [task EXCEPT ![i] = new] /\ new \in Tasks

LEMMA ItemFacts ==
  ASSUME Base, NEW i \in Items
  PROVE  /\ task[i] \in Tasks /\ i \in Volumes /\ Configured /\ now \in Nat /\ trace \in Seq(Row)
         /\ run.release[i] \in Nat /\ run.route[i] \in Volumes
         /\ run.route[i] \notin Items => run.route[i] = Publishers[1]
         /\ Placed(task[i], i) /\ Staged(task[i], i)
         /\ task[i].pc # "idle" => ~Preparing
<1>1. run.release[i] \in Nat /\ run.route[i] \in {Trainers[1]} \cup Items
  BY DEF Base, Typed, Configured
<1>2. Trainers[1] = Publishers[1] /\ Publishers[1] \in Origins
  BY PublishersType DEF Base, Typed
<1> QED BY <1>1, <1>2 DEF Base, Typed, Places, Stages, Volumes

LEMMA ItemSleepShape ==
  ASSUME Base, NEW i \in Items, ItemSleep(i)
  PROVE  \E new : /\ Turned(i, new) /\ new.pc = "released" /\ new.wake >= now
                  /\ task[i].pc = "created" /\ Grows({}, {})
<1> DEFINE new == [task[i] EXCEPT !.pc = "released", !.wake = run.release[i]]
<1>1. /\ task[i] \in Tasks /\ run.release[i] \in Nat /\ now \in Nat /\ trace \in Seq(Row)
      /\ "released" \in TaskPcs /\ task \in [Items -> Tasks]
  BY ItemFacts DEF TaskPcs, Base, Typed
<1>2. /\ task[i].pc = "created" /\ run.release[i] > now /\ trace' = trace
      /\ task' = [task EXCEPT ![i].pc = "released", ![i].wake = run.release[i]]
  BY DEF ItemSleep, Due
<1>3. task' = [task EXCEPT ![i] = new]
  BY <1>1, <1>2
<1>4. new \in Tasks /\ new.pc = "released" /\ new.wake = run.release[i]
  BY <1>1 DEF Tasks
<1> HIDE DEF new
<1>5. new.wake >= now
  BY <1>1, <1>2, <1>4
<1> QED BY <1>1, <1>2, <1>3, <1>4, <1>5, GrowsNot DEF Turned

LEMMA Enters ==
  ASSUME NEW i \in Items, Released(i)
  PROVE  task[i].pc \in {"created", "released"}
BY DEF Released, Due

LEMMA ItemLocateShape ==
  ASSUME Base, NEW i \in Items, ItemLocate(i)
  PROVE  \E new : /\ Turned(i, new) /\ new.pc = "locating" /\ new.wake >= now /\ new.src = i
                  /\ task[i].pc \in {"created", "released"} /\ Direct /\ Grows({}, {})
<1> DEFINE leg == Leg(task[i], "locating")
           new == Bound(leg, i)
<1>1. /\ task[i] \in Tasks /\ i \in Volumes /\ now \in Nat /\ trace \in Seq(Row) /\ Configured
      /\ "locating" \in TaskPcs
  BY ItemFacts DEF TaskPcs
<1>2. /\ task[i].pc \in {"created", "released"} /\ Direct /\ trace' = trace
      /\ task' = [task EXCEPT ![i] = new]
  BY Enters DEF ItemLocate, BindSource
<1>3. leg \in Tasks /\ leg.pc = "locating" /\ leg.wake >= now
  BY <1>1, TaskLeg
<1> HIDE DEF leg
<1>4. new \in Tasks /\ new.src = i /\ new.pc = "locating" /\ new.wake >= now
  <2>1. new \in Tasks /\ new.src = i /\ Moved(new, new, leg.pc, leg.wake, leg.sleeps)
    BY <1>1, <1>3, TaskBound
  <2> QED BY <1>3, <2>1 DEF Moved
<1> HIDE DEF new
<1> QED BY <1>1, <1>2, <1>4, GrowsNot DEF Turned

LEMMA ItemLocatedShape ==
  ASSUME Base, NEW i \in Items, ItemLocated(i)
  PROVE  \E new : /\ Turned(i, new) /\ task[i].pc = "locating" /\ Grows({}, {})
                  /\ \/ new.pc = "failed" /\ i \in run.missing
                     \/ /\ new.pc = "located" /\ new.wake >= now /\ new.src = i
                        /\ new.from = listed[1] /\ new.from \in Volumes
<1>1. /\ task[i] \in Tasks /\ i \in Volumes /\ now \in Nat /\ trace \in Seq(Row) /\ Configured
      /\ "failed" \in TaskPcs /\ "located" \in TaskPcs /\ task \in [Items -> Tasks]
      /\ Placed(task[i], i)
  BY ItemFacts DEF TaskPcs, Base, Typed
<1>2. task[i].pc = "locating" /\ trace' = trace
  BY DEF ItemLocated, Due
<1>3. CASE i \in run.missing
  <2> DEFINE new == [task[i] EXCEPT !.pc = "failed"]
  <2>1. task' = [task EXCEPT ![i].pc = "failed"]
    BY <1>3 DEF ItemLocated
  <2>2. task' = [task EXCEPT ![i] = new]
    BY <1>1, <2>1
  <2>3. new \in Tasks /\ new.pc = "failed"
    BY <1>1 DEF Tasks
  <2> HIDE DEF new
  <2> QED BY <1>1, <1>2, <1>3, <2>2, <2>3, GrowsNot DEF Turned
<1>4. CASE i \notin run.missing
  <2> DEFINE leg == Leg(task[i], "located")
             new == [leg EXCEPT !.from = Locate]
  <2>1. task' = [task EXCEPT ![i] = [Leg(@, "located") EXCEPT !.from = Locate]]
    BY <1>4 DEF ItemLocated
  <2>2. task' = [task EXCEPT ![i] = new]
    BY <1>1, <2>1
  <2>3. leg \in Tasks /\ leg.pc = "located" /\ leg.wake >= now /\ leg.src = task[i].src
    BY <1>1, TaskLeg
  <2>4. Locate = listed[1] /\ listed[1] \in Volumes
    <3>0. Direct /\ ~Preparing
      BY <1>1, <1>2, ItemFacts DEF Placed
    <3>1. listed \in Seq(Origins) /\ Len(listed) \in Nat \ {0}
      BY <3>0, EmptySeq DEF Base, Typed, Places
    <3>2. Head(listed) = listed[1] /\ listed[1] \in Origins
      BY <3>1, ElementOfSeq
    <3> QED BY <3>2 DEF Locate, Volumes
  <2> HIDE DEF leg
  <2>5. /\ new \in Tasks /\ new.from = Locate /\ new.pc = leg.pc /\ new.wake = leg.wake
        /\ new.src = leg.src
    BY <2>3, <2>4 DEF Tasks
  <2>6. task[i].src = i
    BY <1>1, <1>2 DEF Placed
  <2> HIDE DEF new
  <2> QED BY <1>1, <1>2, <2>2, <2>3, <2>4, <2>5, <2>6, GrowsNot DEF Turned
<1> QED BY <1>3, <1>4

LEMMA ItemPublishShape ==
  ASSUME Base, NEW i \in Items, ItemPublish(i)
  PROVE  \E new : /\ Turned(i, new) /\ new.pc = "awaiting"
                  /\ task[i].pc \in {"created", "released"} /\ ~Direct /\ Grows({}, {})
                  /\ pub.pc # "done" /\ pub' \in Tasks
                  /\ pub' = pub \/ (pub'.pc = "created" /\ pub'.wake = now)
<1> DEFINE new == [task[i] EXCEPT !.pc = "awaiting"]
<1>1. /\ task[i] \in Tasks /\ now \in Nat /\ trace \in Seq(Row) /\ task \in [Items -> Tasks]
      /\ "awaiting" \in TaskPcs /\ "created" \in TaskPcs /\ pub \in Tasks
  BY ItemFacts DEF TaskPcs, Base, Typed
<1>2. /\ task[i].pc \in {"created", "released"} /\ ~Direct /\ trace' = trace /\ pub.pc # "done"
      /\ pub' = IF pub.pc = "idle" THEN [task[i] EXCEPT !.pc = "created", !.wake = now] ELSE pub
      /\ task' = [task EXCEPT ![i].pc = "awaiting"]
  BY Enters DEF ItemPublish
<1>3. task' = [task EXCEPT ![i] = new]
  BY <1>1, <1>2
<1>4. new \in Tasks /\ new.pc = "awaiting"
  BY <1>1 DEF Tasks
<1> HIDE DEF new
<1>5. pub' \in Tasks /\ (pub' = pub \/ (pub'.pc = "created" /\ pub'.wake = now))
  <2>1. CASE pub.pc = "idle"
    <3>1. pub' = [task[i] EXCEPT !.pc = "created", !.wake = now]
      BY <1>2, <2>1
    <3>2. pub' \in Tasks /\ pub'.pc = "created" /\ pub'.wake = now
      BY <1>1, <3>1 DEF Tasks
    <3> QED BY <3>2
  <2>2. CASE pub.pc # "idle"
    BY <1>1, <1>2, <2>2
  <2> QED BY <2>1, <2>2
<1> QED BY <1>1, <1>2, <1>3, <1>4, <1>5, GrowsNot DEF Turned

LEMMA PubOpenShape ==
  ASSUME Base, PubOpen
  PROVE  /\ pub' \in Tasks /\ pub'.pc = "putting" /\ pub'.wake >= now /\ pub.pc = "created" /\ ~Direct
         /\ pub'.sleeps \in Tails(PutParts(Publishers[1], Publishers[1]))
         /\ stored' \subseteq Volumes /\ Grows({}, {})
<1> DEFINE p == Publishers[1]
           th == Bound(pub, p)
<1>1. /\ p \in Volumes /\ Configured /\ now \in Nat /\ pub \in Tasks /\ trace \in Seq(Row)
      /\ "putting" \in TaskPcs /\ stored \subseteq Volumes
  BY PublishersType DEF Base, Typed, Volumes, TaskPcs
<1>2. /\ pub.pc = "created" /\ stored' = stored \cup {p} /\ trace' = trace
      /\ pub' = Charging(th, "putting", PutParts(p, p))
  BY DEF PubOpen, Due, SelectVolume
<1>3. ~Direct
  BY <1>2 DEF Base, Places
<1> HIDE DEF p
<1>4. th \in Tasks
  BY <1>1, TaskBound
<1> HIDE DEF th
<1>5. pub' \in Tasks /\ pub'.pc = "putting" /\ pub'.sleeps \in Tails(PutParts(p, p)) /\ pub'.wake >= now
  BY <1>1, <1>2, <1>4, TaskPuts
<1> QED BY <1>1, <1>2, <1>3, <1>5, GrowsNot DEF p

LEMMA PubChargeShape ==
  ASSUME Base, PubCharge
  PROVE  /\ pub' \in Tasks /\ pub.pc = "putting" /\ ~Direct
         /\ pub'.pc = IF Len(pub.sleeps) = 1 THEN "done" ELSE "putting"
         /\ pub'.pc = "putting" => /\ pub'.sleeps \in Tails(PutParts(Publishers[1], Publishers[1]))
                                   /\ pub'.wake >= now
         /\ Grows(Written(Publishers[1], pub.sleeps), {}) /\ ledger' = ledger
<1> DEFINE p == Publishers[1]
           s == pub.sleeps
<1>1. /\ pub.pc = "putting" /\ Emit(s[1])
      /\ pub' = IF Len(s) = 1 THEN [pub EXCEPT !.pc = "done"] ELSE NextSleep(pub)
  BY DEF PubCharge, Due, LastSleep
<1>2. /\ p \in Volumes /\ s \in Tails(PutParts(p, p)) /\ pub \in Tasks /\ Configured /\ now \in Nat
      /\ ~Direct
  BY <1>1, PublishersType DEF Base, Typed, Stages, Places, Volumes
<1> HIDE DEF p
<1>3. Grows(Written(p, s), {}) /\ Accounted(ledger, s[1]) = ledger
  BY <1>1, <1>2, PutEmits DEF Emit
<1>4. ledger' = ledger
  BY <1>1, <1>3 DEF Emit
<1>5. CASE Len(s) = 1
  <2>1. pub' = [pub EXCEPT !.pc = "done"] /\ "done" \in TaskPcs
    BY <1>1, <1>5 DEF TaskPcs
  <2>2. pub' \in Tasks /\ pub'.pc = "done"
    BY <1>2, <2>1 DEF Tasks
  <2> QED BY <1>1, <1>2, <1>3, <1>4, <1>5, <2>2 DEF p
<1>6. CASE Len(s) # 1
  <2>1. pub' = NextSleep(pub)
    BY <1>1, <1>6
  <2>2. pub' \in Tasks /\ pub'.pc = pub.pc /\ pub'.sleeps \in Tails(PutParts(p, p)) /\ pub'.wake >= now
    BY <1>2, <1>6, <2>1, TaskSleeps
  <2> QED BY <1>1, <1>2, <1>3, <1>4, <1>6, <2>2 DEF p
<1> QED BY <1>5, <1>6

(* The ledger a transfer, or a returned item, leaves.                      *)
LEMMA TransferredFields ==
  ASSUME NEW l \in Ledgers, NEW i \in Volumes, NEW d \in Volumes, NEW new, new = Transferred(l, i, d)
  PROVE  /\ new \in Ledgers /\ new.rows = l.rows /\ new.wallclock = l.wallclock /\ new.total = l.total
         /\ new.transfer = l.transfer + Bytes /\ new.edges = Append(l.edges, <<d, i>>)
         /\ new.origin = l.origin + (IF d \in Origins THEN Bytes ELSE 0)
<1> DEFINE more == l.origin + (IF d \in Origins THEN Bytes ELSE 0)
           e == <<d, i>>
           bytes == Bytes
<1>1. bytes \in Nat
  BY RunAssumption DEF Bytes
<1>2. e \in Volumes \X Volumes /\ l.edges \in Seq(Volumes \X Volumes) /\ l.origin \in Nat
      /\ l.transfer \in Nat
  BY DEF Ledgers
<1>3. Append(l.edges, e) \in Seq(Volumes \X Volumes) /\ more \in Nat
  <2>1. Append(l.edges, e) \in Seq(Volumes \X Volumes)
    BY <1>2, AppendProperties
  <2>2. more \in Nat
    BY <1>1, <1>2
  <2> QED BY <2>1, <2>2
<1> DEFINE edges == Append(l.edges, e)
           sum == l.transfer + bytes
<1>4. new = [l EXCEPT !.transfer = sum, !.origin = more, !.edges = edges]
  BY DEF Transferred, Ledgers
<1>5. edges \in Seq(Volumes \X Volumes) /\ sum \in Nat /\ more \in Nat
  BY <1>1, <1>2, <1>3
<1> HIDE DEF more, e, bytes, edges, sum
<1>6. /\ new \in Ledgers /\ new.rows = l.rows /\ new.wallclock = l.wallclock /\ new.total = l.total
      /\ new.transfer = sum /\ new.edges = edges /\ new.origin = more
  BY <1>4, <1>5 DEF Ledgers
<1> QED BY <1>6 DEF more, e, bytes, edges, sum

LEMMA FinishedFields ==
  ASSUME Base, NEW i \in Items, NEW l \in Ledgers, NEW new, new = Finished(i, l)
  PROVE  /\ new \in Ledgers /\ new.wallclock = l.wallclock /\ new.total = l.total
         /\ new.transfer = l.transfer /\ new.edges = l.edges /\ new.origin = l.origin
         /\ \E r : /\ new.rows = l.rows \cup {r} /\ r.id = i /\ r.done = now
<1> DEFINE r == Outcome(i, run.release[i], now)
<1>1. r \in [id : Items, released : Nat, done : Nat] /\ r.id = i /\ r.done = now
  BY ItemFacts DEF Outcome
<1>2. new = [l EXCEPT !.rows = @ \cup {r}]
  BY DEF Finished
<1> HIDE DEF r
<1>3. /\ new \in Ledgers /\ new.wallclock = l.wallclock /\ new.total = l.total
      /\ new.transfer = l.transfer /\ new.edges = l.edges /\ new.origin = l.origin
      /\ new.rows = l.rows \cup {r}
  BY <1>1, <1>2 DEF Ledgers
<1> QED BY <1>1, <1>3

(* The fabric row of a read comes with its last sleep; a burst row may     *)
(* follow.                                                                 *)
Fetched(i, sleeps) == IF Len(sleeps) = 1 THEN {i} ELSE {}

LEMMA ReadEmits ==
  ASSUME Base, NEW i \in Items, NEW d \in Volumes, NEW s \in Tails(GetParts(i, d)),
         \/ trace' = trace \o Rows(Emitted(s[1]))
         \/ trace' = trace \o Rows(Emitted(s[1])) \o << [at |-> now, kind |-> "burst", what |-> i] >>
  PROVE  /\ Grows({}, Fetched(i, s)) /\ Len(s) \in Nat
         /\ Accounted(ledger, s[1]) = IF Len(s) = 1 THEN Transferred(ledger, i, d) ELSE ledger
         /\ \A n \in 1 .. Len(Emitted(s[1])) : Told(Emitted(s[1])[n])
<1> DEFINE q == Emitted(s[1])
           b == Rows(Emitted(s[1]))
           r == [at |-> now, kind |-> "burst", what |-> i]
           c == b \o <<r>>
<1>1. /\ b \in Seq(Row) /\ \A k \in 1 .. Len(b) : b[k].at = now
      /\ \A u : WritesIn(b, u) = {}
      /\ \A j : FetchesIn(b, j) = IF j = i /\ Len(s) = 1 THEN {Len(b)} ELSE {}
      /\ \A l \in Ledgers : Accounted(l, s[1]) = IF Len(s) = 1 THEN Transferred(l, i, d) ELSE l
      /\ Len(s) \in {1, 2, 3}
  <2>1. i \in Volumes /\ Configured /\ now \in Nat
    BY DEF Volumes, Base, Typed
  <2>2. /\ b \in Seq(Row) /\ \A k \in 1 .. Len(b) : b[k].at = now
        /\ \A u : WritesIn(b, u) = {}
    BY <2>1, GetSleep
  <2>3. \A j : FetchesIn(b, j) = IF j = i /\ Len(s) = 1 THEN {Len(b)} ELSE {}
    BY <2>1, GetSleep
  <2>4. /\ \A l \in Ledgers : Accounted(l, s[1]) = IF Len(s) = 1 THEN Transferred(l, i, d) ELSE l
        /\ Len(s) \in {1, 2, 3}
    <3>1. Len(s) \in {1, 2, 3}
      BY <2>1, GetSleep
    <3>2. Counts(i, d, s)
      BY <2>1, GetSleep
    <3> QED BY <3>1, <3>2 DEF Counts
  <2> HIDE DEF b
  <2> QED BY <2>2, <2>3, <2>4
<1>2. r \in Row /\ r.at = now /\ r.kind = "burst"
  <2>1. now \in Nat /\ i \in Volumes
    BY DEF Base, Typed, Volumes
  <2> QED BY <2>1 DEF Row
<1>3. trace \in Seq(Row) /\ ledger \in Ledgers
  BY DEF Base, Typed
<1>4. Accounted(ledger, s[1]) = IF Len(s) = 1 THEN Transferred(ledger, i, d) ELSE ledger
  BY <1>1, <1>3
<1>5. trace' = trace \o b \/ trace' = trace \o b \o <<r>>
  OBVIOUS
<1>10. /\ Len(b) = Len(q)
       /\ \A n \in 1 .. Len(q) : b[n] = [at |-> now, kind |-> q[n].kind, what |-> q[n]]
  <2>1. q \in Seq(Parts) /\ now \in Nat
    BY GetSleep DEF Volumes, Base, Typed
  <2> HIDE DEF q
  <2>2. /\ Len(Rows(q)) = Len(q)
        /\ \A n \in 1 .. Len(q) : Rows(q)[n] = [at |-> now, kind |-> q[n].kind, what |-> q[n]]
    BY <2>1, RowsType
  <2> QED BY <2>2 DEF q
<1> SUFFICES /\ Grows({}, Fetched(i, s)) /\ \A n \in 1 .. Len(q) : Told(q[n])
  BY <1>1, <1>4
<1> HIDE DEF b, r, q
<1>6. Len(b) \in Nat /\ DOMAIN b = 1 .. Len(b)
  BY <1>1
<1>7. ASSUME NEW j
      PROVE  IF j \in Fetched(i, s) THEN \E k \in 1 .. Len(b) : FetchesIn(b, j) = {k}
             ELSE FetchesIn(b, j) = {}
  <2>1. CASE j = i /\ Len(s) = 1
    <3>1. FetchesIn(b, j) = {Len(b)}
      BY <1>1, <2>1
    <3>2. Len(b) \in DOMAIN b
      BY <3>1 DEF FetchesIn
    <3> QED BY <1>6, <2>1, <3>1, <3>2 DEF Fetched
  <2>2. CASE ~ (j = i /\ Len(s) = 1)
    BY <1>1, <2>2 DEF Fetched
  <2> QED BY <2>1, <2>2
<1>8. CASE trace' = trace \o b
  <2>1. Grows({}, Fetched(i, s))
    BY <1>1, <1>3, <1>7, <1>8, GrowsBy
  <2>2. ASSUME NEW n \in 1 .. Len(q) PROVE Told(q[n])
    BY <1>1, <1>3, <1>8, <1>10, ToldBy
  <2> QED BY <2>1, <2>2
<1>9. CASE trace' = trace \o b \o <<r>>
  <2>1. <<r>> \in Seq(Row) /\ Len(<<r>>) = 1 /\ <<r>>[1] = r /\ DOMAIN <<r>> = 1 .. 1
    BY <1>2
  <2>2. trace' = trace \o c
    BY <1>1, <1>3, <1>9, <2>1, ConcatAssociative
  <2> DEFINE one == <<r>>
  <2> HIDE DEF one
  <2>3. /\ c \in Seq(Row) /\ Len(c) = Len(b) + 1
        /\ \A k \in 1 .. Len(b) : c[k] = b[k]
        /\ \A k \in 1 .. 1 : c[Len(b) + k] = one[k]
        /\ \A v : WritesIn(c, v) = WritesIn(b, v) \cup { Len(b) + k : k \in WritesIn(one, v) }
        /\ \A v : FetchesIn(c, v) = FetchesIn(b, v) \cup { Len(b) + k : k \in FetchesIn(one, v) }
    BY <1>1, <2>1, RowsAdded DEF one
  <2>4. \A v : WritesIn(one, v) = {} /\ FetchesIn(one, v) = {}
    BY <1>2, <2>1 DEF WritesIn, FetchesIn, one
  <2>5. ASSUME NEW v PROVE WritesIn(c, v) = WritesIn(b, v) /\ FetchesIn(c, v) = FetchesIn(b, v)
    <3>1. WritesIn(one, v) = {} /\ FetchesIn(one, v) = {}
      BY <2>4
    <3>2. /\ WritesIn(c, v) = WritesIn(b, v) \cup { Len(b) + k : k \in WritesIn(one, v) }
          /\ FetchesIn(c, v) = FetchesIn(b, v) \cup { Len(b) + k : k \in FetchesIn(one, v) }
      BY <2>3
    <3> HIDE DEF c
    <3> QED BY <3>1, <3>2
  <2>6. \A k \in 1 .. Len(c) : c[k].at = now
    <3> TAKE k \in 1 .. Len(c)
    <3>1. CASE k \in 1 .. Len(b)
      BY <1>1, <2>3, <3>1
    <3>2. CASE k = Len(b) + 1
      <4>1. c[Len(b) + 1] = one[1]
        BY <2>3
      <4>2. one[1] = r
        BY <2>1 DEF one
      <4> QED BY <1>2, <3>2, <4>1, <4>2
    <3> QED BY <1>6, <2>3, <3>1, <3>2
  <2> HIDE DEF c
  <2>11. ASSUME NEW n \in 1 .. Len(q) PROVE Told(q[n])
    <3>1. n \in 1 .. Len(c) /\ c[n] = [at |-> now, kind |-> q[n].kind, what |-> q[n]]
      BY <1>6, <1>10, <2>3
    <3> QED BY <1>3, <2>2, <2>3, <3>1, ToldBy
  <2>7. ASSUME NEW j
        PROVE  IF j \in Fetched(i, s) THEN \E k \in 1 .. Len(c) : FetchesIn(c, j) = {k}
               ELSE FetchesIn(c, j) = {}
    <3>1. \A k \in 1 .. Len(b) : k \in 1 .. Len(c)
      BY <1>6, <2>3
    <3> QED BY <1>7, <2>5, <3>1
  <2>8. \A v : WritesIn(c, v) = {}
    BY <1>1, <2>5
  <2> DEFINE none == {}
             f == Fetched(i, s)
  <2>9. /\ \A v : IF v \in none THEN \E k \in 1 .. Len(c) : WritesIn(c, v) = {k}
                ELSE WritesIn(c, v) = {}
        /\ \A v : IF v \in f THEN \E k \in 1 .. Len(c) : FetchesIn(c, v) = {k}
                ELSE FetchesIn(c, v) = {}
    BY <2>7, <2>8
  <2> HIDE DEF none, f
  <2>10. Grows(none, f)
    BY ZenonT(40), <1>3, <2>2, <2>3, <2>6, <2>9, GrowsBy
  <2> QED BY <2>10, <2>11 DEF none, f
<1> QED BY <1>5, <1>8, <1>9

(* An item's read is opened, or the mesh is no longer there to open it.    *)
Opening(new, i, d) ==
  /\ new.src = i /\ new.from = d
  /\ \/ owner # Mesh /\ new.pc = "stray"
     \/ /\ owner = Mesh /\ new.pc = "getting" /\ new.opened = now
        /\ new.sleeps \in Tails(GetParts(i, d)) /\ new.wake >= now
        /\ new.wake + Owed(new.sleeps) = now + ReadTime(d, i, Bytes)
        /\ run.config.collapse_charges \/ Len(new.sleeps) = 3

LEMMA ItemRoutedShape ==
  ASSUME Base, NEW i \in Items, ItemRouted(i)
  PROVE  \E new : /\ Turned(i, new) /\ ~Direct /\ pub.pc = "done" /\ Grows({}, {})
                  /\ task[i].pc \in {"created", "released", "awaiting"}
                  /\ \/ new.pc = "routed" /\ new.src = i /\ new.from = run.route[i]
                     \/ SourceReady(run.route[i]) /\ Opening(new, i, run.route[i])
<1> DEFINE d == run.route[i]
           named == [task[i] EXCEPT !.pc = "routed", !.from = d]
           th == Bound(named, i)
           opened == Opened(th)
<1>1. /\ task[i] \in Tasks /\ i \in Volumes /\ d \in Volumes /\ Configured /\ now \in Nat
      /\ trace \in Seq(Row) /\ "routed" \in TaskPcs /\ task \in [Items -> Tasks]
  BY ItemFacts DEF TaskPcs, Base, Typed
<1>2. /\ ~Direct /\ pub.pc = "done" /\ trace' = trace
      /\ task[i].pc \in {"created", "released", "awaiting"}
      /\ task' = IF SourceReady(d) THEN [[task EXCEPT ![i] = th] EXCEPT ![i] = Opened(@)]
                 ELSE [task EXCEPT ![i] = th]
  BY Enters DEF ItemRouted, BindSource
<1>3. named \in Tasks /\ named.pc = "routed" /\ named.from = d
  BY <1>1 DEF Tasks
<1> HIDE DEF named
<1>4. th \in Tasks /\ th.src = i /\ th.pc = "routed" /\ th.from = d
  <2>1. th \in Tasks /\ th.src = i /\ Kept(th, named) /\ Moved(th, th, named.pc, named.wake, named.sleeps)
    BY <1>1, <1>3, TaskBound
  <2> QED BY <1>3, <2>1 DEF Moved, Kept
<1> HIDE DEF th
<1>5. CASE ~SourceReady(d)
  <2>1. task' = [task EXCEPT ![i] = th]
    BY <1>2, <1>5
  <2> HIDE DEF d
  <2>2. Turned(i, th)
    BY <1>4, <2>1 DEF Turned
  <2> QED BY <1>1, <1>2, <1>4, <2>2, GrowsNot DEF d
<1>6. CASE SourceReady(d)
  <2>1. task' = [task EXCEPT ![i] = opened]
    BY <1>1, <1>2, <1>6
  <2> HIDE DEF d
  <2>2. /\ opened \in Tasks /\ opened.src = i /\ opened.from = d
        /\ owner # Mesh => opened.pc = "stray"
        /\ owner = Mesh =>
             /\ opened.pc = "getting" /\ opened.opened = now
             /\ opened.sleeps \in Tails(GetParts(i, d)) /\ opened.wake >= now
             /\ opened.wake + Owed(opened.sleeps) = now + ReadTime(d, i, Bytes)
             /\ run.config.collapse_charges \/ Len(opened.sleeps) = 3
    <3>1. th.from \in Volumes
      BY <1>1, <1>4
    <3> HIDE DEF opened
    <3>2. opened = Opened(th)
      BY DEF opened
    <3> QED BY <1>1, <1>4, <3>1, <3>2, TaskOpens
  <2> HIDE DEF opened
  <2>3. Turned(i, opened) /\ Opening(opened, i, d)
    BY <2>1, <2>2 DEF Turned, Opening
  <2> QED BY <1>1, <1>2, <1>6, <2>3, GrowsNot DEF d
<1> QED BY <1>5, <1>6

LEMMA ItemOpenShape ==
  ASSUME Base, NEW i \in Items, ItemOpen(i)
  PROVE  \E new : /\ Turned(i, new) /\ Opening(new, i, task[i].from) /\ Grows({}, {})
                  /\ task[i].from \in Volumes
                  /\ \/ task[i].pc = "located"
                     \/ task[i].pc = "routed" /\ SourceReady(task[i].from)
<1> DEFINE th == task[i]
           d == th.from
           opened == Opened(th)
<1>1. /\ th \in Tasks /\ i \in Volumes /\ Configured /\ now \in Nat
      /\ trace \in Seq(Row) /\ task \in [Items -> Tasks] /\ Placed(th, i)
  BY ItemFacts DEF Base, Typed
<1>2. /\ th.pc = "located" \/ (th.pc = "routed" /\ SourceReady(d))
      /\ trace' = trace /\ task' = [task EXCEPT ![i] = opened]
  BY <1>1 DEF ItemOpen, Due
<1>3. th.src = i /\ d \in Volumes
  BY <1>1, <1>2 DEF Placed
<1>4. /\ opened \in Tasks /\ opened.src = i /\ opened.from = d
      /\ owner # Mesh => opened.pc = "stray"
      /\ owner = Mesh =>
           /\ opened.pc = "getting" /\ opened.opened = now
           /\ opened.sleeps \in Tails(GetParts(i, d)) /\ opened.wake >= now
           /\ opened.wake + Owed(opened.sleeps) = now + ReadTime(d, i, Bytes)
           /\ run.config.collapse_charges \/ Len(opened.sleeps) = 3
  <2> HIDE DEF opened
  <2>1. opened = Opened(th)
    BY DEF opened
  <2> QED BY <1>1, <1>3, <2>1, TaskOpens
<1> HIDE DEF opened
<1>5. Turned(i, opened) /\ Opening(opened, i, d)
  BY <1>2, <1>4 DEF Turned, Opening
<1> QED BY <1>1, <1>2, <1>3, <1>5, GrowsNot

(* A sleep of a read ends: what the item does next depends on whether it   *)
(* was the last, and on whether somebody's route names the item.           *)
Arrived(i) == Len(task[i].sleeps) = 1

(* It leaves the rows of the charges it ends.                              *)
Leaves(i) ==
  \A op \in Serving :
     Ending(task[i].sleeps, op) /\ ChargeOf(op) > 0 => Told(PartOf(op, task[i].from))

LEMMA ItemChargeShape ==
  ASSUME Base, NEW i \in Items, ItemCharge(i)
  PROVE  \E new :
           /\ Turned(i, new) /\ task[i].pc = "getting" /\ new.src = i
           /\ new.from = task[i].from /\ new.opened = task[i].opened /\ new.from \in Volumes
           /\ task[i].wake <= now /\ stored' \subseteq Volumes
           /\ Grows({}, Fetched(i, task[i].sleeps)) /\ ledger' \in Ledgers /\ Leaves(i)
           /\ \/ /\ ~Arrived(i) /\ new.pc = "getting" /\ ledger' = ledger
                 /\ new.sleeps \in Tails(GetParts(i, new.from)) /\ new.wake >= now
                 /\ Len(new.sleeps) + 1 = Len(task[i].sleeps)
                 /\ new.wake + Owed(new.sleeps) = now + Owed(task[i].sleeps)
              \/ /\ Arrived(i) /\ new.pc = "keeping" /\ IsRelay(i)
                 /\ new.sleeps \in Tails(PutParts(i, i)) /\ new.wake >= now
                 /\ ledger' = Transferred(ledger, i, new.from)
              \/ /\ Arrived(i) /\ new.pc = "done" /\ ~IsRelay(i)
                 /\ ledger' = Finished(i, Transferred(ledger, i, new.from))
<1> DEFINE th == task[i]
           s == th.sleeps
           d == th.from
           kept == Charging(th, "keeping", PutParts(i, i))
           next == NextSleep(th)
           done == [th EXCEPT !.pc = "done"]
           l == Transferred(ledger, i, d)
<1>1. /\ th \in Tasks /\ i \in Volumes /\ Configured /\ now \in Nat
      /\ trace \in Seq(Row) /\ task \in [Items -> Tasks] /\ Placed(th, i) /\ Staged(th, i)
      /\ "keeping" \in TaskPcs /\ "done" \in TaskPcs /\ stored \subseteq Volumes /\ ledger \in Ledgers
  BY ItemFacts DEF Base, Typed, TaskPcs
<1>2. th.pc = "getting" /\ th.wake <= now
  BY DEF ItemCharge, Due
<1>3. th.src = i /\ d \in Volumes /\ s \in Tails(GetParts(i, d))
  BY <1>1, <1>2 DEF Placed, Staged
<1>4. \/ /\ Len(s) # 1 /\ task' = [task EXCEPT ![i] = NextSleep(@)] /\ Emit(s[1]) /\ stored' = stored
      \/ /\ Len(s) = 1 /\ IsRelay(i) /\ stored' = stored \cup {i} /\ Emit(s[1])
         /\ task' = [task EXCEPT ![i] = Charging(@, "keeping", PutParts(i, i))]
      \/ /\ Len(s) = 1 /\ ~IsRelay(i) /\ stored' = stored
         /\ task' = [task EXCEPT ![i].pc = "done"]
         /\ ledger' = Finished(i, Accounted(ledger, s[1]))
         /\ \/ trace' = trace \o Rows(Emitted(s[1]))
            \/ trace' = trace \o Rows(Emitted(s[1]))
                              \o << [at |-> now, kind |-> "burst", what |-> i] >>
  BY DEF ItemCharge, LastSleep, SelectVolume
<1>5. /\ Grows({}, Fetched(i, s))
      /\ Accounted(ledger, s[1]) = IF Len(s) = 1 THEN l ELSE ledger
      /\ Leaves(i)
  <2>1. \/ trace' = trace \o Rows(Emitted(s[1]))
        \/ trace' = trace \o Rows(Emitted(s[1])) \o << [at |-> now, kind |-> "burst", what |-> i] >>
    BY <1>4 DEF Emit
  <2>2. /\ Grows({}, Fetched(i, s))
        /\ Accounted(ledger, s[1]) = IF Len(s) = 1 THEN l ELSE ledger
        /\ \A n \in 1 .. Len(Emitted(s[1])) : Told(Emitted(s[1])[n])
    BY <1>3, <2>1, ReadEmits
  <2>3. ASSUME NEW op \in Serving, Ending(s, op), ChargeOf(op) > 0 PROVE Told(PartOf(op, d))
    <3>1. \E n \in 1 .. Len(Emitted(s[1])) : Emitted(s[1])[n] = PartOf(op, d)
      BY <1>1, <1>3, <2>3, GetLeft
    <3> QED BY <2>2, <3>1
  <2> QED BY <2>2, <2>3 DEF Leaves
<1>6. l \in Ledgers
  BY <1>1, <1>3, TransferredFields
<1> HIDE DEF l
<1>7. CASE /\ Len(s) # 1 /\ task' = [task EXCEPT ![i] = NextSleep(@)] /\ Emit(s[1]) /\ stored' = stored
  <2>1. ledger' = ledger /\ task' = [task EXCEPT ![i] = next]
    BY <1>1, <1>5, <1>7 DEF Emit
  <2> HIDE DEF next
  <2>2. /\ next \in Tasks /\ next.pc = th.pc /\ next.src = th.src /\ Kept(next, th)
        /\ next.sleeps \in Tails(GetParts(i, d)) /\ next.wake >= now
        /\ next.wake + Owed(next.sleeps) = now + Owed(s) /\ Len(next.sleeps) + 1 = Len(s)
    <3>1. next = NextSleep(th)
      BY DEF next
    <3> QED BY <1>1, <1>3, <1>7, <3>1, ReadSleeps
  <2> QED BY <1>1, <1>2, <1>3, <1>5, <1>7, <2>1, <2>2 DEF Turned, Kept, Arrived
<1>8. CASE /\ Len(s) = 1 /\ IsRelay(i) /\ stored' = stored \cup {i} /\ Emit(s[1])
           /\ task' = [task EXCEPT ![i] = Charging(@, "keeping", PutParts(i, i))]
  <2>1. ledger' = l /\ task' = [task EXCEPT ![i] = kept]
    BY <1>1, <1>5, <1>8 DEF Emit
  <2> HIDE DEF kept
  <2>2. /\ kept \in Tasks /\ kept.pc = "keeping" /\ kept.src = th.src /\ Kept(kept, th)
        /\ kept.sleeps \in Tails(PutParts(i, i)) /\ kept.wake >= now
    <3>1. kept = Charging(th, "keeping", PutParts(i, i))
      BY DEF kept
    <3> QED BY <1>1, <3>1, TaskPuts
  <2>3. stored' \subseteq Volumes
    BY <1>1, <1>8
  <2>4. Turned(i, kept) /\ kept.from = d /\ kept.opened = th.opened /\ kept.src = i
    BY <1>3, <2>1, <2>2 DEF Turned, Kept
  <2>5. ledger' = Transferred(ledger, i, kept.from)
    BY <2>1, <2>4 DEF l
  <2> QED BY <1>2, <1>3, <1>5, <1>6, <1>8, <2>1, <2>2, <2>3, <2>4, <2>5 DEF Arrived
<1>9. CASE /\ Len(s) = 1 /\ ~IsRelay(i) /\ stored' = stored
           /\ task' = [task EXCEPT ![i].pc = "done"]
           /\ ledger' = Finished(i, Accounted(ledger, s[1]))
  <2>1. ledger' = Finished(i, l) /\ task' = [task EXCEPT ![i] = done]
    BY <1>1, <1>5, <1>9
  <2>2. done \in Tasks /\ Moved(done, th, "done", th.wake, th.sleeps) /\ Kept(done, th)
    BY <1>1, TaskAt
  <2> HIDE DEF done
  <2>3. Turned(i, done) /\ done.from = d /\ done.opened = th.opened /\ done.src = i /\ done.pc = "done"
    BY <1>3, <2>1, <2>2 DEF Turned, Kept, Moved
  <2>4. ledger' = Finished(i, Transferred(ledger, i, done.from))
    BY <2>1, <2>3 DEF l
  <2>5. ledger' \in Ledgers
    BY <1>6, <2>1, FinishedFields
  <2> QED BY <1>1, <1>2, <1>3, <1>5, <1>9, <2>3, <2>4, <2>5 DEF Arrived
<1> QED BY <1>4, <1>7, <1>8, <1>9

LEMMA RelayChargeShape ==
  ASSUME Base, NEW i \in Items, RelayCharge(i)
  PROVE  \E new :
           /\ Turned(i, new) /\ task[i].pc = "keeping" /\ new.src = i
           /\ new.from = task[i].from /\ new.opened = task[i].opened /\ new.from \in Volumes
           /\ IsRelay(i) /\ ~Direct
           /\ Grows(Written(i, task[i].sleeps), {}) /\ ledger' \in Ledgers
           /\ \/ /\ ~Arrived(i) /\ new.pc = "keeping" /\ ledger' = ledger /\ ready' = ready
                 /\ new.sleeps \in Tails(PutParts(i, i)) /\ new.wake >= now
              \/ /\ Arrived(i) /\ new.pc = "done" /\ ledger' = Finished(i, ledger)
                 /\ ready' = ready \cup {i}
<1> DEFINE th == task[i]
           s == th.sleeps
           next == NextSleep(th)
           done == [th EXCEPT !.pc = "done"]
<1>1. /\ th \in Tasks /\ i \in Volumes /\ Configured /\ now \in Nat
      /\ task \in [Items -> Tasks] /\ Placed(th, i) /\ Staged(th, i)
      /\ "done" \in TaskPcs /\ ledger \in Ledgers
  BY ItemFacts DEF Base, Typed, TaskPcs
<1>2. th.pc = "keeping"
  BY DEF RelayCharge, Due
<1>3. th.src = i /\ th.from \in Volumes /\ s \in Tails(PutParts(i, i)) /\ IsRelay(i) /\ ~Direct
  BY <1>1, <1>2 DEF Placed, Staged
<1>4. \/ /\ Len(s) = 1 /\ task' = [task EXCEPT ![i].pc = "done"] /\ ready' = ready \cup {i}
         /\ ledger' = Finished(i, Accounted(ledger, s[1])) /\ trace' = trace \o Rows(Emitted(s[1]))
      \/ /\ Len(s) # 1 /\ task' = [task EXCEPT ![i] = NextSleep(@)] /\ Emit(s[1]) /\ ready' = ready
  BY DEF RelayCharge, LastSleep
<1>5. Grows(Written(i, s), {}) /\ Accounted(ledger, s[1]) = ledger
  <2>1. trace' = trace \o Rows(Emitted(s[1]))
    BY <1>4 DEF Emit
  <2> QED BY <1>1, <1>3, <2>1, PutEmits
<1>6. CASE /\ Len(s) = 1 /\ task' = [task EXCEPT ![i].pc = "done"] /\ ready' = ready \cup {i}
           /\ ledger' = Finished(i, Accounted(ledger, s[1]))
  <2>1. ledger' = Finished(i, ledger) /\ task' = [task EXCEPT ![i] = done]
    BY <1>1, <1>5, <1>6
  <2>2. done \in Tasks /\ Moved(done, th, "done", th.wake, th.sleeps) /\ Kept(done, th)
    BY <1>1, TaskAt
  <2> HIDE DEF done
  <2>3. ledger' \in Ledgers
    BY <1>1, <2>1, FinishedFields
  <2> QED BY <1>2, <1>3, <1>5, <1>6, <2>1, <2>2, <2>3 DEF Turned, Kept, Moved, Arrived
<1>7. CASE Len(s) # 1 /\ task' = [task EXCEPT ![i] = NextSleep(@)] /\ Emit(s[1]) /\ ready' = ready
  <2>1. ledger' = ledger /\ task' = [task EXCEPT ![i] = next]
    BY <1>1, <1>5, <1>7 DEF Emit
  <2> HIDE DEF next
  <2>2. /\ next \in Tasks /\ next.pc = th.pc /\ next.src = th.src /\ Kept(next, th)
        /\ next.sleeps \in Tails(PutParts(i, i)) /\ next.wake >= now
    <3>1. next = NextSleep(th)
      BY DEF next
    <3> QED BY <1>1, <1>3, <1>7, <3>1, TaskSleeps
  <2> QED BY <1>1, <1>2, <1>3, <1>5, <1>7, <2>1, <2>2 DEF Turned, Kept, Arrived
<1> QED BY <1>4, <1>6, <1>7

-----------------------------------------------------------------------------
(* Every step keeps the types, the places and the stages.                  *)

LEMMA BaseInit ==
  ASSUME Init
  PROVE  Base
<1>1. Configured
  <2>1. /\ run.workload \in {"put_get", "weight_sync", "routed"} /\ run.config \in Configurations
        /\ run.device \in Devices /\ run.release \in [Items -> Releases] /\ run.route \in Routes
        /\ run.missing \subseteq Items
        /\ run.workload = "routed" => run.missing = {}
    BY DEF Init
  <2>2. run.release \in [Items -> Nat] /\ run.route \in [Items -> {Trainers[1]} \cup Items]
    BY <2>1, RunAssumption
  <2>3. ~Direct => run.missing = {}
    BY <2>1 DEF Direct
  <2> QED BY <2>1, <2>2, <2>3, Zenon DEF Configured
<1>2. Idle \in Tasks /\ Idle.pc = "idle"
  <2>1. "idle" \in TaskPcs /\ <<>> \in Sleepings
    BY DEF TaskPcs, Sleepings
  <2> QED BY <2>1 DEF Idle, Tasks
<1>3. main \in Drivers /\ main.turn = 1 /\ main.pc = "start"
  <2>1. "start" \in DriverPcs /\ <<>> \in Sleepings
    BY DEF DriverPcs, Sleepings
  <2> QED BY <2>1 DEF Init, Drivers
<1>4. ledger \in Ledgers
  <2>1. <<>> \in Seq(Volumes \X Volumes)
    OBVIOUS
  <2> QED BY <2>1 DEF Init, NewLedger, Ledgers
<1>5. /\ now = 0 /\ owner = Nobody /\ task = [i \in Items |-> Idle] /\ pub = Idle
      /\ stored = {} /\ listed = <<>> /\ ready = {} /\ trace = <<>>
  BY DEF Init
<1>6. 1 <= Len(Publishers)
  BY <1>1, PublishersType
<1>7. Typed
  BY <1>1, <1>2, <1>3, <1>4, <1>5, <1>6 DEF Typed
<1>8. Preparing /\ ~Putting /\ Holder = Nobody
  BY <1>3 DEF Preparing, Putting, Holder
<1>9. Places
  BY <1>2, <1>3, <1>5, <1>8 DEF Places, Placed
<1>10. Stages
  BY <1>2, <1>3, <1>5 DEF Stages, Staged
<1> QED BY <1>7, <1>9, <1>10 DEF Base

LEMMA MainBase ==
  ASSUME Base, Main
  PROVE  Base'
<1>0. /\ trace \in Seq(Row) /\ listed \in Seq(Origins) /\ ledger \in Ledgers /\ stored \subseteq Volumes
      /\ main \in Drivers /\ main.turn \in 1 .. Len(Publishers) /\ now \in Nat
  BY PublishersType DEF Base, Typed, Drivers
<1>1. run' = run => Publishers' = Publishers /\ Direct' = Direct
  BY SameRun
<1>2. CASE Generate
  <2>1. /\ main' \in Drivers /\ main'.turn = main.turn /\ main'.pc = "generating" /\ trace' \in Seq(Row)
    BY <1>2, GenerateShape DEF Grows
  <2>2. /\ UNCHANGED <<run, now, task, pub, ready, owner, stored, listed, ledger>>
        /\ main.pc = "start"
    BY <1>2 DEF Generate
  <2>3. owner' = Holder' /\ ~Putting' /\ Preparing' = Preparing /\ Preparing
    BY <2>1, <2>2 DEF Base, Places, Holder, Putting, Preparing
  <2> QED BY <1>0, <2>1, <2>2, <2>3, DriverStep
<1>3. CASE PublishFirst
  <2>1. /\ main' \in Drivers /\ main'.turn = main.turn /\ main'.pc = "putting"
        /\ main'.sleeps \in Tails(PutParts(Publishers[main.turn], Publishers[main.turn]))
        /\ owner' = Publishers[main.turn] /\ stored' \subseteq Volumes
        /\ trace' \in Seq(Row) /\ main.pc \in {"start", "generating"} /\ Direct
        /\ UNCHANGED <<run, now, task, pub, listed, ready, ledger>>
    BY <1>3, PublishFirstShape DEF Grows
  <2>2. owner' = Holder' /\ Preparing' = Preparing /\ Preparing
    BY <1>1, <2>1 DEF Holder, Putting, Preparing
  <2>3. /\ main'.sleeps \in Tails(PutParts(Publishers[main'.turn], Publishers[main'.turn]))
        /\ main'.turn <= Len(Publishers) /\ listed' \in Seq(Origins) /\ ledger' \in Ledgers
    BY <1>0, <2>1
  <2> QED BY <2>1, <2>2, <2>3, DriverStep
<1>4. CASE PutCharge
  <2>1. /\ main' \in Drivers /\ main'.turn = main.turn /\ main'.pc \in {"notifying", "putting"}
        /\ main'.pc = "putting" =>
             main'.sleeps \in Tails(PutParts(Publishers[main.turn], Publishers[main.turn]))
        /\ trace' \in Seq(Row) /\ main.pc = "putting" /\ ledger' = ledger
    BY <1>4, PutChargeShape DEF Grows
  <2>2. UNCHANGED <<run, now, owner, task, pub, stored, listed, ready>>
    BY <1>4 DEF PutCharge
  <2>3. owner' = Holder' /\ Preparing' = Preparing /\ Preparing /\ Direct
    BY <1>1, <2>1, <2>2 DEF Base, Places, Holder, Putting, Preparing
  <2> QED BY <1>0, <2>1, <2>2, <2>3, DriverStep
<1>5. CASE PutListed
  <2>1. /\ main' \in Drivers /\ main'.turn = main.turn /\ main'.pc = "notified"
        /\ main.pc = "notifying" /\ trace' \in Seq(Row)
        /\ listed' \in Seq(Origins) /\ Len(listed') = Len(listed) + 1
    BY <1>5, PutListedShape DEF Grows
  <2>2. UNCHANGED <<run, now, owner, task, pub, stored, ready, ledger>>
    BY <1>5 DEF PutListed
  <2>3. owner' = Holder' /\ Preparing' = Preparing /\ Preparing /\ Direct
    BY <1>1, <2>1, <2>2 DEF Base, Places, Holder, Putting, Preparing
  <2>4. listed' # <<>>
    BY <1>0, <2>1
  <2> QED BY <1>0, <2>1, <2>2, <2>3, <2>4, DriverStep
<1>6. CASE PublishNext
  <2>1. /\ main' \in Drivers /\ main'.turn = main.turn + 1 /\ main'.pc = "putting"
        /\ main'.sleeps \in Tails(PutParts(Publishers[main.turn + 1], Publishers[main.turn + 1]))
        /\ owner' = Publishers[main.turn + 1] /\ stored' \subseteq Volumes
        /\ trace' \in Seq(Row) /\ main.pc = "notified" /\ main.turn + 1 \in 1 .. Len(Publishers)
        /\ UNCHANGED <<run, now, task, pub, listed, ready, ledger>>
    BY <1>6, PublishNextShape DEF Grows
  <2>2. owner' = Holder' /\ Preparing' = Preparing /\ Preparing /\ Direct
    BY <1>1, <2>1 DEF Base, Places, Holder, Putting, Preparing
  <2>3. /\ main'.sleeps \in Tails(PutParts(Publishers[main'.turn], Publishers[main'.turn]))
        /\ main'.turn <= Len(Publishers) /\ listed' \in Seq(Origins) /\ ledger' \in Ledgers
    BY <1>0, <2>1
  <2> QED BY <2>1, <2>2, <2>3, DriverStep
<1>7. CASE ReleaseItems
  <2>1. /\ main' \in Drivers /\ main'.turn = main.turn /\ main'.pc = "gathering"
        /\ Direct => main.pc = "notified"
        /\ ~Direct => main.pc = "generating"
        /\ owner' = Mesh /\ ledger' = [ledger EXCEPT !.total = @ + Cardinality(Items)]
        /\ task' \in [Items -> Tasks]
        /\ \A i \in Items : task'[i].pc = "created"
        /\ trace' \in Seq(Row)
    BY <1>7, ReleaseItemsShape DEF Grows
  <2>2. UNCHANGED <<run, now, pub, stored, listed, ready>>
    BY <1>7 DEF ReleaseItems
  <2>3. /\ Direct' = Direct /\ Publishers' = Publishers /\ Configured' = Configured
        /\ \A parts : Tails(parts)' = Tails(parts)
        /\ \A t, j : Placed(t, j)' = Placed(t, j) /\ Staged(t, j)' = Staged(t, j)
    BY <2>2, SameRun
  <2>4. owner' = Holder' /\ Preparing /\ ~Preparing' /\ ~Putting' /\ main'.pc = "gathering"
    BY <2>1 DEF Holder, Putting, Preparing
  <2>5. ledger' \in Ledgers
    <3>1. Cardinality(Items) \in Nat
      BY RunAssumption, FS_CardinalityType
    <3> DEFINE total == ledger.total + Cardinality(Items)
    <3>2. total \in Nat /\ ledger' = [ledger EXCEPT !.total = total]
      BY <1>0, <2>1, <3>1 DEF Ledgers
    <3> HIDE DEF total
    <3> QED BY <1>0, <3>2 DEF Ledgers
  <2>6. Typed'
    BY <1>0, <2>1, <2>2, <2>3, <2>5 DEF Base, Typed
  <2>7. pub.pc = "idle" /\ (Direct => listed # <<>>)
    BY <2>1, <2>4 DEF Base, Places
  <2>8. \A i \in Items : Placed(task'[i], i) /\ Staged(task'[i], i)
    BY <2>1 DEF Placed, Staged
  <2>9. Places'
    BY <2>1, <2>2, <2>3, <2>4, <2>7, <2>8 DEF Places
  <2>10. Stages'
    BY <2>1, <2>2, <2>3, <2>7, <2>8 DEF Stages
  <2> QED BY <2>6, <2>9, <2>10 DEF Base
<1>8. CASE Gather
  <2>1. /\ main' \in Drivers /\ main'.turn = main.turn /\ main.pc = "gathering"
        /\ \/ AllDone /\ main'.pc = "returned" /\ ledger' = [ledger EXCEPT !.wallclock = now]
           \/ SomeFailed /\ main'.pc = "raised" /\ ledger' = ledger
        /\ owner' = Nobody /\ trace' \in Seq(Row)
    BY <1>8, GatherShape DEF Grows
  <2>2. UNCHANGED <<run, now, task, pub, stored, listed, ready>>
    BY <1>8 DEF Gather
  <2>3. owner' = Holder' /\ Preparing' = Preparing /\ ~Putting' /\ ~Preparing
    BY <1>1, <2>1 DEF Holder, Putting, Preparing
  <2>4. ledger' \in Ledgers
    BY <1>0, <2>1 DEF Ledgers
  <2>5. Direct => listed' # <<>>
    BY <2>2, <2>3 DEF Base, Places
  <2> QED BY <1>0, <2>1, <2>2, <2>3, <2>4, <2>5, DriverStep
<1>9. CASE Close
  <2>1. /\ main' \in Drivers /\ main'.turn = main.turn /\ main'.pc = "closed"
        /\ main.pc \in {"returned", "raised"} /\ trace' \in Seq(Row)
    BY <1>9, CloseShape DEF Grows
  <2>2. UNCHANGED <<run, now, owner, task, pub, stored, listed, ready, ledger>>
    BY <1>9 DEF Close
  <2>3. owner' = Holder' /\ Preparing' = Preparing /\ ~Putting' /\ ~Preparing
    BY <1>1, <2>1, <2>2 DEF Base, Places, Holder, Putting, Preparing
  <2>4. AllDone \/ SomeFailed
    BY <2>1 DEF Base, Places
  <2>5. Direct => listed' # <<>>
    BY <2>2, <2>3 DEF Base, Places
  <2> QED BY <1>0, <2>1, <2>2, <2>3, <2>4, <2>5, DriverStep
<1> QED BY <1>2, <1>3, <1>4, <1>5, <1>6, <1>7, <1>8, <1>9 DEF Main

LEMMA ItemBase ==
  ASSUME Base, main.pc # "closed", NEW i \in Items, Item(i)
  PROVE  Base'
<1>0. /\ trace \in Seq(Row) /\ ledger \in Ledgers /\ stored \subseteq Volumes /\ pub \in Tasks
      /\ ready \subseteq Items /\ i \in Volumes /\ Placed(task[i], i)
      /\ task[i].pc # "idle" => ~Preparing
  BY ItemFacts DEF Base, Typed
<1>1. CASE ItemSleep(i)
  <2>1. PICK new : /\ Turned(i, new) /\ new.pc = "released" /\ task[i].pc = "created" /\ Grows({}, {})
    BY <1>1, ItemSleepShape
  <2>2. UNCHANGED <<run, now, owner, main, pub, stored, listed, ready, ledger>>
    BY <1>1 DEF ItemSleep
  <2>3. Placed(new, i) /\ Staged(new, i) /\ ~Preparing
    BY <1>0, <2>1 DEF Placed, Staged
  <2> QED BY <1>0, <2>1, <2>2, <2>3, ItemStep DEF Turned, Grows
<1>2. CASE ItemLocate(i)
  <2>1. PICK new : /\ Turned(i, new) /\ new.pc = "locating" /\ new.src = i
                   /\ task[i].pc \in {"created", "released"} /\ Direct /\ Grows({}, {})
    BY <1>2, ItemLocateShape
  <2>2. UNCHANGED <<run, now, owner, main, pub, stored, listed, ready, ledger>>
    BY <1>2 DEF ItemLocate
  <2>3. Placed(new, i) /\ Staged(new, i) /\ ~Preparing
    BY <1>0, <2>1 DEF Placed, Staged
  <2> QED BY <1>0, <2>1, <2>2, <2>3, ItemStep DEF Turned, Grows
<1>3. CASE ItemLocated(i)
  <2>1. PICK new : /\ Turned(i, new) /\ task[i].pc = "locating" /\ Grows({}, {})
                   /\ \/ new.pc = "failed" /\ i \in run.missing
                      \/ new.pc = "located" /\ new.src = i /\ new.from \in Volumes
    BY <1>3, ItemLocatedShape
  <2>2. UNCHANGED <<run, now, owner, main, pub, stored, listed, ready, ledger>>
    BY <1>3 DEF ItemLocated
  <2>3. Direct
    BY <1>0, <2>1 DEF Placed
  <2>4. Placed(new, i) /\ Staged(new, i) /\ ~Preparing
    BY <1>0, <2>1, <2>3 DEF Placed, Staged
  <2>5. new.pc \notin {"idle", "stray"}
    BY <2>1
  <2> QED BY <1>0, <2>1, <2>2, <2>4, <2>5, ItemStep DEF Turned, Grows
<1>4. CASE ItemPublish(i)
  <2>1. PICK new : /\ Turned(i, new) /\ new.pc = "awaiting"
                   /\ task[i].pc \in {"created", "released"} /\ ~Direct /\ Grows({}, {})
                   /\ pub' \in Tasks /\ (pub' = pub \/ pub'.pc = "created")
    BY <1>4, ItemPublishShape
  <2>2. UNCHANGED <<run, now, owner, main, stored, listed, ready, ledger>>
    BY <1>4 DEF ItemPublish
  <2>3. Placed(new, i) /\ Staged(new, i) /\ ~Preparing
    BY <1>0, <2>1 DEF Placed, Staged
  <2> QED BY <1>0, <2>1, <2>2, <2>3, ItemStep DEF Turned, Grows
<1>5. CASE ItemRouted(i)
  <2>1. PICK new : /\ Turned(i, new) /\ ~Direct /\ Grows({}, {})
                   /\ task[i].pc \in {"created", "released", "awaiting"}
                   /\ \/ new.pc = "routed" /\ new.src = i /\ new.from = run.route[i]
                      \/ Opening(new, i, run.route[i])
    BY <1>5, ItemRoutedShape
  <2>2. UNCHANGED <<run, now, owner, main, pub, stored, listed, ready, ledger>>
    BY <1>5 DEF ItemRouted
  <2>3. run.route[i] \in Volumes
    BY ItemFacts
  <2>4. /\ Placed(new, i) /\ Staged(new, i) /\ ~Preparing /\ new.pc # "idle"
        /\ new.pc = "stray" => owner # Mesh
    BY <1>0, <2>1, <2>3 DEF Placed, Staged, Opening
  <2> QED BY <1>0, <2>1, <2>2, <2>4, ItemStep DEF Turned, Grows
<1>6. CASE ItemOpen(i)
  <2>1. PICK new : /\ Turned(i, new) /\ Opening(new, i, task[i].from) /\ Grows({}, {})
                   /\ task[i].from \in Volumes /\ task[i].pc \in {"located", "routed"}
    BY <1>6, ItemOpenShape
  <2>2. UNCHANGED <<run, now, owner, main, pub, stored, listed, ready, ledger>>
    BY <1>6 DEF ItemOpen
  <2>3. /\ Placed(new, i) /\ Staged(new, i) /\ ~Preparing /\ new.pc # "idle"
        /\ new.pc = "stray" => owner # Mesh
    BY <1>0, <2>1 DEF Placed, Staged, Opening
  <2> QED BY <1>0, <2>1, <2>2, <2>3, ItemStep DEF Turned, Grows
<1>7. CASE ItemCharge(i)
  <2>1. PICK new : /\ Turned(i, new) /\ task[i].pc = "getting" /\ new.src = i /\ new.from \in Volumes
                   /\ stored' \subseteq Volumes
                   /\ Grows({}, Fetched(i, task[i].sleeps)) /\ ledger' \in Ledgers
                   /\ \/ new.pc = "getting" /\ new.sleeps \in Tails(GetParts(i, new.from))
                      \/ new.pc = "keeping" /\ IsRelay(i) /\ new.sleeps \in Tails(PutParts(i, i))
                      \/ new.pc = "done"
    BY <1>7, ItemChargeShape
  <2>2. UNCHANGED <<run, now, owner, main, pub, listed, ready>>
    BY <1>7 DEF ItemCharge
  <2>3. Placed(new, i) /\ Staged(new, i) /\ ~Preparing /\ new.pc \notin {"idle", "stray"}
    BY <1>0, <2>1 DEF Placed, Staged, IsRelay
  <2> QED BY <1>0, <2>1, <2>2, <2>3, ItemStep DEF Turned, Grows
<1>8. CASE RelayCharge(i)
  <2>1. PICK new : /\ Turned(i, new) /\ task[i].pc = "keeping" /\ new.src = i /\ new.from \in Volumes
                   /\ IsRelay(i) /\ ~Direct /\ ledger' \in Ledgers
                   /\ Grows(Written(i, task[i].sleeps), {})
                   /\ \/ new.pc = "keeping" /\ ready' = ready /\ new.sleeps \in Tails(PutParts(i, i))
                      \/ new.pc = "done" /\ ready' = ready \cup {i}
    BY <1>8, RelayChargeShape
  <2>2. UNCHANGED <<run, now, owner, main, pub, stored, listed>>
    BY <1>8 DEF RelayCharge
  <2>3. /\ Placed(new, i) /\ Staged(new, i) /\ ~Preparing /\ new.pc \notin {"idle", "stray"}
        /\ ready' \subseteq Items
    BY <1>0, <2>1 DEF Placed, Staged
  <2> QED BY <1>0, <2>1, <2>2, <2>3, ItemStep DEF Turned, Grows
<1> QED BY <1>1, <1>2, <1>3, <1>4, <1>5, <1>6, <1>7, <1>8 DEF Item

LEMMA PublicationBase ==
  ASSUME Base, PubOpen \/ PubCharge
  PROVE  Base'
<1>0. ledger \in Ledgers /\ stored \subseteq Volumes
  BY DEF Base, Typed
<1>1. CASE PubOpen
  <2>1. /\ pub' \in Tasks /\ pub'.pc = "putting" /\ pub.pc = "created" /\ ~Direct
        /\ pub'.sleeps \in Tails(PutParts(Publishers[1], Publishers[1]))
        /\ stored' \subseteq Volumes /\ trace' \in Seq(Row)
    BY <1>1, PubOpenShape DEF Grows
  <2>2. UNCHANGED <<run, now, owner, main, task, listed, ready, ledger>>
    BY <1>1 DEF PubOpen
  <2> QED BY <1>0, <2>1, <2>2, PubStep
<1>2. CASE PubCharge
  <2>1. /\ pub' \in Tasks /\ pub.pc = "putting" /\ ~Direct /\ pub'.pc \in {"putting", "done"}
        /\ pub'.pc = "putting" => pub'.sleeps \in Tails(PutParts(Publishers[1], Publishers[1]))
        /\ trace' \in Seq(Row) /\ ledger' = ledger
    BY <1>2, PubChargeShape DEF Grows
  <2>2. UNCHANGED <<run, now, owner, main, task, stored, listed, ready>>
    BY <1>2 DEF PubCharge
  <2> QED BY <1>0, <2>1, <2>2, PubStep
<1> QED BY <1>1, <1>2

(* The clock jumps to a timer, and to no later one than any thread waits for. *)
LEMMA AdvanceShape ==
  ASSUME Base, Advance
  PROVE  /\ now' \in Nat /\ now < now' /\ \A w \in Timers : now' <= w
         /\ ~SomethingReady /\ main.pc # "closed" /\ Grows({}, {})
<1>1. /\ now' = Min(Timers) /\ Timers # {} /\ ~SomethingReady /\ main.pc # "closed" /\ trace' = trace
  BY DEF Advance
<1>2. Timers \in SUBSET Nat
  <2>1. main.wake \in Nat /\ pub.wake \in Nat /\ \A i \in Items : task[i].wake \in Nat
    BY DEF Base, Typed, Drivers, Tasks
  <2>2. Range(task) = { task[i] : i \in Items }
    BY DEF Base, Typed, Range
  <2> QED BY <2>1, <2>2 DEF Timers
<1>3. \E m \in Timers : \A w \in Timers : m <= w
  BY <1>1, <1>2, Least
<1>4. Min(Timers) \in Timers /\ \A w \in Timers : Min(Timers) <= w
  BY <1>3 DEF Min
<1>5. \A w \in Timers : ~(w <= now)
  BY <1>1 DEF SomethingReady
<1>6. now \in Nat /\ trace \in Seq(Row)
  BY DEF Base, Typed
<1>7. Grows({}, {})
  BY <1>1, <1>6, GrowsNot
<1> HIDE DEF Timers
<1>8. now' \in Timers /\ \A w \in Timers : now' <= w
  BY <1>1, <1>4
<1>9. now' \in Nat /\ now < now'
  BY <1>2, <1>5, <1>6, <1>8
<1> QED BY <1>1, <1>7, <1>8, <1>9

LEMMA TimersOf ==
  ASSUME Base
  PROVE  /\ Asleep(main) => main.wake \in Timers
         /\ Asleep(pub) => pub.wake \in Timers
         /\ \A i \in Items : Asleep(task[i]) => task[i].wake \in Timers
<1>1. \A i \in Items : task[i] \in Range(task)
  BY DEF Base, Typed, Range
<1> QED BY <1>1 DEF Timers

LEMMA SameState ==
  ASSUME Base, UNCHANGED vars
  PROVE  Base'
<1>1. run' = run
  BY DEF vars
<1>2. /\ Direct' = Direct /\ Publishers' = Publishers /\ Configured' = Configured
      /\ \A parts : Tails(parts)' = Tails(parts)
      /\ \A t, j : Placed(t, j)' = Placed(t, j) /\ Staged(t, j)' = Staged(t, j)
  BY <1>1, SameRun
<1>3. /\ SomeFailed' = SomeFailed /\ AllDone' = AllDone /\ Preparing' = Preparing
      /\ Putting' = Putting /\ Holder' = Holder
  BY <1>2 DEF vars, SomeFailed, AllDone, Preparing, Putting, Holder
<1>4. Typed'
  BY <1>2 DEF Base, Typed, vars
<1>5. Places'
  BY <1>2, <1>3 DEF Base, Places, vars
<1>6. Stages'
  BY <1>2 DEF Base, Stages, vars
<1> QED BY <1>4, <1>5, <1>6 DEF Base

LEMMA AdvanceBase ==
  ASSUME Base, Advance
  PROVE  Base'
<1>1. now' \in Nat /\ UNCHANGED <<run, owner, main, task, pub, stored, listed, ready, ledger, trace>>
  BY AdvanceShape DEF Advance
<1>2. /\ Direct' = Direct /\ Publishers' = Publishers /\ Configured' = Configured
      /\ \A parts : Tails(parts)' = Tails(parts)
      /\ \A t, j : Placed(t, j)' = Placed(t, j) /\ Staged(t, j)' = Staged(t, j)
  BY <1>1, SameRun
<1>3. /\ SomeFailed' = SomeFailed /\ AllDone' = AllDone /\ Preparing' = Preparing
      /\ Putting' = Putting /\ Holder' = Holder
  BY <1>1, <1>2 DEF SomeFailed, AllDone, Preparing, Putting, Holder
<1>4. Typed'
  BY <1>1, <1>2 DEF Base, Typed
<1>5. Places'
  BY <1>1, <1>2, <1>3 DEF Base, Places
<1>6. Stages'
  BY <1>1, <1>2 DEF Base, Stages
<1> QED BY <1>4, <1>5, <1>6 DEF Base

LEMMA BaseStep ==
  ASSUME Base, [Next]_vars
  PROVE  Base'
<1>1. CASE main.pc # "closed" /\ Main
  BY <1>1, MainBase
<1>2. CASE PubOpen \/ PubCharge
  BY <1>2, PublicationBase
<1>3. ASSUME NEW i \in Items, main.pc # "closed", Item(i) PROVE Base'
  BY <1>3, ItemBase
<1>4. CASE Advance
  BY <1>4, AdvanceBase
<1>5. CASE UNCHANGED vars
  BY <1>5, SameState
<1> QED BY <1>1, <1>2, <1>3, <1>4, <1>5 DEF Next, Terminated

(* The invariant, for any environment, trainers and readers.               *)
LEMMA BaseInvariant == Spec => []Base
<1>1. Init => Base
  BY BaseInit
<1>2. Base /\ [Next]_vars => Base'
  BY BaseStep
<1> QED BY <1>1, <1>2, PTL DEF Spec

(* The process-wide substitution is claimed by one at a time, is the       *)
(* mesh's while items are gathered and nobody's once the run is over, and  *)
(* no item outlives the block unless another failed.                       *)
THEOREM GivenBack == Spec => []PatchReturned
<1>1. ASSUME Base PROVE PatchReturned
  <2>1. main.pc # "refused" /\ owner = Holder
    BY <1>1 DEF Base, Places
  <2>2. Putting => Publishers[main.turn] \in Volumes
    BY <1>1, PublishersType DEF Base, Typed, Drivers, Volumes
  <2>3. Mesh \notin Volumes /\ Mesh # Nobody
    BY NamesAssumption DEF Mesh, Nobody
  <2>4. owner = Mesh <=> main.pc = "gathering"
    BY <2>1, <2>2, <2>3 DEF Holder, Putting
  <2>5. main.pc \in {"returned", "raised", "closed"} => owner = Nobody
    BY <2>1 DEF Holder, Putting
  <2>6. \A i \in Items : task[i].pc = "stray" => run.missing # {}
    BY <1>1 DEF Base, Places, Placed, SomeFailed
  <2> QED BY <2>1, <2>4, <2>5, <2>6 DEF PatchReturned
<1>2. Base => PatchReturned
  BY <1>1
<1> QED BY <1>2, BaseInvariant, PTL

-----------------------------------------------------------------------------
(* The turns of the items, by what they do to the run's records.           *)

(* A turn that ends no read and no put.                                    *)
QuietTurn(i, new) ==
  /\ Turned(i, new) /\ Grows({}, {})
  /\ task[i].pc \notin {"idle", "keeping", "done", "failed"}
  /\ new.pc \notin {"idle", "keeping", "done"}
  /\ UNCHANGED <<run, now, owner, main, listed, ready, ledger>>
  /\ pub' = pub \/ (pub.pc # "done" /\ pub'.pc = "created" /\ pub'.wake = now)
  /\ Asleep(new) => now <= new.wake
  /\ \/ new.pc \notin {"located", "getting"}
     \/ new.pc = "located" /\ Direct /\ listed # <<>> /\ new.from = listed[1]
     \/ /\ new.pc = "getting" /\ new.opened = now /\ new.from \in Volumes
        /\ new.wake + Owed(new.sleeps) = now + ReadTime(new.from, i, Bytes)
        /\ run.config.collapse_charges \/ Len(new.sleeps) = 3
        /\ \/ task[i].pc = "located" /\ new.from = task[i].from
           \/ ~Direct /\ SourceReady(new.from) /\ new.from = run.route[i]
     \/ /\ new.pc = "getting" /\ task[i].pc = "getting" /\ task[i].wake <= now
        /\ new.from = task[i].from /\ new.opened = task[i].opened
        /\ new.wake + Owed(new.sleeps) = now + Owed(task[i].sleeps)
        /\ Leaves(i) /\ Len(new.sleeps) + 1 = Len(task[i].sleeps)

(* The turn in which the bytes of a read have arrived.                     *)
ReadTurn(i, new) ==
  /\ Turned(i, new) /\ Grows({}, {i})
  /\ task[i].pc = "getting" /\ task[i].wake <= now /\ Owed(task[i].sleeps) = 0
  /\ Leaves(i) /\ Arrived(i)
  /\ new.from = task[i].from /\ new.opened = task[i].opened /\ new.from \in Volumes
  /\ UNCHANGED <<run, now, owner, main, pub, listed, ready>> /\ ledger' \in Ledgers
  /\ \/ new.pc = "keeping" /\ IsRelay(i) /\ now <= new.wake
        /\ ledger' = Transferred(ledger, i, new.from)
     \/ new.pc = "done" /\ ~IsRelay(i)
        /\ ledger' = Finished(i, Transferred(ledger, i, new.from))

(* A turn of a relay that stores what it has read.                         *)
RelayTurn(i, new) ==
  /\ Turned(i, new) /\ task[i].pc = "keeping" /\ IsRelay(i) /\ ~Direct
  /\ new.from = task[i].from /\ new.opened = task[i].opened
  /\ UNCHANGED <<run, now, owner, main, pub, listed>> /\ ledger' \in Ledgers
  /\ \/ new.pc = "keeping" /\ now <= new.wake /\ ledger' = ledger /\ ready' = ready /\ Grows({}, {})
     \/ /\ new.pc = "done" /\ ledger' = Finished(i, ledger) /\ ready' = ready \cup {i}
        /\ Grows(IF StorageTime(Bytes, "write") > 0 THEN {i} ELSE {}, {})

LEMMA ItemTurns ==
  ASSUME Base, NEW i \in Items, Item(i)
  PROVE  \E new : QuietTurn(i, new) \/ ReadTurn(i, new) \/ RelayTurn(i, new)
<1>1. CASE ItemSleep(i)
  <2>1. PICK new : /\ Turned(i, new) /\ new.pc = "released" /\ new.wake >= now
                   /\ task[i].pc = "created" /\ Grows({}, {})
    BY <1>1, ItemSleepShape
  <2>2. UNCHANGED <<run, now, owner, main, pub, listed, ready, ledger>>
    BY <1>1 DEF ItemSleep
  <2>3. now <= new.wake
    BY <2>1 DEF Turned, Tasks, Base, Typed
  <2> QED BY <2>1, <2>2, <2>3 DEF QuietTurn
<1>2. CASE ItemLocate(i)
  <2>1. PICK new : /\ Turned(i, new) /\ new.pc = "locating" /\ new.wake >= now
                   /\ task[i].pc \in {"created", "released"} /\ Grows({}, {})
    BY <1>2, ItemLocateShape
  <2>2. UNCHANGED <<run, now, owner, main, pub, listed, ready, ledger>>
    BY <1>2 DEF ItemLocate
  <2>3. now <= new.wake
    BY <2>1 DEF Turned, Tasks, Base, Typed
  <2> QED BY <2>1, <2>2, <2>3 DEF QuietTurn
<1>3. CASE ItemLocated(i)
  <2>1. PICK new : /\ Turned(i, new) /\ task[i].pc = "locating" /\ Grows({}, {})
                   /\ \/ new.pc = "failed"
                      \/ new.pc = "located" /\ new.wake >= now /\ new.from = listed[1]
    BY <1>3, ItemLocatedShape
  <2>2. UNCHANGED <<run, now, owner, main, pub, listed, ready, ledger>>
    BY <1>3 DEF ItemLocated
  <2>3. Direct /\ listed # <<>>
    BY <2>1, ItemFacts DEF Placed, Base, Places
  <2>4. new.pc = "located" => now <= new.wake
    BY <2>1 DEF Turned, Tasks, Base, Typed
  <2> QED BY <2>1, <2>2, <2>3, <2>4 DEF QuietTurn, Asleep
<1>4. CASE ItemPublish(i)
  <2>1. PICK new : /\ Turned(i, new) /\ new.pc = "awaiting"
                   /\ task[i].pc \in {"created", "released"} /\ Grows({}, {})
                   /\ pub.pc # "done"
                   /\ pub' = pub \/ (pub'.pc = "created" /\ pub'.wake = now)
    BY <1>4, ItemPublishShape
  <2>2. UNCHANGED <<run, now, owner, main, listed, ready, ledger>>
    BY <1>4 DEF ItemPublish
  <2> QED BY <2>1, <2>2 DEF QuietTurn, Asleep
<1>5. CASE ItemRouted(i)
  <2>1. PICK new : /\ Turned(i, new) /\ ~Direct /\ Grows({}, {})
                   /\ task[i].pc \in {"created", "released", "awaiting"}
                   /\ \/ new.pc = "routed"
                      \/ SourceReady(run.route[i]) /\ Opening(new, i, run.route[i])
    BY <1>5, ItemRoutedShape
  <2>2. UNCHANGED <<run, now, owner, main, pub, listed, ready, ledger>>
    BY <1>5 DEF ItemRouted
  <2>3. run.route[i] \in Volumes
    BY ItemFacts
  <2>4. new.pc \in {"routed", "stray", "getting"}
    BY <2>1 DEF Opening
  <2>5. CASE new.pc \in {"routed", "stray"}
    BY <2>1, <2>2, <2>5 DEF QuietTurn, Asleep
  <2>6. CASE new.pc = "getting"
    <3>1. /\ SourceReady(run.route[i]) /\ new.from = run.route[i] /\ new.opened = now /\ new.wake >= now
          /\ new.wake + Owed(new.sleeps) = now + ReadTime(new.from, i, Bytes)
          /\ run.config.collapse_charges \/ Len(new.sleeps) = 3
      BY <2>1, <2>6 DEF Opening
    <3>2. now <= new.wake
      BY <2>1, <3>1 DEF Turned, Tasks, Base, Typed
    <3> QED BY <2>1, <2>2, <2>3, <2>6, <3>1, <3>2 DEF QuietTurn
  <2> QED BY <2>4, <2>5, <2>6
<1>6. CASE ItemOpen(i)
  <2>1. PICK new : /\ Turned(i, new) /\ Opening(new, i, task[i].from) /\ Grows({}, {})
                   /\ task[i].from \in Volumes
                   /\ \/ task[i].pc = "located"
                      \/ task[i].pc = "routed" /\ SourceReady(task[i].from)
    BY <1>6, ItemOpenShape
  <2>2. UNCHANGED <<run, now, owner, main, pub, listed, ready, ledger>>
    BY <1>6 DEF ItemOpen
  <2>3. task[i].pc = "routed" => ~Direct /\ task[i].from = run.route[i]
    BY ItemFacts DEF Placed
  <2>4. new.pc \in {"stray", "getting"}
    BY <2>1 DEF Opening
  <2>5. CASE new.pc = "stray"
    BY <2>1, <2>2, <2>5 DEF QuietTurn, Asleep
  <2>6. CASE new.pc = "getting"
    <3>1. /\ new.from = task[i].from /\ new.opened = now /\ new.wake >= now
          /\ new.wake + Owed(new.sleeps) = now + ReadTime(new.from, i, Bytes)
          /\ run.config.collapse_charges \/ Len(new.sleeps) = 3
      BY <2>1, <2>6 DEF Opening
    <3>2. now <= new.wake
      BY <2>1, <3>1 DEF Turned, Tasks, Base, Typed
    <3> QED BY <2>1, <2>2, <2>3, <2>6, <3>1, <3>2 DEF QuietTurn
  <2> QED BY <2>4, <2>5, <2>6
<1>7. CASE ItemCharge(i)
  <2>1. PICK new :
           /\ Turned(i, new) /\ task[i].pc = "getting"
           /\ new.from = task[i].from /\ new.opened = task[i].opened /\ new.from \in Volumes
           /\ task[i].wake <= now /\ Leaves(i)
           /\ Grows({}, Fetched(i, task[i].sleeps)) /\ ledger' \in Ledgers
           /\ \/ /\ ~Arrived(i) /\ new.pc = "getting" /\ ledger' = ledger /\ new.wake >= now
                 /\ new.wake + Owed(new.sleeps) = now + Owed(task[i].sleeps)
                 /\ Len(new.sleeps) + 1 = Len(task[i].sleeps)
              \/ /\ Arrived(i) /\ new.pc = "keeping" /\ IsRelay(i) /\ new.wake >= now
                 /\ ledger' = Transferred(ledger, i, new.from)
              \/ /\ Arrived(i) /\ new.pc = "done" /\ ~IsRelay(i)
                 /\ ledger' = Finished(i, Transferred(ledger, i, new.from))
    BY <1>7, ItemChargeShape
  <2>2. UNCHANGED <<run, now, owner, main, pub, listed, ready>>
    BY <1>7 DEF ItemCharge
  <2>3. new.wake >= now => now <= new.wake
    BY <2>1 DEF Turned, Tasks, Base, Typed
  <2>4. CASE ~Arrived(i)
    <3>1. Grows({}, {})
      BY <2>1, <2>4 DEF Fetched, Arrived
    <3> QED BY <2>1, <2>2, <2>3, <2>4, <3>1 DEF QuietTurn
  <2>5. CASE Arrived(i)
    <3>1. Grows({}, {i})
      BY <2>1, <2>5 DEF Fetched, Arrived
    <3>2. Owed(task[i].sleeps) = 0
      BY <2>5 DEF Owed, Arrived
    <3> QED BY <2>1, <2>2, <2>3, <2>5, <3>1, <3>2 DEF ReadTurn
  <2> QED BY <2>4, <2>5
<1>8. CASE RelayCharge(i)
  <2>1. PICK new :
           /\ Turned(i, new) /\ task[i].pc = "keeping"
           /\ new.from = task[i].from /\ new.opened = task[i].opened
           /\ IsRelay(i) /\ ~Direct
           /\ Grows(Written(i, task[i].sleeps), {}) /\ ledger' \in Ledgers
           /\ \/ /\ ~Arrived(i) /\ new.pc = "keeping" /\ ledger' = ledger /\ ready' = ready
                 /\ new.wake >= now
              \/ /\ Arrived(i) /\ new.pc = "done" /\ ledger' = Finished(i, ledger)
                 /\ ready' = ready \cup {i}
    BY <1>8, RelayChargeShape
  <2>2. UNCHANGED <<run, now, owner, main, pub, listed>>
    BY <1>8 DEF RelayCharge
  <2>3. new.wake >= now => now <= new.wake
    BY <2>1 DEF Turned, Tasks, Base, Typed
  <2>4. CASE ~Arrived(i)
    <3>1. Grows({}, {})
      BY <2>1, <2>4 DEF Written, Arrived
    <3> QED BY <2>1, <2>2, <2>3, <2>4, <3>1 DEF RelayTurn
  <2>5. CASE Arrived(i)
    <3>1. Grows(IF StorageTime(Bytes, "write") > 0 THEN {i} ELSE {}, {})
      BY <2>1, <2>5 DEF Written, Arrived
    <3> QED BY <2>1, <2>2, <2>3, <2>5, <3>1 DEF RelayTurn
  <2> QED BY <2>4, <2>5
<1> QED BY <1>1, <1>2, <1>3, <1>4, <1>5, <1>6, <1>7, <1>8 DEF Item

(* What a step of the driving coroutine leaves in the run's records.       *)
MainTurn ==
  /\ UNCHANGED <<run, now, pub, ready>> /\ (\E w : Grows(w, {}))
  /\ Asleep(main') => now <= main'.wake
  /\ UNCHANGED <<ledger.rows, ledger.edges, ledger.transfer, ledger.origin>>
  /\ \/ task' = task
     \/ Preparing /\ \A i \in Items : task'[i].pc = "created" /\ task'[i].wake = now

LEMMA MainTurns ==
  ASSUME Base, Main
  PROVE  MainTurn
<1>0. ledger \in Ledgers /\ now \in Nat
  BY DEF Base, Typed
<1>1. ASSUME main' \in Drivers, main'.wake >= now PROVE now <= main'.wake
  BY <1>0, <1>1 DEF Drivers
<1>2. CASE Generate
  <2>1. main' \in Drivers /\ main'.wake >= now /\ Grows({}, {})
    BY <1>2, GenerateShape
  <2>2. UNCHANGED <<run, now, pub, ready, ledger, task>>
    BY <1>2 DEF Generate
  <2> QED BY <1>1, <2>1, <2>2 DEF MainTurn
<1>3. CASE PublishFirst
  <2>1. /\ main' \in Drivers /\ main'.wake >= now /\ Grows({}, {})
        /\ UNCHANGED <<run, now, task, pub, listed, ready, ledger>>
    BY <1>3, PublishFirstShape
  <2> QED BY <1>1, <2>1 DEF MainTurn
<1>4. CASE PutCharge
  <2>1. /\ main' \in Drivers /\ main'.wake >= now /\ ledger' = ledger
        /\ Grows(Written(Publishers[main.turn], main.sleeps), {})
    BY <1>4, PutChargeShape
  <2>2. UNCHANGED <<run, now, pub, ready, task>>
    BY <1>4 DEF PutCharge
  <2> QED BY <1>1, <2>1, <2>2 DEF MainTurn
<1>5. CASE PutListed
  <2>1. main' \in Drivers /\ main'.wake >= now /\ Grows({}, {})
    BY <1>5, PutListedShape
  <2>2. UNCHANGED <<run, now, pub, ready, ledger, task>>
    BY <1>5 DEF PutListed
  <2> QED BY <1>1, <2>1, <2>2 DEF MainTurn
<1>6. CASE PublishNext
  <2>1. /\ main' \in Drivers /\ main'.wake >= now /\ Grows({}, {})
        /\ UNCHANGED <<run, now, task, pub, listed, ready, ledger>>
    BY <1>6, PublishNextShape
  <2> QED BY <1>1, <2>1 DEF MainTurn
<1>7. CASE ReleaseItems
  <2>1. /\ main'.pc = "gathering" /\ Preparing /\ Grows({}, {})
        /\ ledger' = [ledger EXCEPT !.total = @ + Cardinality(Items)]
        /\ \A i \in Items : task'[i].pc = "created" /\ task'[i].wake = now
    BY <1>7, ReleaseItemsShape DEF Preparing, Putting
  <2>2. UNCHANGED <<run, now, pub, ready>>
    BY <1>7 DEF ReleaseItems
  <2>3. UNCHANGED <<ledger.rows, ledger.edges, ledger.transfer, ledger.origin>>
    BY <1>0, <2>1 DEF Ledgers
  <2> QED BY <2>1, <2>2, <2>3 DEF MainTurn, Asleep
<1>8. CASE Gather
  <2>1. /\ main'.pc \in {"returned", "raised"} /\ Grows({}, {})
        /\ ledger' = [ledger EXCEPT !.wallclock = now] \/ ledger' = ledger
    BY <1>8, GatherShape
  <2>2. UNCHANGED <<run, now, pub, ready, task>>
    BY <1>8 DEF Gather
  <2>3. UNCHANGED <<ledger.rows, ledger.edges, ledger.transfer, ledger.origin>>
    BY <1>0, <2>1 DEF Ledgers
  <2> QED BY <2>1, <2>2, <2>3 DEF MainTurn, Asleep
<1>9. CASE Close
  <2>1. main'.pc = "closed" /\ Grows({}, {})
    BY <1>9, CloseShape
  <2>2. UNCHANGED <<run, now, pub, ready, ledger, task>>
    BY <1>9 DEF Close
  <2> QED BY <2>1, <2>2 DEF MainTurn, Asleep
<1> QED BY <1>2, <1>3, <1>4, <1>5, <1>6, <1>7, <1>8, <1>9 DEF Main

(* The publication task writes rows, and nothing else that is kept.        *)
PublicationTurn ==
  /\ UNCHANGED <<run, now, main, task, listed, ready, ledger>> /\ (\E w : Grows(w, {}))
  /\ Asleep(pub') => now <= pub'.wake

LEMMA PublicationTurns ==
  ASSUME Base, PubOpen \/ PubCharge
  PROVE  PublicationTurn
<1>0. now \in Nat
  BY DEF Base, Typed
<1>1. ASSUME pub' \in Tasks, pub'.wake >= now PROVE now <= pub'.wake
  BY <1>0, <1>1 DEF Tasks
<1>2. CASE PubOpen
  <2>1. pub' \in Tasks /\ pub'.wake >= now /\ Grows({}, {})
    BY <1>2, PubOpenShape
  <2>2. UNCHANGED <<run, now, main, task, listed, ready, ledger>>
    BY <1>2 DEF PubOpen
  <2> QED BY <1>1, <2>1, <2>2 DEF PublicationTurn
<1>3. CASE PubCharge
  <2>1. /\ pub' \in Tasks /\ pub'.pc \in {"putting", "done"}
        /\ pub'.pc = "putting" => pub'.wake >= now
        /\ Grows(Written(Publishers[1], pub.sleeps), {}) /\ ledger' = ledger
    BY <1>3, PubChargeShape
  <2>2. UNCHANGED <<run, now, main, task, listed, ready>>
    BY <1>3 DEF PubCharge
  <2> QED BY <1>1, <2>1, <2>2 DEF PublicationTurn, Asleep
<1> QED BY <1>2, <1>3

(* Every step is one of these.                                             *)
LEMMA Turns ==
  ASSUME Base, [Next]_vars
  PROVE  \/ MainTurn
         \/ PublicationTurn
         \/ \E i \in Items : \E new : QuietTurn(i, new) \/ ReadTurn(i, new) \/ RelayTurn(i, new)
         \/ Advance
         \/ UNCHANGED vars
<1>1. CASE Main
  BY <1>1, MainTurns
<1>2. CASE PubOpen \/ PubCharge
  BY <1>2, PublicationTurns
<1>3. ASSUME NEW i \in Items, Item(i)
      PROVE  \E new : QuietTurn(i, new) \/ ReadTurn(i, new) \/ RelayTurn(i, new)
  BY <1>3, ItemTurns
<1> QED BY <1>1, <1>2, <1>3 DEF Next, Terminated

-----------------------------------------------------------------------------
(* The clock never passes a timer, and a read is on its price.             *)

LEMMA OthersStay ==
  ASSUME Base, NEW i \in Items, NEW new, Turned(i, new)
  PROVE  task'[i] = new /\ \A j \in Items : j # i => task'[j] = task[j]
BY DEF Turned, Base, Typed

LEMMA RowsTimed ==
  ASSUME Base, Timed, now' = now, NEW w, NEW f, Grows(w, f)
  PROVE  \A k \in DOMAIN trace' : trace'[k].at <= now'
<1>1. now \in Nat /\ \A k \in DOMAIN trace : trace[k].at <= now
  BY DEF Base, Typed, Timed
<1> QED BY <1>1 DEF Grows

LEMMA TimedInit ==
  ASSUME Init
  PROVE  Timed
<1>1. /\ main.pc = "start" /\ pub.pc = "idle" /\ trace = <<>>
      /\ \A i \in Items : task[i].pc = "idle"
  BY DEF Init, Idle
<1>2. DOMAIN trace = {}
  BY <1>1
<1> QED BY <1>1, <1>2 DEF Timed, Awake, Asleep, OnTime

LEMMA TimedTurn ==
  ASSUME Base, Timed, NEW i \in Items, NEW new, QuietTurn(i, new) \/ ReadTurn(i, new) \/ RelayTurn(i, new)
  PROVE  Timed'
<1>1. /\ Turned(i, new) /\ UNCHANGED <<now, main>> /\ (\E w, f : Grows(w, f))
      /\ pub' = pub \/ pub'.wake = now
  BY DEF QuietTurn, ReadTurn, RelayTurn
<1>2. task'[i] = new /\ \A j \in Items : j # i => task'[j] = task[j]
  BY <1>1, OthersStay
<1>3. \A k \in DOMAIN trace' : trace'[k].at <= now'
  BY <1>1, RowsTimed
<1>4. now \in Nat /\ Awake(main) /\ Awake(pub)
  BY DEF Base, Typed, Timed
<1>5. Awake(main)' /\ Awake(pub)'
  BY <1>1, <1>4 DEF Awake, Asleep
<1>6. Asleep(new) => now <= new.wake
  BY DEF QuietTurn, ReadTurn, RelayTurn, Asleep
<1>7. OnTime(new, i)
  <2>1. CASE new.pc # "getting"
    BY <2>1 DEF OnTime
  <2>2. CASE new.pc = "getting"
    <3>1. QuietTurn(i, new)
      BY <2>2 DEF ReadTurn, RelayTurn
    <3>2. CASE new.opened = now /\ new.wake + Owed(new.sleeps) = now + ReadTime(new.from, i, Bytes)
      BY <3>2 DEF OnTime
    <3>3. CASE /\ task[i].pc = "getting" /\ task[i].wake <= now
               /\ new.from = task[i].from /\ new.opened = task[i].opened
               /\ new.wake + Owed(new.sleeps) = now + Owed(task[i].sleeps)
      <4>1. now <= task[i].wake /\ task[i].wake \in Nat
        BY <3>3 DEF Timed, Awake, Asleep, Base, Typed, Tasks
      <4>2. task[i].wake = now
        BY <1>4, <3>3, <4>1
      <4>3. task[i].wake + Owed(task[i].sleeps) = task[i].opened + ReadTime(task[i].from, i, Bytes)
        BY <3>3 DEF Timed, OnTime
      <4> QED BY <3>3, <4>2, <4>3 DEF OnTime
    <3> QED BY <2>2, <3>1, <3>2, <3>3 DEF QuietTurn
  <2> QED BY <2>1, <2>2
<1>8. \A j \in Items : Awake(task[j])'
  <2>1. \A j \in Items : Awake(task[j])
    BY DEF Timed
  <2> QED BY <1>1, <1>2, <1>6, <2>1 DEF Awake, Asleep
<1>9. \A j \in Items : OnTime(task'[j], j)
  <2>1. \A j \in Items : OnTime(task[j], j)
    BY DEF Timed
  <2> QED BY <1>2, <1>7, <2>1
<1> QED BY <1>3, <1>5, <1>8, <1>9 DEF Timed, OnTime

LEMMA TimedStep ==
  ASSUME Base, Timed, [Next]_vars
  PROVE  Timed'
<1>1. CASE MainTurn
  <2>1. /\ UNCHANGED <<now, pub>> /\ (\E w : Grows(w, {})) /\ (Asleep(main') => now <= main'.wake)
        /\ \/ task' = task
           \/ \A i \in Items : task'[i].pc = "created" /\ task'[i].wake = now
    BY <1>1 DEF MainTurn
  <2>2. \A k \in DOMAIN trace' : trace'[k].at <= now'
    BY <2>1, RowsTimed
  <2>3. now \in Nat /\ Awake(pub) /\ \A i \in Items : Awake(task[i]) /\ OnTime(task[i], i)
    BY DEF Base, Typed, Timed
  <2>4. Awake(main)' /\ Awake(pub)'
    BY <2>1, <2>3 DEF Awake, Asleep
  <2>5. CASE task' = task
    BY <2>1, <2>2, <2>3, <2>4, <2>5 DEF Timed, OnTime, Awake, Asleep
  <2>6. CASE \A i \in Items : task'[i].pc = "created" /\ task'[i].wake = now
    <3>1. \A i \in Items : Awake(task[i])' /\ OnTime(task[i], i)'
      BY <2>1, <2>3, <2>6 DEF Awake, OnTime
    <3> QED BY <2>2, <2>4, <3>1 DEF Timed
  <2> QED BY <2>1, <2>5, <2>6
<1>2. CASE PublicationTurn
  <2>1. /\ UNCHANGED <<now, main, task>> /\ (\E w : Grows(w, {})) /\ (Asleep(pub') => now <= pub'.wake)
    BY <1>2 DEF PublicationTurn
  <2>2. \A k \in DOMAIN trace' : trace'[k].at <= now'
    BY <2>1, RowsTimed
  <2>3. Awake(main) /\ \A i \in Items : Awake(task[i]) /\ OnTime(task[i], i)
    BY DEF Timed
  <2>4. Awake(main)' /\ Awake(pub)'
    BY <2>1, <2>3 DEF Awake, Asleep
  <2> QED BY <2>1, <2>2, <2>3, <2>4 DEF Timed, OnTime, Awake, Asleep
<1>3. ASSUME NEW i \in Items, NEW new, QuietTurn(i, new) \/ ReadTurn(i, new) \/ RelayTurn(i, new)
      PROVE  Timed'
  BY <1>3, TimedTurn
<1>4. CASE Advance
  <2>1. /\ now' \in Nat /\ now < now' /\ \A w \in Timers : now' <= w
        /\ UNCHANGED <<main, task, pub, trace>>
    BY <1>4, AdvanceShape DEF Advance
  <2>2. /\ Asleep(main) => main.wake \in Timers
        /\ Asleep(pub) => pub.wake \in Timers
        /\ \A i \in Items : Asleep(task[i]) => task[i].wake \in Timers
    BY TimersOf
  <2>3. Awake(main)' /\ Awake(pub)' /\ \A i \in Items : Awake(task[i])'
    BY <2>1, <2>2 DEF Awake, Asleep
  <2>4. \A i \in Items : OnTime(task[i], i)'
    BY <2>1 DEF Timed, OnTime
  <2>5. \A k \in DOMAIN trace' : trace'[k].at <= now'
    <3>1. now \in Nat /\ trace \in Seq(Row) /\ \A k \in DOMAIN trace : trace[k].at <= now
      BY DEF Base, Typed, Timed
    <3>2. \A k \in DOMAIN trace : trace[k].at \in Nat
      BY <3>1, ElementOfSeq DEF Row
    <3> QED BY <2>1, <3>1, <3>2
  <2> QED BY <2>3, <2>4, <2>5 DEF Timed
<1>5. CASE UNCHANGED vars
  BY <1>5 DEF vars, Timed, OnTime, Awake, Asleep
<1> QED BY <1>1, <1>2, <1>3, <1>4, <1>5, Turns

-----------------------------------------------------------------------------
(* What is read, and what is counted of it, changes with a read's last     *)
(* sleep only.                                                             *)

ReadEnds == \E i \in Items : \E new : ReadTurn(i, new)

LEMMA ReadsStay ==
  ASSUME Base, [Next]_vars, ~ReadEnds
  PROVE  /\ \A j \in Items : Read(j)' <=> Read(j)
         /\ \A j \in Items : Read(j) => task'[j].from = task[j].from /\ task'[j].opened = task[j].opened
         /\ UNCHANGED <<ledger.edges, ledger.transfer, ledger.origin>>
         /\ \E w : Grows(w, {})
<1>0. trace \in Seq(Row) /\ ledger \in Ledgers
  BY DEF Base, Typed
<1>1. CASE task' = task /\ (\E w : Grows(w, {})) /\ UNCHANGED <<ledger.edges, ledger.transfer, ledger.origin>>
  BY <1>1 DEF Read
<1>2. CASE MainTurn
  <2>1. /\ (\E w : Grows(w, {})) /\ UNCHANGED <<ledger.edges, ledger.transfer, ledger.origin>>
        /\ task' = task \/ (Preparing /\ \A j \in Items : task'[j].pc = "created")
    BY <1>2 DEF MainTurn
  <2>2. CASE Preparing /\ \A j \in Items : task'[j].pc = "created"
    <3>1. \A j \in Items : ~Read(j) /\ ~Read(j)'
      BY <2>2 DEF Base, Places, Read
    <3> QED BY <2>1, <3>1
  <2> QED BY <1>1, <2>1, <2>2
<1>3. CASE PublicationTurn
  BY <1>1, <1>3 DEF PublicationTurn
<1>4. ASSUME NEW i \in Items, NEW new, QuietTurn(i, new)
      PROVE  /\ \A j \in Items : Read(j)' <=> Read(j)
             /\ \A j \in Items : Read(j) => task'[j].from = task[j].from /\ task'[j].opened = task[j].opened
             /\ UNCHANGED <<ledger.edges, ledger.transfer, ledger.origin>>
             /\ \E w : Grows(w, {})
  <2>1. /\ Turned(i, new) /\ Grows({}, {}) /\ ledger' = ledger
        /\ ~Read(i) /\ new.pc \notin {"keeping", "done"}
    BY <1>4 DEF QuietTurn, Read
  <2>2. task'[i] = new /\ \A j \in Items : j # i => task'[j] = task[j]
    BY <2>1, OthersStay
  <2> QED BY <2>1, <2>2 DEF Read
<1>5. ASSUME NEW i \in Items, NEW new, RelayTurn(i, new)
      PROVE  /\ \A j \in Items : Read(j)' <=> Read(j)
             /\ \A j \in Items : Read(j) => task'[j].from = task[j].from /\ task'[j].opened = task[j].opened
             /\ UNCHANGED <<ledger.edges, ledger.transfer, ledger.origin>>
             /\ \E w : Grows(w, {})
  <2>1. /\ Turned(i, new) /\ (\E w : Grows(w, {}))
        /\ ledger' = ledger \/ ledger' = Finished(i, ledger)
        /\ Read(i) /\ new.pc \in {"keeping", "done"}
        /\ new.from = task[i].from /\ new.opened = task[i].opened
    BY <1>5 DEF RelayTurn, Read
  <2>2. task'[i] = new /\ \A j \in Items : j # i => task'[j] = task[j]
    BY <2>1, OthersStay
  <2>3. UNCHANGED <<ledger.edges, ledger.transfer, ledger.origin>>
    BY <1>0, <2>1, FinishedFields
  <2> QED BY <2>1, <2>2, <2>3 DEF Read
<1>6. CASE Advance
  <2>1. Grows({}, {}) /\ UNCHANGED <<task, ledger>>
    BY <1>6, AdvanceShape DEF Advance
  <2> QED BY <1>1, <2>1
<1>7. CASE UNCHANGED vars
  <2>1. Grows({}, {}) /\ UNCHANGED <<task, ledger>>
    BY <1>0, <1>7, GrowsNot DEF vars
  <2> QED BY <1>1, <2>1
<1> QED BY <1>2, <1>3, <1>4, <1>5, <1>6, <1>7, Turns DEF ReadEnds

(* The turn that ends a read.                                              *)
LEMMA ReadEnding ==
  ASSUME Base, NEW i \in Items, NEW new, ReadTurn(i, new)
  PROVE  /\ task'[i] = new /\ \A j \in Items : j # i => task'[j] = task[j]
         /\ ~Read(i) /\ Read(i)' /\ Grows({}, {i})
         /\ new.from = task[i].from /\ new.opened = task[i].opened /\ new.from \in Volumes
         /\ ledger'.transfer = ledger.transfer + Bytes
         /\ ledger'.edges = Append(ledger.edges, <<new.from, i>>)
         /\ ledger'.origin = ledger.origin + (IF new.from \in Origins THEN Bytes ELSE 0)
<1>1. /\ Turned(i, new) /\ ~Read(i) /\ new.pc \in {"keeping", "done"} /\ Grows({}, {i})
      /\ new.from = task[i].from /\ new.opened = task[i].opened /\ new.from \in Volumes
      /\ \/ ledger' = Transferred(ledger, i, new.from)
         \/ ledger' = Finished(i, Transferred(ledger, i, new.from))
  BY DEF ReadTurn, Read
<1>2. task'[i] = new /\ \A j \in Items : j # i => task'[j] = task[j]
  BY <1>1, OthersStay
<1>3. Read(i)'
  BY <1>1, <1>2 DEF Read
<1> DEFINE l == Transferred(ledger, i, new.from)
<1>4. /\ l \in Ledgers /\ l.transfer = ledger.transfer + Bytes
      /\ l.edges = Append(ledger.edges, <<new.from, i>>)
      /\ l.origin = ledger.origin + (IF new.from \in Origins THEN Bytes ELSE 0)
  <2>1. ledger \in Ledgers /\ i \in Volumes
    BY DEF Base, Typed, Volumes
  <2> DEFINE from == new.from
  <2>2. from \in Volumes
    BY <1>1
  <2> HIDE DEF from
  <2>3. LET t == Transferred(ledger, i, from)
        IN  /\ t \in Ledgers /\ t.transfer = ledger.transfer + Bytes
            /\ t.edges = Append(ledger.edges, <<from, i>>)
            /\ t.origin = ledger.origin + (IF from \in Origins THEN Bytes ELSE 0)
    BY <2>1, <2>2, TransferredFields
  <2> QED BY <2>3 DEF from
<1>5. ledger' = l \/ ledger' = Finished(i, l)
  BY <1>1
<1> HIDE DEF l
<1>6. ledger'.transfer = l.transfer /\ ledger'.edges = l.edges /\ ledger'.origin = l.origin
  BY <1>4, <1>5, FinishedFields
<1> QED BY <1>1, <1>2, <1>3, <1>4, <1>6

LEMMA OnPriceInit ==
  ASSUME Init
  PROVE  OnPrice
<1>1. \A i \in Items : ~Read(i)
  BY DEF Init, Idle, Read
<1>2. \A i : FetchesIn(trace, i) = {}
  BY DEF Init, FetchesIn
<1> QED BY <1>1, <1>2 DEF OnPrice

LEMMA OnPriceStep ==
  ASSUME Base, Timed, OnPrice, [Next]_vars
  PROVE  OnPrice'
<1> DEFINE Price(i, th) == th.opened + ReadTime(th.from, i, Bytes)
<1>1. ASSUME NEW j \in Items, Read(j)' <=> Read(j), FetchesIn(trace', j) = FetchesIn(trace, j),
             Read(j) => task'[j].from = task[j].from /\ task'[j].opened = task[j].opened,
             NEW w, NEW f, Grows(w, f)
      PROVE  IF Read(j)' THEN \E k \in DOMAIN trace' : /\ FetchesIn(trace', j) = {k}
                                                       /\ trace'[k].at = Price(j, task'[j])
             ELSE FetchesIn(trace', j) = {}
  <2>1. CASE Read(j)
    <3>1. PICK k \in DOMAIN trace : FetchesIn(trace, j) = {k} /\ trace[k].at = Price(j, task[j])
      BY <2>1 DEF OnPrice
    <3>2. k \in DOMAIN trace' /\ trace'[k] = trace[k]
      BY <1>1 DEF Grows
    <3> QED BY <1>1, <2>1, <3>1, <3>2
  <2>2. CASE ~Read(j)
    BY <1>1, <2>2 DEF OnPrice
  <2> QED BY <2>1, <2>2
<1>2. CASE ~ReadEnds
  <2>1. /\ \A j \in Items : Read(j)' <=> Read(j)
        /\ \A j \in Items : Read(j) => task'[j].from = task[j].from /\ task'[j].opened = task[j].opened
        /\ \E w : Grows(w, {})
    BY <1>2, ReadsStay
  <2>2. \A j : FetchesIn(trace', j) = FetchesIn(trace, j)
    BY <2>1 DEF Grows
  <2> HIDE DEF Price
  <2>3. \A j \in Items :
           IF Read(j)' THEN \E k \in DOMAIN trace' : /\ FetchesIn(trace', j) = {k}
                                                     /\ trace'[k].at = Price(j, task'[j])
           ELSE FetchesIn(trace', j) = {}
    BY <1>1, <2>1, <2>2
  <2> QED BY <2>3 DEF OnPrice, Price, FetchesIn
<1>3. ASSUME NEW i \in Items, NEW new, ReadTurn(i, new) PROVE OnPrice'
  <2>1. /\ task'[i] = new /\ \A j \in Items : j # i => task'[j] = task[j]
        /\ ~Read(i) /\ Read(i)' /\ Grows({}, {i})
        /\ new.from = task[i].from /\ new.opened = task[i].opened
    BY <1>3, ReadEnding
  <2>2. PICK k \in DOMAIN trace' : /\ FetchesIn(trace', i) = FetchesIn(trace, i) \cup {k}
                                   /\ trace'[k].at = now
    BY <2>1 DEF Grows
  <2>3. FetchesIn(trace', i) = {k}
    BY <2>1, <2>2 DEF OnPrice
  <2>4. now = Price(i, task'[i])
    <3>1. task[i].pc = "getting" /\ task[i].wake <= now /\ Owed(task[i].sleeps) = 0
      BY <1>3 DEF ReadTurn
    <3>2. now <= task[i].wake /\ task[i].wake \in Nat /\ now \in Nat
      BY <3>1 DEF Timed, Awake, Asleep, Base, Typed, Tasks
    <3>3. task[i].wake + Owed(task[i].sleeps) = Price(i, task[i])
      BY <3>1 DEF Timed, OnTime
    <3>4. task[i].wake = now
      BY <3>1, <3>2
    <3> QED BY <2>1, <3>1, <3>2, <3>3, <3>4
  <2>5. ASSUME NEW j \in Items, j # i
        PROVE  FetchesIn(trace', j) = FetchesIn(trace, j) /\ (Read(j)' <=> Read(j))
    BY <2>1, <2>5 DEF Grows, Read
  <2>6. trace'[k].at = Price(i, task'[i])
    BY <2>2, <2>4
  <2> HIDE DEF Price
  <2>7. ASSUME NEW j \in Items
        PROVE  IF Read(j)' THEN \E m \in DOMAIN trace' : /\ FetchesIn(trace', j) = {m}
                                                         /\ trace'[m].at = Price(j, task'[j])
               ELSE FetchesIn(trace', j) = {}
    <3>1. CASE j = i
      BY <2>1, <2>2, <2>3, <2>6, <3>1
    <3>2. CASE j # i
      BY <1>1, <2>1, <2>5, <3>2
    <3> QED BY <3>1, <3>2
  <2> QED BY <2>7 DEF OnPrice, Price, FetchesIn
<1> QED BY <1>2, <1>3 DEF ReadEnds

LEMMA OnRecordInit ==
  ASSUME Init
  PROVE  OnRecord
<1>1. \A i \in Items : \A op : ~Over(task[i], op)
  BY DEF Init, Idle, Over
<1> DEFINE row == [i \in Items |-> 0]
<1>2. row \in [Items -> Nat] /\ \A op : OwnRows(row, op)
  BY <1>1 DEF OwnRows
<1> HIDE DEF row
<1> QED BY <1>2 DEF OnRecord

(* Rows stay where they are, and a charge that a step ends brings its own. *)
LEMMA OwnRowsBy ==
  ASSUME trace \in Seq(Row), NEW w, NEW f, Grows(w, f), run' = run,
         NEW op \in Serving, NEW row \in [Items -> Nat], OwnRows(row, op), NEW i \in Items,
         \A j \in Items : Over(task[j], op)' /\ (j = i => Over(task[i], op)) =>
            /\ Over(task[j], op)
            /\ task'[j].from = task[j].from /\ task'[j].opened = task[j].opened,
         Over(task[i], op)' /\ ~Over(task[i], op) =>
            \E k \in ServingRows(task[i].from, op, EndedAt(i, op))' : k \notin DOMAIN trace
  PROVE  \E new \in [Items -> Nat] : OwnRows(new, op)'
<1>1. trace' \in Seq(Row) /\ \A k \in DOMAIN trace : k \in DOMAIN trace' /\ trace'[k] = trace[k]
  BY DEF Grows
<1>2. DOMAIN trace' \in SUBSET Nat
  BY <1>1
<1>3. ASSUME NEW v, NEW t, NEW k \in ServingRows(v, op, t)
      PROVE  k \in ServingRows(v, op, t)' /\ k \in DOMAIN trace
  BY <1>1 DEF ServingRows
<1>4. ASSUME NEW j \in Items, task'[j].from = task[j].from, task'[j].opened = task[j].opened
      PROVE  EndedAt(j, op)' = EndedAt(j, op)
  BY <1>4 DEF EndedAt
<1>5. ASSUME NEW j \in Items, Over(task[j], op)', j = i => Over(task[i], op)
      PROVE  /\ Over(task[j], op) /\ row[j] \in DOMAIN trace
             /\ row[j] \in ServingRows(task[j].from, op, EndedAt(j, op))'
  <2>1. Over(task[j], op) /\ task'[j].from = task[j].from /\ task'[j].opened = task[j].opened
    BY <1>5
  <2>2. row[j] \in ServingRows(task[j].from, op, EndedAt(j, op))
    BY <2>1 DEF OwnRows
  <2> DEFINE v == task[j].from
             t == EndedAt(j, op)
  <2>3. task'[j].from = v /\ EndedAt(j, op)' = t
    BY <1>4, <2>1
  <2> HIDE DEF v, t
  <2>4. row[j] \in ServingRows(v, op, t)
    BY <2>2 DEF v, t
  <2>5. \E k \in DOMAIN trace' : row[j] = k /\ k \in DOMAIN trace /\ /\ trace'[k].kind \in {"store", "mem"}
           /\ trace'[k].what.op = op /\ trace'[k].what.from = v /\ trace'[k].at = t
    BY <1>1, <2>4 DEF ServingRows
  <2> QED BY <2>1, <2>3, <2>5 DEF ServingRows
<1>6. CASE Over(task[i], op)' /\ ~Over(task[i], op)
  <2>1. PICK k \in ServingRows(task[i].from, op, EndedAt(i, op))' : k \notin DOMAIN trace
    BY <1>6
  <2> DEFINE new == [row EXCEPT ![i] = k]
  <2>2. k \in Nat
    BY <1>2, <2>1 DEF ServingRows
  <2>3. new \in [Items -> Nat] /\ new[i] = k /\ \A j \in Items : j # i => new[j] = row[j]
    BY <2>2
  <2> HIDE DEF new
  <2>4. \A j \in Items : j # i /\ Over(task[j], op)' =>
           /\ Over(task[j], op) /\ new[j] = row[j] /\ new[j] # k
           /\ new[j] \in ServingRows(task[j].from, op, EndedAt(j, op))'
    BY <1>5, <2>1, <2>3
  <2>5. \A j \in Items : Over(task[j], op)' =>
           new[j] \in ServingRows(task[j].from, op, EndedAt(j, op))'
    <3> SUFFICES ASSUME NEW j \in Items, Over(task[j], op)'
                 PROVE  new[j] \in ServingRows(task[j].from, op, EndedAt(j, op))'
      OBVIOUS
    <3>1. CASE j = i
      BY <2>1, <2>3, <3>1
    <3>2. CASE j # i
      BY <2>4, <3>2
    <3> QED BY <3>1, <3>2
  <2>6. \A j, l \in Items : Over(task[j], op) /\ Over(task[l], op) /\ row[j] = row[l] => j = l
    BY DEF OwnRows
  <2>7. \A j, l \in Items : Over(task[j], op)' /\ Over(task[l], op)' /\ new[j] = new[l] => j = l
    BY <2>3, <2>4, <2>6
  <2>8. OwnRows(new, op)'
    BY <2>5, <2>7 DEF OwnRows
  <2> QED BY <2>3, <2>8
<1>7. CASE ~(Over(task[i], op)' /\ ~Over(task[i], op))
  <2>1. \A j \in Items : Over(task[j], op)' =>
           /\ Over(task[j], op) /\ row[j] \in ServingRows(task[j].from, op, EndedAt(j, op))'
    BY <1>5, <1>7
  <2>2. \A j, l \in Items : Over(task[j], op) /\ Over(task[l], op) /\ row[j] = row[l] => j = l
    BY DEF OwnRows
  <2>3. OwnRows(row, op)'
    BY <2>1, <2>2 DEF OwnRows
  <2> QED BY <2>3
<1> QED BY <1>6, <1>7

(* The row a sleep leaves is on time.                                      *)
LEMMA RowLeft ==
  ASSUME Base, Timed, NEW i \in Items, task[i].pc = "getting", task[i].wake <= now,
         UNCHANGED <<run, now>>, NEW op \in Serving, Ending(task[i].sleeps, op),
         task'[i].from = task[i].from, task'[i].opened = task[i].opened, Told(PartOf(op, task[i].from))
  PROVE  \E k \in ServingRows(task[i].from, op, EndedAt(i, op))' : k \notin DOMAIN trace
<1> DEFINE d == task[i].from
           s == task[i].sleeps
           p == PartOf(op, d)
<1>1. /\ d \in Volumes /\ s \in Tails(GetParts(i, d)) /\ i \in Volumes /\ Configured /\ now \in Nat
      /\ task[i].opened \in Nat /\ task[i].wake \in Nat
  BY DEF Base, Typed, Places, Placed, Stages, Staged, Tasks, Volumes
<1>2. task[i].wake = now /\ task[i].wake + Owed(s) = task[i].opened + ReadTime(d, i, Bytes)
  BY <1>1 DEF Timed, Awake, Asleep, OnTime
<1>3. Owed(s) + Lasts(op, i, d) = ReadTime(d, i, Bytes) /\ Owed(s) \in Nat
  <2>1. Ending(s, op)
    OBVIOUS
  <2> HIDE DEF s, d
  <2>2. Owed(s) + Lasts(op, i, d) = ReadTime(d, i, Bytes)
    BY <1>1, <2>1, GetLeft
  <2>3. Owed(s) \in Nat
    BY <1>1, GetSleep
  <2> QED BY <2>2, <2>3
<1>4. Lasts(op, i, d) \in Nat
  BY <1>1, CostNat DEF Lasts, EndsAfter, ChargeOf, ReadTime
<1>5. now = task[i].opened + Lasts(op, i, d)
  BY <1>1, <1>2, <1>3, <1>4
<1>6. EndedAt(i, op)' = now
  BY <1>5 DEF EndedAt, Lasts
<1>7. p.kind \in {"store", "mem"} /\ p.op = op /\ p.from = d
  BY DEF Serving, PartOf, GetRead, GetCopy, Part
<1>8. PICK k \in DOMAIN trace' :
         k \notin DOMAIN trace /\ trace'[k] = [at |-> now, kind |-> p.kind, what |-> p]
  BY DEF Told
<1>9. task'[i].from = d
  OBVIOUS
<1> HIDE DEF d, p
<1>10. trace'[k].kind = p.kind /\ trace'[k].what = p /\ trace'[k].at = now
  BY <1>8
<1>11. k \in ServingRows(task[i].from, op, EndedAt(i, op))'
  BY <1>6, <1>7, <1>8, <1>9, <1>10 DEF ServingRows
<1> QED BY <1>8, <1>11

LEMMA OnRecordStep ==
  ASSUME Base, Timed, OnRecord, [Next]_vars
  PROVE  OnRecord'
<1>0. trace \in Seq(Row)
  BY DEF Base, Typed
<1>1. ASSUME run' = run, NEW i \in Items, NEW w, NEW f, Grows(w, f),
             \A op \in Serving : \A j \in Items :
                Over(task[j], op)' /\ (j = i => Over(task[i], op)) =>
                   /\ Over(task[j], op)
                   /\ task'[j].from = task[j].from /\ task'[j].opened = task[j].opened,
             \A op \in Serving :
                ChargeOf(op) > 0 /\ Over(task[i], op)' /\ ~Over(task[i], op) =>
                   \E k \in ServingRows(task[i].from, op, EndedAt(i, op))' : k \notin DOMAIN trace
      PROVE  OnRecord'
  <2>1. ASSUME NEW op \in Serving, ChargeOf(op) > 0
        PROVE  \E row \in [Items -> Nat] : OwnRows(row, op)'
    <3>1. PICK row \in [Items -> Nat] : OwnRows(row, op)
      BY <2>1 DEF OnRecord
    <3>2. /\ \A j \in Items : Over(task[j], op)' /\ (j = i => Over(task[i], op)) =>
                /\ Over(task[j], op)
                /\ task'[j].from = task[j].from /\ task'[j].opened = task[j].opened
          /\ Over(task[i], op)' /\ ~Over(task[i], op) =>
                \E k \in ServingRows(task[i].from, op, EndedAt(i, op))' : k \notin DOMAIN trace
      BY <1>1, <2>1
    <3> QED BY <1>0, <1>1, <3>1, <3>2, OwnRowsBy
  <2> QED BY <2>1 DEF OnRecord, ChargeOf
<1>2. ASSUME run' = run, \E w, f : Grows(w, f), task' = task \/ \A j \in Items : task'[j].pc = "created"
      PROVE  OnRecord'
  <2>1. PICK i \in Items : TRUE
    BY RunAssumption
  <2>2. PICK w, f : Grows(w, f)
    BY <1>2
  <2>3. ASSUME NEW op \in Serving, NEW j \in Items, Over(task[j], op)'
        PROVE  /\ Over(task[j], op)
               /\ task'[j].from = task[j].from /\ task'[j].opened = task[j].opened
    BY <1>2, <2>3 DEF Over
  <2> QED BY <1>1, <1>2, <2>1, <2>2, <2>3
<1>3. CASE MainTurn
  BY <1>2, <1>3 DEF MainTurn
<1>4. CASE PublicationTurn
  BY <1>2, <1>4 DEF PublicationTurn
<1>5. ASSUME NEW i \in Items, NEW new, QuietTurn(i, new) \/ ReadTurn(i, new) \/ RelayTurn(i, new)
      PROVE  OnRecord'
  <2>1. Turned(i, new) /\ UNCHANGED <<run, now>> /\ \E w, f : Grows(w, f)
    BY <1>5 DEF QuietTurn, ReadTurn, RelayTurn
  <2>2. task'[i] = new /\ \A j \in Items : j # i => task'[j] = task[j]
    BY <2>1, OthersStay
  <2>3. PICK w, f : Grows(w, f)
    BY <2>1
  <2>4. ASSUME NEW op \in Serving, NEW j \in Items, j # i, Over(task[j], op)'
        PROVE  /\ Over(task[j], op)
               /\ task'[j].from = task[j].from /\ task'[j].opened = task[j].opened
    BY <2>1, <2>2, <2>4 DEF Over
  <2>7. ASSUME NEW op \in Serving, Over(task[i], op)', QuietTurn(i, new)
        PROVE  /\ new.pc = "getting" /\ ~run.config.collapse_charges
               /\ Len(new.sleeps) < Place(op) /\ Len(new.sleeps) # 3
    <3>1. new.pc = "getting" /\ ~run.config.collapse_charges /\ Len(new.sleeps) < Place(op)
      BY <2>1, <2>2, <2>7 DEF Over, QuietTurn
    <3>2. Place(op) = 2 \/ Place(op) = 3
      BY DEF Place
    <3>3. Len(new.sleeps) \in Nat
      BY <2>1 DEF Tasks, Sleepings, Turned
    <3> DEFINE n == Len(new.sleeps)
               p == Place(op)
    <3>4. n \in Nat /\ n < p /\ (p = 2 \/ p = 3)
      BY <3>1, <3>2, <3>3
    <3> HIDE DEF n, p
    <3>5. n # 3
      BY <3>4
    <3> QED BY <3>1, <3>5 DEF n
  <2>5. ASSUME NEW op \in Serving, Over(task[i], op)', Over(task[i], op)
        PROVE  task'[i].from = task[i].from /\ task'[i].opened = task[i].opened
    <3>1. CASE QuietTurn(i, new)
      <4>1. new.pc = "getting" /\ ~run.config.collapse_charges /\ Len(new.sleeps) # 3
        BY <2>5, <2>7, <3>1
      <4>2. new.from = task[i].from /\ new.opened = task[i].opened
        BY <3>1, <4>1 DEF QuietTurn
      <4> QED BY <2>2, <4>2
    <3>2. CASE ReadTurn(i, new) \/ RelayTurn(i, new)
      BY <2>2, <3>2 DEF ReadTurn, RelayTurn
    <3> QED BY <1>5, <3>1, <3>2
  <2>6. ASSUME NEW op \in Serving, ChargeOf(op) > 0, Over(task[i], op)', ~Over(task[i], op)
        PROVE  \E k \in ServingRows(task[i].from, op, EndedAt(i, op))' : k \notin DOMAIN trace
    <3>1. /\ Len(task[i].sleeps) \in Nat /\ Len(new.sleeps) \in Nat /\ Place(op) \in {2, 3}
      BY <2>1 DEF Base, Typed, Tasks, Sleepings, Turned, Place
    <3>2. \/ new.pc \in {"keeping", "done"}
          \/ new.pc = "getting" /\ ~run.config.collapse_charges /\ Len(new.sleeps) < Place(op)
      BY <2>1, <2>2, <2>6 DEF Over
    <3>3. task[i].pc \notin {"keeping", "done"}
      BY <2>6 DEF Over
    <3>4. /\ task[i].pc = "getting" /\ task[i].wake <= now /\ Leaves(i)
          /\ new.from = task[i].from /\ new.opened = task[i].opened
          /\ \/ Len(task[i].sleeps) = 1
             \/ ~run.config.collapse_charges /\ Len(task[i].sleeps) <= Place(op)
      <4>1. CASE QuietTurn(i, new)
        <5>1. /\ new.pc = "getting" /\ ~run.config.collapse_charges
              /\ Len(new.sleeps) < Place(op) /\ Len(new.sleeps) # 3
          BY <2>6, <2>7, <4>1
        <5>3. /\ task[i].pc = "getting" /\ task[i].wake <= now /\ Leaves(i)
              /\ new.from = task[i].from /\ new.opened = task[i].opened
              /\ Len(new.sleeps) + 1 = Len(task[i].sleeps)
          BY <4>1, <5>1 DEF QuietTurn
        <5> QED BY <3>1, <5>1, <5>3
      <4>2. CASE ReadTurn(i, new)
        BY <4>2 DEF ReadTurn, Arrived
      <4>3. CASE RelayTurn(i, new)
        BY <3>3, <4>3 DEF RelayTurn
      <4> QED BY <1>5, <4>1, <4>2, <4>3
    <3>5. Ending(task[i].sleeps, op)
      <4>1. ~run.config.collapse_charges => ~(Len(task[i].sleeps) < Place(op))
        BY <2>6, <3>4 DEF Over
      <4>2. CASE run.config.collapse_charges
        BY <3>4, <4>2 DEF Ending
      <4>3. CASE ~run.config.collapse_charges
        <5> DEFINE n == Len(task[i].sleeps)
                   m == Place(op)
        <5>1. n \in Nat /\ m \in {2, 3} /\ ~(n < m) /\ (n = 1 \/ n <= m)
          BY <3>1, <3>4, <4>1, <4>3
        <5> HIDE DEF n, m
        <5>2. n = m
          BY <5>1
        <5> QED BY <4>3, <5>2 DEF Ending, n, m
      <4> QED BY <4>2, <4>3
    <3>6. Told(PartOf(op, task[i].from))
      BY <2>6, <3>4, <3>5 DEF Leaves
    <3> QED BY <2>1, <2>2, <3>4, <3>5, <3>6, RowLeft
  <2> QED BY <1>1, <2>1, <2>3, <2>4, <2>5, <2>6
<1>6. CASE Advance
  <2>1. Grows({}, {}) /\ UNCHANGED <<run, task>>
    BY <1>6, AdvanceShape DEF Advance
  <2> QED BY <1>2, <2>1
<1>7. CASE UNCHANGED vars
  <2>1. Grows({}, {}) /\ UNCHANGED <<run, task>>
    BY <1>0, <1>7, GrowsNot DEF vars
  <2> QED BY <1>2, <2>1
<1> QED BY <1>3, <1>4, <1>5, <1>6, <1>7, Turns

LEMMA CountedInit ==
  ASSUME Init
  PROVE  Counted
<1>1. { j \in Items : Read(j) } = {}
  BY DEF Init, Idle, Read
<1>2. ledger.edges = <<>> /\ ledger.transfer = 0 /\ ledger.origin = 0
  BY DEF Init, NewLedger
<1>3. { j \in Items : Read(j) /\ task[j].from \in Origins } = {}
  BY <1>1
<1>4. Bytes * 0 = 0
  BY RunAssumption DEF Bytes
<1>5. Range(ledger.edges) = {} /\ Len(ledger.edges) = 0
  BY <1>2 DEF Range
<1> QED BY <1>1, <1>2, <1>3, <1>4, <1>5, FS_EmptySet DEF Counted

LEMMA RangeOfAppend ==
  ASSUME NEW S, NEW s \in Seq(S), NEW e \in S
  PROVE  Range(Append(s, e)) = Range(s) \cup {e} /\ Len(Append(s, e)) = Len(s) + 1
<1>1. /\ Append(s, e) \in Seq(S) /\ Len(Append(s, e)) = Len(s) + 1
      /\ \A k \in 1 .. Len(s) : Append(s, e)[k] = s[k]
      /\ Append(s, e)[Len(s) + 1] = e
  BY AppendProperties
<1>2. DOMAIN s = 1 .. Len(s) /\ DOMAIN Append(s, e) = 1 .. Len(s) + 1 /\ Len(s) \in Nat
  BY <1>1
<1>3. \A k \in 1 .. Len(s) + 1 : k \in 1 .. Len(s) \/ k = Len(s) + 1
  BY <1>2
<1>4. 1 .. Len(s) \subseteq 1 .. Len(s) + 1 /\ Len(s) + 1 \in 1 .. Len(s) + 1
  BY <1>2
<1> DEFINE t == Append(s, e)
<1> HIDE DEF t
<1>5. Range(t) = Range(s) \cup {e}
  BY <1>1, <1>2, <1>3, <1>4 DEF Range, t
<1> QED BY <1>1, <1>5 DEF t

LEMMA CountedStep ==
  ASSUME Base, Counted, [Next]_vars
  PROVE  Counted'
<1>1. CASE ~ReadEnds
  <2>1. /\ \A j \in Items : Read(j)' <=> Read(j)
        /\ \A j \in Items : Read(j) => task'[j].from = task[j].from
        /\ UNCHANGED <<ledger.edges, ledger.transfer, ledger.origin>>
    BY <1>1, ReadsStay
  <2>2. { j \in Items : Read(j)' } = { j \in Items : Read(j) }
    BY <2>1
  <2>3. { j \in Items : Read(j)' /\ task'[j].from \in Origins }
           = { j \in Items : Read(j) /\ task[j].from \in Origins }
    BY <2>1
  <2>4. { <<task'[i].from, i>> : i \in { j \in Items : Read(j)' } }
           = { <<task[i].from, i>> : i \in { j \in Items : Read(j) } }
    BY <2>1
  <2> QED BY <2>1, <2>2, <2>3, <2>4 DEF Counted
<1>2. ASSUME NEW i \in Items, NEW new, ReadTurn(i, new) PROVE Counted'
  <2>1. /\ task'[i] = new /\ \A j \in Items : j # i => task'[j] = task[j]
        /\ ~Read(i) /\ Read(i)'
        /\ new.from = task[i].from /\ new.from \in Volumes
        /\ ledger'.transfer = ledger.transfer + Bytes
        /\ ledger'.edges = Append(ledger.edges, <<new.from, i>>)
        /\ ledger'.origin = ledger.origin + (IF new.from \in Origins THEN Bytes ELSE 0)
    BY <1>2, ReadEnding
  <2> DEFINE R == { j \in Items : Read(j) }
             O == { j \in Items : Read(j) /\ task[j].from \in Origins }
             R1 == { j \in Items : Read(j)' }
             O1 == { j \in Items : Read(j)' /\ task'[j].from \in Origins }
  <2>2. \A j \in Items : j # i => (Read(j)' <=> Read(j))
    BY <2>1 DEF Read
  <2>3. i \notin R /\ i \notin O /\ R1 = R \cup {i}
        /\ O1 = IF new.from \in Origins THEN O \cup {i} ELSE O
    BY <2>1, <2>2
  <2>4. { <<task'[j].from, j>> : j \in R1 } = { <<task[j].from, j>> : j \in R } \cup {<<new.from, i>>}
    <3>1. \A j \in R : task'[j] = task[j]
      BY <2>1
    <3> HIDE DEF R, R1
    <3> QED BY <2>1, <2>3, <3>1
  <2>5. ledger.edges \in Seq(Volumes \X Volumes) /\ <<new.from, i>> \in Volumes \X Volumes
    BY <2>1 DEF Base, Typed, Ledgers, Volumes
  <2>6. Range(ledger'.edges) = Range(ledger.edges) \cup {<<new.from, i>>}
        /\ Len(ledger'.edges) = Len(ledger.edges) + 1
    <3> DEFINE s == ledger.edges
               e == <<new.from, i>>
               S == Volumes \X Volumes
    <3>1. s \in Seq(S) /\ e \in S /\ ledger'.edges = Append(s, e)
      BY <2>1, <2>5
    <3> HIDE DEF s, e, S
    <3>2. Range(Append(s, e)) = Range(s) \cup {e} /\ Len(Append(s, e)) = Len(s) + 1
      BY <3>1, RangeOfAppend
    <3> QED BY <3>1, <3>2 DEF s, e
  <2>7. IsFiniteSet(R) /\ IsFiniteSet(O)
    <3>1. IsFiniteSet(Items) /\ R \subseteq Items /\ O \subseteq Items
      BY RunAssumption
    <3> QED BY <3>1, FS_Subset
  <2>8. /\ Range(ledger.edges) = { <<task[j].from, j>> : j \in R }
        /\ ledger.transfer = Bytes * Len(ledger.edges)
        /\ Len(ledger.edges) = Cardinality(R)
        /\ ledger.origin = Bytes * Cardinality(O)
    BY DEF Counted
  <2>9. Bytes \in Nat
    BY RunAssumption DEF Bytes
  <2> HIDE DEF R, O, R1, O1
  <2>10. Cardinality(R) \in Nat /\ Cardinality(O) \in Nat
    BY <2>7, FS_CardinalityType
  <2>11. Cardinality(R \cup {i}) = Cardinality(R) + 1 /\ Cardinality(O \cup {i}) = Cardinality(O) + 1
    BY <2>3, <2>7, FS_AddElement
  <2>12. \A n \in Nat : Bytes * (n + 1) = Bytes * n + Bytes /\ Bytes * n + 0 = Bytes * n
    BY <2>9
  <2>13. ledger'.transfer = Bytes * Len(ledger'.edges)
    BY <2>1, <2>6, <2>8, <2>10, <2>12
  <2>14. ledger'.origin = Bytes * Cardinality(O1)
    BY <2>1, <2>3, <2>8, <2>10, <2>11, <2>12
  <2>15. Len(ledger'.edges) = Cardinality(R1)
    BY <2>3, <2>6, <2>8, <2>11
  <2>16. Range(ledger'.edges) = { <<task'[j].from, j>> : j \in R1 }
    BY <2>4, <2>6, <2>8
  <2> QED BY <2>13, <2>14, <2>15, <2>16 DEF Counted, R1, O1
<1> QED BY <1>1, <1>2 DEF ReadEnds

(* Everything but the payments and the outcome rows.                       *)
LEMMA ReadInvariant == Spec => [](Base /\ Timed /\ OnPrice /\ OnRecord /\ Counted)
<1>1. Init => Base /\ Timed /\ OnPrice /\ OnRecord /\ Counted
  BY BaseInit, TimedInit, OnPriceInit, OnRecordInit, CountedInit
<1>2. Base /\ Timed /\ OnPrice /\ OnRecord /\ Counted /\ [Next]_vars
         => (Base /\ Timed /\ OnPrice /\ OnRecord /\ Counted)'
  BY BaseStep, TimedStep, OnPriceStep, OnRecordStep, CountedStep
<1> QED BY <1>1, <1>2, PTL DEF Spec

(* A read takes what a scheduler predicts it to take, and each charge of   *)
(* the serving volume leaves a row of its own when it is over, for any     *)
(* machine, any locality and any configuration, whatever runs between its  *)
(* sleeps.                                                                 *)
THEOREM PriceKept == Spec => []PriceHolds
<1>1. ASSUME Base, OnPrice, OnRecord PROVE PriceHolds
  <2>1. ASSUME NEW i \in Items, NEW k \in Fetches(i)
        PROVE  trace[k].at = task[i].opened + ReadTime(task[i].from, i, Bytes)
    BY <1>1, <2>1, RowSets DEF OnPrice
  <2>2. ASSUME NEW i \in Shipped PROVE i \in Items /\ \A op : Over(task[i], op)
    BY <1>1, <2>2, RowSets DEF Shipped, OnPrice, Read, Over
  <2>3. ASSUME NEW op \in Serving, ChargeOf(op) > 0, NEW v, NEW t
        PROVE  Cardinality({j \in Shipped : task[j].from = v /\ EndedAt(j, op) = t})
                  <= Cardinality(ServingRows(v, op, t))
    <3> DEFINE S == {j \in Shipped : task[j].from = v /\ EndedAt(j, op) = t}
               T == ServingRows(v, op, t)
    <3>1. PICK row \in [Items -> Nat] : OwnRows(row, op)
      BY <1>1, <2>3 DEF OnRecord
    <3>2. \A j \in S : j \in Items /\ Over(task[j], op) /\ row[j] \in T
      BY <2>2, <3>1 DEF OwnRows
    <3>3. IsFiniteSet(T)
      <4>1. T \subseteq 1 .. Len(trace) /\ Len(trace) \in Nat
        BY <1>1 DEF ServingRows, Base, Typed
      <4>2. IsFiniteSet(1 .. Len(trace))
        BY <4>1, FS_Interval
      <4> QED BY <4>1, <4>2, FS_Subset
    <3> DEFINE own == [j \in S |-> row[j]]
    <3>4. own \in Injection(S, T)
      <4>1. \A j, l \in S : row[j] = row[l] => j = l
        BY <3>1, <3>2 DEF OwnRows
      <4> HIDE DEF S, T
      <4> QED BY <3>2, <4>1 DEF Injection, IsInjective
    <3> HIDE DEF S, T, own
    <3>5. Cardinality(S) <= Cardinality(T)
      BY <3>3, <3>4, FS_Injection
    <3> QED BY <3>5 DEF S, T
  <2> QED BY <2>1, <2>2, <2>3 DEF PriceHolds
<1>2. Base /\ OnPrice /\ OnRecord => PriceHolds
  BY <1>1
<1> QED BY <1>2, ReadInvariant, PTL

(* The ledger has one edge for each read whose bytes have arrived, from    *)
(* the volume the directory or the route named to the client that asked.   *)
THEOREM LedgerKept == Spec => []LedgerTrue
<1>1. ASSUME OnPrice, Counted PROVE LedgerTrue
  <2>1. \A i \in Items : Fetches(i) # {} <=> Read(i)
    BY <1>1, RowSets DEF OnPrice
  <2>2. Shipped = { i \in Items : Read(i) }
    BY <2>1 DEF Shipped
  <2>3. { i \in Shipped : task[i].from \in Origins } = { j \in Items : Read(j) /\ task[j].from \in Origins }
    BY <2>2
  <2>4. \A i \in Items : task[i].pc \in {"keeping", "done"} => i \in Shipped
    BY <2>2 DEF Read
  <2> QED BY <1>1, <2>2, <2>3, <2>4 DEF Counted, LedgerTrue
<1>2. OnPrice /\ Counted => LedgerTrue
  BY <1>1
<1> QED BY <1>2, ReadInvariant, PTL

-----------------------------------------------------------------------------
(* Whose put has been paid for, and what has been read of it.              *)

Charged == StorageTime(Bytes, "write") > 0

(* A trainer's turn of putting is over.                                    *)
PutOver(k, turn, pc) == k < turn \/ (k = turn /\ pc \notin {"start", "generating", "putting"})

LEMMA PaidNext ==
  ASSUME run' = run, NEW v
  PROVE  Paid(v)' <=>
           \/ Direct /\ \E k \in 1 .. Len(Publishers) : Publishers[k] = v /\ PutOver(k, main'.turn, main'.pc)
           \/ ~Direct /\ v = Publishers[1] /\ pub'.pc = "done"
           \/ ~Direct /\ v \in Items /\ task'[v].pc = "done" /\ IsRelay(v)
<1>1. Direct' = Direct /\ Publishers' = Publishers /\ IsRelay(v)' = IsRelay(v)
  BY SameRun
<1> QED BY <1>1, Zenon DEF Paid, PutOver

LEMMA PaidNow ==
  ASSUME NEW v
  PROVE  Paid(v) <=>
           \/ Direct /\ \E k \in 1 .. Len(Publishers) : Publishers[k] = v /\ PutOver(k, main.turn, main.pc)
           \/ ~Direct /\ v = Publishers[1] /\ pub.pc = "done"
           \/ ~Direct /\ v \in Items /\ task[v].pc = "done" /\ IsRelay(v)
BY Zenon DEF Paid, PutOver

(* Nothing is paid for by a step that ends no put.                         *)
LEMMA PaidStays ==
  ASSUME run' = run,
         Direct => \A k \in 1 .. Len(Publishers) : PutOver(k, main'.turn, main'.pc) <=> PutOver(k, main.turn, main.pc),
         ~Direct => /\ pub'.pc = "done" <=> pub.pc = "done"
                    /\ \A i \in Items : IsRelay(i) => (task'[i].pc = "done" <=> task[i].pc = "done"),
         NEW v
  PROVE  Paid(v)' <=> Paid(v)
BY PaidNext, PaidNow

(* What holds of a source holds as more is paid for and more rows written. *)
LEMMA SettledBy ==
  ASSUME Base, Settled, NEW w, NEW f, Grows(w, f),
         \A v \in Volumes : Paid(v)' <=> Paid(v) \/ v \in w,
         \A v \in w : ~Paid(v)
  PROVE  /\ \A v \in Volumes : IF Paid(v)' THEN \E k \in DOMAIN trace' : WritesIn(trace', v) = {k}
                               ELSE WritesIn(trace', v) = {}
         /\ \A t \in Tasks : (t.pc \in {"located", "getting", "keeping", "done"} => t.from \in Volumes)
                               => (Sourced(t) => Sourced(t)')
<1>1. ASSUME NEW v \in Volumes
      PROVE  IF Paid(v)' THEN \E k \in DOMAIN trace' : WritesIn(trace', v) = {k}
             ELSE WritesIn(trace', v) = {}
  <2>1. CASE v \in w
    <3>1. PICK k \in DOMAIN trace' : WritesIn(trace', v) = WritesIn(trace, v) \cup {k}
      BY <2>1 DEF Grows
    <3>2. WritesIn(trace, v) = {} /\ Paid(v)'
      BY <2>1 DEF Settled
    <3> QED BY <3>1, <3>2
  <2>2. CASE v \notin w
    <3>1. WritesIn(trace', v) = WritesIn(trace, v) /\ (Paid(v)' <=> Paid(v))
      BY <2>2 DEF Grows
    <3>2. \A k \in DOMAIN trace : k \in DOMAIN trace'
      BY DEF Grows
    <3> QED BY <3>1, <3>2 DEF Settled
  <2> QED BY <2>1, <2>2
<1>2. ASSUME NEW v, NEW k \in WritesIn(trace, v)
      PROVE  k \in WritesIn(trace', v) /\ trace'[k] = trace[k]
  BY DEF Grows, WritesIn
<1>3. ASSUME NEW t \in Tasks, t.pc \in {"located", "getting", "keeping", "done"} => t.from \in Volumes,
             Sourced(t)
      PROVE  Sourced(t)'
  BY <1>2, <1>3 DEF Sourced
<1> QED BY <1>1, <1>3

(* An answered item has a source.                                          *)
LEMMA SourcesNamed ==
  ASSUME Base, NEW i \in Items
  PROVE  /\ task[i] \in Tasks
         /\ task[i].pc \in {"located", "getting", "keeping", "done"} => task[i].from \in Volumes
BY DEF Base, Typed, Places, Placed

LEMMA SettledInit ==
  ASSUME Init
  PROVE  Settled
<1>1. /\ main.pc = "start" /\ main.turn = 1 /\ pub.pc = "idle" /\ listed = <<>> /\ ready = {}
      /\ trace = <<>> /\ \A i \in Items : task[i].pc = "idle"
  BY DEF Init, Idle
<1>2. \A v : WritesIn(trace, v) = {}
  BY <1>1 DEF WritesIn
<1>3. \A v : ~Paid(v)
  <2>1. Len(Publishers) \in Nat
    BY BaseInit, PublishersType DEF Base, Typed
  <2>2. \A k \in 1 .. Len(Publishers) : ~PutOver(k, main.turn, main.pc)
    BY <1>1, <2>1 DEF PutOver
  <2> QED BY <1>1, <2>2, PaidNow
<1>4. Len(listed) = 0
  BY <1>1
<1> QED BY <1>1, <1>2, <1>3, <1>4 DEF Settled, Sourced

(* An item goes on as it was, or is told a source that has been paid for.  *)
Follows(old, new) ==
  \/ new = old
  \/ new.pc \notin {"located", "getting", "keeping", "done"}
  \/ /\ new.pc # "located" /\ old.pc \in {"getting", "keeping", "done"}
     /\ new.from = old.from /\ new.opened = old.opened
  \/ /\ new.pc \in {"located", "getting"} /\ new.from \in Volumes /\ Paid(new.from)
     /\ new.pc = "getting" => new.opened = now

LEMMA SettledMoves ==
  ASSUME Base, Timed, Settled, run' = run, NEW w, NEW f, Grows(w, f),
         \A v : Paid(v)' <=> Paid(v) \/ v \in w,
         \A v \in w : ~Paid(v),
         \A k \in 1 .. Len(listed') : Direct /\ \E v : v = listed'[k] /\ Paid(v),
         ~Direct => ready' \subseteq ready \cup w,
         \A i \in Items : Follows(task[i], task'[i])
  PROVE  Settled'
<1>2. /\ \A v \in Volumes : IF Paid(v)' THEN \E k \in DOMAIN trace' : WritesIn(trace', v) = {k}
                            ELSE WritesIn(trace', v) = {}
      /\ \A t \in Tasks : (t.pc \in {"located", "getting", "keeping", "done"} => t.from \in Volumes)
                            => (Sourced(t) => Sourced(t)')
  BY SettledBy
<1>3. \A v \in Volumes : \A k \in WritesIn(trace, v) :
         k \in WritesIn(trace', v) /\ trace'[k] = trace[k] /\ trace[k].at <= now
  BY DEF Grows, WritesIn, Timed
<1>4. ASSUME NEW i \in Items PROVE Sourced(task[i])'
  <2> DEFINE old == task[i]
  <2>1. /\ Sourced(old) /\ old \in Tasks
        /\ old.pc \in {"located", "getting", "keeping", "done"} => old.from \in Volumes
    BY SourcesNamed DEF Settled
  <2>2. CASE task'[i] = task[i]
    BY <1>2, <2>1, <2>2 DEF Sourced
  <2>3. CASE task'[i].pc \notin {"located", "getting", "keeping", "done"}
    BY <2>3 DEF Sourced
  <2>4. CASE /\ task'[i].pc # "located" /\ task[i].pc \in {"getting", "keeping", "done"}
             /\ task'[i].from = task[i].from /\ task'[i].opened = task[i].opened
    <3>1. Paid(old.from) /\ \E k \in WritesIn(trace, old.from) : trace[k].at <= old.opened
      BY <2>1, <2>4 DEF Sourced
    <3>2. Paid(old.from)'
      BY <1>2, <2>1, <2>4 DEF Sourced
    <3>3. \E k \in WritesIn(trace', old.from) : trace'[k].at <= old.opened
      BY <1>3, <2>1, <2>4, <3>1
    <3> QED BY <2>4, <3>2, <3>3 DEF Sourced
  <2>5. CASE /\ task'[i].pc \in {"located", "getting"} /\ task'[i].from \in Volumes /\ Paid(task'[i].from)
             /\ task'[i].pc = "getting" => task'[i].opened = now
    <3>1. PICK v \in Volumes : v = task'[i].from /\ Paid(v)
      BY <2>5
    <3>2. Paid(v)'
      BY <3>1
    <3>3. \E k \in WritesIn(trace', v) : trace'[k].at <= now
      <4>1. PICK k \in DOMAIN trace : WritesIn(trace, v) = {k}
        BY <3>1 DEF Settled
      <4> QED BY <1>3, <4>1
    <3> QED BY <2>5, <3>1, <3>2, <3>3 DEF Sourced
  <2>6. Follows(task[i], task'[i])
    OBVIOUS
  <2> QED BY <2>2, <2>3, <2>4, <2>5, <2>6 DEF Follows
<1>5. Direct' = Direct
  BY SameRun
<1>6. (\A k \in 1 .. Len(listed) : Direct /\ Paid(listed[k]))'
  BY <1>5
<1>7. (~Direct => \A v \in ready : Paid(v))'
  <2>1. ~Direct => \A v \in ready : Paid(v)
    BY DEF Settled
  <2> QED BY <1>5, <2>1
<1> QED BY <1>2, <1>4, <1>6, <1>7, Zenon DEF Settled

LEMMA ListedStay ==
  ASSUME Settled, listed' = listed
  PROVE  \A k \in 1 .. Len(listed') : Direct /\ \E v : v = listed'[k] /\ Paid(v)
BY DEF Settled

LEMMA SettledMain ==
  ASSUME Charged, Base, Timed, Settled, Main
  PROVE  Settled'
<1> DEFINE Same == \A k \in 1 .. Len(Publishers) : PutOver(k, main'.turn, main'.pc) <=> PutOver(k, main.turn, main.pc)
<1>1. MainTurn
  BY MainTurns
<1>2. /\ UNCHANGED <<run, now, pub, ready>>
      /\ task' = task \/ (Preparing /\ \A i \in Items : task'[i].pc = "created")
  BY <1>1 DEF MainTurn
<1>3. \A i \in Items : /\ Follows(task[i], task'[i])
                       /\ task'[i].pc = "done" <=> task[i].pc = "done"
  BY <1>2 DEF Follows, Base, Places
<1>4. main.turn \in Nat /\ Len(Publishers) \in Nat /\ main.turn \in 1 .. Len(Publishers)
      /\ Configured /\ main \in Drivers
  BY PublishersType DEF Base, Typed, Drivers
<1>5. ASSUME Direct => Same, NEW v PROVE Paid(v)' <=> Paid(v) \/ v \in {}
  BY <1>2, <1>3, <1>5, PaidStays
<1>6. ASSUME Direct => Same, Grows({}, {}), listed' = listed
      PROVE  Settled'
  <2>1. \A k \in 1 .. Len(listed') : Direct /\ \E v : v = listed'[k] /\ Paid(v)
    BY <1>6, ListedStay
  <2>2. \A v : Paid(v)' <=> Paid(v) \/ v \in {}
    BY <1>5, <1>6
  <2> HIDE DEF Same
  <2> QED BY <1>2, <1>3, <1>6, <2>1, <2>2, SettledMoves
<1>7. CASE Generate
  <2>1. main'.turn = main.turn /\ main'.pc = "generating" /\ main.pc = "start" /\ Grows({}, {})
    BY <1>7, GenerateShape DEF Generate
  <2>2. listed' = listed
    BY <1>7 DEF Generate
  <2> QED BY <1>6, <2>1, <2>2 DEF PutOver
<1>8. CASE PublishFirst
  <2>1. /\ main'.turn = main.turn /\ main'.pc = "putting" /\ main.pc \in {"start", "generating"}
        /\ Grows({}, {}) /\ listed' = listed
    BY <1>8, PublishFirstShape
  <2> QED BY <1>6, <2>1 DEF PutOver
<1>9. CASE PublishNext
  <2>1. /\ main'.turn = main.turn + 1 /\ main'.pc = "putting" /\ main.pc = "notified"
        /\ Grows({}, {}) /\ listed' = listed
    BY <1>9, PublishNextShape
  <2>2. \A k \in 1 .. Len(Publishers) : k < main.turn + 1 <=> k < main.turn \/ k = main.turn
    BY <1>4
  <2> QED BY <1>6, <2>1, <2>2 DEF PutOver
<1>10. CASE ReleaseItems
  <2>1. /\ main'.turn = main.turn /\ main'.pc = "gathering" /\ (Direct => main.pc = "notified")
        /\ Grows({}, {})
    BY <1>10, ReleaseItemsShape
  <2>2. listed' = listed
    BY <1>10 DEF ReleaseItems
  <2> QED BY <1>6, <2>1, <2>2 DEF PutOver
<1>11. CASE Gather
  <2>1. /\ main'.turn = main.turn /\ main'.pc \in {"returned", "raised"} /\ main.pc = "gathering"
        /\ Grows({}, {})
    BY <1>11, GatherShape
  <2>2. listed' = listed
    BY <1>11 DEF Gather
  <2> QED BY <1>6, <2>1, <2>2 DEF PutOver
<1>12. CASE Close
  <2>1. /\ main'.turn = main.turn /\ main'.pc = "closed" /\ main.pc \in {"returned", "raised"}
        /\ Grows({}, {})
    BY <1>12, CloseShape
  <2>2. listed' = listed
    BY <1>12 DEF Close
  <2> QED BY <1>6, <2>1, <2>2 DEF PutOver
<1>13. CASE PutListed
  <2>1. /\ main'.turn = main.turn /\ main'.pc = "notified" /\ main.pc = "notifying" /\ Grows({}, {})
        /\ Len(listed') = Len(listed) + 1
        /\ \A k \in 1 .. Len(listed) : listed'[k] = listed[k]
        /\ listed'[Len(listed) + 1] = Publishers[main.turn]
    BY <1>13, PutListedShape
  <2>2. Direct
    BY <2>1 DEF Base, Places, Putting
  <2>3. Paid(Publishers[main.turn])
    BY <1>4, <2>1, <2>2, PaidNow DEF PutOver
  <2>4. Len(listed) \in Nat
    BY DEF Base, Typed
  <2>5. \A k \in 1 .. Len(listed) + 1 : k \in 1 .. Len(listed) \/ k = Len(listed) + 1
    BY <2>4
  <2>6. \A k \in 1 .. Len(listed) : Paid(listed[k])
    BY DEF Settled
  <2>7. \A k \in 1 .. Len(listed') : Direct /\ \E v : v = listed'[k] /\ Paid(v)
    BY <2>1, <2>2, <2>3, <2>5, <2>6
  <2>8. \A v : Paid(v)' <=> Paid(v) \/ v \in {}
    BY <1>5, <2>1 DEF PutOver
  <2> HIDE DEF Same
  <2> QED BY <1>2, <1>3, <2>1, <2>7, <2>8, SettledMoves
<1>14. CASE PutCharge
  <2> DEFINE p == Publishers[main.turn]
             w == Written(p, main.sleeps)
  <2>1. /\ main'.turn = main.turn /\ main.pc = "putting" /\ Grows(w, {})
        /\ main'.pc = IF Len(main.sleeps) = 1 THEN "notifying" ELSE "putting"
    BY <1>14, PutChargeShape
  <2>2. listed' = listed /\ w = IF Len(main.sleeps) = 1 THEN {p} ELSE {}
    BY <1>14 DEF PutCharge, Written, Charged
  <2>3. Direct
    BY <2>1 DEF Base, Places, Putting
  <2>4. \A k, l \in 1 .. Len(Publishers) : Publishers[k] = Publishers[l] => k = l
    BY <1>4, PublishersType
  <2>5. ~Paid(p)
    <3>1. \A k \in 1 .. Len(Publishers) : Publishers[k] = p => ~PutOver(k, main.turn, main.pc)
      BY <1>4, <2>1, <2>4 DEF PutOver
    <3> QED BY <2>3, <3>1, PaidNow
  <2>6. ASSUME Len(main.sleeps) = 1, NEW v PROVE Paid(v)' <=> Paid(v) \/ v = p
    <3>1. \A k \in 1 .. Len(Publishers) : PutOver(k, main'.turn, main'.pc) <=> PutOver(k, main.turn, main.pc) \/ k = main.turn
      BY <1>4, <2>1, <2>6 DEF PutOver
    <3>2. Paid(v)' <=> \E k \in 1 .. Len(Publishers) : Publishers[k] = v /\ PutOver(k, main'.turn, main'.pc)
      BY <1>2, <2>3, PaidNext
    <3>3. Paid(v) <=> \E k \in 1 .. Len(Publishers) : Publishers[k] = v /\ PutOver(k, main.turn, main.pc)
      BY <2>3, PaidNow
    <3> QED BY <1>4, <3>1, <3>2, <3>3
  <2>7. \A k \in 1 .. Len(listed') : Direct /\ \E v : v = listed'[k] /\ Paid(v)
    BY <2>2, ListedStay
  <2>8. CASE Len(main.sleeps) = 1
    <3>1. \A v : Paid(v)' <=> Paid(v) \/ v \in w
      BY <2>2, <2>6, <2>8
    <3>2. \A v \in w : ~Paid(v)
      BY <2>2, <2>5
    <3> HIDE DEF w, Same
    <3> QED BY <1>2, <1>3, <2>1, <2>7, <3>1, <3>2, SettledMoves
  <2>9. CASE Len(main.sleeps) # 1
    <3>1. Same
      BY <2>1, <2>9
    <3>2. Grows({}, {})
      BY <2>1, <2>2, <2>9
    <3> QED BY <1>6, <2>2, <3>1, <3>2
  <2> QED BY <2>8, <2>9
<1> QED BY <1>7, <1>8, <1>9, <1>10, <1>11, <1>12, <1>13, <1>14 DEF Main

LEMMA SettledPublication ==
  ASSUME Charged, Base, Timed, Settled, PubOpen \/ PubCharge
  PROVE  Settled'
<1>1. PublicationTurn
  BY PublicationTurns
<1>2. UNCHANGED <<run, now, main, task, listed, ready>>
  BY <1>1 DEF PublicationTurn
<1>3. \A i \in Items : Follows(task[i], task'[i])
  BY <1>2 DEF Follows
<1>4. \A k \in 1 .. Len(listed') : Direct /\ \E v : v = listed'[k] /\ Paid(v)
  BY <1>2, ListedStay
<1>5. ASSUME pub'.pc # "done", pub.pc # "done", Grows({}, {}) PROVE Settled'
  <2>1. \A v : Paid(v)' <=> Paid(v) \/ v \in {}
    BY <1>2, <1>5, PaidStays
  <2> QED BY <1>2, <1>3, <1>4, <1>5, <2>1, SettledMoves
<1>6. CASE PubOpen
  <2>1. pub'.pc = "putting" /\ pub.pc = "created" /\ Grows({}, {})
    BY <1>6, PubOpenShape
  <2> QED BY <1>5, <2>1
<1>7. CASE PubCharge
  <2> DEFINE p == Publishers[1]
             w == Written(p, pub.sleeps)
  <2>1. /\ pub.pc = "putting" /\ ~Direct /\ Grows(w, {})
        /\ pub'.pc = IF Len(pub.sleeps) = 1 THEN "done" ELSE "putting"
    BY <1>7, PubChargeShape
  <2>2. w = IF Len(pub.sleeps) = 1 THEN {p} ELSE {}
    BY DEF Written, Charged
  <2>3. p \notin Items
    <3>1. p \in Origins
      BY PublishersType DEF Base, Typed
    <3> QED BY <3>1, RunAssumption
  <2>4. CASE Len(pub.sleeps) = 1
    <3>1. \A v : Paid(v)' <=> Paid(v) \/ v \in w
      BY <1>2, <2>1, <2>2, <2>4, PaidNow, PaidNext
    <3>2. \A v \in w : ~Paid(v)
      BY <2>1, <2>2, <2>3, PaidNow
    <3> HIDE DEF w
    <3> QED BY <1>2, <1>3, <1>4, <2>1, <3>1, <3>2, SettledMoves
  <2>5. CASE Len(pub.sleeps) # 1
    BY <1>5, <2>1, <2>2, <2>5
  <2> QED BY <2>4, <2>5
<1> QED BY <1>6, <1>7

(* What a route's source or the directory answers has been paid for.       *)
LEMMA AnswersPaid ==
  ASSUME Base, Settled, NEW i \in Items
  PROVE  /\ ~Direct /\ SourceReady(run.route[i]) => Paid(run.route[i])
         /\ listed # <<>> => Paid(listed[1]) /\ listed[1] \in Volumes
         /\ task[i].pc = "located" => Paid(task[i].from)
<1>1. run.route[i] \notin Items => run.route[i] = Publishers[1]
  BY ItemFacts
<1>2. ~Direct /\ SourceReady(run.route[i]) => Paid(run.route[i])
  <2>1. ~Direct => \A v \in ready : Paid(v)
    BY DEF Settled
  <2>2. Origins \cap Items = {}
    BY RunAssumption
  <2> QED BY <1>1, <2>1, <2>2, PaidNow DEF SourceReady
<1>3. ASSUME listed # <<>> PROVE Paid(listed[1]) /\ listed[1] \in Volumes
  <2>1. listed \in Seq(Origins)
    BY DEF Base, Typed
  <2>2. 1 \in 1 .. Len(listed)
    BY <1>3, <2>1, EmptySeq
  <2>3. listed[1] \in Origins
    BY <2>1, <2>2, ElementOfSeq
  <2> QED BY <2>2, <2>3 DEF Settled, Volumes
<1>4. task[i].pc = "located" => Paid(task[i].from)
  BY DEF Settled, Sourced
<1> QED BY <1>2, <1>3, <1>4

LEMMA SettledItem ==
  ASSUME Charged, Base, Timed, Settled, NEW i \in Items, NEW new,
         QuietTurn(i, new) \/ ReadTurn(i, new) \/ RelayTurn(i, new)
  PROVE  Settled'
<1>1. Turned(i, new) /\ UNCHANGED <<run, now, main, listed>>
  BY DEF QuietTurn, ReadTurn, RelayTurn
<1>2. task'[i] = new /\ \A j \in Items : j # i => task'[j] = task[j]
  BY <1>1, OthersStay
<1>3. \A k \in 1 .. Len(listed') : Direct /\ \E v : v = listed'[k] /\ Paid(v)
  BY <1>1, ListedStay
<1>4. ASSUME Follows(task[i], new) PROVE \A j \in Items : Follows(task[j], task'[j])
  <2>1. \A t : Follows(t, t)
    BY DEF Follows
  <2> QED BY <1>2, <1>4, <2>1
<1>5. CASE QuietTurn(i, new)
  <2>1. /\ Grows({}, {}) /\ ready' = ready /\ task[i].pc # "done" /\ new.pc # "done"
        /\ pub'.pc = "done" <=> pub.pc = "done"
    BY <1>5 DEF QuietTurn
  <2>2. \A v : Paid(v)' <=> Paid(v) \/ v \in {}
    BY <1>1, <1>2, <2>1, PaidStays
  <2>3. Follows(task[i], new)
    BY <1>5, AnswersPaid DEF QuietTurn, Follows
  <2> QED BY <1>1, <1>3, <1>4, <2>1, <2>2, <2>3, SettledMoves
<1>6. CASE ReadTurn(i, new)
  <2>1. /\ Grows({}, {i}) /\ UNCHANGED <<ready, pub>> /\ task[i].pc = "getting"
        /\ new.from = task[i].from /\ new.opened = task[i].opened
        /\ new.pc = "keeping" \/ (new.pc = "done" /\ ~IsRelay(i))
    BY <1>6 DEF ReadTurn
  <2>2. \A j \in Items : IsRelay(j) => (task'[j].pc = "done" <=> task[j].pc = "done")
    BY <1>2, <2>1
  <2>3. \A v : Paid(v)' <=> Paid(v) \/ v \in {}
    BY <1>1, <2>1, <2>2, PaidStays
  <2>4. Follows(task[i], new)
    BY <2>1 DEF Follows
  <2> QED BY <1>1, <1>3, <1>4, <2>1, <2>3, <2>4, SettledMoves
<1>7. CASE RelayTurn(i, new)
  <2>1. /\ UNCHANGED pub /\ task[i].pc = "keeping" /\ IsRelay(i) /\ ~Direct
        /\ new.from = task[i].from /\ new.opened = task[i].opened
        /\ \/ new.pc = "keeping" /\ ready' = ready /\ Grows({}, {})
           \/ new.pc = "done" /\ ready' = ready \cup {i} /\ Grows({i}, {})
    BY <1>7 DEF RelayTurn, Charged
  <2>2. Follows(task[i], new)
    BY <2>1 DEF Follows
  <2>3. CASE new.pc = "keeping" /\ ready' = ready /\ Grows({}, {})
    <3>1. \A v : Paid(v)' <=> Paid(v) \/ v \in {}
      BY <1>1, <1>2, <2>1, <2>3, PaidStays
    <3> QED BY <1>1, <1>3, <1>4, <2>2, <2>3, <3>1, SettledMoves
  <2>4. CASE new.pc = "done" /\ ready' = ready \cup {i} /\ Grows({i}, {})
    <3>1. i # Publishers[1]
      BY PublishersType, RunAssumption DEF Base, Typed
    <3>2. ~Paid(i)
      BY <2>1, <3>1, PaidNow
    <3>3. ASSUME NEW v PROVE Paid(v)' <=> Paid(v) \/ v \in {i}
      <4>1. CASE v = i
        BY <1>1, <1>2, <2>1, <2>4, <4>1, PaidNext
      <4>2. CASE v # i
        <5>1. v \in Items => task'[v] = task[v]
          BY <1>2, <4>2
        <5> QED BY <1>1, <2>1, <4>2, <5>1, PaidNext, PaidNow
      <4> QED BY <4>1, <4>2
    <3>4. \A v \in {i} : ~Paid(v)
      BY <3>2
    <3>5. ready' \subseteq ready \cup {i}
      BY <2>4
    <3>6. \A j \in Items : Follows(task[j], task'[j])
      BY <1>4, <2>2
    <3> QED BY <1>1, <1>3, <2>4, <3>3, <3>4, <3>5, <3>6, SettledMoves
  <2> QED BY <2>1, <2>3, <2>4
<1> QED BY <1>5, <1>6, <1>7

LEMMA SettledStep ==
  ASSUME Charged, Base, Timed, Settled, [Next]_vars
  PROVE  Settled'
<1>1. CASE Main
  BY <1>1, SettledMain
<1>2. CASE PubOpen \/ PubCharge
  BY <1>2, SettledPublication
<1>3. ASSUME NEW i \in Items, Item(i) PROVE Settled'
  BY <1>3, ItemTurns, SettledItem
<1>4. CASE Advance \/ UNCHANGED vars
  <2>1. UNCHANGED <<run, main, task, pub, listed, ready, trace>>
    BY <1>4 DEF Advance, vars
  <2>2. Grows({}, {})
    BY <2>1, GrowsNot DEF Base, Typed
  <2>3. \A v : Paid(v)' <=> Paid(v) \/ v \in {}
    BY <2>1, PaidStays
  <2>4. \A k \in 1 .. Len(listed') : Direct /\ \E v : v = listed'[k] /\ Paid(v)
    BY <2>1, ListedStay
  <2>5. \A j \in Items : Follows(task[j], task'[j])
    BY <2>1 DEF Follows
  <2> QED BY <2>1, <2>2, <2>3, <2>4, <2>5, SettledMoves
<1> QED BY <1>1, <1>2, <1>3, <1>4 DEF Next, Terminated

(* A payload is read only after the put that stored it has been paid for,  *)
(* on every machine that charges for a storage write at all: a free charge *)
(* leaves no row, and there is then nothing to pay.                        *)
THEOREM PaidFirst ==
  ASSUME StorageTime(Bytes, "write") > 0
  PROVE  Spec => []PaidBeforeRead
<1>1. Charged
  BY DEF Charged
<1>2. Init => Base /\ Timed /\ Settled
  BY BaseInit, TimedInit, SettledInit
<1>3. Base /\ Timed /\ Settled /\ [Next]_vars => (Base /\ Timed /\ Settled)'
  BY <1>1, BaseStep, TimedStep, SettledStep
<1>4. ASSUME Base, Settled PROVE PaidBeforeRead
  <2>1. \A v \in Volumes : Cardinality(WritesIn(trace, v)) <= 1
    <3> SUFFICES ASSUME NEW v \in Volumes PROVE Cardinality(WritesIn(trace, v)) <= 1
      OBVIOUS
    <3>1. WritesIn(trace, v) = {} \/ \E k : WritesIn(trace, v) = {k}
      BY <1>4 DEF Settled
    <3>2. Cardinality({}) = 0
      BY FS_EmptySet
    <3>3. ASSUME NEW k PROVE Cardinality({k}) = 1
      BY FS_Singleton
    <3>4. Cardinality(WritesIn(trace, v)) = 0 \/ Cardinality(WritesIn(trace, v)) = 1
      BY <3>1, <3>2, <3>3, Zenon
    <3> QED BY <3>4
  <2>2. \A i \in Items : task[i].pc \in {"getting", "keeping", "done"} =>
           \E k \in WritesIn(trace, task[i].from) : trace[k].at <= task[i].opened
    BY <1>4 DEF Settled, Sourced
  <2> QED BY <2>1, <2>2, RowSets DEF PaidBeforeRead
<1>5. Base /\ Settled => PaidBeforeRead
  BY <1>4
<1> QED BY <1>2, <1>3, <1>5, PTL DEF Spec

-----------------------------------------------------------------------------
(* The outcome rows: one for each item that is done, and the last of them  *)
(* is written at the instant the gather returns.                           *)

IdsOf(rows) == { r.id : r \in rows }

Finishers == { i \in Items : task[i].pc = "done" }

LEMMA RowsOf ==
  ASSUME Base
  PROVE  /\ ledger.rows \in SUBSET [id : Items, released : Nat, done : Nat]
         /\ now \in Nat /\ ledger.total \in Nat /\ ledger.wallclock \in Nat
         /\ \A r \in ledger.rows : r.id \in Items /\ r.done \in Nat
<1>1. ledger \in Ledgers /\ now \in Nat
  BY DEF Base, Typed
<1>2. /\ ledger.rows \in SUBSET [id : Items, released : Nat, done : Nat]
      /\ ledger.total \in Nat /\ ledger.wallclock \in Nat
  BY <1>1 DEF Ledgers
<1> QED BY <1>1, <1>2

LEMMA RowedInit ==
  ASSUME Init
  PROVE  Rowed
<1>1. main.pc = "start" /\ \A i \in Items : task[i].pc = "idle"
  BY DEF Init, Idle
<1>2. ledger.rows = {} /\ ledger.total = 0 /\ ledger.wallclock = 0
  BY DEF Init, NewLedger
<1> QED BY <1>1, <1>2 DEF Rowed, Preparing

(* A step of the driving coroutine before the items are released.          *)
LEMMA RowedPreparing ==
  ASSUME Base, Rowed, UNCHANGED <<now, task, ledger>>, Preparing, Preparing'
  PROVE  Rowed'
<1>1. main'.pc \notin {"gathering", "returned", "closed"} /\ main.pc \notin {"returned", "closed"}
  BY DEF Preparing, Putting
<1> QED BY <1>1 DEF Rowed

LEMMA RowedMain ==
  ASSUME Base, Rowed, Main
  PROVE  Rowed'
<1>1. /\ now' = now /\ ledger'.rows = ledger.rows
      /\ task' = task \/ (Preparing /\ \A i \in Items : task'[i].pc = "created")
  BY MainTurns DEF MainTurn
<1>2. /\ \A r, s \in ledger.rows : r.id = s.id => r = s
      /\ IdsOf(ledger.rows) = Finishers
      /\ \A r \in ledger.rows : r.done <= now
  BY DEF Rowed, IdsOf, Finishers
<1>3. Finishers' = Finishers
  BY <1>1 DEF Finishers, Base, Places
<1>4. /\ \A r, s \in ledger'.rows : r.id = s.id => r = s
      /\ { r.id : r \in ledger'.rows } = { i \in Items : task'[i].pc = "done" }
      /\ \A r \in ledger'.rows : r.done <= now'
  BY <1>1, <1>2, <1>3 DEF IdsOf, Finishers
<1>5. CASE Generate
  <2>1. main'.pc = "generating" /\ main.pc = "start" /\ UNCHANGED <<now, task, ledger>>
    BY <1>5, GenerateShape DEF Generate
  <2> QED BY <2>1, RowedPreparing DEF Preparing
<1>6. CASE PublishFirst
  <2>1. main'.pc = "putting" /\ main.pc \in {"start", "generating"} /\ UNCHANGED <<now, task, ledger>>
    BY <1>6, PublishFirstShape
  <2> QED BY <2>1, RowedPreparing DEF Preparing, Putting
<1>7. CASE PutCharge
  <2>1. main.pc = "putting" /\ main'.pc \in {"putting", "notifying"} /\ UNCHANGED <<now, task, ledger>>
    BY <1>7, PutChargeShape DEF PutCharge
  <2> QED BY <2>1, RowedPreparing DEF Preparing, Putting
<1>8. CASE PutListed
  <2>1. main.pc = "notifying" /\ main'.pc = "notified" /\ UNCHANGED <<now, task, ledger>>
    BY <1>8, PutListedShape DEF PutListed
  <2> QED BY <2>1, RowedPreparing DEF Preparing, Putting
<1>9. CASE PublishNext
  <2>1. main.pc = "notified" /\ main'.pc = "putting" /\ UNCHANGED <<now, task, ledger>>
    BY <1>9, PublishNextShape
  <2> QED BY <2>1, RowedPreparing DEF Preparing, Putting
<1>10. CASE ReleaseItems
  <2>1. /\ main'.pc = "gathering" /\ main.pc \in {"generating", "notified"}
        /\ ledger' = [ledger EXCEPT !.total = @ + Cardinality(Items)]
        /\ \A i \in Items : task'[i].pc = "created"
    BY <1>10, ReleaseItemsShape
  <2>2. ledger.total = 0 /\ ledger.wallclock = 0
    BY <2>1 DEF Rowed, Preparing, Putting
  <2>3. Cardinality(Items) \in Nat
    BY RunAssumption, FS_CardinalityType
  <2>4. ledger'.total = Cardinality(Items) /\ ledger'.wallclock = 0
    <3>1. ledger'.total = ledger.total + Cardinality(Items) /\ ledger'.wallclock = ledger.wallclock
      BY <2>1 DEF Base, Typed, Ledgers
    <3> QED BY <2>2, <2>3, <3>1
  <2>5. ~AllDone' /\ ~Preparing'
    BY <2>1, RunAssumption DEF AllDone, Preparing, Putting
  <2> QED BY <1>4, <2>1, <2>4, <2>5 DEF Rowed
<1>11. CASE Gather
  <2>1. /\ main.pc = "gathering"
        /\ \/ AllDone /\ main'.pc = "returned" /\ ledger' = [ledger EXCEPT !.wallclock = now]
           \/ main'.pc = "raised" /\ ledger' = ledger
    BY <1>11, GatherShape
  <2>2. ~Preparing /\ ~Preparing'
    BY <2>1 DEF Preparing, Putting
  <2>3. ledger.total = Cardinality(Items) /\ ledger.wallclock = 0
    BY <2>1, <2>2 DEF Rowed
  <2>4. CASE AllDone /\ main'.pc = "returned" /\ ledger' = [ledger EXCEPT !.wallclock = now]
    <3>1. \E r \in ledger.rows : r.done = now
      BY <2>1, <2>4 DEF Rowed
    <3>2. ledger'.total = ledger.total /\ ledger'.wallclock = now
      BY <2>4 DEF Base, Typed, Ledgers
    <3> QED BY <1>1, <1>2, <1>4, <2>2, <2>3, <2>4, <3>1, <3>2 DEF Rowed
  <2>5. CASE main'.pc = "raised" /\ ledger' = ledger
    BY <1>4, <2>2, <2>3, <2>5 DEF Rowed
  <2> QED BY <2>1, <2>4, <2>5
<1>12. CASE Close
  <2>1. main'.pc = "closed" /\ main.pc \in {"returned", "raised"} /\ ledger' = ledger
    BY <1>12, CloseShape DEF Close
  <2>2. ~Preparing /\ ~Preparing'
    BY <2>1 DEF Preparing, Putting
  <2> QED BY <1>4, <2>1, <2>2 DEF Rowed
<1> QED BY <1>5, <1>6, <1>7, <1>8, <1>9, <1>10, <1>11, <1>12 DEF Main

(* An item that has returned has its row, stamped now.                     *)
LEMMA RowedFinish ==
  ASSUME Base, Rowed, NEW i \in Items, NEW new, Turned(i, new), UNCHANGED <<now, main>>,
         task[i].pc # "done", new.pc = "done", NEW l \in Ledgers, UNCHANGED run,
         l.rows = ledger.rows, l.total = ledger.total, l.wallclock = ledger.wallclock,
         ledger' = Finished(i, l)
  PROVE  Rowed'
<1>1. task'[i] = new /\ \A j \in Items : j # i => task'[j] = task[j]
  BY OthersStay
<1>2. PICK r : ledger'.rows = l.rows \cup {r} /\ r.id = i /\ r.done = now
  BY FinishedFields
<1>3. ledger'.total = ledger.total /\ ledger'.wallclock = ledger.wallclock
  BY FinishedFields
<1>4. /\ \A q, s \in ledger.rows : q.id = s.id => q = s
      /\ IdsOf(ledger.rows) = Finishers
      /\ \A q \in ledger.rows : q.done <= now
  BY DEF Rowed, IdsOf, Finishers
<1>5. \A q \in ledger.rows : q.id # i
  BY <1>4 DEF IdsOf, Finishers
<1>6. ledger'.rows = ledger.rows \cup {r}
  BY <1>2
<1>7. \A q, s \in ledger'.rows : q.id = s.id => q = s
  BY <1>2, <1>4, <1>5, <1>6
<1>8. { q.id : q \in ledger'.rows } = { j \in Items : task'[j].pc = "done" }
  <2>1. { q.id : q \in ledger'.rows } = IdsOf(ledger.rows) \cup {i}
    BY <1>2, <1>6 DEF IdsOf
  <2>2. { j \in Items : task'[j].pc = "done" } = Finishers \cup {i}
    BY <1>1 DEF Finishers
  <2> QED BY <1>4, <2>1, <2>2
<1>9. now \in Nat
  BY DEF Base, Typed
<1>10. (\A q \in ledger'.rows : q.done <= now') /\ \E q \in ledger'.rows : q.done = now'
  BY <1>2, <1>4, <1>6, <1>9
<1>11. main.pc # "returned"
  BY DEF Base, Places, AllDone
<1>12. Preparing' = Preparing
  BY DEF Preparing, Putting
<1> QED BY <1>3, <1>7, <1>8, <1>10, <1>11, <1>12 DEF Rowed

(* A turn after which the item is as little done as before.                *)
LEMMA RowedTurn ==
  ASSUME Base, Rowed, NEW i \in Items, NEW new, Turned(i, new), UNCHANGED <<now, main>>,
         task[i].pc # "done", new.pc # "done", ledger' \in Ledgers,
         ledger'.rows = ledger.rows, ledger'.total = ledger.total, ledger'.wallclock = ledger.wallclock
  PROVE  Rowed'
<1>1. task'[i] = new /\ \A j \in Items : j # i => task'[j] = task[j]
  BY OthersStay
<1>2. { j \in Items : task'[j].pc = "done" } = { j \in Items : task[j].pc = "done" }
  BY <1>1
<1>3. ~AllDone'
  BY <1>1 DEF AllDone
<1>4. main.pc # "returned"
  BY DEF Base, Places, AllDone
<1>5. Preparing' = Preparing
  BY DEF Preparing, Putting
<1> QED BY <1>2, <1>3, <1>4, <1>5 DEF Rowed

LEMMA RowedItem ==
  ASSUME Base, Rowed, NEW i \in Items, NEW new,
         QuietTurn(i, new) \/ ReadTurn(i, new) \/ RelayTurn(i, new)
  PROVE  Rowed'
<1>1. ledger \in Ledgers /\ i \in Volumes
  BY DEF Base, Typed, Volumes
<1>2. Turned(i, new) /\ UNCHANGED <<run, now, main>> /\ task[i].pc # "done"
  BY DEF QuietTurn, ReadTurn, RelayTurn
<1>3. CASE QuietTurn(i, new)
  <2>1. ledger' = ledger /\ new.pc # "done"
    BY <1>3 DEF QuietTurn
  <2> QED BY <1>1, <1>2, <2>1, RowedTurn
<1>4. CASE ReadTurn(i, new)
  <2> DEFINE l == Transferred(ledger, i, new.from)
  <2>1. /\ new.from \in Volumes
        /\ \/ new.pc = "keeping" /\ ledger' = l
           \/ new.pc = "done" /\ ledger' = Finished(i, l)
    BY <1>4 DEF ReadTurn
  <2>2. l \in Ledgers /\ l.rows = ledger.rows /\ l.total = ledger.total /\ l.wallclock = ledger.wallclock
    BY <1>1, <2>1, TransferredFields
  <2> HIDE DEF l
  <2>3. CASE new.pc = "keeping" /\ ledger' = l
    BY <1>2, <2>2, <2>3, RowedTurn
  <2>4. CASE new.pc = "done" /\ ledger' = Finished(i, l)
    BY <1>2, <2>2, <2>4, RowedFinish
  <2> QED BY <2>1, <2>3, <2>4
<1>5. CASE RelayTurn(i, new)
  <2>1. \/ new.pc = "keeping" /\ ledger' = ledger
        \/ new.pc = "done" /\ ledger' = Finished(i, ledger)
    BY <1>5 DEF RelayTurn
  <2>2. CASE new.pc = "keeping" /\ ledger' = ledger
    BY <1>1, <1>2, <2>2, RowedTurn
  <2>3. CASE new.pc = "done" /\ ledger' = Finished(i, ledger)
    BY <1>1, <1>2, <2>3, RowedFinish
  <2> QED BY <2>1, <2>2, <2>3
<1> QED BY <1>3, <1>4, <1>5

LEMMA RowedStep ==
  ASSUME Base, Rowed, [Next]_vars
  PROVE  Rowed'
<1>1. CASE Main
  BY <1>1, RowedMain
<1>2. CASE PubOpen \/ PubCharge
  <2>1. UNCHANGED <<now, main, task, ledger>>
    BY <1>2, PublicationTurns DEF PublicationTurn
  <2> QED BY <2>1 DEF Rowed, Preparing, Putting, AllDone
<1>3. ASSUME NEW i \in Items, Item(i) PROVE Rowed'
  BY <1>3, ItemTurns, RowedItem
<1>4. CASE Advance
  <2>1. now' \in Nat /\ now < now' /\ ~SomethingReady /\ UNCHANGED <<main, task, ledger>>
    BY <1>4, AdvanceShape DEF Advance
  <2>2. ~(main.pc = "gathering" /\ AllDone)
    BY <2>1 DEF SomethingReady, AllDone
  <2>3. now \in Nat /\ \A r \in ledger.rows : r.done \in Nat /\ r.done <= now
    BY RowsOf DEF Rowed
  <2>4. \A r \in ledger.rows : r.done <= now'
    BY <2>1, <2>3
  <2>5. AllDone' = AllDone /\ Preparing' = Preparing
    BY <2>1 DEF AllDone, Preparing, Putting
  <2> QED BY <2>1, <2>2, <2>4, <2>5 DEF Rowed
<1>5. CASE UNCHANGED vars
  <2>1. UNCHANGED <<now, main, task, ledger>>
    BY <1>5 DEF vars
  <2> QED BY <2>1 DEF Rowed, Preparing, Putting, AllDone
<1> QED BY <1>1, <1>2, <1>3, <1>4, <1>5 DEF Next, Terminated

(* A run that returns has one outcome row per item, and its wallclock is   *)
(* the last item's completion; one that raises does so for an item that    *)
(* failed and has none, and never stamps a wallclock.                      *)
THEOREM OutcomesKept == Spec => []OutcomesComplete
<1>1. Init => Base /\ Rowed
  BY BaseInit, RowedInit
<1>2. Base /\ Rowed /\ [Next]_vars => (Base /\ Rowed)'
  BY BaseStep, RowedStep
<1>3. ASSUME Base, Rowed PROVE OutcomesComplete
  <2>1. /\ \A r, s \in ledger.rows : r.id = s.id => r = s
        /\ { r.id : r \in ledger.rows } = { i \in Items : task[i].pc = "done" }
    BY <1>3 DEF Rowed
  <2>2. \A r \in ledger.rows : r.id \in Items /\ r.done \in Nat
    BY <1>3, RowsOf
  <2>3. ASSUME main.pc = "returned"
        PROVE  /\ Cardinality(ledger.rows) = ledger.total
               /\ { r.id : r \in ledger.rows } = Items
               /\ ledger.wallclock = Max({r.done : r \in ledger.rows})
    <3>1. \A i \in Items : task[i].pc = "done"
      BY <1>3, <2>3 DEF Base, Places, AllDone
    <3>2. { r.id : r \in ledger.rows } = Items
      BY <2>1, <3>1
    <3>3. ledger.total = Cardinality(Items)
      BY <1>3, <2>3 DEF Rowed, Preparing, Putting
    <3>4. Cardinality(ledger.rows) = Cardinality(Items)
      <4> DEFINE f == [r \in ledger.rows |-> r.id]
      <4>1. f \in Injection(ledger.rows, Items)
        BY <2>1, <2>2 DEF Injection, IsInjective
      <4>2. f \in Surjection(ledger.rows, Items)
        BY <2>2, <3>2 DEF Surjection
      <4>3. IsFiniteSet(Items)
        BY RunAssumption
      <4> HIDE DEF f
      <4> QED BY <4>1, <4>2, <4>3, FS_Injection
    <3>5. ledger.wallclock = Max({r.done : r \in ledger.rows})
      <4> DEFINE D == {r.done : r \in ledger.rows}
                 m == ledger.wallclock
      <4>1. m \in D /\ \A d \in D : d <= m /\ d \in Nat
        BY <1>3, <2>2, <2>3 DEF Rowed
      <4> HIDE DEF D, m
      <4>2. \A d \in D : m >= d
        BY <4>1
      <4>3. \A x \in D : (\A d \in D : x >= d) => x = m
        BY <4>1
      <4>4. Max(D) = m
        BY <4>1, <4>2, <4>3 DEF Max
      <4> QED BY <4>4 DEF D, m
    <3> QED BY <3>2, <3>3, <3>4, <3>5
  <2>4. ASSUME main.pc = "raised"
        PROVE  /\ ledger.wallclock = 0
               /\ \E i \in run.missing : \A r \in ledger.rows : r.id # i
    <3>1. ledger.wallclock = 0
      BY <1>3, <2>4 DEF Rowed
    <3>2. PICK i \in Items : task[i].pc = "failed"
      BY <1>3, <2>4 DEF Base, Places, SomeFailed
    <3>3. i \in run.missing
      BY <1>3, <3>2 DEF Base, Places, Placed
    <3>4. \A r \in ledger.rows : r.id # i
      <4>1. i \notin { j \in Items : task[j].pc = "done" }
        BY <3>2
      <4> QED BY <2>1, <4>1
    <3> QED BY <3>1, <3>3, <3>4
  <2> QED BY <2>3, <2>4 DEF OutcomesComplete
<1>4. Base /\ Rowed => OutcomesComplete
  BY <1>3
<1> QED BY <1>1, <1>2, <1>4, PTL DEF Spec

-----------------------------------------------------------------------------
(* The determinism gate.  A digest says what every event before it was, so *)
(* two traces first differ where their digests first do.                   *)

LEMMA ChainSteps ==
  ASSUME NEW s \in Seq(Row)
  PROVE  /\ Chain(s)[0] = ChainSeed
         /\ \A k \in 1 .. Len(s) : Chain(s)[k] = ChainFold(Chain(s)[k - 1], s[k])
<1> DEFINE N == Len(s)
           Next1(g, k) == IF k = 0 THEN ChainSeed ELSE ChainFold(g[k - 1], s[k])
           P(n) == \E g : g = [k \in 0 .. n |-> Next1(g, k)]
           Bad == { n \in 0 .. N : ~P(n) }
<1>1. N \in Nat
  OBVIOUS
<1>2. P(0)
  <2> DEFINE g == [k \in 0 .. 0 |-> ChainSeed]
  <2>1. g = [k \in 0 .. 0 |-> Next1(g, k)]
    OBVIOUS
  <2> HIDE DEF g
  <2> QED BY <2>1
<1>3. ASSUME NEW n \in Nat, P(n) PROVE P(n + 1)
  <2>1. PICK g : g = [k \in 0 .. n |-> Next1(g, k)]
    BY <1>3
  <2> DEFINE h == [k \in 0 .. n + 1 |-> IF k = n + 1 THEN ChainFold(g[n], s[n + 1]) ELSE g[k]]
  <2>2. \A k \in 0 .. n : k \in 0 .. n + 1 /\ k # n + 1
    OBVIOUS
  <2>3. \A k \in 0 .. n : h[k] = g[k]
    BY <2>2
  <2>4. n + 1 \in 0 .. n + 1 /\ h[n + 1] = ChainFold(g[n], s[n + 1])
    OBVIOUS
  <2>5. DOMAIN h = 0 .. n + 1 /\ h = [k \in 0 .. n + 1 |-> h[k]]
    OBVIOUS
  <2> HIDE DEF h
  <2>6. ASSUME NEW k \in 0 .. n + 1 PROVE h[k] = Next1(h, k)
    <3>1. CASE k = n + 1
      <4>1. k # 0 /\ k - 1 = n /\ n \in 0 .. n
        BY <3>1
      <4> QED BY <2>3, <2>4, <3>1, <4>1
    <3>2. CASE k # n + 1
      <4>1. k \in 0 .. n /\ (k # 0 => k - 1 \in 0 .. n)
        BY <3>2
      <4>2. g[k] = Next1(g, k)
        BY <2>1, <4>1
      <4> QED BY <2>3, <4>1, <4>2
    <3> QED BY <3>1, <3>2
  <2>7. h = [k \in 0 .. n + 1 |-> Next1(h, k)]
    <3> HIDE DEF Next1
    <3> QED BY <2>5, <2>6
  <2> QED BY <2>7
<1> HIDE DEF P
<1>4. Bad = {}
  <2> SUFFICES ASSUME Bad # {} PROVE FALSE
    OBVIOUS
  <2>1. PICK m \in Bad : \A k \in Bad : m <= k
    <3>1. Bad \in SUBSET Nat
      OBVIOUS
    <3> HIDE DEF Bad
    <3> QED BY <3>1, Least
  <2>2. m \in 0 .. N /\ m # 0
    BY <1>2
  <2>3. m - 1 \in Nat /\ m - 1 \in 0 .. N /\ (m - 1) + 1 = m
    BY <2>2
  <2>4. P(m - 1)
    BY <2>1, <2>3
  <2>5. P((m - 1) + 1)
    BY <1>3, <2>3, <2>4
  <2> QED BY <2>1, <2>3, <2>5
<1>5. P(N)
  <2>1. N \in 0 .. N
    BY <1>1
  <2> QED BY <1>4, <2>1
<1>6. Chain(s) = [k \in 0 .. N |-> Next1(Chain(s), k)]
  <2> DEFINE Is(g) == g = [k \in 0 .. N |-> Next1(g, k)]
  <2>1. \E g : Is(g)
    BY <1>5 DEF P
  <2>2. Chain(s) = CHOOSE g : Is(g)
    BY DEF Chain
  <2> HIDE DEF Is
  <2>3. Is(Chain(s))
    BY <2>1, <2>2
  <2> QED BY <2>3 DEF Is
<1>7. \A k \in 0 .. N : Chain(s)[k] = Next1(Chain(s), k)
  BY <1>6
<1>8. 0 \in 0 .. N /\ \A k \in 1 .. N : k \in 0 .. N /\ k # 0
  BY <1>1
<1> QED BY <1>7, <1>8

(* Digests that are the same are of the same events.                       *)
LEMMA ChainTells ==
  ASSUME NEW a \in Seq(Row), NEW b \in Seq(Row),
         NEW m \in 0 .. Len(a), NEW n \in 0 .. Len(b), Chain(a)[m] = Chain(b)[n]
  PROVE  m = n /\ \A j \in 1 .. m : a[j] = b[j]
<1> DEFINE Q(i) == \A k \in 0 .. Len(b) : Chain(a)[i] = Chain(b)[k] => k = i /\ \A j \in 1 .. i : a[j] = b[j]
           Bad == { i \in 0 .. Len(a) : ~Q(i) }
<1>1. Len(a) \in Nat /\ Len(b) \in Nat
  OBVIOUS
<1>2. /\ Chain(a)[0] = ChainSeed /\ Chain(b)[0] = ChainSeed
      /\ \A k \in 1 .. Len(a) : Chain(a)[k] = ChainFold(Chain(a)[k - 1], a[k])
      /\ \A k \in 1 .. Len(b) : Chain(b)[k] = ChainFold(Chain(b)[k - 1], b[k])
  BY ChainSteps
<1>3. \A p, e : ChainFold(p, e) # ChainSeed
  <2>1. \A p, e : <<p, e>> # << >>
    OBVIOUS
  <2> QED BY <2>1 DEF ChainFold, ChainSeed
<1>4. \A p, e, q, f : ChainFold(p, e) = ChainFold(q, f) => p = q /\ e = f
  BY DEF ChainFold
<1>5. Q(0)
  <2> SUFFICES ASSUME NEW k \in 0 .. Len(b), Chain(a)[0] = Chain(b)[k]
               PROVE  k = 0 /\ \A j \in 1 .. 0 : a[j] = b[j]
    OBVIOUS
  <2>1. k = 0
    <3>1. k # 0 => k \in 1 .. Len(b)
      OBVIOUS
    <3> QED BY <1>2, <1>3, <3>1
  <2> QED BY <2>1
<1>6. ASSUME NEW i \in 1 .. Len(a), Q(i - 1) PROVE Q(i)
  <2> SUFFICES ASSUME NEW k \in 0 .. Len(b), Chain(a)[i] = Chain(b)[k]
               PROVE  k = i /\ \A j \in 1 .. i : a[j] = b[j]
    OBVIOUS
  <2>1. k # 0
    BY <1>2, <1>3
  <2>2. k \in 1 .. Len(b) /\ k - 1 \in 0 .. Len(b) /\ i - 1 \in 0 .. Len(a)
    BY <1>1, <2>1
  <2>3. Chain(a)[i - 1] = Chain(b)[k - 1] /\ a[i] = b[k]
    BY <1>2, <1>4, <2>2
  <2>4. k - 1 = i - 1 /\ \A j \in 1 .. i - 1 : a[j] = b[j]
    BY <1>6, <2>2, <2>3
  <2>5. k = i /\ \A j \in 1 .. i : j \in 1 .. i - 1 \/ j = i
    BY <2>2, <2>4
  <2> QED BY <2>3, <2>4, <2>5
<1> HIDE DEF Q
<1>7. Bad = {}
  <2> SUFFICES ASSUME Bad # {} PROVE FALSE
    OBVIOUS
  <2>1. PICK i \in Bad : \A k \in Bad : i <= k
    <3>1. Bad \in SUBSET Nat
      OBVIOUS
    <3> HIDE DEF Bad
    <3> QED BY <3>1, Least
  <2>2. i \in 1 .. Len(a) /\ i - 1 \in 0 .. Len(a) /\ ~(i <= i - 1)
    BY <1>1, <1>5
  <2>3. Q(i - 1)
    BY <2>1, <2>2
  <2> QED BY <1>6, <2>1, <2>2, <2>3
<1>8. Q(m)
  BY <1>7
<1>9. n = m /\ \A j \in 1 .. m : a[j] = b[j]
  BY <1>8 DEF Q
<1> QED BY <1>9

(* Events that are the same have the same digests.                         *)
LEMMA ChainFollows ==
  ASSUME NEW a \in Seq(Row), NEW b \in Seq(Row), NEW n \in Nat, n <= Len(a), n <= Len(b),
         \A j \in 1 .. n : a[j] = b[j]
  PROVE  \A k \in 0 .. n : Chain(a)[k] = Chain(b)[k]
<1> DEFINE Bad == { k \in 0 .. n : Chain(a)[k] # Chain(b)[k] }
<1>1. Len(a) \in Nat /\ Len(b) \in Nat
  OBVIOUS
<1>2. /\ Chain(a)[0] = Chain(b)[0]
      /\ \A k \in 1 .. Len(a) : Chain(a)[k] = ChainFold(Chain(a)[k - 1], a[k])
      /\ \A k \in 1 .. Len(b) : Chain(b)[k] = ChainFold(Chain(b)[k - 1], b[k])
  BY ChainSteps
<1>3. Bad = {}
  <2> SUFFICES ASSUME Bad # {} PROVE FALSE
    OBVIOUS
  <2>1. PICK k \in Bad : \A j \in Bad : k <= j
    <3>1. Bad \in SUBSET Nat
      OBVIOUS
    <3> HIDE DEF Bad
    <3> QED BY <3>1, Least
  <2>2. /\ k \in 1 .. n /\ k - 1 \in 0 .. n /\ ~(k <= k - 1)
        /\ k \in 1 .. Len(a) /\ k \in 1 .. Len(b)
    BY <1>1, <1>2
  <2>3. Chain(a)[k - 1] = Chain(b)[k - 1]
    BY <2>1, <2>2
  <2>4. Chain(a)[k] = Chain(b)[k]
    BY <1>2, <2>2, <2>3
  <2> QED BY <2>1, <2>4
<1> QED BY <1>3

LEMMA MinIs ==
  ASSUME NEW S \in SUBSET Nat, NEW m \in S, \A y \in S : m <= y
  PROVE  Min(S) = m
<1>1. \A x \in S : (\A y \in S : x <= y) => x = m
  OBVIOUS
<1> QED BY <1>1 DEF Min

LEMMA MaxOfTwo ==
  ASSUME NEW x \in Int, NEW y \in Int
  PROVE  Max({x, y}) = IF x >= y THEN x ELSE y
<1> DEFINE m == IF x >= y THEN x ELSE y
<1>1. m \in {x, y} /\ \A z \in {x, y} : m >= z
  OBVIOUS
<1>2. \A w \in {x, y} : (\A z \in {x, y} : w >= z) => w = m
  OBVIOUS
<1> HIDE DEF m
<1>3. Max({x, y}) = m
  BY <1>1, <1>2 DEF Max
<1> QED BY <1>3 DEF m

(* The events the two traces are compared over.                            *)
Common(a, b) == Min({Len(ChainDigests(a)), Len(ChainDigests(b))})

Differing(a, b) == {k \in 1 .. Common(a, b) : ChainDigests(a)[k] # ChainDigests(b)[k]}

LEMMA GateReads ==
  ASSUME NEW a, NEW b, NEW context
  PROVE  FirstDivergence(a, b, context) =
           CASE Differing(a, b) # {} -> {Divergence(a, b, Min(Differing(a, b)) - 1, context)}
             [] Differing(a, b) = {} /\ Len(a) # Len(b) -> {Divergence(a, b, Common(a, b), context)}
             [] OTHER -> Identical
BY DEF FirstDivergence, Differing, Common

LEMMA CommonIs ==
  ASSUME NEW a \in Seq(Row), NEW b \in Seq(Row)
  PROVE  /\ Common(a, b) = IF Len(a) <= Len(b) THEN Len(a) ELSE Len(b)
         /\ \A k \in 1 .. Common(a, b) :
              ChainDigests(a)[k] = Chain(a)[k] /\ ChainDigests(b)[k] = Chain(b)[k]
<1>1. /\ Len(a) \in Nat /\ Len(b) \in Nat /\ DOMAIN a = 1 .. Len(a) /\ DOMAIN b = 1 .. Len(b)
  OBVIOUS
<1>2. ASSUME NEW s \in Seq(Row)
      PROVE  Len(ChainDigests(s)) = Len(s) /\ \A k \in 1 .. Len(s) : ChainDigests(s)[k] = Chain(s)[k]
  <2>1. ChainDigests(s) = [k \in 1 .. Len(s) |-> Chain(s)[k]]
    BY DEF ChainDigests
  <2>2. Len(s) \in Nat
    OBVIOUS
  <2> QED BY <2>1, <2>2
<1>3. Common(a, b) = Min({Len(a), Len(b)})
  BY <1>2 DEF Common
<1>4. Common(a, b) = IF Len(a) <= Len(b) THEN Len(a) ELSE Len(b)
  <2>1. CASE Len(a) <= Len(b)
    <3>1. {Len(a), Len(b)} \in SUBSET Nat /\ \A y \in {Len(a), Len(b)} : Len(a) <= y
      BY <1>1, <2>1
    <3>2. Min({Len(a), Len(b)}) = Len(a)
      BY <3>1, MinIs
    <3> QED BY <1>3, <2>1, <3>2
  <2>2. CASE ~(Len(a) <= Len(b))
    <3>1. {Len(a), Len(b)} \in SUBSET Nat /\ \A y \in {Len(a), Len(b)} : Len(b) <= y
      BY <1>1, <2>2
    <3>2. Min({Len(a), Len(b)}) = Len(b)
      BY <3>1, MinIs
    <3> QED BY <1>3, <2>2, <3>2
  <2> QED BY <2>1, <2>2
<1>5. \A k \in 1 .. Common(a, b) : k \in 1 .. Len(a) /\ k \in 1 .. Len(b)
  BY <1>1, <1>4
<1> QED BY <1>2, <1>4, <1>5

(* Two traces that agree as far as the shorter goes.                       *)
LEMMA GateAgrees ==
  ASSUME NEW a \in Seq(Row), NEW b \in Seq(Row), NEW context, Len(b) <= Len(a),
         \A j \in 1 .. Len(b) : a[j] = b[j]
  PROVE  FirstDivergence(a, b, context)
           = IF Len(a) = Len(b) THEN Identical ELSE {Divergence(a, b, Len(b), context)}
<1>1. Len(a) \in Nat /\ Len(b) \in Nat
  OBVIOUS
<1>2. Common(a, b) = Len(b)
  BY <1>1, CommonIs
<1>3. \A k \in 0 .. Len(b) : Chain(a)[k] = Chain(b)[k]
  <2> DEFINE n == Len(b)
  <2>1. n \in Nat /\ n <= Len(a) /\ n <= Len(b) /\ \A j \in 1 .. n : a[j] = b[j]
    BY <1>1
  <2> HIDE DEF n
  <2>2. \A k \in 0 .. n : Chain(a)[k] = Chain(b)[k]
    BY <2>1, ChainFollows
  <2> QED BY <2>2 DEF n
<1>4. Differing(a, b) = {}
  <2>1. \A k \in 1 .. Common(a, b) : k \in 0 .. Len(b)
    BY <1>1, <1>2
  <2> QED BY <1>3, <2>1, CommonIs DEF Differing
<1>5. CASE Len(a) = Len(b)
  BY <1>4, <1>5, GateReads
<1>6. CASE Len(a) # Len(b)
  BY <1>2, <1>4, <1>6, GateReads
<1> QED BY <1>5, <1>6

(* Two traces that part at an event both have.                             *)
LEMMA GateParts ==
  ASSUME NEW a \in Seq(Row), NEW b \in Seq(Row), NEW context,
         NEW p \in Nat \ {0}, p <= Len(a), p <= Len(b),
         \A j \in 1 .. p - 1 : a[j] = b[j], a[p] # b[p]
  PROVE  FirstDivergence(a, b, context) = {Divergence(a, b, p - 1, context)}
<1>1. Len(a) \in Nat /\ Len(b) \in Nat
  OBVIOUS
<1>2. Common(a, b) \in Nat /\ p \in 1 .. Common(a, b)
  BY <1>1, CommonIs
<1>3. \A k \in 1 .. Common(a, b) : k \in 0 .. Len(a) /\ k \in 0 .. Len(b)
  BY <1>1, CommonIs
<1>4. ASSUME NEW k \in 1 .. p - 1 PROVE Chain(a)[k] = Chain(b)[k]
  <2> DEFINE n == p - 1
  <2>1. n \in Nat /\ n <= Len(a) /\ n <= Len(b) /\ \A j \in 1 .. n : a[j] = b[j]
    BY <1>1
  <2>2. k \in 0 .. n
    OBVIOUS
  <2> HIDE DEF n
  <2>3. \A j \in 0 .. n : Chain(a)[j] = Chain(b)[j]
    BY <2>1, ChainFollows
  <2> QED BY <2>2, <2>3
<1>5. Chain(a)[p] # Chain(b)[p]
  <2> SUFFICES ASSUME Chain(a)[p] = Chain(b)[p] PROVE FALSE
    OBVIOUS
  <2>1. p \in 0 .. Len(a) /\ p \in 0 .. Len(b) /\ p \in 1 .. p
    BY <1>1
  <2>2. \A j \in 1 .. p : a[j] = b[j]
    BY <2>1, ChainTells
  <2> QED BY <2>1, <2>2
<1> DEFINE D == Differing(a, b)
<1>6. p \in D /\ \A y \in D : p <= y
  <2>1. p \in D
    BY <1>2, <1>5, CommonIs DEF Differing
  <2>2. ASSUME NEW y \in D PROVE p <= y
    <3>1. y \in 1 .. Common(a, b) /\ Chain(a)[y] # Chain(b)[y]
      BY CommonIs DEF Differing
    <3>2. y \notin 1 .. p - 1
      BY <1>4, <3>1
    <3> QED BY <1>2, <3>1, <3>2
  <2> QED BY <2>1, <2>2
<1>7. D \in SUBSET Nat
  BY <1>2 DEF Differing
<1> HIDE DEF D
<1>8. Min(D) = p /\ D # {}
  BY <1>6, <1>7, MinIs
<1> QED BY <1>8, GateReads DEF D

(* The same, of two traces that have a first difference.                   *)
FirstAt(a, b, p) ==
  /\ p <= Len(a) /\ p <= Len(b)
  /\ a[p] # b[p] /\ \A j \in 1 .. p - 1 : a[j] = b[j]

LEMMA GateFirst ==
  \A a, b \in Seq(Row) : \A p \in Nat \ {0} :
     FirstAt(a, b, p) => FirstDivergence(a, b, 3) = {Divergence(a, b, p - 1, 3)}
<1> SUFFICES ASSUME NEW a \in Seq(Row), NEW b \in Seq(Row), NEW p \in Nat \ {0}, FirstAt(a, b, p)
             PROVE  FirstDivergence(a, b, 3) = {Divergence(a, b, p - 1, 3)}
  BY Zenon
<1>1. p <= Len(a) /\ p <= Len(b)
  BY Zenon DEF FirstAt
<1>2. a[p] # b[p] /\ \A j \in 1 .. p - 1 : a[j] = b[j]
  BY Zenon DEF FirstAt
<1> QED BY <1>1, <1>2, GateParts

(* Whatever two runs did alike before, the gate names the place where they *)
(* part: a run that stopped short, one whose events of one instant ran in  *)
(* another order, and one that recorded an event at another instant, are   *)
(* told from this run at exactly that event.                               *)
THEOREM GateNames == Spec => []DivergenceFound
<1>1. ASSUME Base PROVE DivergenceFound
  <2> DEFINE n == Len(trace)
             later(k) == [trace[k] EXCEPT !.at = @ + 1]
             altered(k) == [trace EXCEPT ![k] = later(k)]
             swapped(k) == [trace EXCEPT ![k] = trace[k + 1], ![k + 1] = trace[k]]
             context(k) == SubSeq(trace, Max({1, k - 2}), k)
  <2>1. trace \in Seq(Row) /\ n \in Nat /\ DOMAIN trace = 1 .. n
    BY <1>1 DEF Base, Typed
  <2>2. ASSUME NEW k \in Nat PROVE SubSeq(trace, Max({0, k - 3}) + 1, k) = context(k)
    <3>1. Max({0, k - 3}) = IF 0 >= k - 3 THEN 0 ELSE k - 3
      BY MaxOfTwo
    <3>2. Max({1, k - 2}) = IF 1 >= k - 2 THEN 1 ELSE k - 2
      BY MaxOfTwo
    <3>3. Max({0, k - 3}) + 1 = Max({1, k - 2})
      BY <3>1, <3>2
    <3> QED BY <3>3
  <2>3. FirstDivergence(trace, trace, 3) = Identical
    BY <2>1, GateAgrees
  <2>4. ASSUME NEW k \in 0 .. n - 1
        PROVE  /\ FirstDivergence(trace, SubSeq(trace, 1, k), 3)
                    = {[index |-> k, a |-> trace[k + 1], b |-> NoEvent, context |-> context(k)]}
               /\ Fingerprint(SubSeq(trace, 1, k)) # Fingerprint(trace)
    <3> DEFINE b == SubSeq(trace, 1, k)
    <3> HIDE DEF n
    <3>1. k \in Nat /\ k < n /\ k <= n /\ k # n /\ \A j \in 1 .. k : j \in 1 .. n
      <4>1. k \in Int /\ 0 <= k /\ k <= n - 1
        BY <2>1
      <4> QED BY <2>1, <4>1
    <3>2. b \in Seq(Row) /\ Len(b) = k /\ \A j \in 1 .. k : b[j] = trace[j]
      <4>1. n = Len(trace)
        BY DEF n
      <4>2. k \in Int /\ \A j \in 1 .. k : trace[j] \in Row
        <5>1. k \in Int /\ \A j \in 1 .. k : j \in 1 .. Len(trace)
          BY <3>1, <4>1
        <5> QED BY <2>1, <5>1, ElementOfSeq
      <4>3. /\ b \in Seq(Row) /\ Len(b) = IF 1 <= k THEN k - 1 + 1 ELSE 0
            /\ \A j \in 1 .. k - 1 + 1 : b[j] = trace[1 + j - 1]
        BY <4>2, SubSeqProperties
      <4>4. /\ \A j \in 1 .. k : 1 + j - 1 = j
            /\ k - 1 + 1 = k /\ (IF 1 <= k THEN k - 1 + 1 ELSE 0) = k
        BY <3>1
      <4> HIDE DEF b
      <4> QED BY <4>3, <4>4
    <3> HIDE DEF b
    <3>3. FirstDivergence(trace, b, 3) = {Divergence(trace, b, k, 3)}
      <4>1. Len(b) <= Len(trace) /\ Len(trace) # Len(b) /\ \A j \in 1 .. Len(b) : trace[j] = b[j]
        BY <3>1, <3>2 DEF n
      <4>2. FirstDivergence(trace, b, 3) = {Divergence(trace, b, Len(b), 3)}
        BY <2>1, <3>2, <4>1, GateAgrees
      <4> QED BY <3>2, <4>2
    <3>4. Divergence(trace, b, k, 3)
            = [index |-> k, a |-> trace[k + 1], b |-> NoEvent, context |-> context(k)]
      <4>1. k < Len(trace) /\ ~(k < Len(b))
        BY <3>1, <3>2 DEF n
      <4>2. SubSeq(trace, Max({0, k - 3}) + 1, k) = context(k)
        BY <2>2, <3>1
      <4> HIDE DEF context, n
      <4> QED BY <4>1, <4>2 DEF Divergence
    <3>5. Fingerprint(b) # Fingerprint(trace)
      <4>1. k \in 0 .. Len(b) /\ n \in 0 .. Len(trace)
        <5>1. Len(b) = k /\ Len(trace) = n
          BY <3>2 DEF n
        <5>2. k \in 0 .. k /\ n \in 0 .. n
          BY <2>1, <3>1
        <5> QED BY <5>1, <5>2
      <4>2. Chain(b)[k] = Chain(trace)[n] => k = n
        BY <2>1, <3>2, <4>1, ChainTells
      <4> QED BY <3>1, <3>2, <4>2 DEF Fingerprint, n
    <3> QED BY <3>3, <3>4, <3>5 DEF b
  <2>5. ASSUME NEW k \in 1 .. n - 1, trace[k] # trace[k + 1]
        PROVE  /\ FirstDivergence(trace, swapped(k), 3)
                    = {[index |-> k - 1, a |-> trace[k], b |-> trace[k + 1],
                        context |-> context(k - 1)]}
               /\ Fingerprint(swapped(k)) # Fingerprint(trace)
    <3> DEFINE b == swapped(k)
    <3>1. /\ k \in Nat \ {0} /\ k <= n /\ k \in 1 .. n /\ k + 1 \in 1 .. n /\ k # k + 1
          /\ k - 1 \in Nat /\ k - 1 < n /\ (k - 1) + 1 = k
      BY <2>1
    <3>2. b \in Seq(Row) /\ Len(b) = n /\ b[k] = trace[k + 1]
          /\ \A j \in 1 .. k - 1 : b[j] = trace[j]
      <4>1. trace[k] \in Row /\ trace[k + 1] \in Row
        BY <2>1, <3>1, ElementOfSeq
      <4>2. b \in Seq(Row) /\ Len(b) = n
        BY <2>1, <3>1, <4>1
      <4>3. b[k] = trace[k + 1]
        BY <2>1, <3>1
      <4>4. ASSUME NEW j \in 1 .. k - 1 PROVE b[j] = trace[j]
        <5>1. j \in 1 .. n /\ j # k /\ j # k + 1
          BY <3>1
        <5> QED BY <2>1, <5>1
      <4> QED BY <4>2, <4>3, <4>4
    <3> HIDE DEF b
    <3>3. FirstDivergence(trace, b, 3) = {Divergence(trace, b, k - 1, 3)}
      <4>1. k <= Len(trace) /\ k <= Len(b) /\ trace[k] # b[k] /\ \A j \in 1 .. k - 1 : trace[j] = b[j]
        BY <2>5, <3>1, <3>2
      <4>2. k \in Nat \ {0} /\ trace \in Seq(Row) /\ b \in Seq(Row)
        BY <2>1, <3>1, <3>2
      <4> HIDE DEF n, later, altered, swapped, context
      <4>3. FirstAt(trace, b, k)
        BY <4>1, Zenon DEF FirstAt
      <4> QED BY <4>2, <4>3, GateFirst, Zenon
    <3>4. Divergence(trace, b, k - 1, 3)
            = [index |-> k - 1, a |-> trace[k], b |-> trace[k + 1], context |-> context(k - 1)]
      <4> DEFINE i == k - 1
      <4>1. i < Len(trace) /\ i < Len(b) /\ i + 1 = k /\ i \in Nat
        BY <3>1, <3>2
      <4>2. SubSeq(trace, Max({0, i - 3}) + 1, i) = context(i)
        BY <2>2, <4>1
      <4> HIDE DEF context, n, i
      <4>3. Divergence(trace, b, i, 3)
              = [index |-> i, a |-> trace[k], b |-> trace[k + 1], context |-> context(i)]
        BY <3>2, <4>1, <4>2 DEF Divergence
      <4> QED BY <4>3 DEF i
    <3>5. Fingerprint(b) # Fingerprint(trace)
      <4>1. n \in 0 .. Len(b) /\ n \in 0 .. Len(trace)
        BY <2>1, <3>2
      <4>2. trace[k] # b[k]
        BY <2>5, <3>2
      <4>3. Chain(b)[n] # Chain(trace)[n]
        BY <2>1, <3>1, <3>2, <4>1, <4>2, ChainTells
      <4> QED BY <3>2, <4>3 DEF Fingerprint
    <3> QED BY <3>3, <3>4, <3>5 DEF b
  <2>7. ASSUME NEW k \in 1 .. n
        PROVE  /\ FirstDivergence(trace, altered(k), 3)
                    = {[index |-> k - 1, a |-> trace[k], b |-> later(k), context |-> context(k - 1)]}
               /\ Fingerprint(altered(k)) # Fingerprint(trace)
    <3> DEFINE b == altered(k)
               e == later(k)
    <3>1. /\ k \in Nat \ {0} /\ k <= n /\ k - 1 \in Nat /\ k - 1 < n /\ (k - 1) + 1 = k
      BY <2>1
    <3>2. e \in Row /\ trace[k] # e
      <4>1. trace[k] \in Row
        BY <2>1, ElementOfSeq
      <4> DEFINE row == trace[k]
      <4>2. e = [row EXCEPT !.at = row.at + 1] /\ row \in Row
        BY <4>1
      <4> HIDE DEF row, e
      <4>3. row.at \in Nat /\ row.at + 1 \in Nat /\ row.at + 1 # row.at
        BY <4>2 DEF Row
      <4>4. e \in Row /\ e.at = row.at + 1
        BY <4>2, <4>3 DEF Row
      <4> QED BY <4>3, <4>4 DEF row
    <3>3. b = [trace EXCEPT ![k] = e]
      OBVIOUS
    <3> HIDE DEF b, e
    <3>4. b \in Seq(Row) /\ Len(b) = n /\ b[k] = e /\ \A j \in 1 .. k - 1 : b[j] = trace[j]
      <4>1. b \in Seq(Row) /\ Len(b) = n /\ b[k] = e
        BY <2>1, <3>2, <3>3
      <4>2. ASSUME NEW j \in 1 .. k - 1 PROVE b[j] = trace[j]
        <5>1. j \in 1 .. n /\ j # k
          BY <3>1
        <5> QED BY <2>1, <3>3, <5>1
      <4> QED BY <4>1, <4>2
    <3>5. FirstDivergence(trace, b, 3) = {Divergence(trace, b, k - 1, 3)}
      <4>1. k <= Len(trace) /\ k <= Len(b) /\ trace[k] # b[k] /\ \A j \in 1 .. k - 1 : trace[j] = b[j]
        BY <3>1, <3>2, <3>4
      <4>2. k \in Nat \ {0} /\ trace \in Seq(Row) /\ b \in Seq(Row)
        BY <2>1, <3>1, <3>4
      <4> HIDE DEF n, later, altered, swapped, context
      <4>3. FirstAt(trace, b, k)
        BY <4>1, Zenon DEF FirstAt
      <4> QED BY <4>2, <4>3, GateFirst, Zenon
    <3>6. Divergence(trace, b, k - 1, 3)
            = [index |-> k - 1, a |-> trace[k], b |-> e, context |-> context(k - 1)]
      <4> DEFINE i == k - 1
      <4>1. i < Len(trace) /\ i < Len(b) /\ i + 1 = k /\ i \in Nat
        BY <3>1, <3>4
      <4>2. SubSeq(trace, Max({0, i - 3}) + 1, i) = context(i)
        BY <2>2, <4>1
      <4> HIDE DEF context, n, i
      <4>3. Divergence(trace, b, i, 3)
              = [index |-> i, a |-> trace[k], b |-> e, context |-> context(i)]
        BY <3>4, <4>1, <4>2 DEF Divergence
      <4> QED BY <4>3 DEF i
    <3>7. Fingerprint(b) # Fingerprint(trace)
      <4>1. n \in 0 .. Len(b) /\ n \in 0 .. Len(trace) /\ k \in 1 .. n
        BY <2>1, <3>4
      <4>2. trace[k] # b[k]
        BY <3>2, <3>4
      <4>3. Chain(b)[n] # Chain(trace)[n]
        BY <2>1, <3>4, <4>1, <4>2, ChainTells
      <4> QED BY <3>4, <4>3 DEF Fingerprint
    <3> QED BY <3>5, <3>6, <3>7 DEF b, e
  <2> HIDE DEF n, swapped, altered, later, context
  <2>6. /\ FirstDivergence(trace, trace, 3) = Identical
        /\ \A k \in 0 .. n - 1 :
              /\ FirstDivergence(trace, SubSeq(trace, 1, k), 3)
                    = {[index |-> k, a |-> trace[k + 1], b |-> NoEvent, context |-> context(k)]}
              /\ Fingerprint(SubSeq(trace, 1, k)) # Fingerprint(trace)
        /\ \A k \in 1 .. n :
              /\ FirstDivergence(trace, altered(k), 3)
                    = {[index |-> k - 1, a |-> trace[k], b |-> later(k), context |-> context(k - 1)]}
              /\ Fingerprint(altered(k)) # Fingerprint(trace)
        /\ \A k \in 1 .. n - 1 :
              trace[k] # trace[k + 1] =>
                 /\ FirstDivergence(trace, swapped(k), 3)
                       = {[index |-> k - 1, a |-> trace[k], b |-> trace[k + 1],
                           context |-> context(k - 1)]}
                 /\ Fingerprint(swapped(k)) # Fingerprint(trace)
    BY <2>3, <2>4, <2>5, <2>7
  <2> QED BY <2>6, Zenon DEF DivergenceFound, n, swapped, altered, later, context
<1>2. Base => DivergenceFound
  BY <1>1
<1> QED BY <1>2, BaseInvariant, PTL

=============================================================================
