------------------------- MODULE LiveExampleProofs -------------------------
(***************************************************************************)
(* Theorems about LiveExample, for any job, keys, clients and requests,    *)
(* whatever fails and whoever hangs up: while no role has failed, nobody   *)
(* is at work when the store goes; and a gather lists what was stored when *)
(* it began and was not touched since, the seed of every worker included.  *)
(***************************************************************************)
EXTENDS LiveExample, SequenceTheorems, TLAPS

-----------------------------------------------------------------------------
(* Plans and names.                                                        *)

Of(n) == UNION { Range(Plan(n, r)) : r \in 0 .. (n - 1) }

LEMMA PlanKinds ==
  ASSUME NEW n \in Worlds, NEW r \in 0 .. (n - 1), NEW w \in Range(Plan(n, r))
  PROVE  \/ n = 1 /\ \E i \in Nat : w = Trainer(i)
         \/ n = 1 /\ \E j \in Nat : w = Generator(j, j % NUM_TRAINERS)
         \/ n > 1 /\ r < n \div 2 /\ w = Trainer(r)
         \/ /\ n > 1 /\ r >= n \div 2 /\ r < n - 1
            /\ w = Generator(r - n \div 2, (r - n \div 2) % (n \div 2))
<1>1. n \in Nat /\ n >= 1 /\ NUM_TRAINERS \in Nat /\ NUM_GENERATORS \in Nat /\ r \in Nat
  BY LiveAssumption
<1>2. CASE n = 1
  <2> DEFINE ts == [i \in 1 .. NUM_TRAINERS |-> Trainer(i - 1)]
             gs == [i \in 1 .. NUM_GENERATORS |-> Generator(i - 1, (i - 1) % NUM_TRAINERS)]
  <2>0. ~ (n > 1)
    BY <1>2
  <2>1. Plan(n, r) = ts \o gs
    BY <1>2, <2>0, Zenon DEF Plan
  <2>2. PICK x \in DOMAIN (ts \o gs) : w = (ts \o gs)[x]
    BY <2>1 DEF Range
  <2>3. Len(ts) = NUM_TRAINERS /\ Len(gs) = NUM_GENERATORS
    BY <1>1
  <2>4. x \in 1 .. NUM_TRAINERS + NUM_GENERATORS
    BY <1>1, <2>2, <2>3
  <2>5. CASE x <= NUM_TRAINERS
    <3>1. w = ts[x]
      BY <1>1, <2>2, <2>3, <2>4, <2>5
    <3>2. x - 1 \in Nat /\ w = Trainer(x - 1)
      BY <1>1, <2>4, <2>5, <3>1
    <3> QED BY <1>2, <3>2
  <2>6. CASE x > NUM_TRAINERS
    <3> DEFINE y == x - NUM_TRAINERS
    <3>1. y \in 1 .. NUM_GENERATORS /\ w = gs[y]
      BY <1>1, <2>2, <2>3, <2>4, <2>6
    <3>2. y - 1 \in Nat /\ w = Generator(y - 1, (y - 1) % NUM_TRAINERS)
      BY <1>1, <3>1
    <3> QED BY <1>2, <3>2
  <2> QED BY <1>1, <2>4, <2>5, <2>6
<1>3. CASE n > 1
  <2> DEFINE t == n \div 2
  <2>1. t \in Nat /\ t <= n - 1
    BY <1>1, <1>3
  <2>2. r # n - 1
    <3> SUFFICES ASSUME r = n - 1 PROVE FALSE
      OBVIOUS
    <3>1. n # 1 /\ ~ (r < t)
      BY <1>1, <1>3, <2>1
    <3>2. Plan(n, r) = << >>
      BY <1>3, <3>1, Zenon DEF Plan
    <3> QED BY <3>2 DEF Range
  <2>3. CASE r < t
    <3>1. Plan(n, r) = <<Trainer(r)>>
      BY <1>1, <1>3, <2>2, <2>3 DEF Plan
    <3> QED BY <1>3, <2>3, <3>1 DEF Range
  <2>4. CASE ~ (r < t)
    <3>1. Plan(n, r) = <<Generator(r - t, (r - t) % t)>>
      BY <1>1, <1>3, <2>2, <2>4 DEF Plan
    <3>2. w = Generator(r - t, (r - t) % t)
      BY <3>1 DEF Range
    <3> QED BY <1>1, <1>3, <2>1, <2>2, <2>4, <3>2
  <2> QED BY <2>3, <2>4
<1> QED BY <1>1, <1>2, <1>3

(* No worker is on two ranks. *)
LEMMA PlansApart ==
  ASSUME NEW n \in Worlds, NEW r \in 0 .. (n - 1), NEW q \in 0 .. (n - 1),
         NEW w \in Range(Plan(n, r)), w \in Range(Plan(n, q))
  PROVE  r = q
<1>1. n \in Nat /\ n >= 1 /\ n \div 2 \in Nat /\ r \in Nat /\ q \in Nat
  BY LiveAssumption
<1>2. CASE n = 1
  BY <1>1, <1>2
<1>3. CASE n > 1
  <2>1. w = Trainer(r) \/ w = Generator(r - n \div 2, (r - n \div 2) % (n \div 2))
    BY <1>1, <1>3, PlanKinds
  <2>2. w = Trainer(q) \/ w = Generator(q - n \div 2, (q - n \div 2) % (n \div 2))
    BY <1>1, <1>3, PlanKinds
  <2> QED BY <1>1, <2>1, <2>2 DEF Trainer, Generator
<1> QED BY <1>1, <1>2, <1>3

(* A worker of a job is its role and its number. *)
LEMMA WorkersNamed ==
  ASSUME NEW n \in Worlds, NEW v \in Of(n), NEW w \in Of(n), v.role = w.role, v.id = w.id
  PROVE  v = w
<1>1. PICK r \in 0 .. (n - 1) : v \in Range(Plan(n, r))
  BY DEF Of
<1>2. PICK q \in 0 .. (n - 1) : w \in Range(Plan(n, q))
  BY DEF Of
<1>3. n \in Nat /\ n >= 1 /\ n \div 2 \in Nat
  BY LiveAssumption
<1>4. CASE n = 1
  <2>1. (\E i \in Nat : v = Trainer(i)) \/ \E j \in Nat : v = Generator(j, j % NUM_TRAINERS)
    BY <1>1, <1>4, PlanKinds
  <2>2. (\E i \in Nat : w = Trainer(i)) \/ \E j \in Nat : w = Generator(j, j % NUM_TRAINERS)
    BY <1>2, <1>4, PlanKinds
  <2> QED BY <2>1, <2>2 DEF Trainer, Generator
<1>5. CASE n > 1
  <2>1. v = Trainer(r) \/ v = Generator(r - n \div 2, (r - n \div 2) % (n \div 2))
    BY <1>1, <1>3, <1>5, PlanKinds
  <2>2. w = Trainer(q) \/ w = Generator(q - n \div 2, (q - n \div 2) % (n \div 2))
    BY <1>2, <1>3, <1>5, PlanKinds
  <2> QED BY <1>3, <2>1, <2>2 DEF Trainer, Generator
<1> QED BY <1>3, <1>4, <1>5

LEMMA WorkersOf ==
  /\ \A n \in Worlds : Of(n) \subseteq Workers
  /\ \A w \in Workers : \E n \in Worlds : w \in Of(n)
BY DEF Workers, Of

LEMMA Roles ==
  ASSUME NEW w \in Workers
  PROVE  w.role \in {"trainer", "generator"}
<1>1. PICK n \in Worlds : w \in Of(n)
  BY WorkersOf
<1>2. PICK r \in 0 .. (n - 1) : w \in Range(Plan(n, r))
  BY <1>1 DEF Of
<1>3. \/ \E i : w = Trainer(i)
      \/ \E j, i : w = Generator(j, i)
  BY <1>2, PlanKinds
<1> QED BY <1>3 DEF Trainer, Generator

(* Short sequences of characters. *)
Chars == Range(Alphabet)

LEMMA One ==
  ASSUME NEW S, NEW a \in S
  PROVE  <<a>> \in Seq(S) /\ Len(<<a>>) = 1 /\ <<a>>[1] = a
OBVIOUS

LEMMA Three ==
  ASSUME NEW S, NEW a \in S, NEW b \in S, NEW c \in S
  PROVE  <<a, b, c>> \in Seq(S) /\ Len(<<a, b, c>>) = 3
OBVIOUS

LEMMA Four ==
  ASSUME NEW S, NEW a \in S, NEW b \in S, NEW c \in S, NEW d \in S
  PROVE  /\ <<a, b, c, d>> \in Seq(S) /\ Len(<<a, b, c, d>>) = 4
         /\ <<a, b, c, d>>[1] = a /\ <<a, b, c, d>>[3] = c
OBVIOUS

(* What a concatenation is. *)
LEMMA Joined ==
  ASSUME NEW S, NEW a \in Seq(S), NEW b \in Seq(S)
  PROVE  /\ a \o b \in Seq(S) /\ Len(a \o b) = Len(a) + Len(b)
         /\ Len(a) \in Nat /\ Len(b) \in Nat
         /\ \A i \in 1 .. Len(a) : (a \o b)[i] = a[i]
         /\ \A i \in 1 .. Len(b) : (a \o b)[Len(a) + i] = b[i]
OBVIOUS

(* The names of the parts, as strings. *)
LEMMA Parts ==
  /\ <<"s">> \in Seq(Chars) /\ <<"m">> \in Seq(Chars) /\ <<"o", Dot, "m">> \in Seq(Chars)
  /\ Len(<<"s">>) = 1 /\ Len(<<"m">>) = 1 /\ Len(<<"o", Dot, "m">>) = 3
<1>1. "s" \in Chars /\ "m" \in Chars /\ "o" \in Chars /\ Dot \in Chars
  BY LiveAssumption DEF Chars
<1> QED BY <1>1, One, Three

(* A name says whose it is, and then what. *)
Stem(w) == <<IF w.role = "trainer" THEN "t" ELSE "g", Dot, Digit[w.id], Dot>>

LEMMA NameParts ==
  ASSUME NEW w \in Workers, NEW p \in Seq(Chars)
  PROVE  /\ Name(w, p) = Stem(w) \o p /\ Stem(w) \in Seq(Chars)
         /\ Name(w, p)[1] = IF w.role = "trainer" THEN "t" ELSE "g"
         /\ Name(w, p)[3] = Digit[w.id]
<1>1. Digit[w.id] \in Chars
  BY LiveAssumption DEF Chars
<1>2. /\ Stem(w) \in Seq(Chars) /\ Len(Stem(w)) = 4
      /\ Stem(w)[1] = (IF w.role = "trainer" THEN "t" ELSE "g") /\ Stem(w)[3] = Digit[w.id]
  <2> DEFINE h == IF w.role = "trainer" THEN "t" ELSE "g"
  <2>1. h \in Chars /\ Dot \in Chars
    BY LiveAssumption DEF Chars
  <2> HIDE DEF h
  <2>2. Stem(w) = <<h, Dot, Digit[w.id], Dot>>
    BY DEF Stem, h
  <2>3. Stem(w) \in Seq(Chars) /\ Len(Stem(w)) = 4 /\ Stem(w)[1] = h /\ Stem(w)[3] = Digit[w.id]
    BY <1>1, <2>1, <2>2, Four
  <2> QED BY <2>3 DEF h
<1>3. Name(w, p) = Stem(w) \o p
  BY DEF Name, Stem
<1>4. (Stem(w) \o p)[1] = Stem(w)[1] /\ (Stem(w) \o p)[3] = Stem(w)[3]
  <2> DEFINE a == Stem(w)
  <2>1. a \in Seq(Chars) /\ p \in Seq(Chars)
    BY <1>2
  <2>2. 1 \in 1 .. Len(a) /\ 3 \in 1 .. Len(a)
    BY <1>2
  <2> HIDE DEF a
  <2>3. \A i \in 1 .. Len(a) : (a \o p)[i] = a[i]
    BY ONLY <2>1, Joined
  <2>4. (a \o p)[1] = a[1] /\ (a \o p)[3] = a[3]
    BY ONLY <2>2, <2>3
  <2> QED BY <2>4 DEF a
<1> QED BY <1>2, <1>3, <1>4

KeysOf(w) == SeedKeys(w) \union {RotatedKey(w)}

LEMMA KeyNames ==
  ASSUME NEW w \in Workers, NEW k \in KeysOf(w)
  PROVE  \E p \in Seq(Chars) : k = Name(w, p)
<1>1. /\ <<"s">> \in Seq(Chars) /\ <<"m">> \in Seq(Chars) /\ <<"o", Dot, "m">> \in Seq(Chars)
  BY Parts
<1>2. \A t \in Range(Tensors) : t \in Seq(Chars)
  <2>1. Tensors \in Seq(Seq(Chars))
    BY LiveAssumption DEF Chars
  <2> QED BY <2>1 DEF Range
<1> QED BY <1>1, <1>2 DEF KeysOf, SeedKeys, RotatedKey, StepKey, MetaKey

(* Two workers of a job share no key. *)
LEMMA KeysApart ==
  ASSUME NEW n \in Worlds, NEW v \in Of(n), NEW w \in Of(n), NEW k \in KeysOf(v), k \in KeysOf(w)
  PROVE  v = w
<1>1. v \in Workers /\ w \in Workers
  BY WorkersOf
<1>2. PICK p \in Seq(Chars) : k = Name(v, p)
  BY <1>1, KeyNames
<1>3. PICK q \in Seq(Chars) : k = Name(w, q)
  BY <1>1, KeyNames
<1>4. /\ k[1] = IF v.role = "trainer" THEN "t" ELSE "g"
      /\ k[1] = IF w.role = "trainer" THEN "t" ELSE "g"
      /\ k[3] = Digit[v.id] /\ k[3] = Digit[w.id]
  <2>1. Name(v, p)[1] = (IF v.role = "trainer" THEN "t" ELSE "g") /\ Name(v, p)[3] = Digit[v.id]
    BY <1>1, NameParts
  <2>2. Name(w, q)[1] = (IF w.role = "trainer" THEN "t" ELSE "g") /\ Name(w, q)[3] = Digit[w.id]
    BY <1>1, NameParts
  <2> QED BY <1>2, <1>3, <2>1, <2>2
<1>5. v.role = w.role
  BY <1>1, <1>4, Roles
<1>6. v.id = w.id
  BY <1>1, <1>4, LiveAssumption
<1> QED BY <1>5, <1>6, WorkersNamed

(* The optimizer key is none of the seed. *)
LEMMA RotatedApart ==
  ASSUME NEW w \in Workers
  PROVE  RotatedKey(w) \notin SeedKeys(w)
<1> DEFINE o == <<"o", Dot, "m">>
<1>1. <<"s">> \in Seq(Chars) /\ <<"m">> \in Seq(Chars) /\ o \in Seq(Chars)
  BY Parts
<1>2. \A t \in Range(Tensors) : t \in Seq(Chars) /\ t # o
  <2>1. Tensors \in Seq(Seq(Chars))
    BY LiveAssumption DEF Chars
  <2>2. \A t \in Range(Tensors) : t \in Seq(Chars)
    BY <2>1 DEF Range
  <2> QED BY <2>2, LiveAssumption
<1>3. o # <<"s">> /\ o # <<"m">>
  BY Parts
<1>4. RotatedKey(w) = Stem(w) \o o /\ Stem(w) \in Seq(Chars)
  BY <1>1, NameParts DEF RotatedKey
<1> HIDE DEF o
<1>5. \A p \in Seq(Chars) : Stem(w) \o p = Stem(w) \o o => p = o
  BY <1>1, <1>4, ConcatSimplifications
<1>6. \A p \in Seq(Chars) : Name(w, p) = Stem(w) \o p
  BY NameParts
<1>7. StepKey(w) # RotatedKey(w) /\ MetaKey(w) # RotatedKey(w)
  BY <1>1, <1>3, <1>4, <1>5, <1>6 DEF StepKey, MetaKey
<1>8. \A t \in Range(Tensors) : Name(w, t) # RotatedKey(w)
  BY <1>2, <1>4, <1>5, <1>6
<1> QED BY <1>7, <1>8 DEF SeedKeys

-----------------------------------------------------------------------------
(* Scripts.                                                                *)

SeedSeq(w) == <<StepKey(w)>> \o [i \in DOMAIN Tensors |-> Name(w, Tensors[i])] \o <<MetaKey(w)>>

LEMMA SeedSeqKeys ==
  ASSUME NEW w \in Workers
  PROVE  /\ SeedSeq(w) \in Seq(SeedKeys(w)) /\ Len(SeedSeq(w)) = Len(Tensors) + 2
         /\ Range(SeedSeq(w)) = SeedKeys(w)
<1> DEFINE ts == [i \in DOMAIN Tensors |-> Name(w, Tensors[i])]
           K == SeedKeys(w)
<1>1. Tensors \in Seq(Seq(Chars)) /\ Len(Tensors) \in Nat /\ DOMAIN Tensors = 1 .. Len(Tensors)
  BY LiveAssumption DEF Chars
<1>2. /\ StepKey(w) \in K /\ MetaKey(w) \in K /\ \A i \in DOMAIN Tensors : Name(w, Tensors[i]) \in K
      /\ \A k \in K : \/ k = StepKey(w) \/ k = MetaKey(w)
                      \/ \E i \in DOMAIN Tensors : k = Name(w, Tensors[i])
  BY DEF SeedKeys, Range
<1> HIDE DEF K
<1>3. ts \in Seq(K) /\ Len(ts) = Len(Tensors) /\ \A i \in 1 .. Len(Tensors) : ts[i] = Name(w, Tensors[i])
  BY <1>1, <1>2
<1> HIDE DEF ts
<1>4. <<StepKey(w)>> \in Seq(K) /\ <<MetaKey(w)>> \in Seq(K)
  BY <1>2
<1> DEFINE a == <<StepKey(w)>>
           b == <<MetaKey(w)>>
<1>5. Len(a) = 1 /\ Len(b) = 1 /\ a[1] = StepKey(w) /\ b[1] = MetaKey(w) /\ a \in Seq(K) /\ b \in Seq(K)
  BY <1>4
<1> HIDE DEF a, b
<1> DEFINE u == a \o ts
<1>6. /\ u \in Seq(K) /\ Len(u) = 1 + Len(Tensors)
      /\ u[1] = a[1] /\ \A i \in 1 .. Len(Tensors) : u[1 + i] = ts[i]
  <2>1. /\ u \in Seq(K) /\ Len(u) = Len(a) + Len(ts) /\ \A i \in 1 .. Len(a) : u[i] = a[i]
        /\ \A i \in 1 .. Len(ts) : u[Len(a) + i] = ts[i]
    <3>1. a \in Seq(K) /\ ts \in Seq(K)
      BY <1>3, <1>5
    <3> QED BY ONLY <3>1, Joined DEF u
  <2> QED BY <1>1, <1>3, <1>5, <2>1
<1> HIDE DEF u
<1> DEFINE s == u \o b
<1>7. /\ s \in Seq(K) /\ Len(s) = Len(Tensors) + 2
      /\ \A i \in 1 .. 1 + Len(Tensors) : s[i] = u[i]
      /\ s[Len(Tensors) + 2] = b[1]
  <2>1. /\ s \in Seq(K) /\ Len(s) = Len(u) + Len(b) /\ \A i \in 1 .. Len(u) : s[i] = u[i]
        /\ \A i \in 1 .. Len(b) : s[Len(u) + i] = b[i]
    <3>1. u \in Seq(K) /\ b \in Seq(K)
      BY <1>5, <1>6
    <3> QED BY ONLY <3>1, Joined DEF s
  <2> HIDE DEF s
  <2> QED BY <1>1, <1>5, <1>6, <2>1
<1>8. SeedSeq(w) = s
  BY DEF SeedSeq, a, b, ts, u
<1> HIDE DEF s
<1>9. \A k \in K : \E i \in 1 .. Len(Tensors) + 2 : s[i] = k
  <2> TAKE k \in K
  <2>1. CASE k = StepKey(w)
    <3>1. s[1] = k
      BY <1>1, <1>5, <1>6, <1>7, <2>1
    <3> QED BY <1>1, <3>1
  <2>2. CASE k = MetaKey(w)
    BY <1>1, <1>5, <1>7, <2>2
  <2>3. ASSUME NEW i \in DOMAIN Tensors, k = Name(w, Tensors[i])
        PROVE  \E j \in 1 .. Len(Tensors) + 2 : s[j] = k
    <3>1. s[1 + i] = k /\ 1 + i \in 1 .. Len(Tensors) + 2
      <4>1. i \in 1 .. Len(Tensors) /\ 1 + i \in 1 .. 1 + Len(Tensors) /\ 1 + i \in 1 .. Len(Tensors) + 2
        BY <1>1, <2>3
      <4>2. s[1 + i] = u[1 + i] /\ u[1 + i] = ts[i] /\ ts[i] = Name(w, Tensors[i])
        BY ONLY <1>3, <1>6, <1>7, <4>1
      <4> QED BY <2>3, <4>1, <4>2
    <3> QED BY <3>1
  <2> QED BY <1>2, <2>1, <2>2, <2>3
<1>10. Range(s) = K
  <2>1. DOMAIN s = 1 .. Len(Tensors) + 2 /\ \A i \in DOMAIN s : s[i] \in K
    BY <1>1, <1>7
  <2> QED BY <1>9, <2>1 DEF Range
<1> QED BY <1>7, <1>8, <1>10 DEF K

ScriptLen(w, n) ==
  Len(Tensors) + 2 + IF n > 0 /\ (w.role = "generator" \/ n % ROTATE_EVERY = 0) THEN 1 ELSE 0

(* The calls of a step: puts of the seed, a read of another worker's key,  *)
(* the put or delete of the optimizer key.                                 *)
LEMMA ScriptCalls ==
  ASSUME NEW w \in Workers, NEW n \in Nat
  PROVE  /\ Len(Script(w, n)) = ScriptLen(w, n) /\ ScriptLen(w, n) \in Nat /\ ScriptLen(w, n) >= 2
         /\ \A i \in 1 .. ScriptLen(w, n) :
              /\ Script(w, n)[i].call \in {"put", "get", "delete"}
              /\ Script(w, n)[i].call # "get" => Script(w, n)[i].key \in KeysOf(w) \cap Keys
              /\ Script(w, n)[i].call = "delete" => Script(w, n)[i].key = RotatedKey(w)
         /\ n = 0 => ScriptLen(w, n) = Len(SeedSeq(w))
         /\ n = 0 => \A i \in 1 .. ScriptLen(w, n) :
              Script(w, n)[i].call = "put" /\ Script(w, n)[i].key = SeedSeq(w)[i]
<1> DEFINE L == Len(Tensors) + 2
           K == KeysOf(w) \cap Keys
           C == [call : {"put", "get", "delete"}, key : K \union {StepKey(Trainer(w.source))}]
           Good(e) == /\ e.call \in {"put", "get", "delete"} /\ (e.call # "get" => e.key \in K)
                      /\ (e.call = "delete" => e.key = RotatedKey(w))
           keys == SeedSeq(w)
           puts == [i \in DOMAIN keys |-> [call |-> "put", key |-> keys[i]]]
           get  == [call |-> "get", key |-> StepKey(Trainer(w.source))]
           turn == [call |-> IF present[w] THEN "delete" ELSE "put", key |-> RotatedKey(w)]
<1>1. /\ L \in Nat /\ L >= 2 /\ Len(keys) = L /\ DOMAIN keys = 1 .. L
      /\ \A i \in 1 .. L : keys[i] \in SeedKeys(w)
  <2>1. Len(Tensors) \in Nat
    BY LiveAssumption
  <2>2. keys \in Seq(SeedKeys(w)) /\ Len(keys) = L
    BY SeedSeqKeys
  <2> HIDE DEF keys
  <2> QED BY <2>1, <2>2
<1>2. \A i \in 1 .. L : keys[i] \in K
  <2>1. SeedKeys(w) \subseteq Keys
    BY LiveAssumption
  <2>2. SeedKeys(w) \subseteq K
    BY <2>1 DEF KeysOf
  <2> HIDE DEF K, keys
  <2> QED BY <1>1, <2>2
<1>3. /\ Script(w, n) = CASE n = 0 -> puts
                          [] n # 0 /\ w.role = "generator" -> <<get>> \o puts
                          [] OTHER -> puts \o IF n % ROTATE_EVERY = 0 THEN <<turn>> ELSE << >>
  BY DEF Script, SeedSeq
<1> HIDE DEF keys, K
<1>4. /\ puts \in Seq(C) /\ Len(puts) = L
      /\ \A i \in 1 .. L : Good(puts[i]) /\ puts[i].call = "put" /\ puts[i].key = keys[i]
  <2>1. \A i \in 1 .. L : puts[i] = [call |-> "put", key |-> keys[i]] /\ puts[i] \in C
    BY <1>1, <1>2
  <2>2. puts \in [1 .. L -> C]
    BY <1>1, <2>1
  <2>3. puts \in Seq(C) /\ Len(puts) = L
    BY <1>1, <2>2
  <2> QED BY <1>2, <2>1, <2>3
<1>5. get \in C /\ Good(get)
  OBVIOUS
<1>6. ASSUME w.role = "trainer" PROVE turn \in C /\ Good(turn)
  <2>1. RotatedKey(w) \in K
    <3>1. RotatedKey(w) \in Keys
      BY <1>6, LiveAssumption
    <3> QED BY <3>1 DEF KeysOf, K
  <2> QED BY <2>1
<1>7. ScriptLen(w, n) \in Nat /\ ScriptLen(w, n) >= 2
  BY <1>1 DEF ScriptLen
<1> HIDE DEF C, puts, get, turn
<1>8. CASE n = 0
  <2>1. Script(w, n) = puts /\ ScriptLen(w, n) = L
    BY <1>1, <1>3, <1>8 DEF ScriptLen
  <2> QED BY <1>1, <1>4, <1>7, <2>1 DEF keys, K
<1>9. CASE n # 0 /\ w.role = "generator"
  <2> DEFINE a == <<get>>
             s == a \o puts
  <2>1. Script(w, n) = s /\ ScriptLen(w, n) = 1 + L
    BY <1>1, <1>3, <1>9 DEF ScriptLen
  <2>2. a \in Seq(C) /\ Len(a) = 1 /\ a[1] = get
    BY <1>5, One
  <2> HIDE DEF a, L
  <2>3. /\ s \in Seq(C) /\ Len(s) = Len(a) + Len(puts) /\ \A i \in 1 .. Len(a) : s[i] = a[i]
        /\ \A i \in 1 .. Len(puts) : s[Len(a) + i] = puts[i]
    <3>1. puts \in Seq(C) /\ a \in Seq(C)
      BY <1>4, <2>2
    <3> QED BY ONLY <3>1, Joined DEF s
  <2> HIDE DEF s
  <2>4. Len(s) = 1 + L
    BY <1>4, <2>2, <2>3
  <2>5. \A i \in 1 .. 1 + L : Good(s[i])
    <3> TAKE i \in 1 .. 1 + L
    <3>1. CASE i = 1
      <4>1. s[i] = get
        BY <2>2, <2>3, <3>1
      <4> QED BY <1>5, <4>1
    <3>2. CASE i # 1
      <4>1. i - 1 \in 1 .. L /\ i = 1 + (i - 1)
        BY <1>1, <3>2
      <4>2. s[1 + (i - 1)] = puts[i - 1]
        BY <1>4, <2>2, <2>3, <4>1
      <4>3. s[i] = puts[i - 1]
        BY <4>1, <4>2
      <4> QED BY <1>4, <4>1, <4>3
    <3> QED BY <3>1, <3>2
  <2> QED BY <1>7, <1>9, <2>1, <2>4, <2>5 DEF K
<1>10. CASE n # 0 /\ w.role = "trainer" /\ n % ROTATE_EVERY # 0
  <2>1. Script(w, n) = puts \o << >> /\ ScriptLen(w, n) = L
    BY <1>1, <1>3, <1>10 DEF ScriptLen
  <2>2. puts \o << >> = puts
    BY <1>4
  <2> QED BY <1>4, <1>7, <1>10, <2>1, <2>2 DEF K
<1>11. CASE n # 0 /\ w.role = "trainer" /\ n % ROTATE_EVERY = 0
  <2> DEFINE b == <<turn>>
             s == puts \o b
  <2>1. Script(w, n) = s /\ ScriptLen(w, n) = L + 1
    BY <1>1, <1>3, <1>11 DEF ScriptLen
  <2>2. b \in Seq(C) /\ Len(b) = 1 /\ b[1] = turn
    BY <1>6, <1>11, One
  <2> HIDE DEF b, L
  <2>3. /\ s \in Seq(C) /\ Len(s) = Len(puts) + Len(b) /\ \A i \in 1 .. Len(puts) : s[i] = puts[i]
        /\ \A i \in 1 .. Len(b) : s[Len(puts) + i] = b[i]
    <3>1. puts \in Seq(C) /\ b \in Seq(C)
      BY <1>4, <2>2
    <3> QED BY ONLY <3>1, Joined DEF s
  <2> HIDE DEF s
  <2>4. Len(s) = L + 1
    BY <1>4, <2>2, <2>3
  <2>5. \A i \in 1 .. L + 1 : Good(s[i])
    <3> TAKE i \in 1 .. L + 1
    <3>1. CASE i = L + 1
      <4>1. s[i] = turn
        BY <1>4, <2>2, <2>3, <3>1
      <4> QED BY <1>6, <1>11, <4>1
    <3>2. CASE i # L + 1
      <4>1. i \in 1 .. L
        BY <1>1, <3>2
      <4> QED BY <1>4, <2>3, <4>1
    <3> QED BY <3>1, <3>2
  <2> QED BY <1>7, <1>11, <2>1, <2>4, <2>5 DEF K
<1> QED BY <1>8, <1>9, <1>10, <1>11, Roles

-----------------------------------------------------------------------------
(* Barriers.                                                               *)

Phases == {"seeding", "barrier", "starting", "running", "closing", "leaving", "shutdown", "down"}
Tasks == {"new", "seeding", "seeded", "running", "died", "over"}

JTypes ==
  /\ world \in Worlds /\ faults \in Nat
  /\ phase \in [Ranks -> Phases] /\ arrived \in [Ranks -> 0 .. 2] /\ down \in SUBSET Ranks
  /\ task \in [Workers -> Tasks] /\ conn \in [Clients -> {"away", "open", "hung", "gone"}]

(* What a rank's place in run says of the barriers and of its workers.     *)
Barriers(r) ==
  /\ phase[r] = "seeding" => arrived[r] # 2
  /\ phase[r] = "barrier" => \A w \in Mine(r) : task[w] = "seeded"
  /\ phase[r] \in {"starting", "running"} => \A w \in Mine(r) : task[w] \in {"running", "died"}
  /\ phase[r] \in {"starting", "running", "closing", "leaving"} => \A q \in Ranks : arrived[q] >= 1
  /\ phase[r] \in {"closing", "leaving"} \/ arrived[r] = 2 => \A w \in Mine(r) : task[w] = "over"
  /\ arrived[r] = 2 => phase[r] \in {"leaving", "shutdown", "down"}
  /\ r \in down => phase[r] = "down"

(* While no role has failed: the store goes after everyone has stopped.    *)
Healthy ==
  /\ \A w \in Workers : task[w] # "died"
  /\ \A r \in Ranks : phase[r] \in {"shutdown", "down"} => \A q \in Ranks : arrived[q] = 2
  /\ arrived[world - 1] = 2 /\ WaitsForClients => \A c \in Clients : conn[c] \in {"away", "gone"}

JInv ==
  /\ JTypes
  /\ \A r \in Ranks : Barriers(r)
  /\ \A c \in Clients : conn[c] # "away" => \A q \in Ranks : arrived[q] >= 1
  /\ torn => down # {}
  /\ faults = 0 => Healthy

LEMMA Aggregator == world \in Worlds => world - 1 \in Ranks /\ world \in Nat /\ world >= 1
<1>1. \A n \in Worlds : n \in Nat /\ n >= 1
  BY LiveAssumption
<1> QED BY <1>1 DEF Ranks

LEMMA BusyAre ==
  ASSUME world \in Worlds
  PROVE  /\ Busy = Of(world) /\ Busy \subseteq Workers
         /\ \A r \in Ranks : Mine(r) \subseteq Busy
<1>1. Busy = Of(world)
  BY DEF Busy, Of, Mine, Ranks
<1> QED BY <1>1, WorkersOf DEF Busy

(* No worker of another rank is of this one. *)
LEMMA MineApart ==
  ASSUME world \in Worlds, NEW r \in Ranks, NEW q \in Ranks, NEW w \in Mine(r), w \in Mine(q)
  PROVE  r = q
BY PlansApart DEF Mine, Ranks

LEMMA JInit == Init => JInv
<1> SUFFICES ASSUME Init PROVE JInv
  OBVIOUS
<1>1. JTypes
  BY DEF Init, JTypes, Phases, Tasks
<1>2. \A r \in Ranks : Barriers(r)
  BY DEF Init, Barriers
<1>3. world - 1 \in Ranks
  BY <1>1, Aggregator DEF JTypes
<1>4. Healthy
  BY <1>3 DEF Init, Healthy
<1> QED BY <1>1, <1>2, <1>4 DEF Init, JInv

(* Where nothing is dead, a store that is gone has no worker at work.      *)
LEMMA GoneQuiet ==
  ASSUME JInv, torn, faults = 0
  PROVE  \A w \in Busy : task[w] = "over"
<1>1. PICK q \in down : TRUE
  BY DEF JInv
<1>2. q \in Ranks /\ phase[q] = "down"
  BY <1>1 DEF JInv, JTypes, Barriers
<1>3. \A r \in Ranks : arrived[r] = 2
  BY <1>2 DEF JInv, Healthy
<1> QED BY <1>3 DEF JInv, Barriers, Busy

(* A worker's task moves on.                                               *)
LEMMA TaskMoves ==
  ASSUME JInv, NEW w \in Workers, NEW t \in Tasks, faults' \in Nat,
         task' = [task EXCEPT ![w] = t],
         UNCHANGED <<world, phase, arrived, down, torn, conn>>,
         \/ task[w] = "new" /\ t = "seeding"
         \/ task[w] = "seeding" /\ t = "seeded"
         \/ task[w] \in {"seeding", "running"} /\ t = "died",
         faults' = 0 => faults = 0 /\ t # "died"
  PROVE  JInv'
<1>0. JTypes /\ (\A r \in Ranks : Barriers(r)) /\ (torn => down # {}) /\ (faults = 0 => Healthy)
  BY DEF JInv
<1>1. Ranks' = Ranks
  BY DEF Ranks
<1>2. JTypes'
  BY <1>0, <1>1 DEF JTypes
<1>3. \A v \in Workers : task'[v] = IF v = w THEN t ELSE task[v]
  BY <1>0 DEF JTypes
<1>4. ASSUME NEW r \in Ranks PROVE Barriers(r)'
  <2>1. Barriers(r)
    BY <1>0
  <2>2. Mine(r)' = Mine(r) /\ Mine(r) \subseteq Workers
    BY <1>0, BusyAre DEF Mine, JTypes
  <2> QED BY <1>1, <1>3, <2>1, <2>2 DEF Barriers
<1>5. faults' = 0 => Healthy'
  BY <1>0, <1>1, <1>3 DEF Healthy
<1> QED BY <1>1, <1>2, <1>4, <1>5 DEF JInv

(* A call returns: the task stays, or its seed is done. *)
LEMMA ReturnsTask ==
  ASSUME JInv, NEW w \in Workers, Active(w), Returns(w),
         UNCHANGED <<world, phase, arrived, down, torn, conn, faults>>
  PROVE  JInv'
<1>0. task \in [Workers -> Tasks] /\ faults \in Nat
  BY DEF JInv, JTypes
<1>1. CASE task' = task
  BY <1>1 DEF JInv, JTypes, Ranks, Barriers, Mine, Healthy
<1>2. CASE task[w] = "seeding" /\ task' = [task EXCEPT ![w] = "seeded"]
  BY <1>0, <1>2, TaskMoves DEF Tasks
<1> QED BY <1>1, <1>2 DEF Returns

(* A connection opens, or goes. *)
LEMMA ConnMoves ==
  ASSUME JInv, NEW c \in Clients, NEW x \in {"open", "hung", "gone"},
         conn' = [conn EXCEPT ![c] = x],
         UNCHANGED <<world, phase, arrived, down, torn, task, faults>>,
         conn[c] \in {"open", "hung"} \/ phase[world - 1] = "running"
  PROVE  JInv'
<1>0. /\ JTypes /\ (\A r \in Ranks : Barriers(r)) /\ (torn => down # {}) /\ (faults = 0 => Healthy)
      /\ \A d \in Clients : conn[d] # "away" => \A q \in Ranks : arrived[q] >= 1
  BY DEF JInv
<1>1. Ranks' = Ranks /\ world - 1 \in Ranks
  BY <1>0, Aggregator DEF Ranks, JTypes
<1>2. JTypes'
  BY <1>0, <1>1 DEF JTypes
<1>3. \A d \in Clients : conn'[d] = IF d = c THEN x ELSE conn[d]
  BY <1>0 DEF JTypes
<1>4. \A r \in Ranks : Barriers(r)'
  BY <1>0, <1>1 DEF Barriers, Mine
<1>5. (\A q \in Ranks : arrived[q] >= 1) /\ (phase[world - 1] = "running" => arrived[world - 1] # 2)
  BY <1>0, <1>1 DEF Barriers
<1>6. \A d \in Clients : conn'[d] # "away" => \A q \in Ranks' : arrived'[q] >= 1
  BY <1>0, <1>1, <1>3, <1>5
<1>7. faults' = 0 => Healthy'
  BY <1>0, <1>1, <1>3, <1>5 DEF Healthy
<1> QED BY <1>0, <1>1, <1>2, <1>4, <1>6, <1>7 DEF JInv

(* A rank goes on to p, having reached n barriers; nobody dies of it, and  *)
(* it leaves for good only when everyone is at the second barrier.         *)
RankStep(r, p, n) ==
  /\ arrived[r] <= n
  /\ phase' = [phase EXCEPT ![r] = p] /\ arrived' = [arrived EXCEPT ![r] = n]
  /\ task' \in [Workers -> Tasks] /\ \A w \in Workers \ Mine(r) : task'[w] = task[w]
  /\ UNCHANGED <<world, conn>> /\ faults' \in Nat
  /\ down' = down \/ (down' = down \union {r} /\ p = "down")
  /\ r \in down => p = "down"
  /\ torn' => torn \/ down' # {}
  /\ faults' = 0 =>
       /\ faults = 0 /\ \A w \in Workers : task'[w] = "died" => task[w] = "died"
       /\ p \in {"shutdown", "down"} => \A q \in Ranks : arrived[q] = 2
       /\ r = world - 1 /\ n = 2 /\ WaitsForClients =>
            \A c \in Clients : conn[c] \in {"away", "gone"}

LEMMA RankGoes ==
  ASSUME JInv, NEW r \in Ranks, NEW p \in Phases, NEW n \in 0 .. 2, RankStep(r, p, n), Barriers(r)'
  PROVE  JInv'
<1> USE DEF RankStep
<1>0. /\ JTypes /\ (\A q \in Ranks : Barriers(q)) /\ (torn => down # {}) /\ (faults = 0 => Healthy)
      /\ \A d \in Clients : conn[d] # "away" => \A q \in Ranks : arrived[q] >= 1
  BY DEF JInv
<1>1. Ranks' = Ranks /\ world - 1 \in Ranks
  BY <1>0, Aggregator DEF Ranks, JTypes
<1>2. JTypes'
  <2>1. phase' \in [Ranks -> Phases] /\ arrived' \in [Ranks -> 0 .. 2] /\ down' \in SUBSET Ranks
    BY <1>0, <1>1 DEF JTypes
  <2> QED BY <1>0, <1>1, <2>1 DEF JTypes
<1>3. /\ \A q \in Ranks : phase'[q] = (IF q = r THEN p ELSE phase[q])
      /\ \A q \in Ranks : arrived'[q] = (IF q = r THEN n ELSE arrived[q])
      /\ \A q \in Ranks : arrived[q] \in 0 .. 2 /\ arrived'[q] \in 0 .. 2 /\ arrived[q] <= arrived'[q]
  BY <1>0 DEF JTypes
<1>4. ASSUME NEW q \in Ranks PROVE Barriers(q)'
  <2>1. CASE q = r
    BY <2>1
  <2>2. CASE q # r
    <3>1. \A w \in Mine(q) : w \in Workers /\ w \notin Mine(r)
      BY <1>0, <2>2, BusyAre, MineApart DEF JTypes
    <3>2. Mine(q)' = Mine(q) /\ \A w \in Mine(q) : task'[w] = task[w]
      BY <3>1 DEF Mine
    <3>3. phase'[q] = phase[q] /\ arrived'[q] = arrived[q] /\ (q \in down' => q \in down)
      BY <1>3, <2>2
    <3>4. (\A x \in Ranks : arrived[x] >= 1) => \A x \in Ranks : arrived'[x] >= 1
      BY <1>3
    <3> QED BY <1>0, <1>1, <3>2, <3>3, <3>4 DEF Barriers
  <2> QED BY <2>1, <2>2
<1>5. \A d \in Clients : conn'[d] # "away" => \A q \in Ranks' : arrived'[q] >= 1
  BY <1>0, <1>1, <1>3
<1>6. torn' => down' # {}
  BY <1>0
<1>7. faults' = 0 => Healthy'
  <2> SUFFICES ASSUME faults' = 0 PROVE Healthy'
    OBVIOUS
  <2>1. Healthy
    BY <1>0
  <2>2. \A w \in Workers : task'[w] # "died"
    BY <2>1 DEF Healthy
  <2>3. ASSUME NEW x \in Ranks, phase'[x] \in {"shutdown", "down"} PROVE \A q \in Ranks : arrived'[q] = 2
    <3>1. \A q \in Ranks : arrived[q] = 2
      BY <1>3, <2>1, <2>3 DEF Healthy
    <3> QED BY <1>3, <3>1
  <2>4. arrived'[world - 1] = 2 /\ WaitsForClients => \A c \in Clients : conn[c] \in {"away", "gone"}
    BY <1>1, <1>3, <2>1 DEF Healthy
  <2> QED BY <1>1, <2>2, <2>3, <2>4 DEF Healthy
<1> QED BY <1>1, <1>2, <1>4, <1>5, <1>6, <1>7 DEF JInv

LEMMA JNext == JInv /\ [Next]_vars => JInv'
<1> SUFFICES ASSUME JInv, [Next]_vars PROVE JInv'
  OBVIOUS
<1>0. /\ JTypes /\ (\A q \in Ranks : Barriers(q)) /\ (torn => down # {}) /\ (faults = 0 => Healthy)
      /\ \A d \in Clients : conn[d] # "away" => \A q \in Ranks : arrived[q] >= 1
  BY DEF JInv
<1>1. Ranks' = Ranks /\ world - 1 \in Ranks
  <2>1. world' = world
    BY DEF Next, vars, rankVars, Runs, Work, Progress, Handle, Read, PutLands, PutRegisters,
           DeleteDeregisters, DeleteDrops, ReadVersion, ReadNothing, PutRaises, Elsewhere, SeedBegins,
           SeedsDone, SeedFails, PassBarrier, BarrierBreaks, Listen, ListenFails, Signal, StopWorkers,
           CloseServer, Leave, Shutdown, Connect, Ask, AskNext, Respond, HangUp, Closed, Unserved
  <2> QED BY <1>0, <2>1, Aggregator DEF Ranks, JTypes
<1>2. ASSUME UNCHANGED <<world, phase, arrived, down, torn, conn, task, faults>> PROVE JInv'
  BY <1>2 DEF JInv, JTypes, Ranks, Barriers, Mine, Healthy
<1>3. ASSUME NEW w \in Workers, Work(w) PROVE JInv'
  <2>1. CASE PutLands(w) \/ DeleteDeregisters(w)
    BY <1>2, <2>1 DEF PutLands, DeleteDeregisters, First, Elsewhere, Unasked, rankVars
  <2>2. CASE PutRegisters(w) \/ DeleteDrops(w) \/ ReadVersion(w) \/ ReadNothing(w)
    <3>1. Active(w) /\ Returns(w) /\ UNCHANGED <<world, phase, arrived, down, torn, conn, faults>>
      BY <2>2 DEF PutRegisters, DeleteDrops, ReadVersion, ReadNothing, Calls, Elsewhere, Unasked, rankVars
    <3> QED BY <3>1, ReturnsTask
  <2> QED BY <1>3, <2>1, <2>2 DEF Work
<1>4. ASSUME NEW w \in Workers, PutRaises(w) PROVE JInv'
  <2>1. /\ w \in Busy /\ task[w] \in {"seeding", "running"} /\ task' = [task EXCEPT ![w] = "died"]
        /\ UNCHANGED <<world, phase, arrived, down, torn, conn>>
        /\ faults' = IF torn THEN faults ELSE faults + 1
    BY <1>4 DEF PutRaises, Active, clientVars, rankVars
  <2>2. faults' \in Nat /\ (faults' = 0 => torn /\ faults = 0)
    BY <1>0, <2>1 DEF JTypes
  <2>3. faults' # 0
    <3> SUFFICES ASSUME faults' = 0 PROVE FALSE
      OBVIOUS
    <3>1. task[w] = "over"
      BY <2>1, <2>2, GoneQuiet
    <3> QED BY <2>1, <3>1
  <2> QED BY <2>1, <2>2, <2>3, TaskMoves DEF Tasks
<1>5. ASSUME NEW c \in Clients, Connect(c) \/ HangUp(c) \/ Closed(c) PROVE JInv'
  <2>1. /\ UNCHANGED <<world, phase, arrived, down, torn, task, faults>>
        /\ \/ phase[world - 1] = "running" /\ conn' = [conn EXCEPT ![c] = "open"]
           \/ conn[c] = "open" /\ conn' = [conn EXCEPT ![c] = "hung"]
           \/ conn[c] = "hung" /\ conn' = [conn EXCEPT ![c] = "gone"]
    BY <1>5 DEF Connect, HangUp, Closed, Unserved, rankVars, workVars, storeVars
  <2> QED BY <2>1, ConnMoves
<1>6. ASSUME NEW c \in Clients, Read(c) \/ Respond(c) \/ Ask(c) \/ AskNext(c) PROVE JInv'
  <2>1. UNCHANGED <<world, phase, arrived, down, torn, conn, task, faults>>
    BY <1>6 DEF Read, Respond, Ask, AskNext, GatherKeys, GatherLocate, Collect, Unserved, rankVars,
                workVars, storeVars
  <2> QED BY <1>2, <2>1
<1>7. ASSUME NEW r \in Ranks, SeedBegins(r) PROVE JInv'
  <2>1. PICK i \in DOMAIN Plan(world, r) :
          /\ task[Plan(world, r)[i]] = "new"
          /\ task' = [task EXCEPT ![Plan(world, r)[i]] = "seeding"]
    BY <1>7 DEF SeedBegins
  <2>2. Plan(world, r)[i] \in Mine(r) /\ Mine(r) \subseteq Workers
    BY <1>0, BusyAre DEF Mine, Range, JTypes
  <2>3. UNCHANGED <<world, phase, arrived, down, torn, conn, faults>> /\ faults \in Nat
    BY <1>0, <1>7 DEF SeedBegins, Unworked, rankVars, storeVars, clientVars, JTypes
  <2> QED BY <2>1, <2>2, <2>3, TaskMoves DEF Tasks
<1>8. ASSUME NEW r \in Ranks, Progress(r) \/ ListenFails(r), ~ SeedBegins(r) PROVE JInv'
  <2>0. /\ Barriers(r) /\ arrived \in [Ranks -> 0 .. 2] /\ arrived[r] \in 0 .. 2
        /\ task \in [Workers -> Tasks] /\ Mine(r) \subseteq Workers /\ faults \in Nat
        /\ phase \in [Ranks -> Phases] /\ \A q \in Ranks : arrived[q] \in 0 .. 2
    BY <1>0, BusyAre DEF JTypes
  <2>1. UNCHANGED <<world, conn>> /\ Mine(r)' = Mine(r)
    BY <1>8 DEF Progress, SeedsDone, SeedFails, PassBarrier, BarrierBreaks, Listen, ListenFails,
                StopWorkers, CloseServer, Leave, Shutdown, Unworked, clientVars, Unasked, Mine
  <2>2. faults = 0 => /\ \A w \in Workers : task[w] # "died"
                      /\ \A q \in Ranks : phase[q] \in {"shutdown", "down"} => \A x \in Ranks : arrived[x] = 2
    BY <1>0 DEF Healthy
  <2>3. CASE SeedsDone(r)
    <3>1. /\ phase[r] = "seeding" /\ phase' = [phase EXCEPT ![r] = "barrier"]
          /\ arrived' = [arrived EXCEPT ![r] = 1] /\ \A w \in Mine(r) : task[w] = "seeded"
          /\ UNCHANGED <<down, torn, task, faults>>
      BY <2>3 DEF SeedsDone, Goes, Arrives, Unworked, storeVars, workVars
    <3>2. phase'[r] = "barrier" /\ arrived'[r] = 1 /\ r \notin down /\ arrived[r] <= 1
      BY <2>0, <3>1 DEF Barriers
    <3>3. Barriers(r)'
      BY <2>1, <3>1, <3>2 DEF Barriers
    <3>9. RankStep(r, "barrier", 1)
      BY <2>0, <2>1, <3>1, <3>2, <3>3 DEF RankStep
    <3>10. "barrier" \in Phases /\ 1 \in 0 .. 2
      BY <2>0, <2>1, <3>1, <3>2, <3>3 DEF Phases
    <3> QED BY <3>9, <3>10, <3>3, RankGoes
  <2>4. CASE SeedFails(r)
    <3>1. /\ phase[r] = "seeding" /\ phase' = [phase EXCEPT ![r] = "shutdown"]
          /\ arrived' = arrived /\ \E w \in Mine(r) : task[w] = "died"
          /\ UNCHANGED <<down, torn, task, faults>>
      BY <2>4 DEF SeedFails, Goes, Unworked, storeVars, workVars
    <3>2. /\ phase'[r] = "shutdown" /\ arrived' = [arrived EXCEPT ![r] = arrived[r]]
          /\ r \notin down /\ arrived[r] # 2 /\ faults # 0
      BY <2>0, <2>2, <3>1 DEF Barriers
    <3>3. Barriers(r)'
      BY <3>1, <3>2 DEF Barriers
    <3> DEFINE n == arrived[r]
    <3>8. arrived' = [arrived EXCEPT ![r] = n] /\ arrived[r] <= n /\ n \in 0 .. 2 /\ (arrived[r] # 2 => n # 2)
      BY <2>0, <3>2
    <3> HIDE DEF n
    <3>9. RankStep(r, "shutdown", n)
      BY <3>8, <2>0, <2>1, <3>1, <3>2, <3>3 DEF RankStep
    <3>10. "shutdown" \in Phases /\ n \in 0 .. 2
      BY <3>8, <2>0, <2>1, <3>1, <3>2, <3>3 DEF Phases
    <3> QED BY <3>8, <3>9, <3>10, <3>3, RankGoes
  <2>5. CASE PassBarrier(r)
    <3> DEFINE p == IF RunsAggregator(r) THEN "starting" ELSE "running"
    <3>1. /\ phase[r] = "barrier" /\ phase' = [phase EXCEPT ![r] = p] /\ p \in {"starting", "running"}
          /\ arrived' = arrived /\ \A q \in Ranks : arrived[q] >= 1
          /\ task' = [w \in Workers |-> IF w \in Mine(r) THEN "running" ELSE task[w]]
          /\ UNCHANGED <<down, torn, faults>>
      BY <2>5 DEF PassBarrier, Goes, Unworked, storeVars
    <3> HIDE DEF p
    <3>2. /\ phase'[r] = p /\ arrived' = [arrived EXCEPT ![r] = arrived[r]]
          /\ r \notin down /\ arrived[r] # 2
      BY <2>0, <3>1 DEF Barriers
    <3>3. /\ task' \in [Workers -> Tasks] /\ \A w \in Workers \ Mine(r) : task'[w] = task[w]
          /\ \A w \in Mine(r) : task'[w] = "running"
      BY <2>0, <3>1 DEF Tasks
    <3>4. Barriers(r)'
      BY <1>1, <2>1, <3>1, <3>2, <3>3 DEF Barriers
    <3>5. \A w \in Workers : task'[w] = "died" => task[w] = "died"
      BY <3>3
    <3> DEFINE n == arrived[r]
    <3>8. arrived' = [arrived EXCEPT ![r] = n] /\ arrived[r] <= n /\ n \in 0 .. 2 /\ (arrived[r] # 2 => n # 2)
      BY <2>0, <3>2
    <3> HIDE DEF n
    <3>9. RankStep(r, p, n)
      BY <3>8, <2>0, <2>1, <3>1, <3>2, <3>3, <3>4, <3>5 DEF RankStep
    <3>10. p \in Phases /\ n \in 0 .. 2
      BY <3>8, <2>0, <2>1, <3>1, <3>2, <3>3, <3>4, <3>5 DEF Phases
    <3> QED BY <3>8, <3>9, <3>10, <3>4, RankGoes
  <2>6. CASE BarrierBreaks(r)
    <3>1. /\ phase[r] \in {"barrier", "leaving"} /\ phase' = [phase EXCEPT ![r] = "shutdown"]
          /\ arrived' = arrived /\ UNCHANGED <<down, torn, task, faults>>
          /\ \E q \in down : arrived[q] # 2
      BY <2>6 DEF BarrierBreaks, Goes, Unworked, storeVars, workVars
    <3>2. /\ phase'[r] = "shutdown" /\ arrived' = [arrived EXCEPT ![r] = arrived[r]] /\ r \notin down
      BY <2>0, <3>1 DEF Barriers
    <3>3. Barriers(r)'
      BY <2>0, <2>1, <3>1, <3>2 DEF Barriers
    <3>4. faults # 0
      <4>1. PICK q \in down : arrived[q] # 2
        BY <3>1
      <4>2. q \in Ranks /\ phase[q] = "down"
        BY <1>0 DEF JTypes, Barriers
      <4> QED BY <2>2, <4>1, <4>2
    <3> DEFINE n == arrived[r]
    <3>8. arrived' = [arrived EXCEPT ![r] = n] /\ arrived[r] <= n /\ n \in 0 .. 2 /\ (arrived[r] # 2 => n # 2)
      BY <2>0, <3>2
    <3> HIDE DEF n
    <3>9. RankStep(r, "shutdown", n)
      BY <3>8, <2>0, <2>1, <3>1, <3>2, <3>3, <3>4 DEF RankStep
    <3>10. "shutdown" \in Phases /\ n \in 0 .. 2
      BY <3>8, <2>0, <2>1, <3>1, <3>2, <3>3, <3>4 DEF Phases
    <3> QED BY <3>8, <3>9, <3>10, <3>3, RankGoes
  <2>7. CASE Listen(r) \/ ListenFails(r)
    <3> DEFINE p == IF Listen(r) THEN "running" ELSE "shutdown"
    <3>1. /\ phase[r] = "starting" /\ phase' = [phase EXCEPT ![r] = p] /\ p \in {"running", "shutdown"}
          /\ arrived' = arrived /\ UNCHANGED <<down, torn, task>>
          /\ (p = "running" /\ faults' = faults) \/ faults' = faults + 1
      BY <2>7 DEF Listen, ListenFails, Goes, Unworked, storeVars, workVars
    <3> HIDE DEF p
    <3>2. /\ phase'[r] = p /\ arrived' = [arrived EXCEPT ![r] = arrived[r]] /\ r \notin down
          /\ arrived[r] # 2 /\ faults' \in Nat /\ (faults' = 0 => p = "running" /\ faults = 0)
      BY <2>0, <3>1 DEF Barriers
    <3>3. Barriers(r)'
      BY <1>1, <2>0, <2>1, <3>1, <3>2 DEF Barriers
    <3> DEFINE n == arrived[r]
    <3>8. arrived' = [arrived EXCEPT ![r] = n] /\ arrived[r] <= n /\ n \in 0 .. 2 /\ (arrived[r] # 2 => n # 2)
      BY <2>0, <3>2
    <3> HIDE DEF n
    <3>9. RankStep(r, p, n)
      BY <3>8, <2>0, <2>1, <3>1, <3>2, <3>3 DEF RankStep
    <3>10. p \in Phases /\ n \in 0 .. 2
      BY <3>8, <2>0, <2>1, <3>1, <3>2, <3>3 DEF Phases
    <3> QED BY <3>8, <3>9, <3>10, <3>3, RankGoes
  <2>8. CASE StopWorkers(r)
    <3> DEFINE died == \E w \in Mine(r) : task[w] = "died"
               p == IF died THEN "shutdown" ELSE IF RunsAggregator(r) THEN "closing" ELSE "leaving"
               n == IF died \/ RunsAggregator(r) THEN arrived[r] ELSE 2
    <3>1. /\ phase[r] = "running" /\ phase' = [phase EXCEPT ![r] = p]
          /\ arrived' = [arrived EXCEPT ![r] = n]
          /\ task' = [w \in Workers |-> IF w \in Mine(r) /\ task[w] = "running" THEN "over" ELSE task[w]]
          /\ UNCHANGED <<down, torn, faults>>
      BY <2>8 DEF StopWorkers, Goes, Arrives, Unworked, storeVars
    <3>2. /\ p \in {"shutdown", "closing", "leaving"} /\ n \in {arrived[r], 2}
          /\ (p = "shutdown" => died /\ n = arrived[r]) /\ (p # "shutdown" => ~ died)
          /\ (p = "leaving" => ~ RunsAggregator(r)) /\ (n = 2 => p = "leaving" \/ arrived[r] = 2)
      OBVIOUS
    <3> HIDE DEF p, n
    <3>3. /\ arrived[r] # 2 /\ arrived[r] <= n /\ n \in 0 .. 2 /\ r \notin down
          /\ phase'[r] = p /\ arrived'[r] = n /\ \A q \in Ranks : arrived'[q] >= 1
      BY <2>0, <3>1, <3>2 DEF Barriers
    <3>4. /\ task' \in [Workers -> Tasks] /\ \A w \in Workers \ Mine(r) : task'[w] = task[w]
          /\ \A w \in Workers : task'[w] = "died" => task[w] = "died"
          /\ ~ died => \A w \in Mine(r) : task'[w] = "over"
      BY <2>0, <3>1 DEF Tasks, Barriers
    <3>5. Barriers(r)'
      BY <1>1, <2>1, <3>1, <3>2, <3>3, <3>4 DEF Barriers
    <3>6. faults = 0 => ~ died
      BY <2>0, <2>2
    <3>7. r = world - 1 => n # 2
      BY <3>2, <3>3 DEF RunsAggregator
    <3> HIDE DEF died
    <3>9. RankStep(r, p, n)
      BY <2>0, <2>1, <3>1, <3>2, <3>3, <3>4, <3>5, <3>6, <3>7 DEF RankStep
    <3>10. p \in Phases /\ n \in 0 .. 2
      BY <2>0, <2>1, <3>1, <3>2, <3>3, <3>4, <3>5, <3>6, <3>7 DEF Phases
    <3> QED BY <3>9, <3>10, <3>5, RankGoes
  <2>9. CASE CloseServer(r)
    <3>1. /\ phase[r] = "closing" /\ phase' = [phase EXCEPT ![r] = "leaving"]
          /\ arrived' = [arrived EXCEPT ![r] = 2] /\ UNCHANGED <<down, torn, task, faults>>
          /\ WaitsForClients => \A c \in Clients : conn[c] \in {"away", "gone"}
      BY <2>9 DEF CloseServer, Goes, Arrives, Unworked, storeVars, workVars
    <3>2. /\ phase'[r] = "leaving" /\ arrived'[r] = 2 /\ r \notin down /\ arrived[r] <= 2
          /\ \A q \in Ranks : arrived'[q] >= 1
      BY <2>0, <3>1 DEF Barriers
    <3>3. Barriers(r)'
      BY <1>1, <2>0, <2>1, <3>1, <3>2 DEF Barriers
    <3>9. RankStep(r, "leaving", 2)
      BY <2>0, <2>1, <3>1, <3>2, <3>3 DEF RankStep
    <3>10. "leaving" \in Phases /\ 2 \in 0 .. 2
      BY <2>0, <2>1, <3>1, <3>2, <3>3 DEF Phases
    <3> QED BY <3>9, <3>10, <3>3, RankGoes
  <2>10. CASE Leave(r)
    <3>1. /\ phase[r] = "leaving" /\ phase' = [phase EXCEPT ![r] = "shutdown"]
          /\ arrived' = arrived /\ UNCHANGED <<down, torn, task, faults>>
          /\ \A q \in Ranks : arrived[q] = 2
      BY <2>10 DEF Leave, Goes, Unworked, storeVars, workVars
    <3>2. /\ phase'[r] = "shutdown" /\ arrived' = [arrived EXCEPT ![r] = arrived[r]] /\ r \notin down
      BY <2>0, <3>1 DEF Barriers
    <3>3. Barriers(r)'
      BY <2>0, <2>1, <3>1, <3>2 DEF Barriers
    <3>4. faults = 0 => Healthy
      BY <1>0
    <3> DEFINE n == arrived[r]
    <3>8. arrived' = [arrived EXCEPT ![r] = n] /\ arrived[r] <= n /\ n \in 0 .. 2 /\ (arrived[r] # 2 => n # 2)
      BY <2>0, <3>2
    <3> HIDE DEF n
    <3>9. RankStep(r, "shutdown", n)
      BY <3>8, <2>0, <2>1, <3>1, <3>2, <3>3, <3>4 DEF RankStep, Healthy
    <3>10. "shutdown" \in Phases /\ n \in 0 .. 2
      BY <3>8, <2>0, <2>1, <3>1, <3>2, <3>3, <3>4 DEF Phases
    <3> QED BY <3>8, <3>9, <3>10, <3>3, RankGoes
  <2>11. CASE Shutdown(r)
    <3>1. /\ phase[r] = "shutdown" /\ phase' = [phase EXCEPT ![r] = "down"] /\ down' = down \union {r}
          /\ arrived' = arrived /\ UNCHANGED <<faults>>
          /\ task' = [w \in Workers |-> IF w \in Mine(r) /\ Active(w) THEN "over" ELSE task[w]]
      BY <2>11 DEF Shutdown, Goes
    <3>2. phase'[r] = "down" /\ arrived' = [arrived EXCEPT ![r] = arrived[r]]
      BY <2>0, <3>1
    <3>3. /\ task' \in [Workers -> Tasks] /\ \A w \in Workers \ Mine(r) : task'[w] = task[w]
          /\ \A w \in Workers : task'[w] \in {task[w], "over"}
      BY <2>0, <3>1 DEF Tasks
    <3>4. Barriers(r)'
      BY <2>0, <2>1, <3>1, <3>2, <3>3 DEF Barriers
    <3>5. faults = 0 => Healthy
      BY <1>0
    <3>6. \A w \in Workers : task'[w] = "died" => task[w] = "died"
      BY <3>3
    <3> DEFINE n == arrived[r]
    <3>8. arrived' = [arrived EXCEPT ![r] = n] /\ arrived[r] <= n /\ n \in 0 .. 2 /\ (arrived[r] # 2 => n # 2)
      BY <2>0, <3>2
    <3> HIDE DEF n
    <3>9. RankStep(r, "down", n)
      BY <3>8, <2>0, <2>1, <3>1, <3>2, <3>3, <3>4, <3>5, <3>6 DEF RankStep, Healthy
    <3>10. "down" \in Phases /\ n \in 0 .. 2
      BY <3>8, <2>0, <2>1, <3>1, <3>2, <3>3, <3>4, <3>5, <3>6 DEF Phases
    <3> QED BY <3>8, <3>9, <3>10, <3>4, RankGoes
  <2> QED BY <1>8, <2>3, <2>4, <2>5, <2>6, <2>7, <2>8, <2>9, <2>10, <2>11 DEF Progress
<1>9. ASSUME NEW r \in Ranks, Signal(r) PROVE JInv'
  <2>1. UNCHANGED <<world, phase, arrived, down, torn, conn, task, faults>>
    BY <1>9 DEF Signal, Unworked, workVars, storeVars, clientVars
  <2> QED BY <1>2, <2>1
<1>10. CASE UNCHANGED vars
  <2>1. UNCHANGED <<world, phase, arrived, down, torn, conn, task, faults>>
    BY <1>10 DEF vars, storeVars, clientVars, rankVars, workVars
  <2> QED BY <1>2, <2>1
<1> QED BY <1>3, <1>4, <1>5, <1>6, <1>7, <1>8, <1>9, <1>10 DEF Next, Runs, Handle, Progress

-----------------------------------------------------------------------------
(* Workers and rows.                                                       *)

(* A row of the controller: the volumes of a key, and the slices each has. *)
Row(k) == Seq([vol : Volumes, coords : SUBSET Mesh[k]])

Sown(w) == \A k \in SeedKeys(w) : rows[k] # << >>

WTypes ==
  /\ step \in [Workers -> Nat] /\ at \in [Workers -> Nat]
  /\ half \in [Workers -> BOOLEAN] /\ present \in [Workers -> BOOLEAN]
  /\ DOMAIN rows = Keys /\ \A k \in Keys : rows[k] \in Row(k)
  /\ held \in [Volumes -> SUBSET Keys]

(* Where a worker stands in its script, and what its calls have done.      *)
WorkInv(w) ==
  /\ at[w] \in 1 .. ScriptLen(w, step[w])
  /\ task[w] \in {"new", "seeding"} =>
       step[w] = 0 /\ \A i \in 1 .. (at[w] - 1) : rows[SeedSeq(w)[i]] # << >>
  /\ task[w] = "seeded" => ~half[w] /\ at[w] = 1
  /\ task[w] \in {"seeded", "running"} => Sown(w)
  /\ half[w] => /\ Call(w).call # "get"
                /\ Call(w).call = "put" => Call(w).key \in held[RankOf(w)]
                /\ Call(w).call = "delete" => rows[Call(w).key] = << >>

Backed == \A k \in Keys : rows[k] # << >> => k \in held[rows[k][1].vol]

WInv ==
  /\ WTypes
  /\ \A w \in Busy : WorkInv(w)
  /\ Backed
  /\ \A r \in Ranks : arrived[r] >= 1 => \A w \in Mine(r) : Sown(w)

LEMMA FirstOf ==
  ASSUME NEW S, NEW s \in Seq(S), s # << >>
  PROVE  s[1] \in S /\ 1 \in DOMAIN s
OBVIOUS

LEMMA Appended ==
  ASSUME NEW S, NEW s \in Seq(S), NEW e \in S
  PROVE  /\ Append(s, e) \in Seq(S) /\ Append(s, e) # << >>
         /\ s # << >> => Append(s, e)[1] = s[1]
         /\ s = << >> => Append(s, e)[1] = e
OBVIOUS

LEMMA RankIs ==
  ASSUME JInv, NEW w \in Busy
  PROVE  RankOf(w) \in Ranks /\ w \in Mine(RankOf(w)) /\ RankOf(w) \in Volumes
<1>1. \E r \in Ranks : w \in Mine(r)
  BY DEF Busy
<1>2. RankOf(w) \in Ranks /\ w \in Mine(RankOf(w))
  BY <1>1 DEF RankOf
<1>3. Ranks \subseteq Volumes
  BY LiveAssumption DEF JInv, JTypes, Ranks
<1> QED BY <1>2, <1>3

(* The call a worker is at.                                                *)
LEMMA CallIs ==
  ASSUME JInv, WTypes, NEW w \in Busy, WorkInv(w)
  PROVE  /\ w \in Workers /\ step[w] \in Nat /\ at[w] \in Nat /\ at[w] >= 1
         /\ Len(Script(w, step[w])) = ScriptLen(w, step[w]) /\ at[w] <= ScriptLen(w, step[w])
         /\ ScriptLen(w, step[w]) \in Nat
         /\ Call(w).call \in {"put", "get", "delete"}
         /\ Call(w).call # "get" => Call(w).key \in KeysOf(w) /\ Call(w).key \in Keys
         /\ Call(w).call = "delete" => Call(w).key = RotatedKey(w)
         /\ step[w] = 0 => /\ ScriptLen(w, step[w]) = Len(SeedSeq(w))
                           /\ Call(w).call = "put" /\ Call(w).key = SeedSeq(w)[at[w]]
<1>1. w \in Workers /\ step[w] \in Nat
  BY BusyAre DEF JInv, JTypes, WTypes
<1> DEFINE n == step[w]
<1>2. n \in Nat
  BY <1>1
<1> HIDE DEF n
<1>3. /\ Len(Script(w, n)) = ScriptLen(w, n) /\ ScriptLen(w, n) \in Nat /\ ScriptLen(w, n) >= 2
      /\ \A i \in 1 .. ScriptLen(w, n) :
           /\ Script(w, n)[i].call \in {"put", "get", "delete"}
           /\ Script(w, n)[i].call # "get" => Script(w, n)[i].key \in KeysOf(w) \cap Keys
           /\ Script(w, n)[i].call = "delete" => Script(w, n)[i].key = RotatedKey(w)
      /\ n = 0 => ScriptLen(w, n) = Len(SeedSeq(w))
      /\ n = 0 => \A i \in 1 .. ScriptLen(w, n) :
           Script(w, n)[i].call = "put" /\ Script(w, n)[i].key = SeedSeq(w)[i]
  BY <1>1, <1>2, ScriptCalls
<1>4. at[w] \in 1 .. ScriptLen(w, step[w])
  BY DEF WorkInv
<1> QED BY <1>1, <1>3, <1>4 DEF Call, n

(* A call is the same while the worker stands there.                       *)
LEMMA SameCall ==
  ASSUME NEW w, step'[w] = step[w], at'[w] = at[w], present'[w] = present[w]
  PROVE  Call(w)' = Call(w) /\ ScriptLen(w, step[w])' = ScriptLen(w, step[w])
BY DEF Call, Script, ScriptLen

(* Nobody's optimizer key is of a seed. *)
LEMMA SeedsSafe ==
  ASSUME world \in Worlds, NEW v \in Busy, NEW w \in Busy, NEW k \in SeedKeys(v)
  PROVE  k # RotatedKey(w)
<1>1. v \in Of(world) /\ w \in Of(world) /\ w \in Workers
  BY BusyAre
<1> SUFFICES ASSUME k = RotatedKey(w) PROVE FALSE
  OBVIOUS
<1>2. k \in KeysOf(v) /\ k \in KeysOf(w)
  BY DEF KeysOf
<1>3. v = w
  BY <1>1, <1>2, KeysApart
<1> QED BY <1>1, <1>3, RotatedApart

(* A worker that did not move, and whose keys are as they were.            *)
LEMMA Bystander ==
  ASSUME JInv, WTypes, NEW v \in Busy, WorkInv(v), world' = world,
         step'[v] = step[v], at'[v] = at[v], present'[v] = present[v], half'[v] = half[v],
         \/ task'[v] = task[v] \/ task'[v] \in {"died", "over"}
         \/ task[v] = "new" /\ task'[v] = "seeding",
         \A k \in KeysOf(v) \cap Keys : rows'[k] = rows[k],
         \A k \in KeysOf(v) \cap Keys, x \in Volumes : k \in held[x] => k \in held'[x]
  PROVE  WorkInv(v)'
<1>1. /\ v \in Workers /\ step[v] \in Nat /\ at[v] \in Nat /\ at[v] <= ScriptLen(v, step[v])
      /\ ScriptLen(v, step[v]) \in Nat
      /\ Call(v).call \in {"put", "get", "delete"}
      /\ Call(v).call # "get" => Call(v).key \in KeysOf(v) \cap Keys
      /\ step[v] = 0 => ScriptLen(v, step[v]) = Len(SeedSeq(v))
  BY CallIs
<1>2. Call(v)' = Call(v) /\ ScriptLen(v, step[v])' = ScriptLen(v, step[v]) /\ RankOf(v)' = RankOf(v)
  BY SameCall DEF RankOf, Ranks, Mine
<1>3. SeedKeys(v) \subseteq KeysOf(v) \cap Keys /\ RankOf(v) \in Volumes
  <2>1. SeedKeys(v) \subseteq Keys
    BY <1>1, LiveAssumption
  <2> QED BY <2>1, RankIs DEF KeysOf
<1>4. ASSUME step[v] = 0, NEW i \in 1 .. (at[v] - 1) PROVE SeedSeq(v)[i] \in KeysOf(v) \cap Keys
  <2>1. i \in 1 .. Len(SeedSeq(v))
    BY <1>1, <1>4
  <2>2. SeedSeq(v) \in Seq(SeedKeys(v))
    BY <1>1, SeedSeqKeys
  <2>3. SeedSeq(v)[i] \in SeedKeys(v)
    BY <2>1, <2>2
  <2> QED BY <1>3, <2>3
<1>5. Sown(v) => Sown(v)'
  BY <1>3 DEF Sown
<1>6. task'[v] \in {"new", "seeding"} => task[v] \in {"new", "seeding"}
  OBVIOUS
<1>7. (at[v] \in 1 .. ScriptLen(v, step[v]))'
  BY <1>2 DEF WorkInv
<1>8. (task[v] \in {"new", "seeding"} =>
        step[v] = 0 /\ \A i \in 1 .. (at[v] - 1) : rows[SeedSeq(v)[i]] # << >>)'
  <2> SUFFICES ASSUME task'[v] \in {"new", "seeding"}
               PROVE  step'[v] = 0 /\ \A i \in 1 .. (at'[v] - 1) : rows'[SeedSeq(v)[i]] # << >>
    BY DEF SeedSeq
  <2>1. step[v] = 0 /\ \A i \in 1 .. (at[v] - 1) : rows[SeedSeq(v)[i]] # << >>
    BY <1>6 DEF WorkInv
  <2> QED BY <1>4, <2>1
<1>9. (task[v] = "seeded" => ~half[v] /\ at[v] = 1)' /\ (task[v] \in {"seeded", "running"} => Sown(v))'
  BY <1>5 DEF WorkInv
<1>10. (half[v] => /\ Call(v).call # "get"
                   /\ Call(v).call = "put" => Call(v).key \in held[RankOf(v)]
                   /\ Call(v).call = "delete" => rows[Call(v).key] = << >>)'
  BY <1>1, <1>2, <1>3 DEF WorkInv
<1> QED BY <1>7, <1>8, <1>9, <1>10 DEF WorkInv

LEMMA WInit == Init => WInv
<1> SUFFICES ASSUME Init PROVE WInv
  OBVIOUS
<1>1. world \in Worlds /\ Busy \subseteq Workers
  BY BusyAre DEF Init
<1>2. \A k \in DOMAIN Preloaded : k \in Keys /\ Preloaded[k] \in Row(k)
  BY LiveAssumption DEF Row
<1>3. WTypes
  <2>1. \A k : << >> \in Row(k)
    BY DEF Row
  <2>2. DOMAIN rows = Keys /\ \A k \in Keys : rows[k] = IF k \in DOMAIN Preloaded THEN Preloaded[k] ELSE << >>
    BY DEF Init
  <2>3. \A k \in Keys : rows[k] \in Row(k)
    BY <1>2, <2>1, <2>2
  <2>4. held \in [Volumes -> SUBSET Keys]
    BY <1>2 DEF Init
  <2> QED BY <2>2, <2>3, <2>4 DEF Init, WTypes
<1>4. Backed
  <2> SUFFICES ASSUME NEW k \in Keys, rows[k] # << >> PROVE k \in held[rows[k][1].vol]
    BY DEF Backed
  <2>1. k \in DOMAIN Preloaded /\ rows[k] = Preloaded[k]
    BY DEF Init
  <2>2. rows[k] \in Row(k)
    BY <1>3 DEF WTypes
  <2>3. rows[k][1] \in [vol : Volumes, coords : SUBSET Mesh[k]] /\ 1 \in DOMAIN rows[k]
    BY <2>2, FirstOf DEF Row
  <2>4. rows[k][1].vol \in Volumes /\ rows[k][1] \in Range(Preloaded[k])
    BY <2>1, <2>3 DEF Range
  <2> QED BY <2>1, <2>4 DEF Init
<1>5. ASSUME NEW w \in Busy PROVE WorkInv(w)
  <2>1. /\ w \in Workers /\ at[w] = 1 /\ step[w] = 0 /\ task[w] = "new" /\ half[w] = FALSE
    BY <1>1 DEF Init
  <2>2. ScriptLen(w, 0) \in Nat /\ ScriptLen(w, 0) >= 2
    BY <2>1, ScriptCalls
  <2> QED BY <2>1, <2>2 DEF WorkInv
<1>6. \A r \in Ranks : ~(arrived[r] >= 1)
  BY DEF Init
<1> QED BY <1>3, <1>4, <1>5, <1>6 DEF WInv

(* Tasks and ranks move; the store and the scripts stay.                   *)
LEMMA TasksW ==
  ASSUME JInv, WInv, UNCHANGED <<world, rows, held, at, half, present>>,
         step' \in [Workers -> Nat],
         \A v \in Busy : \/ /\ step'[v] = step[v]
                            /\ \/ task'[v] = task[v] \/ task'[v] \in {"died", "over"}
                               \/ task[v] = "new" /\ task'[v] = "seeding"
                         \/ task[v] = "seeded" /\ task'[v] = "running" /\ step'[v] = 1,
         \A r \in Ranks : arrived'[r] >= 1 =>
           arrived[r] >= 1 \/ \A w \in Mine(r) : task[w] = "seeded"
  PROVE  WInv'
<1>0. WTypes /\ (\A w \in Busy : WorkInv(w)) /\ Backed /\ world \in Worlds
  BY DEF WInv, JInv, JTypes
<1>1. Busy' = Busy /\ Ranks' = Ranks /\ \A r : Mine(r)' = Mine(r)
  BY DEF Busy, Ranks, Mine
<1>2. WTypes'
  BY <1>0 DEF WTypes, Row
<1>3. Backed'
  BY <1>0 DEF Backed
<1>4. ASSUME NEW v \in Busy PROVE WorkInv(v)'
  <2>1. CASE step'[v] = step[v]
    <3>1. \/ task'[v] = task[v] \/ task'[v] \in {"died", "over"}
          \/ task[v] = "new" /\ task'[v] = "seeding"
          \/ task[v] = "seeded" /\ task'[v] = "running" /\ step'[v] = 1
      OBVIOUS
    <3>2. CASE task[v] = "seeded" /\ task'[v] = "running" /\ step'[v] = 1
      <4>1. at[v] \in 1 .. ScriptLen(v, step[v]) /\ ~half[v] /\ Sown(v)
        BY <1>0, <3>2 DEF WorkInv
      <4>2. ScriptLen(v, step[v])' = ScriptLen(v, step[v]) /\ Sown(v)'
        BY <2>1, <4>1 DEF ScriptLen, Sown, SeedKeys, StepKey, MetaKey, Name
      <4> QED BY <3>2, <4>1, <4>2 DEF WorkInv
    <3>3. CASE \/ task'[v] = task[v] \/ task'[v] \in {"died", "over"}
               \/ task[v] = "new" /\ task'[v] = "seeding"
      BY <1>0, <2>1, <3>3, Bystander
    <3> QED BY <3>1, <3>2, <3>3
  <2>2. CASE step'[v] # step[v]
    <3>1. task[v] = "seeded" /\ task'[v] = "running" /\ step'[v] = 1
      BY <2>2
    <3>2. ~half[v] /\ Sown(v) /\ at[v] = 1 /\ v \in Workers
      BY <1>0, <3>1, BusyAre DEF WorkInv
    <3>3. ScriptLen(v, 1) \in Nat /\ ScriptLen(v, 1) >= 2
      BY <3>2, ScriptCalls
    <3>4. ScriptLen(v, step[v])' = ScriptLen(v, 1) /\ Sown(v)'
      BY <3>1, <3>2 DEF ScriptLen, Sown
    <3> QED BY <3>1, <3>2, <3>3, <3>4 DEF WorkInv
  <2> QED BY <2>1, <2>2
<1>5. ASSUME NEW r \in Ranks, arrived'[r] >= 1, NEW w \in Mine(r) PROVE Sown(w)'
  <2>1. Mine(r) \subseteq Busy
    BY <1>0, BusyAre
  <2>2. Sown(w)
    BY <1>0, <1>5, <2>1 DEF WInv, WorkInv
  <2> QED BY <2>2 DEF Sown
<1> QED BY <1>1, <1>2, <1>3, <1>4, <1>5 DEF WInv

(* A call returns, and its worker is where its script goes on.             *)
LEMMA ReturnsW ==
  ASSUME JInv, WInv, NEW w \in Busy, Active(w), Returns(w), half' = [half EXCEPT ![w] = FALSE],
         world' = world,
         \A k \in SeedKeys(w) : rows[k] # << >> => rows'[k] # << >>,
         task[w] = "seeding" => rows'[SeedSeq(w)[at[w]]] # << >>
  PROVE  /\ WorkInv(w)' /\ step' \in [Workers -> Nat] /\ at' \in [Workers -> Nat]
         /\ half' \in [Workers -> BOOLEAN]
         /\ \A v \in Workers \ {w} : step'[v] = step[v] /\ at'[v] = at[v] /\ half'[v] = half[v]
                                     /\ task'[v] = task[v]
<1>0. /\ WTypes /\ WorkInv(w) /\ task \in [Workers -> Tasks] /\ w \in Workers
      /\ step[w] \in Nat /\ at[w] \in Nat /\ at[w] >= 1
      /\ Len(Script(w, step[w])) = ScriptLen(w, step[w]) /\ at[w] <= ScriptLen(w, step[w])
      /\ ScriptLen(w, step[w]) \in Nat
      /\ step[w] = 0 => ScriptLen(w, step[w]) = Len(SeedSeq(w))
  <2>1. WTypes /\ WorkInv(w) /\ task \in [Workers -> Tasks]
    BY DEF WInv, JInv, JTypes
  <2> QED BY <2>1, CallIs
<1>1. step \in [Workers -> Nat] /\ at \in [Workers -> Nat] /\ half \in [Workers -> BOOLEAN]
  BY <1>0 DEF WTypes
<1>2. half'[w] = FALSE /\ half' \in [Workers -> BOOLEAN] /\ \A v \in Workers \ {w} : half'[v] = half[v]
  BY <1>0, <1>1
<1>3. /\ SeedSeq(w) \in Seq(SeedKeys(w)) /\ Range(SeedSeq(w)) = SeedKeys(w)
      /\ Len(SeedSeq(w)) \in Nat
  BY <1>0, SeedSeqKeys
<1>4. Sown(w) => Sown(w)'
  BY DEF Sown
<1>5. ASSUME task[w] = "seeding"
      PROVE  step[w] = 0 /\ \A i \in 1 .. at[w] : rows'[SeedSeq(w)[i]] # << >>
  <2>1. step[w] = 0 /\ \A i \in 1 .. (at[w] - 1) : rows[SeedSeq(w)[i]] # << >>
    BY <1>0, <1>5 DEF WorkInv
  <2>2. ASSUME NEW i \in 1 .. at[w] PROVE rows'[SeedSeq(w)[i]] # << >>
    <3>1. CASE i = at[w]
      BY <1>5, <3>1
    <3>2. CASE i # at[w]
      <4>1. i \in 1 .. (at[w] - 1) /\ i \in 1 .. Len(SeedSeq(w))
        BY <1>0, <1>3, <2>1, <3>2
      <4>2. SeedSeq(w)[i] \in SeedKeys(w)
        BY <1>3, <4>1
      <4> QED BY <2>1, <4>1, <4>2
    <3> QED BY <3>1, <3>2
  <2> QED BY <2>1, <2>2
<1>6. task[w] \in {"seeding", "running"}
  BY DEF Active
<1>7. CASE at[w] < Len(Script(w, step[w]))
  <2>1. at' = [at EXCEPT ![w] = at[w] + 1] /\ UNCHANGED <<task, step>>
    BY <1>7 DEF Returns
  <2>2. at'[w] = at[w] + 1 /\ at' \in [Workers -> Nat] /\ \A v \in Workers \ {w} : at'[v] = at[v]
    BY <1>0, <1>1, <2>1
  <2>3. ScriptLen(w, step[w])' = ScriptLen(w, step[w]) /\ (at[w] \in 1 .. ScriptLen(w, step[w]))'
    BY <1>0, <1>7, <2>1, <2>2 DEF ScriptLen
  <2>4. (task[w] \in {"new", "seeding"} =>
          step[w] = 0 /\ \A i \in 1 .. (at[w] - 1) : rows[SeedSeq(w)[i]] # << >>)'
    <3> SUFFICES ASSUME task'[w] \in {"new", "seeding"}
                 PROVE  step'[w] = 0 /\ \A i \in 1 .. (at'[w] - 1) : rows'[SeedSeq(w)[i]] # << >>
      BY DEF SeedSeq
    <3>1. task[w] = "seeding" /\ at'[w] - 1 = at[w]
      BY <1>0, <1>6, <2>1, <2>2
    <3> QED BY <1>5, <2>1, <3>1
  <2>5. (task[w] \in {"seeded", "running"} => Sown(w))'
    BY <1>0, <1>4, <2>1 DEF WorkInv
  <2>6. WorkInv(w)'
    BY <1>2, <1>6, <2>1, <2>3, <2>4, <2>5 DEF WorkInv
  <2> QED BY <1>1, <1>2, <2>1, <2>2, <2>6
<1>8. CASE ~(at[w] < Len(Script(w, step[w])))
  <2>1. /\ at' = [at EXCEPT ![w] = 1] /\ at[w] = ScriptLen(w, step[w])
        /\ IF task[w] = "seeding" THEN task' = [task EXCEPT ![w] = "seeded"] /\ UNCHANGED step
           ELSE step' = [step EXCEPT ![w] = step[w] + 1] /\ UNCHANGED task
    BY <1>0, <1>8 DEF Returns
  <2>2. at'[w] = 1 /\ at' \in [Workers -> Nat] /\ \A v \in Workers \ {w} : at'[v] = at[v]
    BY <1>0, <1>1, <2>1
  <2>3. /\ step' \in [Workers -> Nat] /\ step'[w] \in Nat
        /\ \A v \in Workers \ {w} : step'[v] = step[v] /\ task'[v] = task[v]
        /\ task'[w] \in {"seeded", "running"} /\ (task'[w] = "seeded" => task[w] = "seeding")
        /\ (task'[w] = "running" => task[w] = "running")
    <3>1. CASE task[w] = "seeding"
      BY <1>0, <1>1, <2>1, <3>1
    <3>2. CASE task[w] = "running"
      <4>1. step' = [step EXCEPT ![w] = step[w] + 1] /\ task' = task
        BY <2>1, <3>2
      <4> QED BY <1>0, <1>1, <3>2, <4>1
    <3> QED BY <1>6, <3>1, <3>2
  <2>4. (at[w] \in 1 .. ScriptLen(w, step[w]))'
    <3> DEFINE n == step'[w]
    <3>1. n \in Nat
      BY <2>3
    <3> HIDE DEF n
    <3>2. ScriptLen(w, n) \in Nat /\ ScriptLen(w, n) >= 2
      BY <1>0, <3>1, ScriptCalls
    <3>3. ScriptLen(w, step[w])' = ScriptLen(w, n)
      BY DEF ScriptLen, n
    <3> QED BY <2>2, <3>2, <3>3
  <2>5. Sown(w)'
    <3>1. CASE task[w] = "running"
      BY <1>0, <1>4, <3>1 DEF WorkInv
    <3>2. CASE task[w] = "seeding"
      <4>1. \A i \in 1 .. Len(SeedSeq(w)) : rows'[SeedSeq(w)[i]] # << >>
        BY <1>0, <1>5, <2>1, <3>2
      <4>2. ASSUME NEW k \in SeedKeys(w) PROVE rows'[k] # << >>
        <5>1. PICK i \in 1 .. Len(SeedSeq(w)) : k = SeedSeq(w)[i]
          BY <1>3 DEF Range
        <5> QED BY <4>1, <5>1
      <4> QED BY <4>2 DEF Sown, SeedKeys, StepKey, MetaKey, Name
    <3> QED BY <1>6, <3>1, <3>2
  <2>6. WorkInv(w)'
    BY <1>2, <2>2, <2>3, <2>4, <2>5 DEF WorkInv
  <2> QED BY <1>2, <2>2, <2>3, <2>6
<1> QED BY <1>7, <1>8

(* One worker moves, and only its keys.                                    *)
LEMMA OneMoves ==
  ASSUME JInv, WInv, NEW w \in Busy, UNCHANGED <<world, arrived>>, WTypes', Backed', WorkInv(w)',
         \A v \in Workers \ {w} : /\ step'[v] = step[v] /\ at'[v] = at[v] /\ half'[v] = half[v]
                                  /\ task'[v] = task[v] /\ present'[v] = present[v],
         \A k \in Keys : k \notin KeysOf(w) =>
           rows'[k] = rows[k] /\ \A x \in Volumes : k \in held[x] => k \in held'[x],
         \A v \in Busy : \A k \in SeedKeys(v) : rows[k] # << >> => rows'[k] # << >>
  PROVE  WInv'
<1>0. WTypes /\ (\A v \in Busy : WorkInv(v)) /\ world \in Worlds
  BY DEF WInv, JInv, JTypes
<1>1. Busy' = Busy /\ Ranks' = Ranks /\ \A r : Mine(r)' = Mine(r)
  BY DEF Busy, Ranks, Mine
<1>2. ASSUME NEW v \in Busy PROVE WorkInv(v)'
  <2>1. CASE v = w
    BY <2>1
  <2>2. CASE v # w
    <3>1. \A k \in KeysOf(v) : k \notin KeysOf(w)
      BY <1>0, <2>2, BusyAre, KeysApart
    <3>2. v \in Workers \ {w}
      BY <1>0, <2>2, BusyAre
    <3>3. /\ \A k \in KeysOf(v) \cap Keys : rows'[k] = rows[k]
          /\ \A k \in KeysOf(v) \cap Keys, x \in Volumes : k \in held[x] => k \in held'[x]
      BY <3>1
    <3> QED BY <1>0, <3>2, <3>3, Bystander
  <2> QED BY <2>1, <2>2
<1>3. ASSUME NEW r \in Ranks, arrived'[r] >= 1, NEW v \in Mine(r) PROVE Sown(v)'
  <2>1. v \in Busy
    BY <1>0, BusyAre
  <2>2. Sown(v)
    BY <1>3 DEF WInv
  <2> QED BY <2>1, <2>2 DEF Sown
<1> QED BY <1>1, <1>2, <1>3 DEF WInv

(* A worker in the middle of a call has its keys as the call left them.    *)
LEMMA Begun ==
  ASSUME JInv, WInv, NEW w \in Busy, Active(w), First(w), world' = world,
         Call(w).call # "get",
         Call(w).call = "put" => Call(w).key \in held'[RankOf(w)],
         Call(w).call = "delete" => rows'[Call(w).key] = << >>,
         \A k \in SeedKeys(w) : rows[k] # << >> => rows'[k] # << >>
  PROVE  /\ WorkInv(w)' /\ half' \in [Workers -> BOOLEAN] /\ UNCHANGED <<task, step, at, present>>
         /\ \A v \in Workers \ {w} : half'[v] = half[v]
<1>0. /\ WTypes /\ WorkInv(w) /\ w \in Workers /\ at[w] \in Nat /\ at[w] <= ScriptLen(w, step[w])
      /\ ScriptLen(w, step[w]) \in Nat /\ (step[w] = 0 => ScriptLen(w, step[w]) = Len(SeedSeq(w)))
  <2>1. WTypes /\ WorkInv(w)
    BY DEF WInv
  <2> QED BY <2>1, CallIs
<1>1. UNCHANGED <<task, step, at, present>> /\ half' = [half EXCEPT ![w] = TRUE]
  BY DEF First
<1>2. half'[w] = TRUE /\ half' \in [Workers -> BOOLEAN] /\ \A v \in Workers \ {w} : half'[v] = half[v]
  BY <1>0, <1>1 DEF WTypes
<1>3. Call(w)' = Call(w) /\ ScriptLen(w, step[w])' = ScriptLen(w, step[w]) /\ RankOf(w)' = RankOf(w)
  BY <1>1, SameCall DEF RankOf, Ranks, Mine
<1>4. (task[w] \in {"new", "seeding"} =>
        step[w] = 0 /\ \A i \in 1 .. (at[w] - 1) : rows[SeedSeq(w)[i]] # << >>)'
  <2> SUFFICES ASSUME task'[w] \in {"new", "seeding"}
               PROVE  step'[w] = 0 /\ \A i \in 1 .. (at'[w] - 1) : rows'[SeedSeq(w)[i]] # << >>
    BY DEF SeedSeq
  <2>1. step[w] = 0 /\ \A i \in 1 .. (at[w] - 1) : rows[SeedSeq(w)[i]] # << >>
    BY <1>0, <1>1 DEF WorkInv
  <2>2. ASSUME NEW i \in 1 .. (at[w] - 1) PROVE rows'[SeedSeq(w)[i]] # << >>
    <3>1. i \in 1 .. Len(SeedSeq(w)) /\ SeedSeq(w) \in Seq(SeedKeys(w))
      BY <1>0, <2>1, SeedSeqKeys
    <3>2. SeedSeq(w)[i] \in SeedKeys(w)
      BY <3>1
    <3> QED BY <2>1, <3>2
  <2> QED BY <1>1, <2>1, <2>2
<1>5. (at[w] \in 1 .. ScriptLen(w, step[w]))'
  BY <1>0, <1>1, <1>3 DEF WorkInv
<1>6. (task[w] = "seeded" => ~half[w] /\ at[w] = 1)'
  BY <1>1 DEF Active
<1>7. (task[w] \in {"seeded", "running"} => Sown(w))'
  BY <1>0, <1>1 DEF WorkInv, Sown
<1>8. (half[w] => /\ Call(w).call # "get"
                  /\ Call(w).call = "put" => Call(w).key \in held[RankOf(w)]
                  /\ Call(w).call = "delete" => rows[Call(w).key] = << >>)'
  BY <1>3
<1>9. WorkInv(w)'
  BY <1>4, <1>5, <1>6, <1>7, <1>8 DEF WorkInv
<1> QED BY <1>1, <1>2, <1>9

LEMMA WorkW ==
  ASSUME JInv, WInv, NEW w \in Workers, Work(w)
  PROVE  WInv'
<1>0. /\ WTypes /\ Backed /\ world \in Worlds /\ w \in Busy /\ WorkInv(w) /\ Active(w)
      /\ UNCHANGED <<world, arrived>>
  BY DEF WInv, JInv, JTypes, Work, PutLands, PutRegisters, DeleteDeregisters, DeleteDrops, ReadVersion,
         ReadNothing, Calls, Elsewhere, rankVars
<1> DEFINE k == Call(w).key
           x == RankOf(w)
<1>1. /\ (Call(w).call # "get" => k \in KeysOf(w) /\ k \in Keys)
      /\ (Call(w).call = "delete" => k = RotatedKey(w))
      /\ (step[w] = 0 => Call(w).call = "put" /\ k = SeedSeq(w)[at[w]])
      /\ x \in Volumes
  BY <1>0, CallIs, RankIs
<1>2. /\ step \in [Workers -> Nat] /\ at \in [Workers -> Nat] /\ half \in [Workers -> BOOLEAN]
      /\ present \in [Workers -> BOOLEAN] /\ DOMAIN rows = Keys /\ (\A j \in Keys : rows[j] \in Row(j))
      /\ held \in [Volumes -> SUBSET Keys]
  BY <1>0 DEF WTypes
<1>3. \A v \in Busy : SeedKeys(v) \subseteq Keys
  <2>1. \A v \in Workers : SeedKeys(v) \subseteq Keys
    BY LiveAssumption
  <2> QED BY <1>0, <2>1, BusyAre
<1>4. half[w] => /\ Call(w).call # "get" /\ (Call(w).call = "put" => k \in held[x])
                 /\ (Call(w).call = "delete" => rows[k] = << >>)
  BY <1>0 DEF WorkInv
<1>5. task[w] = "seeding" => step[w] = 0
  BY <1>0 DEF WorkInv
<1> HIDE DEF k, x
<1>6. CASE PutLands(w)
  <2>1. /\ Call(w).call = "put" /\ held' = [held EXCEPT ![x] = @ \union {k}] /\ rows' = rows
        /\ First(w)
    BY <1>6 DEF PutLands, Calls, Lands, k, x
  <2>2. /\ held' \in [Volumes -> SUBSET Keys] /\ k \in held'[x]
        /\ \A j, y \in Volumes : j \in held[y] => j \in held'[y]
    BY <1>1, <1>2, <2>1
  <2>3. \A j \in Keys, y \in Volumes : j \in held[y] => j \in held'[y]
    BY <1>1, <1>2, <2>1
  <2>4. /\ WorkInv(w)' /\ half' \in [Workers -> BOOLEAN] /\ UNCHANGED <<task, step, at, present>>
        /\ \A v \in Workers \ {w} : half'[v] = half[v]
    BY <1>0, <2>1, <2>2, Begun DEF k, x
  <2>5. WTypes'
    BY <1>2, <2>1, <2>2, <2>4 DEF WTypes, Row
  <2>6. Backed'
    <3> SUFFICES ASSUME NEW j \in Keys, rows[j] # << >> PROVE j \in held'[rows[j][1].vol]
      BY <2>1 DEF Backed
    <3>1. rows[j][1] \in [vol : Volumes, coords : SUBSET Mesh[j]]
      BY <1>2, FirstOf DEF Row
    <3> QED BY <1>0, <2>3, <3>1 DEF Backed
  <2> QED BY <1>0, <2>1, <2>3, <2>4, <2>5, <2>6, OneMoves
<1>7. CASE PutRegisters(w)
  <2>1. /\ Call(w).call = "put" /\ half[w] /\ held' = held /\ Returns(w)
        /\ half' = [half EXCEPT ![w] = FALSE]
        /\ present' = [present EXCEPT ![w] = @ \/ Call(w).key = RotatedKey(w)]
        /\ IF \E e \in Range(rows[k]) : e.vol = x THEN rows' = rows
           ELSE rows' = [rows EXCEPT ![k] = Append(@, [vol |-> x, coords |-> {}])]
    BY <1>7 DEF PutRegisters, Calls, Registers, k, x
  <2> DEFINE e == [vol |-> x, coords |-> {}]
  <2>2. k \in KeysOf(w) /\ k \in Keys /\ k \in held[x] /\ rows[k] \in Row(k)
    BY <1>1, <1>2, <1>4, <2>1
  <2>3. e \in [vol : Volumes, coords : SUBSET Mesh[k]]
    BY <1>1
  <2>4. /\ Append(rows[k], e) \in Row(k) /\ Append(rows[k], e) # << >>
        /\ rows[k] # << >> => Append(rows[k], e)[1] = rows[k][1]
        /\ rows[k] = << >> => Append(rows[k], e)[1] = e
    <3> HIDE DEF e
    <3> QED BY <2>2, <2>3, Appended DEF Row
  <2>5. /\ \A j \in Keys \ {k} : rows'[j] = rows[j]
        /\ rows'[k] \in Row(k) /\ rows'[k] # << >> /\ DOMAIN rows' = Keys
        /\ \/ rows[k] # << >> /\ rows'[k][1] = rows[k][1]
           \/ rows'[k][1] = e
    <3>1. CASE \E f \in Range(rows[k]) : f.vol = x
      <4>1. rows[k] # << >>
        BY <3>1 DEF Range
      <4> QED BY <1>2, <2>1, <2>2, <3>1, <4>1
    <3>2. CASE ~ \E f \in Range(rows[k]) : f.vol = x
      <4>1. rows' = [rows EXCEPT ![k] = Append(rows[k], e)]
        BY <2>1, <3>2
      <4> HIDE DEF e
      <4>2. rows'[k] = Append(rows[k], e) /\ DOMAIN rows' = Keys /\ \A j \in Keys \ {k} : rows'[j] = rows[j]
        BY <1>2, <2>2, <4>1
      <4> QED BY <2>4, <4>2
    <3> QED BY <3>1, <3>2
  <2>6. e.vol = x
    OBVIOUS
  <2> HIDE DEF e
  <2>7. \A j \in Keys : rows[j] # << >> => rows'[j] # << >>
    BY <2>5
  <2>8. /\ WorkInv(w)' /\ step' \in [Workers -> Nat] /\ at' \in [Workers -> Nat]
        /\ half' \in [Workers -> BOOLEAN]
        /\ \A v \in Workers \ {w} : step'[v] = step[v] /\ at'[v] = at[v] /\ half'[v] = half[v]
                                    /\ task'[v] = task[v]
    <3>1. \A j \in SeedKeys(w) : rows[j] # << >> => rows'[j] # << >>
      BY <1>0, <1>3, <2>7
    <3>2. task[w] = "seeding" => rows'[SeedSeq(w)[at[w]]] # << >>
      BY <1>1, <1>5, <2>5
    <3> QED BY <1>0, <2>1, <3>1, <3>2, ReturnsW
  <2>9. present' \in [Workers -> BOOLEAN] /\ \A v \in Workers \ {w} : present'[v] = present[v]
    BY <1>2, <2>1
  <2>10. WTypes'
    <3>1. \A j \in Keys : rows'[j] \in Row(j)
      BY <1>2, <2>2, <2>5
    <3> QED BY <1>2, <2>1, <2>5, <2>8, <2>9, <3>1 DEF WTypes, Row
  <2>11. Backed'
    BY <1>0, <2>1, <2>2, <2>5, <2>6 DEF Backed
  <2>12. \A j \in Keys : j \notin KeysOf(w) =>
           rows'[j] = rows[j] /\ \A y \in Volumes : j \in held[y] => j \in held'[y]
    BY <2>1, <2>2, <2>5
  <2>13. \A v \in Busy : \A j \in SeedKeys(v) : rows[j] # << >> => rows'[j] # << >>
    BY <1>3, <2>7
  <2> QED BY <1>0, <2>8, <2>9, <2>10, <2>11, <2>12, <2>13, OneMoves
<1>8. CASE DeleteDeregisters(w)
  <2>1. Call(w).call = "delete" /\ rows' = [rows EXCEPT ![k] = << >>] /\ held' = held /\ First(w)
    BY <1>8 DEF DeleteDeregisters, Calls, Deregisters, k
  <2>2. k = RotatedKey(w) /\ k \in KeysOf(w) /\ k \in Keys
    BY <1>1, <2>1
  <2>3. rows'[k] = << >> /\ DOMAIN rows' = Keys /\ \A j \in Keys \ {k} : rows'[j] = rows[j]
    BY <1>2, <2>1, <2>2
  <2>4. \A v \in Busy : \A j \in SeedKeys(v) : rows'[j] = rows[j]
    <3> TAKE v \in Busy
    <3> TAKE j \in SeedKeys(v)
    <3>1. j # k /\ j \in Keys
      BY <1>0, <1>3, <2>2, SeedsSafe
    <3> QED BY <2>3, <3>1
  <2>5. /\ WorkInv(w)' /\ half' \in [Workers -> BOOLEAN] /\ UNCHANGED <<task, step, at, present>>
        /\ \A v \in Workers \ {w} : half'[v] = half[v]
    BY <1>0, <2>1, <2>3, <2>4, Begun DEF k
  <2>6. WTypes'
    <3>1. << >> \in Row(k)
      BY DEF Row
    <3>2. \A j \in Keys : rows'[j] \in Row(j)
      BY <1>2, <2>3, <3>1
    <3> QED BY <1>2, <2>1, <2>3, <2>5, <3>2 DEF WTypes, Row
  <2>7. Backed'
    BY <1>0, <2>1, <2>3 DEF Backed
  <2>8. \A j \in Keys : j \notin KeysOf(w) =>
          rows'[j] = rows[j] /\ \A y \in Volumes : j \in held[y] => j \in held'[y]
    BY <2>1, <2>2, <2>3
  <2>9. \A v \in Busy : \A j \in SeedKeys(v) : rows[j] # << >> => rows'[j] # << >>
    BY <2>4
  <2> QED BY <1>0, <2>5, <2>6, <2>7, <2>8, <2>9, OneMoves
<1>9. CASE DeleteDrops(w)
  <2>1. /\ Call(w).call = "delete" /\ half[w] /\ rows' = rows /\ Returns(w)
        /\ held' = [v \in Volumes |-> held[v] \ {k}]
        /\ half' = [half EXCEPT ![w] = FALSE] /\ present' = [present EXCEPT ![w] = FALSE]
    BY <1>9 DEF DeleteDrops, Calls, Drops, k
  <2>2. k \in KeysOf(w) /\ k \in Keys /\ rows[k] = << >>
    BY <1>1, <1>4, <2>1
  <2>3. /\ held' \in [Volumes -> SUBSET Keys]
        /\ \A j \in Keys \ {k}, y \in Volumes : j \in held[y] => j \in held'[y]
    BY <1>2, <2>1
  <2>4. task[w] # "seeding"
    BY <1>1, <1>5, <2>1
  <2>5. /\ WorkInv(w)' /\ step' \in [Workers -> Nat] /\ at' \in [Workers -> Nat]
        /\ half' \in [Workers -> BOOLEAN]
        /\ \A v \in Workers \ {w} : step'[v] = step[v] /\ at'[v] = at[v] /\ half'[v] = half[v]
                                    /\ task'[v] = task[v]
    BY <1>0, <2>1, <2>4, ReturnsW
  <2>6. present' \in [Workers -> BOOLEAN] /\ \A v \in Workers \ {w} : present'[v] = present[v]
    BY <1>2, <2>1
  <2>7. WTypes'
    BY <1>2, <2>1, <2>3, <2>5, <2>6 DEF WTypes, Row
  <2>8. Backed'
    <3> SUFFICES ASSUME NEW j \in Keys, rows[j] # << >> PROVE j \in held'[rows[j][1].vol]
      BY <2>1 DEF Backed
    <3>1. rows[j][1] \in [vol : Volumes, coords : SUBSET Mesh[j]]
      BY <1>2, FirstOf DEF Row
    <3> QED BY <1>0, <2>2, <2>3, <3>1 DEF Backed
  <2>9. \A j \in Keys : j \notin KeysOf(w) =>
          rows'[j] = rows[j] /\ \A y \in Volumes : j \in held[y] => j \in held'[y]
    BY <2>1, <2>2, <2>3
  <2> QED BY <1>0, <2>1, <2>5, <2>6, <2>7, <2>8, <2>9, OneMoves
<1>10. CASE ReadVersion(w) \/ ReadNothing(w)
  <2>1. Call(w).call = "get" /\ UNCHANGED <<rows, held, half, present>> /\ Returns(w)
    BY <1>10 DEF ReadVersion, ReadNothing, Calls
  <2>2. task[w] # "seeding" /\ half[w] = FALSE
    BY <1>0, <1>1, <1>2, <1>4, <1>5, <2>1, BusyAre
  <2>3. half' = [half EXCEPT ![w] = FALSE]
    BY <1>2, <2>1, <2>2
  <2>4. /\ WorkInv(w)' /\ step' \in [Workers -> Nat] /\ at' \in [Workers -> Nat]
        /\ half' \in [Workers -> BOOLEAN]
        /\ \A v \in Workers \ {w} : step'[v] = step[v] /\ at'[v] = at[v] /\ half'[v] = half[v]
                                    /\ task'[v] = task[v]
    BY <1>0, <2>1, <2>2, <2>3, ReturnsW
  <2>5. WTypes'
    BY <1>2, <2>1, <2>4 DEF WTypes, Row
  <2>6. Backed'
    BY <1>0, <2>1 DEF Backed
  <2> QED BY <1>0, <2>1, <2>4, <2>5, <2>6, OneMoves
<1> QED BY <1>6, <1>7, <1>8, <1>9, <1>10 DEF Work

LEMMA WNext == JInv /\ WInv /\ [Next]_vars => WInv'
<1> SUFFICES ASSUME JInv, WInv, [Next]_vars PROVE WInv'
  OBVIOUS
<1>0. /\ JTypes /\ (\A r \in Ranks : Barriers(r)) /\ step \in [Workers -> Nat] /\ world \in Worlds
      /\ Busy \subseteq Workers /\ task \in [Workers -> Tasks] /\ arrived \in [Ranks -> 0 .. 2]
  BY BusyAre DEF JInv, JTypes, WInv, WTypes
<1>1. ASSUME UNCHANGED <<world, rows, held, at, half, present, step, task, arrived>> PROVE WInv'
  BY <1>0, <1>1, TasksW
<1>2. ASSUME NEW w \in Workers, Work(w) PROVE WInv'
  BY <1>2, WorkW
<1>3. ASSUME NEW w \in Workers, PutRaises(w) PROVE WInv'
  <2>1. /\ UNCHANGED <<world, rows, held, at, half, present, step, arrived>>
        /\ task' = [task EXCEPT ![w] = "died"]
    BY <1>3 DEF PutRaises, rankVars
  <2>2. \A v \in Busy : task'[v] = task[v] \/ task'[v] \in {"died", "over"}
    BY <1>0, <2>1
  <2> QED BY <1>0, <2>1, <2>2, TasksW
<1>4. ASSUME NEW r \in Ranks, SeedBegins(r) PROVE WInv'
  <2>1. PICK i \in DOMAIN Plan(world, r) :
          /\ task[Plan(world, r)[i]] = "new"
          /\ task' = [task EXCEPT ![Plan(world, r)[i]] = "seeding"]
    BY <1>4 DEF SeedBegins
  <2>2. UNCHANGED <<world, rows, held, at, half, present, step, arrived>>
    BY <1>4 DEF SeedBegins, Unworked, storeVars, rankVars
  <2>3. \A v \in Busy : task'[v] = task[v] \/ (task[v] = "new" /\ task'[v] = "seeding")
    BY <1>0, <2>1
  <2> QED BY <1>0, <2>2, <2>3, TasksW
<1>5. ASSUME NEW r \in Ranks, SeedsDone(r) PROVE WInv'
  <2>1. /\ UNCHANGED <<world, rows, held, at, half, present, step, task>>
        /\ arrived' = [arrived EXCEPT ![r] = 1] /\ \A w \in Mine(r) : task[w] = "seeded"
    BY <1>5 DEF SeedsDone, Arrives, Unworked, storeVars, workVars
  <2>2. \A q \in Ranks : arrived'[q] >= 1 => arrived[q] >= 1 \/ \A w \in Mine(q) : task[w] = "seeded"
    BY <1>0, <2>1
  <2> QED BY <1>0, <2>1, <2>2, TasksW
<1>6. ASSUME NEW r \in Ranks,
             SeedFails(r) \/ BarrierBreaks(r) \/ Listen(r) \/ ListenFails(r) \/ Leave(r) \/ Signal(r)
      PROVE  WInv'
  <2>1. UNCHANGED <<world, rows, held, at, half, present, step, task, arrived>>
    BY <1>6 DEF SeedFails, BarrierBreaks, Listen, ListenFails, Leave, Signal, Unworked, storeVars, workVars
  <2> QED BY <1>1, <2>1
<1>7. ASSUME NEW r \in Ranks, PassBarrier(r) PROVE WInv'
  <2>1. /\ UNCHANGED <<world, rows, held, at, half, present, arrived>> /\ phase[r] = "barrier"
        /\ task' = [w \in Workers |-> IF w \in Mine(r) THEN "running" ELSE task[w]]
        /\ step' = [w \in Workers |-> IF w \in Mine(r) THEN 1 ELSE step[w]]
    BY <1>7 DEF PassBarrier, Unworked, storeVars
  <2>2. \A w \in Mine(r) : task[w] = "seeded"
    BY <1>0, <2>1 DEF Barriers
  <2>3. step' \in [Workers -> Nat]
    BY <1>0, <2>1
  <2>4. \A v \in Busy : \/ step'[v] = step[v] /\ task'[v] = task[v]
                        \/ task[v] = "seeded" /\ task'[v] = "running" /\ step'[v] = 1
    BY <1>0, <2>1, <2>2
  <2> QED BY <2>1, <2>3, <2>4, TasksW
<1>8. ASSUME NEW r \in Ranks, StopWorkers(r) \/ CloseServer(r) \/ Shutdown(r) PROVE WInv'
  <2>1. /\ UNCHANGED <<world, rows, held, at, half, present, step>>
        /\ \A v \in Workers : task'[v] \in {task[v], "over"}
    BY <1>0, <1>8 DEF StopWorkers, CloseServer, Shutdown, Unworked, storeVars, workVars
  <2>2. \A q \in Ranks : arrived'[q] >= 1 => arrived[q] >= 1
    <3>1. CASE Shutdown(r)
      BY <3>1 DEF Shutdown
    <3>2. CASE StopWorkers(r) \/ CloseServer(r)
      <4>1. phase[r] \in {"running", "closing"} /\ \E n : arrived' = [arrived EXCEPT ![r] = n]
        BY <3>2 DEF StopWorkers, CloseServer, Arrives
      <4>2. \A q \in Ranks : arrived[q] >= 1
        BY <1>0, <4>1 DEF Barriers
      <4> QED BY <4>2
    <3> QED BY <1>8, <3>1, <3>2
  <2>3. \A v \in Busy : step'[v] = step[v] /\ (task'[v] = task[v] \/ task'[v] \in {"died", "over"})
    BY <1>0, <2>1
  <2> QED BY <1>0, <2>1, <2>2, <2>3, TasksW
<1>9. ASSUME NEW c \in Clients,
             Handle(c) \/ Connect(c) \/ Ask(c) \/ AskNext(c) \/ HangUp(c)
      PROVE  WInv'
  <2>1. UNCHANGED <<world, rows, held, at, half, present, step, task, arrived>>
    BY <1>9 DEF Handle, Read, Respond, Closed, Connect, Ask, AskNext, HangUp, GatherKeys, GatherLocate,
                Collect, Unserved, rankVars, workVars, storeVars
  <2> QED BY <1>1, <2>1
<1>10. CASE UNCHANGED vars
  <2>1. UNCHANGED <<world, rows, held, at, half, present, step, task, arrived>>
    BY <1>10 DEF vars, storeVars, rankVars, workVars
  <2> QED BY <1>1, <2>1
<1> QED BY <1>2, <1>3, <1>4, <1>5, <1>6, <1>7, <1>8, <1>9, <1>10 DEF Next, Runs, Progress

-----------------------------------------------------------------------------
(* Gathers.                                                                *)

(* The keys have been read: those stored, but for what was touched since.  *)
Located(c) ==
  /\ todo[c] \in Seq(Keys)
  /\ \A k \in Keys \ touched[c] : k \in Range(todo[c]) <=> rows[k] # << >>
  /\ \A w \in Busy : SeedKeys(w) \subseteq Range(todo[c])

(* So have the maps: an untouched key is listed or still to come, as it is *)
(* stored; a seed is listed, or to come and found where its map says.      *)
Collecting(c) ==
  /\ todo[c] \in Seq(Keys) /\ records[c] \in Seq(Range(records[c])) /\ Listed(c) \subseteq Keys
  /\ DOMAIN maps[c] \in SUBSET Keys /\ Range(todo[c]) \subseteq DOMAIN maps[c]
  /\ \A k \in DOMAIN maps[c] : maps[c][k] \in Row(k)
  /\ \A k \in Keys \ touched[c] : /\ k \in Range(todo[c]) \union Listed(c) <=> rows[k] # << >>
                                  /\ k \in Range(todo[c]) => maps[c][k] = rows[k]
  /\ \A r \in Range(records[c]) :
       r.key \notin touched[c] => r.committed = IsFullyCommitted(r.key, rows[r.key])
  /\ ~torn => \A w \in Busy : \A k \in SeedKeys(w) :
       \/ k \in Listed(c)
       \/ k \in Range(todo[c]) /\ maps[c][k] # << >> /\ k \in held[maps[c][k][1].vol]

GatherInv(c) ==
  /\ stage[c] # "idle" => conn[c] # "away"
  /\ req[c].op \in Gathering =>
       /\ stage[c] # "answer"
       /\ stage[c] \in {"keys", "locate"} => records[c] = << >>
       /\ stage[c] = "locate" => Located(c)
       /\ stage[c] = "collect" => Collecting(c)
       /\ stage[c] \in {"locate", "collect"} /\ torn => Keys \subseteq touched[c]

IsRequest(q) ==
  q = [op |-> q.op, arg |-> q.arg, sort |-> q.sort, order |-> q.order, limit |-> q.limit,
       cursor |-> q.cursor]

GInv ==
  /\ DOMAIN req = Clients /\ DOMAIN stage = Clients /\ DOMAIN todo = Clients /\ DOMAIN maps = Clients
  /\ DOMAIN records = Clients /\ DOMAIN touched = Clients 
  /\ \A c \in Clients : IsRequest(req[c])
  /\ \A c \in Clients : GatherInv(c)

(* What the store's writers leave as it is for a gather.                   *)
StoreMoves(c) ==
  /\ touched[c] \subseteq touched'[c]
  /\ \A k \in Keys \ touched'[c] : rows'[k] = rows[k] /\ k \notin touched[c]
  /\ \A w \in Busy : \A k \in SeedKeys(w), v \in Volumes : k \in held[v] => k \in held'[v]
  /\ torn => torn'
  /\ torn' => torn \/ Keys \subseteq touched'[c]

LEMMA GInit == Init => GInv
<1>1. IsRequest(NoRequest)
  BY DEF IsRequest, NoRequest
<1>2. Init => \A c \in Clients : GatherInv(c)
  BY DEF Init, GatherInv, NoRequest
<1> QED BY <1>1, <1>2 DEF Init, GInv

(* A request that failed or goes on to its next page is still a request.   *)
LEMMA RequestEdits ==
  ASSUME NEW q, IsRequest(q), NEW x
  PROVE  /\ IsRequest([q EXCEPT !.op = x]) /\ [q EXCEPT !.op = x].op = x
         /\ IsRequest([q EXCEPT !.cursor = x]) /\ [q EXCEPT !.cursor = x].op = q.op
<1>1. [q EXCEPT !.op = x] = [op |-> x, arg |-> q.arg, sort |-> q.sort, order |-> q.order,
                             limit |-> q.limit, cursor |-> q.cursor]
  BY DEF IsRequest
<1>2. [q EXCEPT !.cursor = x] = [op |-> q.op, arg |-> q.arg, sort |-> q.sort, order |-> q.order,
                                 limit |-> q.limit, cursor |-> x]
  BY DEF IsRequest
<1> QED BY <1>1, <1>2 DEF IsRequest

(* A gather whose client made no step.                                     *)
LEMMA GatherKept ==
  ASSUME JInv, WInv, NEW c \in Clients, GatherInv(c), StoreMoves(c), world' = world,
         req'[c] = req[c], stage'[c] = stage[c], todo'[c] = todo[c], maps'[c] = maps[c],
         records'[c] = records[c], conn[c] # "away" => conn'[c] # "away"
  PROVE  GatherInv(c)'
<1>0. Busy' = Busy /\ Listed(c)' = Listed(c)
  BY DEF Busy, Ranks, Mine, Listed
<1>1. ASSUME Located(c) PROVE Located(c)'
  BY <1>0, <1>1 DEF Located, StoreMoves
<1>2. ASSUME Collecting(c) PROVE Collecting(c)'
  <2>1. /\ todo[c] \in Seq(Keys) /\ records[c] \in Seq(Range(records[c])) /\ Listed(c) \subseteq Keys
        /\ DOMAIN maps[c] \in SUBSET Keys /\ Range(todo[c]) \subseteq DOMAIN maps[c]
        /\ \A k \in DOMAIN maps[c] : maps[c][k] \in Row(k)
    BY <1>2 DEF Collecting
  <2>2. \A k \in Keys \ touched'[c] : /\ k \in Range(todo[c]) \union Listed(c) <=> rows'[k] # << >>
                                      /\ k \in Range(todo[c]) => maps[c][k] = rows'[k]
    BY <1>2 DEF Collecting, StoreMoves
  <2>3. ASSUME NEW r \in Range(records[c]), r.key \notin touched'[c]
        PROVE  r.committed = IsFullyCommitted(r.key, rows'[r.key])
    <3>1. r.key \notin touched[c] /\ r.committed = IsFullyCommitted(r.key, rows[r.key])
      BY <1>2, <2>3 DEF Collecting, StoreMoves
    <3>2. r.key \in Keys
      BY <2>1 DEF Listed
    <3> QED BY <2>3, <3>1, <3>2 DEF StoreMoves
  <2>4. ASSUME ~torn', NEW w \in Busy, NEW k \in SeedKeys(w)
        PROVE  \/ k \in Listed(c)
               \/ k \in Range(todo[c]) /\ maps[c][k] # << >> /\ k \in held'[maps[c][k][1].vol]
    <3>1. ~torn
      BY <2>4 DEF StoreMoves
    <3>2. \/ k \in Listed(c)
          \/ k \in Range(todo[c]) /\ maps[c][k] # << >> /\ k \in held[maps[c][k][1].vol]
      BY <1>2, <2>4, <3>1 DEF Collecting
    <3>3. CASE k \in Range(todo[c]) /\ maps[c][k] # << >> /\ k \in held[maps[c][k][1].vol]
      <4>1. maps[c][k] \in Row(k)
        BY <2>1, <3>3
      <4>2. maps[c][k][1] \in [vol : Volumes, coords : SUBSET Mesh[k]]
        BY <3>3, <4>1, FirstOf DEF Row
      <4> QED BY <2>4, <3>3, <4>2 DEF StoreMoves
    <3> QED BY <3>2, <3>3
  <2> QED BY <1>0, <2>1, <2>2, <2>3, <2>4 DEF Collecting, Row
<1> QED BY <1>1, <1>2 DEF GatherInv, StoreMoves

(* The writers touch what they change.                                     *)
LEMMA WorkTouches ==
  ASSUME JInv, WInv, GInv, NEW w \in Workers, Work(w), NEW c \in Clients
  PROVE  StoreMoves(c) /\ DOMAIN touched' = Clients
<1>0. /\ DOMAIN touched = Clients /\ WTypes /\ world \in Worlds /\ w \in Busy /\ WorkInv(w)
      /\ UNCHANGED torn
  BY DEF WInv, GInv, JInv, JTypes, Work, PutLands, PutRegisters, DeleteDeregisters, DeleteDrops, ReadVersion,
         ReadNothing, Calls, Elsewhere
<1> DEFINE k == Call(w).key
           x == RankOf(w)
<1>1. /\ (Call(w).call # "get" => k \in Keys) /\ (Call(w).call = "delete" => k = RotatedKey(w))
      /\ x \in Volumes
  BY <1>0, CallIs, RankIs
<1>2. DOMAIN rows = Keys /\ held \in [Volumes -> SUBSET Keys]
  BY <1>0 DEF WTypes
<1> HIDE DEF k, x
<1>3. ASSUME Touch({k}) PROVE touched'[c] = touched[c] \union {k} /\ DOMAIN touched' = Clients
  BY <1>3 DEF Touch
<1>4. CASE PutLands(w)
  <2>1. /\ Call(w).call = "put" /\ held' = [held EXCEPT ![x] = @ \union {k}] /\ rows' = rows
        /\ touched' = touched \/ Touch({k})
    BY <1>4 DEF PutLands, Calls, Lands, k, x
  <2>2. \A j : \A v \in Volumes : j \in held[v] => j \in held'[v]
    BY <1>1, <1>2, <2>1
  <2> QED BY <1>0, <1>3, <2>1, <2>2 DEF StoreMoves
<1>5. CASE PutRegisters(w)
  <2>1. /\ Call(w).call = "put" /\ held' = held
        /\ \/ rows' = rows /\ touched' = touched
           \/ Touch({k}) /\ \E s : rows' = [rows EXCEPT ![k] = s]
    BY <1>5 DEF PutRegisters, Calls, Registers, k, x
  <2>2. CASE rows' = rows /\ touched' = touched
    BY <1>0, <2>1, <2>2 DEF StoreMoves
  <2>3. CASE Touch({k}) /\ \E s : rows' = [rows EXCEPT ![k] = s]
    <3>1. \A j \in Keys \ {k} : rows'[j] = rows[j]
      BY <1>2, <2>3
    <3> QED BY <1>0, <1>3, <2>1, <2>3, <3>1 DEF StoreMoves
  <2> QED BY <2>1, <2>2, <2>3
<1>6. CASE DeleteDeregisters(w)
  <2>1. rows' = [rows EXCEPT ![k] = << >>] /\ held' = held /\ Touch({k})
    BY <1>6 DEF DeleteDeregisters, Calls, Deregisters, k
  <2>2. \A j \in Keys \ {k} : rows'[j] = rows[j]
    BY <1>2, <2>1
  <2> QED BY <1>0, <1>3, <2>1, <2>2 DEF StoreMoves
<1>7. CASE DeleteDrops(w)
  <2>1. /\ Call(w).call = "delete" /\ rows' = rows /\ Touch({k})
        /\ held' = [v \in Volumes |-> held[v] \ {k}]
    BY <1>7 DEF DeleteDrops, Calls, Drops, k
  <2>2. \A v \in Busy : \A j \in SeedKeys(v) : j # k
    BY <1>0, <1>1, <2>1, SeedsSafe
  <2> QED BY <1>0, <1>3, <2>1, <2>2 DEF StoreMoves
<1>8. CASE ReadVersion(w) \/ ReadNothing(w)
  <2>1. UNCHANGED <<touched, rows, held>>
    BY <1>8 DEF ReadVersion, ReadNothing
  <2> QED BY <1>0, <2>1 DEF StoreMoves
<1> QED BY <1>4, <1>5, <1>6, <1>7, <1>8 DEF Work

(* One client's step, the store as it was.                                 *)
LEMMA OneAsks ==
  ASSUME JInv, WInv, GInv, NEW c \in Clients, UNCHANGED <<rows, held, torn, world>>, GatherInv(c)',
         DOMAIN req' = Clients, DOMAIN stage' = Clients, DOMAIN todo' = Clients, DOMAIN maps' = Clients,
         DOMAIN records' = Clients, DOMAIN touched' = Clients, IsRequest(req[c])',
         \A d \in Clients \ {c} :
           /\ req'[d] = req[d] /\ stage'[d] = stage[d] /\ todo'[d] = todo[d] /\ maps'[d] = maps[d]
           /\ records'[d] = records[d] /\ touched'[d] = touched[d] /\ conn'[d] = conn[d]
  PROVE  GInv'
<1>1. ASSUME NEW d \in Clients \ {c} PROVE GatherInv(d)'
  <2>1. StoreMoves(d)
    BY DEF StoreMoves
  <2>2. GatherInv(d)
    BY DEF GInv
  <2> QED BY <2>1, <2>2, GatherKept
<1>2. \A d \in Clients : IsRequest(req[d])'
  BY DEF GInv, IsRequest
<1> QED BY <1>1, <1>2 DEF GInv

LEMMA HeadAndTail ==
  ASSUME NEW S, NEW s \in Seq(S), s # << >>
  PROVE  /\ Head(s) \in S /\ Head(s) \in Range(s) /\ Tail(s) \in Seq(S)
         /\ Range(s) = Range(Tail(s)) \union {Head(s)}
<1>1. Len(s) \in Nat /\ Len(s) # 0 /\ DOMAIN s = 1 .. Len(s) /\ Head(s) = s[1]
  OBVIOUS
<1>2. Tail(s) \in Seq(S) /\ Len(Tail(s)) = Len(s) - 1 /\ \A i \in 1 .. Len(s) - 1 : Tail(s)[i] = s[i + 1]
  OBVIOUS
<1>3. DOMAIN Tail(s) = 1 .. Len(s) - 1
  BY <1>1, <1>2
<1>4. 1 \in DOMAIN s /\ s[1] \in S
  BY <1>1, FirstOf
<1>5. ASSUME NEW i \in DOMAIN s, i # 1 PROVE s[i] \in Range(Tail(s))
  <2>1. i - 1 \in 1 .. Len(s) - 1 /\ (i - 1) + 1 = i
    BY <1>1, <1>5
  <2>2. Tail(s)[i - 1] = s[i]
    BY <1>2, <2>1
  <2> QED BY <1>3, <2>1, <2>2 DEF Range
<1>6. ASSUME NEW i \in DOMAIN Tail(s) PROVE Tail(s)[i] \in Range(s)
  <2>1. i + 1 \in DOMAIN s /\ Tail(s)[i] = s[i + 1]
    BY <1>1, <1>2, <1>3
  <2> QED BY <2>1 DEF Range
<1>7. Range(s) \subseteq Range(Tail(s)) \union {Head(s)}
  BY <1>1, <1>5 DEF Range
<1>8. Range(Tail(s)) \subseteq Range(s)
  BY <1>6 DEF Range
<1>9. Head(s) \in Range(s)
  BY <1>1, <1>4 DEF Range
<1> QED BY <1>1, <1>2, <1>4, <1>7, <1>8, <1>9

LEMMA RangeAppend ==
  ASSUME NEW s, s \in Seq(Range(s)), NEW e
  PROVE  /\ Range(Append(s, e)) = Range(s) \union {e}
         /\ Append(s, e) \in Seq(Range(Append(s, e)))
<1> DEFINE S == Range(s) \union {e}
           t == Append(s, e)
<1>1. s \in Seq(S) /\ e \in S
  <2>1. s \in [1 .. Len(s) -> Range(s)] /\ Len(s) \in Nat
    OBVIOUS
  <2>2. s \in [1 .. Len(s) -> S]
    BY <2>1
  <2> QED BY <2>1, <2>2
<1>2. /\ t \in Seq(S) /\ Len(t) = Len(s) + 1 /\ Len(s) \in Nat /\ t[Len(s) + 1] = e
      /\ \A i \in 1 .. Len(s) : t[i] = s[i]
  <2> HIDE DEF S
  <2> QED BY <1>1
<1>3. DOMAIN t = 1 .. Len(s) + 1 /\ DOMAIN s = 1 .. Len(s)
  BY <1>1, <1>2
<1> HIDE DEF t
<1>4. \A i \in DOMAIN t : t[i] \in S
  BY <1>2, <1>3
<1>5. ASSUME NEW i \in DOMAIN s PROVE s[i] \in Range(t)
  <2>1. i \in DOMAIN t /\ t[i] = s[i]
    BY <1>2, <1>3
  <2> QED BY <2>1 DEF Range
<1>6. e \in Range(t)
  <2>1. Len(s) + 1 \in DOMAIN t
    BY <1>2, <1>3
  <2> QED BY <1>2, <2>1 DEF Range
<1>7. Range(t) = S
  BY <1>4, <1>5, <1>6 DEF Range
<1> QED BY <1>2, <1>7 DEF t

(* A key the seeds of this job hold is in the store, once a client is in.  *)
LEMMA AllSown ==
  ASSUME JInv, WInv, NEW c \in Clients, conn[c] # "away"
  PROVE  \A w \in Busy : SeedKeys(w) \subseteq Live
<1>1. \A r \in Ranks : \A w \in Mine(r) : Sown(w)
  BY DEF JInv, WInv
<1>2. \A w \in Workers : SeedKeys(w) \subseteq Keys
  BY LiveAssumption
<1>3. Busy \subseteq Workers
  BY BusyAre DEF JInv, JTypes
<1> QED BY <1>1, <1>2, <1>3 DEF Busy, Sown, Live

LEMMA KeysG ==
  ASSUME JInv, WInv, GInv, NEW c \in Clients, GatherKeys(c), UNCHANGED <<world>>
  PROVE  GInv'
<1>0. /\ GatherInv(c) /\ IsRequest(req[c]) /\ stage[c] = "keys"
      /\ DOMAIN req = Clients /\ DOMAIN stage = Clients /\ DOMAIN todo = Clients
      /\ UNCHANGED <<rows, held, torn, conn, maps, records, touched>>
  BY DEF GInv, GatherKeys, storeVars
<1>1. Busy' = Busy
  BY DEF Busy, Ranks, Mine
<1>2. CASE torn
  <2>1. req' = [req EXCEPT ![c].op = "failed"] /\ stage' = [stage EXCEPT ![c] = "answer"] /\ todo' = todo
    BY <1>2 DEF GatherKeys, Fail
  <2>2. req'[c] = [req[c] EXCEPT !.op = "failed"] /\ stage'[c] = "answer"
    BY <1>0, <2>1
  <2>3. IsRequest(req[c])' /\ req'[c].op = "failed"
    <3>1. IsRequest([req[c] EXCEPT !.op = "failed"]) /\ [req[c] EXCEPT !.op = "failed"].op = "failed"
      BY <1>0, RequestEdits
    <3> QED BY <2>2, <3>1 DEF IsRequest
  <2>4. GatherInv(c)'
    BY <1>0, <2>2, <2>3 DEF GatherInv, Gathering, Listings
  <2> QED BY <1>0, <2>1, <2>3, <2>4, OneAsks DEF GInv
<1>3. CASE ~torn
  <2>1. /\ todo' = [todo EXCEPT ![c] = SortedStrings(Live)]
        /\ stage' = [stage EXCEPT ![c] = "locate"] /\ req' = req
    BY <1>3 DEF GatherKeys
  <2>2. todo'[c] = SortedStrings(Live) /\ stage'[c] = "locate"
    BY <1>0, <2>1
  <2>3. SortedStrings(Live) \in Seq(Live) /\ Range(SortedStrings(Live)) = Live /\ Live \subseteq Keys
    BY LiveAssumption DEF Live
  <2>4. SortedStrings(Live) \in Seq(Keys)
    <3> DEFINE s == SortedStrings(Live)
    <3>1. s \in [1 .. Len(s) -> Live] /\ Len(s) \in Nat
      BY <2>3
    <3>2. s \in [1 .. Len(s) -> Keys]
      BY <2>3, <3>1
    <3> HIDE DEF s
    <3>3. s \in Seq(Keys)
      BY <3>1, <3>2
    <3> QED BY <3>3 DEF s
  <2>5. Located(c)'
    <3>1. \A w \in Busy : SeedKeys(w) \subseteq Live
      BY <1>0, AllSown DEF GatherInv
    <3>2. Range(todo'[c]) = Live /\ todo'[c] \in Seq(Keys)
      BY <2>2, <2>3, <2>4
    <3>3. \A k \in Keys \ touched[c] : k \in Live <=> rows[k] # << >>
      BY DEF Live
    <3> QED BY <1>0, <1>1, <3>1, <3>2, <3>3 DEF Located
  <2>6. GatherInv(c)'
    BY <1>0, <1>3, <2>1, <2>2, <2>5 DEF GatherInv
  <2> QED BY <1>0, <2>1, <2>6, OneAsks DEF GInv
<1> QED BY <1>2, <1>3

LEMMA LocateG ==
  ASSUME JInv, WInv, GInv, NEW c \in Clients, GatherLocate(c), UNCHANGED <<world>>
  PROVE  GInv'
<1>0. /\ GatherInv(c) /\ IsRequest(req[c]) /\ stage[c] = "locate"
      /\ DOMAIN req = Clients /\ DOMAIN stage = Clients /\ DOMAIN maps = Clients
      /\ UNCHANGED <<rows, held, torn, conn, todo, records, touched>>
  BY DEF GInv, GatherLocate, storeVars
<1>1. Busy' = Busy
  BY DEF Busy, Ranks, Mine
<1>2. CASE torn
  <2>1. req' = [req EXCEPT ![c].op = "failed"] /\ stage' = [stage EXCEPT ![c] = "answer"] /\ maps' = maps
    BY <1>2 DEF GatherLocate, Fail
  <2>2. req'[c] = [req[c] EXCEPT !.op = "failed"] /\ stage'[c] = "answer"
    BY <1>0, <2>1
  <2>3. IsRequest(req[c])' /\ req'[c].op = "failed"
    <3>1. IsRequest([req[c] EXCEPT !.op = "failed"]) /\ [req[c] EXCEPT !.op = "failed"].op = "failed"
      BY <1>0, RequestEdits
    <3> QED BY <2>2, <3>1 DEF IsRequest
  <2>4. GatherInv(c)'
    BY <1>0, <2>2, <2>3 DEF GatherInv, Gathering, Listings
  <2> QED BY <1>0, <2>1, <2>3, <2>4, OneAsks DEF GInv
<1>3. CASE ~torn
  <2>1. /\ maps' = [maps EXCEPT ![c] = [k \in Range(todo[c]) |-> rows[k]]]
        /\ stage' = [stage EXCEPT ![c] = "collect"] /\ req' = req
    BY <1>3 DEF GatherLocate
  <2>2. maps'[c] = [k \in Range(todo[c]) |-> rows[k]] /\ stage'[c] = "collect"
    BY <1>0, <2>1
  <2>3. ASSUME req[c].op \in Gathering PROVE Collecting(c)'
    <3>1. /\ todo[c] \in Seq(Keys) /\ records[c] = << >>
          /\ \A k \in Keys \ touched[c] : k \in Range(todo[c]) <=> rows[k] # << >>
          /\ \A w \in Busy : SeedKeys(w) \subseteq Range(todo[c])
      BY <1>0, <2>3 DEF GatherInv, Located
    <3>2. Range(todo[c]) \subseteq Keys
      BY <3>1 DEF Range
    <3>3. \A k \in Keys : rows[k] \in Row(k)
      BY DEF WInv, WTypes
    <3>4. Range(records[c]) = {} /\ Listed(c) = {} /\ Listed(c)' = {} /\ records[c] \in Seq(Range(records[c]))
      BY <1>0, <3>1 DEF Range, Listed
    <3>5. DOMAIN maps'[c] = Range(todo[c]) /\ \A k \in Range(todo[c]) : maps'[c][k] = rows[k]
      BY <2>2
    <3>6. ASSUME NEW w \in Busy, NEW k \in SeedKeys(w)
          PROVE  k \in Range(todo[c]) /\ maps'[c][k] # << >> /\ k \in held[maps'[c][k][1].vol]
      <4>1. k \in Range(todo[c]) /\ k \in Live
        BY <1>0, <3>1, <3>6, AllSown DEF GatherInv
      <4>2. rows[k] # << >> /\ k \in Keys /\ k \in held[rows[k][1].vol]
        BY <4>1 DEF Live, WInv, Backed
      <4> QED BY <3>5, <4>1, <4>2
    <3> QED BY <1>0, <1>1, <3>1, <3>2, <3>3, <3>4, <3>5, <3>6 DEF Collecting, Row
  <2>4. GatherInv(c)'
    BY <1>0, <1>3, <2>1, <2>2, <2>3 DEF GatherInv
  <2> QED BY <1>0, <2>1, <2>4, OneAsks DEF GInv
<1> QED BY <1>2, <1>3

LEMMA CollectG ==
  ASSUME JInv, WInv, GInv, NEW c \in Clients, Collect(c), UNCHANGED <<world>>
  PROVE  GInv'
<1> DEFINE k == Head(todo[c])
           map == maps[c][k]
           found == map # << >> /\ MetaFound(k, map)
<1>0. /\ GatherInv(c) /\ IsRequest(req[c]) /\ stage[c] = "collect" /\ todo[c] # << >>
      /\ DOMAIN todo = Clients /\ DOMAIN records = Clients
      /\ UNCHANGED <<rows, held, torn, conn, req, stage, maps, touched>>
  BY DEF GInv, Collect, storeVars
<1>1. Busy' = Busy
  BY DEF Busy, Ranks, Mine
<1>2. /\ todo' = [todo EXCEPT ![c] = Tail(todo[c])]
      /\ records' = [records EXCEPT ![c] = Collected(records[c], k, map)]
  BY DEF Collect
<1>3. todo'[c] = Tail(todo[c]) /\ records'[c] = IF found THEN Append(records[c], Record(k, map)) ELSE records[c]
  BY <1>0, <1>2 DEF Collected
<1>4. ASSUME req[c].op \in Gathering PROVE Collecting(c)'
  <2>1. Collecting(c) /\ (torn => Keys \subseteq touched[c])
    BY <1>0, <1>4 DEF GatherInv
  <2>2. /\ todo[c] \in Seq(Keys) /\ records[c] \in Seq(Range(records[c])) /\ Listed(c) \subseteq Keys
        /\ DOMAIN maps[c] \in SUBSET Keys /\ Range(todo[c]) \subseteq DOMAIN maps[c]
        /\ \A j \in DOMAIN maps[c] : maps[c][j] \in Row(j)
        /\ \A j \in Keys \ touched[c] : /\ j \in Range(todo[c]) \union Listed(c) <=> rows[j] # << >>
                                        /\ j \in Range(todo[c]) => maps[c][j] = rows[j]
        /\ \A r \in Range(records[c]) :
             r.key \notin touched[c] => r.committed = IsFullyCommitted(r.key, rows[r.key])
        /\ ~torn => \A w \in Busy : \A j \in SeedKeys(w) :
             \/ j \in Listed(c)
             \/ j \in Range(todo[c]) /\ maps[c][j] # << >> /\ j \in held[maps[c][j][1].vol]
    BY <2>1 DEF Collecting
  <2>3. /\ k \in Keys /\ k \in Range(todo[c]) /\ Tail(todo[c]) \in Seq(Keys)
        /\ Range(todo[c]) = Range(Tail(todo[c])) \union {k}
    BY <1>0, <2>2, HeadAndTail
  <2>4. /\ Record(k, map).key = k /\ Record(k, map).committed = IsFullyCommitted(k, map)
    BY DEF Record
  <2>5. found <=> map # << >> /\ ~torn /\ k \in held[map[1].vol]
    BY DEF MetaFound
  <2>6. k \notin touched[c] => found
    <3> SUFFICES ASSUME k \notin touched[c] PROVE found
      OBVIOUS
    <3>1. map = rows[k] /\ rows[k] # << >> /\ ~torn
      BY <2>1, <2>2, <2>3
    <3>2. k \in held[rows[k][1].vol]
      BY <2>3, <3>1 DEF WInv, Backed
    <3> QED BY <2>5, <3>1, <3>2
  <2>7. ASSUME ~torn, NEW w \in Busy, k \in SeedKeys(w) PROVE k \in Listed(c) \/ found
    BY <2>2, <2>5, <2>7
  <2> DEFINE rec == Record(k, map)
  <2> HIDE DEF k, map, found, rec
  <2>8. /\ Range(records'[c]) = Range(records[c]) \union (IF found THEN {rec} ELSE {})
        /\ records'[c] \in Seq(Range(records'[c]))
    <3>1. CASE found
      <4>1. records'[c] = Append(records[c], rec)
        BY <1>3, <3>1 DEF rec
      <4> QED BY <2>2, <3>1, <4>1, RangeAppend
    <3>2. CASE ~found
      BY <1>3, <2>2, <3>2
    <3> QED BY <3>1, <3>2
  <2>9. rec.key = k /\ rec.committed = IsFullyCommitted(k, map)
    BY <2>4 DEF rec
  <2>10. Listed(c)' = Listed(c) \union (IF found THEN {k} ELSE {})
    BY <2>8, <2>9 DEF Listed
  <2>11. \A j \in Keys \ touched[c] :
           /\ j \in Range(Tail(todo[c])) \union Listed(c)' <=> rows[j] # << >>
           /\ j \in Range(Tail(todo[c])) => maps[c][j] = rows[j]
    BY <2>2, <2>3, <2>6, <2>10
  <2>12. ASSUME NEW r \in Range(records'[c]), r.key \notin touched[c]
         PROVE  r.committed = IsFullyCommitted(r.key, rows[r.key])
    <3>1. CASE r \in Range(records[c])
      BY <2>2, <2>12, <3>1
    <3>2. CASE r = rec /\ r \notin Range(records[c])
      <4>1. map = rows[k]
        BY <2>2, <2>3, <2>9, <2>12, <3>2 DEF map
      <4> QED BY <2>9, <3>2, <4>1
    <3> QED BY <2>8, <3>1, <3>2
  <2>13. ~torn => \A w \in Busy : \A j \in SeedKeys(w) :
           \/ j \in Listed(c)'
           \/ j \in Range(Tail(todo[c])) /\ maps[c][j] # << >> /\ j \in held[maps[c][j][1].vol]
    BY <2>2, <2>3, <2>7, <2>10
  <2>14. Listed(c)' \subseteq Keys /\ Range(Tail(todo[c])) \subseteq DOMAIN maps[c]
    BY <2>2, <2>3, <2>10
  <2> QED BY <1>0, <1>1, <1>3, <2>2, <2>3, <2>8, <2>11, <2>12, <2>13, <2>14 DEF Collecting, Row
<1>5. GatherInv(c)'
  BY <1>0, <1>4 DEF GatherInv
<1>6. IsRequest(req[c])'
  BY <1>0 DEF IsRequest
<1> HIDE DEF k, map, found
<1> QED BY <1>0, <1>2, <1>5, <1>6, OneAsks DEF GInv

(* A request is sent: it has read nothing yet.                             *)
LEMMA BeginG ==
  ASSUME JInv, WInv, GInv, NEW c \in Clients, NEW q, IsRequest(q), Begin(c, q), conn[c] = "open",
         UNCHANGED <<rows, held, torn, world, conn>>, DOMAIN touched' = Clients,
         \A d \in Clients \ {c} : touched'[d] = touched[d]
  PROVE  GInv'
<1>0. /\ DOMAIN req = Clients /\ DOMAIN stage = Clients /\ DOMAIN todo = Clients /\ DOMAIN maps = Clients
      /\ DOMAIN records = Clients
  BY DEF GInv
<1> DEFINE s == IF q.op \in Gathering THEN "keys" ELSE IF q.op \in {"key", "peek"} THEN "locate" ELSE "answer"
           t == IF q.op \in {"key", "peek"} THEN <<q.arg>> ELSE << >>
<1>1. /\ req' = [req EXCEPT ![c] = q] /\ stage' = [stage EXCEPT ![c] = s]
      /\ records' = [records EXCEPT ![c] = << >>] /\ todo' = [todo EXCEPT ![c] = t]
      /\ maps' = [maps EXCEPT ![c] = << >>]
  BY DEF Begin
<1>2. q.op \in Gathering => s = "keys"
  OBVIOUS
<1> HIDE DEF s, t
<1>3. req'[c] = q /\ stage'[c] = s /\ records'[c] = << >>
  BY <1>0, <1>1
<1>4. GatherInv(c)'
  BY <1>2, <1>3 DEF GatherInv
<1>5. IsRequest(req[c])'
  BY <1>3 DEF IsRequest
<1> QED BY <1>0, <1>1, <1>4, <1>5, OneAsks

LEMMA GNext == JInv /\ WInv /\ GInv /\ [Next]_vars => GInv'
<1> SUFFICES ASSUME JInv, WInv, GInv, [Next]_vars PROVE GInv'
  OBVIOUS
<1>0. /\ DOMAIN req = Clients /\ DOMAIN stage = Clients /\ DOMAIN todo = Clients /\ DOMAIN maps = Clients
      /\ DOMAIN records = Clients /\ DOMAIN touched = Clients
      /\ \A c \in Clients : IsRequest(req[c]) /\ GatherInv(c)
      /\ conn \in [Clients -> {"away", "open", "hung", "gone"}]
  BY DEF GInv, JInv, JTypes
<1>1. ASSUME UNCHANGED <<world, req, stage, todo, maps, records>>, DOMAIN touched' = Clients,
             \A c \in Clients : StoreMoves(c) /\ (conn[c] # "away" => conn'[c] # "away")
      PROVE  GInv'
  <2>1. \A c \in Clients : GatherInv(c)'
    BY <1>0, <1>1, GatherKept
  <2> QED BY <1>0, <1>1, <2>1 DEF GInv, IsRequest
<1>2. ASSUME UNCHANGED <<world, req, stage, todo, maps, records, rows, held, torn, touched>>,
             \A c \in Clients : conn[c] # "away" => conn'[c] # "away"
      PROVE  GInv'
  <2>1. \A c \in Clients : StoreMoves(c)
    BY <1>2 DEF StoreMoves
  <2> QED BY <1>0, <1>1, <1>2, <2>1
<1>3. ASSUME NEW w \in Workers, Work(w) PROVE GInv'
  <2>1. UNCHANGED <<world, req, stage, todo, maps, records, conn>>
    BY <1>3 DEF Work, PutLands, PutRegisters, DeleteDeregisters, DeleteDrops, ReadVersion, ReadNothing,
                Elsewhere, Unasked, rankVars
  <2>2. \A c \in Clients : StoreMoves(c) /\ DOMAIN touched' = Clients
    BY <1>3, WorkTouches
  <2>3. CASE Clients = {}
    <3>1. DOMAIN touched' = Clients
      BY <1>0, <1>3, <2>3 DEF Work, PutLands, PutRegisters, DeleteDeregisters, DeleteDrops, ReadVersion,
                ReadNothing, Lands, Registers, Deregisters, Drops, Touch
    <3> QED BY <1>1, <2>1, <2>2, <3>1
  <2> QED BY <1>1, <2>1, <2>2, <2>3
<1>4. ASSUME NEW r \in Ranks, Shutdown(r) PROVE GInv'
  <2>1. /\ UNCHANGED <<world, req, stage, todo, maps, records, conn, rows, held>> /\ torn' = TRUE
        /\ touched' = [c \in Clients |-> touched[c] \union Keys]
    BY <1>4 DEF Shutdown, Unasked, Touch
  <2>2. \A c \in Clients : StoreMoves(c)
    BY <2>1 DEF StoreMoves
  <2> QED BY <1>1, <2>1, <2>2
<1>5. ASSUME NEW r \in Ranks, Progress(r) \/ ListenFails(r) \/ Signal(r), ~Shutdown(r) PROVE GInv'
  <2>1. UNCHANGED <<world, req, stage, todo, maps, records, rows, held, torn, touched, conn>>
    BY <1>5 DEF Progress, ListenFails, Signal, SeedBegins, SeedsDone, SeedFails, PassBarrier, BarrierBreaks,
                Listen, StopWorkers, CloseServer, Leave, Unworked, storeVars, clientVars, rankVars
  <2> QED BY <1>2, <2>1
<1>6. ASSUME NEW w \in Workers, PutRaises(w) PROVE GInv'
  <2>1. UNCHANGED <<world, req, stage, todo, maps, records, rows, held, torn, touched, conn>>
    BY <1>6 DEF PutRaises, clientVars, rankVars
  <2> QED BY <1>2, <2>1
<1>7. ASSUME NEW c \in Clients, Connect(c) \/ HangUp(c) \/ Closed(c) PROVE GInv'
  <2>1. /\ UNCHANGED <<world, req, stage, todo, maps, records, rows, held, torn, touched>>
        /\ \E x \in {"open", "hung", "gone"} : conn' = [conn EXCEPT ![c] = x]
    BY <1>7 DEF Connect, HangUp, Closed, Unserved, storeVars, rankVars
  <2>2. \A d \in Clients : conn[d] # "away" => conn'[d] # "away"
    BY <1>0, <2>1
  <2> QED BY <1>2, <2>1, <2>2
<1>8. ASSUME NEW c \in Clients, Read(c) PROVE GInv'
  <2>1. world' = world /\ (GatherKeys(c) \/ GatherLocate(c) \/ Collect(c))
    BY <1>8 DEF Read, rankVars
  <2> QED BY <2>1, KeysG, LocateG, CollectG
<1>9. ASSUME NEW c \in Clients, Respond(c) PROVE GInv'
  <2>1. /\ UNCHANGED <<world, req, todo, maps, records, rows, held, torn, touched, conn>>
        /\ stage' = [stage EXCEPT ![c] = "idle"]
    BY <1>9 DEF Respond, Unserved, storeVars, rankVars
  <2>2. stage'[c] = "idle" /\ DOMAIN stage' = Clients /\ \A d \in Clients \ {c} : stage'[d] = stage[d]
    BY <1>0, <2>1
  <2>3. GatherInv(c)'
    BY <2>2 DEF GatherInv
  <2>4. IsRequest(req[c])'
    BY <1>0, <2>1 DEF IsRequest
  <2> QED BY <1>0, <2>1, <2>2, <2>3, <2>4, OneAsks
<1>10. ASSUME NEW c \in Clients, Ask(c) PROVE GInv'
  <2>1. /\ UNCHANGED <<world, rows, held, torn, conn>> /\ conn[c] = "open"
        /\ touched' = [touched EXCEPT ![c] = {}]
    BY <1>10 DEF Ask, Unserved, storeVars, rankVars
  <2>2. PICK r \in Requests[world] :
          Begin(c, [op |-> r.op, arg |-> r.arg, sort |-> r.sort, order |-> r.order,
                    limit |-> r.limit, cursor |-> NoCursor])
    BY <1>10 DEF Ask
  <2> DEFINE q == [op |-> r.op, arg |-> r.arg, sort |-> r.sort, order |-> r.order,
                   limit |-> r.limit, cursor |-> NoCursor]
  <2>3. IsRequest(q) /\ Begin(c, q)
    BY <2>2 DEF IsRequest
  <2> HIDE DEF q
  <2>4. DOMAIN touched' = Clients /\ \A d \in Clients \ {c} : touched'[d] = touched[d]
    BY <1>0, <2>1
  <2> QED BY <2>1, <2>3, <2>4, BeginG
<1>11. ASSUME NEW c \in Clients, AskNext(c) PROVE GInv'
  <2> DEFINE q == [req[c] EXCEPT !.cursor = reply[c].next]
  <2>1. UNCHANGED <<world, rows, held, torn, conn, touched>> /\ conn[c] = "open" /\ Begin(c, q)
    BY <1>11 DEF AskNext, Unserved, storeVars, rankVars
  <2>2. IsRequest(q)
    BY <1>0, RequestEdits
  <2> HIDE DEF q
  <2> QED BY <1>0, <2>1, <2>2, BeginG
<1>12. CASE UNCHANGED vars
  <2>1. UNCHANGED <<world, req, stage, todo, maps, records, rows, held, torn, touched, conn>>
    BY <1>12 DEF vars, storeVars, clientVars, rankVars
  <2> QED BY <1>2, <2>1
<1> QED BY <1>3, <1>4, <1>5, <1>6, <1>7, <1>8, <1>9, <1>10, <1>11, <1>12 DEF Next, Runs, Handle

-----------------------------------------------------------------------------
(* Theorems.                                                               *)

(* What a complete gather lists.                                           *)
LEMMA Completed ==
  ASSUME GInv, NEW c \in Clients, Complete(c)
  PROVE  Collecting(c) /\ Range(todo[c]) = {}
<1>1. stage[c] = "collect" /\ todo[c] = << >> /\ Collecting(c)
  BY DEF GInv, GatherInv, Complete, Gathered
<1> QED BY <1>1 DEF Range

LEMMA LiveInvariant == Spec => [](JInv /\ WInv /\ GInv)
<1>1. Init => JInv /\ WInv /\ GInv
  BY JInit, WInit, GInit
<1>2. JInv /\ WInv /\ GInv /\ [Next]_vars => (JInv /\ WInv /\ GInv)'
  BY JNext, WNext, GNext
<1> QED BY <1>1, <1>2, PTL DEF Spec

(* Whatever writes go on while gather_state and _collect_keys read, and    *)
(* whatever fails: a key nobody touched since the request is listed if it  *)
(* is stored and only then, with the commit state it has, for any job,     *)
(* keys, clients and requests.                                             *)
THEOREM GatherListsStable == Spec => []StableListed
<1>1. JInv /\ WInv /\ GInv => StableListed
  <2> SUFFICES ASSUME GInv, NEW c \in Clients, Complete(c)
               PROVE  /\ \A k \in Keys \ touched[c] : k \in Listed(c) <=> rows[k] # << >>
                      /\ \A r \in Range(records[c]) :
                           r.key \notin touched[c] => r.committed = IsFullyCommitted(r.key, rows[r.key])
    BY DEF StableListed
  <2>1. Collecting(c) /\ Range(todo[c]) = {}
    BY Completed
  <2> QED BY <2>1 DEF Collecting
<1> QED BY <1>1, LiveInvariant, PTL

(* The two barriers of SpmdExample.run: what the aggregator lists while    *)
(* the store is up holds the seed of every worker, and unless a role       *)
(* failed, nobody is at work when a rank shuts the store down, nor, where  *)
(* wait_closed waits, connected.                                           *)
THEOREM BarriersKeepStore == Spec => []StoreKept
<1>1. JInv /\ WInv /\ GInv => StoreKept
  <2> SUFFICES ASSUME JInv, WInv, GInv PROVE StoreKept
    OBVIOUS
  <2>1. ASSUME NEW c \in Clients, Complete(c), ~torn, NEW w \in Busy PROVE SeedKeys(w) \subseteq Listed(c)
    <3>1. Collecting(c) /\ Range(todo[c]) = {}
      BY <2>1, Completed
    <3> QED BY <2>1, <3>1 DEF Collecting
  <2>2. ASSUME torn, faults = 0
        PROVE  /\ \A w \in Busy : task[w] = "over"
               /\ WaitsForClients => \A c \in Clients : conn[c] \notin {"open", "hung"}
    <3>1. \A w \in Busy : task[w] = "over"
      BY <2>2, GoneQuiet
    <3>2. Healthy /\ world - 1 \in Ranks /\ \E q \in Ranks : phase[q] = "down"
      BY <2>2, Aggregator DEF JInv, JTypes, Barriers
    <3>3. arrived[world - 1] = 2
      BY <3>2 DEF Healthy
    <3> QED BY <3>1, <3>2, <3>3 DEF Healthy
  <2> QED BY <2>1, <2>2 DEF StoreKept
<1> QED BY <1>1, LiveInvariant, PTL
=============================================================================
