---------------------------- MODULE LiveExample ----------------------------
(***************************************************************************)
(* live_example.py: a job of trainer, generator and aggregator ranks over   *)
(* one shared store, and the query server a terminal UI connects to.        *)
(*                                                                         *)
(* A rank attaches to the store, seeds its workers' keys, passes a barrier, *)
(* runs its workers as tasks and the server, waits for a signal, stops      *)
(* them, passes a second barrier and shuts the store down.  A worker is its *)
(* script of store calls; put and delete are two calls each (volume, then   *)
(* controller, and the other way round), as torchstore makes them.  A put   *)
(* may raise, which kills the task; the port may be taken, which ends the   *)
(* rank.  Barriers and signals are torch's and torchrun's: external.  A     *)
(* signal comes after its handlers are installed, past the first barrier;   *)
(* one that comes earlier ends the process by Python's own handler, and is  *)
(* left out.                                                                *)
(***************************************************************************)
EXTENDS StoreReader

CONSTANTS
  Worlds,          \* values WORLD_SIZE may have
  NUM_TRAINERS, NUM_GENERATORS,   \* roles of a job collapsed onto one rank
  ROTATE_EVERY,    \* steps between two rotations of the optimizer key
  Digit,           \* by number, its character
  Tensors,         \* names of the selector or rollout tensors a worker writes, in order
  Preloaded,       \* by key another program has stored: its row
  WaitsForClients, \* whether Server.wait_closed waits for open connections (Python >= 3.12)
  MaxSteps,        \* bound, by role: steps a worker runs
  MaxFaults,       \* bound, by world: puts that raise, or ports that are taken
  Requests,        \* bound, by world: what a client may ask, [op, arg, sort, order, limit]
  MaxAsks          \* bound: requests a client sends, following pages apart

VARIABLES
  world,      \* WORLD_SIZE
  phase,      \* by rank: where SpmdExample.run stands
  arrived,    \* by rank: barriers it has reached
  stop,       \* ranks whose stop event is set
  down,       \* ranks that have shut the store down
  task,       \* by worker: "new", "seeding", "seeded", "running", "died", "over"
  step,       \* by worker: its step
  at,         \* by worker: the store call of its script it is at, from 1
  half,       \* by worker: whether the first half of that call is done
  present,    \* by worker: whether its optimizer key is in the store
  version,    \* by worker: the policy version it read
  value,      \* by key: the step or the policy version last written to it
  faults,     \* faults so far
  asks        \* by client: requests sent

rankVars == <<world, phase, arrived, stop, down>>
workVars == <<task, step, at, half, present, version, value>>
vars == <<storeVars, clientVars, rankVars, workVars, faults, asks>>

Ranks == 0..(world - 1)
-----------------------------------------------------------------------------
(* Roles *)

Trainer(i) == [role |-> "trainer", id |-> i, source |-> i]
Generator(j, i) == [role |-> "generator", id |-> j, source |-> i]

\* _plan: the workers of rank r of n, in order.
Plan(n, r) ==
  LET trainers == n \div 2      \* (num_workers + 1) // 2 with num_workers = n - 1
      j        == r - trainers
  IN  CASE n = 1 -> [i \in 1..NUM_TRAINERS |-> Trainer(i - 1)] \o
                    [i \in 1..NUM_GENERATORS |-> Generator(i - 1, (i - 1) % NUM_TRAINERS)]
        [] n > 1 /\ r = n - 1 -> << >>
        [] n > 1 /\ r < trainers -> <<Trainer(r)>>
        [] OTHER -> <<Generator(j, j % trainers)>>

RunsAggregator(r) == r = world - 1

Workers == UNION {UNION {Range(Plan(n, r)) : r \in 0..(n - 1)} : n \in Worlds}

Mine(r) == Range(Plan(world, r))
Busy == UNION {Mine(r) : r \in Ranks}
RankOf(w) == CHOOSE r \in Ranks : w \in Mine(r)

Name(w, part) ==
  <<IF w.role = "trainer" THEN "t" ELSE "g", Dot, Digit[w.id], Dot>> \o part

StepKey(w)   == Name(w, <<"s">>)
MetaKey(w)   == Name(w, <<"m">>)
RotatedKey(w) == Name(w, <<"o", Dot, "m">>)
SeedKeys(w)  == {StepKey(w), MetaKey(w)} \cup {Name(w, t) : t \in Range(Tensors)}

\* The store calls of seed (step 0) and of one step of run, in order.
Script(w, n) ==
  LET keys == <<StepKey(w)>> \o [i \in DOMAIN Tensors |-> Name(w, Tensors[i])] \o <<MetaKey(w)>>
      puts == [i \in DOMAIN keys |-> [call |-> "put", key |-> keys[i]]]
      turn == [call |-> IF present[w] THEN "delete" ELSE "put", key |-> RotatedKey(w)]
  IN  CASE n = 0 -> puts
        [] n # 0 /\ w.role = "generator" ->
             <<[call |-> "get", key |-> StepKey(Trainer(w.source))]>> \o puts
        [] OTHER -> puts \o IF n % ROTATE_EVERY = 0 THEN <<turn>> ELSE << >>

\* A volume per rank; numbers, tensors and the optimizer key each have a name of their own;
\* and the alphabet orders every character of every key, so that sorted() lists them all.
ASSUME LiveAssumption ==
  /\ Worlds \subseteq Nat \ {0} /\ \A n \in Worlds : 0..(n - 1) \subseteq Volumes
  /\ NUM_TRAINERS \in Nat \ {0} /\ NUM_GENERATORS \in Nat /\ ROTATE_EVERY \in Nat \ {0}
  /\ {"t", "g", "s", "m", "o", Dot} \subseteq Range(Alphabet)
  /\ \A w \in Workers : w.id \in DOMAIN Digit /\ Digit[w.id] \in Range(Alphabet)
  /\ \A i, j \in DOMAIN Digit : Digit[i] = Digit[j] => i = j
  /\ Tensors \in Seq(Seq(Range(Alphabet))) /\ <<"o", Dot, "m">> \notin Range(Tensors)
  /\ \A w \in Workers : SeedKeys(w) \subseteq Keys
  /\ \A w \in Workers : w.role = "trainer" => RotatedKey(w) \in Keys
  /\ DOMAIN Preloaded \subseteq Keys
  /\ \A k \in DOMAIN Preloaded : Preloaded[k] \in Seq([vol : Volumes, coords : SUBSET Mesh[k]])
  /\ \A S \in SUBSET Keys : SortedStrings(S) \in Seq(S) /\ Range(SortedStrings(S)) = S
-----------------------------------------------------------------------------
(* The store's calls, as its clients use them *)

Touch(S) == touched' = [c \in Clients |-> touched[c] \cup S]

Lands(k, v) ==
  /\ held' = [held EXCEPT ![v] = @ \cup {k}]
  /\ UNCHANGED rows
  /\ IF k \in held[v] THEN UNCHANGED touched ELSE Touch({k})

\* notify_put: the volume joins the key's row.
Registers(k, v) ==
  /\ UNCHANGED held
  /\ IF \E e \in Range(rows[k]) : e.vol = v THEN UNCHANGED <<rows, touched>>
     ELSE rows' = [rows EXCEPT ![k] = Append(@, [vol |-> v, coords |-> {}])] /\ Touch({k})

Deregisters(k) == rows' = [rows EXCEPT ![k] = << >>] /\ UNCHANGED held /\ Touch({k})

Drops(k) == held' = [v \in Volumes |-> held[v] \ {k}] /\ UNCHANGED rows /\ Touch({k})
-----------------------------------------------------------------------------
(* Workers *)

Active(w) == task[w] \in {"seeding", "running"}
Call(w) == Script(w, step[w])[at[w]]

\* What the call writes: its step, and for a generator's metadata the version it read.
Written(w) ==
  IF w.role = "generator" /\ Call(w).key = MetaKey(w) THEN version[w] ELSE step[w]

\* The call is done: on to the next; seed returns and run sleeps after the last.
Returns(w) ==
  IF at[w] < Len(Script(w, step[w]))
  THEN at' = [at EXCEPT ![w] = @ + 1] /\ UNCHANGED <<task, step>>
  ELSE /\ at' = [at EXCEPT ![w] = 1]
       /\ IF task[w] = "seeding" THEN task' = [task EXCEPT ![w] = "seeded"] /\ UNCHANGED step
          ELSE step' = [step EXCEPT ![w] = @ + 1] /\ UNCHANGED task

First(w) == half' = [half EXCEPT ![w] = TRUE] /\ UNCHANGED <<task, step, at, present>>

Calls(w, call) == w \in Busy /\ Active(w) /\ step[w] <= MaxSteps[w.role] /\ ~torn /\ Call(w).call = call

Unasked == <<conn, req, stage, todo, maps, records, reply, pages>>
Elsewhere == <<torn, Unasked, rankVars, faults, asks>>

PutLands(w) ==
  /\ Calls(w, "put") /\ ~half[w]
  /\ Lands(Call(w).key, RankOf(w))
  /\ value' = [value EXCEPT ![Call(w).key] = Written(w)]
  /\ First(w)
  /\ UNCHANGED <<version, Elsewhere>>

PutRegisters(w) ==
  /\ Calls(w, "put") /\ half[w]
  /\ Registers(Call(w).key, RankOf(w))
  /\ Returns(w)
  /\ half' = [half EXCEPT ![w] = FALSE]
  /\ present' = [present EXCEPT ![w] = @ \/ Call(w).key = RotatedKey(w)]
  /\ UNCHANGED <<value, version, Elsewhere>>

DeleteDeregisters(w) ==
  /\ Calls(w, "delete") /\ ~half[w]
  /\ Deregisters(Call(w).key)
  /\ First(w)
  /\ UNCHANGED <<value, version, Elsewhere>>

DeleteDrops(w) ==
  /\ Calls(w, "delete") /\ half[w]
  /\ Drops(Call(w).key)
  /\ Returns(w)
  /\ half' = [half EXCEPT ![w] = FALSE]
  /\ present' = [present EXCEPT ![w] = FALSE]
  /\ UNCHANGED <<value, version, Elsewhere>>

\* _read_policy_version: -1 when the key is not there to be read.
Readable(k) == rows[k] # << >> /\ k \in held[rows[k][1].vol]

ReadVersion(w) ==
  /\ Calls(w, "get")
  /\ version' = [version EXCEPT ![w] = IF Readable(Call(w).key) THEN value[Call(w).key] ELSE -1]
  /\ Returns(w)
  /\ UNCHANGED <<half, present, value, touched, rows, held, Elsewhere>>

\* The same guarded read when the store is gone.
ReadNothing(w) ==
  /\ w \in Busy /\ Active(w) /\ step[w] <= MaxSteps[w.role] /\ torn /\ Call(w).call = "get"
  /\ version' = [version EXCEPT ![w] = -1]
  /\ Returns(w)
  /\ UNCHANGED <<half, present, value, touched, rows, held, Elsewhere>>

\* A put or delete raises: the store is gone, or it failed on its own.
PutRaises(w) ==
  /\ w \in Busy /\ Active(w) /\ step[w] <= MaxSteps[w.role] /\ Call(w).call # "get"
  /\ torn \/ faults < MaxFaults[world]
  /\ faults' = IF torn THEN faults ELSE faults + 1
  /\ task' = [task EXCEPT ![w] = "died"]
  /\ UNCHANGED <<rows, held, torn, clientVars, rankVars, step, at, half, present,
                 version, value, asks>>
-----------------------------------------------------------------------------
(* Ranks: SpmdExample.run *)

Unworked == <<storeVars, clientVars, asks>>
Goes(r, p) == phase' = [phase EXCEPT ![r] = p]
Arrives(r, n) == arrived' = [arrived EXCEPT ![r] = n]

\* for worker in workers: await worker.seed()
SeedBegins(r) ==
  /\ phase[r] = "seeding"
  /\ \E i \in DOMAIN Plan(world, r) :
       LET w == Plan(world, r)[i] IN
       /\ task[w] = "new"
       /\ \A j \in 1..(i - 1) : task[Plan(world, r)[j]] = "seeded"
       /\ task' = [task EXCEPT ![w] = "seeding"]
  /\ UNCHANGED <<Unworked, rankVars, step, at, half, present, version, value, faults>>

SeedsDone(r) ==
  /\ phase[r] = "seeding"
  /\ \A w \in Mine(r) : task[w] = "seeded"
  /\ Goes(r, "barrier")
  /\ Arrives(r, 1)
  /\ UNCHANGED <<Unworked, world, stop, down, workVars, faults>>

\* A seed raised: the outer finally shuts the store down.
SeedFails(r) ==
  /\ phase[r] = "seeding"
  /\ \E w \in Mine(r) : task[w] = "died"
  /\ Goes(r, "shutdown")
  /\ UNCHANGED <<Unworked, world, arrived, stop, down, workVars, faults>>

\* Mutant: no barrier after the seeds.
PassBarrierAlone(r) ==
  /\ phase[r] = "barrier"
  /\ Goes(r, IF RunsAggregator(r) THEN "starting" ELSE "running")
  /\ task' = [w \in Workers |-> IF w \in Mine(r) THEN "running" ELSE task[w]]
  /\ step' = [w \in Workers |-> IF w \in Mine(r) THEN 1 ELSE step[w]]
  /\ UNCHANGED <<Unworked, world, arrived, stop, down, at, half, present, version,
                 value, faults>>

\* Past the first barrier: signal handlers, a task per worker, and the server to start.
PassBarrier(r) ==
  /\ phase[r] = "barrier"
  /\ \A q \in Ranks : arrived[q] >= 1
  /\ Goes(r, IF RunsAggregator(r) THEN "starting" ELSE "running")
  /\ task' = [w \in Workers |-> IF w \in Mine(r) THEN "running" ELSE task[w]]
  /\ step' = [w \in Workers |-> IF w \in Mine(r) THEN 1 ELSE step[w]]
  /\ UNCHANGED <<Unworked, world, arrived, stop, down, at, half, present, version,
                 value, faults>>

\* A barrier of which a member has left raises in the others.
BarrierBreaks(r) ==
  /\ \/ phase[r] = "barrier" /\ \E q \in down : arrived[q] < 1
     \/ phase[r] = "leaving" /\ \E q \in down : arrived[q] < 2
  /\ Goes(r, "shutdown")
  /\ UNCHANGED <<Unworked, world, arrived, stop, down, workVars, faults>>

Listen(r) ==
  /\ phase[r] = "starting"
  /\ Goes(r, "running")
  /\ UNCHANGED <<Unworked, world, arrived, stop, down, workVars, faults>>

\* start_server raises before the inner try: no task is cancelled, no barrier reached.
ListenFails(r) ==
  /\ phase[r] = "starting"
  /\ faults < MaxFaults[world]
  /\ faults' = faults + 1
  /\ Goes(r, "shutdown")
  /\ UNCHANGED <<Unworked, world, arrived, stop, down, workVars>>

Signal(r) ==
  /\ phase[r] \in {"starting", "running"}
  /\ r \notin stop
  /\ stop' = stop \cup {r}
  /\ UNCHANGED <<Unworked, world, phase, arrived, down, workVars, faults>>

\* Mutant: asyncio.wait until all are done, not the first.
StopWorkersWaitsAll(r) ==
  LET died == \E w \in Mine(r) : task[w] = "died"
  IN  /\ phase[r] = "running"
      /\ r \in stop /\ \A w \in Mine(r) : task[w] # "running"
      /\ Goes(r, IF died THEN "shutdown" ELSE IF RunsAggregator(r) THEN "closing" ELSE "leaving")
      /\ Arrives(r, IF died \/ RunsAggregator(r) THEN arrived[r] ELSE 2)
      /\ UNCHANGED <<Unworked, world, stop, down, workVars, faults>>

\* _await_stop returns or raises; the inner finally cancels and awaits every task, and
\* awaiting one that died raises there: the server is not stopped, the barrier not reached.
StopWorkers(r) ==
  LET died == \E w \in Mine(r) : task[w] = "died"
  IN  /\ phase[r] = "running"
      /\ r \in stop \/ died
      /\ task' = [w \in Workers |-> IF w \in Mine(r) /\ task[w] = "running" THEN "over"
                                     ELSE task[w]]
      /\ Goes(r, IF died THEN "shutdown" ELSE IF RunsAggregator(r) THEN "closing" ELSE "leaving")
      /\ Arrives(r, IF died \/ RunsAggregator(r) THEN arrived[r] ELSE 2)
      /\ UNCHANGED <<Unworked, world, stop, down, step, at, half, present, version, value, faults>>

\* Aggregator.stop: close, then wait_closed.
CloseServer(r) ==
  /\ phase[r] = "closing"
  /\ WaitsForClients => \A c \in Clients : conn[c] \in {"away", "gone"}
  /\ Goes(r, "leaving")
  /\ Arrives(r, 2)
  /\ UNCHANGED <<Unworked, world, stop, down, workVars, faults>>

\* Mutant: no barrier before the shutdown.
LeaveAlone(r) ==
  /\ phase[r] = "leaving"
  /\ Goes(r, "shutdown")
  /\ UNCHANGED <<Unworked, world, arrived, stop, down, workVars, faults>>

\* "Everyone stops before any rank tears down the shared store."
Leave(r) ==
  /\ phase[r] = "leaving"
  /\ \A q \in Ranks : arrived[q] = 2
  /\ Goes(r, "shutdown")
  /\ UNCHANGED <<Unworked, world, arrived, stop, down, workVars, faults>>

\* The outer finally; what is left of the rank ends with its event loop.
Shutdown(r) ==
  /\ phase[r] = "shutdown"
  /\ Goes(r, "down")
  /\ down' = down \cup {r}
  /\ torn' = TRUE
  /\ Touch(Keys)
  /\ task' = [w \in Workers |-> IF w \in Mine(r) /\ Active(w) THEN "over" ELSE task[w]]
  /\ UNCHANGED <<rows, held, Unasked, asks, world, arrived, stop, step, at, half, present,
                 version, value, faults>>
-----------------------------------------------------------------------------
(* The query server's connections: Aggregator._handle_client *)

Aggregating == phase[world - 1] # "down"
Unserved == <<storeVars, rankVars, workVars, faults>>

Connect(c) ==
  /\ conn[c] = "away"
  /\ phase[world - 1] = "running"
  /\ conn' = [conn EXCEPT ![c] = "open"]
  /\ UNCHANGED <<req, stage, todo, maps, records, reply, pages, touched, asks, Unserved>>

Ask(c) ==
  /\ Aggregating /\ conn[c] = "open" /\ stage[c] = "idle" /\ asks[c] < MaxAsks
  /\ \E r \in Requests[world] :
       Begin(c, [op |-> r.op, arg |-> r.arg, sort |-> r.sort, order |-> r.order,
                 limit |-> r.limit, cursor |-> NoCursor])
  /\ pages' = [pages EXCEPT ![c] = << >>]
  /\ touched' = [touched EXCEPT ![c] = {}]
  /\ asks' = [asks EXCEPT ![c] = @ + 1]
  /\ UNCHANGED <<conn, Unserved>>

\* The client follows next_cursor.
AskNext(c) ==
  /\ Aggregating /\ conn[c] = "open" /\ stage[c] = "idle" /\ reply[c].next # NoCursor
  /\ Begin(c, [req[c] EXCEPT !.cursor = reply[c].next])
  /\ UNCHANGED <<conn, pages, touched, asks, Unserved>>

\* _handle_request: the builder's answer, or the error its exception is mapped to.
Respond(c) ==
  /\ Aggregating /\ stage[c] # "idle" /\ Gathered(c)
  /\ LET answer == Response(req[c], records[c]) IN
       /\ reply' = [reply EXCEPT ![c] = answer]
       /\ pages' = [pages EXCEPT ![c] = IF req[c].op \in Listings THEN @ \o answer.items ELSE @]
  /\ stage' = [stage EXCEPT ![c] = "idle"]
  /\ UNCHANGED <<conn, req, todo, maps, records, touched, asks, Unserved>>

Read(c) ==
  /\ Aggregating
  /\ GatherKeys(c) \/ GatherLocate(c) \/ Collect(c)
  /\ UNCHANGED <<rankVars, workVars, faults, asks>>

\* The client goes away, perhaps while its request is being answered.
HangUp(c) ==
  /\ conn[c] = "open"
  /\ conn' = [conn EXCEPT ![c] = "hung"]
  /\ UNCHANGED <<req, stage, todo, maps, records, reply, pages, touched, asks, Unserved>>

\* readline returns nothing, or the write fails: the handler closes its end.
Closed(c) ==
  /\ Aggregating /\ conn[c] = "hung" /\ stage[c] = "idle"
  /\ conn' = [conn EXCEPT ![c] = "gone"]
  /\ UNCHANGED <<req, stage, todo, maps, records, reply, pages, touched, asks, Unserved>>
-----------------------------------------------------------------------------
NoRequest == [op |-> "none", arg |-> Top, sort |-> "", order |-> "", limit |-> 1,
              cursor |-> NoCursor]

Init ==
  /\ world \in Worlds
  /\ rows = [k \in Keys |-> IF k \in DOMAIN Preloaded THEN Preloaded[k] ELSE << >>]
  /\ held = [v \in Volumes |-> {k \in DOMAIN Preloaded : \E e \in Range(Preloaded[k]) : e.vol = v}]
  /\ torn = FALSE
  /\ conn = [c \in Clients |-> "away"]
  /\ req = [c \in Clients |-> NoRequest]
  /\ stage = [c \in Clients |-> "idle"]
  /\ todo = [c \in Clients |-> << >>]
  /\ maps = [c \in Clients |-> << >>]
  /\ records = [c \in Clients |-> << >>]
  /\ reply = [c \in Clients |-> ErrorReply]
  /\ pages = [c \in Clients |-> << >>]
  /\ touched = [c \in Clients |-> {}]
  /\ phase = [r \in Ranks |-> "seeding"]
  /\ arrived = [r \in Ranks |-> 0]
  /\ stop = {}
  /\ down = {}
  /\ task = [w \in Workers |-> "new"]
  /\ step = [w \in Workers |-> 0]
  /\ at = [w \in Workers |-> 1]
  /\ half = [w \in Workers |-> FALSE]
  /\ present = [w \in Workers |-> FALSE]
  /\ version = [w \in Workers |-> 0]
  /\ value = [k \in Keys |-> 0]
  /\ faults = 0
  /\ asks = [c \in Clients |-> 0]

Work(w) ==
  \/ PutLands(w) \/ PutRegisters(w) \/ DeleteDeregisters(w) \/ DeleteDrops(w)
  \/ ReadVersion(w) \/ ReadNothing(w)

Progress(r) ==
  \/ SeedBegins(r) \/ SeedsDone(r) \/ SeedFails(r) \/ PassBarrier(r) \/ BarrierBreaks(r)
  \/ Listen(r) \/ StopWorkers(r) \/ CloseServer(r) \/ Leave(r) \/ Shutdown(r)

Handle(c) == Read(c) \/ Respond(c) \/ Closed(c)

\* What the ranks' event loops run.
Runs ==
  \/ \E w \in Workers : Work(w)
  \/ \E r \in Ranks : Progress(r)
  \/ \E c \in Clients : Handle(c)

Next ==
  \/ Runs
  \/ \E w \in Workers : PutRaises(w)
  \/ \E r \in Ranks : ListenFails(r) \/ Signal(r)
  \/ \E c \in Clients : Connect(c) \/ Ask(c) \/ AskNext(c) \/ HangUp(c)

Spec == Init /\ [][Next]_vars
-----------------------------------------------------------------------------
(* Properties *)

Listed(c) == {r.key : r \in Range(records[c])}
Complete(c) == req[c].op \in Gathering /\ stage[c] # "idle" /\ Gathered(c)

\* A gather is several reads with writers between them (gather_state, _collect_keys):
\* every key nobody touched since it began is listed if it is stored and only then, with
\* its commit state; a key that raced away takes no other key with it.
StableListed ==
  \A c \in Clients : Complete(c) =>
    /\ \A k \in Keys \ touched[c] : k \in Listed(c) <=> rows[k] # << >>
    /\ \A r \in Range(records[c]) :
         r.key \notin touched[c] => r.committed = IsFullyCommitted(r.key, rows[r.key])

Parent(n) ==
  LET above == {m \in Nodes(n) : m # n}
  IN  IF above = {} THEN Top ELSE CHOOSE m \in above : \A o \in above : Len(o) <= Len(m)

\* What a client is shown of a gather is all of it.  The summary and the trie agree with
\* the records (_children, _build_volumes): drilling down from the top meets every node on
\* the way to every key, and no other, counting the keys beneath it; a row is a leaf
\* exactly when the stored key there has nothing beneath it; the volume groups add up to
\* the copies listed.  And offset cursors (_paginate) lose nothing: a client that follows
\* next_cursor to the end, while nobody writes, has seen every item once, in the order
\* asked for.
BoardAddsUp ==
  /\ \A c \in Clients : Complete(c) =>
       LET recs  == records[c]
           nodes == UNION {Nodes(k) : k \in Listed(c)}
           Under(n) == {k \in Listed(c) : n \in Nodes(k)}
           board == Summary(recs)
       IN  /\ \A p \in nodes \cup {Top} :
                Range(Children(recs, p)) =
                  {PrefixEntry(n, SelectSeq(recs, LAMBDA r : r.key \in Under(n))) :
                     n \in {m \in nodes : Parent(m) = p}}
           /\ \A n \in nodes : \A e \in Range(Children(recs, Parent(n))) :
                e.prefix = n => (e.is_leaf <=> Under(n) = {n})
           /\ Sum(board.prefixes, LAMBDA e : e.keys) = board.keys
           /\ Sum(board.prefixes, LAMBDA e : e.partial) = board.partial
           /\ Sum(board.groups, LAMBDA g : g.keys) = Sum(recs, LAMBDA r : Len(r.vols))
  /\ \A c \in Clients :
       req[c].op \in Listings /\ stage[c] = "idle" /\ reply[c].next = NoCursor /\ touched[c] = {}
         => pages[c] = Listing(req[c], records[c])

\* The two barriers: whatever the aggregator lists while the store is up holds the seed
\* of every worker of every rank, and "everyone stops before any rank tears down the
\* shared store": unless a role failed, no worker is at work when the store goes, nor, if
\* wait_closed waits, a connection open.
StoreKept ==
  /\ \A c \in Clients : Complete(c) /\ ~torn =>
       \A w \in Busy : SeedKeys(w) \subseteq Listed(c)
  /\ torn /\ faults = 0 =>
       /\ \A w \in Busy : task[w] = "over"
       /\ WaitsForClients => \A c \in Clients : conn[c] \notin {"open", "hung"}

\* Once every rank has been told to stop, or has failed, and the clients have gone, the
\* ranks run on until all have shut down: nobody is left waiting at a barrier, for a task
\* or for the server.
NobodyStranded ==
  /\ \A r \in Ranks : r \in stop \cup down
  /\ \A c \in Clients : conn[c] \in {"away", "gone"}
  /\ ~ENABLED (\E r \in Ranks : Progress(r))
  => down = Ranks
=============================================================================
