# Formal models of toso

toso runs the real torchstore client and controller code on a deterministic,
virtual-time event loop and puts three programs on top of it: weight
synchronisation with deduplicated reads (`dedup_sim`), KV-cache serving
(`kvcache_sim`) and a put/get baseline (`putget_sim`). This directory holds TLA+
models of the parts whose correctness depends on the order in which coroutines run,
the TLC configurations that check them on small instances, and TLAPS proofs of the
results that should hold for every instance.

Everything in the repository runs on one thread. A coroutine runs without
interruption from one suspending `await` to the next, so **one action of a model is
one such stretch of code**, and the interleavings of actions are the orders in which
the loop may resume coroutines.

## 1. Inventory

| Component | State it keeps | Operations | Interacts with | What is hard | What makes it correct |
|---|---|---|---|---|---|
| Dedup control plane (`dedup_sim/control`) | directory rows per publication, in-flight ids, arrival scores, per-volume load, gates | `sources`; folds of `Asked`, `Routed`, `Published` | asked by the read-through plane, parks callers at the dispatcher, ranks with the selector algebra | readers gated on readers, re-asks, load released by someone else's commit | books exact, no lost wakeup, no circular wait, cap respected, one fabric hop |
| Dedup data plane (`dedup_sim/data/read_through.py`) | a plan per call | `read_through` | control plane, torchstore client, dispatcher | copies evicted between locate and fetch, a put that is refused | every read completes, every publication is retired |
| Dispatcher (`proposed/dispatch.py`) | waiters by action | `dispatch_sync`, `gate` | every sensor and every parked caller | wake-up against park | folds complete before anyone wakes |
| Storage volume and retention (`realsim/seams/volume_service.py`, `_retention.py`) | stored values, bytes per key, their total, recency ranking | `put`, `get`, `touch`, `delete`, `delete_batch`, `reset` | transport, directory (a hop away or in place) | eviction in the middle of a put, refusals, puts that overlap over the hop | total equals sum, nothing left by a refused put, coldest first and no more than needed |
| Transport (`realsim/seams/transport.py`) | none of its own | `put`, `get` | client, volume | bytes land before the row appears | rows name bytes that are there |
| Host compute (`kvcache_sim/workload/_accelerator.py`, `kvcache_sim/data/_decode.py`) | device occupancy, prefill queue, decode batch and queue, one step task | prefill submission, `admit`, the step loop | serving host, control plane reports | two kinds of work on one device, a task that ends or dies while a caller joins | one owner, order kept, nobody forgotten, everyone answered |
| KV scheduler (`kvcache_sim/control`) | cluster state, reservations, load, placement memo | `decide`, `sources`, folds | serving host, store | decisions from stale reports, memo consumed by another fetch | one booking per request, a placement carried out where it was made |
| KV serving host (`kvcache_sim/data/serving.py`, `_store.py`) | request rows, held blocks | `prefill`, `decode` | scheduler, host compute, store, routed plane | eviction between plan and fetch, hand-over between hosts | each request prefetched, prefilled and decoded once |
| Routed plane (`proposed/routed.py`) | none | forward until a plan names the local host, at most 8 hops | hosts, control plane | a plan that keeps moving | forwarding ends |
| Selector algebra (`proposed/selector.py`) | none; an answer carries sources, readings, gate and fold | bases, annotate, fold, order, best, cut, bound, require, fall back | both control planes | chains put together at run time | readings and gate stay with the sources; best is the head of the sort |
| Event loop (`sim_common/async_engine.py`) | ready queue, timers, clock | run once, call later, cancel | everything | deadlock detection, cancelled timers | time never goes back; nothing ready is skipped |
| Channels (`sim_common/resources.py`) | members and remaining bytes | enter, complete | transport, link | shares recomputed as members come and go | bytes conserved, first come first served |
| Simulation run (`realsim/simulation.py`, `runner.py`, `mesh.py`, `seams/factory.py`, `seams/link.py`) | the process-wide transport factory and its owner, task-local source, items, ledger, trace | prepare, install, release, gather, close | client, transport, directory, event loop, configuration | concurrent readers through one factory, items that fail, stored before paid | bytes attributed to the right pair, factory given back, rows complete |
| Cost model and configuration (`sim_common/cost_model.py`, `config.py`) | none | price a read, a write, a copy, a computation; resolve settings | transport charges, schedulers predict | two pieces of code for one price, charges coalesced or not | prediction equals charge |
| Trace and divergence (`sim_common/trace.py`, `diverge.py`, `report.py`) | events, digest chain, ledger | record, fold, compare, draw | every charge | runs that agree until one ends | the first difference is the one reported |
| Workload generators (`kvcache_sim/workload/_generator.py`, `putget_sim`, `dedup_sim/workload`) | open dialogues, key chains | make turns, bursts, syncs | client, runner | keys of a turn planned before its predecessor is decoded | history is found |
| Store reader (`toso_store_reader.py`) | none; records of one gather | gather, group, list, search, sort, page | the live store's controller and volumes | writers between the reads of one gather, pages of a moving listing | untouched keys are right, totals add up, pages cover |
| Live example (`live_example.py`) | rank phases, worker tasks, query server | seed, run, aggregate, stop, shut down | torchstore, torch barriers, signals, clients | ranks that fail or are stopped apart, clients that stay connected | seeds first, store last, nobody stranded |
| Terminal UI (`tui/`) | view tree, lazy lists | refresh, scroll, expand | aggregator over a socket | answers that arrive after the view moved on | answers applied to the node that asked |
| Demo scripts, summaries, offline tools | configuration, results | construction and formatting | | | outputs of the parts above |

`PROJECT.json` lists every component with its source files and status, and under
`hazards` what is hard to test, at its line.

## 2. Modules

| Module | Models | Used by |
|---|---|---|
| `DedupRouting` | control plane, data plane, dispatcher, the torchstore directory and client as the code uses them, eviction | `MCDedup`, `DedupRoutingProofs` |
| `SelectorAlgebra` | selections, bases and stages of a ranking, the awaited gate | `SelectorAlgebraProofs`, run directly |
| `VolumeService` | one storage volume and its retention ranking | `MCVolume`, `VolumeServiceProofs` |
| `HostCompute` | a serving host's accelerators, prefill queue and decode engine | `MCHost`, `HostComputeProofs` |
| `KVWorkload` | the conversations a KV run is made of, and their block keys | `KVServing` |
| `KVServing` | the KV scheduler and its sensors, the serving hosts' request flow, outcome rows, the client, the routed plane and the store as the code uses it | `MCKV`, `KVServingProofs` |
| `SimulationRun` | one run of the assembled stack: configuration, cost model, transport, links, factory, mesh, runner, ledger, trace, divergence | `RunReport`, `SimulationRunProofs` |
| `RunReport` | the report of a run: the picture of who served whom | `MCRun` |
| `StoreReader` | the query builders over a live store | `LiveExample` |
| `LiveExample` | the ranks, workers and query server of the live example, with its clients | `MCLive`, `LiveExampleProofs` |
| `AsyncEngine` | the virtual-time event loop | `SimCommonProofs`, run directly |
| `VirtualLoop` | what such a loop promises (abstract) | `AsyncEngine` |
| `Channels` | contention for links and volumes: registry, serialising and progressive channels | `MCChannels`, `SimCommonProofs` |
| `FairShare` | ideal equal sharing of a bandwidth (abstract) | `Channels` |
| `MCDedup`, `MCVolume`, `MCHost`, `MCKV`, `MCChannels`, `MCRun`, `MCLive` | instances for TLC | the `.cfg` files |
| `DedupRoutingProofs`, `SelectorAlgebraProofs`, `VolumeServiceProofs`, `HostComputeProofs`, `KVServingProofs`, `LiveExampleProofs`, `SimulationRunProofs`, `SimCommonProofs` | theorems | |

Operators marked *Faulty* or *Mutant*, or named for what they leave out, are plausible
mistakes in the definition below them; `PROJECT.json` pairs each with the property that
detects it. They are part of no specification.

### DedupRouting

| Variables | Code |
|---|---|
| `nextPub`, `rows` | the directory's publication counter and its rows; a row of publication 0 is a registered (live) copy, any other is pending |
| `inFlight` | `DedupDirectorySensor._in_flight` |
| `arrival`, `behind`, `assigned`, `gates` | the four maps of `FanoutSensor` |
| `pc`, `pub`, `prefer`, `missing`, `located` | each `read_through` call: where it is suspended, its plan, what its gate still misses, what its client located |
| `resident`, `dropping`, `evictions` | the volumes' stores, deregistrations under way, and the bound on evictions |

A read-through is `Ask` (all of `Dedup.sources` up to the gate: declare, fold `Asked`,
rank, cover, fold `Routed`, park) then, once nothing is `missing`, `Locate`, `Fetch`,
`Store`, `Register`, `Publish`; a miss at locate or fetch leads to `Retry`, which
commits the old publication and starts over, and `PutRefused` is a volume raising
`StorageFull`. `DispatchPublished` is the whole of `dispatch_sync`: every fold, then the
wakes. `Evict` drops bytes and `Deregister` is the directory being told.

The ranking is the code's: candidates below the fan-out cap, scored by arrival, link
time and the fabric weight (plus the queue in spread mode), ordered with their ids as
the tie-break, then the greedy cover of the batch. Abstractions: keys are whole (a
sliced tensor's shards are not told apart), a batch is located and fetched at one
instant each, volume ids are integers, link times are small integers, and evictions are
steps of the environment, at any volume in `Bounded`.

### SelectorAlgebra

`answer` is the `Selection` built so far, `measured` what its stages have read of each
source, `gated` and `opened` the state of its gate, `outcome` whether it is being built,
was refused (the code raised) or has crossed the boundary. Each base (`Of`, `Keyed`,
`Priced`, everything, abstain) starts a chain and each stage is one action, since
`select` never suspends; `Fallback` is `FirstMatch` over another chain's answer. Only
`Settle` waits, for `Open`. Readings are small numbers and a fold is one of three ways to
read a key.

### VolumeService

`vol` holds the stored values' sizes (`kv`), the booked sizes (`by`), the total, and the
ranking's recency (`used`) and sizes (`size`). `Put` is a put that does not suspend;
with a remote directory `PutTells` is the put up to its hop and `PutResumes` the rest.
`Get`, `Touch`, `Delete` and `Reset` are the other endpoints. `Used` allows any order
among the keys of one batch, as the code iterates over a set. Recency is kept as the order of
last use, not as a growing stamp, so the state space is finite.

### HostCompute

Time is a number of ticks; `Tick` advances it only when no coroutine is ready, as the
loop does. A prefill is `PassIsEmpty`, or `PassTakesDevice` / `PassQueues` then
`PassResumes`, and `PassEnds` with its hand-over. A decode call is `Admit` (join the
batch or the queue, then suspend in the report), `Admitted` (start the step task if
there is none, wait) or `AdmitRaises`, and `Returns`. The step task is `StepStarts`,
`Announced`, `StepEnds`, `StepReported`, and `StepDies` when a report raises, which
hands the exception to everyone. `Coupled` says whether prefill and decode book the same
accelerator.

### KVServing

| Variables | Code |
|---|---|
| `busyUntil`, `finishes` | `ClusterSensor`: the predicted prefill tail of each host and the decode batch it last reported |
| `held`, `pulls`, `named` | `ReservationSensor._held`, `RoutedPullSensor._pending`, `SourceLoad._named` |
| `placed` | `_Scheduler._placed`, the decision recorded for a rerouted request |
| `rows` | the directory together with what the volumes hold: which host has which block |
| `pc`, `at`, `plan`, `prefer` | each request: where its coroutine is suspended, the host it is at, its decision, the peer its fetch was told to read |
| `kv`, `uncached`, `end`, `since`, `device` | blocks pulled and to compute, and the pass on the host's accelerator |
| `left`, `last`, `members`, `stepEnd` | tokens left, and each host's decode step |
| `ledger` | `Metrics`: the outcome row of each request, written by client, prefill host and decode host |

A request is `Land` (the client, once the turns before it have ended), then `Decide` or
`DecideRecorded` at the control plane, then `Serve`, `Refuse` or `Redirect` at the host.
Serving is `PullSources`, `Pull` and `Pulled`, or `PullMiss` when a block has been
evicted, then `StartPass`, `Publish` and `Finish`. Decode is `DecodeHere` where the
prefill ran; elsewhere `HandSources`, `Hand` (or `HandMiss`), `Reside` and
`DecodeMoved`. `StepStart` and `StepComplete` are the decode engine and its reports,
`Grow` publishes what a request
generated, `Evict` is a volume dropping a block, `Tick` the clock. `Decisions(r)` is the whole of the
pricing: longest prefix, whether a pull is worth it, predicted completion behind the
host's tail, the TTFT bound, the ranking, then the decode host by predicted batch
and the TBT bound.

Abstractions: a chain is whole blocks, times are small integers (the cost model is the
constants `BlockTime`, `PullTime` and `StepUnit`), batches have no size limit and a
prefill queue is its order of service (both are in `HostCompute` in full), a host's
resident KV has no cap, and only runs that model decode are covered. `Serve` is one step
with the call that tells the volume which local blocks it served (`store.reuse`, which
only moves them in a ranking `Evict` does not look at): nothing but the request's own
later steps reads the row it opened, so the await in between is a later `Serve`. With
`Instant` calls take no time, otherwise any time.

`KVWorkload` makes the requests. A key is the sequence of prompt segments up to its
block, so that equal keys are equal prefixes; `NextKeys` is how the generator names a
later turn (the last turn's keys, the keys its answer will be published under, a new
message) before any of it has run.

### SimulationRun

| Variables | Code |
|---|---|
| `run` | the configuration and the workload: kind, device, release times, precomputed routes, items whose key nobody holds |
| `now` | the virtual clock; `Advance` is `AsyncEngine`'s promise |
| `owner` | `factory._owner` |
| `main`, `task`, `pub` | the driving coroutine, the item tasks, the publication task of a routed run: where each is suspended, its timer, the sleeps ahead of it, its context variable |
| `stored`, `listed`, `ready` | volumes' contents, the directory's holders in order, relays that have notified |
| `ledger`, `trace` | `Ledger`, `Trace` |

A run is `Generate`, `PublishFirst` (under `RealClientAdapter.installed`), `PutCharge`,
`PutListed` and `PublishNext` for each replica, then `ReleaseItems` (`Runner.run` under
`Mesh.installed`), `Gather` and `Close`. An item is `ItemSleep`, `ItemLocate`,
`ItemLocated`, `ItemOpen` and `ItemCharge`; a routed one is `ItemPublish` (the first makes
the one publication task), `ItemRouted`, `ItemOpen`, `ItemCharge` and, for a relay,
`RelayCharge`. An operation becomes one sleep per component, or one in all when charges
are collapsed; components of no duration are not recorded. A reader records that it is
done, and a run that its burst begins, only in the workloads that do: a routed item
records neither.

`Configure` lays defaults, environment and command line over one another and `Init`
takes any configuration so obtained whose hop to the directory takes time (a free hop
runs inline and would not suspend). Prices are integers, with a rate given as the time
one byte or operation takes. Contention is `Channels`; the transports here do not
contend. A digest is the pair of its predecessor and the event, folded on demand, so
collisions and a disabled trace are left out. `RenderTree`, in
`RunReport`, is the drawing without its layout. `RowsComplete` is `OutcomesComplete` (an
outcome row for every item) and `PictureComplete` (every edge is drawn). A failing item lets others that are ready at the same instant take a step after
the factory is restored (`stray`), as `gather` does.

### StoreReader and LiveExample

`rows` and `held` are the torchstore controller's and volumes' records (external).
A listing is `GatherKeys`, `GatherLocate` and one `Collect` per key, each a separate read
of the store, then `Respond`: the answer computed from the records. Keys are sequences of
characters, because dots and prefixes are what the grouping is about.

A rank is `SeedBegins`, `SeedsDone`, `PassBarrier`, `Listen` (on the aggregator),
`StopWorkers`, `CloseServer`, `Leave`, `Shutdown`, with `SeedFails`, `ListenFails`,
`BarrierBreaks` and `Signal` where the code raises or is told to stop. A signal comes once its
handlers are installed, which is past the first barrier: one that arrives earlier ends the
process by Python's own handler, which is not modelled. A worker runs its
`Script`; `PutLands`/`PutRegisters` and `DeleteDeregisters`/`DeleteDrops` are the two
calls a put or a delete makes, `PutRaises` a failing one. A client is `Connect`, `Ask`,
`AskNext` (following `next_cursor`), `HangUp`. `pages` and `touched` are history.
Tensor contents, shapes, statistics and the wire format are left out.

### AsyncEngine and VirtualLoop

| Variables | Code |
|---|---|
| `clock`, `ready`, `scheduled`, `stopping` | `_clock`, `_ready`, `_scheduled` (the heap, as a set ordered by `Before`), `_stopping` |
| `batch`, `running` | the local `batch` of `_run_once` and the handle whose `_run` is under way |
| `made`, `when`, `soon`, `cancelled` | the handles: their number (also `_timer_seq`), `_when`, which came from `call_soon`, `_cancelled` |
| `due`, `ran` | the instant a handle ought to run at, and the handles whose callback has run; histories that no guard reads |
| `raised` | whether the deadlock error was raised |

`Tick` is `_run_once` up to the loop over the batch: drop the cancelled head, advance the
clock if nothing is ready, move what is due, take everything ready. `Run` and `Skip` are one
turn of that loop, `Deadlock` its error. While a callback runs it may make any sequence
of `CallSoon`, `CallAt`, `Cancel` and `Stop` calls until it `Return`s; tasks and futures do
nothing else to the loop. A seed (`Shuffled`) makes the order of a batch arbitrary.

`VirtualLoop` is what every other module assumes of the loop when it uses a `Tick`: a
callback runs once, at the instant it is due, or is cancelled before and never runs, and
the clock moves only when nothing is due, to the next instant at which something wanted is
due. Its `Fire` and `Cancel` differ: one needs the clock to read `due` and adds to `ran`,
the other adds to `dropped`, and nothing else takes a callback out of `pending`.
`AsyncEngine` implements it with `now <- clock`, `pending <-` the handles in the ready
queue, the heap or the batch that are not cancelled, its own `ran`, and `dropped <-` those
cancelled before they ran. A loop that ran a handle early, ran a cancelled one, or dropped
one would not.

### Channels and FairShare

A transfer is `away` until it is charged, then `warming` and `active` on a progressive
channel, or `queued` and `serving` on a serialising one, then `ended`. `ChargeShared` and
`ChargeSerial` are `ResourceRegistry.transfer` with the channel's `register`; `Enter` and
`Complete` are the timers of the progressive channel (advance the books, change the
members, re-rate everyone), `Finish` that of the serialising one. `alarm` is a transfer's
one timer. The channel's rate is its capacity over the number of active transfers,
because it is recomputed exactly where that number changes.

`FairShare` moves bytes continuously: while time passes, every moving transfer gets an
equal share of the bandwidth, and one ends the moment it has none left. `Channels`, which
only keeps books at entries and completions, implements it in progressive mode with
`left <-` what remains less the share since the last update.

Floats are replaced by integers in units in which every division is exact; `TypeOK` says
that they are. Rounding is therefore not modelled. In the run, transfers of one resource
have one capacity, as the code's module docstring assumes.

## 3. Runs

| Run | Checks | Shows |
|---|---|---|
| `dedup_burst` | `FanoutBounded`, `PlanCarriedOut`, `RowsBacked`, `ReadsComplete` | three readers of one key, cap 1, up to two evictions: a chain of gates, one origin read until something is evicted, every read completes |
| `dedup_faults` | `BehindExact`, `MissingInFlight` | spread mode; overlapping read-throughs of one volume, a plan of several sources, refused puts, evictions of landed and of last copies: the books stay exact |
| `selector_chain` | `KeyCovers`, `GateRides`, `BestLeads` | every base, every chain of up to three stages |
| `volume_any` | `StoreAsBooked`, `RefusedOnlyWhenFull`, `DropsColdest` | no directory, one in place, one a hop away over which puts overlap |
| `host_coupled` | `OneOwner`, `NobodyForgotten`, `GapsCoverDecode`, `NoOvertaking`, `AllAnswered` | passes and steps on one device, reports that raise |
| `kv_lag` | `SentOnceServed`, `PlacedAwaited`, `MemosAwaited`, `PromisesDisjoint`, `RowsAddUp`, `HistoryFound`, `AllServed` | generated conversations of two tenants; calls of any length, evictions, pulls, refusals, handoffs |
| `run_burst` | `LedgerTrue`, `PriceHolds`, `PaidBeforeRead`, `PatchReturned`, `RowsComplete`, `DivergenceFound` | three kinds of run, every configuration, items released together or apart, items that fail |
| `live_ranks` | `StableListed`, `BoardAddsUp`, `StoreKept`, `NobodyStranded` | one, two and three ranks, workers and a client on one store, failures at any time, signals once their handlers are installed |
| `loop_any` | `KeepsTime` (refinement of `VirtualLoop`), `InOrder`, `AllRun` | callbacks that schedule, cancel and stop in any order: each runs at its instant or was cancelled before, none is lost |
| `channel_modes` | `TakesTurns`, `SharesFairly` (refinement of `FairShare`), `AllCharged` | both contention modes, any overlap of arrivals, warm-ups and ends |
| `volume_overlap` | `ResidentExact` violated | finding |
| `volume_refused` | `NothingSilentlyFits` violated | finding |

**Bounds.** `MaxPub` bounds the publications declared: one per read plus room for
retries; in `dedup_burst`, where every read must complete, it is never reached. `MaxEvict`
bounds evictions: one is enough to strand a plan, two to strand the plan made after it,
and in `dedup_faults` one may take the origin's only copy, which leaves readers retrying,
so deadlock is not checked there. Three readers behind a cap of one give a chain with a
middle, which is where a gate is both waited on and waiting. Two volumes, two readings and
chains of three stages are enough for a tie, a cut and something after it
(`MaxStages`); a chain may stop anywhere, so deadlock is not checked. Four keys of sizes
one to three in a volume of four make puts that fit, that evict one, that evict several,
and, at size five, that cannot fit. In `kv_lag` three requests over two hosts share
prefixes of one to three blocks, so that there are full and partial hits, pulls, reroutes,
requests over the TTFT bound, one whose answer is a single token and one that continues a
conversation; `MaxLosses` bounds evictions and refused publishes, one being enough to
strand a pull or a handoff. Five decodes over two slots leave two queued at once, and four
passes leave two waiting while one runs. `run_burst` has two trainers and three readers,
the least with a chain of relays, and two release times, before and after the first
charges; its prices differ per tier and per component, so that swapping or dropping one
shows. `live_ranks` has one trainer that runs two steps, so that its rotating key is
put and deleted, one generator, a key of another program whose slices are incomplete and
one that is also an inner node; `MaxFaults` allows one failure in the job of three ranks,
and `Requests` gives the larger job fewer kinds of request, which differ only in how the
same records are presented. `MaxSteps` stops the workers, so deadlock is not checked.
`loop_any` has four handles and times 0 to 2: enough for a cancelled timer before a wanted
one, two timers of one instant made in different ticks, and one in the past.
`channel_modes` has three transfers on one resource, so that shares go through thirds,
halves and wholes, and one on another; sizes 0, 216 and 432 with set-up times 0, 108 and
216 make entries and ends coincide, and multiples of 108 keep every share whole.

**Fairness.** `DedupRouting`: weak fairness of each call's steps and of the
deregistrations that were sent, because the loop runs every ready coroutine and every due
timer; evictions are never forced. `HostCompute`: weak fairness of each call, of the
step task and of the clock, for the same reason. `KVServing`: weak fairness of
`Progress`, everything but evictions: some call, transfer, step or the clock moves on
while any is enabled. A request advances through finitely many phases, so this weaker
form is enough. `AsyncEngine`: callbacks return, and `run_forever` keeps calling
`_run_once` until it is stopped. `Channels`: weak fairness of `Progress`, since the loop
runs every due timer. `SimulationRun` and `LiveExample` state no
fairness: what must happen is said of the states in which nothing more can
(`NobodyStranded`), and `run_burst` is checked for deadlock.

**Findings.** With a controller a hop away, a put overwrites `resident_bytes` with a total
computed before the hop, so what another put committed meanwhile is lost from it
(`volume_overlap`). The code's comment says the total is the sum of the sizes per key;
`PROJECT.json` quotes it. A refused overwrite leaves its new value in the store while the
books keep the old size (`volume_refused`), where the comment says the landed data is rolled
back so that it does not silently fit.

**Known limits of the code.** These are behaviours the models have and no run asserts
against.

* One requester's second ask, with overlapping read-throughs, forgets the booking of its
  first read while that is still parked, so its peer may be offered beyond `fanout_cap`.
  `FanoutBounded` fails for four read-throughs over three volumes, two of them of one
  volume; it is checked for one read-through per volume, and proved where the reads of
  one requester follow one another.
* A plan of several sources is booked behind its first alone: the cap does not hold for
  the others, and `FanoutBounded` counts first sources.
* `StoreAsBooked` excepts the refused overwrites of `volume_refused`, and totals while puts
  overlap.
* A caller cancelled while its transfer is under way leaves the transfer in its channel,
  which charges it to its end.
* A read-through whose put raises `StorageFull` ends without committing `Published`; its
  publication stays in flight and later readers gate on it for good. `InFlightOwned`,
  `SomeoneRuns` and `ReadsComplete` are therefore stated for puts that are not refused
  (`PutMayFail = FALSE`).
* Two prefills submitted at one instant to an idle device are served in the order the loop
  resumes them; only those that queue are sorted by tag.
* On a coupled host a `ComputeBusy` report assigns the end of a decode step to the
  predicted prefill tail, which may lie before prefills already promised there, and the
  next decision promises the same time again. `PromisesDisjoint` fails with
  `Coupled = TRUE`; it is checked and proved without.
* A reservation counts until its predicted completion, inclusive. A pass that ends at or before
  that time has already joined the reported decode batch, so the request may be counted
  twice in the predicted occupancy.
* `RoutedPullSensor` matches by instance and keys. A pull and a handoff of the same keys
  to one host may spend each other's note; the number of notes stays right
  (`MemosAwaited`), the peer read may be the other one.

* A pass whose *local* prefix was evicted after the decision is charged as if it were
  there; only pulled blocks are looked at again.
* A rank whose worker died, or whose port was taken, skips the second barrier, so its
  store goes while others still work; `StoreKept` says so (`faults = 0`). With Python 3.12
  a connected client holds up the shutdown of every rank until it leaves.
* A stored key that is also an inner node of the trie is never shown as a leaf, and
  `_children` at the top answers with first segments (`trainer`), where the terminal
  UI's README speaks of `trainer.0`.
* `render_tree`'s inline branch would not end on a cycle of edges; the edges of a run are
  acyclic (each reader reads once, from one that had the payload before it).

Two limits of the passing properties are worth knowing. The fabric half of `PlanCarriedOut` is about a burst on one
key: a booking over a *live* copy is released only when its requester asks again, so a
volume that served a finished read may count as full when a different key is read later,
and the reader goes back to the origin. `RowsBacked` assumes that no second put
evicts a key between its landing and its registration (`PutsOverlap = FALSE`); with such
puts a row may appear for bytes that are gone.

## 4. Proofs

`DedupRoutingProofs` proves, for every set of volumes, keys and readers, any batches, cap,
link times, overlap and evictions, under `ConstantsAssumption` and what each one names:

* `TypeCorrect`, `FanoutCountsExact` (`BehindExact`), `PendingRecordsAgree`
  (`PendingAgree`), `NoLostWakeup` (`MissingInFlight`), `WaitsAreOrdered`
  (`WaitsForOlder`);
* `PublicationsOwned` (`InFlightOwned`) and `NoCircularWait` (`SomeoneRuns`), assuming
  puts are not refused: the limit above is what happens otherwise;
* `DirectoryBacked` (`RowsBacked`), assuming puts into one volume do not overlap in the
  window above;
* `FanoutCapHolds` (`FanoutBounded`), assuming `OneAtATime`: the reads of one requester
  follow one another, as the pulls of a rank do; the limit above is what happens otherwise;
* `NamedSourcesRead`, assuming `SourceOutside` (every reader has an origin other than
  itself): until something is evicted, every key is located at a volume its plan named;
* `FabricCrossedOnce` (`PlanCarriedOut`: that, and one fetch of each key across the
  fabric), assuming `OneBurst` (every reader reads once and is no origin; two batches are
  the same or have no key in common; the cap is at least 1) and `DearFabric` (with peers
  within `near` of one another and origins between `far` and `deep` away, `deep` and `near`
  once per reader and once more `Fabric` times stay below `far` and `Fabric` times `far`).
  The instance of `dedup_burst` meets both: 3 + 3 + 10 < 33. A longer chain, or a weight
  of 0 (`SPREAD`), may well send a second reader to an origin.

The inductive invariant is `IInv`: types, *books* (`BehindExact` and `GatesAssigned`),
*pending* (`PendingAgree` and `IdsDeclared`: publication ids are declared before they are
used and never twice), and *waits* (`MissingInFlight` and `WaitsForOlder`). None of the
four is inductive alone: that a fold decrements a positive count needs gates to be within
assignments; that a gate misses only what is in flight needs the ranking to offer only
declared rows, that is, `PendingAgree`; and that waits go to older publications needs ids
to grow. `NoCircularWait` follows from ownership and order: the owner of the least
publication in flight waits for nothing older, and waits only for older. The least element
is taken with `WFMin`, no induction. `CapInv` strengthens `FanoutBounded`: what is counted
are requesters with a gate on a volume (`ParkedBounded`), a read parked behind a volume
has that gate (`HeadGated`), and with `OneAtATime` no two reads share a requester's gate,
so the reads inject into the requesters. `NamedSourcesRead` rests on `Calm`: while nothing
was evicted, live rows are resident (`Kept`), a plan has for each key a source that is
live or pending and waited for (`Planned`), and what is located is at such a source
(`Followed`). `FabricCrossedOnce` adds `Chained`: who asked for the same keys later is behind
whom (`BehindLater`), a pending copy arrives within a hop per id of the origin's
(`ArrivesBy`), and everyone who asked still offers its keys, live or pending (`Offers`). The
last to have asked for a key therefore has nobody behind it, so that no cap can hide it
(`NobodyBehind`); it ranks before every origin, folded with the queue or not (`PeerFirst`);
and a plan that has an origin is the first of its keys (`FirstCrosses`).

`KVServingProofs` proves, for any hosts, pools, requests, chains, prices, bounds, delays
and losses, under `ServingAssumption`:

* `SentOnce` (`SentOnceServed`), `PlacedOneReader` (`PlacedAwaited`) and
  `LedgerAddsUp` (`RowsAddUp`);
* `PromisesApart` (`PromisesDisjoint`), assuming hosts are not coupled;
* `NotesSpent` (`MemosAwaited`);
* `HistoryKept` (`HistoryFound`), assuming `TurnsContinue`: a later turn's prompt begins
  with an earlier one's and the blocks it generated. The generator makes them so, and TLC
  evaluates the assumption on the conversations of `MCKV`; a generator that left out the
  generated blocks would fail there.

The inductive invariant is `IInv`: types (with plans whole), *placed* (what the record,
the plan and the host of a request are in each phase of its travel), *in hand* (what a
request has pulled and computes in each phase of its pass) and *stepping* (members of a
decode step are decoding there). `SentOnceServed` is not inductive: that a second ask
finds the recording needs `PlacedAwaited`, which needs the phase by phase statement.
`BInv` adds the rows: what each has at every phase (`Booked`), with the blocks of a pass
tied to *in hand*. `MovesOne` reduces each action to the request it moves. `PInv` adds
`TailCovers`: every promise on a host ends by the host's tail, and a new promise starts at
or after it (`PricedPlan`); that is what a coupled host's report breaks. `MInv` counts:
for a host and a set of keys there are at most as many notes as requests still to ask
about them; a decision adds one to both, and a fetch takes its own request from one side
and a matching note, its own or another's, from the other. `HInv` says, phase by phase and
while nothing was lost, which blocks of a request are held where: the matched prefix where
it was planned, all of it after the pass is stored, the generated blocks once it is done.

`VolumeServiceProofs` proves, for any keys, sizes, puts, capacity and kind of directory,
under `VolumeAssumption`:

* `RankingExact` (`RankingAgrees`): the ranking and the books name the same keys and sizes,
  overlapping puts included;
* `StoreExact` (`StoreAsBooked`): where no put suspends, the total is the sum of the
  books and within capacity, and the store holds what is booked, but for refused overwrites;
* `RefusalsForced` (`RefusedOnlyWhenFull`) and `ColdestDropped` (`DropsColdest`), both
  about steps.

`VInv` is the first with the types, `SInv` the second. The total is a fold over a set, and
what a fold does for every set would be an induction over data. The lemmas about `Sum`
therefore argue by a smallest counterexample: of the sets that refute the claim, one of
least cardinality, less one of its elements. What a put drops are the resident keys before
which the bytes it needs are not yet covered; both step properties follow from that
characterisation.

`HostComputeProofs` proves, for any passes, requests, costs, arrivals and batch limit,
with reports that may raise, under `HostAssumption`:

* `QueueHasOneOwner` (`OneOwner`), `EngineForgetsNobody` (`NobodyForgotten`),
  `GapsReachLastToken` (`GapsCoverDecode`) and `NobodyOvertakes` (`NoOvertaking`).

The inductive invariant has four parts: types; the *queue* (at most one owner, the device
marked busy while there is one and while anybody waits; whoever was granted it waited
longest; a device is booked to the end of the pass and of the step on it, and what was
booked second starts when the first is over); the *engine* (batch and queue hold each
request once, unresolved and with tokens left; nobody queues for a free slot; every caller
that waits is held and the step task lives); and the *gaps* (a request is admitted at the
instant it is due, and its largest gap times the tokens generated covers the time since).
`OneOwner` on a coupled host needs the bookings, `NobodyForgotten` that a request is held
once: a step that retires one copy would otherwise leave another. The end of a step
rebuilds the batch from the members that go on, given by an increasing map into the old
batch (`Walks`, `Staying`), then fills it from the queue (`PromotedHeld`).

`LiveExampleProofs` proves, for any number of ranks, workers, keys, clients and requests,
whatever fails and whoever hangs up, under `LiveAssumption` (a volume for each rank;
workers, tensors and the optimizer key have names of their own; the alphabet orders every
character of every key, so that sorting a set of keys lists all of it):

* `GatherListsStable` (`StableListed`) and `BarriersKeepStore` (`StoreKept`).

`JInv` is the job: which phases of a rank go with which states of its workers and which
arrivals at the barriers, and, while no role has failed, that a rank goes to its shutdown
only after everyone arrived twice (`Healthy`). `WInv` is the store under the workers: a
row has its bytes (`Backed`), a worker past its seeding has all its seed rows (`Sown`),
and a call between its two halves has done the first. It rests on two workers sharing no
key and on the seed never being deleted. `GInv` is one gather: a key that nobody touched
since the request is either in what was read, as it is now, or still to be read, and
nothing else is; that is what `touched` is tied to at every write. The proof found that
two cases of the model's `Script` overlapped (a generator's seeding is not a step of its
run); the second now excludes step 0.

`SelectorAlgebraProofs` proves, for any volumes and readings and chains of any length:

* `KeyCoversAlways` (`KeyCovers`) and `GateRidesAlways` (`GateRides`). The two are
  inductive as they stand; the work is in the operations, one lemma each, and above all in
  `CutGood`: whatever `only` leaves is a good answer, because every cut goes through it.
* `BestIsHeadOfSort`: the one source `_best` finds is the first of every sort of the same
  answer, from the asymmetry of the lexicographic order (`LexAsymmetric`).
* `BestLeadsAlways` (`BestLeads`): in every chain a sort of the answer exists and the one
  source `_best` finds leads it. The invariant it needs is `Readable`: sources are named
  once and have equally many readings under each key, by a fold that is known. A sort
  exists because the sources can be counted from the least up (`OrderLists`, by ranks);
  the recursive totals have values because there is no least length without one.

`SimulationRunProofs` proves, for any topology, sizes, rates, configurations, routes and
release times, under `RunAssumption` (what the constants are), `SettingsAssumption` (a
delay is a number, and an unset setting is none of its values) and `NamesAssumption` (the
mesh and an unbound context are no volumes):

* `GivenBack` (`PatchReturned`), `PriceKept` (`PriceHolds`), `LedgerKept` (`LedgerTrue`);
* `PaidFirst` (`PaidBeforeRead`), assuming that a write to storage takes time: the code
  records no row for a component of no duration, so a free write leaves nothing to precede;
* `OutcomesKept` (`OutcomesComplete`, the outcome half of `RowsComplete`);
* `GateNames` (`DivergenceFound`).

`PriceHolds` is about the end of a read and about its rows: the fabric row at the predicted
instant, and, of each storage read and staging copy that takes time, a row of its own at
the instant it is over. `DivergenceFound` is about three ways in which a second run may
part from this one: it stops short, two neighbours change places, or an event is recorded
at another instant.

`Base` says what the variables hold (`Typed`), which threads are where (`Places`: in
particular who holds the substituted factory) and what is left of the sleeps of every
operation under way (`Stages`: a tail of `Sleeps`, collapsed or not). On it rest `Timed`
(no timer was passed, and a read's timer with the sleeps it still owes ends on its price);
`OnPrice` (a read that has ended has one fabric row, at that instant, and one that has not
has none); `OnRecord` (a charge of the serving volume that is over has a row, at the
instant it was over, and no two reads share one); `Counted` (an edge, and its bytes, for each of those); `Settled` (a put that was
paid for has one write row, and what is listed, notified or opened was paid for); and
`Rowed` (rows and totals against the items that are done). Both rows are written by the
last sleep of their operation, which is what makes one argument serve the two ways of
charging. A fold over the sleeps or the trace is unrolled by `FoldExists`, and the chain of
digests by its own lemma: each function exists, and two traces of one chain are equal,
because there is no least index at which that fails.

`SimCommonProofs` holds what is proved of the loop and of the channels. Of `AsyncEngine`, for
any number of handles, any times, seeded or not, under `LoopAssumption`:

* `LoopKeepsTime` (`KeepsTime`): the loop implements `VirtualLoop`, so a callback runs once
  and when it is due, one cancelled before never, and none is lost;
* `RunsInOrder` (`InOrder`) and `DeadlocksAreReal` (`DeadlockReal`).

The inductive invariant is `IInv`: *typed*; *separate* (a handle is in at most one of the
ready queue, the heap and the batch, and there once); *timely* (what is ready or in the
batch is due now, what is scheduled is due at its time or, if that has passed, now);
*quiet* (what a reported deadlock leaves). `KeepsTime` needs *timely* for every `Fire`,
and for the clock that the head of the heap, once cancelled timers are dropped, is wanted
and least. That nothing runs twice, and that what leaves the queues ran or was cancelled,
is `Settled`: what was made still waits, has run or was cancelled, and what has run does
not wait. `InOrder` needs one more invariant, `Ordered`: the ready queue is in the order
of making, the batch is too among handles of one kind and instant, and what is ready or
scheduled when a batch runs was made after the batch's own of that kind and instant. Facts
about sequences are lemmas over their sets of members (`TakenQueue`, `AppendedQueue`,
`QueueMembers`).

Of `Channels`, for any transfers, sizes and times, under `ChannelsAssumption`:

* `TurnsTaken` (`TakesTurns`): on a resource that serializes, transfers are served in the
  order they were charged, each for its solo cost, with no idle time while one waits.
* `SharedFairly` (`SharesFairly`): a resource that shares implements `FairShare` in every
  behaviour whose shares stay whole: at each instant those that move bytes have equal
  shares of all its bandwidth, and each ends the moment its last byte has moved.

`SharedFairly` has a hypothesis on the behaviour, `[]WholeShares`: what each transfer has
moved since its resource's last update, and the time it needs for the rest at its share,
are integers. The code divides floats and the model integers, and where a division rounds
the model shares only approximately; the hypothesis asks for the units fine enough that
the head of `Channels` speaks of. It is not empty: with the numbers of `channel_modes`
`WholeShares` holds in every reachable state, which TLC confirms when it is given as an
invariant. The inductive invariant, `Rated`, says that the handle of an active transfer
fires when it will have moved what it had left at the last update, at the share it got
then (`Due`). So what has moved since never exceeds what is left, the clamp at zero in
`_advance` is never needed, and an update changes nothing the ideal sharing sees
(`UpdateMovesNothing`): entries map to `Join`, completions to `Leave`, a first charge to
`Learn`, and the passing of time to `Flow`.

For the other, `TInv` adds the channel as it is now: each charge has a stamp of its own (`Stamped`); the
queue of a resource holds exactly the transfers that wait for it, in the order of their
charges, and only while it is busy (`Waits`); and a transfer that was started came after
all before it ended, at the last of what it had to wait for (`TimelyTransfer`).

**Only model-checked.**

* Liveness (`ReadsComplete`, `AllAnswered`, `AllServed`, `AllRun`, `AllCharged`) and
  `NobodyStranded` of `LiveExample`: fairness and `ENABLED`.
* That shares stay whole (`WholeShares`, the hypothesis of `SharedFairly`): which sizes and
  times give it for any number of overlaps is a matter of the numbers, not of the channel.
* `PictureComplete`, the other half of `RowsComplete`: the drawing of `RunReport` is
  recursive, so what it draws of every graph is an induction over data.
* `BoardAddsUp` of `LiveExample`: what the summary, the trie and the pages add up to are sums
  and filters of sequences, written with operators that take a test as a parameter.

## 5. Not modelled, and the plan

Not modelled: the terminal UI (its rendering; its lazy list and view stack are the part a
model could say something about); demo scripts, summaries and tables, which format
results; the offline tools (`realsim/tools`: linters, benchmarks, diagrams); the older
callback engine (`sim_common/engine.py`), which no program uses; host-time counters
(`perfcount.py`); wiring that only constructs objects; random draws, which are sets here;
float rounding; cancelling a waiter parked at the dispatcher or a transfer under way,
which no program does; the directory's listing by prefix; the VRAM cap of resident KV.

Next, in this order:

1. Theorems: that the pages of `BoardAddsUp` lose nothing; a condition on sizes and times
   alone under which `WholeShares` holds.
2. The terminal UI's lazy list and the answers that arrive after the view has moved on,
   over `StoreReader`.
3. `SimulationRun` over `Channels`: transfers that contend, and prices that then differ
   from the prediction.
4. Batch limits and resident KV in `KVServing`, by composing it with `HostCompute`.
