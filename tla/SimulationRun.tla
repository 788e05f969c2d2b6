---------------------------- MODULE SimulationRun ----------------------------
(***************************************************************************)
(* One run of the assembled simulation stack: realsim/simulation.py and    *)
(* runner.py drive a workload's items on the virtual clock, over the mesh  *)
(* of co-located clients and volumes (mesh.py), through the one process-   *)
(* wide transport factory (seams/factory.py), with every put and get       *)
(* charged by the transport seam (seams/transport.py) from the analytic    *)
(* cost model (sim_common/cost_model.py) and accounted in the run's ledger *)
(* and trace (sim_common/report.py, trace.py).                             *)
(*                                                                         *)
(* Threads are the coroutines of the run: the driving coroutine, one task  *)
(* per work item, and the publication task of a precomputed-routing run    *)
(* (dedup_sim/workload/_routing.py).  Each action runs one thread from one *)
(* await to the next.  The threads that are ready at one instant run in    *)
(* any order, as they do under a seeded engine; the clock moves only when  *)
(* none is ready.                                                          *)
(***************************************************************************)
EXTENDS Naturals, Sequences, FiniteSets, FiniteSetsExt, SequencesExt, Functions

CONSTANTS
    Trainers,     \* sequence of the volumes that publish the key
    Items,        \* reader nodes; the id of a work item is its reader's
    Host, Node,   \* the locality of every node
    Releases,     \* the release times a workload may give its items
    Routes,       \* precomputed plans: the volume each item is served by
    Elements, ElementSize,   \* the payload
    Devices, Dtype,          \* where, and in what, the producer may compute it
    Profile,                 \* the target machine
    Environments,            \* the TOSO_* variables a process may start with
    CommandLines,            \* the run flags it may be given
    Unset                    \* a variable or flag that is not there

Origins == Range(Trainers)

Volumes == Origins \cup Items

\* A fixed cost and a cost per byte, in the one time unit of the profile.
Cost == Nat \X Nat

\* MachineProfile, with every bandwidth and flop rate as the time one byte or
\* one operation takes; gpu_flops has only the dtypes it has rates for.
MachineProfile(p) ==
    /\ p.tiers \in [{"shm", "nvlink", "rdma"} -> Cost]
    /\ p.storage \in [{"read", "write"} -> Cost]
    /\ p.ram \in Cost
    /\ \A d \in DOMAIN p.gpu_flops : p.gpu_flops[d] \in Nat
    /\ {p.gpu_flops_default, p.gpu_mem, p.cpu_flops} \subseteq Nat

ASSUME RunAssumption ==
    /\ Elements \in Nat \ {0} /\ ElementSize \in Nat \ {0}
    /\ MachineProfile(Profile)
    /\ Releases \subseteq Nat
    /\ IsFiniteSet(Items) /\ Items # {}
    /\ Trainers \in Seq(Origins) /\ Trainers # <<>> /\ IsInjective(Trainers)
    /\ Origins \cap Items = {}
    /\ Routes \subseteq [Items -> {Trainers[1]} \cup Items]

VARIABLES
    run,      \* the process configuration, and the workload with its items and plan
    now,      \* the virtual clock
    owner,    \* who holds create_transport_buffer
    main,     \* the driving coroutine
    task,     \* the item tasks
    pub,      \* the publication task of a routed run
    stored,   \* volumes whose store holds the payload
    listed,   \* the directory's holders of the key, in the order they put it
    ready,    \* relays whose readiness has been notified
    ledger,   \* sim_common.report.Ledger
    trace     \* sim_common.trace.Trace

vars == <<run, now, owner, main, task, pub, stored, listed, ready, ledger, trace>>

-----------------------------------------------------------------------------
(* The process configuration, read when a stack is built: defaults, then    *)
(* the environment, then the command line.                                 *)

\* SimConfig's defaults, for the settings this run consumes.
SimConfig == [collapse_charges |-> FALSE, controller_rtt |-> 0]

Given(settings) == {f \in DOMAIN settings : settings[f] # Unset}

BoolEnv(raw) == raw \in {"1", "true", "yes", "on"}

\* _from_env: the variables that are set, parsed.
FromEnv(env) ==
    [f \in Given(env) |-> IF f = "collapse_charges" THEN BoolEnv(env[f]) ELSE env[f]]

\* _apply_run_flags: a switch that is off leaves its setting unset.
RunFlags(args) ==
    [collapse_charges |-> IF args.collapse_charges THEN TRUE ELSE Unset,
     controller_rtt |-> args.controller_rtt]

\* The delays given are delays, and a setting that is not there is no value.
ASSUME SettingsAssumption ==
    /\ Unset \notin Nat /\ Unset # TRUE
    /\ \A env \in Environments : /\ DOMAIN env = DOMAIN SimConfig
                                 /\ env.controller_rtt \in Nat \cup {Unset}
    /\ \A args \in CommandLines : args.controller_rtt \in Nat \cup {Unset}

Configure(env, flags) ==
    [f \in DOMAIN SimConfig |-> CASE f \in Given(flags) -> flags[f]
                                [] f \in Given(env) \ Given(flags) -> FromEnv(env)[f]
                                [] OTHER -> SimConfig[f]]

\* What a run may be configured with.  A free hop runs inline, so these are
\* the processes whose hop to the directory has a latency.
Configurations ==
    {c \in {Configure(env, RunFlags(args)) : env \in Environments, args \in CommandLines} :
        c.controller_rtt > 0}

-----------------------------------------------------------------------------
(* The cost model. *)

\* A descriptor and a meta tensor have one size surface.
Bytes == Elements * ElementSize

Locality(a, b) ==
    CASE Host[a] = Host[b] -> "shm"
      [] Host[a] # Host[b] /\ Node[a] = Node[b] -> "nvlink"
      [] OTHER -> "rdma"

Priced(cost, n) == IF n = 0 THEN 0 ELSE cost[1] + n * cost[2]

NetworkRate(a, b) == Profile.tiers[Locality(a, b)]

NetworkTime(a, b, n) == IF a = b THEN 0 ELSE Priced(NetworkRate(a, b), n)

StorageRate(kind) == Profile.storage[kind]

StorageTime(n, kind) == Priced(StorageRate(kind), n)

MemCopyTime(n) == Priced(Profile.ram, n)

\* What a scheduler predicts a read to cost.
ReadTime(a, b, n) == StorageTime(n, "read") + MemCopyTime(n) + NetworkTime(a, b, n)

IsGpu(device) == device \in {"cuda", "gpu", "hip", "xpu"}

EffectiveFlops(device) ==
    CASE ~IsGpu(device) -> Profile.cpu_flops
      [] IsGpu(device) /\ Dtype \in DOMAIN Profile.gpu_flops -> Profile.gpu_flops[Dtype]
      [] OTHER -> Profile.gpu_flops_default

MemBandwidth(device) == IF IsGpu(device) THEN Profile.gpu_mem ELSE Profile.ram[2]

\* The roofline: whichever is slower of the arithmetic and the bytes it touches.
ComputeTime(flops, device, n) == Max({flops * EffectiveFlops(device), n * MemBandwidth(device)})

-----------------------------------------------------------------------------
(* The transport: the components of an operation, and the sleeps they      *)
(* become.                                                                 *)

Part(kind, op, from, to, dt) == [kind |-> kind, op |-> op, from |-> from, to |-> to, dt |-> dt]

\* put_to_storage_volume: client to volume over the fabric, then the write.
PutParts(src, dst) ==
    << Part("xfer", "put", src, dst, NetworkTime(src, dst, Bytes)),
       Part("store", "write", dst, dst, StorageTime(Bytes, "write")) >>

\* get_from_storage_volume: the volume reads and stages, then ships.
GetParts(src, dst) ==
    << Part("store", "read", dst, dst, StorageTime(Bytes, "read")),
       Part("mem", "copy", dst, dst, MemCopyTime(Bytes)),
       Part("xfer", "get", dst, src, NetworkTime(dst, src, Bytes)) >>

\* A combined sleep that left the staging copy out of its sum.
SleepsUnstaged(parts) ==
    IF run.config.collapse_charges THEN << SelectSeq(parts, LAMBDA p : p.kind # "mem") >>
    ELSE [k \in DOMAIN parts |-> << parts[k] >>]

\* collapse_charges coalesces the sleeps of an operation into one.
Sleeps(parts) == IF run.config.collapse_charges THEN << parts >> ELSE [k \in DOMAIN parts |-> << parts[k] >>]

Duration(parts) == FoldLeft(LAMBDA acc, p : acc + p.dt, 0, parts)

\* Every row of an operation but that of the staging copy.
EmittedUnstaged(parts) == SelectSeq(parts, LAMBDA p : p.kind # "mem" /\ (p.kind = "xfer" \/ p.dt > 0))

\* A free storage or RAM charge leaves no row; a fabric charge always does.
Emitted(parts) ==
    FoldLeft(LAMBDA rows, p : IF p.kind = "xfer" \/ p.dt > 0 THEN Append(rows, p) ELSE rows,
             <<>>, parts)

Record(kind, what) == Append(trace, [at |-> now, kind |-> kind, what |-> what])

Rows(parts) == [k \in DOMAIN parts |-> [at |-> now, kind |-> parts[k].kind, what |-> parts[k]]]

\* Ledger.record_transfer, reached from _emit_network through the mesh: a
\* put is the writer storing its own data and is not counted.
RecordTransfer(l, p) ==
    IF p.op # "get" THEN l
    ELSE [l EXCEPT !.transfer = @ + Bytes,
                   !.origin = @ + (IF p.from \in Origins THEN Bytes ELSE 0),
                   !.edges = Append(@, <<p.from, p.to>>)]

Accounted(l, parts) == FoldLeft(RecordTransfer, l, parts)

\* One sleep ends: the rows of its components, stamped now.
Emit(parts) ==
    /\ trace' = trace \o Rows(Emitted(parts))
    /\ ledger' = Accounted(ledger, parts)

\* A thread goes to sleep for the charges of an operation.
Charging(th, pc, parts) ==
    [th EXCEPT !.pc = pc, !.sleeps = Sleeps(parts), !.wake = now + Duration(Sleeps(parts)[1])]

NextSleep(th) ==
    [th EXCEPT !.sleeps = Tail(@), !.wake = now + Duration(th.sleeps[2])]

\* asyncio.sleep on the way out to, or back from, a service.
Leg(th, pc) == [th EXCEPT !.pc = pc, !.wake = now + run.config.controller_rtt]

Due(th, pc) == th.pc = pc /\ th.wake <= now

LastSleep(th) == Len(th.sleeps) = 1

-----------------------------------------------------------------------------
(* The factory: one process-wide substitution, one owner at a time. *)

Mesh == "mesh"

Nobody == "nobody"

Unbound == "unbound"

\* None of them is a node.
ASSUME NamesAssumption == Volumes \cap {Mesh, Nobody, Unbound} = {}

\* A block that is left without giving the substitution back.
LeftHeld(held) == held

\* factory.installed: entering raises if anybody holds the substitution, and
\* leaving, however the block ends, puts the original back.
Left(held) == Nobody

Entered(held, who) == IF held = Nobody THEN who ELSE held

\* factory.bind_source, a task-local context variable.
Bound(th, node) == [th EXCEPT !.src = node]

\* A source kept in a plain module global.
BindSourceGlobally(i, th) == [j \in Items |-> Bound(IF j = i THEN th ELSE task[j], i)]

BindSource(i, th) == [task EXCEPT ![i] = Bound(th, i)]

Idle == [pc |-> "idle", wake |-> 0, sleeps |-> <<>>, src |-> Unbound, from |-> Unbound,
         opened |-> 0]

Direct == run.workload # "routed"

\* The one origin of a put-get burst.
BurstPublishers == << Trainers[1] >>

\* Every trainer replica of a weight sync, in id order.
SyncPublishers == Trainers

\* A routed burst publishes the snapshot of the burst it is made from.
RoutedPublishers == BurstPublishers

Publishers ==
    CASE run.workload = "put_get" -> BurstPublishers
      [] run.workload = "weight_sync" -> SyncPublishers
      [] run.workload = "routed" -> RoutedPublishers

\* A client is co-located with its own volume, and stores there.
SelectVolume(client) == client

\* The directory answers with its holders in the order they put the key, and
\* the client reads from the first.
Locate == Head(listed)

\* Two operations per element, streaming the whole payload.
GenerateTime == ComputeTime(2 * Elements, run.device, Bytes)

NewLedger ==
    [rows |-> {}, edges |-> <<>>, transfer |-> 0, origin |-> 0, wallclock |-> 0, total |-> 0]

Outcome(i, released, done) == [id |-> i, released |-> released, done |-> done]

-----------------------------------------------------------------------------
(* Preparing: what precedes the items on the clock. *)

Init ==
    /\ run \in [workload : {"put_get", "weight_sync", "routed"}, config : Configurations,
                device : Devices,
                release : [Items -> Releases], route : Routes, missing : SUBSET Items]
    /\ run.workload = "routed" => run.missing = {}
    /\ run.workload = "weight_sync" => run.device = CHOOSE d \in Devices : TRUE
    /\ run.workload # "routed" => run.route = CHOOSE r \in Routes : TRUE
    /\ now = 0
    /\ owner = Nobody
    /\ main = [pc |-> "start", turn |-> 1, wake |-> 0, sleeps |-> <<>>, src |-> Unbound]
    /\ task = [i \in Items |-> Idle]
    /\ pub = Idle
    /\ stored = {} /\ listed = <<>> /\ ready = {}
    /\ ledger = NewLedger
    /\ trace = <<>>

\* The producer generates the payload before a put-get burst.
Generate ==
    /\ main.pc = "start" /\ run.workload # "weight_sync"
    /\ main' = [main EXCEPT !.pc = "generating", !.wake = now + GenerateTime]
    /\ UNCHANGED <<run, now, owner, task, pub, stored, listed, ready, ledger, trace>>

\* RealClientAdapter.installed, then client.put: the payload is in the
\* volume's store before any of the put is charged.
PutOpen(held, th) ==
    LET p == Publishers[th.turn] IN
    /\ owner' = Entered(held, p)
    /\ stored' = IF owner' = p THEN stored \cup {p} ELSE stored
    /\ main' = IF owner' = p THEN Charging(th, "putting", PutParts(p, SelectVolume(p)))
               ELSE [th EXCEPT !.pc = "refused"]
    /\ UNCHANGED <<run, now, task, pub, listed, ready, ledger>>

PublishFirst ==
    \/ main.pc = "start" /\ run.workload = "weight_sync"
       /\ PutOpen(owner, main) /\ trace' = trace
    \/ Due(main, "generating") /\ Direct
       /\ PutOpen(owner, main) /\ trace' = Record("compute", Publishers[1])

\* A sleep of the put ends; after the last one the client tells the
\* directory, which hears of it one leg later.
PutCharge ==
    /\ Due(main, "putting")
    /\ Emit(main.sleeps[1])
    /\ main' = IF LastSleep(main) THEN Leg(main, "notifying") ELSE NextSleep(main)
    /\ UNCHANGED <<run, now, owner, task, pub, stored, listed, ready>>

PutListed ==
    /\ Due(main, "notifying")
    /\ listed' = Append(listed, Publishers[main.turn])
    /\ main' = Leg(main, "notified")
    /\ UNCHANGED <<run, now, owner, task, pub, stored, ready, ledger, trace>>

\* The adapter's block is left, and the next replica's is entered.
PublishNext ==
    /\ Due(main, "notified") /\ main.turn < Len(Publishers)
    /\ PutOpen(Left(owner), [main EXCEPT !.turn = @ + 1])
    /\ trace' = trace

-----------------------------------------------------------------------------
(* The runner: one task per item, released on the clock, then gathered. *)

\* Runner.run enters the mesh's block and gather makes the tasks, each with
\* a copy of the caller's context.
ReleaseItems ==
    /\ \/ Due(main, "notified") /\ main.turn = Len(Publishers)
          /\ trace' = Record("burst", Mesh)
       \/ Due(main, "generating") /\ ~Direct
          /\ trace' = Record("compute", Publishers[1])
    /\ owner' = Entered(Left(owner), Mesh)
    /\ IF owner' = Mesh
       THEN /\ ledger' = [ledger EXCEPT !.total = @ + Cardinality(Items)]
            /\ main' = [main EXCEPT !.pc = "gathering"]
            /\ task' = [i \in Items |-> [Idle EXCEPT !.pc = "created", !.wake = now,
                                                     !.src = main.src]]
       ELSE main' = [main EXCEPT !.pc = "refused"] /\ UNCHANGED <<ledger, task>>
    /\ UNCHANGED <<run, now, pub, stored, listed, ready>>

\* _run_one: an item whose release time is ahead sleeps until it.
ItemSleep(i) ==
    /\ Due(task[i], "created") /\ run.release[i] > now
    /\ task' = [task EXCEPT ![i].pc = "released", ![i].wake = run.release[i]]
    /\ UNCHANGED <<run, now, owner, main, pub, stored, listed, ready, ledger, trace>>

Released(i) ==
    \/ Due(task[i], "created") /\ run.release[i] <= now
    \/ Due(task[i], "released")

\* The ordinary call: bind who I am, then ask the directory.
ItemLocate(i) ==
    /\ Released(i) /\ Direct
    /\ task' = BindSource(i, Leg(task[i], "locating"))
    /\ UNCHANGED <<run, now, owner, main, pub, stored, listed, ready, ledger, trace>>

\* The directory answers on arrival.  A key nobody holds raises there, and
\* no leg back is paid.
ItemLocated(i) ==
    /\ Due(task[i], "locating")
    /\ task' = IF i \in run.missing THEN [task EXCEPT ![i].pc = "failed"]
               ELSE [task EXCEPT ![i] = [Leg(@, "located") EXCEPT !.from = Locate]]
    /\ UNCHANGED <<run, now, owner, main, pub, stored, listed, ready, ledger, trace>>

\* _RoutingPlane.execute: the first item makes the publication task, with a
\* copy of its context, and everyone awaits that one task.
ItemPublish(i) ==
    /\ Released(i) /\ ~Direct /\ pub.pc # "done"
    /\ pub' = IF pub.pc = "idle" THEN [task[i] EXCEPT !.pc = "created", !.wake = now] ELSE pub
    /\ task' = [task EXCEPT ![i].pc = "awaiting"]
    /\ UNCHANGED <<run, now, owner, main, stored, listed, ready, ledger, trace>>

\* The publication: put_batch binds the publisher in the task's own context.
PubOpen ==
    /\ Due(pub, "created")
    /\ stored' = stored \cup {Publishers[1]}
    /\ pub' = Charging(Bound(pub, Publishers[1]), "putting",
                       PutParts(Publishers[1], SelectVolume(Publishers[1])))
    /\ UNCHANGED <<run, now, owner, main, task, listed, ready, ledger, trace>>

PubCharge ==
    /\ Due(pub, "putting")
    /\ Emit(pub.sleeps[1])
    /\ pub' = IF LastSleep(pub) THEN [pub EXCEPT !.pc = "done"] ELSE NextSleep(pub)
    /\ UNCHANGED <<run, now, owner, main, task, stored, listed, ready>>

\* Readiness taken from the store, where a payload lands unpaid.
SourceStored(v) == v \in stored

\* The readiness a route's source gives: an origin once it has published, a
\* relay once it has notified.
SourceReady(v) == v \in ready \/ (v \in Origins /\ pub.pc = "done")

\* The client builds its transport with whatever factory is installed, for
\* whoever is bound; the store is read before anything is charged.  A task
\* that outlives the run's block finds the original factory.
Opened(th) ==
    IF owner = Mesh
    THEN [Charging(th, "getting", GetParts(th.src, th.from)) EXCEPT !.opened = now]
    ELSE [th EXCEPT !.pc = "stray"]

\* _fetch binds the requester, then waits for the source its route names.
ItemRouted(i) ==
    LET bound == BindSource(i, [task[i] EXCEPT !.pc = "routed", !.from = run.route[i]]) IN
    /\ ~Direct /\ pub.pc = "done"
    /\ Released(i) \/ task[i].pc = "awaiting"
    /\ task' = IF SourceReady(run.route[i]) THEN [bound EXCEPT ![i] = Opened(@)] ELSE bound
    /\ UNCHANGED <<run, now, owner, main, pub, stored, listed, ready, ledger, trace>>

ItemOpen(i) ==
    /\ Due(task[i], "located") \/ (task[i].pc = "routed" /\ SourceReady(task[i].from))
    /\ task' = [task EXCEPT ![i] = Opened(@)]
    /\ UNCHANGED <<run, now, owner, main, pub, stored, listed, ready, ledger, trace>>

\* The item's coroutine returns, and the runner writes its outcome row.
Finished(i, l) ==
    [l EXCEPT !.rows = @ \cup {Outcome(i, run.release[i], now)}]

IsRelay(i) == ~Direct /\ \E j \in Items : run.route[j] = i

\* A sleep of the get ends; after the last one a reader is done, unless its
\* route makes it a relay, which first stores what it read.  A reader that
\* asked the directory records that it is done; a routed one does not.
ItemCharge(i) ==
    LET th == task[i] parts == th.sleeps[1] IN
    /\ Due(th, "getting")
    /\ CASE ~LastSleep(th) ->
              task' = [task EXCEPT ![i] = NextSleep(@)] /\ Emit(parts) /\ UNCHANGED stored
         [] LastSleep(th) /\ IsRelay(i) ->
              /\ task' = [task EXCEPT ![i] = Charging(@, "keeping", PutParts(i, SelectVolume(i)))]
              /\ stored' = stored \cup {i}
              /\ Emit(parts)
         [] OTHER ->
              /\ task' = [task EXCEPT ![i].pc = "done"]
              /\ ledger' = Finished(i, Accounted(ledger, parts))
              /\ trace' = IF Direct
                          THEN trace \o Rows(Emitted(parts))
                                     \o << [at |-> now, kind |-> "burst", what |-> i] >>
                          ELSE trace \o Rows(Emitted(parts))
              /\ UNCHANGED stored
    /\ UNCHANGED <<run, now, owner, main, pub, listed, ready>>

\* The relay's write-through ends: it notifies readiness and returns.
RelayCharge(i) ==
    LET th == task[i] parts == th.sleeps[1] IN
    /\ Due(th, "keeping")
    /\ IF LastSleep(th)
       THEN /\ task' = [task EXCEPT ![i].pc = "done"]
            /\ ready' = ready \cup {i}
            /\ ledger' = Finished(i, Accounted(ledger, parts))
            /\ trace' = trace \o Rows(Emitted(parts))
       ELSE /\ task' = [task EXCEPT ![i] = NextSleep(@)]
            /\ Emit(parts)
            /\ UNCHANGED ready
    /\ UNCHANGED <<run, now, owner, main, pub, stored, listed>>

\* A gather that takes the first item to finish for all of them.
GatherFirst ==
    /\ main.pc = "gathering"
    /\ \E i \in Items : task[i].pc = "done"
    /\ main' = [main EXCEPT !.pc = "returned"]
    /\ ledger' = [ledger EXCEPT !.wallclock = now]
    /\ owner' = Left(owner)
    /\ UNCHANGED <<run, now, task, pub, stored, listed, ready, trace>>

\* gather returns when every item has, and raises with the first that did;
\* either way the mesh's block is left.
Gather ==
    /\ main.pc = "gathering"
    /\ \/ /\ \A i \in Items : task[i].pc = "done"
          /\ main' = [main EXCEPT !.pc = "returned"]
          /\ ledger' = [ledger EXCEPT !.wallclock = now]
       \/ /\ \E i \in Items : task[i].pc = "failed"
          /\ main' = [main EXCEPT !.pc = "raised"]
          /\ ledger' = ledger
    /\ owner' = Left(owner)
    /\ UNCHANGED <<run, now, task, pub, stored, listed, ready, trace>>

\* run_until_complete stops the loop and Simulation.run closes it: nothing
\* that is left runs again.
Close ==
    /\ main.pc \in {"returned", "raised", "refused"}
    /\ main' = [main EXCEPT !.pc = "closed"]
    /\ UNCHANGED <<run, now, owner, task, pub, stored, listed, ready, ledger, trace>>

-----------------------------------------------------------------------------
(* The virtual clock: it jumps to the earliest timer when nothing is ready. *)

Asleep(th) ==
    th.pc \in {"generating", "putting", "notifying", "notified", "created", "released",
               "locating", "located", "getting", "keeping"}

Timers == {th.wake : th \in {t \in {main, pub} \cup Range(task) : Asleep(t)}}

SomethingReady ==
    \/ main.pc \in {"start", "returned", "raised", "refused"}
    \/ main.pc = "gathering" /\ ( \/ \A i \in Items : task[i].pc = "done"
                                  \/ \E i \in Items : task[i].pc = "failed" )
    \/ \E i \in Items : \/ task[i].pc = "awaiting" /\ pub.pc = "done"
                        \/ task[i].pc = "routed" /\ SourceReady(task[i].from)
    \/ \E w \in Timers : w <= now

Advance ==
    /\ main.pc # "closed" /\ ~SomethingReady /\ Timers # {}
    /\ now' = Min(Timers)
    /\ UNCHANGED <<run, owner, main, task, pub, stored, listed, ready, ledger, trace>>

\* The process ends with the run.
Terminated == main.pc = "closed" /\ UNCHANGED vars

Main == Generate \/ PublishFirst \/ PutCharge \/ PutListed \/ PublishNext \/ ReleaseItems
        \/ Gather \/ Close

Item(i) ==
    \/ ItemSleep(i) \/ ItemLocate(i) \/ ItemLocated(i) \/ ItemPublish(i) \/ ItemRouted(i)
    \/ ItemOpen(i) \/ ItemCharge(i) \/ RelayCharge(i)

Next ==
    \/ main.pc # "closed" /\ (Main \/ PubOpen \/ PubCharge \/ (\E i \in Items : Item(i)))
    \/ Advance
    \/ Terminated

Spec == Init /\ [][Next]_vars

-----------------------------------------------------------------------------
(* The determinism gate: the trace is folded into a chain of digests, and   *)
(* two runs are compared digest by digest.                                 *)

ChainSeed == << >>

\* A digest of the one before it and an event; distinct inputs never collide.
ChainFold(prev, event) == << prev, event >>

\* The digest of the first k events, for every k.
Chain(events) ==
    LET digest[k \in 0 .. Len(events)] ==
            IF k = 0 THEN ChainSeed ELSE ChainFold(digest[k - 1], events[k])
    IN  digest

ChainDigests(events) == [k \in DOMAIN events |-> Chain(events)[k]]

Fingerprint(events) == Chain(events)[Len(events)]

NoEvent == "run ended here"

\* Where two runs first differ, 0-based, with what each recorded there and the
\* shared events before it.
Divergence(a, b, index, context) ==
    LET at(s) == IF index < Len(s) THEN s[index + 1] ELSE NoEvent
    IN  [index |-> index, a |-> at(a), b |-> at(b),
         context |-> SubSeq(a, Max({0, index - context}) + 1, index)]

\* No divergence: the runs are byte-identical.
Identical == {}

\* A comparison that stops where the shorter run does.
FirstDivergenceShortest(a, b, context) ==
    LET ca == ChainDigests(a)
        cb == ChainDigests(b)
        differ == {k \in 1 .. Min({Len(ca), Len(cb)}) : ca[k] # cb[k]}
    IN  IF differ = {} THEN Identical ELSE {Divergence(a, b, Min(differ) - 1, context)}

\* first_divergence: the first digest that differs, else the end of the
\* shorter run, else nothing.
FirstDivergence(a, b, context) ==
    LET ca == ChainDigests(a)
        cb == ChainDigests(b)
        n == Min({Len(ca), Len(cb)})
        differ == {k \in 1 .. n : ca[k] # cb[k]}
    IN  CASE differ # {} -> {Divergence(a, b, Min(differ) - 1, context)}
          [] differ = {} /\ Len(a) # Len(b) -> {Divergence(a, b, n, context)}
          [] OTHER -> Identical

-----------------------------------------------------------------------------
(* Properties *)

\* The rows of the fabric charges of an item's read, and the items that have one.
Fetches(i) == {k \in DOMAIN trace : /\ trace[k].kind = "xfer"
                                    /\ trace[k].what.op = "get"
                                    /\ trace[k].what.to = i}

Shipped == {i \in Items : Fetches(i) # {}}

\* Every byte the ledger counts was served by the volume the directory or
\* the route named, to the client that asked: the shared factory resolves
\* its caller from a task-local binding, and the transfers of concurrent
\* readers are never attributed to one another (seams/factory.py, mesh.py
\* _build, report.py record_transfer).
LedgerTrue ==
    /\ Range(ledger.edges) = {<<task[i].from, i>> : i \in Shipped}
    /\ ledger.transfer = Bytes * Len(ledger.edges)
    /\ Len(ledger.edges) = Cardinality(Shipped)
    /\ ledger.origin = Bytes * Cardinality({i \in Shipped : task[i].from \in Origins})
    /\ \A i \in Items : task[i].pc \in {"keeping", "done"} => i \in Shipped

\* What the serving volume charges a read for before the fabric does, and how
\* long after the transport was opened that is over.
Serving == {"read", "copy"}

ChargeOf(op) == IF op = "read" THEN StorageTime(Bytes, "read") ELSE MemCopyTime(Bytes)

EndsAfter(op) == IF op = "read" THEN ChargeOf("read") ELSE ChargeOf("read") + ChargeOf("copy")

\* The instant of its row: collapsed charges all end when the bytes arrive.
EndedAt(i, op) ==
    task[i].opened + IF run.config.collapse_charges THEN ReadTime(task[i].from, i, Bytes)
                     ELSE EndsAfter(op)

\* The rows of such charges at a volume, of one instant.
ServingRows(v, op, t) == {k \in DOMAIN trace : /\ trace[k].kind \in {"store", "mem"}
                                               /\ trace[k].what.op = op
                                               /\ trace[k].what.from = v
                                               /\ trace[k].at = t}

\* A read that predictor and transport price the same: whichever component
\* charges it is made of, collapsed or not, and whatever ran between them,
\* the bytes arrive exactly read_time after the transport was opened, and
\* each component that is not free has left a row, at the instant it was
\* over, that no other read of the same volume shares (transport.py
\* get_from_storage_volume, cost_model.py _read_time).
PriceHolds ==
    /\ \A i \in Items : \A k \in Fetches(i) :
           trace[k].at = task[i].opened + ReadTime(task[i].from, i, Bytes)
    /\ \A i \in Shipped : \A op \in {o \in Serving : ChargeOf(o) > 0} :
           LET v == task[i].from
               t == EndedAt(i, op)
           IN  Cardinality({j \in Shipped : task[j].from = v /\ EndedAt(j, op) = t})
                  <= Cardinality(ServingRows(v, op, t))

\* The rows of the storage charges of a volume's put.
Writes(v) == {k \in DOMAIN trace : /\ trace[k].kind = "store"
                                   /\ trace[k].what.op = "write"
                                   /\ trace[k].what.to = v}

\* A payload is in its volume before its put has been paid for, and still no
\* read of it opens until it has: the directory and the readiness service
\* hear of a put only when its charges are over, and a publication every
\* reader waits for runs once (transport.py put_to_storage_volume,
\* _routing.py _RoutingPlane.execute).
PaidBeforeRead ==
    /\ \A v \in Volumes : Cardinality(Writes(v)) <= 1
    /\ \A i \in Items : task[i].pc \in {"getting", "keeping", "done"} =>
           \E k \in Writes(task[i].from) : trace[k].at <= task[i].opened

\* The process-wide substitution is never claimed by two at once, is the
\* mesh's for exactly as long as items are being gathered, and is given back
\* whichever way the run ends; no item outlives the block unless another one
\* failed (factory.py installed, runner.py run).
PatchReturned ==
    /\ main.pc # "refused"
    /\ owner = Mesh <=> main.pc = "gathering"
    /\ main.pc \in {"returned", "raised", "closed"} => owner = Nobody
    /\ \A i \in Items : task[i].pc = "stray" => run.missing # {}

\* A run that returns has one outcome row per item, and its wallclock is the
\* last item's completion; one that raises does so for an item that failed,
\* and never stamps a wallclock (runner.py run and _run_one).
OutcomesComplete ==
    /\ main.pc = "returned" =>
           /\ Cardinality(ledger.rows) = ledger.total
           /\ {r.id : r \in ledger.rows} = Items
           /\ ledger.wallclock = Max({r.done : r \in ledger.rows})
    /\ main.pc = "raised" => /\ ledger.wallclock = 0
                             /\ \E i \in run.missing : \A r \in ledger.rows : r.id # i

\* Whatever two runs did alike before, the determinism gate names the place
\* where they part: a run that stopped short, one whose events of the same
\* instant ran in another order (as a seeded engine's may), and one that
\* recorded an event at another instant, are each told from this run at
\* exactly that event, although digests only ever say "differs from here on"
\* (sim_common/diverge.py first_divergence, trace.py chain_digests).
DivergenceFound ==
    LET n == Len(trace)
        later(k) == [trace[k] EXCEPT !.at = @ + 1]
        altered(k) == [trace EXCEPT ![k] = later(k)]
        swapped(k) == [trace EXCEPT ![k] = trace[k + 1], ![k + 1] = trace[k]]
        context(k) == SubSeq(trace, Max({1, k - 2}), k)
    IN  main.pc = "closed" =>
        /\ FirstDivergence(trace, trace, 3) = Identical
        /\ \A k \in 0 .. n - 1 :
              /\ FirstDivergence(trace, SubSeq(trace, 1, k), 3)
                    = {[index |-> k, a |-> trace[k + 1], b |-> NoEvent, context |-> context(k)]}
              /\ Fingerprint(SubSeq(trace, 1, k)) # Fingerprint(trace)
        /\ \A k \in 1 .. n :
              /\ FirstDivergence(trace, altered(k), 3)
                    = {[index |-> k - 1, a |-> trace[k], b |-> later(k), context |-> context(k - 1)]}
              /\ Fingerprint(altered(k)) # Fingerprint(trace)
        /\ \A k \in 1 .. n - 1 :
              trace[k] # trace[k + 1] =>
                 /\ FirstDivergence(trace, swapped(k), 3)
                       = {[index |-> k - 1, a |-> trace[k], b |-> trace[k + 1],
                           context |-> context(k - 1)]}
                 /\ Fingerprint(swapped(k)) # Fingerprint(trace)
=============================================================================
